------------------------- MODULE CampaignPurgeProofs -------------------------
(***************************************************************************)
(* Theorems about CampaignPurge, for any number of campaigns, sessions,    *)
(* chunks and deletions at once, and however often storage, the database   *)
(* or the gateway fail: no audio is left that nothing names but what a     *)
(* deletion could not know of.                                             *)
(***************************************************************************)
EXTENDS CampaignPurge, TLAPS, WellFoundedInduction

(* What a deletion at work has before it: each chunk of its campaign is in  *)
(* a prefix still to be purged, among the keys to be deleted, or came late. *)
Passed ==
    \A d \in Deleters : purge[d] # Idle =>
        \A o \in chunk : o[1] \in SessionsOf(purge[d].of) =>
            o[1] \in purge[d].todo \/ o \in purge[d].keys \/ o \in purge[d].late

(* Nobody records, or has chunks of, a session that is not in the table yet. *)
NewSilent ==
    /\ \A o \in chunk : row[o[1]] # New
    /\ rec # None => row[rec.s] # New
    /\ command.pc \in {"join", "leave", "flush"} => row[command.s] # New
    /\ command.pc = "flush" => row[command.rec.s] # New

IInv == TypeOK /\ Passed /\ NewSilent /\ AudioNamed
-----------------------------------------------------------------------------
LEMMA MaxOfNumbers ==
    ASSUME NEW S \in SUBSET (0..MaxChunks), S # {}
    PROVE  Max(S) \in S
<1> DEFINE T == {MaxChunks - x : x \in S}
<1>1. T \subseteq Nat /\ T # {}
  <2>1. PICK x \in S : TRUE
    OBVIOUS
  <2>2. MaxChunks - x \in T
    OBVIOUS
  <2>3. \A y \in S : MaxChunks - y \in Nat
    BY PurgeBounds
  <2> QED BY <2>2, <2>3
<1>2. PICK m \in T : \A q \in T : ~ (<<q, m>> \in OpToRel(<, Nat))
  BY <1>1, NatLessThanWellFounded, WFMin
<1>3. PICK x \in S : m = MaxChunks - x
  BY <1>2
<1>4. ASSUME NEW y \in S PROVE x >= y
  <2>1. MaxChunks - y \in T
    OBVIOUS
  <2>2. <<MaxChunks - y, m>> \in OpToRel(<, Nat) <=> MaxChunks - y < m
    BY <1>1, <1>2, <2>1, Zenon DEF OpToRel
  <2>3. ~ (MaxChunks - y < MaxChunks - x)
    BY <1>2, <1>3, <2>1, <2>2, Zenon
  <2> QED BY <2>3, PurgeBounds
<1> QED BY <1>4 DEF Max

(* A row that says recording is in the table, and closing rows neither      *)
(* takes one out nor moves it to another campaign.                          *)
LEMMA ClosedKeeps ==
    ASSUME row \in [Sessions -> Row \cup {New, Gone}], NEW S \in SUBSET Sessions
    PROVE  /\ Closed(S) \in [Sessions -> Row \cup {New, Gone}]
           /\ \A s \in Sessions :
                 /\ Closed(S)[s] \in Row <=> row[s] \in Row
                 /\ Closed(S)[s] = New <=> row[s] = New
                 /\ row[s] \in Row => Closed(S)[s].of = row[s].of
<1>1. ASSUME NEW s \in Sessions
      PROVE  /\ Closed(S)[s] \in Row \cup {New, Gone}
             /\ Closed(S)[s] \in Row <=> row[s] \in Row
             /\ Closed(S)[s] = New <=> row[s] = New
             /\ row[s] \in Row => Closed(S)[s].of = row[s].of
  <2>1. CASE s \in S \cap Live
    <3>1. row[s] \in Row
      BY <2>1 DEF Live, New, Gone
    <3>2. Closed(S)[s] = [row[s] EXCEPT !.state = "ended"]
      BY <2>1 DEF Closed
    <3>3. /\ [row[s] EXCEPT !.state = "ended"] \in Row
          /\ [row[s] EXCEPT !.state = "ended"].of = row[s].of
      BY <3>1 DEF Row
    <3> QED BY <3>1, <3>2, <3>3 DEF Row, New, Gone
  <2>2. CASE s \notin S \cap Live
    BY <2>2 DEF Closed
  <2> QED BY <2>1, <2>2
<1> QED BY <1>1 DEF Closed

LEMMA InitInv == Init => IInv
<1> SUFFICES ASSUME Init PROVE IInv
  OBVIOUS
<1>1. TypeOK
  BY PurgeBounds DEF Init, TypeOK, Command, Purge
<1> QED BY <1>1 DEF Init, IInv, Passed, NewSilent, AudioNamed, Idle
-----------------------------------------------------------------------------
LEMMA PurgeFields ==
    ASSUME TypeOK, NEW d \in Deleters, purge[d] # Idle
    PROVE  /\ purge[d] \in [pc : {"purge"}, of : Campaigns, todo : SUBSET Sessions,
                            keys : SUBSET Chunk, late : SUBSET Chunk]
           /\ purge[d].of \in Campaigns /\ purge[d].todo \in SUBSET Sessions
           /\ purge[d].keys \in SUBSET Chunk /\ purge[d].late \in SUBSET Chunk
BY DEF TypeOK, Purge

LEMMA CommandFields ==
    ASSUME TypeOK
    PROVE  /\ command.pc = "join" => /\ command.s \in Sessions /\ command.seq \in 0..MaxChunks
                                     /\ command.resumed \in BOOLEAN
           /\ command.pc = "leave" => command.s \in Sessions
           /\ command.pc = "flush" => command.s \in Sessions /\ command.rec \in Recording
BY DEF TypeOK, Command, Idle

LEMMA RecordingFields ==
    ASSUME NEW r \in Recording
    PROVE  r # None /\ r.s \in Sessions /\ r.seq \in 1..(MaxChunks + 1)
<1>1. r \in [s : Sessions, seq : Nat]
  BY PurgeBounds DEF Recording
<1> QED BY <1>1, NoneAssumption DEF Recording

(* Storing a chunk keeps the types of what it changes. *)
LEMMA PutTypes ==
    ASSUME TypeOK, NEW s \in Sessions, NEW n \in Numbers, Put(<<s, n>>)
    PROVE  chunk' \subseteq Chunk /\ missed' \subseteq Chunk /\ purge' \in [Deleters -> Purge]
<1>1. <<s, n>> \in Chunk
  BY DEF Chunk
<1>2. chunk' \subseteq Chunk /\ missed' \subseteq Chunk
  BY <1>1 DEF TypeOK, Put
<1>3. ASSUME NEW d \in Deleters, purge[d] # Idle
      PROVE  [purge[d] EXCEPT !.late = @ \cup {<<s, n>>}] \in Purge
  <2>1. purge[d] \in [pc : {"purge"}, of : Campaigns, todo : SUBSET Sessions,
                      keys : SUBSET Chunk, late : SUBSET Chunk]
    BY <1>3, PurgeFields
  <2>2. [purge[d] EXCEPT !.late = @ \cup {<<s, n>>}]
            \in [pc : {"purge"}, of : Campaigns, todo : SUBSET Sessions,
                 keys : SUBSET Chunk, late : SUBSET Chunk]
    BY <2>1, <1>1
  <2> QED BY <2>2 DEF Purge
<1>4. purge' \in [Deleters -> Purge]
  BY <1>3 DEF TypeOK, Put
<1> QED BY <1>2, <1>4

LEMMA TypeStep ==
    ASSUME TypeOK, Next
    PROVE  TypeOK'
<1> USE DEF TypeOK
<1>1. ASSUME NEW s \in Sessions, NEW c \in Campaigns, Start(s, c)
      PROVE  TypeOK'
  <2>1. [state |-> "recording", of |-> c, named |-> FALSE] \in Row
    BY DEF Row
  <2>2. row' \in [Sessions -> Row \cup {New, Gone}]
    BY <1>1, <2>1, ClosedKeeps DEF Start
  <2>3. command' \in Command
    BY <1>1, PurgeBounds DEF Start, Command
  <2> QED BY <1>1, <2>2, <2>3 DEF Start
<1>2. CASE JoinOpens
  <2>1. command.s \in Sessions /\ command.seq \in 0..MaxChunks
    BY <1>2, CommandFields DEF JoinOpens
  <2>2. rec' \in Recording
    BY <1>2, <2>1, PurgeBounds DEF JoinOpens, Recording
  <2>3. CASE row' = row /\ faults' = faults
    BY <1>2, <2>2, <2>3 DEF JoinOpens, Command
  <2>4. CASE row' = row /\ Disturb
    BY <1>2, <2>2, <2>4, PurgeBounds DEF JoinOpens, Command, Disturb
  <2>5. CASE /\ row[command.s] # Gone /\ faults' = faults
             /\ row' = [row EXCEPT ![command.s].named = TRUE]
    <3>1. CASE row[command.s] = New
      <4>1. [New EXCEPT !.named = TRUE] = New
        BY DEF New
      <4>2. row' = [row EXCEPT ![command.s] = New]
        BY <2>5, <3>1, <4>1
      <4> QED BY <1>2, <2>2, <2>5, <4>2 DEF JoinOpens, Command
    <3>2. CASE row[command.s] \in Row
      <4>1. [row[command.s] EXCEPT !.named = TRUE] \in Row
        BY <3>2 DEF Row
      <4>2. row' \in [Sessions -> Row \cup {New, Gone}]
        BY <2>5, <4>1
      <4> QED BY <1>2, <2>2, <2>5, <4>2 DEF JoinOpens, Command
    <3> QED BY <2>1, <2>5, <3>1, <3>2
  <2> QED BY <1>2, <2>3, <2>4, <2>5 DEF JoinOpens
<1>3. CASE JoinFails
  <2>1. command.s \in Sessions
    BY <1>3, CommandFields DEF JoinFails
  <2>2. row' \in [Sessions -> Row \cup {New, Gone}]
    BY <1>3, <2>1, ClosedKeeps DEF JoinFails
  <2> QED BY <1>3, <2>2 DEF JoinFails, Command
<1>4. CASE Checkpoint
  <2>1. rec \in Recording /\ rec.s \in Sessions /\ rec.seq \in Numbers
    BY <1>4, RecordingFields DEF Checkpoint
  <2>2. chunk' \subseteq Chunk /\ missed' \subseteq Chunk /\ purge' \in [Deleters -> Purge]
    BY <1>4, <2>1, PutTypes DEF Checkpoint
  <2>3. [rec EXCEPT !.seq = @ + 1] \in Recording
    BY <2>1, PurgeBounds DEF Recording, Numbers
  <2>4. rec' \in Recording
    BY <1>4, <2>1, <2>3 DEF Checkpoint
  <2> QED BY <1>4, <2>2, <2>4 DEF Checkpoint
<1>5. CASE StopLeaves
  <2>1. command.s \in Sessions /\ rec \in Recording
    BY <1>5, CommandFields DEF StopLeaves
  <2>2. command' \in Command
    BY <1>5, <2>1 DEF StopLeaves, Command
  <2> QED BY <1>5, <2>2 DEF StopLeaves
<1>6. CASE StopFlushes
  <2>1. command.s \in Sessions /\ command.rec \in Recording /\ command.rec.s \in Sessions
    BY <1>6, CommandFields, RecordingFields DEF StopFlushes
  <2>2. chunk' \subseteq Chunk /\ missed' \subseteq Chunk /\ purge' \in [Deleters -> Purge]
    <3>1. CASE command.rec.seq \in Numbers /\ Put(<<command.rec.s, command.rec.seq>>)
      BY <2>1, <3>1, PutTypes
    <3>2. CASE UNCHANGED <<chunk, purge, missed>>
      BY <3>2
    <3> QED BY <1>6, <3>1, <3>2 DEF StopFlushes
  <2>3. row' \in [Sessions -> Row \cup {New, Gone}]
    BY <1>6, <2>1, ClosedKeeps DEF StopFlushes
  <2> QED BY <1>6, <2>2, <2>3 DEF StopFlushes, Command
<1>7. ASSUME NEW s \in Sessions, StopLookup(s) PROVE TypeOK'
  <2>1. Closed({s}) \in [Sessions -> Row \cup {New, Gone}]
    BY ClosedKeeps
  <2>2. [pc |-> "leave", s |-> s] \in Command
    BY DEF Command
  <2> QED BY <1>7, <2>1, <2>2 DEF StopLookup
<1>8. ASSUME NEW s \in Sessions, Reap(s) PROVE TypeOK'
  <2>1. Closed({s}) \in [Sessions -> Row \cup {New, Gone}]
    BY ClosedKeeps
  <2> QED BY <1>8, <2>1 DEF Reap
<1>9. CASE Restart
  <2>1. rec # None /\ rec.seq \in Numbers => <<rec.s, rec.seq>> \in Chunk
    BY RecordingFields DEF Chunk
  <2>2. chunk' \subseteq Chunk /\ missed' \subseteq Chunk
    BY <1>9, <2>1 DEF Restart
  <2>3. command' \in Command /\ purge' \in [Deleters -> Purge]
    BY <1>9 DEF Restart, Command, Purge
  <2> QED BY <1>9, <2>2, <2>3, PurgeBounds DEF Restart, Disturb
<1>10. CASE ResumeActive
  <2>1. CASE Live = {}
    BY <1>10, <2>1 DEF ResumeActive, Command
  <2>2. CASE Live # {}
    <3>1. PICK s \in Live :
              command' = [pc |-> "join", s |-> s, resumed |-> TRUE,
                          seq |-> Max({0} \cup {o[2] : o \in ChunksOf({s})})]
      BY <1>10, <2>2 DEF ResumeActive
    <3> DEFINE N == {0} \cup {o[2] : o \in ChunksOf({s})}
    <3>2. N \subseteq 0..MaxChunks /\ N # {}
      BY PurgeBounds DEF ChunksOf, Chunk, Numbers
    <3>3. Max(N) \in 0..MaxChunks
      BY <3>2, MaxOfNumbers
    <3> HIDE DEF N
    <3>4. [pc |-> "join", s |-> s, resumed |-> TRUE, seq |-> Max(N)] \in Command
      BY <3>1, <3>3 DEF Command, Live
    <3>5. command' \in Command
      BY <3>1, <3>4 DEF N
    <3> QED BY <1>10, <3>5 DEF ResumeActive
  <2> QED BY <2>1, <2>2
<1>11. ASSUME NEW d \in Deleters, NEW c \in Campaigns, DeleteBegins(d, c)
       PROVE  TypeOK'
  <2> DEFINE listed == {s \in SessionsOf(c) : row[s].named}
             p == [pc |-> "purge", of |-> c, todo |-> listed, keys |-> {},
                   late |-> ChunksOf(SessionsOf(c) \ listed)]
  <2>1. listed \in SUBSET Sessions /\ ChunksOf(SessionsOf(c) \ listed) \in SUBSET Chunk
    BY DEF SessionsOf, ChunksOf
  <2>2. p \in Purge
    BY <2>1 DEF Purge
  <2>3. purge' = [purge EXCEPT ![d] = p]
    BY <1>11 DEF DeleteBegins
  <2> HIDE DEF p
  <2> QED BY <1>11, <2>2, <2>3 DEF DeleteBegins
<1>12. ASSUME NEW d \in Deleters, PurgeLists(d) PROVE TypeOK'
  <2>1. PICK s \in purge[d].todo :
            purge' = [purge EXCEPT ![d].todo = @ \ {s}, ![d].keys = ChunksOf({s})]
    BY <1>12 DEF PurgeLists
  <2> DEFINE p == [purge[d] EXCEPT !.todo = @ \ {s}, !.keys = ChunksOf({s})]
  <2>2. purge[d] \in [pc : {"purge"}, of : Campaigns, todo : SUBSET Sessions,
                      keys : SUBSET Chunk, late : SUBSET Chunk]
    BY <1>12, PurgeFields DEF PurgeLists
  <2>3. ChunksOf({s}) \in SUBSET Chunk
    BY DEF ChunksOf
  <2>4. p \in Purge
    BY <2>2, <2>3 DEF Purge
  <2>5. purge' = [purge EXCEPT ![d] = p]
    BY <2>1
  <2> HIDE DEF p
  <2> QED BY <1>12, <2>4, <2>5 DEF PurgeLists
<1>13. ASSUME NEW d \in Deleters, PurgeDeletes(d) PROVE TypeOK'
  <2>1. PICK batch \in SUBSET purge[d].keys :
            chunk' = chunk \ batch /\ purge' = [purge EXCEPT ![d].keys = @ \ batch]
    BY <1>13 DEF PurgeDeletes
  <2> DEFINE p == [purge[d] EXCEPT !.keys = @ \ batch]
  <2>2. purge[d] \in [pc : {"purge"}, of : Campaigns, todo : SUBSET Sessions,
                      keys : SUBSET Chunk, late : SUBSET Chunk]
    BY <1>13, PurgeFields DEF PurgeDeletes
  <2>3. p \in Purge
    BY <2>2 DEF Purge
  <2>4. purge' = [purge EXCEPT ![d] = p]
    BY <2>1
  <2> HIDE DEF p
  <2> QED BY <1>13, <2>1, <2>3, <2>4 DEF PurgeDeletes
<1>14. ASSUME NEW d \in Deleters, DeleteFails(d) PROVE TypeOK'
  BY <1>14, PurgeBounds DEF DeleteFails, Disturb, Purge
<1>15. ASSUME NEW d \in Deleters, DeleteCampaign(d) PROVE TypeOK'
  <2>1. purge[d].late \in SUBSET Chunk
    BY <1>15, PurgeFields DEF DeleteCampaign
  <2> QED BY <1>15, <2>1 DEF DeleteCampaign, DeleteRows, Purge
<1> QED BY <1>1, <1>2, <1>3, <1>4, <1>5, <1>6, <1>7, <1>8, <1>9, <1>10, <1>11, <1>12, <1>13,
           <1>14, <1>15 DEF Next
-----------------------------------------------------------------------------
(* What every step but the end of a deletion does to the rows: none leaves  *)
(* the table or changes its campaign, and none becomes new.                 *)
RowsKept ==
    \A s \in Sessions :
        /\ row'[s] = New => row[s] = New
        /\ row[s] \in Row => row'[s] \in Row
        /\ row[s] # New /\ row'[s] \in Row => row[s] \in Row /\ row'[s].of = row[s].of

(* What every step but a deletion's own does to the deletions: what they    *)
(* have before them stays, and they are told of what is stored behind them. *)
PurgesTold ==
    \A d \in Deleters : purge'[d] # Idle =>
        /\ purge[d] # Idle
        /\ purge'[d].of = purge[d].of /\ purge'[d].todo = purge[d].todo
        /\ purge'[d].keys = purge[d].keys /\ purge[d].late \subseteq purge'[d].late
        /\ \A o \in chunk' \ chunk :
              o[1] \in SessionsOf(purge[d].of) \ purge[d].todo => o \in purge'[d].late

(* New chunks are of sessions that are in the table, or were. *)
ChunksKnown ==
    \A o \in chunk' \ chunk : row[o[1]] # New /\ (row[o[1]] = Gone => o \in missed')

LEMMA RowsStay ==
    ASSUME UNCHANGED row
    PROVE  RowsKept
BY DEF RowsKept

LEMMA ClosingKeeps ==
    ASSUME TypeOK, NEW S \in SUBSET Sessions, row' = Closed(S)
    PROVE  RowsKept
<1>1. row \in [Sessions -> Row \cup {New, Gone}]
  BY DEF TypeOK
<1>2. \A s \in Sessions : /\ Closed(S)[s] \in Row <=> row[s] \in Row
                          /\ Closed(S)[s] = New <=> row[s] = New
                          /\ row[s] \in Row => Closed(S)[s].of = row[s].of
  BY <1>1, ClosedKeeps
<1> QED BY <1>2 DEF RowsKept

LEMMA StoringIsTold ==
    ASSUME TypeOK, NEW s \in Sessions, NEW n \in Numbers, row[s] # New, Put(<<s, n>>)
    PROVE  PurgesTold /\ ChunksKnown
<1>1. ASSUME NEW d \in Deleters, purge'[d] # Idle, purge[d] = Idle
      PROVE  FALSE
  BY <1>1 DEF Put, TypeOK
<1>2. ASSUME NEW d \in Deleters, purge[d] # Idle
      PROVE  /\ purge'[d].of = purge[d].of /\ purge'[d].todo = purge[d].todo
             /\ purge'[d].keys = purge[d].keys /\ purge[d].late \subseteq purge'[d].late
             /\ s \in SessionsOf(purge[d].of) \ purge[d].todo => <<s, n>> \in purge'[d].late
  <2>1. purge[d] \in [pc : {"purge"}, of : Campaigns, todo : SUBSET Sessions,
                      keys : SUBSET Chunk, late : SUBSET Chunk]
    BY <1>2, PurgeFields
  <2>2. CASE s \in SessionsOf(purge[d].of) \ purge[d].todo
    <3>1. purge'[d] = [purge[d] EXCEPT !.late = @ \cup {<<s, n>>}]
      BY <1>2, <2>2 DEF Put
    <3> QED BY <2>1, <3>1
  <2>3. CASE s \notin SessionsOf(purge[d].of) \ purge[d].todo
    <3>1. purge'[d] = purge[d]
      BY <2>3 DEF Put
    <3> QED BY <2>3, <3>1
  <2> QED BY <2>2, <2>3
<1>3. chunk' = chunk \cup {<<s, n>>}
  BY DEF Put
<1>4. PurgesTold
  BY <1>1, <1>2, <1>3 DEF PurgesTold
<1>5. ChunksKnown
  BY <1>3 DEF ChunksKnown, Put
<1> QED BY <1>4, <1>5

LEMMA NothingIsTold ==
    ASSUME UNCHANGED <<chunk, purge>>
    PROVE  PurgesTold /\ ChunksKnown
BY DEF PurgesTold, ChunksKnown

(* With that, nobody loses sight of a chunk. *)
LEMMA PassedKept ==
    ASSUME IInv, TypeOK', RowsKept, PurgesTold, ChunksKnown
    PROVE  Passed'
<1> SUFFICES ASSUME NEW d \in Deleters, purge'[d] # Idle, NEW o \in chunk',
                    o[1] \in SessionsOf(purge[d].of)'
             PROVE  o[1] \in purge'[d].todo \/ o \in purge'[d].keys \/ o \in purge'[d].late
  BY DEF Passed
<1>1. row[o[1]] # New /\ o[1] \in Sessions
  BY DEF IInv, NewSilent, ChunksKnown, SessionsOf
<1>2. /\ purge[d] # Idle
      /\ purge'[d].of = purge[d].of /\ purge'[d].todo = purge[d].todo
      /\ purge'[d].keys = purge[d].keys /\ purge[d].late \subseteq purge'[d].late
      /\ \A x \in chunk' \ chunk :
            x[1] \in SessionsOf(purge[d].of) \ purge[d].todo => x \in purge'[d].late
  BY DEF PurgesTold
<1>3. o[1] \in SessionsOf(purge[d].of)
  BY <1>1, <1>2 DEF RowsKept, SessionsOf
<1>4. CASE o \in chunk
  BY <1>2, <1>3, <1>4 DEF IInv, Passed
<1>5. CASE o \notin chunk
  BY <1>2, <1>3, <1>5
<1> QED BY <1>4, <1>5

LEMMA NamedKept ==
    ASSUME IInv, RowsKept, ChunksKnown, chunk' \subseteq Chunk, missed \subseteq missed'
    PROVE  AudioNamed' /\ \A o \in chunk' : row'[o[1]] # New
<1> SUFFICES ASSUME NEW o \in chunk'
             PROVE  (row'[o[1]] \in Row \/ o \in missed') /\ row'[o[1]] # New
  BY DEF AudioNamed
<1>1. o[1] \in Sessions /\ row[o[1]] \in Row \cup {New, Gone}
  BY DEF IInv, TypeOK, Chunk
<1>2. row[o[1]] # New /\ (row[o[1]] \in Row \/ o \in missed')
  BY <1>1 DEF ChunksKnown, IInv, NewSilent, AudioNamed
<1> QED BY <1>1, <1>2 DEF RowsKept
-----------------------------------------------------------------------------
(* The steps of the recording. *)
LEMMA RecordingStep ==
    ASSUME IInv,
           \/ JoinOpens \/ JoinFails \/ Checkpoint \/ StopLeaves \/ StopFlushes \/ ResumeActive
           \/ \E s \in Sessions : StopLookup(s) \/ Reap(s)
    PROVE  /\ RowsKept /\ PurgesTold /\ ChunksKnown /\ missed \subseteq missed'
           /\ rec' # None => row[rec'.s] # New /\ rec'.s \in Sessions
           /\ command'.pc \in {"join", "leave", "flush"} =>
                 row[command'.s] # New /\ command'.s \in Sessions
           /\ command'.pc = "flush" => row[command'.rec.s] # New /\ command'.rec.s \in Sessions
<1>1. TypeOK /\ NewSilent
  BY DEF IInv
<1>2. /\ rec # None => rec.s \in Sessions
      /\ command.pc \in {"join", "leave", "flush"} => command.s \in Sessions
      /\ command.pc = "flush" => command.rec.s \in Sessions
  BY <1>1, CommandFields, RecordingFields DEF TypeOK
<1> USE <1>1, <1>2 DEF NewSilent
<1>3. CASE JoinOpens
  <2>1. RowsKept
    <3>1. row[command.s] \in Row \cup {Gone}
      BY <1>3 DEF JoinOpens, TypeOK
    <3>2. CASE row' = row
      BY <3>2 DEF RowsKept
    <3>3. CASE row[command.s] \in Row /\ row' = [row EXCEPT ![command.s].named = TRUE]
      <4>1. /\ [row[command.s] EXCEPT !.named = TRUE] \in Row
            /\ [row[command.s] EXCEPT !.named = TRUE].of = row[command.s].of
        BY <3>3 DEF Row
      <4>2. New \notin Row
        BY DEF New, Row
      <4> QED BY <3>3, <4>1, <4>2 DEF RowsKept, TypeOK
    <3> QED BY <1>3, <3>1, <3>2, <3>3 DEF JoinOpens
  <2>2. PurgesTold /\ ChunksKnown
    BY <1>3, NothingIsTold DEF JoinOpens
  <2> QED BY <1>3, <2>1, <2>2 DEF JoinOpens, Idle
<1>4. CASE JoinFails
  <2>1. RowsKept
    BY <1>4, RowsStay, ClosingKeeps DEF JoinFails
  <2>2. PurgesTold /\ ChunksKnown
    BY <1>4, NothingIsTold DEF JoinFails
  <2> QED BY <1>4, <2>1, <2>2 DEF JoinFails, Idle
<1>5. CASE Checkpoint
  <2>1. RowsKept
    BY <1>5, RowsStay DEF Checkpoint
  <2>2. PurgesTold /\ ChunksKnown
    BY <1>5, StoringIsTold DEF Checkpoint
  <2>3. missed \subseteq missed'
    BY <1>5 DEF Checkpoint, Put
  <2>4. rec'.s = rec.s
    BY <1>5 DEF Checkpoint, TypeOK, Recording
  <2> QED BY <1>5, <2>1, <2>2, <2>3, <2>4 DEF Checkpoint
<1>6. CASE StopLeaves
  <2>1. RowsKept
    BY <1>6, RowsStay DEF StopLeaves
  <2>2. PurgesTold /\ ChunksKnown
    BY <1>6, NothingIsTold DEF StopLeaves
  <2> QED BY <1>6, <2>1, <2>2 DEF StopLeaves
<1>7. CASE StopFlushes
  <2>1. RowsKept
    BY <1>7, ClosingKeeps DEF StopFlushes
  <2>2. PurgesTold /\ ChunksKnown /\ missed \subseteq missed'
    <3>1. CASE command.rec.seq \in Numbers /\ Put(<<command.rec.s, command.rec.seq>>)
      <4>1. missed \subseteq missed'
        BY <3>1 DEF Put
      <4> QED BY <1>7, <3>1, <4>1, StoringIsTold DEF StopFlushes
    <3>2. CASE UNCHANGED <<chunk, purge, missed>>
      BY <3>2, NothingIsTold
    <3> QED BY <1>7, <3>1, <3>2 DEF StopFlushes
  <2> QED BY <1>7, <2>1, <2>2 DEF StopFlushes, Idle
<1>8. CASE ResumeActive
  <2>1. RowsKept
    BY <1>8, RowsStay DEF ResumeActive
  <2>2. PurgesTold /\ ChunksKnown
    BY <1>8, NothingIsTold DEF ResumeActive
  <2>3. \A s \in Live : row[s] # New /\ s \in Sessions
    BY DEF Live, New
  <2>4. CASE Live = {}
    BY <1>8, <2>1, <2>2, <2>4 DEF ResumeActive, Idle
  <2>5. CASE Live # {}
    <3>1. PICK s \in Live :
              command' = [pc |-> "join", s |-> s, resumed |-> TRUE,
                          seq |-> Max({0} \cup {o[2] : o \in ChunksOf({s})})]
      BY <1>8, <2>5 DEF ResumeActive
    <3>2. command'.pc = "join" /\ command'.s = s
      BY <3>1
    <3> QED BY <1>8, <2>1, <2>2, <2>3, <3>2 DEF ResumeActive
  <2> QED BY <2>4, <2>5
<1>9. CASE \E s \in Sessions : StopLookup(s)
  <2>1. PICK s \in Sessions : StopLookup(s)
    BY <1>9
  <2>2. RowsKept
    BY <2>1, RowsStay, ClosingKeeps DEF StopLookup
  <2>3. PurgesTold /\ ChunksKnown
    BY <2>1, NothingIsTold DEF StopLookup
  <2>4. row[s] # New
    BY <2>1 DEF StopLookup, Live, New
  <2> QED BY <2>1, <2>2, <2>3, <2>4 DEF StopLookup
<1>10. CASE \E s \in Sessions : Reap(s)
  <2>1. PICK s \in Sessions : Reap(s)
    BY <1>10
  <2>2. RowsKept
    BY <2>1, ClosingKeeps DEF Reap
  <2>3. PurgesTold /\ ChunksKnown
    BY <2>1, NothingIsTold DEF Reap
  <2> QED BY <2>1, <2>2, <2>3 DEF Reap
<1> QED BY <1>3, <1>4, <1>5, <1>6, <1>7, <1>8, <1>9, <1>10

LEMMA StartStep ==
    ASSUME IInv, TypeOK', NEW s \in Sessions, NEW c \in Campaigns, Start(s, c)
    PROVE  IInv'
<1>1. TypeOK /\ row[s] = New /\ command = Idle /\ UNCHANGED <<chunk, rec, purge, missed>>
  BY DEF IInv, Start
<1> DEFINE r == [state |-> "recording", of |-> c, named |-> FALSE]
<1>2. row' = [Closed(Sessions) EXCEPT ![s] = r]
  BY DEF Start
<1>3. r # New /\ r \in Row /\ New \notin Row
  BY DEF New, Row
<1> HIDE DEF r
<1>4. Closed(Sessions) \in [Sessions -> Row \cup {New, Gone}]
  BY <1>1, ClosedKeeps DEF TypeOK
<1>5. row'[s] = r
  BY <1>2, <1>4 DEF TypeOK
<1>6. ASSUME NEW t \in Sessions, row[t] # New
      PROVE  /\ row'[t] \in Row <=> row[t] \in Row
             /\ row'[t] # New
             /\ row[t] \in Row => row'[t].of = row[t].of
  <2>1. row'[t] = Closed(Sessions)[t]
    BY <1>1, <1>2, <1>4, <1>6
  <2> QED BY <1>1, <1>6, <2>1, ClosedKeeps DEF TypeOK
<1>7. \A o \in chunk : o[1] \in Sessions /\ row[o[1]] # New
  BY <1>1 DEF IInv, NewSilent, TypeOK, Chunk
<1>8. Passed'
  <2> SUFFICES ASSUME NEW d \in Deleters, purge[d] # Idle, NEW o \in chunk,
                      o[1] \in SessionsOf(purge[d].of)'
               PROVE  o[1] \in purge[d].todo \/ o \in purge[d].keys \/ o \in purge[d].late
    BY <1>1 DEF Passed
  <2>1. o[1] \in SessionsOf(purge[d].of)
    BY <1>1, <1>6, <1>7 DEF SessionsOf
  <2> QED BY <2>1 DEF IInv, Passed
<1>9. AudioNamed'
  <2> SUFFICES ASSUME NEW o \in chunk
               PROVE  row'[o[1]] \in Row \/ o \in missed
    BY <1>1 DEF AudioNamed
  <2> QED BY <1>6, <1>7 DEF IInv, AudioNamed
<1>10. NewSilent'
  <2>1. \A o \in chunk : row'[o[1]] # New
    BY <1>6, <1>7
  <2>2. ASSUME rec # None PROVE row'[rec.s] # New
    <3>1. rec.s \in Sessions /\ row[rec.s] # New
      BY <1>1, <2>2, RecordingFields DEF TypeOK, IInv, NewSilent
    <3> QED BY <1>6, <3>1
  <2>3. command'.pc = "join" /\ command'.s = s
    BY DEF Start
  <2> QED BY <1>1, <1>3, <1>5, <2>1, <2>2, <2>3 DEF NewSilent
<1> QED BY <1>8, <1>9, <1>10 DEF IInv

LEMMA RestartStep ==
    ASSUME IInv, TypeOK', Restart
    PROVE  IInv'
<1>1. TypeOK /\ UNCHANGED row /\ rec' = None /\ command' = [pc |-> "resume"]
  BY DEF IInv, Restart
<1>2. RowsKept
  BY <1>1, RowsStay
<1>3. ChunksKnown /\ missed \subseteq missed'
  BY DEF Restart, ChunksKnown, IInv, NewSilent
<1>4. AudioNamed' /\ \A o \in chunk' : row'[o[1]] # New
  BY <1>2, <1>3, NamedKept DEF TypeOK
<1>5. Passed'
  BY DEF Restart, Passed, Idle
<1>6. NewSilent'
  BY <1>1, <1>4 DEF NewSilent
<1> QED BY <1>4, <1>5, <1>6 DEF IInv

LEMMA RecordingInv ==
    ASSUME IInv, TypeOK',
           \/ JoinOpens \/ JoinFails \/ Checkpoint \/ StopLeaves \/ StopFlushes \/ ResumeActive
           \/ \E s \in Sessions : StopLookup(s) \/ Reap(s)
    PROVE  IInv'
<1>1. /\ RowsKept /\ PurgesTold /\ ChunksKnown /\ missed \subseteq missed'
      /\ rec' # None => row[rec'.s] # New /\ rec'.s \in Sessions
      /\ command'.pc \in {"join", "leave", "flush"} =>
            row[command'.s] # New /\ command'.s \in Sessions
      /\ command'.pc = "flush" => row[command'.rec.s] # New /\ command'.rec.s \in Sessions
  BY RecordingStep
<1>2. Passed'
  BY <1>1, PassedKept DEF IInv
<1>3. AudioNamed' /\ \A o \in chunk' : row'[o[1]] # New
  BY <1>1, NamedKept DEF TypeOK
<1>4. NewSilent'
  BY <1>1, <1>3 DEF NewSilent, RowsKept
<1> QED BY <1>2, <1>3, <1>4 DEF IInv

(* The steps of a deletion only take chunks away. *)
LEMMA PurgingNames ==
    ASSUME IInv, chunk' \subseteq chunk, UNCHANGED <<row, rec, command, missed>>
    PROVE  NewSilent' /\ AudioNamed'
BY DEF IInv, NewSilent, AudioNamed

LEMMA PurgingStep ==
    ASSUME IInv, TypeOK', NEW d \in Deleters,
           \/ \E c \in Campaigns : DeleteBegins(d, c)
           \/ PurgeLists(d) \/ PurgeDeletes(d) \/ DeleteFails(d)
    PROVE  IInv'
<1>1. TypeOK
  BY DEF IInv
<1>2. chunk' \subseteq chunk /\ UNCHANGED <<row, rec, command, missed>>
  BY DEF DeleteBegins, PurgeLists, PurgeDeletes, DeleteFails
<1>3. NewSilent' /\ AudioNamed'
  BY <1>2, PurgingNames
<1>4. \A e \in Deleters \ {d} : purge'[e] = purge[e]
  BY <1>1 DEF TypeOK, DeleteBegins, PurgeLists, PurgeDeletes, DeleteFails
<1>5. ASSUME NEW o \in chunk', purge'[d] # Idle, o[1] \in SessionsOf(purge[d].of)'
      PROVE  o[1] \in purge'[d].todo \/ o \in purge'[d].keys \/ o \in purge'[d].late
  <2>1. \A b : SessionsOf(b)' = SessionsOf(b)
    BY <1>2 DEF SessionsOf
  <2>2. o \in chunk /\ o \in Chunk
    BY <1>2, <1>1 DEF TypeOK
  <2>3. ASSUME NEW c \in Campaigns, DeleteBegins(d, c)
        PROVE  o[1] \in purge'[d].todo \/ o \in purge'[d].keys \/ o \in purge'[d].late
    <3> DEFINE listed == {s \in SessionsOf(c) : row[s].named}
               p == [pc |-> "purge", of |-> c, todo |-> listed, keys |-> {},
                     late |-> ChunksOf(SessionsOf(c) \ listed)]
    <3>1. purge'[d] = p
      BY <2>3, <1>1 DEF DeleteBegins, TypeOK
    <3>2. o[1] \in SessionsOf(c)
      BY <1>5, <2>1, <3>1
    <3> QED BY <2>2, <3>1, <3>2 DEF ChunksOf
  <2>4. CASE PurgeLists(d)
    <3>1. PICK s \in purge[d].todo :
              purge' = [purge EXCEPT ![d].todo = @ \ {s}, ![d].keys = ChunksOf({s})]
      BY <2>4 DEF PurgeLists
    <3>2. purge[d] \in [pc : {"purge"}, of : Campaigns, todo : SUBSET Sessions,
                        keys : SUBSET Chunk, late : SUBSET Chunk]
      BY <1>1, <2>4, PurgeFields DEF PurgeLists
    <3>3. /\ purge'[d].of = purge[d].of /\ purge'[d].todo = purge[d].todo \ {s}
          /\ purge'[d].keys = ChunksOf({s}) /\ purge'[d].late = purge[d].late
      BY <3>1, <3>2, <1>1 DEF TypeOK
    <3>4. o[1] \in purge[d].todo \/ o \in purge[d].late
      BY <1>5, <2>1, <2>2, <2>4, <3>3 DEF IInv, Passed, PurgeLists
    <3> QED BY <2>2, <3>3, <3>4 DEF ChunksOf
  <2>5. CASE PurgeDeletes(d)
    <3>1. PICK batch \in SUBSET purge[d].keys :
              chunk' = chunk \ batch /\ purge' = [purge EXCEPT ![d].keys = @ \ batch]
      BY <2>5 DEF PurgeDeletes
    <3>2. purge[d] \in [pc : {"purge"}, of : Campaigns, todo : SUBSET Sessions,
                        keys : SUBSET Chunk, late : SUBSET Chunk]
      BY <1>1, <2>5, PurgeFields DEF PurgeDeletes
    <3>3. /\ purge'[d].of = purge[d].of /\ purge'[d].todo = purge[d].todo
          /\ purge'[d].keys = purge[d].keys \ batch /\ purge'[d].late = purge[d].late
      BY <3>1, <3>2, <1>1 DEF TypeOK
    <3> QED BY <1>5, <2>1, <2>2, <2>5, <3>1, <3>3 DEF IInv, Passed, PurgeDeletes
  <2>6. CASE DeleteFails(d)
    BY <1>1, <1>5, <2>6 DEF DeleteFails, TypeOK
  <2> QED BY <2>3, <2>4, <2>5, <2>6
<1>6. ASSUME NEW e \in Deleters \ {d}, purge'[e] # Idle,
             NEW o \in chunk', o[1] \in SessionsOf(purge[e].of)'
      PROVE  o[1] \in purge'[e].todo \/ o \in purge'[e].keys \/ o \in purge'[e].late
  BY <1>2, <1>4, <1>6 DEF IInv, Passed, SessionsOf
<1>7. Passed'
  BY <1>5, <1>6 DEF Passed
<1> QED BY <1>3, <1>7 DEF IInv

LEMMA DeleteStep ==
    ASSUME IInv, TypeOK', NEW d \in Deleters, DeleteCampaign(d)
    PROVE  IInv'
<1>1. /\ TypeOK /\ purge[d] # Idle /\ purge[d].todo = {} /\ purge[d].keys = {}
      /\ UNCHANGED <<chunk, rec, command>> /\ missed' = missed \cup purge[d].late
  BY DEF IInv, DeleteCampaign, DeleteRows
<1>2. /\ purge'[d] = Idle
      /\ \A e \in Deleters \ {d} : purge'[e] = purge[e]
  BY <1>1 DEF TypeOK, DeleteCampaign, DeleteRows
<1>3. ASSUME NEW s \in Sessions
      PROVE  row'[s] = IF s \in SessionsOf(purge[d].of) THEN Gone ELSE row[s]
  BY DEF DeleteCampaign, DeleteRows
<1>4. Gone \notin Row /\ Gone # New
  BY DEF Gone, New, Row
<1>5. Passed'
  <2> SUFFICES ASSUME NEW e \in Deleters, purge'[e] # Idle, NEW o \in chunk,
                      o[1] \in SessionsOf(purge[e].of)'
               PROVE  o[1] \in purge'[e].todo \/ o \in purge'[e].keys \/ o \in purge'[e].late
    BY <1>1, <1>2 DEF Passed
  <2>1. e # d /\ purge'[e] = purge[e]
    BY <1>2
  <2>2. \A s \in Sessions : row'[s] \in Row => row'[s] = row[s]
    BY <1>3, <1>4
  <2>3. o[1] \in SessionsOf(purge[e].of)
    BY <2>1, <2>2 DEF SessionsOf
  <2> QED BY <2>1, <2>3 DEF IInv, Passed
<1>6. AudioNamed'
  <2> SUFFICES ASSUME NEW o \in chunk
               PROVE  row'[o[1]] \in Row \/ o \in missed'
    BY <1>1 DEF AudioNamed
  <2>1. o[1] \in Sessions
    BY <1>1 DEF TypeOK, Chunk
  <2>2. CASE o[1] \in SessionsOf(purge[d].of)
    <3>1. o \in purge[d].late
      BY <1>1, <2>2 DEF IInv, Passed
    <3> QED BY <1>1, <3>1
  <2>3. CASE o[1] \notin SessionsOf(purge[d].of)
    BY <1>1, <1>3, <2>1, <2>3 DEF IInv, AudioNamed
  <2> QED BY <2>2, <2>3
<1>7. ASSUME NEW s \in Sessions, row[s] # New PROVE row'[s] # New
  BY <1>3, <1>4, <1>7
<1>8. NewSilent'
  <2>1. \A o \in chunk : row'[o[1]] # New
    BY <1>1, <1>7 DEF IInv, NewSilent, TypeOK, Chunk
  <2>2. rec # None => row'[rec.s] # New
    BY <1>1, <1>7, RecordingFields DEF TypeOK, IInv, NewSilent
  <2>3. command.pc \in {"join", "leave", "flush"} => row'[command.s] # New
    BY <1>1, <1>7, CommandFields DEF IInv, NewSilent
  <2>4. command.pc = "flush" => row'[command.rec.s] # New
    BY <1>1, <1>7, CommandFields, RecordingFields DEF IInv, NewSilent
  <2> QED BY <1>1, <2>1, <2>2, <2>3, <2>4 DEF NewSilent
<1> QED BY <1>5, <1>6, <1>8 DEF IInv

LEMMA InvStep ==
    ASSUME IInv, [Next]_vars
    PROVE  IInv'
<1>1. CASE UNCHANGED vars
  BY <1>1 DEF vars, IInv, TypeOK, Passed, NewSilent, AudioNamed, SessionsOf
<1>2. CASE Next
  <2>1. TypeOK'
    BY <1>2, TypeStep DEF IInv
  <2>2. ASSUME NEW s \in Sessions, NEW c \in Campaigns, Start(s, c) PROVE IInv'
    BY <2>1, <2>2, StartStep
  <2>3. CASE \/ JoinOpens \/ JoinFails \/ Checkpoint \/ StopLeaves \/ StopFlushes \/ ResumeActive
             \/ \E s \in Sessions : StopLookup(s) \/ Reap(s)
    BY <2>1, <2>3, RecordingInv
  <2>4. CASE Restart
    BY <2>1, <2>4, RestartStep
  <2>5. ASSUME NEW d \in Deleters, \/ \E c \in Campaigns : DeleteBegins(d, c)
                                 \/ PurgeLists(d) \/ PurgeDeletes(d) \/ DeleteFails(d)
        PROVE  IInv'
    BY <2>1, <2>5, PurgingStep
  <2>6. ASSUME NEW d \in Deleters, DeleteCampaign(d) PROVE IInv'
    BY <2>1, <2>6, DeleteStep
  <2> QED BY <1>2, <2>2, <2>3, <2>4, <2>5, <2>6 DEF Next
<1> QED BY <1>1, <1>2
-----------------------------------------------------------------------------
THEOREM Invariant == Spec => []IInv
<1>1. Init => IInv
  BY InitInv
<1>2. IInv /\ [Next]_vars => IInv'
  BY InvStep
<1> QED BY <1>1, <1>2, PTL DEF Spec

(* Rows, chunks and what the goroutines have in hand are what the code can  *)
(* make of them: in particular the numbering of a resumed recording stays   *)
(* within the chunks.                                                       *)
THEOREM TypesHold == Spec => []TypeOK
<1>1. IInv => TypeOK
  BY DEF IInv
<1> QED BY <1>1, Invariant, PTL

(* /campaign delete (handlers_world.go:128-177): a chunk outlives the row   *)
(* that names its prefix only when it was stored after the deletion had     *)
(* listed its session, or under a prefix the row did not name.              *)
THEOREM AudioIsNamed == Spec => []AudioNamed
<1>1. IInv => AudioNamed
  BY DEF IInv
<1> QED BY <1>1, Invariant, PTL
=============================================================================
