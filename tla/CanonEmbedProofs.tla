-------------------------- MODULE CanonEmbedProofs --------------------------
(***************************************************************************)
(* Theorems about CanonEmbed, for any number of records, workers, saves,   *)
(* /reindex commands and failures: what /ask finds for a record that was   *)
(* handled is what the record says, but for the three named exceptions,    *)
(* and a /reindex that nothing disturbed catches up on every entity, every *)
(* character and every completed session.                                  *)
(***************************************************************************)
EXTENDS CanonEmbed, TLAPS

USE DEF sessions

Stored == Versions \cup {None}
Todos == UNION {[D -> Versions] : D \in SUBSET Records}
Reindexing == [pc : {"reindex"}, kind : 1..3, todo : Todos, failed : BOOLEAN]

Shapes ==
    /\ campaign \in BOOLEAN /\ calm \in BOOLEAN
    /\ text \in [Records -> Stored] /\ index \in [Records -> Stored]
    /\ saved \in [Records -> Nat] /\ queued \in [Records -> Nat] /\ reindexes \in Nat
    /\ dropping \subseteq Canon /\ lost \subseteq Records /\ overtaken \subseteq Records
    /\ saves \in 0..MaxSaves /\ born \subseteq Records /\ commands \in Nat /\ faults \in Nat
    /\ hand \in [Workers -> Job \cup Reindexing]
    /\ complete \subseteq Sessions /\ unindexed \subseteq Sessions
    /\ requeue \in [Sessions -> SUBSET Stored]

(* A record that is gone does not come back; without the campaign there is  *)
(* no row and no transcript to write back; a completed session has one.     *)
Existence ==
    /\ \A r \in Canon : text[r] # None => r \in born
    /\ \A r \in dropping : text[r] = None /\ r \in born
    /\ ~campaign => \A r \in Records : text[r] = None /\ index[r] = None
    /\ ~campaign => \A s \in Sessions : requeue[s] = {}
    /\ \A s \in complete : text[s] # None

(* Somebody is yet to store what r says now: an older reading does not count. *)
Carries(w, r) ==
    hand[w].pc \in {"embed", "notes"} /\ hand[w].rec = r /\ hand[w].seen = text[r]
Carried(r) ==
    saved[r] > 0 \/ r \in dropping \/ queued[r] > 0 \/ \E w \in Workers : Carries(w, r)
Settled(r) == Fresh(r) \/ Excused(r)
Cared == \A r \in Records : Carried(r) \/ Settled(r)

(* What an undisturbed /reindex has passed is fresh or before it. *)
CaughtUp ==
    \A w \in Workers : hand[w].pc = "reindex" /\ calm =>
        /\ \A v \in Workers : hand[v].pc = "reindex" => v = w
        /\ \A r \in DOMAIN hand[w].todo : hand[w].todo[r] = text[r]
        /\ hand[w].failed
           \/ \A k \in 1..hand[w].kind : \A r \in Kinds[k] :
                 Listable(r) => (r \in DOMAIN hand[w].todo \/ Fresh(r))

IInv == Shapes /\ Existence /\ Cared /\ CaughtUp
-----------------------------------------------------------------------------
LEMMA KindsAre ==
    /\ Len(Kinds) = 3 /\ DOMAIN Kinds = 1..3
    /\ Kinds[1] = Sessions /\ Kinds[2] = Entities /\ Kinds[3] = Characters
    /\ \A k \in 1..3 : Kinds[k] \subseteq Records
    /\ \A r \in Records : \E k \in 1..3 : r \in Kinds[k]
<1>1. /\ Len(Kinds) = 3 /\ DOMAIN Kinds = 1..3
      /\ Kinds[1] = Sessions /\ Kinds[2] = Entities /\ Kinds[3] = Characters
  BY DEF Kinds
<1>2. \A k \in 1..3 : k = 1 \/ k = 2 \/ k = 3
  OBVIOUS
<1>3. 1 \in 1..3 /\ 2 \in 1..3 /\ 3 \in 1..3
  OBVIOUS
<1> HIDE DEF Kinds
<1>4. \A k \in 1..3 : Kinds[k] \subseteq Records
  BY <1>1, <1>2 DEF Records, Canon
<1>5. \A r \in Records : \E k \in 1..3 : r \in Kinds[k]
  BY <1>1, <1>3 DEF Records, Canon
<1> QED BY <1>1, <1>4, <1>5

LEMMA Numbers ==
    /\ MaxSaves \in Nat /\ MaxReindex \in Nat /\ MaxFaults \in Nat
    /\ None \in Stored /\ None \notin Versions /\ Versions \subseteq Stored
BY BoundsAssumption DEF None, Versions, Stored

LEMMA HandFields ==
    ASSUME Shapes, NEW w \in Workers
    PROVE  /\ hand[w].pc \in {"idle", "embed", "notes", "reindex"}
           /\ hand[w].pc = "idle" <=> hand[w] = Idle
           /\ hand[w].pc = "embed" => hand[w].rec \in Canon /\ hand[w].seen \in Stored
           /\ hand[w].pc = "notes" => hand[w].rec \in Sessions /\ hand[w].seen \in Versions
           /\ hand[w].pc = "reindex" => hand[w] \in Reindexing
<1>1. hand[w] \in Job \cup Reindexing
  BY DEF Shapes
<1> QED BY <1>1 DEF Job, Reindexing, Idle, Stored

LEMMA HandIs ==
    ASSUME Shapes, NEW w \in Workers, NEW new \in Job \cup Reindexing,
           hand' = [hand EXCEPT ![w] = new]
    PROVE  /\ hand' \in [Workers -> Job \cup Reindexing] /\ hand'[w] = new
           /\ \A v \in Workers \ {w} : hand'[v] = hand[v]
BY DEF Shapes

(* A step that brings no new transcript and leaves the records alone. *)
LEMMA ExistenceStays ==
    ASSUME Existence, UNCHANGED <<campaign, text, born, sessions>>,
           dropping' \subseteq dropping,
           ~campaign => \A r \in Records : index'[r] = None
    PROVE  Existence'
BY DEF Existence

(* A step that does not touch what an undisturbed /reindex relies on. *)
LEMMA CaughtUpStays ==
    ASSUME CaughtUp, Shapes,
           calm' => /\ calm /\ text' = text /\ complete' = complete
                    /\ \A r \in Records : text[r] # None /\ Fresh(r) => Fresh(r)',
           \A w \in Workers : hand'[w].pc = "reindex" => hand'[w] = hand[w]
    PROVE  CaughtUp'
<1>1. SUFFICES ASSUME NEW w \in Workers, hand'[w].pc = "reindex", calm'
               PROVE  /\ \A v \in Workers : hand'[v].pc = "reindex" => v = w
                      /\ \A r \in DOMAIN hand'[w].todo : hand'[w].todo[r] = text'[r]
                      /\ hand'[w].failed
                         \/ \A k \in 1..hand'[w].kind : \A r \in Kinds[k] :
                               Listable(r)' => (r \in DOMAIN hand'[w].todo \/ Fresh(r)')
  BY DEF CaughtUp, Kinds
<1>2. hand'[w] = hand[w] /\ hand[w] \in Reindexing /\ text' = text /\ complete' = complete /\ calm
  BY <1>1, HandFields
<1>3. hand[w].kind \in 1..3
  BY <1>2 DEF Reindexing
<1>4. \A v \in Workers : hand'[v].pc = "reindex" => v = w
  BY <1>1, <1>2 DEF CaughtUp
<1>5. \A r \in DOMAIN hand[w].todo : hand[w].todo[r] = text[r]
  BY <1>1, <1>2 DEF CaughtUp
<1>6. ASSUME ~hand[w].failed, NEW k \in 1..hand[w].kind, NEW r \in Kinds[k], Listable(r)
      PROVE  r \in DOMAIN hand[w].todo \/ Fresh(r)'
  <2>1. r \in Records
    BY <1>3, <1>6, KindsAre
  <2>2. r \in DOMAIN hand[w].todo \/ Fresh(r)
    BY <1>1, <1>2, <1>6 DEF CaughtUp
  <2> QED BY <1>1, <1>6, <2>1, <2>2 DEF Listable
<1>7. \A r : Listable(r)' => Listable(r)
  BY <1>2 DEF Listable
<1> QED BY <1>2, <1>4, <1>5, <1>6, <1>7

(* Storing a text leaves every record settled that was, and settles a       *)
(* record whose text it is.                                                 *)
LEMMA WriteSettles ==
    ASSUME Shapes, NEW r \in Records, NEW v \in Stored, Write(r, v)
    PROVE  /\ UNCHANGED <<campaign, text, sessions>>
           /\ index' \in [Records -> Stored] /\ index'[r] = v
           /\ \A x \in Records \ {r} : index'[x] = index[x]
           /\ lost' \subseteq Records /\ overtaken' \subseteq Records
           /\ \A x \in Records : Settled(x) => Settled(x)'
           /\ v = text[r] => Settled(r)'
<1>1. /\ UNCHANGED <<campaign, text, sessions>>
      /\ index' \in [Records -> Stored] /\ index'[r] = v
      /\ \A x \in Records \ {r} : index'[x] = index[x]
  BY DEF Write, Shapes
<1>2. lost' \subseteq Records /\ overtaken' \subseteq Records
  BY DEF Write, Shapes
<1>3. ASSUME NEW x \in Records, Settled(x) PROVE Settled(x)'
  <2>1. CASE x = r
    BY <1>1, <1>3, <2>1 DEF Write, Settled, Fresh, Excused
  <2>2. CASE x # r
    BY <1>1, <1>3, <2>2 DEF Write, Settled, Fresh, Excused
  <2> QED BY <2>1, <2>2
<1>4. v = text[r] => Settled(r)'
  BY <1>1 DEF Settled, Fresh
<1> QED BY <1>1, <1>2, <1>3, <1>4
-----------------------------------------------------------------------------
LEMMA SaveStep ==
    ASSUME IInv, NEW r \in Canon, Save(r)
    PROVE  IInv'
<1>1. /\ Shapes /\ Existence /\ Cared /\ r \in Records
      /\ campaign /\ saves \in Nat /\ saves < MaxSaves /\ (text[r] # None \/ r \notin born)
      /\ saves' = saves + 1 /\ born' = born \cup {r} /\ text' = [text EXCEPT ![r] = saves + 1]
      /\ calm' = FALSE /\ saved' = [saved EXCEPT ![r] = @ + 1]
      /\ UNCHANGED <<campaign, index, commands, faults, dropping, queued, reindexes, hand, lost,
                     overtaken, sessions>>
  BY DEF IInv, Save, NewText, Shapes, Records
<1>2. saves + 1 \in Versions /\ saves' \in 0..MaxSaves /\ saves + 1 # None
  BY <1>1, Numbers DEF Versions, None
<1>3. /\ text' \in [Records -> Stored] /\ text'[r] # None
      /\ \A x \in Records \ {r} : text'[x] = text[x]
  BY <1>1, <1>2, Numbers DEF Shapes
<1>4. /\ saved' \in [Records -> Nat] /\ saved'[r] > 0
      /\ \A x \in Records \ {r} : saved'[x] = saved[x]
  BY <1>1 DEF Shapes
<1>5. Shapes'
  BY <1>1, <1>2, <1>3, <1>4 DEF Shapes
<1>6. Existence'
  <2>1. r \notin dropping
    BY <1>1 DEF Existence
  <2>2. dropping \subseteq Records
    BY <1>1 DEF Shapes, Records
  <2>3. \A s \in complete : text'[s] # None
    BY <1>1, <1>3 DEF Existence, Shapes, Records
  <2> QED BY <1>1, <1>3, <2>1, <2>2, <2>3 DEF Existence
<1>7. Cared'
  <2>1. ASSUME NEW x \in Records PROVE Carried(x)' \/ Settled(x)'
    <3>1. CASE x = r
      BY <1>4, <3>1 DEF Carried
    <3>2. CASE x # r
      <4>1. Carried(x) \/ Settled(x)
        BY <1>1 DEF Cared
      <4>2. Carried(x) => Carried(x)'
        BY <1>1, <1>3, <1>4, <3>2 DEF Carried, Carries
      <4>3. Settled(x) => Settled(x)'
        BY <1>1, <1>3, <3>2 DEF Settled, Fresh, Excused
      <4> QED BY <4>1, <4>2, <4>3
    <3> QED BY <3>1, <3>2
  <2> QED BY <2>1 DEF Cared
<1>8. CaughtUp'
  BY <1>1 DEF CaughtUp
<1> QED BY <1>5, <1>6, <1>7, <1>8 DEF IInv

(* The embedding of a save is asked for, or given up. *)
LEMMA EnqueueStep ==
    ASSUME IInv, NEW r \in Canon, EnqueueCanonEmbed(r) \/ EnqueueFails(r)
    PROVE  IInv'
<1>1. /\ Shapes /\ Existence /\ Cared /\ CaughtUp /\ r \in Records /\ saved[r] > 0
      /\ saved[r] \in Nat /\ queued[r] \in Nat
      /\ saved' = [saved EXCEPT ![r] = @ - 1]
      /\ UNCHANGED <<campaign, text, index, saves, born, commands, dropping, reindexes, hand,
                     overtaken, sessions, calm>>
  BY DEF IInv, EnqueueCanonEmbed, EnqueueFails, Fault, GivenUp, Shapes, Records, store, counters
<1>2. /\ faults' \in Nat
      /\ \/ queued' = [queued EXCEPT ![r] = @ + 1] /\ lost' = lost
         \/ queued' = queued /\ lost' = lost \cup {r}
  BY <1>1 DEF EnqueueCanonEmbed, EnqueueFails, Fault, GivenUp, counters, Shapes
<1>3. /\ saved' \in [Records -> Nat] /\ queued' \in [Records -> Nat]
      /\ lost' \subseteq Records /\ lost \subseteq lost'
      /\ \A x \in Records : queued[x] > 0 => queued'[x] > 0
      /\ \A x \in Records \ {r} : saved'[x] = saved[x]
      /\ queued'[r] > 0 \/ r \in lost'
  <2>1. CASE queued' = queued /\ lost' = lost \cup {r}
    BY <1>1, <2>1 DEF Shapes
  <2>2. CASE queued' = [queued EXCEPT ![r] = @ + 1] /\ lost' = lost
    BY <1>1, <2>2 DEF Shapes
  <2> QED BY <1>2, <2>1, <2>2
<1>4. Shapes'
  BY <1>1, <1>2, <1>3 DEF Shapes
<1>5. Existence'
  BY <1>1, ExistenceStays DEF Existence
<1>6. Cared'
  <2>1. ASSUME NEW x \in Records PROVE Carried(x)' \/ Settled(x)'
    <3>1. CASE x = r
      BY <1>3, <3>1 DEF Carried, Settled, Excused
    <3>2. CASE x # r
      BY <1>1, <1>3, <3>2 DEF Cared, Carried, Carries, Settled, Fresh, Excused
    <3> QED BY <3>1, <3>2
  <2> QED BY <2>1 DEF Cared
<1>7. CaughtUp'
  BY <1>1, CaughtUpStays DEF Fresh
<1> QED BY <1>4, <1>5, <1>6, <1>7 DEF IInv

LEMMA DeleteRecordStep ==
    ASSUME IInv, NEW r \in Canon, DeleteRecord(r)
    PROVE  IInv'
<1>1. /\ Shapes /\ Existence /\ Cared /\ r \in Records /\ text[r] # None
      /\ text' = [text EXCEPT ![r] = None] /\ dropping' = dropping \cup {r} /\ calm' = FALSE
      /\ UNCHANGED <<campaign, index, saved, queued, reindexes, hand, counters, lost, overtaken,
                     sessions>>
  BY DEF IInv, DeleteRecord, Records
<1>2. /\ text' \in [Records -> Stored] /\ text'[r] = None
      /\ \A x \in Records \ {r} : text'[x] = text[x]
  BY <1>1, Numbers DEF Shapes
<1>3. Shapes'
  BY <1>1, <1>2 DEF Shapes, counters
<1>4. Existence'
  <2>1. \A s \in complete : text'[s] # None
    BY <1>1, <1>2, KindsAssumption DEF Existence, Shapes, Records, Canon
  <2>2. dropping \subseteq Records
    BY <1>1 DEF Shapes, Records
  <2> QED BY <1>1, <1>2, <2>1, <2>2 DEF Existence, counters
<1>5. Cared'
  <2>1. ASSUME NEW x \in Records PROVE Carried(x)' \/ Settled(x)'
    <3>1. CASE x = r
      BY <1>1, <3>1 DEF Carried
    <3>2. CASE x # r
      BY <1>1, <1>2, <3>2 DEF Cared, Carried, Carries, Settled, Fresh, Excused
    <3> QED BY <3>1, <3>2
  <2> QED BY <2>1 DEF Cared
<1>6. CaughtUp'
  BY <1>1 DEF CaughtUp
<1> QED BY <1>3, <1>4, <1>5, <1>6 DEF IInv

(* The embedding of a deleted record goes, or stays and is given up. *)
LEMMA DeleteEmbeddingStep ==
    ASSUME IInv, NEW r \in Canon, DeleteCanonEmbedding(r) \/ DeleteEmbeddingFails(r)
    PROVE  IInv'
<1>1. /\ Shapes /\ Existence /\ Cared /\ CaughtUp /\ r \in Records /\ text[r] = None
      /\ None \in Stored
      /\ dropping' = dropping \ {r}
      /\ UNCHANGED <<saved, queued, reindexes, hand, saves, born, commands, calm>>
      /\ faults' \in Nat
  BY Numbers DEF IInv, DeleteCanonEmbedding, DeleteEmbeddingFails, Existence, Records, counters,
                 Fault, Shapes
<1>2. /\ UNCHANGED <<campaign, text, sessions>> /\ index' \in [Records -> Stored]
      /\ lost' \subseteq Records /\ overtaken' \subseteq Records
      /\ \A x \in Records \ {r} : index'[x] = index[x]
      /\ index'[r] = None \/ index' = index
      /\ \A x \in Records : Settled(x) => Settled(x)'
      /\ Settled(r)'
  <2>1. CASE DeleteCanonEmbedding(r)
    BY <1>1, <2>1, WriteSettles DEF DeleteCanonEmbedding
  <2>2. CASE DeleteEmbeddingFails(r)
    BY <1>1, <2>2 DEF DeleteEmbeddingFails, GivenUp, store, Shapes, Settled, Fresh, Excused
  <2> QED BY <2>1, <2>2
<1>3. Shapes'
  BY <1>1, <1>2 DEF Shapes
<1>4. ~campaign => \A x \in Records : index'[x] = None
  BY <1>1, <1>2 DEF Existence
<1>5. Existence'
  BY <1>1, <1>2, <1>4, ExistenceStays
<1>6. Cared'
  <2>1. ASSUME NEW x \in Records, x # r PROVE Carried(x) => Carried(x)'
    BY <1>1, <1>2, <2>1 DEF Carried, Carries
  <2> QED BY <1>1, <1>2, <2>1 DEF Cared
<1>7. CaughtUp'
  <2>1. \A x \in Records : text[x] # None /\ Fresh(x) => Fresh(x)'
    BY <1>1, <1>2 DEF Fresh
  <2> QED BY <1>1, <1>2, <2>1, CaughtUpStays
<1> QED BY <1>3, <1>5, <1>6, <1>7 DEF IInv

LEMMA CommandStep ==
    ASSUME IInv, DeleteCampaign \/ HandleReindex
    PROVE  IInv'
<1>1. Shapes /\ Existence /\ Cared /\ CaughtUp
  BY DEF IInv
<1>2. CASE DeleteCampaign
  <2>1. /\ campaign' = FALSE /\ calm' = FALSE /\ lost' = {} /\ overtaken' = {}
        /\ complete' = {} /\ unindexed' = {} /\ requeue' = [s \in Sessions |-> {}]
        /\ text' \in [Records -> Stored] /\ index' \in [Records -> Stored]
        /\ \A r \in Records : text'[r] = None /\ index'[r] = None
        /\ UNCHANGED <<saved, dropping, queued, reindexes, hand, saves, born, commands, faults>>
    BY <1>2, Numbers DEF DeleteCampaign, jobs, counters
  <2>2. Shapes'
    BY <1>1, <2>1 DEF Shapes
  <2>3. Existence'
    BY <1>1, <2>1 DEF Existence, Shapes, Records
  <2>4. Cared' /\ CaughtUp'
    BY <2>1 DEF Cared, Settled, Fresh, CaughtUp
  <2> QED BY <2>2, <2>3, <2>4 DEF IInv
<1>3. CASE HandleReindex
  <2>1. /\ UNCHANGED <<campaign, text, index, saved, dropping, queued, hand, saves, born, faults,
                       lost, overtaken, sessions, calm>>
        /\ commands' \in Nat /\ reindexes' \in Nat
    BY <1>1, <1>3 DEF HandleReindex, store, Shapes
  <2>2. Shapes' /\ Existence' /\ Cared'
    BY <1>1, <2>1 DEF Shapes, Existence, Cared, Carried, Carries, Settled, Fresh, Excused
  <2>3. CaughtUp'
    BY <1>1, <2>1, CaughtUpStays DEF Fresh
  <2> QED BY <2>2, <2>3 DEF IInv
<1> QED BY <1>2, <1>3
-----------------------------------------------------------------------------
(* An embedding job, or one more run of it, reads the record. *)
LEMMA ReadStep ==
    ASSUME IInv, NEW w \in Workers, NEW r \in Canon, EmbedReads(w, r) \/ EmbedRunsTwice(w, r)
    PROVE  IInv'
<1>1. /\ Shapes /\ Existence /\ Cared /\ CaughtUp /\ r \in Records
      /\ hand[w] = Idle /\ hand' = [hand EXCEPT ![w] = Embedding(r)]
      /\ UNCHANGED <<campaign, text, index, saved, dropping, reindexes, saves, born, commands,
                     lost, overtaken, sessions, calm>>
  BY DEF IInv, EmbedReads, EmbedRunsTwice, Takes, Fault, Records, store, jobs, counters
<1>2. /\ faults' \in Nat /\ queued' \in [Records -> Nat]
      /\ \A x \in Records \ {r} : queued'[x] = queued[x]
  <2>1. CASE EmbedReads(w, r)
    BY <1>1, <2>1 DEF EmbedReads, counters, Shapes
  <2>2. CASE EmbedRunsTwice(w, r)
    BY <1>1, <2>2 DEF EmbedRunsTwice, Fault, jobs, Shapes
  <2> QED BY <1>1, <2>1, <2>2
<1>3. PICK new : new = Embedding(r)
  OBVIOUS
<1>4. /\ new \in Job \cup Reindexing
      /\ new.pc = "embed" /\ new.rec = r /\ new.seen = text[r]
  BY <1>1, <1>3 DEF Embedding, Job, Shapes, Stored
<1>5. /\ hand' \in [Workers -> Job \cup Reindexing] /\ hand'[w] = new
      /\ \A v \in Workers \ {w} : hand'[v] = hand[v]
  BY <1>1, <1>3, <1>4, HandIs
<1>6. Shapes'
  BY <1>1, <1>2, <1>5 DEF Shapes
<1>7. /\ \A v \in Workers : hand'[v].pc = "notes" => hand'[v] = hand[v]
      /\ \A v \in Workers : hand'[v].pc = "reindex" => hand'[v] = hand[v]
  BY <1>4, <1>5
<1>8. Existence'
  BY <1>1, <1>7, ExistenceStays DEF Existence
<1>9. Cared'
  <2>1. ASSUME NEW x \in Records PROVE Carried(x)' \/ Settled(x)'
    <3>1. CASE x = r
      BY <1>1, <1>4, <1>5, <3>1 DEF Carried, Carries
    <3>2. CASE x # r
      <4>1. \A v \in Workers : Carries(v, x) => v # w
        BY <1>1 DEF Carries, Idle
      <4>2. Carried(x) => Carried(x)'
        BY <1>1, <1>2, <1>5, <3>2, <4>1 DEF Carried, Carries
      <4>3. Settled(x) => Settled(x)'
        BY <1>1 DEF Settled, Fresh, Excused
      <4> QED BY <1>1, <4>2, <4>3 DEF Cared
    <3> QED BY <3>1, <3>2
  <2> QED BY <2>1 DEF Cared
<1>10. CaughtUp'
  BY <1>1, <1>7, CaughtUpStays DEF Fresh
<1> QED BY <1>6, <1>8, <1>9, <1>10 DEF IInv

(* What a worker read is stored, though the record may say something else   *)
(* by now.                                                                  *)
LEMMA WritesStep ==
    ASSUME IInv, NEW w \in Workers, EmbedWrites(w) \/ TranscriptIndexed(w)
    PROVE  IInv'
<1>1. /\ Shapes /\ Existence /\ Cared
      /\ hand[w].pc \in {"embed", "notes"} /\ Storable(hand[w].seen)
      /\ Write(hand[w].rec, hand[w].seen) /\ hand' = [hand EXCEPT ![w] = Idle] /\ calm' = FALSE
      /\ UNCHANGED <<saved, dropping, queued, reindexes, saves, born, commands, faults>>
  BY DEF IInv, EmbedWrites, TranscriptIndexed, Ends, jobs, counters
<1>2. PICK r \in Records, v \in Stored : r = hand[w].rec /\ v = hand[w].seen
  BY <1>1, HandFields, Numbers DEF Records
<1>3. /\ UNCHANGED <<campaign, text, sessions>>
      /\ index' \in [Records -> Stored] /\ index'[r] = v
      /\ \A x \in Records \ {r} : index'[x] = index[x]
      /\ lost' \subseteq Records /\ overtaken' \subseteq Records
      /\ \A x \in Records : Settled(x) => Settled(x)'
      /\ v = text[r] => Settled(r)'
  BY <1>1, <1>2, WriteSettles
<1>4. /\ hand' \in [Workers -> Job \cup Reindexing] /\ hand'[w] = Idle
      /\ \A x \in Workers \ {w} : hand'[x] = hand[x]
  <2>1. Idle \in Job \cup Reindexing
    BY DEF Job
  <2> QED BY <1>1, <2>1, HandIs
<1>5. Shapes'
  BY <1>1, <1>3, <1>4 DEF Shapes
<1>6. Existence'
  <2>1. ASSUME ~campaign PROVE \A x \in Records : index'[x] = None
    BY <1>1, <1>2, <1>3, <2>1 DEF Existence, Storable
  <2>2. \A x \in Workers : hand'[x].pc = "notes" => hand'[x] = hand[x]
    BY <1>4 DEF Idle
  <2> QED BY <1>1, <1>3, <2>1, <2>2, ExistenceStays
<1>7. Cared'
  <2>1. ASSUME NEW x \in Records, ~Settled(x)' PROVE Carried(x)'
    <3>1. Carried(x)
      BY <1>1, <1>3, <2>1 DEF Cared
    <3>2. ~Carries(w, x)
      BY <1>2, <1>3, <2>1 DEF Carries
    <3>3. \A y \in Workers : Carries(y, x) => Carries(y, x)'
      BY <1>3, <1>4, <3>2 DEF Carries
    <3> QED BY <1>1, <3>1, <3>3 DEF Carried
  <2> QED BY <2>1 DEF Cared
<1>8. CaughtUp'
  BY <1>1 DEF CaughtUp
<1> QED BY <1>5, <1>6, <1>7, <1>8 DEF IInv

(* An embedding job fails: it waits again, or is given up. *)
LEMMA FailsStep ==
    ASSUME IInv, NEW w \in Workers,
           (\E again \in BOOLEAN : EmbedFails(w, again)) \/ EmbedRefused(w)
    PROVE  IInv'
<1>1. PICK again \in BOOLEAN : EmbedFailed(w, again)
  BY DEF EmbedFails, EmbedRefused
<1>2. /\ Shapes /\ Existence /\ Cared /\ CaughtUp /\ hand[w].pc = "embed"
      /\ hand' = [hand EXCEPT ![w] = Idle]
      /\ UNCHANGED <<saved, dropping, reindexes, calm>>
  BY <1>1 DEF IInv, EmbedFailed, Ends
<1>3. UNCHANGED <<saves, born, commands>> /\ faults' \in Nat
  <2>1. Fault \/ UNCHANGED counters
    BY DEF EmbedFails, EmbedRefused
  <2> QED BY <1>2, <2>1 DEF Fault, counters, Shapes
<1>4. PICK r \in Records : r = hand[w].rec
  BY <1>2, HandFields DEF Records
<1>5. /\ UNCHANGED <<campaign, text, index, overtaken, sessions>>
      /\ \/ queued' = [queued EXCEPT ![r] = @ + 1] /\ lost' = lost
         \/ queued' = queued /\ lost' = lost \cup {r}
  <2>1. CASE again
    BY <1>1, <1>4, <2>1 DEF EmbedFailed, store
  <2>2. CASE ~again
    BY <1>1, <1>4, <2>2 DEF EmbedFailed, GivenUp, store
  <2> QED BY <2>1, <2>2
<1>6. /\ queued' \in [Records -> Nat] /\ lost' \subseteq Records /\ lost \subseteq lost'
      /\ \A x \in Records : queued[x] > 0 => queued'[x] > 0
      /\ queued'[r] > 0 \/ r \in lost'
  <2>1. CASE queued' = queued /\ lost' = lost \cup {r}
    BY <1>2, <2>1 DEF Shapes
  <2>2. CASE queued' = [queued EXCEPT ![r] = @ + 1] /\ lost' = lost
    BY <1>2, <2>2 DEF Shapes
  <2> QED BY <1>5, <2>1, <2>2
<1>7. /\ hand' \in [Workers -> Job \cup Reindexing] /\ hand'[w] = Idle
      /\ \A x \in Workers \ {w} : hand'[x] = hand[x]
  <2>1. Idle \in Job \cup Reindexing
    BY DEF Job
  <2> QED BY <1>2, <2>1, HandIs
<1>8. Shapes'
  BY <1>2, <1>3, <1>5, <1>6, <1>7 DEF Shapes
<1>9. /\ \A x \in Workers : hand'[x].pc = "notes" => hand'[x] = hand[x]
      /\ \A x \in Workers : hand'[x].pc = "reindex" => hand'[x] = hand[x]
  BY <1>7 DEF Idle
<1>10. Existence'
  BY <1>2, <1>3, <1>5, <1>9, ExistenceStays DEF Existence
<1>11. Cared'
  <2>1. ASSUME NEW x \in Records PROVE Carried(x)' \/ Settled(x)'
    <3>1. CASE x = r
      BY <1>6, <3>1 DEF Carried, Settled, Excused
    <3>2. CASE x # r
      <4>1. \A y \in Workers : Carries(y, x) => Carries(y, x)'
        BY <1>4, <1>5, <1>7, <3>2 DEF Carries
      <4>2. Carried(x) => Carried(x)'
        BY <1>2, <1>6, <4>1 DEF Carried
      <4>3. Settled(x) => Settled(x)'
        BY <1>5, <1>6 DEF Settled, Fresh, Excused
      <4> QED BY <1>2, <4>2, <4>3 DEF Cared
    <3> QED BY <3>1, <3>2
  <2> QED BY <2>1 DEF Cared
<1>12. CaughtUp'
  BY <1>2, <1>5, <1>9, CaughtUpStays DEF Fresh
<1> QED BY <1>8, <1>10, <1>11, <1>12 DEF IInv

(* A session's row is written: somebody carries what it says now, or the    *)
(* index has it, or nobody will and the session is among those.              *)
LEMMA SessionWritten ==
    ASSUME Shapes, Existence, Cared, NEW s \in Sessions,
           text' \in [Records -> Stored], \A x \in Records \ {s} : text'[x] = text[x],
           ~campaign => text'[s] = None, calm' = FALSE, saves' \in 0..MaxSaves,
           born' \subseteq Records, born \subseteq born',
           UNCHANGED <<campaign, index, commands, faults, saved, dropping, queued, reindexes, lost,
                       overtaken>>,
           complete' \subseteq Sessions, \A x \in complete' : text'[x] # None,
           unindexed' \subseteq Sessions, unindexed \ {s} \subseteq unindexed',
           requeue' \in [Sessions -> SUBSET Stored],
           \A x \in Sessions : ~campaign => requeue'[x] = {},
           hand' \in [Workers -> Job \cup Reindexing],
           \A v \in Workers : hand[v].pc \in {"embed", "notes"} => hand'[v] = hand[v],
           Carried(s)' \/ Settled(s)'
    PROVE  IInv'
<1>1. Shapes'
  BY DEF Shapes
<1>2. Existence'
  <2>1. s \notin Canon /\ s \in Records
    BY KindsAssumption DEF Records, Canon
  <2>2. dropping \subseteq Canon /\ Canon \subseteq Records
    BY DEF Shapes, Records
  <2>3. ~campaign => \A x \in Records : text'[x] = None /\ index'[x] = None
    BY DEF Existence
  <2> QED BY <2>1, <2>2, <2>3 DEF Existence
<1>3. Cared'
  <2>1. ASSUME NEW x \in Records, x # s PROVE Carried(x)' \/ Settled(x)'
    <3>1. \A v \in Workers : Carries(v, x) => Carries(v, x)'
      BY <2>1 DEF Carries
    <3>2. Carried(x) => Carried(x)'
      BY <3>1 DEF Carried
    <3>3. Settled(x) => Settled(x)'
      BY <2>1 DEF Settled, Fresh, Excused
    <3> QED BY <3>2, <3>3 DEF Cared
  <2> QED BY <2>1 DEF Cared
<1>4. CaughtUp'
  BY DEF CaughtUp
<1> QED BY <1>1, <1>2, <1>3, <1>4 DEF IInv

LEMMA NewTextIs ==
    ASSUME Shapes, NEW s \in Sessions, NewText(s)
    PROVE  /\ campaign /\ s \in Records /\ saves + 1 \in Versions /\ saves' \in 0..MaxSaves
           /\ text' \in [Records -> Stored] /\ text'[s] = saves + 1 /\ text'[s] # None
           /\ \A x \in Records \ {s} : text'[x] = text[x]
           /\ born' \subseteq Records /\ born \subseteq born' /\ calm' = FALSE
           /\ UNCHANGED <<campaign, index, commands, faults>>
<1>1. /\ campaign /\ s \in Records /\ saves \in Nat /\ saves < MaxSaves /\ saves' = saves + 1
      /\ born' = born \cup {s} /\ text' = [text EXCEPT ![s] = saves + 1] /\ calm' = FALSE
      /\ UNCHANGED <<campaign, index, commands, faults>>
  BY DEF NewText, Shapes, Records
<1>2. saves + 1 \in Versions /\ saves' \in 0..MaxSaves /\ saves + 1 # None
  BY <1>1, Numbers DEF Versions, None
<1>3. /\ text' \in [Records -> Stored] /\ text'[s] = saves + 1
      /\ \A x \in Records \ {s} : text'[x] = text[x]
  BY <1>1, <1>2, Numbers DEF Shapes
<1> QED BY <1>1, <1>2, <1>3 DEF Shapes

(* A transcription job saves a transcript, and goes on to index it. *)
LEMMA TranscriptStep ==
    ASSUME IInv, NEW w \in Workers, NEW s \in Sessions, TranscriptSaved(w, s)
    PROVE  IInv'
<1>1. /\ Shapes /\ Existence /\ Cared /\ NewText(s) /\ hand[w] = Idle
      /\ hand' = [hand EXCEPT ![w] = [pc |-> "notes", rec |-> s, seen |-> saves + 1]]
      /\ complete' = complete \cup {s} /\ unindexed' = unindexed \ {s}
      /\ UNCHANGED <<saved, dropping, queued, reindexes, lost, overtaken, requeue>>
  BY DEF IInv, TranscriptSaved, Takes, jobs
<1>2. /\ campaign /\ s \in Records /\ saves + 1 \in Versions /\ saves' \in 0..MaxSaves
      /\ text' \in [Records -> Stored] /\ text'[s] = saves + 1 /\ text'[s] # None
      /\ \A x \in Records \ {s} : text'[x] = text[x]
      /\ born' \subseteq Records /\ born \subseteq born' /\ calm' = FALSE
      /\ UNCHANGED <<campaign, index, commands, faults>>
  BY <1>1, NewTextIs
<1>3. PICK new : new = [pc |-> "notes", rec |-> s, seen |-> saves + 1]
  OBVIOUS
<1>4. /\ new \in Job \cup Reindexing
      /\ new.pc = "notes" /\ new.rec = s /\ new.seen = saves + 1
  BY <1>2, <1>3 DEF Job
<1>5. /\ hand' \in [Workers -> Job \cup Reindexing] /\ hand'[w] = new
      /\ \A v \in Workers \ {w} : hand'[v] = hand[v]
  BY <1>1, <1>3, <1>4, HandIs
<1>6. Carried(s)'
  BY <1>2, <1>4, <1>5 DEF Carried, Carries
<1>7. /\ complete' \subseteq Sessions /\ \A x \in complete' : text'[x] # None
      /\ unindexed' \subseteq Sessions /\ unindexed \ {s} \subseteq unindexed'
      /\ requeue' \in [Sessions -> SUBSET Stored]
      /\ \A v \in Workers : hand[v].pc \in {"embed", "notes"} => hand'[v] = hand[v]
  BY <1>1, <1>2, <1>5 DEF Shapes, Existence, Records, Idle
<1> QED BY <1>1, <1>2, <1>5, <1>6, <1>7, SessionWritten

(* One that is saved and not indexed. *)
LEMMA KeptStep ==
    ASSUME IInv, NEW w \in Workers, NEW s \in Sessions, NEW done \in BOOLEAN,
           TranscriptKept(w, s, done)
    PROVE  IInv'
<1>1. /\ Shapes /\ Existence /\ Cared /\ NewText(s)
      /\ complete' = complete \cup {s} \/ complete' = complete \ {s}
      /\ unindexed' = unindexed \cup {s}
      /\ UNCHANGED <<saved, dropping, queued, reindexes, lost, overtaken, requeue, hand>>
  BY DEF IInv, TranscriptKept, jobs
<1>2. /\ campaign /\ s \in Records /\ saves' \in 0..MaxSaves
      /\ text' \in [Records -> Stored] /\ text'[s] # None
      /\ \A x \in Records \ {s} : text'[x] = text[x]
      /\ born' \subseteq Records /\ born \subseteq born' /\ calm' = FALSE
      /\ UNCHANGED <<campaign, index, commands, faults>>
  BY <1>1, NewTextIs
<1>3. Settled(s)'
  BY <1>1 DEF Settled, Excused
<1>4. /\ complete' \subseteq Sessions /\ \A x \in complete' : text'[x] # None
      /\ unindexed' \subseteq Sessions /\ unindexed \ {s} \subseteq unindexed'
      /\ requeue' \in [Sessions -> SUBSET Stored] /\ hand' \in [Workers -> Job \cup Reindexing]
  BY <1>1, <1>2 DEF Shapes, Existence, Records
<1> QED BY <1>1, <1>2, <1>3, <1>4, SessionWritten

(* markFailed empties the transcript, a requeue writes one back. *)
LEMMA OverwrittenStep ==
    ASSUME IInv, NEW s \in Sessions, MarkFailed(s) \/ RequeueWrites(s)
    PROVE  IInv'
<1>1. PICK v \in Stored :
         /\ Overwritten(s, v) /\ (~campaign => v = None)
         /\ requeue' = requeue \/ requeue' = [requeue EXCEPT ![s] = @ \ {v}]
  BY Numbers DEF MarkFailed, RequeueWrites, IInv, Shapes, Existence
<1>2. /\ Shapes /\ Existence /\ Cared /\ s \in Records
      /\ text' = [text EXCEPT ![s] = v] /\ complete' = complete \ {s} /\ calm' = FALSE
      /\ unindexed' = IF v = text[s] THEN unindexed ELSE unindexed \cup {s}
      /\ UNCHANGED <<campaign, index, saved, dropping, queued, reindexes, hand, saves, born,
                     commands, faults, lost, overtaken>>
  BY <1>1 DEF IInv, Overwritten, jobs, counters, Records
<1>3. /\ text' \in [Records -> Stored] /\ text'[s] = v
      /\ \A x \in Records \ {s} : text'[x] = text[x]
  BY <1>1, <1>2 DEF Shapes
<1>4. Carried(s)' \/ Settled(s)'
  <2>1. CASE v = text[s]
    BY <1>2, <1>3, <2>1 DEF Cared, Carried, Carries, Settled, Fresh, Excused
  <2>2. CASE v # text[s]
    BY <1>2, <2>2 DEF Settled, Excused
  <2> QED BY <2>1, <2>2
<1>5. /\ complete' \subseteq Sessions /\ \A x \in complete' : text'[x] # None
      /\ unindexed' \subseteq Sessions /\ unindexed \ {s} \subseteq unindexed'
      /\ hand' \in [Workers -> Job \cup Reindexing] /\ saves' \in 0..MaxSaves
      /\ born' \subseteq Records /\ born \subseteq born' /\ (~campaign => text'[s] = None)
  BY <1>1, <1>2, <1>3 DEF Shapes, Existence, Records
<1>6. /\ requeue' \in [Sessions -> SUBSET Stored]
      /\ \A x \in Sessions : ~campaign => requeue'[x] = {}
  BY <1>1, <1>2 DEF Shapes, Existence
<1> QED BY <1>2, <1>3, <1>4, <1>5, <1>6, SessionWritten

LEMMA RequeueReadsStep ==
    ASSUME IInv, NEW s \in Sessions, RequeueReads(s)
    PROVE  IInv'
<1>1. /\ Shapes /\ Existence /\ Cared /\ CaughtUp /\ campaign /\ s \in Records
      /\ requeue' = [requeue EXCEPT ![s] = @ \cup {text[s]}]
      /\ UNCHANGED <<campaign, text, index, saved, dropping, queued, reindexes, hand, saves, born,
                     commands, faults, lost, overtaken, complete, unindexed, calm>>
  BY DEF IInv, RequeueReads, store, jobs, counters, Records
<1>2. requeue' \in [Sessions -> SUBSET Stored]
  BY <1>1 DEF Shapes
<1>3. Shapes' /\ Existence' /\ Cared'
  BY <1>1, <1>2 DEF Shapes, Existence, Cared, Carried, Carries, Settled, Fresh, Excused
<1>4. CaughtUp'
  BY <1>1, CaughtUpStays DEF Fresh
<1> QED BY <1>3, <1>4 DEF IInv

(* Its passages are not stored: given up, or the campaign is gone. *)
LEMMA NotIndexedStep ==
    ASSUME IInv, NEW w \in Workers, TranscriptNotIndexed(w)
    PROVE  IInv'
<1>1. /\ Shapes /\ Existence /\ Cared /\ CaughtUp /\ hand[w].pc = "notes"
      /\ hand' = [hand EXCEPT ![w] = Idle]
      /\ UNCHANGED <<saved, dropping, queued, reindexes, calm>>
  BY DEF IInv, TranscriptNotIndexed, Ends, jobs
<1>2. PICK r \in Records : r = hand[w].rec /\ hand[w].seen # None /\ r \in Sessions
  BY <1>1, HandFields, Numbers DEF Records
<1>3. /\ UNCHANGED <<campaign, text, index, overtaken, saves, born, commands, sessions>>
      /\ faults' \in Nat /\ lost' \subseteq Records /\ lost \subseteq lost'
      /\ r \in lost' \/ ~campaign
  <2>1. CASE Storable(hand[w].seen)
    BY <1>1, <1>2, <2>1 DEF TranscriptNotIndexed, Fault, GivenUp, store, Shapes
  <2>2. CASE ~Storable(hand[w].seen)
    <3>1. ~campaign
      BY <1>1, <1>2, <2>2 DEF Storable, Existence
    <3> QED BY <1>1, <2>2, <3>1 DEF TranscriptNotIndexed, counters, store, Shapes
  <2> QED BY <2>1, <2>2
<1>4. /\ hand' \in [Workers -> Job \cup Reindexing] /\ hand'[w] = Idle
      /\ \A x \in Workers \ {w} : hand'[x] = hand[x]
  <2>1. Idle \in Job \cup Reindexing
    BY DEF Job
  <2> QED BY <1>1, <2>1, HandIs
<1>5. Shapes'
  BY <1>1, <1>3, <1>4 DEF Shapes
<1>6. /\ \A x \in Workers : hand'[x].pc = "notes" => hand'[x] = hand[x]
      /\ \A x \in Workers : hand'[x].pc = "reindex" => hand'[x] = hand[x]
  BY <1>4 DEF Idle
<1>7. Existence'
  BY <1>1, <1>3, <1>6, ExistenceStays DEF Existence
<1>8. Cared'
  <2>1. ASSUME NEW x \in Records PROVE Carried(x)' \/ Settled(x)'
    <3>1. CASE x = r
      <4>1. ~campaign => Fresh(x)'
        BY <1>1, <1>3 DEF Existence, Fresh
      <4> QED BY <1>3, <3>1, <4>1 DEF Settled, Excused
    <3>2. CASE x # r
      <4>1. \A y \in Workers : Carries(y, x) => Carries(y, x)'
        BY <1>2, <1>3, <1>4, <3>2 DEF Carries
      <4>2. Carried(x) => Carried(x)'
        BY <1>1, <4>1 DEF Carried
      <4>3. Settled(x) => Settled(x)'
        BY <1>3 DEF Settled, Fresh, Excused
      <4> QED BY <1>1, <4>2, <4>3 DEF Cared
    <3> QED BY <3>1, <3>2
  <2> QED BY <2>1 DEF Cared
<1>9. CaughtUp'
  BY <1>1, <1>3, <1>6, CaughtUpStays DEF Fresh
<1> QED BY <1>5, <1>7, <1>8, <1>9 DEF IInv
-----------------------------------------------------------------------------
LEMMA ListedIs ==
    ASSUME Shapes, NEW k \in 1..3
    PROVE  /\ Listed(k) \in Todos
           /\ \A r \in DOMAIN Listed(k) : Listed(k)[r] = text[r]
           /\ \A r \in Kinds[k] : Listable(r) => r \in DOMAIN Listed(k)
<1>1. PICK D : D = {x \in Kinds[k] : Listable(x)}
  OBVIOUS
<1>2. Listed(k) = [r \in D |-> text[r]]
  BY <1>1 DEF Listed
<1>3. D \in SUBSET Records
  BY <1>1, KindsAre
<1>4. \A r \in D : text[r] \in Versions
  BY <1>1, <1>3, Numbers DEF Shapes, Stored, Listable
<1>5. Listed(k) \in [D -> Versions]
  BY <1>2, <1>4
<1>6. Listed(k) \in Todos
  BY <1>3, <1>5 DEF Todos
<1> QED BY <1>1, <1>2, <1>6

LEMMA TodoFields ==
    ASSUME NEW todo \in Todos
    PROVE  /\ DOMAIN todo \subseteq Records
           /\ \A r \in DOMAIN todo : todo[r] \in Versions
           /\ \A r : /\ Without(todo, r) \in Todos
                     /\ DOMAIN Without(todo, r) = DOMAIN todo \ {r}
                     /\ \A x \in DOMAIN todo \ {r} : Without(todo, r)[x] = todo[x]
<1>1. PICK D \in SUBSET Records : todo \in [D -> Versions]
  BY DEF Todos
<1>2. ASSUME NEW r
      PROVE  /\ Without(todo, r) \in Todos
             /\ DOMAIN Without(todo, r) = DOMAIN todo \ {r}
             /\ \A x \in DOMAIN todo \ {r} : Without(todo, r)[x] = todo[x]
  <2>1. D \ {r} \in SUBSET Records /\ Without(todo, r) \in [D \ {r} -> Versions]
    BY <1>1 DEF Without
  <2> QED BY <1>1, <2>1 DEF Todos, Without
<1> QED BY <1>1, <1>2

(* A worker at a reindex goes from one place in it to another.              *)
LEMMA ReindexMoves ==
    ASSUME Shapes, Existence, Cared, NEW w \in Workers, hand[w].pc \in {"idle", "reindex"},
           NEW new \in Job \cup Reindexing, new.pc \in {"idle", "reindex"},
           hand' = [hand EXCEPT ![w] = new],
           UNCHANGED <<campaign, text, saved, dropping, queued, saves, born, commands, sessions>>,
           reindexes' \in Nat, faults' \in Nat, calm' \in BOOLEAN,
           index' \in [Records -> Stored], lost' \subseteq Records, overtaken' \subseteq Records,
           ~campaign => \A r \in Records : index'[r] = None,
           \A r \in Records : Settled(r) => Settled(r)'
    PROVE  /\ Shapes' /\ Existence' /\ Cared'
           /\ hand'[w] = new /\ \A v \in Workers \ {w} : hand'[v] = hand[v]
<1>1. /\ hand' \in [Workers -> Job \cup Reindexing] /\ hand'[w] = new
      /\ \A v \in Workers \ {w} : hand'[v] = hand[v]
  BY HandIs
<1>2. Shapes'
  BY <1>1 DEF Shapes
<1>3. \A v \in Workers : hand'[v].pc = "notes" => hand'[v] = hand[v]
  BY <1>1
<1>4. Existence'
  BY <1>3, ExistenceStays
<1>5. \A v \in Workers, x \in Records : Carries(v, x) => Carries(v, x)'
  BY <1>1 DEF Carries
<1>6. Cared'
  BY <1>5 DEF Cared, Carried
<1> QED BY <1>1, <1>2, <1>4, <1>6

LEMMA ReindexBeginsStep ==
    ASSUME IInv, NEW w \in Workers, ReindexBegins(w)
    PROVE  IInv'
<1>1. /\ Shapes /\ Existence /\ Cared /\ hand[w] = Idle
      /\ reindexes > 0 /\ reindexes' = reindexes - 1
      /\ hand' = [hand EXCEPT ![w] = Reindex(1, Listed(1), FALSE)]
      /\ calm' = (\A v \in Workers : hand[v].pc # "reindex")
      /\ UNCHANGED <<campaign, text, index, saved, dropping, queued, saves, born, commands, faults,
                     lost, overtaken, sessions>>
  BY DEF IInv, ReindexBegins, Takes, store, counters
<1>2. /\ Listed(1) \in Todos /\ \A r \in DOMAIN Listed(1) : Listed(1)[r] = text[r]
      /\ \A r \in Sessions : Listable(r) => r \in DOMAIN Listed(1)
  BY <1>1, ListedIs, KindsAre
<1>3. PICK todo, new :
         /\ todo \in Todos /\ todo = Listed(1)
         /\ new = [pc |-> "reindex", kind |-> 1, todo |-> todo, failed |-> FALSE]
  BY <1>2
<1>4. /\ new \in Job \cup Reindexing /\ new.pc = "reindex" /\ new.kind = 1 /\ new.todo = todo
      /\ new.failed = FALSE
  BY <1>3 DEF Reindexing
<1>5. hand' = [hand EXCEPT ![w] = new]
  BY <1>1, <1>3 DEF Reindex
<1>6. /\ reindexes' \in Nat /\ faults' \in Nat /\ calm' \in BOOLEAN
      /\ index' \in [Records -> Stored] /\ lost' \subseteq Records /\ overtaken' \subseteq Records
      /\ hand[w].pc \in {"idle", "reindex"} /\ new.pc \in {"idle", "reindex"}
      /\ ~campaign => \A r \in Records : index'[r] = None
      /\ \A r \in Records : Settled(r) => Settled(r)'
  BY <1>1, <1>4 DEF Shapes, Idle, Existence, Settled, Fresh, Excused
<1>7. /\ Shapes' /\ Existence' /\ Cared'
      /\ hand'[w] = new /\ \A v \in Workers \ {w} : hand'[v] = hand[v]
  BY <1>1, <1>4, <1>5, <1>6, ReindexMoves
<1>8. CaughtUp'
  <2>1. ASSUME NEW v \in Workers, hand'[v].pc = "reindex", calm'
        PROVE  /\ \A x \in Workers : hand'[x].pc = "reindex" => x = v
               /\ \A r \in DOMAIN hand'[v].todo : hand'[v].todo[r] = text'[r]
               /\ hand'[v].failed
                  \/ \A k \in 1..hand'[v].kind : \A r \in Kinds[k] :
                        Listable(r)' => (r \in DOMAIN hand'[v].todo \/ Fresh(r)')
    <3>1. v = w /\ \A x \in Workers : hand'[x].pc = "reindex" => x = w
      BY <1>1, <1>7, <2>1
    <3>2. /\ hand'[v].todo = todo /\ hand'[v].kind = 1 /\ text' = text
          /\ \A r : Listable(r)' => Listable(r)
      BY <1>1, <1>4, <1>7, <3>1 DEF Listable
    <3>3. ASSUME NEW k \in 1..1, NEW r \in Kinds[k], Listable(r) PROVE r \in DOMAIN todo
      <4>1. k = 1
        OBVIOUS
      <4> QED BY <1>2, <1>3, <3>3, <4>1, KindsAre
    <3>4. \A r \in DOMAIN todo : todo[r] = text[r]
      BY <1>2, <1>3
    <3> QED BY <3>1, <3>2, <3>3, <3>4
  <2> QED BY <2>1 DEF CaughtUp, Kinds
<1> QED BY <1>7, <1>8 DEF IInv

LEMMA ReindexListsStep ==
    ASSUME IInv, NEW w \in Workers, ReindexLists(w)
    PROVE  IInv'
<1>1. /\ Shapes /\ Existence /\ Cared /\ CaughtUp /\ hand[w].pc = "reindex"
      /\ DOMAIN hand[w].todo = {} /\ hand[w].kind < Len(Kinds)
      /\ UNCHANGED <<campaign, text, index, saved, dropping, queued, reindexes, lost, overtaken,
                     sessions, calm>>
  BY DEF IInv, ReindexLists, store, jobs
<1>2. hand[w].kind \in 1..3 /\ hand[w].failed \in BOOLEAN /\ hand[w].kind + 1 \in 1..3
  BY <1>1, HandFields, KindsAre DEF Reindexing
<1>3. PICK n \in 1..3 : n = hand[w].kind + 1
  BY <1>2
<1>4. PICK todo \in Todos, failed \in BOOLEAN :
         /\ hand' = [hand EXCEPT ![w] = Reindex(n, todo, failed)]
         /\ \/ todo = Listed(n) /\ failed = hand[w].failed /\ UNCHANGED counters
            \/ DOMAIN todo = {} /\ failed = TRUE /\ Fault
  <2>1. CASE hand' = [hand EXCEPT ![w] = Reindex(n, Listed(n), @.failed)] /\ UNCHANGED counters
    <3>1. Listed(n) \in Todos
      BY <1>1, ListedIs
    <3>2. hand' = [hand EXCEPT ![w] = Reindex(n, Listed(n), hand[w].failed)]
      BY <2>1
    <3> QED BY <1>2, <2>1, <3>1, <3>2
  <2>2. CASE hand' = [hand EXCEPT ![w] = Reindex(n, [r \in {} |-> None], TRUE)] /\ Fault
    <3>1. PICK nothing : nothing = [r \in {} |-> None]
      OBVIOUS
    <3>2. nothing \in [{} -> Versions] /\ {} \in SUBSET Records /\ DOMAIN nothing = {}
      BY <3>1
    <3>3. nothing \in Todos
      BY <3>2 DEF Todos
    <3> QED BY <2>2, <3>1, <3>2, <3>3
  <2> QED BY <1>3, <2>1, <2>2 DEF ReindexLists
<1>5. UNCHANGED <<saves, born, commands>> /\ faults' \in Nat
  BY <1>1, <1>4 DEF Fault, counters, Shapes
<1>6. PICK new : new = [pc |-> "reindex", kind |-> n, todo |-> todo, failed |-> failed]
  OBVIOUS
<1>7. /\ new \in Job \cup Reindexing /\ new.pc = "reindex" /\ new.kind = n /\ new.todo = todo
      /\ new.failed = failed
  BY <1>6 DEF Reindexing
<1>8. hand' = [hand EXCEPT ![w] = new]
  BY <1>4, <1>6 DEF Reindex
<1>9. /\ reindexes' \in Nat /\ calm' \in BOOLEAN
      /\ index' \in [Records -> Stored] /\ lost' \subseteq Records /\ overtaken' \subseteq Records
      /\ ~campaign => \A r \in Records : index'[r] = None
      /\ \A r \in Records : Settled(r) => Settled(r)'
  BY <1>1 DEF Shapes, Existence, Settled, Fresh, Excused
<1>10. hand[w].pc \in {"idle", "reindex"} /\ new.pc \in {"idle", "reindex"}
  BY <1>1, <1>7
<1>11. /\ Shapes' /\ Existence' /\ Cared'
       /\ hand'[w] = new /\ \A v \in Workers \ {w} : hand'[v] = hand[v]
  BY <1>1, <1>5, <1>7, <1>8, <1>9, <1>10, ReindexMoves
<1>12. CaughtUp'
  <2>1. ASSUME NEW v \in Workers, hand'[v].pc = "reindex", calm'
        PROVE  /\ \A x \in Workers : hand'[x].pc = "reindex" => x = v
               /\ \A r \in DOMAIN hand'[v].todo : hand'[v].todo[r] = text'[r]
               /\ hand'[v].failed
                  \/ \A k \in 1..hand'[v].kind : \A r \in Kinds[k] :
                        Listable(r)' => (r \in DOMAIN hand'[v].todo \/ Fresh(r)')
    <3>1. v = w /\ \A x \in Workers : hand'[x].pc = "reindex" => x = w
      BY <1>1, <1>7, <1>11, <2>1 DEF CaughtUp
    <3>2. \A r \in DOMAIN todo : todo[r] = text[r]
      BY <1>1, <1>4, ListedIs
    <3>3. ASSUME ~failed, NEW k \in 1..n, NEW r \in Kinds[k], Listable(r)
          PROVE  r \in DOMAIN todo \/ Fresh(r)'
      <4>1. CASE k = n
        BY <1>1, <1>4, <3>3, <4>1, ListedIs
      <4>2. CASE k # n
        <5>1. k \in 1..hand[w].kind /\ ~hand[w].failed
          BY <1>2, <1>3, <1>4, <3>3, <4>2
        <5>2. Fresh(r)
          BY <1>1, <2>1, <3>3, <5>1 DEF CaughtUp
        <5> QED BY <1>1, <5>2 DEF Fresh
      <4> QED BY <4>1, <4>2
    <3>4. \A r : Listable(r)' => Listable(r)
      BY <1>1 DEF Listable
    <3> QED BY <1>1, <1>7, <1>11, <3>1, <3>2, <3>3, <3>4
  <2> QED BY <2>1 DEF CaughtUp, Kinds
<1> QED BY <1>11, <1>12 DEF IInv

(* A record on the list is stored as it was listed, or is skipped. *)
LEMMA ReindexGoesOnStep ==
    ASSUME IInv, NEW w \in Workers, NEW r \in Records, ReindexWrites(w, r) \/ ReindexSkips(w, r)
    PROVE  IInv'
<1>1. /\ Shapes /\ Existence /\ Cared /\ CaughtUp /\ hand[w].pc = "reindex"
      /\ r \in DOMAIN hand[w].todo /\ hand[w] \in Reindexing
      /\ UNCHANGED <<saved, dropping, queued, reindexes, saves, born, commands, calm>>
      /\ faults' \in Nat
  BY HandFields DEF IInv, ReindexWrites, ReindexSkips, Fault, counters, jobs, Shapes
<1>2. /\ hand[w].todo \in Todos /\ hand[w].kind \in 1..3 /\ hand[w].failed \in BOOLEAN
      /\ hand[w] = [pc |-> "reindex", kind |-> hand[w].kind, todo |-> hand[w].todo,
                    failed |-> hand[w].failed]
  BY <1>1 DEF Reindexing
<1>3. PICK v \in Stored : v = hand[w].todo[r]
  BY <1>1, <1>2, TodoFields, Numbers
<1>4. PICK todo \in Todos :
         /\ todo = Without(hand[w].todo, r) /\ DOMAIN todo = DOMAIN hand[w].todo \ {r}
         /\ \A x \in DOMAIN todo : todo[x] = hand[w].todo[x]
  <2>1. PICK old \in Todos : old = hand[w].todo
    BY <1>2
  <2>2. /\ Without(old, r) \in Todos /\ DOMAIN Without(old, r) = DOMAIN old \ {r}
        /\ \A x \in DOMAIN old \ {r} : Without(old, r)[x] = old[x]
    BY TodoFields
  <2> QED BY <2>1, <2>2
<1>5. PICK new :
         /\ new \in Reindexing /\ new.kind = hand[w].kind /\ new.todo = todo
         /\ hand' = [hand EXCEPT ![w] = new]
         /\ \/ ReindexWrites(w, r) /\ new.failed = hand[w].failed
            \/ ReindexSkips(w, r) /\ new.failed = TRUE
  <2>1. CASE ReindexWrites(w, r)
    <3>1. PICK new : new = [hand[w] EXCEPT !.todo = todo]
      OBVIOUS
    <3>2. /\ new \in Reindexing /\ new.kind = hand[w].kind /\ new.todo = todo
          /\ new.failed = hand[w].failed
      BY <1>1, <3>1 DEF Reindexing
    <3>3. hand' = [hand EXCEPT ![w] = new]
      BY <1>4, <2>1, <3>1 DEF ReindexWrites
    <3> QED BY <2>1, <3>2, <3>3
  <2>2. CASE ReindexSkips(w, r)
    <3>1. PICK mid : mid = [hand[w] EXCEPT !.todo = todo]
      OBVIOUS
    <3>2. mid \in Reindexing /\ mid.kind = hand[w].kind /\ mid.todo = todo
      BY <1>1, <3>1 DEF Reindexing
    <3>3. PICK new : new = [mid EXCEPT !.failed = TRUE]
      OBVIOUS
    <3>4. /\ new \in Reindexing /\ new.kind = hand[w].kind /\ new.todo = todo
          /\ new.failed = TRUE
      BY <3>2, <3>3 DEF Reindexing
    <3>5. PICK between : between = [hand EXCEPT ![w].todo = todo]
      OBVIOUS
    <3>6. hand' = [between EXCEPT ![w].failed = TRUE]
      BY <1>4, <2>2, <3>5 DEF ReindexSkips
    <3>7. between = [hand EXCEPT ![w] = mid]
      BY <3>1, <3>5
    <3>8. hand' = [hand EXCEPT ![w] = new]
      BY <1>1, <3>3, <3>6, <3>7 DEF Shapes
    <3> QED BY <2>2, <3>4, <3>8
  <2> QED BY <2>1, <2>2
<1>6. /\ UNCHANGED <<campaign, text, sessions>> /\ index' \in [Records -> Stored]
      /\ lost' \subseteq Records /\ overtaken' \subseteq Records
      /\ \A x \in Records : Settled(x) => Settled(x)'
      /\ \A x \in Records \ {r} : index'[x] = index[x]
      /\ index'[r] = v \/ (index' = index /\ new.failed)
      /\ ~campaign => \A x \in Records : index'[x] = None
  <2>1. CASE ReindexWrites(w, r) /\ new.failed = hand[w].failed
    <3>1. Storable(v) /\ Write(r, v)
      BY <1>3, <2>1 DEF ReindexWrites
    <3>2. /\ UNCHANGED <<campaign, text, sessions>> /\ index' \in [Records -> Stored]
          /\ lost' \subseteq Records /\ overtaken' \subseteq Records
          /\ \A x \in Records : Settled(x) => Settled(x)'
          /\ \A x \in Records \ {r} : index'[x] = index[x]
          /\ index'[r] = v
      BY <1>1, <1>3, <3>1, WriteSettles
    <3>3. ~campaign => \A x \in Records : index'[x] = None
      BY <1>1, <3>1, <3>2 DEF Existence, Storable
    <3> QED BY <3>2, <3>3
  <2>2. CASE ReindexSkips(w, r) /\ new.failed = TRUE
    BY <1>1, <2>2 DEF ReindexSkips, store, Shapes, Existence, Settled, Fresh, Excused
  <2> QED BY <1>5, <2>1, <2>2
<1>7. /\ reindexes' \in Nat /\ calm' \in BOOLEAN /\ new \in Job \cup Reindexing
      /\ hand[w].pc \in {"idle", "reindex"} /\ new.pc \in {"idle", "reindex"}
  BY <1>1, <1>5 DEF Shapes, Reindexing
<1>8. /\ Shapes' /\ Existence' /\ Cared'
      /\ hand'[w] = new /\ \A x \in Workers \ {w} : hand'[x] = hand[x]
  BY <1>1, <1>5, <1>6, <1>7, ReindexMoves
<1>9. CaughtUp'
  <2>1. ASSUME NEW x \in Workers, hand'[x].pc = "reindex", calm'
        PROVE  /\ \A y \in Workers : hand'[y].pc = "reindex" => y = x
               /\ \A z \in DOMAIN hand'[x].todo : hand'[x].todo[z] = text'[z]
               /\ hand'[x].failed
                  \/ \A k \in 1..hand'[x].kind : \A z \in Kinds[k] :
                        Listable(z)' => (z \in DOMAIN hand'[x].todo \/ Fresh(z)')
    <3>1. x = w /\ \A y \in Workers : hand'[y].pc = "reindex" => y = w
      BY <1>1, <1>8, <2>1 DEF CaughtUp
    <3>2. /\ \A z \in DOMAIN hand[w].todo : hand[w].todo[z] = text[z]
          /\ hand[w].failed
             \/ \A k \in 1..hand[w].kind : \A z \in Kinds[k] :
                   Listable(z) => (z \in DOMAIN hand[w].todo \/ Fresh(z))
      BY <1>1, <2>1 DEF CaughtUp
    <3>3. \A z \in DOMAIN todo : todo[z] = text[z]
      BY <1>4, <3>2
    <3>4. ASSUME ~new.failed, NEW k \in 1..hand[w].kind, NEW z \in Kinds[k], Listable(z)
          PROVE  z \in DOMAIN todo \/ Fresh(z)'
      <4>1. z \in Records /\ ~hand[w].failed
        BY <1>2, <1>5, <3>4, KindsAre
      <4>2. z \in DOMAIN hand[w].todo \/ Fresh(z)
        BY <3>2, <3>4, <4>1
      <4>3. CASE z = r
        BY <1>1, <1>3, <1>6, <3>2, <3>4, <4>3 DEF Fresh
      <4>4. CASE z # r
        BY <1>4, <1>6, <4>1, <4>2, <4>4 DEF Fresh
      <4> QED BY <4>3, <4>4
    <3>5. \A z : Listable(z)' => Listable(z)
      BY <1>6 DEF Listable
    <3> QED BY <1>5, <1>6, <1>8, <3>1, <3>3, <3>4, <3>5
  <2> QED BY <2>1 DEF CaughtUp, Kinds
<1> QED BY <1>8, <1>9 DEF IInv

LEMMA ReindexEndsStep ==
    ASSUME IInv, NEW w \in Workers, ReindexEnds(w)
    PROVE  IInv'
<1>1. /\ Shapes /\ Existence /\ Cared /\ CaughtUp /\ hand[w].pc = "reindex"
      /\ hand' = [hand EXCEPT ![w] = Idle]
      /\ UNCHANGED <<campaign, text, index, saved, dropping, queued, reindexes, saves, born,
                     commands, faults, lost, overtaken, sessions,
                     calm>>
  BY DEF IInv, ReindexEnds, Ends, store, jobs, counters
<1>2. /\ reindexes' \in Nat /\ faults' \in Nat /\ calm' \in BOOLEAN /\ Idle \in Job \cup Reindexing
      /\ index' \in [Records -> Stored] /\ lost' \subseteq Records /\ overtaken' \subseteq Records
      /\ hand[w].pc \in {"idle", "reindex"} /\ Idle.pc \in {"idle", "reindex"}
      /\ ~campaign => \A r \in Records : index'[r] = None
      /\ \A r \in Records : Settled(r) => Settled(r)'
  BY <1>1 DEF Shapes, Idle, Job, Existence, Settled, Fresh, Excused
<1>3. /\ Shapes' /\ Existence' /\ Cared'
      /\ hand'[w] = Idle /\ \A v \in Workers \ {w} : hand'[v] = hand[v]
  BY <1>1, <1>2, ReindexMoves
<1>4. \A v \in Workers : hand'[v].pc = "reindex" => hand'[v] = hand[v]
  BY <1>3 DEF Idle
<1>5. CaughtUp'
  BY <1>1, <1>4, CaughtUpStays DEF Fresh
<1> QED BY <1>3, <1>5 DEF IInv
-----------------------------------------------------------------------------
LEMMA InitInv ==
    ASSUME Init
    PROVE  IInv
<1>1. Shapes
  <2>1. Idle \in Job \cup Reindexing /\ 0 \in 0..MaxSaves
    BY Numbers DEF Job
  <2>2. hand \in [Workers -> Job \cup Reindexing]
    BY <2>1 DEF Init
  <2>3. text \in [Records -> Stored] /\ index \in [Records -> Stored]
    BY Numbers DEF Init
  <2>4. saved \in [Records -> Nat] /\ queued \in [Records -> Nat]
    BY DEF Init
  <2>5. requeue \in [Sessions -> SUBSET Stored]
    BY DEF Init
  <2> QED BY <2>1, <2>2, <2>3, <2>4, <2>5 DEF Init, Shapes
<1>2. Existence
  BY DEF Init, Existence, Canon, Records
<1>3. Cared
  BY DEF Init, Cared, Settled, Fresh
<1>4. CaughtUp
  BY DEF Init, CaughtUp
<1> QED BY <1>1, <1>2, <1>3, <1>4 DEF IInv

LEMMA WorkStep ==
    ASSUME IInv, NEW w \in Workers, Work(w)
    PROVE  IInv'
<1>1. CASE \E r \in Canon : EmbedReads(w, r)
  BY <1>1, ReadStep
<1>2. CASE EmbedWrites(w) \/ TranscriptIndexed(w)
  BY <1>2, WritesStep
<1>3. CASE EmbedRefused(w)
  BY <1>3, FailsStep
<1>4. CASE TranscriptNotIndexed(w)
  BY <1>4, NotIndexedStep
<1>5. CASE ReindexBegins(w)
  BY <1>5, ReindexBeginsStep
<1>6. CASE ReindexLists(w)
  BY <1>6, ReindexListsStep
<1>7. CASE ReindexEnds(w)
  BY <1>7, ReindexEndsStep
<1>8. CASE \E r \in Records : ReindexWrites(w, r) \/ ReindexSkips(w, r)
  BY <1>8, ReindexGoesOnStep
<1> QED BY <1>1, <1>2, <1>3, <1>4, <1>5, <1>6, <1>7, <1>8 DEF Work

LEMMA StepInv ==
    ASSUME IInv, [Next]_vars
    PROVE  IInv'
<1>1. CASE UNCHANGED vars
  BY <1>1 DEF vars, store, jobs, counters, IInv, Shapes, Existence, Cared, Carried, Carries,
              Settled, Fresh, Excused, CaughtUp, Listable
<1>2. CASE \E r \in Canon : Save(r)
  BY <1>2, SaveStep
<1>3. CASE \E r \in Canon : EnqueueCanonEmbed(r) \/ EnqueueFails(r)
  BY <1>3, EnqueueStep
<1>4. CASE \E r \in Canon : DeleteRecord(r)
  BY <1>4, DeleteRecordStep
<1>5. CASE \E r \in Canon : DeleteCanonEmbedding(r) \/ DeleteEmbeddingFails(r)
  BY <1>5, DeleteEmbeddingStep
<1>6. CASE DeleteCampaign \/ HandleReindex
  BY <1>6, CommandStep
<1>7. CASE \E w \in Workers : Work(w)
  BY <1>7, WorkStep
<1>8. CASE \E w \in Workers : \E r \in Canon : EmbedRunsTwice(w, r)
  BY <1>8, ReadStep
<1>9. CASE \E w \in Workers : \E again \in BOOLEAN : EmbedFails(w, again)
  BY <1>9, FailsStep
<1>10. CASE \E w \in Workers : \E s \in Sessions : TranscriptSaved(w, s)
  BY <1>10, TranscriptStep
<1>11. CASE \E w \in Workers : \E s \in Sessions : \E done \in BOOLEAN : TranscriptKept(w, s, done)
  BY <1>11, KeptStep
<1>12. CASE \E s \in Sessions : MarkFailed(s) \/ RequeueWrites(s)
  BY <1>12, OverwrittenStep
<1>13. CASE \E s \in Sessions : RequeueReads(s)
  BY <1>13, RequeueReadsStep
<1> QED BY <1>1, <1>2, <1>3, <1>4, <1>5, <1>6, <1>7, <1>8, <1>9, <1>10, <1>11, <1>12, <1>13 DEF Next

THEOREM Invariant == Spec => []IInv
<1>1. Init => IInv
  BY InitInv
<1>2. IInv /\ [Next]_vars => IInv'
  BY StepInv
<1> QED BY <1>1, <1>2, PTL DEF Spec
-----------------------------------------------------------------------------
(* Rows, jobs and lists are what the code can make of them. *)
THEOREM TypesHold == Spec => []TypeOK
<1>1. ASSUME IInv, NEW w \in Workers
      PROVE  \/ hand[w] \in Job
             \/ /\ hand[w].pc = "reindex" /\ hand[w].kind \in DOMAIN Kinds
                /\ hand[w].failed \in BOOLEAN
                /\ DOMAIN hand[w].todo \subseteq Records
                /\ \A r \in DOMAIN hand[w].todo : hand[w].todo[r] \in Versions
  <2>1. hand[w] \in Job \/ hand[w] \in Reindexing
    BY <1>1 DEF IInv, Shapes
  <2>2. ASSUME hand[w] \in Reindexing
        PROVE  /\ hand[w].pc = "reindex" /\ hand[w].kind \in 1..3 /\ hand[w].todo \in Todos
               /\ hand[w].failed \in BOOLEAN
    BY <2>2 DEF Reindexing
  <2> QED BY <2>1, <2>2, KindsAre, TodoFields
<1>2. IInv => TypeOK
  BY <1>1 DEF IInv, Shapes, Existence, TypeOK, Stored
<1> QED BY <1>2, Invariant, PTL

(* handleEmbedCanon and its callers (embed.go:150-194): an embedding job    *)
(* reads the record when it runs, so once all the jobs of a record are done *)
(* /ask finds what the record says, or nothing if it is gone; the           *)
(* exceptions are a job given up and one that was overtaken.                *)
THEOREM HandledIsFresh == Spec => []FreshWhenHandled
<1>1. ASSUME IInv, NEW r \in Records, Handled(r) PROVE Fresh(r) \/ Excused(r)
  <2>1. ~Carried(r)
    BY <1>1 DEF Handled, Carried, Carries
  <2> QED BY <1>1, <2>1 DEF IInv, Cared, Settled
<1>2. IInv => FreshWhenHandled
  BY <1>1 DEF FreshWhenHandled
<1> QED BY <1>2, Invariant, PTL

(* handleReindexCampaign (embed.go:49-125): a reindex that met no failure   *)
(* and during which nobody else wrote has made every record fresh.          *)
THEOREM ReindexIsComplete == Spec => []ReindexCatchesUp
<1>1. ASSUME IInv, NEW w \in Workers, hand[w].pc = "reindex", hand[w].kind = Len(Kinds),
             DOMAIN hand[w].todo = {}, ~hand[w].failed, calm, NEW r \in Records, Listable(r)
      PROVE  Fresh(r)
  <2>1. PICK k \in 1..3 : r \in Kinds[k]
    BY KindsAre
  <2>2. k \in 1..hand[w].kind
    BY <1>1, KindsAre
  <2> QED BY <1>1, <2>1, <2>2 DEF IInv, CaughtUp
<1>2. IInv => ReindexCatchesUp
  BY <1>1 DEF ReindexCatchesUp
<1> QED BY <1>2, Invariant, PTL
=============================================================================
