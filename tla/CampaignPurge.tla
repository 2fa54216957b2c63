---------------------------- MODULE CampaignPurge ----------------------------
(***************************************************************************)
(* /campaign delete (handlers_world.go) beside the recording of the        *)
(* campaign's sessions (handlers_session.go, voice.go).  The rows of a     *)
(* campaign go by cascade, its audio does not: every session's chunks are  *)
(* listed and deleted from object storage (storage.go) before the row that *)
(* says where they are.                                                    *)
(*                                                                         *)
(* One guild and one gateway process; deletions run beside each other and  *)
(* beside one session command or the resume.  What session commands do to  *)
(* each other, and failed updates of their rows, are SessionLifecycle's    *)
(* subject; which frames a chunk holds is Recorder's.                      *)
(***************************************************************************)
EXTENDS Naturals, FiniteSets, FiniteSetsExt

CONSTANTS
    Campaigns,
    Sessions,      \* rows the sessions table may come to hold
    Deleters,      \* /campaign delete commands that may run at once
    MaxChunks,     \* bound: chunks of a session
    MaxFaults,     \* bound: failures and deaths of the gateway
    None

ASSUME PurgeBounds == MaxChunks \in Nat /\ MaxFaults \in Nat
ASSUME NoneAssumption == None \notin [s : Sessions, seq : Nat]

VARIABLES
    campaign,      \* rows of campaigns
    row,           \* row[s]: a row of sessions
    chunk,         \* object storage: <<s, n>> for chunk n of session s
    rec,           \* voiceManager.rec: the session and its next chunk number
    command,       \* where the session command or the resume is
    purge,         \* purge[d]: where a deletion is
    missed,        \* history: chunks a deletion that ended could not know of
    faults

vars == <<campaign, row, chunk, rec, command, purge, missed, faults>>
-----------------------------------------------------------------------------
New == [state |-> "new"]
Gone == [state |-> "gone"]
Row == [state : {"recording", "ended"}, of : Campaigns, named : BOOLEAN]
Numbers == 1..MaxChunks
Chunk == Sessions \X Numbers
Recording == [s : Sessions, seq : 1..(MaxChunks + 1)]

Idle == [pc |-> "idle"]
Command ==
    {Idle, [pc |-> "resume"]}
    \cup [pc : {"join"}, s : Sessions, seq : 0..MaxChunks, resumed : BOOLEAN]
    \cup [pc : {"leave"}, s : Sessions]
    \cup [pc : {"flush"}, s : Sessions, rec : Recording]
Purge ==
    {Idle} \cup [pc : {"purge"}, of : Campaigns, todo : SUBSET Sessions,
                 keys : SUBSET Chunk, late : SUBSET Chunk]

Live == {s \in Sessions : row[s].state = "recording"}
SessionsOf(c) == {s \in Sessions : row[s] \in Row /\ row[s].of = c}
ChunksOf(S) == {o \in chunk : o[1] \in S}

Disturb == faults < MaxFaults /\ faults' = faults + 1

Init ==
    /\ campaign = Campaigns
    /\ row = [s \in Sessions |-> New]
    /\ chunk = {} /\ rec = None /\ command = Idle
    /\ purge = [d \in Deleters |-> Idle]
    /\ missed = {} /\ faults = 0

(* Rows that still say recording are closed. *)
Closed(S) == [s \in Sessions |-> IF s \in S \cap Live THEN [row[s] EXCEPT !.state = "ended"]
                                                      ELSE row[s]]
-----------------------------------------------------------------------------
(* /session start up to CreateSession: stale rows are cleared first.  The   *)
(* prefix of the chunks is not yet in the row.                              *)
Start(s, c) ==
    /\ command = Idle /\ c \in campaign /\ row[s] = New
    /\ Live = {} \/ rec = None
    /\ row' = [Closed(Sessions) EXCEPT ![s] = [state |-> "recording", of |-> c, named |-> FALSE]]
    /\ command' = [pc |-> "join", s |-> s, seq |-> 0, resumed |-> FALSE]
    /\ UNCHANGED <<campaign, chunk, rec, purge, missed, faults>>

(* voiceManager.join succeeds: the prefix is recorded, an error of that     *)
(* only logged; of a row that is gone nothing is said.                      *)
JoinOpens ==
    /\ command.pc = "join" /\ rec = None
    /\ LET s == command.s
       IN  \/ /\ row' = IF row[s] = Gone THEN row ELSE [row EXCEPT ![s].named = TRUE]
              /\ UNCHANGED faults
           \/ UNCHANGED row /\ Disturb
    /\ rec' = [s |-> command.s, seq |-> command.seq + 1]
    /\ command' = Idle
    /\ UNCHANGED <<campaign, chunk, purge, missed>>

(* It fails, at once when the guild has a recording in memory: the command  *)
(* marks the row failed, the resume leaves it.                              *)
JoinFails ==
    /\ command.pc = "join"
    /\ row' = IF command.resumed THEN row ELSE Closed({command.s})
    /\ command' = Idle
    /\ UNCHANGED <<campaign, chunk, rec, purge, missed, faults>>

(* Storage takes a chunk.  History: a deletion at work will not see it when *)
(* it has passed its session, or never had the session on its list.         *)
Put(o) ==
    LET s == o[1]
    IN  /\ chunk' = chunk \cup {o}
        /\ purge' = [d \in Deleters |->
                        IF purge[d] # Idle /\ s \in SessionsOf(purge[d].of) \ purge[d].todo
                        THEN [purge[d] EXCEPT !.late = @ \cup {o}]
                        ELSE purge[d]]
        /\ missed' = IF row[s] = Gone THEN missed \cup {o} ELSE missed

(* A chunk whose upload seems to have failed is stored again, with more.    *)
Checkpoint ==
    /\ rec # None /\ rec.seq \in Numbers
    /\ Put(<<rec.s, rec.seq>>)
    /\ rec' \in {rec, [rec EXCEPT !.seq = @ + 1]}
    /\ UNCHANGED <<campaign, row, command, faults>>

(* /session stop: GetActiveSession; without a recording in memory the row   *)
(* is marked failed.                                                        *)
StopLookup(s) ==
    /\ command = Idle /\ s \in Live
    /\ IF rec = None THEN row' = Closed({s}) /\ UNCHANGED command
       ELSE command' = [pc |-> "leave", s |-> s] /\ UNCHANGED row
    /\ UNCHANGED <<campaign, chunk, rec, purge, missed, faults>>

(* voiceManager.stop takes the recording, whatever session it is of, ...    *)
StopLeaves ==
    /\ command.pc = "leave" /\ rec # None
    /\ command' = [pc |-> "flush", s |-> command.s, rec |-> rec]
    /\ rec' = None
    /\ UNCHANGED <<campaign, row, chunk, purge, missed, faults>>

(* ... stores its tail, if there is one, and the session is ended.          *)
StopFlushes ==
    /\ command.pc = "flush"
    /\ LET r == command.rec
       IN  \/ r.seq \in Numbers /\ Put(<<r.s, r.seq>>)
           \/ UNCHANGED <<chunk, purge, missed>>
    /\ row' = Closed({command.s})
    /\ command' = Idle
    /\ UNCHANGED <<campaign, rec, faults>>

(* The gateway dies; on SIGTERM stopAll stores the tail.  The next one      *)
(* starts with the resume.                                                  *)
Restart ==
    /\ Disturb
    /\ LET tails == IF rec # None /\ rec.seq \in Numbers THEN {<<rec.s, rec.seq>>} ELSE {}
       IN  \E stored \in SUBSET tails :
              /\ chunk' = chunk \cup stored
              /\ missed' = missed \cup {o \in stored : row[o[1]] = Gone}
    /\ rec' = None /\ command' = [pc |-> "resume"]
    /\ purge' = [d \in Deleters |-> Idle]
    /\ UNCHANGED <<campaign, row>>

(* resumeActive: the rows that say recording, and the last chunk of one.    *)
ResumeActive ==
    /\ command.pc = "resume"
    /\ IF Live = {} THEN command' = Idle
       ELSE \E s \in Live :
               command' = [pc |-> "join", s |-> s, resumed |-> TRUE,
                           seq |-> Max({0} \cup {o[2] : o \in ChunksOf({s})})]
    /\ UNCHANGED <<campaign, row, chunk, rec, purge, missed, faults>>

(* reapStale: a row whose recorder is gone is ended. *)
Reap(s) ==
    /\ s \in Live /\ rec = None
    /\ row' = Closed({s})
    /\ UNCHANGED <<campaign, chunk, rec, command, purge, missed, faults>>
-----------------------------------------------------------------------------
(* campaignDelete: ListSessionChunkPrefixes skips rows without a prefix.    *)
DeleteBegins(d, c) ==
    /\ purge[d] = Idle /\ c \in campaign
    /\ LET listed == {s \in SessionsOf(c) : row[s].named}
       IN  purge' = [purge EXCEPT ![d] = [pc |-> "purge", of |-> c, todo |-> listed, keys |-> {},
                                           late |-> ChunksOf(SessionsOf(c) \ listed)]]
    /\ UNCHANGED <<campaign, row, chunk, rec, command, missed, faults>>

(* DeletePrefix of the next prefix: its keys are listed... *)
PurgeLists(d) ==
    /\ purge[d] # Idle /\ purge[d].keys = {}
    /\ \E s \in purge[d].todo :
          purge' = [purge EXCEPT ![d].todo = @ \ {s}, ![d].keys = ChunksOf({s})]
    /\ UNCHANGED <<campaign, row, chunk, rec, command, missed, faults>>

(* ... and deleted, so many at a request. *)
PurgeDeletes(d) ==
    /\ purge[d] # Idle
    /\ \E batch \in SUBSET purge[d].keys \ {{}} :
          /\ chunk' = chunk \ batch
          /\ purge' = [purge EXCEPT ![d].keys = @ \ batch]
    /\ UNCHANGED <<campaign, row, rec, command, missed, faults>>

(* A request fails, perhaps for some keys only, or the deadline passes: the *)
(* command stops before it deletes the campaign.                            *)
DeleteFails(d) ==
    /\ purge[d] # Idle
    /\ \E batch \in SUBSET purge[d].keys : chunk' = chunk \ batch
    /\ purge' = [purge EXCEPT ![d] = Idle]
    /\ Disturb
    /\ UNCHANGED <<campaign, row, rec, command, missed>>

DeleteRows(d) ==
    /\ campaign' = campaign \ {purge[d].of}
    /\ row' = [s \in Sessions |-> IF s \in SessionsOf(purge[d].of) THEN Gone ELSE row[s]]
    /\ purge' = [purge EXCEPT ![d] = Idle]
    /\ missed' = missed \cup purge[d].late
    /\ UNCHANGED <<chunk, rec, command, faults>>

(* Variant: the error of DeletePrefix is only logged. *)
DeleteRegardless(d) == purge[d] # Idle /\ purge[d].todo = {} /\ DeleteRows(d)

(* DeleteCampaign, with everything that refers to it. *)
DeleteCampaign(d) ==
    /\ purge[d] # Idle /\ purge[d].todo = {} /\ purge[d].keys = {}
    /\ DeleteRows(d)

Next ==
    \/ \E s \in Sessions, c \in Campaigns : Start(s, c)
    \/ JoinOpens \/ JoinFails \/ Checkpoint \/ StopLeaves \/ StopFlushes
    \/ \E s \in Sessions : StopLookup(s) \/ Reap(s)
    \/ Restart \/ ResumeActive
    \/ \E d \in Deleters :
          \/ \E c \in Campaigns : DeleteBegins(d, c)
          \/ PurgeLists(d) \/ PurgeDeletes(d) \/ DeleteFails(d) \/ DeleteCampaign(d)

Spec == Init /\ [][Next]_vars
-----------------------------------------------------------------------------
TypeOK ==
    /\ campaign \subseteq Campaigns
    /\ row \in [Sessions -> Row \cup {New, Gone}]
    /\ chunk \subseteq Chunk /\ missed \subseteq Chunk
    /\ rec \in Recording \cup {None}
    /\ command \in Command
    /\ purge \in [Deleters -> Purge]
    /\ faults \in 0..MaxFaults

(* Stored audio can be found from the sessions table, so that a deletion    *)
(* that failed can be tried again: chunks outlive their row only when they  *)
(* were stored after the purge had passed them, or under a prefix that the  *)
(* row did not name.                                                        *)
AudioNamed == \A o \in chunk : row[o[1]] \in Row \/ o \in missed

(* handlers_world.go: the command "permanently removes a campaign and       *)
(* everything under it".                                                    *)
EverythingUnderIt ==
    \A s \in Sessions : row[s] = Gone => ChunksOf({s}) = {}
=============================================================================
