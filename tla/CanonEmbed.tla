------------------------------ MODULE CanonEmbed ------------------------------
(***************************************************************************)
(* The memory that /ask searches: one embedding per world entity and per   *)
(* player character (canon_embeddings) and the passages of each session's  *)
(* transcript (session_embeddings).  The gateway saves a record and then   *)
(* asks for an embedding job, a worker reads the record, calls the         *)
(* embedding model and stores what came back (internal/worker/embed.go,    *)
(* internal/db/store_embeddings.go, enqueueCanonEmbed).                    *)
(*                                                                         *)
(* A text is the number of the save that wrote it; identifiers are UUIDs,  *)
(* never used again.  Jobs run as JobQueue promises: at least once, in any *)
(* order, or are given up after the last attempt.                          *)
(***************************************************************************)
EXTENDS Naturals, Sequences

CONSTANTS
    Entities, Characters,  \* records of the campaign, by id
    Sessions,              \* its sessions
    Workers,               \* goroutines of workers with a job in hand
    MaxSaves,              \* bound: saves of records
    MaxReindex,            \* bound: /reindex commands
    MaxFaults              \* bound: failures of the model, Redis or the database

ASSUME BoundsAssumption == {MaxSaves, MaxReindex, MaxFaults} \subseteq Nat
ASSUME KindsAssumption ==
    Entities \cap Characters = {} /\ (Entities \cup Characters) \cap Sessions = {}

VARIABLES
    campaign,      \* whether the campaign still exists
    text,          \* text[r]: what record r says, None when there is no record
    index,         \* index[r]: the text that /ask finds for r, None without a row
    saved,         \* saved[r]: handlers that saved r and have yet to enqueue
    dropping,      \* deleted records whose embedding is yet to be deleted
    queued,        \* queued[r]: embedding jobs of r that wait or wait again
    reindexes,     \* /reindex jobs that wait
    hand,          \* hand[w]: the job a worker's goroutine runs
    complete,      \* sessions with status 'complete'
    requeue        \* requeue[s]: transcripts that /session requeue is about to write back

VARIABLES          \* history
    saves,         \* saves so far
    born,          \* records that exist or existed
    commands,      \* /reindex commands given
    faults,
    lost,          \* records whose embedding was given up
    overtaken,     \* records whose right embedding was replaced by an older one
    unindexed,     \* sessions whose transcript was last changed by a write nobody indexes
    calm           \* nobody wrote since the only /reindex job at work began

store == <<campaign, text, index>>
jobs == <<saved, dropping, queued, reindexes>>
counters == <<saves, born, commands, faults>>
sessions == <<complete, requeue, unindexed>>
vars == <<store, jobs, hand, counters, lost, overtaken, sessions, calm>>
-----------------------------------------------------------------------------
Canon == Entities \cup Characters
Records == Canon \cup Sessions
None == 0
Versions == 1..MaxSaves

Idle == [pc |-> "idle"]
Embedding(r) == [pc |-> "embed", rec |-> r, seen |-> text[r]]
(* Variant: a /reindex without characters. *)
KindsWithoutCharacters == <<Sessions, Entities>>

(* The three lists of a /reindex, in its order. *)
Kinds == <<Sessions, Entities, Characters>>

Init ==
    /\ campaign = TRUE
    /\ text = [r \in Records |-> None] /\ index = [r \in Records |-> None]
    /\ saved = [r \in Records |-> 0] /\ dropping = {}
    /\ queued = [r \in Records |-> 0] /\ reindexes = 0
    /\ hand = [w \in Workers |-> Idle]
    /\ saves = 0 /\ born = {} /\ commands = 0 /\ faults = 0
    /\ lost = {} /\ overtaken = {} /\ calm = FALSE
    /\ complete = {} /\ requeue = [s \in Sessions |-> {}] /\ unindexed = {}

Fault == faults < MaxFaults /\ faults' = faults + 1 /\ UNCHANGED <<saves, born, commands>>

NewText(r) ==
    /\ campaign /\ saves < MaxSaves
    /\ saves' = saves + 1 /\ born' = born \cup {r}
    /\ text' = [text EXCEPT ![r] = saves + 1]
    /\ calm' = FALSE
    /\ UNCHANGED <<campaign, index, commands, faults>>

(* What is stored for r becomes v, and the history says what that did. *)
Write(r, v) ==
    /\ index' = [index EXCEPT ![r] = v]
    /\ lost' = IF v = text[r] THEN lost \ {r} ELSE lost
    /\ overtaken' = IF v = text[r] THEN overtaken \ {r}
                    ELSE IF index[r] = text[r] THEN overtaken \cup {r} ELSE overtaken
    /\ UNCHANGED <<campaign, text, sessions>>

GivenUp(r) == lost' = lost \cup {r} /\ UNCHANGED <<overtaken, store, sessions>>
-----------------------------------------------------------------------------
(* A form, an approval, or a first save: the record is committed... *)
Save(r) ==
    /\ r \in Canon /\ (text[r] # None \/ r \notin born)
    /\ NewText(r)
    /\ saved' = [saved EXCEPT ![r] = @ + 1]
    /\ UNCHANGED <<dropping, queued, reindexes, hand, lost, overtaken, sessions>>

(* ... and its embedding is asked for. *)
EnqueueCanonEmbed(r) ==
    /\ saved[r] > 0
    /\ saved' = [saved EXCEPT ![r] = @ - 1]
    /\ queued' = [queued EXCEPT ![r] = @ + 1]
    /\ UNCHANGED <<store, dropping, reindexes, hand, counters, lost, overtaken, sessions, calm>>

(* A failure is logged; or the gateway dies in between. *)
EnqueueFails(r) ==
    /\ saved[r] > 0 /\ Fault
    /\ saved' = [saved EXCEPT ![r] = @ - 1]
    /\ GivenUp(r)
    /\ UNCHANGED <<dropping, queued, reindexes, hand, calm>>

(* /world delete and /character delete: the record goes... *)
DeleteRecord(r) ==
    /\ r \in Canon /\ text[r] # None
    /\ text' = [text EXCEPT ![r] = None]
    /\ dropping' = dropping \cup {r}
    /\ calm' = FALSE
    /\ UNCHANGED <<campaign, index, saved, queued, reindexes, hand, counters, lost, overtaken,
                   sessions>>

(* Variant: nothing is deleted but the record. *)
LeavesEmbedding(r) ==
    /\ r \in dropping
    /\ dropping' = dropping \ {r}
    /\ UNCHANGED <<store, saved, queued, reindexes, hand, counters, lost, overtaken, sessions,
                   calm>>

(* ... then its embedding, whose error is dropped. *)
DeleteCanonEmbedding(r) ==
    /\ r \in dropping
    /\ dropping' = dropping \ {r}
    /\ Write(r, None)
    /\ UNCHANGED <<saved, queued, reindexes, hand, counters, calm>>

DeleteEmbeddingFails(r) ==
    /\ r \in dropping /\ Fault
    /\ dropping' = dropping \ {r}
    /\ GivenUp(r)
    /\ UNCHANGED <<saved, queued, reindexes, hand, calm>>

(* /campaign delete: foreign keys take everything along, and a write to a  *)
(* session that is gone changes nothing.                                    *)
DeleteCampaign ==
    /\ campaign /\ campaign' = FALSE
    /\ text' = [r \in Records |-> None] /\ index' = [r \in Records |-> None]
    /\ complete' = {} /\ requeue' = [s \in Sessions |-> {}]
    /\ lost' = {} /\ overtaken' = {} /\ unindexed' = {} /\ calm' = FALSE
    /\ UNCHANGED <<jobs, hand, counters>>

HandleReindex ==
    /\ campaign /\ commands < MaxReindex
    /\ commands' = commands + 1
    /\ reindexes' = reindexes + 1
    /\ UNCHANGED <<store, saved, dropping, queued, hand, saves, born, faults, lost, overtaken,
                   sessions, calm>>
-----------------------------------------------------------------------------
Takes(w, job) == hand[w] = Idle /\ hand' = [hand EXCEPT ![w] = job]
Ends(w) == hand' = [hand EXCEPT ![w] = Idle]

(* handleEmbedCanon reads the record; one that is gone has None to store. *)
EmbedReads(w, r) ==
    /\ queued[r] > 0
    /\ queued' = [queued EXCEPT ![r] = @ - 1]
    /\ Takes(w, Embedding(r))
    /\ UNCHANGED <<store, saved, dropping, reindexes, counters, lost, overtaken, sessions, calm>>

(* The same job is given out once more while it runs (ReapOrphans). *)
EmbedRunsTwice(w, r) ==
    /\ queued[r] > 0 /\ Takes(w, Embedding(r)) /\ Fault
    /\ UNCHANGED <<store, jobs, lost, overtaken, sessions, calm>>

(* A row needs its campaign: the foreign keys. *)
Storable(v) == v = None \/ campaign

(* embedCanonRecord: the vector is upserted, or the row of a record that is *)
(* gone deleted.                                                            *)
EmbedWrites(w) ==
    /\ hand[w].pc = "embed"
    /\ Storable(hand[w].seen)
    /\ Write(hand[w].rec, hand[w].seen)
    /\ Ends(w) /\ calm' = FALSE
    /\ UNCHANGED <<jobs, counters>>

(* Variant: handleEmbedCanon logs the error and returns nil. *)
EmbedForgotten(w, again) ==
    /\ hand[w].pc = "embed" /\ Ends(w)
    /\ UNCHANGED <<store, jobs, lost, overtaken, sessions, calm>>

EmbedFailed(w, again) ==
    /\ hand[w].pc = "embed"
    /\ LET r == hand[w].rec
       IN  IF again THEN queued' = [queued EXCEPT ![r] = @ + 1] /\ UNCHANGED <<lost, overtaken,
                                                                               sessions, store>>
           ELSE UNCHANGED queued /\ GivenUp(r)
    /\ Ends(w)
    /\ UNCHANGED <<saved, dropping, reindexes, calm>>

(* The model or the database fails, or the model returns no vector: the job *)
(* runs again, unless this was its last attempt or it took that as success. *)
EmbedFails(w, again) == EmbedFailed(w, again) /\ Fault

(* The campaign went: the INSERT is refused, and the retry finds no record. *)
EmbedRefused(w) ==
    /\ hand[w].pc = "embed" /\ ~Storable(hand[w].seen)
    /\ EmbedFailed(w, TRUE) /\ UNCHANGED counters

(* handleTranscribe: SetSessionResult, then embedSessionNotes in the job. *)
TranscriptSaved(w, s) ==
    /\ s \in Sessions /\ NewText(s)
    /\ Takes(w, [pc |-> "notes", rec |-> s, seen |-> saves + 1])
    /\ complete' = complete \cup {s} /\ unindexed' = unindexed \ {s}
    /\ UNCHANGED <<jobs, lost, overtaken, requeue>>

(* ReplaceSessionEmbeddings, one transaction. *)
TranscriptIndexed(w) ==
    /\ hand[w].pc = "notes" /\ Storable(hand[w].seen)
    /\ Write(hand[w].rec, hand[w].seen)
    /\ Ends(w) /\ calm' = FALSE
    /\ UNCHANGED <<jobs, counters>>

(* An error is logged and forgotten: the notes are already posted. *)
TranscriptNotIndexed(w) ==
    /\ hand[w].pc = "notes"
    /\ IF Storable(hand[w].seen) THEN Fault /\ GivenUp(hand[w].rec)
       ELSE UNCHANGED <<counters, lost, overtaken, sessions, store>>
    /\ Ends(w)
    /\ UNCHANGED <<jobs, calm>>

(* A transcript is saved and the job ends there, without an embedding: the   *)
(* notes could not be written ('failed', or 'processing' before a retry), or *)
(* the worker goes down, or takes a save that took effect for one that       *)
(* failed ('complete').  What was indexed before stays.                      *)
TranscriptKept(w, s, done) ==
    /\ s \in Sessions /\ hand[w] = Idle /\ NewText(s)
    /\ complete' = IF done THEN complete \cup {s} ELSE complete \ {s}
    /\ unindexed' = unindexed \cup {s}
    /\ UNCHANGED <<jobs, hand, lost, overtaken, requeue>>

(* A session's row is written by a statement that indexes nothing. *)
Overwritten(s, v) ==
    /\ text' = [text EXCEPT ![s] = v]
    /\ complete' = complete \ {s}
    /\ unindexed' = IF v = text[s] THEN unindexed ELSE unindexed \cup {s}
    /\ calm' = FALSE
    /\ UNCHANGED <<campaign, index, jobs, hand, counters, lost, overtaken>>

(* markFailed, and the gateway's failed starts and resumes: an empty         *)
(* transcript is stored over the one of an earlier run.                      *)
MarkFailed(s) ==
    /\ s \in Sessions /\ text[s] # None
    /\ Overwritten(s, None) /\ UNCHANGED requeue

(* sessionRequeue reads the session... *)
RequeueReads(s) ==
    /\ s \in Sessions /\ campaign
    /\ requeue' = [requeue EXCEPT ![s] = @ \cup {text[s]}]
    /\ UNCHANGED <<store, jobs, hand, counters, lost, overtaken, complete, unindexed, calm>>

(* ... and writes the transcript it read back, as 'processing'. *)
RequeueWrites(s) ==
    \E v \in requeue[s] :
       /\ Overwritten(s, v)
       /\ requeue' = [requeue EXCEPT ![s] = @ \ {v}]
-----------------------------------------------------------------------------
(* What a /reindex lists: sessions only when they are complete. *)
Listable(r) == text[r] # None /\ (r \in Sessions => r \in complete)
Listed(k) == [r \in {x \in Kinds[k] : Listable(x)} |-> text[r]]
Reindex(k, todo, failed) == [pc |-> "reindex", kind |-> k, todo |-> todo, failed |-> failed]
Without(f, r) == [x \in DOMAIN f \ {r} |-> f[x]]

(* handleReindexCampaign lists the completed sessions... *)
ReindexBegins(w) ==
    /\ reindexes > 0 /\ reindexes' = reindexes - 1
    /\ Takes(w, Reindex(1, Listed(1), FALSE))
    /\ calm' = (\A v \in Workers : hand[v].pc # "reindex")
    /\ UNCHANGED <<store, saved, dropping, queued, counters, lost, overtaken, sessions>>

(* ... then, one by one, stores what it read in that list... *)
ReindexWrites(w, r) ==
    /\ hand[w].pc = "reindex" /\ r \in DOMAIN hand[w].todo
    /\ Storable(hand[w].todo[r]) /\ Write(r, hand[w].todo[r])
    /\ hand' = [hand EXCEPT ![w].todo = Without(@, r)]
    /\ UNCHANGED <<jobs, counters, calm>>

(* ... or counts the failure and goes on... *)
ReindexSkips(w, r) ==
    /\ hand[w].pc = "reindex" /\ r \in DOMAIN hand[w].todo
    /\ IF Storable(hand[w].todo[r]) THEN Fault ELSE UNCHANGED counters
    /\ hand' = [hand EXCEPT ![w].todo = Without(@, r), ![w].failed = TRUE]
    /\ UNCHANGED <<store, jobs, lost, overtaken, sessions, calm>>

(* ... and reads the next list when it is through (reindexCanon): a list    *)
(* that cannot be read is logged and left out.                              *)
ReindexLists(w) ==
    /\ hand[w].pc = "reindex" /\ DOMAIN hand[w].todo = {} /\ hand[w].kind < Len(Kinds)
    /\ LET k == hand[w].kind + 1
       IN  \/ hand' = [hand EXCEPT ![w] = Reindex(k, Listed(k), @.failed)] /\ UNCHANGED counters
           \/ hand' = [hand EXCEPT ![w] = Reindex(k, [r \in {} |-> None], TRUE)] /\ Fault
    /\ UNCHANGED <<store, jobs, lost, overtaken, sessions, calm>>

ReindexEnds(w) ==
    /\ hand[w].pc = "reindex" /\ DOMAIN hand[w].todo = {} /\ hand[w].kind = Len(Kinds)
    /\ Ends(w)
    /\ UNCHANGED <<store, jobs, counters, lost, overtaken, sessions, calm>>
-----------------------------------------------------------------------------
Work(w) ==
    \/ \E r \in Canon : EmbedReads(w, r)
    \/ EmbedWrites(w) \/ EmbedRefused(w)
    \/ TranscriptIndexed(w) \/ TranscriptNotIndexed(w)
    \/ ReindexBegins(w) \/ ReindexLists(w) \/ ReindexEnds(w)
    \/ \E r \in Records : ReindexWrites(w, r) \/ ReindexSkips(w, r)

Next ==
    \/ \E r \in Canon :
          \/ Save(r) \/ EnqueueCanonEmbed(r) \/ EnqueueFails(r)
          \/ DeleteRecord(r) \/ DeleteCanonEmbedding(r) \/ DeleteEmbeddingFails(r)
    \/ DeleteCampaign \/ HandleReindex
    \/ \E w \in Workers :
          \/ Work(w)
          \/ \E r \in Canon : EmbedRunsTwice(w, r)
          \/ \E again \in BOOLEAN : EmbedFails(w, again)
          \/ \E s \in Sessions :
                TranscriptSaved(w, s) \/ \E done \in BOOLEAN : TranscriptKept(w, s, done)
    \/ \E s \in Sessions : MarkFailed(s) \/ RequeueReads(s) \/ RequeueWrites(s)

Spec == Init /\ [][Next]_vars

(* Handlers go on (their queries have deadlines), a waiting job is taken and *)
(* every job ends: each runs under a timeout, which JobQueue shows suffices. *)
Fairness ==
    /\ \A r \in Canon : WF_vars(EnqueueCanonEmbed(r)) /\ WF_vars(DeleteCanonEmbedding(r))
    /\ WF_vars(\E w \in Workers : Work(w))
FairSpec == Spec /\ Fairness
-----------------------------------------------------------------------------
Job ==
    {Idle} \cup [pc : {"embed"}, rec : Canon, seen : Versions \cup {None}]
           \cup [pc : {"notes"}, rec : Sessions, seen : Versions]

TypeOK ==
    /\ campaign \in BOOLEAN /\ calm \in BOOLEAN
    /\ text \in [Records -> Versions \cup {None}] /\ index \in [Records -> Versions \cup {None}]
    /\ saved \in [Records -> Nat] /\ queued \in [Records -> Nat] /\ reindexes \in Nat
    /\ dropping \subseteq Canon /\ lost \subseteq Records /\ overtaken \subseteq Records
    /\ complete \subseteq Sessions /\ unindexed \subseteq Sessions
    /\ requeue \in [Sessions -> SUBSET (Versions \cup {None})]
    /\ \A s \in complete : text[s] # None
    /\ saves \in 0..MaxSaves /\ born \subseteq Records /\ commands \in Nat /\ faults \in Nat
    /\ \A w \in Workers :
          \/ hand[w] \in Job
          \/ /\ hand[w].pc = "reindex" /\ hand[w].kind \in DOMAIN Kinds
             /\ hand[w].failed \in BOOLEAN
             /\ DOMAIN hand[w].todo \subseteq Records
             /\ \A r \in DOMAIN hand[w].todo : hand[w].todo[r] \in Versions

(* Nobody has anything left to do for r. *)
Handled(r) ==
    /\ saved[r] = 0 /\ r \notin dropping /\ queued[r] = 0
    /\ \A w \in Workers : hand[w].pc \in {"embed", "notes"} => hand[w].rec # r

Fresh(r) == index[r] = text[r]
Excused(r) == r \in lost \cup overtaken \cup unindexed

(* However saves, deletions, retries, repeated jobs, /reindex, requeues and  *)
(* a deletion of the campaign interleave: once a record is handled, /ask     *)
(* finds what it says, and nothing of a record that is gone.  The exceptions *)
(* are a job that was given up, an older text stored over the right one, and *)
(* a session whose transcript was last changed by a write that indexes       *)
(* nothing: one without notes, an empty one of markFailed, or a requeue that *)
(* wrote an older transcript back.  Its old passages stay.                   *)
FreshWhenHandled == \A r \in Records : Handled(r) => Fresh(r) \/ Excused(r)

(* "A later /reindex will catch it up" (handlers_entity_modals.go:366-367):  *)
(* a /reindex that met no failure, and during which nothing else was saved,  *)
(* deleted or stored, leaves every entity, every character and every         *)
(* completed session fresh, those excused above included.                    *)
ReindexCatchesUp ==
    \A w \in Workers :
        hand[w].pc = "reindex" /\ hand[w].kind = Len(Kinds) /\ DOMAIN hand[w].todo = {}
            /\ ~hand[w].failed /\ calm
        => \A r \in Records : Listable(r) => Fresh(r)

(* When the writers stop, the memory of /ask settles on what the records say *)
(* but for the same exceptions.                                              *)
EventuallyFresh == <>[](\A r \in Records : Fresh(r) \/ Excused(r))

(* "delete removes an entry (and drops it from /ask)" (README.md:18). *)
DeletedLeavesAsk ==
    \A r \in Canon : text[r] = None /\ Handled(r) /\ r \notin lost => index[r] = None

(* /ask finds no passages of a session whose transcript is empty.  The code  *)
(* does not keep it: markFailed empties the transcript of an earlier run     *)
(* (transcribe.go:384) and leaves its rows.                                  *)
FailedLeavesAsk ==
    \A s \in Sessions : text[s] = None /\ Handled(s) => index[s] = None
=============================================================================
