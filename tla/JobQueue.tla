------------------------------ MODULE JobQueue ------------------------------
(***************************************************************************)
(* The Redis job queue (internal/queue/queue.go) and the worker processes  *)
(* that drain it (internal/worker/worker.go): the reliable-queue pattern   *)
(* with a pending and a processing list, acknowledgement, retries,         *)
(* graceful shutdown, hard kills and the start-up reaper.                  *)
(*                                                                         *)
(* A Redis list is a sequence whose first element is the tail of the list, *)
(* the end BRPOPLPUSH and RPOPLPUSH take from: LPUSH is Append.  A job     *)
(* handler is opaque here (it returns, fails or panics at any time);       *)
(* SessionLifecycle opens the transcription handler up.                    *)
(***************************************************************************)
EXTENDS Naturals, Sequences, FiniteSets, SequencesExt

CONSTANTS
    Jobs,          \* enqueued requests: type, payload and correlation ID
    Workers,       \* worker processes (Kubernetes pods) that may exist
    Concurrency,   \* WORKER_CONCURRENCY: handler goroutines per worker
    MaxRetries,    \* WORKER_MAX_RETRIES
    MaxLive,       \* worker processes alive at once (two in a rolling update)
    MaxFaults      \* bound of the model: disturbances of one behaviour

ASSUME ConcurrencyAssumption == Concurrency \in Nat \ {0}
ASSUME RetriesAssumption == MaxRetries \in Nat
ASSUME BoundsAssumption == MaxLive \in Nat /\ MaxFaults \in Nat

VARIABLES
    pending,       \* Redis list discord-dnd-bot:jobs
    processing,    \* Redis list discord-dnd-bot:jobs:processing
    phase,         \* phase[w]: where worker w's Run loop is
    thread         \* thread[t]: the job a goroutine of a worker has in hand

VARIABLES          \* what happened, for the properties; no action reads these
    submitted,     \* jobs whose Enqueue succeeded
    verdict,       \* verdict[j]: how the last finished run of j was judged
    runs,          \* runs[j]: how often a handler was started on j
    reaps,         \* reaps[j]: how often the reaper returned j to pending
    cut,           \* jobs whose Requeue stopped between its two commands
    twinned        \* jobs whose Requeue pushed without its LREM

VARIABLE faults    \* disturbances so far, bounded by MaxFaults

redis == <<pending, processing>>
history == <<submitted, verdict, runs, reaps, cut, twinned>>
vars == <<redis, phase, thread, history, faults>>
-----------------------------------------------------------------------------
(* A body is what the lists hold: the serialized job.  Two bodies are the   *)
(* same bytes exactly when the request and its attempt counter agree.       *)
Body == [job : Jobs, attempt : 0..MaxRetries]

(* Goroutine 0 of a worker is its Run loop, which pops a job before it has  *)
(* a free slot for it; the others are the slots of the semaphore.           *)
Loop == 0
Slots == 1..Concurrency
Threads == Workers \X (Loop..Concurrency)

(* held: popped, waiting for a slot.  handling: inside the job handler.     *)
(* acking: the handler succeeded.  dropping: ackDrop.  removing, pushing:   *)
(* before the LREM and before the LPUSH of Requeue.                         *)
Busy == {"held", "handling", "acking", "dropping", "removing", "pushing"}
Hand == [pc : Busy, body : Body]
Idle == [pc |-> "idle"]

Phases == {"down", "reaping", "up", "stopping"}
Verdicts == {"none", "ok", "permanent", "exhausted"}

Live == {w \in Workers : phase[w] # "down"}
BusyThreads == {t \in Threads : thread[t] # Idle}

(* A job is in Redis when a body of it is on either list. *)
On(list, j) == \E i \in 1..Len(list) : list[i].job = j
InRedis(j) == On(pending, j) \/ On(processing, j)

(* LREM key 1 value: the occurrence nearest the head of the list goes. *)
LRem(list, body) ==
    LET hits == {i \in 1..Len(list) : list[i] = body}
    IN  IF hits = {} THEN list
        ELSE RemoveAt(list, CHOOSE i \in hits : \A k \in hits : k <= i)

Disturb == faults < MaxFaults /\ faults' = faults + 1
-----------------------------------------------------------------------------
Init ==
    /\ pending = << >> /\ processing = << >>
    /\ phase = [w \in Workers |-> "down"]
    /\ thread = [t \in Threads |-> Idle]
    /\ submitted = {} /\ cut = {} /\ twinned = {}
    /\ verdict = [j \in Jobs |-> "none"]
    /\ runs = [j \in Jobs |-> 0] /\ reaps = [j \in Jobs |-> 0]
    /\ faults = 0

(* Queue.Enqueue: one LPUSH of the request with attempt 0. *)
Enqueue(j) ==
    /\ j \notin submitted
    /\ pending' = Append(pending, [job |-> j, attempt |-> 0])
    /\ submitted' = submitted \cup {j}
    /\ UNCHANGED <<processing, phase, thread, verdict, runs, reaps, cut, twinned,
                   faults>>
-----------------------------------------------------------------------------
(* Worker.Run starts; the first thing it does is ReapOrphans. *)
Start(w) ==
    /\ phase[w] = "down" /\ Cardinality(Live) < MaxLive
    /\ phase' = [phase EXCEPT ![w] = "reaping"]
    /\ UNCHANGED <<redis, thread, history, faults>>

(* Variant: the reaper also runs periodically, beside the worker's own jobs. *)
ReapPeriodically(w) ==
    /\ phase[w] \in {"reaping", "up"} /\ processing # << >>
    /\ pending' = Append(pending, Head(processing))
    /\ processing' = Tail(processing)
    /\ reaps' = [reaps EXCEPT ![Head(processing).job] = @ + 1]
    /\ UNCHANGED <<phase, thread, submitted, verdict, runs, cut, twinned, faults>>

(* One RPOPLPUSH of ReapOrphans: the tail of processing becomes the head of *)
(* pending.                                                                 *)
ReapOrphan(w) ==
    /\ phase[w] = "reaping" /\ processing # << >>
    /\ pending' = Append(pending, Head(processing))
    /\ processing' = Tail(processing)
    /\ reaps' = [reaps EXCEPT ![Head(processing).job] = @ + 1]
    /\ UNCHANGED <<phase, thread, submitted, verdict, runs, cut, twinned, faults>>

(* ReapOrphans returns: the list is drained, or Redis failed and Run goes   *)
(* on with what was recovered so far.                                       *)
ReapDone(w) ==
    /\ phase[w] = "reaping"
    /\ phase' = [phase EXCEPT ![w] = "up"]
    /\ IF processing = << >> THEN UNCHANGED faults ELSE Disturb
    /\ UNCHANGED <<redis, thread, history>>

(* Variant: a plain BRPOP, so the job in hand is on no list. *)
DequeuePops(w) ==
    /\ phase[w] = "up" /\ thread[<<w, Loop>>] = Idle /\ pending # << >>
    /\ pending' = Tail(pending)
    /\ thread' = [thread EXCEPT ![<<w, Loop>>] =
                      [pc |-> "held", body |-> Head(pending)]]
    /\ UNCHANGED <<processing, phase, history, faults>>

(* Queue.Dequeue: BRPOPLPUSH moves the tail of pending to the processing    *)
(* list and the loop has the job in hand.                                   *)
Dequeue(w) ==
    /\ phase[w] = "up" /\ thread[<<w, Loop>>] = Idle /\ pending # << >>
    /\ processing' = Append(processing, Head(pending))
    /\ pending' = Tail(pending)
    /\ thread' = [thread EXCEPT ![<<w, Loop>>] =
                      [pc |-> "held", body |-> Head(pending)]]
    /\ UNCHANGED <<phase, history, faults>>

(* BRPOPLPUSH took effect in Redis but its reply never reached the worker.  *)
DequeueReplyLost(w) ==
    /\ phase[w] \in {"up", "stopping"}
    /\ thread[<<w, Loop>>] = Idle /\ pending # << >>
    /\ processing' = Append(processing, Head(pending))
    /\ pending' = Tail(pending)
    /\ Disturb
    /\ UNCHANGED <<phase, thread, history>>

Handle(t, body) ==
    /\ thread' = [thread EXCEPT ![<<t[1], Loop>>] = Idle,
                                ![t] = [pc |-> "handling", body |-> body]]
    /\ runs' = [runs EXCEPT ![body.job] = @ + 1]
    /\ UNCHANGED <<redis, phase, submitted, verdict, reaps, cut, twinned, faults>>

(* Variant: the job is acknowledged when it is dispatched. *)
DispatchAcksFirst(w) ==
    /\ thread[<<w, Loop>>].pc = "held"
    /\ \E i \in Slots :
          LET body == thread[<<w, Loop>>].body
          IN  /\ thread[<<w, i>>] = Idle
              /\ processing' = LRem(processing, body)
              /\ thread' = [thread EXCEPT ![<<w, Loop>>] = Idle,
                               ![<<w, i>>] = [pc |-> "handling", body |-> body]]
              /\ runs' = [runs EXCEPT ![body.job] = @ + 1]
              /\ UNCHANGED <<pending, phase, submitted, verdict, reaps, cut,
                             twinned, faults>>

(* The loop acquires a slot and hands the job to a new goroutine. *)
Dispatch(w) ==
    /\ thread[<<w, Loop>>].pc = "held"
    /\ \E i \in Slots :
          /\ thread[<<w, i>>] = Idle
          /\ Handle(<<w, i>>, thread[<<w, Loop>>].body)

(* The run context ended while the loop waited for a slot: the popped job   *)
(* is processed on the loop's own goroutine.                                *)
ProcessOnLoop(w) ==
    /\ phase[w] = "stopping" /\ thread[<<w, Loop>>].pc = "held"
    /\ Handle(<<w, Loop>>, thread[<<w, Loop>>].body)
-----------------------------------------------------------------------------
Become(t, pc) == thread' = [thread EXCEPT ![t].pc = pc]
Release(t) == thread' = [thread EXCEPT ![t] = Idle]
Judge(t, v) == verdict' = [verdict EXCEPT ![thread[t].body.job] = v]

(* The handler returned nil: the job is done and is acknowledged next. *)
HandlerSucceeds(t) ==
    /\ thread[t].pc = "handling"
    /\ Become(t, "acking") /\ Judge(t, "ok")
    /\ UNCHANGED <<redis, phase, submitted, runs, reaps, cut, twinned, faults>>

(* maybeRequeue, first test: a permanent failure is dropped. *)
HandlerFailsForGood(t) ==
    /\ thread[t].pc = "handling"
    /\ Become(t, "dropping") /\ Judge(t, "permanent")
    /\ UNCHANGED <<redis, phase, submitted, runs, reaps, cut, twinned, faults>>

(* maybeRequeue, second test: the retries are used up. *)
DropExhausted(t) ==
    /\ thread[t].body.attempt >= MaxRetries
    /\ Become(t, "dropping") /\ Judge(t, "exhausted")
    /\ UNCHANGED <<redis, phase, submitted, runs, reaps, cut, twinned, faults>>

(* maybeRequeue, third test: while shutting down the job stays on the       *)
(* processing list for the next worker's reaper.                            *)
LeaveForReaper(t) ==
    /\ thread[t].body.attempt < MaxRetries /\ phase[t[1]] = "stopping"
    /\ Release(t)
    /\ UNCHANGED <<redis, phase, history, faults>>

(* Variant: the attempt counter is compared with > instead of >=. *)
RetryOnceMore(t) ==
    /\ thread[t].body.attempt <= MaxRetries /\ phase[t[1]] # "stopping"
    /\ Become(t, "removing")
    /\ UNCHANGED <<redis, phase, history, faults>>

(* maybeRequeue, otherwise: call Requeue. *)
Retry(t) ==
    /\ thread[t].body.attempt < MaxRetries /\ phase[t[1]] # "stopping"
    /\ Become(t, "removing")
    /\ UNCHANGED <<redis, phase, history, faults>>

HandlerFails(t) ==
    /\ thread[t].pc = "handling"
    /\ DropExhausted(t) \/ LeaveForReaper(t) \/ Retry(t)

(* The handler panicked: process recovers and returns, with neither Ack nor *)
(* Requeue, so the body stays on the processing list.                       *)
HandlerPanics(t) ==
    /\ thread[t].pc = "handling"
    /\ Release(t) /\ Disturb
    /\ UNCHANGED <<redis, phase, history>>

(* Queue.Ack, of a finished or of a dropped job: LREM, then the goroutine   *)
(* ends.                                                                    *)
Ack(t) ==
    /\ thread[t].pc \in {"acking", "dropping"}
    /\ processing' = LRem(processing, thread[t].body)
    /\ Release(t)
    /\ UNCHANGED <<pending, phase, history, faults>>

(* Ack failed in Redis: logged, the reaper may re-run the job. *)
AckFails(t) ==
    /\ thread[t].pc \in {"acking", "dropping"}
    /\ Release(t) /\ Disturb
    /\ UNCHANGED <<redis, phase, history>>

(* Variant: Requeue only pushes and leaves the in-flight copy to an Ack. *)
RequeueKeepsCopy(t) ==
    /\ thread[t].pc = "removing"
    /\ Become(t, "pushing")
    /\ UNCHANGED <<redis, phase, history, faults>>

(* Queue.Requeue, first command: LREM of the in-flight copy. *)
RequeueRemove(t) ==
    /\ thread[t].pc = "removing"
    /\ processing' = LRem(processing, thread[t].body)
    /\ Become(t, "pushing")
    /\ UNCHANGED <<pending, phase, history, faults>>

(* The LREM failed: Requeue counts the error and goes on to its LPUSH. *)
RequeueRemoveFails(t) ==
    /\ thread[t].pc = "removing"
    /\ twinned' = twinned \cup {thread[t].body.job}
    /\ Become(t, "pushing") /\ Disturb
    /\ UNCHANGED <<redis, phase, submitted, verdict, runs, reaps, cut>>

(* Variant: Requeue pushes the bytes it popped, attempt uncounted. *)
RequeueUncounted(t) ==
    /\ thread[t].pc = "pushing"
    /\ pending' = Append(pending, thread[t].body)
    /\ Release(t)
    /\ UNCHANGED <<processing, phase, history, faults>>

(* Queue.Requeue, second command: LPUSH with the attempt counted. *)
RequeuePush(t) ==
    /\ thread[t].pc = "pushing"
    /\ pending' = Append(pending, [thread[t].body EXCEPT !.attempt = @ + 1])
    /\ Release(t)
    /\ UNCHANGED <<processing, phase, history, faults>>

(* The LPUSH failed: the worker logs it and goes on. *)
RequeuePushFails(t) ==
    /\ thread[t].pc = "pushing"
    /\ cut' = cut \cup {thread[t].body.job}
    /\ Release(t) /\ Disturb
    /\ UNCHANGED <<redis, phase, submitted, verdict, runs, reaps, twinned>>
-----------------------------------------------------------------------------
(* SIGTERM: scale-in or a rolling update.  The run context is cancelled. *)
Sigterm(w) ==
    /\ phase[w] \in {"reaping", "up"}
    /\ phase' = [phase EXCEPT ![w] = "stopping"]
    /\ Disturb
    /\ UNCHANGED <<redis, thread, history>>

(* Variant: the drain waits for the pending list too. *)
ExitOnEmptyQueue(w) ==
    /\ phase[w] = "stopping" /\ pending = << >>
    /\ \A t \in Threads : t[1] = w => thread[t] = Idle
    /\ phase' = [phase EXCEPT ![w] = "down"]
    /\ UNCHANGED <<redis, thread, history, faults>>

(* Run returns once wg.Wait saw every handler goroutine end. *)
Exit(w) ==
    /\ phase[w] = "stopping"
    /\ \A t \in Threads : t[1] = w => thread[t] = Idle
    /\ phase' = [phase EXCEPT ![w] = "down"]
    /\ UNCHANGED <<redis, thread, history, faults>>

(* SIGKILL, out of memory, node loss: every goroutine of w is gone. *)
Kill(w) ==
    /\ phase[w] # "down"
    /\ phase' = [phase EXCEPT ![w] = "down"]
    /\ thread' = [t \in Threads |-> IF t[1] = w THEN Idle ELSE thread[t]]
    /\ cut' = cut \cup {thread[t].body.job :
                          t \in {u \in BusyThreads :
                                    u[1] = w /\ thread[u].pc = "pushing"}}
    /\ Disturb
    /\ UNCHANGED <<redis, submitted, verdict, runs, reaps, twinned>>

LoopStep(w) ==
    \/ ReapOrphan(w) \/ ReapDone(w) \/ Dequeue(w) \/ Dispatch(w)
    \/ ProcessOnLoop(w) \/ Exit(w)

HandlerReturns(t) ==
    HandlerSucceeds(t) \/ HandlerFailsForGood(t) \/ HandlerFails(t)

QueueReplies(t) ==
    \/ Ack(t) \/ AckFails(t)
    \/ RequeueRemove(t) \/ RequeueRemoveFails(t)
    \/ RequeuePush(t) \/ RequeuePushFails(t)

Next ==
    \/ \E j \in Jobs : Enqueue(j)
    \/ \E w \in Workers :
          \/ Start(w) \/ LoopStep(w) \/ DequeueReplyLost(w)
          \/ Sigterm(w) \/ Kill(w)
    \/ \E t \in Threads :
          HandlerReturns(t) \/ HandlerPanics(t) \/ QueueReplies(t)

Spec == Init /\ [][Next]_vars

(* Variant: KEDA watches the pending list alone. *)
PendingOnly == pending # << >>

(* What the code and its deployment do not put off for ever: Redis answers, *)
(* a handler ends (every job has a timeout), the Run loop goes on, and KEDA *)
(* starts a worker while either list is non-empty.  Enqueue, SIGTERM, kills *)
(* and failures need not happen.                                            *)
Outstanding == pending # << >> \/ processing # << >>
Fairness ==
    /\ \A w \in Workers : WF_vars(LoopStep(w))
    /\ WF_vars(Outstanding /\ \E w \in Workers : Start(w))
    /\ \A t \in Threads : WF_vars(HandlerReturns(t)) /\ WF_vars(QueueReplies(t))

FairSpec == Spec /\ Fairness
-----------------------------------------------------------------------------
TypeOK ==
    /\ pending \in Seq(Body) /\ processing \in Seq(Body)
    /\ phase \in [Workers -> Phases]
    /\ thread \in [Threads -> Hand \cup {Idle}]
    /\ submitted \subseteq Jobs /\ cut \subseteq Jobs /\ twinned \subseteq Jobs
    /\ verdict \in [Jobs -> Verdicts]
    /\ runs \in [Jobs -> Nat] /\ reaps \in [Jobs -> Nat]
    /\ faults \in 0..MaxFaults

Pushing(j) == \E t \in Threads : thread[t].pc = "pushing" /\ thread[t].body.job = j

(* Whatever the interleaving of workers, reapers, kills and Redis failures, *)
(* an accepted job is still in Redis, is between the two commands of a      *)
(* Requeue, has been judged by a handler run that ended, or had a Requeue   *)
(* cut short: the only hole in "a job is never silently lost".              *)
JobAccounted ==
    \A j \in submitted :
        InRedis(j) \/ Pushing(j) \/ verdict[j] # "none" \/ j \in cut

(* With one worker at a time, the job a goroutine has in hand is on the     *)
(* processing list, as often as goroutines have it in hand, so a hard kill  *)
(* at any moment outside a Requeue leaves it to the next reaper.            *)
Recoverable ==
    \A t \in BusyThreads :
        LET b == thread[t].body
            holders == {u \in BusyThreads : thread[u].body = b /\ thread[u].pc # "pushing"}
            copies == {i \in 1..Len(processing) : processing[i] = b}
        IN  Cardinality(holders) <= Cardinality(copies)

(* With one worker at a time, a job is in one place: one body on one of the *)
(* lists or one goroutine between LREM and LPUSH, and never in the hands of *)
(* two goroutines, unless an LREM of Requeue failed.                        *)
OnePlace ==
    \A j \in Jobs \ twinned :
        LET bodies(list) == {i \in 1..Len(list) : list[i].job = j}
            inHand == {t \in BusyThreads : thread[t].body.job = j}
        IN  /\ Cardinality(bodies(pending)) + Cardinality(bodies(processing))
                 + (IF Pushing(j) THEN 1 ELSE 0) <= 1
            /\ Cardinality(inHand) <= 1

(* The attempt counter bounds the runs of a job only up to the times the    *)
(* reaper brought it back, which the counter does not see.                  *)
RunsBounded ==
    \A j \in Jobs \ twinned : runs[j] <= MaxRetries + 1 + reaps[j]

(* A job in hand or on a list is eventually judged, unless its Requeue was  *)
(* cut, or it is stranded: its body sits on the processing list of a worker *)
(* that is up and has nobody working on it, after a panic or a lost reply.  *)
Stranded(j) ==
    /\ On(processing, j)
    /\ \A t \in BusyThreads : thread[t].body.job # j
    /\ \E w \in Workers : phase[w] = "up"

EveryJobSettles ==
    \A j \in Jobs :
        j \in submitted ~> (verdict[j] # "none" \/ j \in cut \/ Stranded(j))

(* A worker told to stop ends: no goroutine or popped job holds up the      *)
(* drain of Run.                                                            *)
StopsWhenAsked == \A w \in Workers : phase[w] = "stopping" ~> phase[w] = "down"

(* README: a scale-in or rolling update never drops a transcription mid-    *)
(* flight.  SIGTERM cancels the context of every running handler; a handler *)
(* that fails on a stopping worker must not end in a drop, unless the       *)
(* failure is permanent.                                                    *)
ScaleInDropsNothing ==
    [][\A t \in Threads :
          (thread[t].pc = "handling" /\ phase[t[1]] = "stopping"
              /\ thread'[t].pc = "dropping")
          => verdict'[thread[t].body.job] # "exhausted"]_vars

(* Comment of maybeRequeue: when Requeue failed "the job is still on the    *)
(* processing list, so the reaper will recover it on the next worker start. *)
(* Not lost."                                                               *)
FailedRequeueKeepsJob ==
    [][\A t \in Threads : RequeuePushFails(t) => On(processing', thread[t].body.job)]_vars

=============================================================================
