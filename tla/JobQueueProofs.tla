--------------------------- MODULE JobQueueProofs ---------------------------
(***************************************************************************)
(* Theorems about JobQueue, for any number of jobs, workers, slots and     *)
(* retries: its types, and that every accepted job is accounted for.       *)
(* With one worker at a time (KEDA's maxReplicaCount of 1): the queue      *)
(* implements AtLeastOnce, what a goroutine has in hand is recoverable, a  *)
(* job is in one place, and the attempt counter bounds its runs.           *)
(***************************************************************************)
EXTENDS MCJobQueue, TLAPS, SequenceTheorems, FiniteSetTheorems

(* A non-empty set of positions of a list has a last one: the sets of the   *)
(* positions from i on are well-founded under strict inclusion.             *)
LEMMA LastPosition ==
    ASSUME NEW n \in Nat, NEW S \in SUBSET (1..n), S # {}
    PROVE  \E i \in S : \A k \in S : k <= i
<1> DEFINE From(i) == {k \in S : i <= k}
           Tails == {From(i) : i \in S}
<1>1. IsFiniteSet(1..n)
  BY FS_Interval
<1>2. \A i \in S : From(i) \in FiniteSubsetsOf(1..n)
  BY <1>1, FS_Subset DEF FiniteSubsetsOf
<1>3. Tails \subseteq FiniteSubsetsOf(1..n) /\ Tails # {}
  BY <1>2
<1>4. PICK X \in Tails : \A Y \in Tails : ~ (<<Y, X>> \in StrictSubsetOrdering(1..n))
  BY <1>3, FS_StrictSubsetOrderingWellFounded, WFMin
<1>5. PICK i \in S : X = From(i)
  BY <1>4
<1>6. ASSUME NEW k \in S, ~ (k <= i) PROVE FALSE
  <2>0. i \in Int /\ k \in Int /\ i < k /\ S \subseteq Int
    BY <1>6
  <2>1. i \in From(i) /\ i \notin From(k)
    BY <2>0
  <2>2. From(k) \subseteq From(i)
    <3>1. SUFFICES ASSUME NEW m \in S, k <= m PROVE i <= m
      OBVIOUS
    <3> QED BY <2>0, <3>1
  <2>3. <<From(k), From(i)>> \in StrictSubsetOrdering(1..n)
    BY <2>1, <2>2, <1>2 DEF StrictSubsetOrdering, FiniteSubsetsOf
  <2> QED BY <2>3, <1>4, <1>5
<1> QED BY <1>6

-----------------------------------------------------------------------------
(* LREM takes one occurrence of its value out of a list, and nothing else. *)
LEMMA LRemProperties ==
    ASSUME NEW list \in Seq(Body), NEW body \in Body
    PROVE  /\ LRem(list, body) \in Seq(Body)
           /\ \A j : On(list, j) /\ j # body.job => On(LRem(list, body), j)
<1> DEFINE hits == {i \in 1..Len(list) : list[i] = body}
<1>1. CASE hits = {}
  BY <1>1 DEF LRem
<1>2. CASE hits # {}
  <2> DEFINE last == CHOOSE i \in hits : \A k \in hits : k <= i
             left == SubSeq(list, 1, last - 1)
             right == SubSeq(list, last + 1, Len(list))
  <2>1. last \in 1..Len(list) /\ list[last] = body
    <3>1. Len(list) \in Nat
      OBVIOUS
    <3>2. \E i \in hits : \A k \in hits : k <= i
      BY <1>2, <3>1, LastPosition
    <3> QED BY <3>2
  <2>2. LRem(list, body) = left \o right
    BY <1>2 DEF LRem, RemoveAt
  <2> HIDE DEF last
  <2>3. /\ left \in Seq(Body) /\ Len(left) = last - 1
        /\ \A i \in 1..(last - 1) : left[i] = list[i]
    BY <2>1
  <2>4. /\ right \in Seq(Body) /\ Len(right) = Len(list) - last
        /\ \A i \in 1..(Len(list) - last) : right[i] = list[last + i]
    BY <2>1
  <2> HIDE DEF left, right
  <2>5. left \o right \in Seq(Body)
    BY <2>3, <2>4
  <2>6. ASSUME NEW j, On(list, j), j # body.job
        PROVE  On(left \o right, j)
    <3>1. PICK i \in 1..Len(list) : list[i].job = j
      BY <2>6 DEF On
    <3>2. i # last
      BY <2>1, <2>6, <3>1
    <3>3. CASE i < last
      <4>1. i \in 1..Len(left \o right) /\ (left \o right)[i] = list[i]
        BY <2>1, <2>3, <2>4, <3>3
      <4> QED BY <3>1, <4>1 DEF On
    <3>4. CASE last < i
      <4>1. /\ i - 1 \in 1..Len(left \o right)
            /\ (left \o right)[i - 1] = right[i - last]
        BY <2>1, <2>3, <2>4, <3>4
      <4>2. right[i - last] = list[i]
        BY <2>1, <2>4, <3>4
      <4> QED BY <3>1, <4>1, <4>2 DEF On
    <3> QED BY <2>1, <3>2, <3>3, <3>4
  <2> QED BY <2>2, <2>5, <2>6
<1> QED BY <1>1, <1>2

(* A job is on a list after an LPUSH if it was before or has been pushed. *)
LEMMA PushProperties ==
    ASSUME NEW list \in Seq(Body), NEW body \in Body
    PROVE  /\ Append(list, body) \in Seq(Body)
           /\ On(Append(list, body), body.job)
           /\ \A j : On(list, j) => On(Append(list, body), j)
<1>1. /\ Append(list, body) \in Seq(Body)
      /\ Len(Append(list, body)) = Len(list) + 1
      /\ Append(list, body)[Len(list) + 1] = body
      /\ \A i \in 1..Len(list) : Append(list, body)[i] = list[i]
  BY AppendProperties
<1> QED BY <1>1 DEF On

(* Popping the tail of a list takes the job of that body and no other. *)
LEMMA PopProperties ==
    ASSUME NEW list \in Seq(Body), list # << >>
    PROVE  /\ Head(list) \in Body /\ Tail(list) \in Seq(Body)
           /\ \A j : On(list, j) => j = Head(list).job \/ On(Tail(list), j)
<1>1. /\ Head(list) \in Body /\ Tail(list) \in Seq(Body)
      /\ Len(Tail(list)) = Len(list) - 1
      /\ \A i \in 1..Len(Tail(list)) : Tail(list)[i] = list[i + 1]
      /\ Head(list) = list[1]
  BY HeadTailProperties
<1>2. ASSUME NEW j, On(list, j), j # Head(list).job
      PROVE  On(Tail(list), j)
  <2>1. PICK i \in 1..Len(list) : list[i].job = j
    BY <1>2 DEF On
  <2>2. i # 1
    BY <1>1, <1>2, <2>1
  <2>3. i - 1 \in 1..Len(Tail(list)) /\ Tail(list)[i - 1] = list[i]
    BY <1>1, <2>2
  <2> QED BY <2>1, <2>3 DEF On
<1> QED BY <1>1, <1>2
-----------------------------------------------------------------------------
(* What a goroutine knows of the job in its hand: Requeue is reached only    *)
(* with an attempt left to count, Ack only after a verdict.                  *)
HandKnows ==
    \A t \in Threads :
        /\ thread[t].pc \in {"removing", "pushing"} =>
               thread[t].body.attempt < MaxRetries
        /\ thread[t].pc \in {"acking", "dropping"} =>
               verdict[thread[t].body.job] # "none"

(* The inductive invariant.  TypeOK needs HandKnows to keep the pushed       *)
(* attempt within MaxRetries; JobAccounted needs it when Ack takes the last  *)
(* body of a job out of Redis.                                               *)
IInv == TypeOK /\ HandKnows /\ JobAccounted

LEMMA ThreadFacts ==
    ASSUME TypeOK, NEW t \in Threads
    PROVE  /\ t[1] \in Workers
           /\ <<t[1], Loop>> \in Threads
           /\ thread[t] # Idle <=> thread[t].pc \in Busy
           /\ thread[t].pc \in Busy => thread[t].body \in Body
           /\ Idle.pc = "idle" /\ "idle" \notin Busy
<1>1. t[1] \in Workers /\ <<t[1], Loop>> \in Threads
  BY ConcurrencyAssumption DEF Threads, Loop
<1>2. thread[t] \in Hand \cup {Idle}
  BY DEF TypeOK
<1> QED BY <1>1, <1>2 DEF Hand, Idle, Busy

LEMMA InitIInv == Init => IInv
<1> SUFFICES ASSUME Init PROVE IInv
  OBVIOUS
<1>1. TypeOK
  BY RetriesAssumption, BoundsAssumption
     DEF Init, TypeOK, Body, Phases, Verdicts, Threads
<1>2. HandKnows
  BY DEF Init, HandKnows, Idle
<1>3. JobAccounted
  BY DEF Init, JobAccounted
<1> QED BY <1>1, <1>2, <1>3 DEF IInv

(* Steps that touch neither the lists nor what JobAccounted reads of the    *)
(* goroutines keep it.                                                      *)
LEMMA AccountedStays ==
    ASSUME JobAccounted, UNCHANGED <<redis, submitted>>, cut \subseteq cut',
           \A j \in Jobs : Pushing(j) => Pushing(j)' \/ j \in cut',
           \A j \in Jobs : verdict[j] # "none" => verdict'[j] # "none",
           submitted \subseteq Jobs
    PROVE  JobAccounted'
BY DEF JobAccounted, InRedis, On, redis
-----------------------------------------------------------------------------
(* Types and hands, action by action. *)
LEMMA TypeStep == IInv /\ [Next]_vars => TypeOK' /\ HandKnows'
<1> SUFFICES ASSUME IInv, [Next]_vars PROVE TypeOK' /\ HandKnows'
  OBVIOUS
<1> USE DEF IInv
<1>1. ASSUME NEW j \in Jobs, Enqueue(j) PROVE TypeOK' /\ HandKnows'
  <2>1. [job |-> j, attempt |-> 0] \in Body
    BY RetriesAssumption DEF Body
  <2>2. pending' \in Seq(Body)
    BY <1>1, <2>1, PushProperties DEF TypeOK, Enqueue
  <2> QED BY <1>1, <2>2 DEF Enqueue, TypeOK, HandKnows
<1>2. ASSUME NEW w \in Workers, Start(w) PROVE TypeOK' /\ HandKnows'
  BY <1>2 DEF Start, TypeOK, HandKnows, Phases, redis, history
<1>3. ASSUME NEW w \in Workers, ReapOrphan(w) PROVE TypeOK' /\ HandKnows'
  <2>1. Head(processing) \in Body /\ Tail(processing) \in Seq(Body)
    BY <1>3, PopProperties DEF TypeOK, ReapOrphan
  <2>2. pending' \in Seq(Body) /\ processing' \in Seq(Body)
    BY <1>3, <2>1, PushProperties DEF TypeOK, ReapOrphan
  <2>3. reaps' \in [Jobs -> Nat]
    BY <1>3, <2>1 DEF TypeOK, ReapOrphan, Body
  <2> QED BY <1>3, <2>2, <2>3 DEF ReapOrphan, TypeOK, HandKnows
<1>4. ASSUME NEW w \in Workers, ReapDone(w) PROVE TypeOK' /\ HandKnows'
  BY <1>4, BoundsAssumption
     DEF ReapDone, Disturb, TypeOK, HandKnows, Phases, redis, history
<1>5. ASSUME NEW w \in Workers, Dequeue(w) PROVE TypeOK' /\ HandKnows'
  <2>1. Head(pending) \in Body /\ Tail(pending) \in Seq(Body)
    BY <1>5, PopProperties DEF TypeOK, Dequeue
  <2>2. pending' \in Seq(Body) /\ processing' \in Seq(Body)
    BY <1>5, <2>1, PushProperties DEF TypeOK, Dequeue
  <2>3. [pc |-> "held", body |-> Head(pending)] \in Hand
    BY <2>1 DEF Hand, Busy
  <2>4. thread' \in [Threads -> Hand \cup {Idle}]
    BY <1>5, <2>3 DEF TypeOK, Dequeue
  <2> QED BY <1>5, <2>2, <2>4 DEF Dequeue, TypeOK, HandKnows, history
<1>6. ASSUME NEW w \in Workers, DequeueReplyLost(w) PROVE TypeOK' /\ HandKnows'
  <2>1. Head(pending) \in Body /\ Tail(pending) \in Seq(Body)
    BY <1>6, PopProperties DEF TypeOK, DequeueReplyLost
  <2>2. pending' \in Seq(Body) /\ processing' \in Seq(Body)
    BY <1>6, <2>1, PushProperties DEF TypeOK, DequeueReplyLost
  <2> QED BY <1>6, <2>2, BoundsAssumption
         DEF DequeueReplyLost, Disturb, TypeOK, HandKnows, history
<1>7. ASSUME NEW t \in Threads, NEW body \in Body, Handle(t, body)
      PROVE  TypeOK' /\ HandKnows'
  <2>1. [pc |-> "handling", body |-> body] \in Hand
    BY DEF Hand, Busy
  <2>2. thread' \in [Threads -> Hand \cup {Idle}]
    BY <1>7, <2>1 DEF TypeOK, Handle
  <2>3. runs' \in [Jobs -> Nat]
    BY <1>7 DEF TypeOK, Handle, Body
  <2>4. HandKnows'
    <3>1. ASSUME NEW u \in Threads
          PROVE  thread'[u] \in {thread[u], Idle, [pc |-> "handling", body |-> body]}
      BY <1>7 DEF TypeOK, Handle
    <3>2. verdict' = verdict
      BY <1>7 DEF Handle
    <3> SUFFICES ASSUME NEW u \in Threads
                 PROVE  /\ thread'[u].pc \in {"removing", "pushing"} =>
                               thread'[u].body.attempt < MaxRetries
                        /\ thread'[u].pc \in {"acking", "dropping"} =>
                               verdict'[thread'[u].body.job] # "none"
      BY DEF HandKnows
    <3>3. CASE thread'[u] = thread[u]
      BY <3>2, <3>3 DEF HandKnows
    <3>4. CASE thread'[u] = Idle
      BY <3>4 DEF Idle
    <3>5. CASE thread'[u] = [pc |-> "handling", body |-> body]
      BY <3>5
    <3> QED BY <3>1, <3>3, <3>4, <3>5
  <2> QED BY <1>7, <2>2, <2>3, <2>4 DEF Handle, TypeOK, redis
<1>8. ASSUME NEW w \in Workers, Dispatch(w) \/ ProcessOnLoop(w)
      PROVE  \E t \in Threads : \E body \in Body : Handle(t, body)
  <2>1. <<w, Loop>> \in Threads /\ \A i \in Slots : <<w, i>> \in Threads
    BY ConcurrencyAssumption DEF Threads, Loop, Slots
  <2>2. thread[<<w, Loop>>].body \in Body
    BY <1>8, <2>1, ThreadFacts DEF Dispatch, ProcessOnLoop, Busy
  <2> QED BY <1>8, <2>1, <2>2 DEF Dispatch, ProcessOnLoop
<1>9. ASSUME NEW t \in Threads, thread[t].pc \in Busy, NEW pc \in Busy, Become(t, pc)
      PROVE  thread' \in [Threads -> Hand \cup {Idle}]
  <2>1. thread[t] \in Hand
    BY <1>9, ThreadFacts DEF TypeOK
  <2>2. [thread[t] EXCEPT !.pc = pc] \in Hand
    BY <2>1 DEF Hand
  <2> QED BY <1>9, <2>2 DEF Become, TypeOK
<1>10. ASSUME NEW t \in Threads, Release(t)
       PROVE  thread' \in [Threads -> Hand \cup {Idle}]
  BY <1>10 DEF Release, TypeOK
<1>11. ASSUME NEW t \in Threads, NEW v \in Verdicts, Judge(t, v)
       PROVE  verdict' \in [Jobs -> Verdicts]
  BY <1>11 DEF Judge, TypeOK
<1>12. ASSUME NEW t \in Threads, NEW v \in Verdicts \ {"none"},
              thread[t].pc = "handling",
              Become(t, "acking") \/ Become(t, "dropping"), Judge(t, v),
              UNCHANGED <<redis, phase, submitted, runs, reaps, cut, twinned, faults>>
       PROVE  TypeOK' /\ HandKnows'
  <2>1. thread[t].body.job \in Jobs
    BY <1>12, ThreadFacts DEF Busy, Body
  <2>2. thread' \in [Threads -> Hand \cup {Idle}] /\ verdict' \in [Jobs -> Verdicts]
    BY <1>9, <1>11, <1>12 DEF Busy
  <2>3. \A j \in Jobs : verdict[j] # "none" => verdict'[j] # "none"
    BY <1>12 DEF Judge, TypeOK
  <2>4. verdict'[thread[t].body.job] # "none"
    BY <1>12, <2>1 DEF Judge, TypeOK
  <2>5. \A u \in Threads : u # t => thread'[u] = thread[u]
    BY <1>12 DEF Become, TypeOK
  <2>6. thread'[t].pc \in {"acking", "dropping"} /\ thread'[t].body = thread[t].body
    <3>1. thread[t] \in Hand
      BY <1>12, ThreadFacts DEF TypeOK, Busy
    <3> QED BY <1>12, <3>1 DEF Become, TypeOK, Hand
  <2>7. HandKnows'
    <3> SUFFICES ASSUME NEW u \in Threads
                 PROVE  /\ thread'[u].pc \in {"removing", "pushing"} =>
                               thread'[u].body.attempt < MaxRetries
                        /\ thread'[u].pc \in {"acking", "dropping"} =>
                               verdict'[thread'[u].body.job] # "none"
      BY DEF HandKnows
    <3>1. CASE u = t
      BY <2>4, <2>6, <3>1
    <3>2. CASE u # t
      <4>1. thread[u].pc \in {"acking", "dropping"} => thread[u].body.job \in Jobs
        BY ThreadFacts DEF Busy, Body
      <4> QED BY <2>3, <2>5, <3>2, <4>1 DEF HandKnows
    <3> QED BY <3>1, <3>2
  <2> QED BY <1>12, <2>2, <2>7 DEF TypeOK, redis
<1>13. ASSUME NEW t \in Threads, Release(t), UNCHANGED verdict
       PROVE  HandKnows'
  <2>1. \A u \in Threads : thread'[u] = thread[u] \/ thread'[u] = Idle
    BY <1>13 DEF Release, TypeOK
  <2> QED BY <1>13, <2>1 DEF HandKnows, Idle
<1>14. ASSUME NEW t \in Threads, thread[t].pc \in Busy, UNCHANGED verdict,
              Become(t, "removing") \/ Become(t, "pushing"),
              thread[t].body.attempt < MaxRetries
       PROVE  HandKnows'
  <2>1. thread[t] \in Hand
    BY <1>14, ThreadFacts DEF TypeOK
  <2>2. \A u \in Threads : u # t => thread'[u] = thread[u]
    BY <1>14 DEF Become, TypeOK
  <2>3. thread'[t].pc \in {"removing", "pushing"} /\ thread'[t].body = thread[t].body
    BY <1>14, <2>1 DEF Become, TypeOK, Hand
  <2> QED BY <1>14, <2>2, <2>3 DEF HandKnows
<1>15. ASSUME NEW t \in Threads, HandlerReturns(t) PROVE TypeOK' /\ HandKnows'
  <2>1. CASE HandlerSucceeds(t)
    BY <2>1, <1>12 DEF HandlerSucceeds, Verdicts
  <2>2. CASE HandlerFailsForGood(t)
    BY <2>2, <1>12 DEF HandlerFailsForGood, Verdicts
  <2>3. CASE thread[t].pc = "handling" /\ DropExhausted(t)
    BY <2>3, <1>12 DEF DropExhausted, Verdicts
  <2>4. CASE LeaveForReaper(t)
    BY <2>4, <1>10, <1>13 DEF LeaveForReaper, TypeOK, redis, history
  <2>5. CASE thread[t].pc = "handling" /\ Retry(t)
    BY <2>5, <1>9, <1>14 DEF Retry, Busy, TypeOK, redis, history
  <2> QED BY <1>15, <2>1, <2>2, <2>3, <2>4, <2>5
         DEF HandlerReturns, HandlerFails
<1>16. ASSUME NEW t \in Threads, HandlerPanics(t) PROVE TypeOK' /\ HandKnows'
  BY <1>16, <1>10, <1>13, BoundsAssumption
     DEF HandlerPanics, Disturb, TypeOK, redis, history
<1>17. ASSUME NEW t \in Threads, QueueReplies(t) PROVE TypeOK' /\ HandKnows'
  <2>1. thread[t].pc \in Busy /\ thread[t].body \in Body
    BY <1>17, ThreadFacts
       DEF QueueReplies, Ack, AckFails, RequeueRemove, RequeueRemoveFails,
           RequeuePush, RequeuePushFails, Busy
  <2>2. LRem(processing, thread[t].body) \in Seq(Body)
    BY <2>1, LRemProperties DEF TypeOK
  <2>3. CASE Ack(t)
    BY <2>2, <2>3, <1>10, <1>13 DEF Ack, TypeOK, history
  <2>4. CASE AckFails(t)
    BY <2>4, <1>10, <1>13, BoundsAssumption
       DEF AckFails, Disturb, TypeOK, redis, history
  <2>5. CASE RequeueRemove(t)
    <3>1. thread[t].body.attempt < MaxRetries
      BY <2>5 DEF RequeueRemove, HandKnows
    <3> QED BY <2>1, <2>2, <2>5, <3>1, <1>9, <1>14
            DEF RequeueRemove, TypeOK, history, Busy
  <2>6. CASE RequeueRemoveFails(t)
    <3>1. thread[t].body.attempt < MaxRetries
      BY <2>6 DEF RequeueRemoveFails, HandKnows
    <3>2. thread[t].body.job \in Jobs
      BY <2>1 DEF Body
    <3> QED BY <2>1, <2>6, <3>1, <3>2, <1>9, <1>14, BoundsAssumption
            DEF RequeueRemoveFails, Disturb, TypeOK, redis, Busy
  <2>7. CASE RequeuePush(t)
    <3>1. thread[t].body.attempt < MaxRetries
      BY <2>7 DEF RequeuePush, HandKnows
    <3>2. [thread[t].body EXCEPT !.attempt = @ + 1] \in Body
      BY <2>1, <3>1, RetriesAssumption DEF Body
    <3>3. pending' \in Seq(Body)
      BY <2>7, <3>2, PushProperties DEF RequeuePush, TypeOK
    <3> QED BY <2>7, <3>3, <1>10, <1>13 DEF RequeuePush, TypeOK, history
  <2>8. CASE RequeuePushFails(t)
    <3>1. cut' \subseteq Jobs
      BY <2>1, <2>8 DEF RequeuePushFails, TypeOK, Body
    <3> QED BY <2>8, <3>1, <1>10, <1>13, BoundsAssumption
            DEF RequeuePushFails, Disturb, TypeOK, redis
  <2> QED BY <1>17, <2>3, <2>4, <2>5, <2>6, <2>7, <2>8 DEF QueueReplies
<1>18. ASSUME NEW w \in Workers, Sigterm(w) \/ Exit(w) PROVE TypeOK' /\ HandKnows'
  <2>1. phase' \in [Workers -> Phases]
    BY <1>18 DEF Sigterm, Exit, TypeOK, Phases
  <2>2. faults' \in 0..MaxFaults
    BY <1>18, BoundsAssumption DEF Sigterm, Exit, Disturb, TypeOK
  <2>3. UNCHANGED <<redis, thread, history>>
    BY <1>18 DEF Sigterm, Exit
  <2> QED BY <2>1, <2>2, <2>3 DEF TypeOK, HandKnows, redis, history
<1>19. ASSUME NEW w \in Workers, Kill(w) PROVE TypeOK' /\ HandKnows'
  <2>1. \A t \in Threads : thread'[t] = thread[t] \/ thread'[t] = Idle
    BY <1>19 DEF Kill
  <2>2. thread' \in [Threads -> Hand \cup {Idle}]
    BY <1>19 DEF Kill, TypeOK
  <2>3. cut' \subseteq Jobs
    <3>1. \A t \in BusyThreads : thread[t].body.job \in Jobs
      BY ThreadFacts DEF BusyThreads, Body
    <3> QED BY <1>19, <3>1 DEF Kill, TypeOK
  <2>4. HandKnows'
    BY <1>19, <2>1 DEF HandKnows, Kill, Idle
  <2> QED BY <1>19, <2>2, <2>3, <2>4, BoundsAssumption
         DEF Kill, Disturb, TypeOK, Phases, redis
<1>20. CASE UNCHANGED vars
  BY <1>20 DEF vars, TypeOK, HandKnows, redis, history
<1> QED BY <1>1, <1>2, <1>3, <1>4, <1>5, <1>6, <1>7, <1>8, <1>15, <1>16, <1>17,
           <1>18, <1>19, <1>20 DEF Next, LoopStep

(* The accounts of one step: a body leaves a list only for the other list,   *)
(* for the hand of a Requeue, or behind a verdict; a Requeue cut short is    *)
(* written down in cut.                                                      *)
LEMMA AccountedStep == IInv /\ [Next]_vars => JobAccounted'
<1> SUFFICES ASSUME IInv, [Next]_vars PROVE JobAccounted'
  OBVIOUS
<1> USE DEF IInv
<1>0. /\ submitted \subseteq Jobs
      /\ pending \in Seq(Body) /\ processing \in Seq(Body)
  BY DEF TypeOK
<1>1. ASSUME NEW j \in Jobs, Enqueue(j) PROVE JobAccounted'
  <2>1. [job |-> j, attempt |-> 0] \in Body
    BY RetriesAssumption DEF Body
  <2>2. /\ On(pending', j)
        /\ \A k : On(pending, k) => On(pending', k)
        /\ \A k : On(processing, k) => On(processing', k)
    BY <1>0, <1>1, <2>1, PushProperties DEF Enqueue
  <2>3. \A k : Pushing(k) => Pushing(k)'
    BY <1>1 DEF Enqueue, Pushing
  <2> QED BY <1>1, <2>2, <2>3 DEF Enqueue, JobAccounted, InRedis
<1>2. ASSUME NEW w \in Workers, Start(w) \/ ReapDone(w) \/ Sigterm(w) \/ Exit(w)
      PROVE  JobAccounted'
  BY <1>0, <1>2, AccountedStays
     DEF Start, ReapDone, Sigterm, Exit, history, Pushing
<1>3. ASSUME NEW w \in Workers, ReapOrphan(w) PROVE JobAccounted'
  <2>1. Head(processing) \in Body /\ Tail(processing) \in Seq(Body)
    BY <1>0, <1>3, PopProperties DEF ReapOrphan
  <2>2. \A k : InRedis(k) => InRedis(k)'
    BY <1>0, <1>3, <2>1, PopProperties, PushProperties DEF ReapOrphan, InRedis
  <2>3. \A k : Pushing(k) => Pushing(k)'
    BY <1>3 DEF ReapOrphan, Pushing
  <2> QED BY <1>3, <2>2, <2>3 DEF ReapOrphan, JobAccounted
<1>4. ASSUME NEW w \in Workers, Dequeue(w) \/ DequeueReplyLost(w)
      PROVE  JobAccounted'
  <2>1. /\ pending # << >>
        /\ processing' = Append(processing, Head(pending))
        /\ pending' = Tail(pending)
    BY <1>4 DEF Dequeue, DequeueReplyLost
  <2>2. Head(pending) \in Body /\ Tail(pending) \in Seq(Body)
    BY <1>0, <2>1, PopProperties
  <2>3. \A k : InRedis(k) => InRedis(k)'
    BY <1>0, <2>1, <2>2, PopProperties, PushProperties DEF InRedis
  <2>4. \A k : Pushing(k) => Pushing(k)'
    <3>1. ASSUME NEW t \in Threads, thread[t].pc = "pushing"
          PROVE  thread'[t] = thread[t]
      <4>1. CASE Dequeue(w)
        <5>1. t # <<w, Loop>>
          <6>1. thread[<<w, Loop>>] = Idle /\ Idle.pc # "pushing"
            BY <4>1 DEF Dequeue, Idle
          <6> QED BY <3>1, <6>1
        <5> QED BY <4>1, <5>1 DEF Dequeue, TypeOK
      <4>2. CASE DequeueReplyLost(w)
        BY <4>2 DEF DequeueReplyLost
      <4> QED BY <1>4, <4>1, <4>2
    <3> QED BY <3>1 DEF Pushing
  <2> QED BY <1>4, <2>3, <2>4
         DEF Dequeue, DequeueReplyLost, JobAccounted, history
<1>5. ASSUME NEW w \in Workers, Dispatch(w) \/ ProcessOnLoop(w)
      PROVE  JobAccounted'
  <2>1. ASSUME NEW t \in Threads, thread[t].pc = "pushing"
        PROVE  thread'[t] = thread[t]
    <3>1. PICK i \in Loop..Concurrency :
             /\ thread[<<w, i>>] = Idle \/ i = Loop
             /\ Handle(<<w, i>>, thread[<<w, Loop>>].body)
      <4>1. Loop \in Loop..Concurrency /\ Slots \subseteq Loop..Concurrency
        BY ConcurrencyAssumption DEF Loop, Slots
      <4>2. CASE Dispatch(w)
        BY <4>1, <4>2 DEF Dispatch
      <4>3. CASE ProcessOnLoop(w)
        BY <4>1, <4>3 DEF ProcessOnLoop
      <4> QED BY <1>5, <4>2, <4>3
    <3>2. t # <<w, Loop>>
      BY <1>5, <2>1 DEF Dispatch, ProcessOnLoop
    <3>3. t # <<w, i>>
      BY <2>1, <3>1, <3>2 DEF Idle
    <3>4. thread' = [thread EXCEPT ![<<w, Loop>>] = Idle,
                        ![<<w, i>>] = [pc |-> "handling",
                                       body |-> thread[<<w, Loop>>].body]]
      BY <3>1 DEF Handle
    <3> QED BY <3>2, <3>3, <3>4 DEF TypeOK
  <2>2. UNCHANGED <<redis, submitted, cut, verdict>>
    BY <1>5 DEF Dispatch, ProcessOnLoop, Handle
  <2> QED BY <1>0, <2>1, <2>2, AccountedStays DEF Pushing
<1>6. ASSUME NEW t \in Threads, HandlerReturns(t) \/ HandlerPanics(t)
      PROVE  JobAccounted'
  <2>1. thread[t].pc = "handling" /\ UNCHANGED <<redis, submitted, cut>>
    BY <1>6 DEF HandlerReturns, HandlerSucceeds, HandlerFailsForGood, HandlerFails,
                DropExhausted, LeaveForReaper, Retry, HandlerPanics, history
  <2>2. \A u \in Threads : thread[u].pc = "pushing" => thread'[u] = thread[u]
    BY <1>6, <2>1
       DEF HandlerReturns, HandlerSucceeds, HandlerFailsForGood, HandlerFails,
           DropExhausted, LeaveForReaper, Retry, HandlerPanics, Become, Release,
           TypeOK
  <2>3. \A j \in Jobs : verdict[j] # "none" => verdict'[j] # "none"
    BY <1>6
       DEF HandlerReturns, HandlerSucceeds, HandlerFailsForGood, HandlerFails,
           DropExhausted, LeaveForReaper, Retry, HandlerPanics, Judge, history, TypeOK
  <2> QED BY <1>0, <2>1, <2>2, <2>3, AccountedStays DEF Pushing
<1>7. ASSUME NEW t \in Threads, QueueReplies(t) PROVE JobAccounted'
  <2>1. thread[t].pc \in Busy /\ thread[t].body \in Body
    BY <1>7, ThreadFacts
       DEF QueueReplies, Ack, AckFails, RequeueRemove, RequeueRemoveFails,
           RequeuePush, RequeuePushFails, Busy
  <2> PICK mine \in Jobs : mine = thread[t].body.job
    BY <2>1 DEF Body
  <2>2. \A k : k # mine /\ On(processing, k) => On(LRem(processing, thread[t].body), k)
    BY <1>0, <2>1, LRemProperties
  <2>3. \A u \in Threads : u # t => thread'[u] = thread[u]
    BY <1>7 DEF QueueReplies, Ack, AckFails, RequeueRemove, RequeueRemoveFails,
                RequeuePush, RequeuePushFails, Become, Release, TypeOK
  <2>4. \A k : k # mine /\ Pushing(k) => Pushing(k)'
    BY <2>3 DEF Pushing
  <2>5. CASE Ack(t)
    <3>1. verdict[mine] # "none"
      BY <2>5 DEF Ack, HandKnows
    <3>2. \A k : k # mine /\ InRedis(k) => InRedis(k)'
      BY <2>2, <2>5 DEF Ack, InRedis
    <3> QED BY <2>4, <2>5, <3>1, <3>2 DEF Ack, JobAccounted, history
  <2>6. CASE AckFails(t) \/ RequeueRemoveFails(t)
    <3>1. thread[t].pc # "pushing" /\ UNCHANGED <<redis, submitted, cut, verdict>>
      BY <2>6 DEF AckFails, RequeueRemoveFails, history
    <3> QED BY <1>0, <2>3, <3>1, AccountedStays DEF Pushing
  <2>7. CASE RequeueRemove(t)
    <3>1. thread'[t].pc = "pushing" /\ thread'[t].body = thread[t].body
      <4>1. thread[t] \in Hand
        BY <2>1, ThreadFacts DEF TypeOK
      <4> QED BY <2>7, <4>1 DEF RequeueRemove, Become, TypeOK, Hand
    <3>2. Pushing(mine)'
      BY <3>1 DEF Pushing
    <3>3. \A k : k # mine /\ InRedis(k) => InRedis(k)'
      BY <2>2, <2>7 DEF RequeueRemove, InRedis
    <3> QED BY <2>4, <2>7, <3>2, <3>3 DEF RequeueRemove, JobAccounted, history
  <2>8. CASE RequeuePush(t)
    <3>1. [thread[t].body EXCEPT !.attempt = @ + 1] \in Body
      BY <2>1, <2>8, RetriesAssumption DEF RequeuePush, HandKnows, Body
    <3>2. [thread[t].body EXCEPT !.attempt = @ + 1].job = mine
      BY <2>1 DEF Body
    <3>3. /\ On(pending', mine) /\ \A k : On(pending, k) => On(pending', k)
          /\ processing' = processing
      BY <1>0, <2>8, <3>1, <3>2, PushProperties DEF RequeuePush
    <3>4. InRedis(mine)' /\ \A k : InRedis(k) => InRedis(k)'
      BY <2>8, <3>3 DEF RequeuePush, InRedis
    <3> QED BY <2>4, <2>8, <3>4 DEF RequeuePush, JobAccounted, history
  <2>9. CASE RequeuePushFails(t)
    <3>1. UNCHANGED <<redis, submitted, verdict>> /\ mine \in cut' /\ cut \subseteq cut'
      BY <2>9 DEF RequeuePushFails
    <3> QED BY <1>0, <2>4, <3>1, AccountedStays
  <2> QED BY <1>7, <2>5, <2>6, <2>7, <2>8, <2>9 DEF QueueReplies
<1>8. ASSUME NEW w \in Workers, Kill(w) PROVE JobAccounted'
  <2>1. UNCHANGED <<redis, submitted, verdict>> /\ cut \subseteq cut'
    BY <1>8 DEF Kill
  <2>2. ASSUME NEW t \in Threads, thread[t].pc = "pushing"
        PROVE  thread'[t] = thread[t] \/ thread[t].body.job \in cut'
    BY <1>8, <2>2 DEF Kill, BusyThreads, Idle
  <2> QED BY <1>0, <2>1, <2>2, AccountedStays DEF Pushing
<1>9. CASE UNCHANGED vars
  BY <1>0, <1>9, AccountedStays DEF vars, history, Pushing
<1> QED BY <1>1, <1>2, <1>3, <1>4, <1>5, <1>6, <1>7, <1>8, <1>9 DEF Next, LoopStep
-----------------------------------------------------------------------------
(* Every reachable state is well typed: in particular no body carries an     *)
(* attempt beyond MaxRetries, whatever Requeue, reaper and kills do.         *)
THEOREM TypeCorrect == Spec => []TypeOK
<1>1. IInv /\ [Next]_vars => IInv'
  BY TypeStep, AccountedStep DEF IInv
<1> QED BY InitIInv, <1>1, PTL DEF Spec, IInv

(* No accepted job is ever unaccounted for, for any number of workers and    *)
(* any interleaving of reapers, retries, kills and Redis failures.           *)
THEOREM NoJobUnaccounted == Spec => []JobAccounted
<1>1. IInv /\ [Next]_vars => IInv'
  BY TypeStep, AccountedStep DEF IInv
<1> QED BY InitIInv, <1>1, PTL DEF Spec, IInv
-----------------------------------------------------------------------------
(* The rest is about one worker at a time, as KEDA's maxReplicaCount has it. *)
OneWorker == MaxLive = 1 /\ IsFiniteSet(Workers)

(* Goroutines that have a job in hand and have not taken it out of Redis. *)
Keeping == Busy \ {"pushing"}
KeepersIn(th) == {t \in Threads : th[t].pc \in Keeping}

(* Each of them has a body on the processing list to itself. *)
OwnBody(th, list, f) ==
    /\ f \in [KeepersIn(th) -> 1..Len(list)]
    /\ \A t \in KeepersIn(th) : list[f[t]] = th[t].body
    /\ \A t, u \in KeepersIn(th) : f[t] = f[u] => t = u
PlacedIn(th, list) == \E f : OwnBody(th, list, f)
Placed == PlacedIn(thread, processing)

Single == \A v, w \in Live : v = w
Employed == \A t \in Threads : thread[t] # Idle => phase[t[1]] \in {"up", "stopping"}

OneInv == OneWorker /\ IInv /\ Single /\ Employed /\ Placed
-----------------------------------------------------------------------------
(* Where LREM strikes, and what it leaves. *)
LEMMA LRemShape ==
    ASSUME NEW list \in Seq(Body), NEW body \in Body,
           NEW k \in 1..Len(list), list[k] = body
    PROVE  \E p \in 1..Len(list) :
              /\ list[p] = body
              /\ LRem(list, body) \in Seq(Body)
              /\ Len(LRem(list, body)) = Len(list) - 1
              /\ \A i \in 1..(Len(list) - 1) :
                    LRem(list, body)[i] = IF i < p THEN list[i] ELSE list[i + 1]
<1> DEFINE hits == {i \in 1..Len(list) : list[i] = body}
           last == CHOOSE i \in hits : \A m \in hits : m <= i
           left == SubSeq(list, 1, last - 1)
           right == SubSeq(list, last + 1, Len(list))
<1>1. last \in 1..Len(list) /\ list[last] = body
  <2>1. Len(list) \in Nat /\ hits # {}
    OBVIOUS
  <2>2. \E i \in hits : \A m \in hits : m <= i
    BY <2>1, LastPosition
  <2> QED BY <2>2
<1>2. LRem(list, body) = left \o right
  BY DEF LRem, RemoveAt
<1> HIDE DEF last
<1>3. /\ left \in Seq(Body) /\ Len(left) = last - 1
      /\ \A i \in 1..(last - 1) : left[i] = list[i]
  BY <1>1
<1>4. /\ right \in Seq(Body) /\ Len(right) = Len(list) - last
      /\ \A i \in 1..(Len(list) - last) : right[i] = list[last + i]
  BY <1>1
<1> HIDE DEF left, right
<1>5. left \o right \in Seq(Body) /\ Len(left \o right) = Len(list) - 1
  <2>1. /\ left \o right \in Seq(Body)
        /\ Len(left \o right) = Len(left) + Len(right)
    BY <1>3, <1>4, ConcatProperties
  <2>2. last \in Nat /\ Len(list) \in Nat
    BY <1>1
  <2> QED BY <1>3, <1>4, <2>1, <2>2
<1>6. ASSUME NEW i \in 1..(Len(list) - 1)
      PROVE  (left \o right)[i] = IF i < last THEN list[i] ELSE list[i + 1]
  <2>1. CASE i < last
    BY <1>1, <1>3, <1>4, <2>1
  <2>2. CASE ~ (i < last)
    <3>1. (left \o right)[i] = right[i - (last - 1)]
      BY <1>1, <1>3, <1>4, <2>2
    <3>2. i - (last - 1) \in 1..(Len(list) - last) /\ last + (i - (last - 1)) = i + 1
      BY <1>1, <2>2
    <3> QED BY <1>4, <2>2, <3>1, <3>2
  <2> QED BY <2>1, <2>2
<1> QED BY <1>1, <1>2, <1>5, <1>6

(* Goroutines keep their bodies when each takes over from another, and the  *)
(* list at most grows.                                                      *)
LEMMA PlacedMoves ==
    ASSUME NEW th, NEW th2, NEW list \in Seq(Body), NEW list2 \in Seq(Body), PlacedIn(th, list),
           Len(list) <= Len(list2), \A i \in 1..Len(list) : list2[i] = list[i],
           NEW g \in [KeepersIn(th2) -> KeepersIn(th)],
           \A t \in KeepersIn(th2) : th2[t].body = th[g[t]].body,
           \A t, u \in KeepersIn(th2) : g[t] = g[u] => t = u
    PROVE  PlacedIn(th2, list2)
<1>1. PICK f : OwnBody(th, list, f)
  BY DEF PlacedIn
<1> DEFINE f2 == [t \in KeepersIn(th2) |-> f[g[t]]]
<1>2. \A t \in KeepersIn(th2) : f2[t] = f[g[t]] /\ g[t] \in KeepersIn(th)
  OBVIOUS
<1>3. \A t \in KeepersIn(th2) : f[g[t]] \in 1..Len(list) /\ f[g[t]] \in 1..Len(list2)
  BY <1>1, <1>2 DEF OwnBody
<1>4. OwnBody(th2, list2, f2)
  BY <1>1, <1>2, <1>3 DEF OwnBody
<1> QED BY <1>4 DEF PlacedIn

(* Those that go on keep what they have. *)
LEMMA PlacedStays ==
    ASSUME NEW th, NEW th2, NEW list \in Seq(Body), NEW list2 \in Seq(Body), PlacedIn(th, list),
           Len(list) <= Len(list2), \A i \in 1..Len(list) : list2[i] = list[i],
           \A t \in KeepersIn(th2) : t \in KeepersIn(th) /\ th2[t].body = th[t].body
    PROVE  PlacedIn(th2, list2)
<1> DEFINE g == [t \in KeepersIn(th2) |-> t]
<1>1. g \in [KeepersIn(th2) -> KeepersIn(th)] /\ \A t \in KeepersIn(th2) : g[t] = t
  OBVIOUS
<1> HIDE DEF g
<1> QED BY <1>1, PlacedMoves

(* A popped body is at the end of the processing list. *)
LEMMA PlacedTakes ==
    ASSUME NEW th, NEW th2, NEW list \in Seq(Body), NEW body \in Body, NEW t \in Threads,
           PlacedIn(th, list), t \notin KeepersIn(th), th2[t].body = body,
           \A u \in KeepersIn(th2) : u # t => u \in KeepersIn(th) /\ th2[u].body = th[u].body
    PROVE  PlacedIn(th2, Append(list, body))
<1>1. PICK f : OwnBody(th, list, f)
  BY DEF PlacedIn
<1>2. /\ Len(Append(list, body)) = Len(list) + 1 /\ Len(list) \in Nat
      /\ Append(list, body)[Len(list) + 1] = body
      /\ \A i \in 1..Len(list) : Append(list, body)[i] = list[i]
  BY AppendProperties
<1> DEFINE f2 == [u \in KeepersIn(th2) |-> IF u = t THEN Len(list) + 1 ELSE f[u]]
<1>3. \A u \in KeepersIn(th2) : u # t => f[u] \in 1..Len(list) /\ list[f[u]] = th2[u].body
  BY <1>1 DEF OwnBody
<1>4. \A u \in KeepersIn(th2) : f2[u] = IF u = t THEN Len(list) + 1 ELSE f[u]
  OBVIOUS
<1>5. f2 \in [KeepersIn(th2) -> 1..(Len(list) + 1)]
  BY <1>2, <1>3
<1> HIDE DEF f2
<1>6. \A u \in KeepersIn(th2) : Append(list, body)[f2[u]] = th2[u].body
  BY <1>2, <1>3, <1>4
<1>7. \A u, v \in KeepersIn(th2) : f2[u] = f2[v] => u = v
  <2> SUFFICES ASSUME NEW u \in KeepersIn(th2), NEW v \in KeepersIn(th2), f2[u] = f2[v]
               PROVE  u = v
    OBVIOUS
  <2>1. u # t /\ v # t => u = v
    BY <1>1, <1>4 DEF OwnBody
  <2>2. u = t <=> v = t
    BY <1>2, <1>3, <1>4
  <2> QED BY <2>1, <2>2
<1> QED BY <1>2, <1>5, <1>6, <1>7 DEF PlacedIn, OwnBody

(* LREM of the body of a goroutine that lets go leaves the others theirs:    *)
(* the one whose copy is taken has that goroutine's instead.                 *)
LEMMA PlacedLetsGo ==
    ASSUME NEW th, NEW th2, NEW list \in Seq(Body), NEW t \in KeepersIn(th), th[t].body \in Body,
           PlacedIn(th, list), t \notin KeepersIn(th2),
           \A u \in KeepersIn(th2) : u \in KeepersIn(th) /\ th2[u].body = th[u].body
    PROVE  PlacedIn(th2, LRem(list, th[t].body))
<1> DEFINE body == th[t].body
           rest == LRem(list, body)
<1>1. PICK f : OwnBody(th, list, f)
  BY DEF PlacedIn
<1>2. f[t] \in 1..Len(list) /\ list[f[t]] = body /\ Len(list) \in Nat
  BY <1>1 DEF OwnBody
<1>3. PICK p \in 1..Len(list) :
         /\ list[p] = body /\ rest \in Seq(Body) /\ Len(rest) = Len(list) - 1
         /\ \A i \in 1..(Len(list) - 1) : rest[i] = IF i < p THEN list[i] ELSE list[i + 1]
  BY <1>2, LRemShape
<1> HIDE DEF rest
<1> DEFINE at(u) == IF f[u] = p THEN f[t] ELSE f[u]
           f2 == [u \in KeepersIn(th2) |-> IF at(u) < p THEN at(u) ELSE at(u) - 1]
<1>4. ASSUME NEW u \in KeepersIn(th2)
      PROVE  at(u) \in 1..Len(list) /\ at(u) # p /\ list[at(u)] = th2[u].body
  <2>1. u \in KeepersIn(th) /\ u # t /\ f[u] \in 1..Len(list) /\ list[f[u]] = th2[u].body
    BY <1>1 DEF OwnBody
  <2>2. f[u] # f[t]
    BY <1>1, <2>1 DEF OwnBody
  <2> QED BY <1>2, <1>3, <2>1, <2>2
<1>5. \A u, v \in KeepersIn(th2) : at(u) = at(v) => u = v
  <2> SUFFICES ASSUME NEW u \in KeepersIn(th2), NEW v \in KeepersIn(th2), at(u) = at(v)
               PROVE  u = v
    OBVIOUS
  <2>1. u \in KeepersIn(th) /\ v \in KeepersIn(th) /\ u # t /\ v # t
    OBVIOUS
  <2>2. f[u] # f[t] /\ f[v] # f[t] /\ (f[u] = f[v] => u = v)
    BY <1>1, <2>1 DEF OwnBody
  <2> QED BY <2>2
<1> HIDE DEF at
<1>6. \A u \in KeepersIn(th2) : f2[u] = IF at(u) < p THEN at(u) ELSE at(u) - 1
  OBVIOUS
<1>7. f2 \in [KeepersIn(th2) -> 1..Len(rest)]
  <2>1. ASSUME NEW u \in KeepersIn(th2)
        PROVE  (IF at(u) < p THEN at(u) ELSE at(u) - 1) \in 1..Len(rest)
    BY <1>2, <1>3, <1>4
  <2> QED BY <2>1
<1> HIDE DEF f2
<1>8. ASSUME NEW u \in KeepersIn(th2) PROVE rest[f2[u]] = th2[u].body
  <2>1. f2[u] \in 1..(Len(list) - 1)
    BY <1>3, <1>7
  <2> QED BY <1>2, <1>3, <1>4, <1>6, <2>1
<1>9. ASSUME NEW u \in KeepersIn(th2), NEW v \in KeepersIn(th2), f2[u] = f2[v] PROVE u = v
  <2>1. at(u) = at(v)
    BY <1>2, <1>3, <1>4, <1>6, <1>9
  <2> QED BY <1>5, <2>1
<1>10. OwnBody(th2, rest, f2)
  BY <1>7, <1>8, <1>9 DEF OwnBody
<1> QED BY <1>10 DEF PlacedIn, rest
-----------------------------------------------------------------------------
LEMMA PlacedByNobody ==
    ASSUME NEW th, NEW list, KeepersIn(th) = {}
    PROVE  PlacedIn(th, list)
<1>1. OwnBody(th, list, [t \in KeepersIn(th) |-> 1])
  BY DEF OwnBody
<1> QED BY <1>1 DEF PlacedIn

LEMMA OneInit == OneWorker /\ Init => OneInv
<1> SUFFICES ASSUME OneWorker, Init PROVE OneInv
  OBVIOUS
<1>1. Single /\ Employed
  BY DEF Init, Single, Employed, Live
<1>2. KeepersIn(thread) = {}
  BY DEF Init, KeepersIn, Keeping, Busy, Idle
<1> QED BY <1>1, <1>2, InitIInv, PlacedByNobody DEF OneInv, Placed

(* A worker starts only when none is alive, and takes no job while it reaps. *)
LEMMA SingleStep == OneInv /\ [Next]_vars => Single' /\ Employed'
<1> SUFFICES ASSUME OneInv, [Next]_vars PROVE Single' /\ Employed'
  OBVIOUS
<1>0. TypeOK /\ Single /\ Employed /\ OneWorker
  BY DEF OneInv, IInv
<1>1. ASSUME UNCHANGED phase,
             \A t \in Threads : thread'[t] # Idle =>
                 thread[t] # Idle \/ phase[t[1]] \in {"up", "stopping"}
      PROVE  Single' /\ Employed'
  BY <1>0, <1>1 DEF Single, Employed, Live
<1>2. ASSUME NEW j \in Jobs, Enqueue(j) PROVE Single' /\ Employed'
  BY <1>1, <1>2 DEF Enqueue
<1>3. ASSUME NEW w \in Workers, Start(w) PROVE Single' /\ Employed'
  <2>1. IsFiniteSet(Live)
    BY <1>0, FS_Subset DEF OneWorker, Live
  <2>2. Cardinality(Live) = 0
    BY <1>0, <1>3, <2>1, FS_CardinalityType DEF OneWorker, Start
  <2>3. Live = {}
    BY <2>1, <2>2, FS_EmptySet
  <2>4. Single'
    BY <1>0, <1>3, <2>3 DEF Single, Live, Start, TypeOK
  <2>5. Employed'
    BY <1>0, <1>3, <2>3, ThreadFacts DEF Employed, Live, Start, TypeOK
  <2> QED BY <2>4, <2>5
<1>4. ASSUME NEW w \in Workers, ReapOrphan(w) \/ DequeueReplyLost(w)
      PROVE  Single' /\ Employed'
  BY <1>1, <1>4 DEF ReapOrphan, DequeueReplyLost
<1>5. ASSUME NEW w \in Workers, ReapDone(w) \/ Sigterm(w) PROVE Single' /\ Employed'
  <2>1. /\ phase[w] \in {"reaping", "up"} /\ thread' = thread
        /\ \E new \in {"up", "stopping"} : phase' = [phase EXCEPT ![w] = new]
    BY <1>5 DEF ReapDone, Sigterm
  <2>2. Single'
    BY <1>0, <2>1 DEF Single, Live, TypeOK
  <2>3. Employed'
    BY <1>0, <2>1, ThreadFacts DEF Employed, TypeOK
  <2> QED BY <2>2, <2>3
<1>6. ASSUME NEW w \in Workers, Dequeue(w) PROVE Single' /\ Employed'
  <2>1. \A t \in Threads : t = <<w, Loop>> \/ thread'[t] = thread[t]
    BY <1>0, <1>6 DEF Dequeue, TypeOK
  <2>2. phase[w] = "up" /\ phase' = phase
    BY <1>6 DEF Dequeue
  <2> QED BY <1>1, <2>1, <2>2
<1>7. ASSUME NEW w \in Workers, Dispatch(w) \/ ProcessOnLoop(w)
      PROVE  Single' /\ Employed'
  <2>1. <<w, Loop>> \in Threads /\ thread[<<w, Loop>>] # Idle
    BY <1>7, ConcurrencyAssumption DEF Dispatch, ProcessOnLoop, Threads, Loop, Idle
  <2>2. phase[w] \in {"up", "stopping"} /\ phase' = phase
    BY <1>0, <1>7, <2>1 DEF Employed, Dispatch, ProcessOnLoop, Handle
  <2>3. \A t \in Threads : t[1] = w \/ thread'[t] = thread[t]
    <3>1. \E i \in Loop..Concurrency : Handle(<<w, i>>, thread[<<w, Loop>>].body)
      BY <1>7, ConcurrencyAssumption DEF Dispatch, ProcessOnLoop, Loop, Slots
    <3> QED BY <1>0, <3>1 DEF Handle, TypeOK
  <2> QED BY <1>1, <2>2, <2>3
<1>8. ASSUME NEW t \in Threads, HandlerReturns(t) \/ HandlerPanics(t) \/ QueueReplies(t)
      PROVE  Single' /\ Employed'
  <2>1. thread[t] # Idle /\ phase' = phase
    BY <1>8 DEF HandlerReturns, HandlerSucceeds, HandlerFailsForGood, HandlerFails,
                DropExhausted, LeaveForReaper, Retry, HandlerPanics, QueueReplies, Ack, AckFails,
                RequeueRemove, RequeueRemoveFails, RequeuePush, RequeuePushFails, Idle
  <2>2. \A u \in Threads : u = t \/ thread'[u] = thread[u]
    BY <1>0, <1>8
       DEF HandlerReturns, HandlerSucceeds, HandlerFailsForGood, HandlerFails,
           DropExhausted, LeaveForReaper, Retry, HandlerPanics, QueueReplies, Ack, AckFails,
           RequeueRemove, RequeueRemoveFails, RequeuePush, RequeuePushFails, Become, Release, TypeOK
  <2> QED BY <1>1, <2>1, <2>2
<1>9. ASSUME NEW w \in Workers, Exit(w) \/ Kill(w) PROVE Single' /\ Employed'
  <2>1. phase' = [phase EXCEPT ![w] = "down"]
    BY <1>9 DEF Exit, Kill
  <2>2. \A t \in Threads : thread'[t] # Idle => t[1] # w /\ thread'[t] = thread[t]
    BY <1>9 DEF Exit, Kill
  <2> QED BY <1>0, <2>1, <2>2 DEF Single, Employed, Live, TypeOK
<1>10. CASE UNCHANGED vars
  BY <1>1, <1>10 DEF vars
<1> QED BY <1>2, <1>3, <1>4, <1>5, <1>6, <1>7, <1>8, <1>9, <1>10 DEF Next, LoopStep

(* While the only worker reaps, nobody has a job in hand. *)
LEMMA ReaperIsAlone ==
    ASSUME OneInv, NEW w \in Workers, phase[w] = "reaping"
    PROVE  \A t \in Threads : thread[t] = Idle
<1>1. \A v \in Live : v = w
  BY DEF OneInv, Single, Live
<1> QED BY <1>1, ThreadFacts DEF OneInv, IInv, Employed, Live

LEMMA PlacedStep == OneInv /\ [Next]_vars => Placed'
<1> SUFFICES ASSUME OneInv, [Next]_vars PROVE PlacedIn(thread', processing')
  BY DEF Placed
<1>0. /\ TypeOK /\ PlacedIn(thread, processing)
      /\ processing \in Seq(Body) /\ pending \in Seq(Body) /\ Len(processing) \in Nat
  BY DEF OneInv, IInv, Placed, TypeOK
<1>1. ASSUME UNCHANGED processing,
             \A t \in Threads :
                 \/ thread'[t] = thread[t]
                 \/ thread'[t] = Idle
                 \/ thread'[t].pc = "pushing"
                 \/ t \in KeepersIn(thread) /\ thread'[t].body = thread[t].body
      PROVE  PlacedIn(thread', processing')
  <2>1. \A t \in KeepersIn(thread') : t \in KeepersIn(thread) /\ thread'[t].body = thread[t].body
    BY <1>1 DEF KeepersIn, Keeping, Busy, Idle
  <2> QED BY <1>0, <1>1, <2>1, PlacedStays
<1>2. ASSUME NEW j \in Jobs, Enqueue(j) PROVE PlacedIn(thread', processing')
  BY <1>0, <1>2 DEF Enqueue
<1>3. ASSUME NEW w \in Workers, Start(w) \/ ReapDone(w) \/ Sigterm(w) \/ Exit(w)
      PROVE  PlacedIn(thread', processing')
  BY <1>0, <1>3 DEF Start, ReapDone, Sigterm, Exit, redis
<1>4. ASSUME NEW w \in Workers, ReapOrphan(w) PROVE PlacedIn(thread', processing')
  <2>1. KeepersIn(thread') = {}
    BY <1>4, ReaperIsAlone DEF ReapOrphan, KeepersIn, Keeping, Busy, Idle
  <2> QED BY <2>1, PlacedByNobody
<1>5. ASSUME NEW w \in Workers, DequeueReplyLost(w) PROVE PlacedIn(thread', processing')
  <2>1. processing' = Append(processing, Head(pending)) /\ thread' = thread /\ Head(pending) \in Body
    BY <1>0, <1>5, PopProperties DEF DequeueReplyLost
  <2>2. /\ processing' \in Seq(Body) /\ Len(processing) <= Len(processing')
        /\ \A i \in 1..Len(processing) : processing'[i] = processing[i]
    BY <1>0, <2>1, AppendProperties
  <2> QED BY <1>0, <2>1, <2>2, PlacedStays
<1>6. ASSUME NEW w \in Workers, Dequeue(w) PROVE PlacedIn(thread', processing')
  <2> DEFINE t == <<w, Loop>>
  <2>1. t \in Threads /\ thread[t] = Idle
    BY <1>6, ConcurrencyAssumption DEF Dequeue, Threads, Loop
  <2>2. Head(pending) \in Body /\ processing' = Append(processing, Head(pending))
    BY <1>0, <1>6, PopProperties DEF Dequeue
  <2>3. thread'[t].body = Head(pending) /\ \A u \in Threads : u # t => thread'[u] = thread[u]
    BY <1>0, <1>6, <2>1 DEF Dequeue, TypeOK
  <2>4. /\ t \notin KeepersIn(thread)
        /\ \A u \in KeepersIn(thread') : u # t =>
               u \in KeepersIn(thread) /\ thread'[u].body = thread[u].body
    BY <2>1, <2>3 DEF KeepersIn, Keeping, Busy, Idle
  <2> QED BY <1>0, <2>1, <2>2, <2>3, <2>4, PlacedTakes
<1>7. ASSUME NEW w \in Workers, NEW i \in Loop..Concurrency,
             thread[<<w, Loop>>].pc = "held", thread[<<w, i>>] = Idle \/ i = Loop,
             Handle(<<w, i>>, thread[<<w, Loop>>].body)
      PROVE  PlacedIn(thread', processing')
  <2> DEFINE l == <<w, Loop>>
             t == <<w, i>>
             g == [u \in KeepersIn(thread') |-> IF u = t THEN l ELSE u]
  <2>1. l \in Threads /\ t \in Threads /\ processing' = processing
    BY <1>7, ConcurrencyAssumption DEF Threads, Loop, Handle, redis
  <2>2. /\ thread'[t].body = thread[l].body
        /\ i # Loop => thread'[l] = Idle
        /\ \A u \in Threads : u # t /\ u # l => thread'[u] = thread[u]
    BY <1>0, <1>7, <2>1 DEF Handle, TypeOK
  <2>3. ASSUME NEW u \in KeepersIn(thread')
        PROVE  /\ u = t \/ u # l
               /\ g[u] \in KeepersIn(thread) /\ thread'[u].body = thread[g[u]].body
    BY <1>7, <2>1, <2>2 DEF KeepersIn, Keeping, Busy, Idle
  <2>4. g \in [KeepersIn(thread') -> KeepersIn(thread)]
    BY <2>3
  <2>5. \A u, v \in KeepersIn(thread') : g[u] = g[v] => u = v
    BY <2>3
  <2> HIDE DEF g
  <2>6. \A u \in KeepersIn(thread') : thread'[u].body = thread[g[u]].body
    BY <2>3
  <2>7. /\ processing \in Seq(Body) /\ processing' \in Seq(Body)
        /\ Len(processing) <= Len(processing')
        /\ \A k \in 1..Len(processing) : processing'[k] = processing[k]
    BY <1>0, <2>1
  <2>8. PlacedIn(thread, processing)
    BY <1>0
  <2> QED BY <2>4, <2>5, <2>6, <2>7, <2>8, PlacedMoves
<1>8. ASSUME NEW w \in Workers, Dispatch(w) \/ ProcessOnLoop(w)
      PROVE  PlacedIn(thread', processing')
  <2>1. Loop \in Loop..Concurrency /\ Slots \subseteq Loop..Concurrency
    BY ConcurrencyAssumption DEF Loop, Slots
  <2> QED BY <1>7, <1>8, <2>1 DEF Dispatch, ProcessOnLoop
<1>9. ASSUME NEW t \in Threads, HandlerReturns(t) \/ HandlerPanics(t)
      PROVE  PlacedIn(thread', processing')
  <2>1. thread[t].pc = "handling" /\ UNCHANGED processing
    BY <1>9 DEF HandlerReturns, HandlerSucceeds, HandlerFailsForGood, HandlerFails,
                DropExhausted, LeaveForReaper, Retry, HandlerPanics, redis
  <2>2. t \in KeepersIn(thread) /\ thread[t] \in Hand
    BY <1>0, <2>1, ThreadFacts DEF KeepersIn, Keeping, Busy, TypeOK
  <2>3. Release(t) \/ \E pc \in Busy : Become(t, pc)
    BY <1>9 DEF HandlerReturns, HandlerSucceeds, HandlerFailsForGood, HandlerFails,
                DropExhausted, LeaveForReaper, Retry, HandlerPanics, Busy
  <2>4. \A u \in Threads : u # t => thread'[u] = thread[u]
    BY <1>0, <2>3 DEF Become, Release, TypeOK
  <2>5. thread'[t] = Idle \/ thread'[t].body = thread[t].body
    BY <1>0, <2>2, <2>3 DEF Become, Release, TypeOK, Hand
  <2> QED BY <1>1, <2>1, <2>2, <2>4, <2>5
<1>10. ASSUME NEW t \in Threads, QueueReplies(t) PROVE PlacedIn(thread', processing')
  <2>1. \A u \in Threads : u # t => thread'[u] = thread[u]
    BY <1>0, <1>10 DEF QueueReplies, Ack, AckFails, RequeueRemove, RequeueRemoveFails,
                RequeuePush, RequeuePushFails, Become, Release, TypeOK
  <2>2. thread[t] \in Hand
    BY <1>0, <1>10, ThreadFacts
       DEF QueueReplies, Ack, AckFails, RequeueRemove, RequeueRemoveFails,
           RequeuePush, RequeuePushFails, Busy, TypeOK
  <2>3. thread'[t] = Idle \/ thread'[t].pc = "pushing"
    BY <1>0, <1>10, <2>2 DEF QueueReplies, Ack, AckFails, RequeueRemove, RequeueRemoveFails,
                RequeuePush, RequeuePushFails, Become, Release, TypeOK, Hand
  <2>4. CASE Ack(t) \/ RequeueRemove(t)
    <3>1. t \in KeepersIn(thread) /\ processing' = LRem(processing, thread[t].body)
      BY <2>4 DEF Ack, RequeueRemove, KeepersIn, Keeping, Busy
    <3>2. /\ t \notin KeepersIn(thread')
          /\ \A u \in KeepersIn(thread') :
                u \in KeepersIn(thread) /\ thread'[u].body = thread[u].body
      BY <2>1, <2>3 DEF KeepersIn, Keeping, Busy, Idle
    <3> QED BY <1>0, <2>2, <3>1, <3>2, PlacedLetsGo DEF Hand
  <2>5. CASE AckFails(t) \/ RequeueRemoveFails(t) \/ RequeuePush(t) \/ RequeuePushFails(t)
    <3>1. UNCHANGED processing
      BY <2>5 DEF AckFails, RequeueRemoveFails, RequeuePush, RequeuePushFails, redis
    <3> QED BY <1>1, <2>1, <2>3, <3>1
  <2> QED BY <1>10, <2>4, <2>5 DEF QueueReplies
<1>11. ASSUME NEW w \in Workers, Kill(w) PROVE PlacedIn(thread', processing')
  BY <1>1, <1>11 DEF Kill, redis
<1>12. CASE UNCHANGED vars
  BY <1>0, <1>12 DEF vars, redis
<1> QED BY <1>2, <1>3, <1>4, <1>5, <1>6, <1>8, <1>9, <1>10, <1>11, <1>12 DEF Next, LoopStep

LEMMA OneInvariant == OneWorker /\ Spec => []OneInv
<1>1. OneInv /\ [Next]_vars => OneInv'
  BY TypeStep, AccountedStep, SingleStep, PlacedStep DEF OneInv, IInv, OneWorker
<1> QED BY OneInit, <1>1, PTL DEF Spec
-----------------------------------------------------------------------------
(* Which jobs are on a list after each of the three Redis commands. *)
LEMMA OnPushed ==
    ASSUME NEW list \in Seq(Body), NEW body \in Body
    PROVE  \A j : On(Append(list, body), j) <=> On(list, j) \/ j = body.job
<1>1. /\ Len(Append(list, body)) = Len(list) + 1 /\ Len(list) \in Nat
      /\ Append(list, body)[Len(list) + 1] = body
      /\ \A i \in 1..Len(list) : Append(list, body)[i] = list[i]
  BY AppendProperties
<1> QED BY <1>1, PushProperties DEF On

LEMMA OnPopped ==
    ASSUME NEW list \in Seq(Body), list # << >>
    PROVE  \A j : On(list, j) <=> On(Tail(list), j) \/ j = Head(list).job
<1>1. /\ Len(Tail(list)) = Len(list) - 1 /\ Len(list) \in Nat \ {0}
      /\ \A i \in 1..Len(Tail(list)) : Tail(list)[i] = list[i + 1]
      /\ Head(list) = list[1]
  BY HeadTailProperties
<1> QED BY <1>1, PopProperties DEF On

LEMMA OnRemoved ==
    ASSUME NEW list \in Seq(Body), NEW body \in Body
    PROVE  \A j : /\ On(LRem(list, body), j) => On(list, j)
                  /\ j # body.job => (On(LRem(list, body), j) <=> On(list, j))
<1>1. ASSUME NEW j, On(LRem(list, body), j) PROVE On(list, j)
  <2>1. CASE \A k \in 1..Len(list) : list[k] # body
    BY <1>1, <2>1 DEF LRem
  <2>2. ASSUME NEW k \in 1..Len(list), list[k] = body PROVE On(list, j)
    <3>1. PICK p \in 1..Len(list) :
             /\ Len(LRem(list, body)) = Len(list) - 1
             /\ \A i \in 1..(Len(list) - 1) :
                   LRem(list, body)[i] = IF i < p THEN list[i] ELSE list[i + 1]
      BY <2>2, LRemShape
    <3>2. PICK i \in 1..(Len(list) - 1) : LRem(list, body)[i].job = j
      BY <1>1, <3>1 DEF On
    <3>3. i \in 1..Len(list) /\ i + 1 \in 1..Len(list)
      BY <2>2
    <3> QED BY <3>1, <3>2, <3>3 DEF On
  <2> QED BY <2>1, <2>2
<1> QED BY <1>1, LRemProperties

LEMMA KeptInRedis ==
    ASSUME OneInv, NEW t \in Threads, thread[t].pc \in Keeping
    PROVE  /\ thread[t].body.job \in Jobs /\ InRedis(thread[t].body.job)
           /\ \E i \in 1..Len(processing) : processing[i] = thread[t].body
<1>1. PICK f : OwnBody(thread, processing, f)
  BY DEF OneInv, Placed, PlacedIn
<1>2. f[t] \in 1..Len(processing) /\ processing[f[t]] = thread[t].body
  BY <1>1 DEF OwnBody, KeepersIn
<1>3. thread[t].body \in Body
  BY ThreadFacts DEF OneInv, IInv, Keeping
<1> QED BY <1>2, <1>3 DEF InRedis, On, Body

LEMMA RefinesStep == OneInv /\ [Next]_vars => [Abstract!Next]_(Abstract!vars)
<1> SUFFICES ASSUME OneInv, [Next]_vars
             PROVE  Abstract!Next \/ UNCHANGED Abstract!vars
  OBVIOUS
<1> DEFINE Same(j) == /\ InRedis(j)' <=> InRedis(j)
                      /\ Pushing(j)' <=> Pushing(j)
                      /\ verdict'[j] # "none" <=> verdict[j] # "none"
<1>0. TypeOK /\ processing \in Seq(Body) /\ pending \in Seq(Body) /\ HandKnows
  BY DEF OneInv, IInv, TypeOK
<1>1. ASSUME \A j \in Jobs : Same(j) PROVE UNCHANGED Abstract!vars
  BY <1>1 DEF Abstract!vars, Owed, Moving, Judged
<1>2. ASSUME \A u \in Threads : \/ thread'[u] = thread[u]
                                \/ thread[u].pc # "pushing" /\ thread'[u].pc # "pushing"
      PROVE  \A j : Pushing(j)' <=> Pushing(j)
  BY <1>2 DEF Pushing
<1>3. ASSUME NEW j \in Jobs, Enqueue(j) PROVE Abstract!Next
  <2>1. [job |-> j, attempt |-> 0] \in Body
    BY RetriesAssumption DEF Body
  <2>2. \A k : InRedis(k)' <=> InRedis(k) \/ k = j
    BY <1>0, <1>3, <2>1, OnPushed DEF Enqueue, InRedis
  <2>3. \A k : Pushing(k)' <=> Pushing(k)
    BY <1>3 DEF Enqueue, Pushing
  <2>4. Abstract!Accept(j)
    BY <1>3, <2>2, <2>3 DEF Enqueue, Abstract!Accept, Owed, Moving, Judged
  <2> QED BY <2>4 DEF Abstract!Next
<1>4. ASSUME UNCHANGED <<redis, thread, verdict>> PROVE UNCHANGED Abstract!vars
  <2>1. \A j : Same(j)
    BY <1>4 DEF redis, InRedis, On, Pushing
  <2> QED BY <1>1, <2>1
<1>5. ASSUME NEW w \in Workers, Start(w) \/ ReapDone(w) \/ Sigterm(w) \/ Exit(w)
      PROVE  UNCHANGED Abstract!vars
  BY <1>4, <1>5 DEF Start, ReapDone, Sigterm, Exit, history
<1>6. ASSUME NEW w \in Workers, ReapOrphan(w) PROVE UNCHANGED Abstract!vars
  <2>1. Head(processing) \in Body
    BY <1>0, <1>6, PopProperties DEF ReapOrphan
  <2>2. \A j : InRedis(j)' <=> InRedis(j)
    BY <1>0, <1>6, <2>1, OnPushed, OnPopped DEF ReapOrphan, InRedis
  <2> QED BY <1>1, <1>6, <2>2 DEF ReapOrphan, Pushing
<1>7. ASSUME NEW w \in Workers, Dequeue(w) \/ DequeueReplyLost(w)
      PROVE  UNCHANGED Abstract!vars
  <2>1. /\ pending # << >> /\ pending' = Tail(pending)
        /\ processing' = Append(processing, Head(pending)) /\ verdict' = verdict
    BY <1>7 DEF Dequeue, DequeueReplyLost, history
  <2>2. Head(pending) \in Body
    BY <1>0, <2>1, PopProperties
  <2>3. \A j : InRedis(j)' <=> InRedis(j)
    BY <1>0, <2>1, <2>2, OnPushed, OnPopped DEF InRedis
  <2>4. \A j : Pushing(j)' <=> Pushing(j)
    <3>1. CASE Dequeue(w)
      <4>1. \A u \in Threads : u # <<w, Loop>> => thread'[u] = thread[u]
        BY <1>0, <3>1 DEF Dequeue, TypeOK
      <4>2. <<w, Loop>> \in Threads => thread[<<w, Loop>>].pc # "pushing"
                                       /\ thread'[<<w, Loop>>].pc # "pushing"
        BY <1>0, <3>1 DEF Dequeue, TypeOK, Idle
      <4> QED BY <1>2, <4>1, <4>2
    <3>2. CASE DequeueReplyLost(w)
      BY <3>2 DEF DequeueReplyLost, Pushing
    <3> QED BY <1>7, <3>1, <3>2
  <2> QED BY <1>1, <2>1, <2>3, <2>4
<1>8. ASSUME NEW w \in Workers, Dispatch(w) \/ ProcessOnLoop(w)
      PROVE  UNCHANGED Abstract!vars
  <2>1. PICK i \in Loop..Concurrency :
           /\ thread[<<w, i>>] = Idle \/ i = Loop
           /\ Handle(<<w, i>>, thread[<<w, Loop>>].body)
    BY <1>8, ConcurrencyAssumption DEF Dispatch, ProcessOnLoop, Loop, Slots
  <2>2. <<w, Loop>> \in Threads /\ <<w, i>> \in Threads
    BY ConcurrencyAssumption DEF Threads, Loop
  <2>3. thread[<<w, Loop>>].pc # "pushing" /\ thread[<<w, i>>].pc # "pushing"
    BY <1>8, <2>1 DEF Dispatch, ProcessOnLoop, Idle
  <2>4. \A u \in Threads : u # <<w, Loop>> /\ u # <<w, i>> => thread'[u] = thread[u]
    BY <1>0, <2>1 DEF Handle, TypeOK
  <2>5. thread'[<<w, Loop>>].pc # "pushing" /\ thread'[<<w, i>>].pc # "pushing"
    BY <1>0, <2>1, <2>2 DEF Handle, TypeOK, Idle
  <2>6. \A j : Pushing(j)' <=> Pushing(j)
    BY <1>2, <2>3, <2>4, <2>5
  <2> QED BY <1>1, <2>1, <2>6 DEF Handle, redis, InRedis, On
<1>9. ASSUME NEW t \in Threads, thread[t].pc \in Keeping, UNCHANGED <<redis, verdict>>,
             Release(t) \/ Become(t, "removing")
      PROVE  UNCHANGED Abstract!vars
  <2>1. thread[t] \in Hand
    BY <1>0, <1>9, ThreadFacts DEF Keeping, TypeOK
  <2>2. \A u \in Threads : u # t => thread'[u] = thread[u]
    BY <1>0, <1>9 DEF Release, Become, TypeOK
  <2>3. thread[t].pc # "pushing" /\ thread'[t].pc # "pushing"
    BY <1>0, <1>9, <2>1 DEF Release, Become, TypeOK, Hand, Idle, Keeping
  <2>4. \A j : Pushing(j)' <=> Pushing(j)
    BY <1>2, <2>2, <2>3
  <2> QED BY <1>1, <1>9, <2>4 DEF redis, InRedis, On
<1>10. ASSUME NEW t \in Threads, NEW v \in Verdicts \ {"none"}, thread[t].pc = "handling",
              Become(t, "acking") \/ Become(t, "dropping"), Judge(t, v), UNCHANGED redis
       PROVE  Abstract!Next
  <2> DEFINE mine == thread[t].body.job
  <2>1. mine \in Jobs /\ InRedis(mine) /\ thread[t] \in Hand
    BY <1>0, <1>10, KeptInRedis, ThreadFacts DEF Keeping, Busy, TypeOK
  <2>2. \A u \in Threads : u # t => thread'[u] = thread[u]
    BY <1>0, <1>10 DEF Become, TypeOK
  <2>3. thread'[t].pc # "pushing"
    BY <1>0, <1>10, <2>1 DEF Become, TypeOK, Hand
  <2>4. \A j : Pushing(j)' <=> Pushing(j)
    BY <1>2, <1>10, <2>2, <2>3
  <2>5. \A j : InRedis(j)' <=> InRedis(j)
    BY <1>10 DEF redis, InRedis, On
  <2>6. verdict'[mine] # "none" /\ \A j \in Jobs : j # mine => verdict'[j] = verdict[j]
    BY <1>0, <1>10, <2>1 DEF Judge, TypeOK
  <2>7. Abstract!Conclude(mine)
    BY <2>1, <2>4, <2>5, <2>6 DEF Abstract!Conclude, Owed, Moving, Judged
  <2> QED BY <2>1, <2>7 DEF Abstract!Next
<1>11. ASSUME NEW t \in Threads, HandlerReturns(t) \/ HandlerPanics(t)
       PROVE  Abstract!Next \/ UNCHANGED Abstract!vars
  <2>1. CASE HandlerSucceeds(t)
    BY <1>10, <2>1 DEF HandlerSucceeds, Verdicts
  <2>2. CASE HandlerFailsForGood(t)
    BY <1>10, <2>2 DEF HandlerFailsForGood, Verdicts
  <2>3. CASE thread[t].pc = "handling" /\ DropExhausted(t)
    BY <1>10, <2>3 DEF DropExhausted, Verdicts
  <2>4. CASE thread[t].pc = "handling" /\ (LeaveForReaper(t) \/ Retry(t))
    BY <1>9, <2>4 DEF LeaveForReaper, Retry, history, Keeping, Busy
  <2>5. CASE HandlerPanics(t)
    BY <1>9, <2>5 DEF HandlerPanics, history, Keeping, Busy
  <2> QED BY <1>11, <2>1, <2>2, <2>3, <2>4, <2>5 DEF HandlerReturns, HandlerFails
<1>12. ASSUME NEW t \in Threads, QueueReplies(t)
       PROVE  Abstract!Next \/ UNCHANGED Abstract!vars
  <2>0. thread[t].body.job \in Jobs
    BY <1>0, <1>12, ThreadFacts
       DEF QueueReplies, Ack, AckFails, RequeueRemove, RequeueRemoveFails,
           RequeuePush, RequeuePushFails, Busy, Body
  <2> PICK mine \in Jobs : mine = thread[t].body.job
    BY <2>0
  <2>1. thread[t] \in Hand /\ mine \in Jobs /\ thread[t].body \in Body /\ verdict' = verdict
    BY <1>0, <1>12, ThreadFacts
       DEF QueueReplies, Ack, AckFails, RequeueRemove, RequeueRemoveFails,
           RequeuePush, RequeuePushFails, Busy, TypeOK, Body, history
  <2>2. \A u \in Threads : u # t => thread'[u] = thread[u]
    BY <1>0, <1>12 DEF QueueReplies, Ack, AckFails, RequeueRemove, RequeueRemoveFails,
                RequeuePush, RequeuePushFails, Become, Release, TypeOK
  <2>3. \A k : k # mine => (Pushing(k)' <=> Pushing(k))
    <3>1. ASSUME NEW k, k # mine, thread'[t].pc = "pushing" PROVE thread'[t].body.job # k
      <4>1. ~ Release(t)
        BY <1>0, <3>1 DEF Release, TypeOK, Idle
      <4>2. Become(t, "pushing")
        BY <1>12, <4>1 DEF QueueReplies, Ack, AckFails, RequeueRemove, RequeueRemoveFails,
                           RequeuePush, RequeuePushFails
      <4> QED BY <1>0, <2>1, <3>1, <4>2 DEF Become, TypeOK, Hand
    <3> QED BY <2>2, <3>1 DEF Pushing
  <2>4. \A k : /\ On(LRem(processing, thread[t].body), k) => On(processing, k)
               /\ k # mine => (On(LRem(processing, thread[t].body), k) <=> On(processing, k))
    BY <1>0, <2>1, OnRemoved
  <2>5. thread[t].pc \in Keeping => InRedis(mine)
    BY KeptInRedis
  <2>6. thread[t].pc = "pushing" => Pushing(mine)
    BY DEF Pushing
  <2>7. Become(t, "pushing") => Pushing(mine)'
    BY <1>0, <2>1 DEF Become, TypeOK, Hand, Pushing
  <2>8. CASE Ack(t)
    <3>1. verdict[mine] # "none" /\ InRedis(mine)
      BY <1>0, <2>5, <2>8 DEF Ack, HandKnows, Keeping, Busy
    <3>2. \A k : InRedis(k)' => InRedis(k)
      BY <2>4, <2>8 DEF Ack, InRedis
    <3>3. \A k : k # mine => (InRedis(k)' <=> InRedis(k))
      BY <2>4, <2>8 DEF Ack, InRedis
    <3>4. \A k : Pushing(k)' <=> Pushing(k)
      <4>1. thread[t].pc # "pushing" /\ thread'[t].pc # "pushing"
        BY <1>0, <2>8 DEF Ack, Release, TypeOK, Idle
      <4> QED BY <1>2, <2>2, <4>1
    <3>5. CASE InRedis(mine)' \/ Pushing(mine)
      <4>1. Owed' = Owed /\ Moving' = Moving /\ Judged' = Judged
        BY <2>1, <3>1, <3>2, <3>3, <3>4, <3>5 DEF Owed, Moving, Judged
      <4> QED BY <4>1 DEF Abstract!vars
    <3>6. CASE ~InRedis(mine)' /\ ~Pushing(mine)
      <4>1. Abstract!Retire(mine)
        BY <2>1, <3>1, <3>2, <3>3, <3>4, <3>6 DEF Abstract!Retire, Owed, Moving, Judged
      <4> QED BY <2>1, <4>1 DEF Abstract!Next
    <3> QED BY <3>5, <3>6
  <2>9. CASE AckFails(t)
    BY <1>9, <2>9 DEF AckFails, history, Keeping, Busy
  <2>10. CASE RequeueRemove(t) \/ RequeueRemoveFails(t)
    <3>1. InRedis(mine) /\ Pushing(mine)'
      BY <2>5, <2>7, <2>10 DEF RequeueRemove, RequeueRemoveFails, Keeping, Busy
    <3>2. \A k : k # mine => (InRedis(k)' <=> InRedis(k))
      <4>1. CASE RequeueRemove(t)
        BY <2>4, <4>1 DEF RequeueRemove, InRedis
      <4>2. CASE RequeueRemoveFails(t)
        BY <4>2 DEF RequeueRemoveFails, InRedis, On, redis
      <4> QED BY <2>10, <4>1, <4>2
    <3>3. Abstract!Lift(mine)
      BY <2>1, <2>3, <3>1, <3>2 DEF Abstract!Lift, Owed, Moving, Judged
    <3> QED BY <2>1, <3>3 DEF Abstract!Next
  <2>11. CASE RequeuePush(t)
    <3> DEFINE next == [thread[t].body EXCEPT !.attempt = @ + 1]
    <3>1. next \in Body /\ next.job = mine
      <4>1. thread[t].body.attempt < MaxRetries
        BY <1>0, <2>11 DEF RequeuePush, HandKnows
      <4> QED BY <2>1, <4>1, RetriesAssumption DEF Body
    <3>2. \A k : InRedis(k)' <=> InRedis(k) \/ k = mine
      <4>1. pending' = Append(pending, next) /\ processing' = processing
        BY <2>11 DEF RequeuePush
      <4> QED BY <1>0, <3>1, <4>1, OnPushed DEF InRedis
    <3>3. Pushing(mine)
      BY <2>6, <2>11 DEF RequeuePush
    <3>4. Owed' = Owed /\ Judged' = Judged
      BY <2>1, <2>3, <3>2, <3>3 DEF Owed, Moving, Judged
    <3>5. CASE Pushing(mine)'
      BY <2>1, <2>3, <3>3, <3>4, <3>5 DEF Abstract!vars, Moving
    <3>6. CASE ~Pushing(mine)'
      <4>1. Abstract!Land(mine)
        BY <2>1, <2>3, <3>3, <3>4, <3>6 DEF Abstract!Land, Moving
      <4> QED BY <2>1, <4>1 DEF Abstract!Next
    <3> QED BY <3>5, <3>6
  <2>12. CASE RequeuePushFails(t)
    <3>1. \A k : InRedis(k)' <=> InRedis(k)
      BY <2>12 DEF RequeuePushFails, redis, InRedis, On
    <3>2. Pushing(mine)
      BY <2>6, <2>12 DEF RequeuePushFails
    <3>3. CASE Pushing(mine)'
      BY <1>1, <2>1, <2>3, <3>1, <3>2, <3>3
    <3>4. CASE ~Pushing(mine)'
      <4> DEFINE lost == IF InRedis(mine) THEN {} ELSE {mine}
      <4>1. Abstract!Cut({mine}, lost)
        BY <2>1, <2>3, <3>1, <3>2, <3>4 DEF Abstract!Cut, Owed, Moving, Judged
      <4>2. {mine} \in SUBSET Moving /\ lost \in SUBSET {mine}
        BY <2>1, <3>2 DEF Moving
      <4> QED BY <4>1, <4>2 DEF Abstract!Next
    <3> QED BY <3>3, <3>4
  <2> QED BY <1>12, <2>8, <2>9, <2>10, <2>11, <2>12 DEF QueueReplies
<1>13. ASSUME NEW w \in Workers, Kill(w) PROVE Abstract!Next
  <2>1. \A k : InRedis(k)' <=> InRedis(k)
    BY <1>13 DEF Kill, redis, InRedis, On
  <2>2. \A k : Pushing(k)' => Pushing(k)
    BY <1>13 DEF Kill, Pushing, Idle
  <2> DEFINE stopped == Moving \ Moving'
             lost == Owed \ Owed'
  <2>3. Abstract!Cut(stopped, lost)
    BY <1>13, <2>1, <2>2 DEF Kill, Abstract!Cut, Owed, Moving, Judged
  <2>4. stopped \in SUBSET Moving /\ lost \in SUBSET stopped
    BY <2>1 DEF Owed, Moving
  <2> QED BY <2>3, <2>4 DEF Abstract!Next
<1>14. CASE UNCHANGED vars
  BY <1>4, <1>14 DEF vars, history
<1> QED BY <1>3, <1>5, <1>6, <1>7, <1>8, <1>11, <1>12, <1>13, <1>14 DEF Next, LoopStep

(* queue.go:108-114: a worker and its queue keep the promise of AtLeastOnce, for *)
(* any number of jobs, slots, retries and disturbances: a job leaves Redis   *)
(* only after a verdict or inside the two commands of a Requeue.             *)
THEOREM ImplementsAtLeastOnce == OneWorker /\ Spec => KeepsPromise
<1>1. Init => Abstract!Init
  BY DEF Init, Abstract!Init, Owed, Moving, Judged, InRedis, On, Pushing, Idle
<1>2. OneInv /\ [Next]_vars => [Abstract!Next]_(Abstract!vars)
  BY RefinesStep
<1> QED BY <1>1, <1>2, OneInvariant, PTL DEF Spec, KeepsPromise, Abstract!Spec
-----------------------------------------------------------------------------
(* What is on a list, as a set, and what the Redis commands make of it. *)
Items(list) == {list[i] : i \in 1..Len(list)}
Once(list, j) == \A i, k \in 1..Len(list) : list[i].job = j /\ list[k].job = j => i = k

LEMMA OnItems ==
    ASSUME NEW list, NEW j
    PROVE  On(list, j) <=> \E b \in Items(list) : b.job = j
BY DEF On, Items

LEMMA ItemsPushed ==
    ASSUME NEW list \in Seq(Body), NEW body \in Body
    PROVE  /\ Items(Append(list, body)) = Items(list) \cup {body}
           /\ \A j : Once(list, j) /\ (j = body.job => ~On(list, j)) => Once(Append(list, body), j)
<1>1. /\ Len(Append(list, body)) = Len(list) + 1 /\ Len(list) \in Nat
      /\ Append(list, body)[Len(list) + 1] = body
      /\ \A i \in 1..Len(list) : Append(list, body)[i] = list[i]
  BY AppendProperties
<1>2. \A i \in 1..Len(Append(list, body)) : i \in 1..Len(list) \/ i = Len(list) + 1
  BY <1>1
<1>3. \A i \in 1..Len(list) : i \in 1..Len(Append(list, body))
  BY <1>1
<1>4. Items(Append(list, body)) = Items(list) \cup {body}
  <2>1. Items(Append(list, body)) \subseteq Items(list) \cup {body}
    BY <1>1, <1>2 DEF Items
  <2>2. Len(list) + 1 \in 1..Len(Append(list, body))
    BY <1>1
  <2>3. body \in Items(Append(list, body))
    BY <1>1, <2>2 DEF Items
  <2>4. Items(list) \subseteq Items(Append(list, body))
    BY <1>1, <1>3 DEF Items
  <2> QED BY <2>1, <2>3, <2>4
<1>5. ASSUME NEW j, Once(list, j), j = body.job => ~On(list, j),
             NEW i \in 1..Len(Append(list, body)), NEW k \in 1..Len(Append(list, body)),
             Append(list, body)[i].job = j, Append(list, body)[k].job = j
      PROVE  i = k
  <2>1. CASE i \in 1..Len(list) /\ k \in 1..Len(list)
    BY <1>1, <1>5, <2>1 DEF Once
  <2>2. CASE i = Len(list) + 1 \/ k = Len(list) + 1
    <3>1. j = body.job
      BY <1>1, <1>5, <2>2
    <3>2. i \notin 1..Len(list) /\ k \notin 1..Len(list)
      BY <1>1, <1>5, <3>1 DEF On
    <3> QED BY <1>2, <3>2
  <2> QED BY <1>2, <2>1, <2>2
<1> QED BY <1>4, <1>5 DEF Once

LEMMA ItemsPopped ==
    ASSUME NEW list \in Seq(Body), list # << >>
    PROVE  /\ Head(list) \in Items(list) /\ Items(Tail(list)) \subseteq Items(list)
           /\ \A j : Once(list, j) => /\ Once(Tail(list), j)
                                      /\ j = Head(list).job => ~On(Tail(list), j)
<1>1. /\ Len(Tail(list)) = Len(list) - 1 /\ Len(list) \in Nat \ {0}
      /\ \A i \in 1..Len(Tail(list)) : Tail(list)[i] = list[i + 1]
      /\ Head(list) = list[1]
  BY HeadTailProperties
<1>2. 1 \in 1..Len(list)
  BY <1>1
<1>3. ASSUME NEW i \in 1..Len(Tail(list))
      PROVE  i + 1 \in 1..Len(list) /\ i + 1 # 1 /\ Tail(list)[i] = list[i + 1]
  BY <1>1
<1>4. Head(list) \in Items(list) /\ Items(Tail(list)) \subseteq Items(list)
  BY <1>1, <1>2, <1>3 DEF Items
<1>5. ASSUME NEW j, Once(list, j) PROVE Once(Tail(list), j)
  <2> SUFFICES ASSUME NEW i \in 1..Len(Tail(list)), NEW k \in 1..Len(Tail(list)),
                      Tail(list)[i].job = j, Tail(list)[k].job = j
               PROVE  i = k
    BY DEF Once
  <2>1. i + 1 = k + 1
    BY <1>3, <1>5 DEF Once
  <2> QED BY <1>1, <2>1
<1>6. ASSUME NEW j, Once(list, j), j = Head(list).job PROVE ~On(Tail(list), j)
  BY <1>1, <1>2, <1>3, <1>6 DEF Once, On
<1> QED BY <1>4, <1>5, <1>6

LEMMA ItemsRemoved ==
    ASSUME NEW list \in Seq(Body), NEW body \in Body
    PROVE  /\ Items(LRem(list, body)) \subseteq Items(list)
           /\ \A j : Once(list, j) =>
                 /\ Once(LRem(list, body), j)
                 /\ j = body.job /\ body \in Items(list) => ~On(LRem(list, body), j)
<1>1. CASE body \notin Items(list)
  <2>1. LRem(list, body) = list
    BY <1>1 DEF LRem, Items
  <2> QED BY <1>1, <2>1
<1>2. CASE body \in Items(list)
  <2> DEFINE rest == LRem(list, body)
  <2>1. PICK k \in 1..Len(list) : list[k] = body
    BY <1>2 DEF Items
  <2>2. PICK p \in 1..Len(list) :
           /\ list[p] = body /\ Len(rest) = Len(list) - 1
           /\ \A i \in 1..(Len(list) - 1) : rest[i] = IF i < p THEN list[i] ELSE list[i + 1]
    BY <2>1, LRemShape
  <2> HIDE DEF rest
  <2>3. Len(list) \in Nat
    OBVIOUS
  <2> DEFINE from(i) == IF i < p THEN i ELSE i + 1
  <2>4. ASSUME NEW i \in 1..Len(rest)
        PROVE  from(i) \in 1..Len(list) /\ from(i) # p /\ rest[i] = list[from(i)]
    BY <2>2, <2>3
  <2>5. ASSUME NEW i \in 1..Len(rest), NEW m \in 1..Len(rest), from(i) = from(m) PROVE i = m
    BY <2>2, <2>3, <2>5
  <2> HIDE DEF from
  <2>6. Items(rest) \subseteq Items(list)
    BY <2>4 DEF Items
  <2>7. ASSUME NEW j, Once(list, j) PROVE Once(rest, j)
    BY <2>4, <2>5, <2>7 DEF Once
  <2>8. ASSUME NEW j, Once(list, j), j = body.job PROVE ~On(rest, j)
    BY <2>2, <2>4, <2>8 DEF Once, On
  <2> QED BY <2>6, <2>7, <2>8 DEF rest
<1> QED BY <1>1, <1>2
-----------------------------------------------------------------------------
(* A job none of whose LREMs failed is in one place... *)
InHand(t, j) == thread[t].pc \in Busy /\ thread[t].body.job = j

Whole(j) ==
    /\ Once(pending, j) /\ Once(processing, j)
    /\ ~(On(pending, j) /\ On(processing, j))
    /\ Pushing(j) => ~InRedis(j)
    /\ \A t, u \in Threads : InHand(t, j) /\ InHand(u, j) => t = u

(* ... and its attempt counter follows its runs, up to the reaps. *)
Counted(j) ==
    /\ runs[j] <= MaxRetries + 1 + reaps[j]
    /\ \A b \in Items(pending) : b.job = j => runs[j] <= b.attempt + reaps[j]
    /\ \A b \in Items(processing) : b.job = j => runs[j] <= b.attempt + 1 + reaps[j]
    /\ \A t \in Threads : InHand(t, j) =>
          /\ runs[j] <= thread[t].body.attempt + 1 + reaps[j]
          /\ thread[t].pc = "held" => runs[j] <= thread[t].body.attempt + reaps[j]

Untouched(j) ==
    j \notin submitted => ~InRedis(j) /\ runs[j] = 0 /\ \A t \in Threads : ~InHand(t, j)

Good(j) == Whole(j) /\ Counted(j) /\ Untouched(j)
TwoInv == OneInv /\ \A j \in Jobs \ twinned : Good(j)

LEMMA TwoInit == OneWorker /\ Init => TwoInv
<1> SUFFICES ASSUME OneWorker, Init PROVE TwoInv
  OBVIOUS
<1>1. ASSUME NEW j \in Jobs PROVE Good(j)
  <2>1. /\ pending = << >> /\ processing = << >> /\ runs[j] = 0 /\ reaps[j] = 0
        /\ \A t \in Threads : ~InHand(t, j)
    BY <1>1 DEF Init, InHand, Idle, Busy
  <2>2. ~On(pending, j) /\ ~On(processing, j) /\ ~Pushing(j)
    BY <2>1 DEF On, Pushing, InHand, Busy
  <2>3. Items(pending) = {} /\ Items(processing) = {}
    BY <2>1 DEF Items
  <2>4. Whole(j)
    BY <2>1, <2>2 DEF Whole, Once
  <2>5. Counted(j)
    BY <2>1, <2>3, RetriesAssumption DEF Counted
  <2> QED BY <2>1, <2>2, <2>4, <2>5 DEF Good, Untouched, InRedis
<1> QED BY <1>1, OneInit DEF TwoInv

(* Steps at which a job at most leaves a hand. *)
LEMMA GoodStays ==
    ASSUME NEW j \in Jobs, Good(j), UNCHANGED <<redis, submitted>>,
           runs'[j] = runs[j], reaps'[j] = reaps[j],
           \A t \in Threads : InHand(t, j)' =>
              /\ InHand(t, j) /\ thread'[t].body = thread[t].body
              /\ thread'[t].pc \in {"held", "pushing"} => thread'[t].pc = thread[t].pc
    PROVE  Good(j)'
<1>1. /\ UNCHANGED <<pending, processing, submitted>>
      /\ InRedis(j)' <=> InRedis(j)
  BY DEF redis, InRedis, On
<1>2. Pushing(j)' => Pushing(j)
  BY DEF Pushing, InHand, Busy
<1>3. Whole(j)'
  BY <1>1, <1>2 DEF Good, Whole, Once, On
<1>4. Counted(j)'
  BY <1>1 DEF Good, Counted, Items
<1>5. Untouched(j)'
  BY <1>1 DEF Good, Untouched
<1> QED BY <1>3, <1>4, <1>5 DEF Good

(* Whoever has a job in hand and is not pushing it keeps it from the others. *)
LEMMA GoodHand ==
    ASSUME OneInv, NEW t \in Threads, thread[t].pc \in Keeping, Whole(thread[t].body.job)
    PROVE  /\ thread[t].body \in Items(processing)
           /\ On(processing, thread[t].body.job) /\ ~On(pending, thread[t].body.job)
           /\ ~Pushing(thread[t].body.job)
           /\ \A b \in Items(processing) : b.job = thread[t].body.job => b = thread[t].body
<1> DEFINE j == thread[t].body.job
<1>1. PICK i \in 1..Len(processing) : processing[i] = thread[t].body
  BY KeptInRedis
<1>2. On(processing, j) /\ ~On(pending, j) /\ ~Pushing(j)
  BY <1>1 DEF Whole, On, InRedis
<1>3. thread[t].body \in Items(processing)
  BY <1>1 DEF Items
<1>4. \A k \in 1..Len(processing) : processing[k].job = j => k = i
  BY <1>1 DEF Whole, Once
<1> QED BY <1>1, <1>2, <1>3, <1>4 DEF Items

LEMMA FreeInPending ==
    ASSUME OneInv, NEW j \in Jobs, Whole(j), On(pending, j)
    PROVE  \A t \in Threads : ~InHand(t, j)
<1> SUFFICES ASSUME NEW t \in Threads, InHand(t, j) PROVE FALSE
  OBVIOUS
<1>1. CASE thread[t].pc = "pushing"
  BY <1>1 DEF InHand, Pushing, Whole, InRedis
<1>2. CASE thread[t].pc # "pushing"
  BY <1>2, GoodHand DEF InHand, Keeping
<1> QED BY <1>1, <1>2

LEMMA Sums ==
    ASSUME NEW r \in Nat, NEW a \in Nat, NEW x \in Nat
    PROVE  /\ \A y \in Nat : x <= y /\ r <= a + 1 + x => r <= a + 1 + y
           /\ \A y \in Nat : y = x + 1 /\ r <= a + 1 + x => r <= a + y
           /\ \A m \in Nat : a <= m /\ r <= a + x => r + 1 <= a + 1 + x /\ r + 1 <= m + 1 + x
OBVIOUS

LEMMA GoodStep ==
    ASSUME OneInv, [Next]_vars, NEW j \in Jobs, j \notin twinned', Good(j)
    PROVE  Good(j)'
<1>0. /\ TypeOK /\ processing \in Seq(Body) /\ pending \in Seq(Body)
      /\ runs[j] \in Nat /\ reaps[j] \in Nat /\ MaxRetries \in Nat
      /\ Whole(j) /\ Counted(j) /\ Untouched(j)
  BY RetriesAssumption DEF OneInv, IInv, TypeOK, Good
<1>2. \A b \in Body : b.attempt \in 0..MaxRetries /\ b.attempt \in Nat /\ b.job \in Jobs
  BY <1>0 DEF Body
<1>1. /\ \A b \in Items(pending) \cup Items(processing) : b.attempt \in Nat
      /\ \A t \in Threads : InHand(t, j) => thread[t].body.attempt \in 0..MaxRetries
  <2>1. \A b \in Items(pending) \cup Items(processing) : b \in Body
    BY <1>0 DEF Items
  <2>2. \A t \in Threads : InHand(t, j) => thread[t].body \in Body
    BY <1>0, ThreadFacts DEF InHand
  <2> QED BY <1>2, <2>1, <2>2
<1>3. ASSUME NEW k \in Jobs, Enqueue(k) PROVE Good(j)'
  <2> DEFINE body == [job |-> k, attempt |-> 0]
  <2>1. body \in Body /\ body.job = k /\ body.attempt = 0
    BY RetriesAssumption DEF Body
  <2>2. /\ pending' = Append(pending, body) /\ k \notin submitted
        /\ submitted' = submitted \cup {k}
        /\ UNCHANGED <<processing, thread, runs, reaps>>
    BY <1>3 DEF Enqueue
  <2> HIDE DEF body
  <2>3. /\ Items(pending') = Items(pending) \cup {body}
        /\ On(pending', j) <=> On(pending, j) \/ j = k
        /\ Once(pending, j) /\ (j = k => ~On(pending, j)) => Once(pending', j)
    BY <1>0, <2>1, <2>2, ItemsPushed, OnPushed
  <2>4. j = k => ~InRedis(j) /\ runs[j] = 0 /\ ~Pushing(j) /\ \A t \in Threads : ~InHand(t, j)
    BY <1>0, <2>2 DEF Untouched, Pushing, InHand, Busy
  <2>5. (Pushing(j)' <=> Pushing(j)) /\ \A t \in Threads : InHand(t, j)' <=> InHand(t, j)
    BY <2>2 DEF Pushing, InHand
  <2>6. Whole(j)'
    BY <1>0, <2>2, <2>3, <2>4, <2>5 DEF Whole, InRedis
  <2>7. Counted(j)'
    BY <1>0, <2>1, <2>2, <2>3, <2>4, <2>5 DEF Counted
  <2>8. Untouched(j)'
    BY <1>0, <2>2, <2>3, <2>5 DEF Untouched, InRedis
  <2> QED BY <2>6, <2>7, <2>8 DEF Good
<1>4. ASSUME UNCHANGED <<redis, submitted, runs, reaps>>,
             \A t \in Threads : thread'[t] = thread[t] \/ thread'[t] = Idle
      PROVE  Good(j)'
  BY <1>4, GoodStays DEF InHand, Idle, Busy
<1>5. ASSUME NEW w \in Workers,
             Start(w) \/ ReapDone(w) \/ Sigterm(w) \/ Exit(w) \/ Kill(w)
      PROVE  Good(j)'
  BY <1>4, <1>5 DEF Start, ReapDone, Sigterm, Exit, Kill, history
<1>6. ASSUME NEW w \in Workers, ReapOrphan(w) PROVE Good(j)'
  <2> DEFINE h == Head(processing)
  <2>1. /\ processing # << >> /\ pending' = Append(pending, h) /\ processing' = Tail(processing)
        /\ UNCHANGED <<thread, runs, submitted>> /\ reaps' = [reaps EXCEPT ![h.job] = @ + 1]
    BY <1>6 DEF ReapOrphan
  <2> HIDE DEF h
  <2>2. h \in Body /\ h \in Items(processing) /\ h.attempt \in Nat /\ h.job \in Jobs
    BY <1>0, <1>2, <2>1, PopProperties, ItemsPopped DEF h
  <2>3. \A t \in Threads : ~InHand(t, j) /\ ~InHand(t, j)'
    BY <1>6, <2>1, ReaperIsAlone DEF ReapOrphan, InHand, Idle, Busy
  <2>4. ~Pushing(j)'
    BY <2>3 DEF Pushing, InHand, Busy
  <2>5. /\ On(processing, j) <=> On(Tail(processing), j) \/ j = h.job
        /\ j = h.job => ~On(Tail(processing), j)
        /\ Once(Tail(processing), j) /\ Items(processing') \subseteq Items(processing)
    BY <1>0, <2>1, OnPopped, ItemsPopped DEF h, Whole
  <2>6. /\ Items(pending') = Items(pending) \cup {h}
        /\ On(pending', j) <=> On(pending, j) \/ j = h.job
        /\ Once(pending, j) /\ (j = h.job => ~On(pending, j)) => Once(pending', j)
    BY <1>0, <2>1, <2>2, ItemsPushed, OnPushed
  <2>7. Whole(j)'
    BY <1>0, <2>1, <2>3, <2>4, <2>5, <2>6 DEF Whole
  <2>8. /\ runs'[j] = runs[j] /\ reaps'[j] \in Nat /\ reaps[j] <= reaps'[j]
        /\ j = h.job => reaps'[j] = reaps[j] + 1
    BY <1>0, <2>1, <2>2 DEF TypeOK
  <2>9. ASSUME NEW b \in Items(pending'), b.job = j PROVE runs[j] <= b.attempt + reaps'[j]
    <3>1. CASE b \in Items(pending)
      <4>1. runs[j] <= b.attempt + reaps[j] /\ b.attempt \in Nat
        BY <1>0, <1>1, <2>9, <3>1 DEF Counted
      <4> QED BY <1>0, <2>8, <4>1
    <3>2. CASE b = h
      <4>1. runs[j] <= h.attempt + 1 + reaps[j]
        BY <1>0, <2>2, <2>9, <3>2 DEF Counted
      <4>2. reaps'[j] = reaps[j] + 1
        BY <2>8, <2>9, <3>2
      <4>3. runs[j] <= h.attempt + reaps'[j]
        BY <1>0, <2>2, <2>8, <4>1, <4>2, Sums
      <4> QED BY <3>2, <4>3
    <3> QED BY <2>6, <3>1, <3>2
  <2>10. ASSUME NEW b \in Items(processing'), b.job = j PROVE runs[j] <= b.attempt + 1 + reaps'[j]
    <3>1. runs[j] <= b.attempt + 1 + reaps[j] /\ b.attempt \in Nat
      BY <1>0, <1>1, <2>5, <2>10 DEF Counted
    <3> QED BY <1>0, <2>8, <3>1, Sums
  <2>11. Counted(j)'
    <3>1. runs[j] <= MaxRetries + 1 + reaps[j]
      BY <1>0 DEF Counted
    <3>2. runs[j] <= MaxRetries + 1 + reaps'[j]
      BY <1>0, <2>8, <3>1
    <3> QED BY <2>3, <2>8, <2>9, <2>10, <3>2 DEF Counted
  <2>12. Untouched(j)'
    BY <1>0, <2>1, <2>3, <2>5, <2>6 DEF Untouched, InRedis
  <2> QED BY <2>7, <2>11, <2>12 DEF Good
<1>7. ASSUME NEW w \in Workers, Dequeue(w) \/ DequeueReplyLost(w) PROVE Good(j)'
  <2> DEFINE h == Head(pending)
  <2>1. /\ pending # << >> /\ processing' = Append(processing, h) /\ pending' = Tail(pending)
        /\ UNCHANGED <<runs, reaps, submitted>>
    BY <1>7 DEF Dequeue, DequeueReplyLost, history
  <2> HIDE DEF h
  <2>2. h \in Body /\ h \in Items(pending) /\ h.attempt \in Nat
    BY <1>0, <1>2, <2>1, PopProperties, ItemsPopped DEF h
  <2>3. /\ On(pending, j) <=> On(Tail(pending), j) \/ j = h.job
        /\ j = h.job => ~On(Tail(pending), j)
        /\ Once(Tail(pending), j) /\ Items(pending') \subseteq Items(pending)
    BY <1>0, <2>1, OnPopped, ItemsPopped DEF h, Whole
  <2>4. /\ Items(processing') = Items(processing) \cup {h}
        /\ On(processing', j) <=> On(processing, j) \/ j = h.job
        /\ Once(processing, j) /\ (j = h.job => ~On(processing, j)) => Once(processing', j)
    BY <1>0, <2>1, <2>2, ItemsPushed, OnPushed
  <2>5. j = h.job => \A t \in Threads : ~InHand(t, j)
    BY <1>0, <2>3, FreeInPending
  <2>6. \A t \in Threads : \/ thread'[t] = thread[t]
                           \/ t = <<w, Loop>> /\ thread'[t] = [pc |-> "held", body |-> h]
    <3>1. CASE Dequeue(w)
      BY <1>0, <3>1 DEF Dequeue, TypeOK, h
    <3>2. CASE DequeueReplyLost(w)
      BY <3>2 DEF DequeueReplyLost
    <3> QED BY <1>7, <3>1, <3>2
  <2>7. \A t \in Threads : InHand(t, j)' =>
           \/ InHand(t, j) /\ thread'[t] = thread[t] /\ j # h.job
           \/ t = <<w, Loop>> /\ thread'[t] = [pc |-> "held", body |-> h] /\ j = h.job
    BY <2>5, <2>6 DEF InHand
  <2>8. Pushing(j)' => Pushing(j) /\ j # h.job
    BY <2>7 DEF Pushing, InHand, Busy
  <2>9. Whole(j)'
    BY <1>0, <2>1, <2>3, <2>4, <2>7, <2>8 DEF Whole, InRedis
  <2>10. \A t \in Threads : InHand(t, j)' =>
            /\ runs[j] <= thread'[t].body.attempt + 1 + reaps[j]
            /\ thread'[t].pc = "held" => runs[j] <= thread'[t].body.attempt + reaps[j]
    <3>1. j = h.job => runs[j] <= h.attempt + reaps[j]
      BY <1>0, <2>2 DEF Counted
    <3>2. j = h.job => runs[j] <= h.attempt + 1 + reaps[j]
      BY <1>0, <2>2, <3>1
    <3>3. [pc |-> "held", body |-> h].body = h
      OBVIOUS
    <3> QED BY <1>0, <2>7, <3>1, <3>2, <3>3 DEF Counted
  <2>11. \A b \in Items(processing') : b.job = j => runs[j] <= b.attempt + 1 + reaps[j]
    <3>1. j = h.job => runs[j] <= h.attempt + reaps[j]
      BY <1>0, <2>2 DEF Counted
    <3>2. j = h.job => runs[j] <= h.attempt + 1 + reaps[j]
      BY <1>0, <2>2, <3>1
    <3> QED BY <1>0, <2>4, <3>2 DEF Counted
  <2>12. Counted(j)'
    BY <1>0, <2>1, <2>3, <2>10, <2>11 DEF Counted
  <2>13. Untouched(j)'
    BY <1>0, <2>1, <2>3, <2>4, <2>7 DEF Untouched, InRedis
  <2> QED BY <2>9, <2>12, <2>13 DEF Good
<1>8. ASSUME NEW w \in Workers, NEW i \in Loop..Concurrency,
             thread[<<w, Loop>>].pc = "held", thread[<<w, i>>] = Idle \/ i = Loop,
             Handle(<<w, i>>, thread[<<w, Loop>>].body)
      PROVE  Good(j)'
  <2> DEFINE l == <<w, Loop>>
             t == <<w, i>>
  <2>1. l \in Threads /\ t \in Threads /\ UNCHANGED <<redis, submitted, reaps>>
    BY <1>8, ConcurrencyAssumption DEF Threads, Loop, Handle
  <2>2. /\ thread'[t] = [pc |-> "handling", body |-> thread[l].body]
        /\ \A u \in Threads : u # t => thread'[u] = thread[u] \/ thread'[u] = Idle
        /\ l # t => thread'[l] = Idle
    BY <1>0, <1>8, <2>1 DEF Handle, TypeOK
  <2>3. thread[l].body \in Body /\ thread[l].body.job \in Jobs /\ l \in Threads
    BY <1>0, <1>8, <2>1, ThreadFacts DEF Busy, Body
  <2>4. runs' = [runs EXCEPT ![thread[l].body.job] = @ + 1]
    BY <1>8 DEF Handle
  <2>5. CASE thread[l].body.job # j
    <3>1. runs'[j] = runs[j]
      BY <1>0, <2>3, <2>4, <2>5 DEF TypeOK
    <3>2. ASSUME NEW u \in Threads, InHand(u, j)' PROVE thread'[u] = thread[u] /\ InHand(u, j)
      <4>1. u # t
        BY <2>2, <2>5, <3>2 DEF InHand
      <4> QED BY <2>2, <3>2, <4>1 DEF InHand, Idle, Busy
    <3> QED BY <2>1, <3>1, <3>2, GoodStays
  <2>6. CASE thread[l].body.job = j
    <3>1. runs'[j] = runs[j] + 1
      BY <1>0, <2>3, <2>4, <2>6 DEF TypeOK
    <3>2. InHand(l, j) /\ thread[l].pc \in Keeping
      BY <1>8, <2>6 DEF InHand, Keeping, Busy
    <3>3. /\ thread[l].body \in Items(processing) /\ On(processing, j) /\ ~On(pending, j)
          /\ ~Pushing(j) /\ \A b \in Items(processing) : b.job = j => b = thread[l].body
      BY <1>0, <2>1, <2>6, <3>2, GoodHand
    <3>4. runs[j] <= thread[l].body.attempt + reaps[j] /\ thread[l].body.attempt \in 0..MaxRetries
      BY <1>0, <1>1, <1>8, <2>1, <3>2 DEF Counted
    <3>5. \A u \in Threads : InHand(u, j)' => u = t
      <4>1. ASSUME NEW u \in Threads, u # t, InHand(u, j)' PROVE FALSE
        <5>1. thread'[u] = thread[u] /\ u # l
          BY <2>2, <4>1 DEF InHand, Idle, Busy
        <5>2. InHand(u, j)
          BY <4>1, <5>1 DEF InHand
        <5> QED BY <1>0, <2>1, <3>2, <5>1, <5>2 DEF Whole
      <4> QED BY <4>1
    <3>6. ~Pushing(j)'
      <4>1. \A u \in Threads : InHand(u, j)' => thread'[u].pc = "handling"
        BY <2>2, <3>5
      <4> QED BY <4>1 DEF Pushing, InHand, Busy
    <3>7. Whole(j)'
      BY <1>0, <2>1, <3>5, <3>6 DEF Whole, redis, InRedis, On, Once
    <3>8. Counted(j)'
      <4>1. UNCHANGED <<pending, processing>> /\ reaps'[j] = reaps[j]
        BY <2>1 DEF redis
      <4>2. \A b \in Items(pending) : b.job # j
        BY <3>3, OnItems
      <4>3. \A u \in Threads : InHand(u, j)' =>
               thread'[u].body = thread[l].body /\ thread'[u].pc = "handling"
        BY <2>2, <3>5
      <4>4. /\ runs'[j] <= thread[l].body.attempt + 1 + reaps'[j]
            /\ runs'[j] <= MaxRetries + 1 + reaps'[j]
        <5>1. thread[l].body.attempt \in Nat /\ thread[l].body.attempt <= MaxRetries
          BY <1>0, <3>4
        <5>2. /\ runs[j] + 1 <= thread[l].body.attempt + 1 + reaps[j]
              /\ runs[j] + 1 <= MaxRetries + 1 + reaps[j]
          BY <1>0, <3>4, <5>1, Sums
        <5> QED BY <3>1, <4>1, <5>2
      <4>5. \A b \in Items(processing) : b.job = j => runs'[j] <= b.attempt + 1 + reaps'[j]
        BY <3>3, <4>4
      <4>6. \A u \in Threads : InHand(u, j)' =>
               /\ runs'[j] <= thread'[u].body.attempt + 1 + reaps'[j]
               /\ thread'[u].pc # "held"
        BY <4>3, <4>4
      <4> QED BY <4>1, <4>2, <4>4, <4>5, <4>6 DEF Counted
    <3>9. j \in submitted
      BY <1>0, <3>3 DEF Untouched, InRedis
    <3> QED BY <2>1, <3>7, <3>8, <3>9 DEF Good, Untouched
  <2> QED BY <2>5, <2>6
<1>9. ASSUME NEW w \in Workers, Dispatch(w) \/ ProcessOnLoop(w) PROVE Good(j)'
  <2>1. Loop \in Loop..Concurrency /\ Slots \subseteq Loop..Concurrency
    BY ConcurrencyAssumption DEF Loop, Slots
  <2> QED BY <1>8, <1>9, <2>1 DEF Dispatch, ProcessOnLoop
<1>10. ASSUME NEW t \in Threads, HandlerReturns(t) \/ HandlerPanics(t) PROVE Good(j)'
  <2>1. thread[t].pc = "handling" /\ UNCHANGED <<redis, submitted, runs, reaps>>
    BY <1>10 DEF HandlerReturns, HandlerSucceeds, HandlerFailsForGood, HandlerFails,
                DropExhausted, LeaveForReaper, Retry, HandlerPanics, history
  <2>2. thread[t] \in Hand
    BY <1>0, <2>1, ThreadFacts DEF Busy, TypeOK
  <2>3. Release(t) \/ \E pc \in {"acking", "dropping", "removing"} : Become(t, pc)
    BY <1>10 DEF HandlerReturns, HandlerSucceeds, HandlerFailsForGood, HandlerFails,
                DropExhausted, LeaveForReaper, Retry, HandlerPanics
  <2>4. \A u \in Threads : u # t => thread'[u] = thread[u]
    BY <1>0, <2>3 DEF Become, Release, TypeOK
  <2>5. \/ thread'[t] = Idle
        \/ thread'[t].body = thread[t].body /\ thread'[t].pc \notin {"held", "pushing"}
    BY <1>0, <2>2, <2>3 DEF Become, Release, TypeOK, Hand
  <2>6. \A u \in Threads : InHand(u, j)' =>
           /\ InHand(u, j) /\ thread'[u].body = thread[u].body
           /\ thread'[u].pc \in {"held", "pushing"} => thread'[u].pc = thread[u].pc
    BY <2>1, <2>4, <2>5 DEF InHand, Idle, Busy
  <2> QED BY <2>1, <2>6, GoodStays
<1>11. ASSUME NEW t \in Threads, thread[t].pc \in Busy, thread[t].body.job # j,
              Release(t) \/ Become(t, "pushing"), UNCHANGED <<redis, submitted, runs, reaps>>
       PROVE  Good(j)'
  <2>1. thread[t] \in Hand
    BY <1>0, <1>11, ThreadFacts DEF TypeOK
  <2>2. \A u \in Threads : InHand(u, j)' => thread'[u] = thread[u]
    BY <1>0, <1>11, <2>1 DEF Become, Release, TypeOK, Hand, InHand, Idle, Busy
  <2>3. \A u \in Threads : InHand(u, j)' => InHand(u, j)
    BY <2>2 DEF InHand
  <2> QED BY <1>11, <2>2, <2>3, GoodStays
<1>12. ASSUME NEW t \in Threads, Ack(t) \/ RequeueRemove(t) PROVE Good(j)'
  <2> DEFINE body == thread[t].body
  <2>1. /\ thread[t].pc \in Keeping /\ processing' = LRem(processing, body)
        /\ UNCHANGED <<pending, submitted, runs, reaps>>
        /\ Release(t) \/ Become(t, "pushing")
    BY <1>12 DEF Ack, RequeueRemove, Keeping, Busy, history
  <2>2. thread[t] \in Hand /\ body \in Body
    BY <1>0, <2>1, ThreadFacts DEF Keeping, TypeOK
  <2>3. \A u \in Threads : u # t => thread'[u] = thread[u]
    BY <1>0, <2>1 DEF Become, Release, TypeOK
  <2>4. thread'[t] = Idle \/ (thread'[t].pc = "pushing" /\ thread'[t].body = body)
    BY <1>0, <2>1, <2>2 DEF Become, Release, TypeOK, Hand
  <2>5. /\ On(processing', j) => On(processing, j) /\ j # body.job
        /\ Once(processing', j) /\ Items(processing') \subseteq Items(processing)
    <3>1. j = body.job => body \in Items(processing)
      BY <1>0, <2>1, GoodHand
    <3>2. /\ Items(LRem(processing, body)) \subseteq Items(processing)
          /\ Once(LRem(processing, body), j)
          /\ j = body.job /\ body \in Items(processing) => ~On(LRem(processing, body), j)
      BY <1>0, <2>2, ItemsRemoved DEF Whole
    <3>3. On(LRem(processing, body), j) => On(processing, j)
      BY <1>0, <2>2, OnRemoved
    <3> QED BY <2>1, <3>1, <3>2, <3>3
  <2>6. \A u \in Threads : InHand(u, j)' =>
           \/ InHand(u, j) /\ thread'[u].body = thread[u].body /\ thread'[u].pc # "held"
           \/ thread'[u] = thread[u]
    BY <2>1, <2>3, <2>4 DEF InHand, Idle, Keeping, Busy
  <2>7. \A u \in Threads : InHand(u, j)' =>
           /\ InHand(u, j) /\ thread'[u].body = thread[u].body
           /\ thread'[u].pc = "held" => thread[u].pc = "held"
    BY <2>6 DEF InHand
  <2>8. Pushing(j)' => Pushing(j) \/ j = body.job
    BY <2>3, <2>4 DEF Pushing, Idle
  <2>9. j = body.job => ~On(pending, j)
    BY <1>0, <2>1, GoodHand
  <2>10. Whole(j)'
    BY <1>0, <2>1, <2>5, <2>7, <2>8, <2>9 DEF Whole, InRedis
  <2>11. Counted(j)'
    BY <1>0, <2>1, <2>5, <2>7 DEF Counted
  <2>12. Untouched(j)'
    BY <1>0, <2>1, <2>5, <2>7 DEF Untouched, InRedis
  <2> QED BY <2>10, <2>11, <2>12 DEF Good
<1>13. ASSUME NEW t \in Threads, AckFails(t) \/ RequeuePushFails(t) PROVE Good(j)'
  BY <1>0, <1>4, <1>13 DEF AckFails, RequeuePushFails, Release, TypeOK, history
<1>14. ASSUME NEW t \in Threads, RequeueRemoveFails(t) PROVE Good(j)'
  BY <1>11, <1>14 DEF RequeueRemoveFails, Busy
<1>15. ASSUME NEW t \in Threads, RequeuePush(t) PROVE Good(j)'
  <2> DEFINE next == [thread[t].body EXCEPT !.attempt = @ + 1]
  <2>1. /\ thread[t].pc = "pushing" /\ pending' = Append(pending, next)
        /\ UNCHANGED <<processing, submitted, runs, reaps>>
    BY <1>15 DEF RequeuePush, history
  <2>2. thread[t].body \in Body /\ thread[t].body.attempt < MaxRetries
    BY <1>0, <2>1, ThreadFacts DEF Busy, OneInv, IInv, HandKnows
  <2>3. next \in Body
    BY <1>0, <2>2 DEF Body
  <2>4. next.job = thread[t].body.job /\ next.attempt = thread[t].body.attempt + 1
    BY <2>2 DEF Body
  <2> HIDE DEF next
  <2>5. /\ Items(pending') = Items(pending) \cup {next}
        /\ On(pending', j) <=> On(pending, j) \/ j = next.job
        /\ Once(pending, j) /\ (j = next.job => ~On(pending, j)) => Once(pending', j)
    BY <1>0, <2>1, <2>3, ItemsPushed, OnPushed
  <2>6. \A u \in Threads : u # t => thread'[u] = thread[u]
    BY <1>0, <1>15 DEF RequeuePush, Release, TypeOK
  <2>7. thread'[t] = Idle
    BY <1>0, <1>15 DEF RequeuePush, Release, TypeOK
  <2>8. \A u \in Threads : InHand(u, j)' => u # t /\ InHand(u, j) /\ thread'[u] = thread[u]
    BY <2>6, <2>7 DEF InHand, Idle, Busy
  <2>9. j = next.job => InHand(t, j) /\ Pushing(j)
    BY <2>1, <2>4 DEF InHand, Pushing, Busy
  <2>10. j = next.job => ~InRedis(j) /\ \A u \in Threads : ~InHand(u, j)'
    BY <1>0, <2>8, <2>9 DEF Whole
  <2>11. Pushing(j)' => Pushing(j) /\ j # next.job
    BY <2>8, <2>10 DEF Pushing, InHand, Busy
  <2>12. Whole(j)'
    BY <1>0, <2>1, <2>5, <2>8, <2>10, <2>11 DEF Whole, InRedis
  <2>13. \A b \in Items(pending') : b.job = j => runs[j] <= b.attempt + reaps[j]
    BY <1>0, <2>2, <2>4, <2>5, <2>9 DEF Counted
  <2>14. Counted(j)'
    BY <1>0, <2>1, <2>8, <2>13 DEF Counted
  <2>15. Untouched(j)'
    BY <1>0, <2>1, <2>5, <2>8, <2>9 DEF Untouched, InRedis
  <2> QED BY <2>12, <2>14, <2>15 DEF Good
<1>16. CASE UNCHANGED vars
  BY <1>4, <1>16 DEF vars, history
<1> QED BY <1>3, <1>5, <1>6, <1>7, <1>9, <1>10, <1>12, <1>13, <1>14, <1>15, <1>16
        DEF Next, LoopStep, QueueReplies

LEMMA TwoInvariant == OneWorker /\ Spec => []TwoInv
<1>1. TwoInv /\ [Next]_vars => TwoInv'
  <2> SUFFICES ASSUME TwoInv, [Next]_vars PROVE TwoInv'
    OBVIOUS
  <2>1. OneInv'
    BY TypeStep, AccountedStep, SingleStep, PlacedStep DEF TwoInv, OneInv, IInv, OneWorker
  <2>2. twinned \subseteq twinned'
    BY DEF Next, LoopStep, HandlerReturns, HandlerFails, QueueReplies, Enqueue, Start, ReapOrphan,
           ReapDone, Dequeue, Dispatch, ProcessOnLoop, Handle, Exit, DequeueReplyLost, Sigterm, Kill,
           HandlerSucceeds, HandlerFailsForGood, DropExhausted, LeaveForReaper, Retry, HandlerPanics,
           Ack, AckFails, RequeueRemove, RequeueRemoveFails, RequeuePush, RequeuePushFails,
           history, vars
  <2>3. \A j \in Jobs \ twinned' : Good(j)'
    BY <2>2, GoodStep DEF TwoInv
  <2> QED BY <2>1, <2>3 DEF TwoInv
<1> QED BY TwoInit, <1>1, PTL DEF Spec

LEMMA Few ==
    ASSUME NEW S, \A x, y \in S : x = y
    PROVE  /\ Cardinality(S) \in {0, 1}
           /\ S = {} => Cardinality(S) = 0
<1>1. CASE S = {}
  BY <1>1, FS_EmptySet
<1>2. ASSUME NEW x \in S PROVE Cardinality(S) = 1
  <2>1. S = {x}
    BY <1>2
  <2> QED BY <2>1, FS_Singleton
<1> QED BY <1>1, <1>2
-----------------------------------------------------------------------------
(* A hard kill of the worker leaves every job that a goroutine has in hand,  *)
(* but for one inside a Requeue, to the next reaper (worker.go:83-88) : on  *)
(* the processing list, as often as goroutines have it.                      *)
THEOREM HandsAreRecoverable == OneWorker /\ Spec => []Recoverable
<1>1. ASSUME OneInv, NEW t \in BusyThreads
      PROVE  LET b == thread[t].body
                 holders == {u \in BusyThreads : thread[u].body = b /\ thread[u].pc # "pushing"}
                 copies == {i \in 1..Len(processing) : processing[i] = b}
             IN  Cardinality(holders) <= Cardinality(copies)
  <2> DEFINE b == thread[t].body
             holders == {u \in BusyThreads : thread[u].body = b /\ thread[u].pc # "pushing"}
             copies == {i \in 1..Len(processing) : processing[i] = b}
  <2>1. PICK f : OwnBody(thread, processing, f)
    BY <1>1 DEF OneInv, Placed, PlacedIn
  <2>2. holders \subseteq KeepersIn(thread)
    BY <1>1, ThreadFacts DEF OneInv, IInv, BusyThreads, KeepersIn, Keeping
  <2>3. \A u \in holders : f[u] \in copies
    BY <2>1, <2>2 DEF OwnBody
  <2>4. \A u, v \in holders : f[u] = f[v] => u = v
    BY <2>1, <2>2 DEF OwnBody
  <2> DEFINE g == [u \in holders |-> f[u]]
  <2>5. g \in Injection(holders, copies)
    BY <2>3, <2>4 DEF Injection, IsInjective
  <2>6. IsFiniteSet(copies)
    <3>1. Len(processing) \in Nat
      BY <1>1 DEF OneInv, IInv, TypeOK
    <3>2. IsFiniteSet(1..Len(processing))
      BY <3>1, FS_Interval
    <3> QED BY <3>2, FS_Subset
  <2>7. Cardinality(holders) <= Cardinality(copies)
    BY <2>5, <2>6, FS_Injection
  <2> QED BY <2>7
<1>2. OneInv => Recoverable
  BY <1>1 DEF Recoverable
<1> QED BY <1>2, OneInvariant, PTL

(* Whatever kills, reaps, retries and failures there were, a job none of     *)
(* whose LREMs failed is on one list once, or in one Requeue, and in one     *)
(* hand at most (queue.go:200-205).                                          *)
THEOREM JobsAreInOnePlace == OneWorker /\ Spec => []OnePlace
<1>1. ASSUME TwoInv, NEW j \in Jobs \ twinned
      PROVE  LET bodies(list) == {i \in 1..Len(list) : list[i].job = j}
                 inHand == {t \in BusyThreads : thread[t].body.job = j}
             IN  /\ Cardinality(bodies(pending)) + Cardinality(bodies(processing))
                      + (IF Pushing(j) THEN 1 ELSE 0) <= 1
                 /\ Cardinality(inHand) <= 1
  <2> DEFINE bodies(list) == {i \in 1..Len(list) : list[i].job = j}
             inHand == {t \in BusyThreads : thread[t].body.job = j}
  <2>1. Whole(j) /\ TypeOK
    BY <1>1 DEF TwoInv, Good, OneInv, IInv
  <2>2. /\ \A x, y \in bodies(pending) : x = y
        /\ \A x, y \in bodies(processing) : x = y
    BY <2>1 DEF Whole, Once
  <2>3. \A x, y \in inHand : x = y
    BY <2>1, ThreadFacts DEF Whole, InHand, BusyThreads
  <2>4. /\ bodies(pending) = {} <=> ~On(pending, j)
        /\ bodies(processing) = {} <=> ~On(processing, j)
    BY DEF On
  <2>5. /\ bodies(pending) = {} \/ bodies(processing) = {}
        /\ Pushing(j) => bodies(pending) = {} /\ bodies(processing) = {}
    BY <2>1, <2>4 DEF Whole, InRedis
  <2> HIDE DEF bodies, inHand
  <2>6. /\ Cardinality(bodies(pending)) \in {0, 1}
        /\ Cardinality(bodies(processing)) \in {0, 1}
        /\ bodies(pending) = {} => Cardinality(bodies(pending)) = 0
        /\ bodies(processing) = {} => Cardinality(bodies(processing)) = 0
    BY <2>2, Few
  <2>7. Cardinality(inHand) <= 1
    BY <2>3, Few
  <2>8. Cardinality(bodies(pending)) + Cardinality(bodies(processing))
            + (IF Pushing(j) THEN 1 ELSE 0) <= 1
    BY <2>5, <2>6
  <2> QED BY <2>7, <2>8 DEF bodies, inHand
<1>2. TwoInv => OnePlace
  BY <1>1 DEF OnePlace
<1> QED BY <1>2, TwoInvariant, PTL

(* WORKER_MAX_RETRIES bounds the handler runs of a job up to the times the   *)
(* reaper brought it back, which the attempt counter does not see            *)
(* (worker.go:234-275).                                                      *)
THEOREM AttemptsBoundRuns == OneWorker /\ Spec => []RunsBounded
<1>1. TwoInv => RunsBounded
  BY DEF TwoInv, Good, Counted, RunsBounded
<1> QED BY <1>1, TwoInvariant, PTL
=============================================================================
