----------------------------- MODULE MCJobQueue -----------------------------
(***************************************************************************)
(* Instances of JobQueue for TLC, and the abstract queue it implements     *)
(* when one worker is alive at a time.                                     *)
(***************************************************************************)
EXTENDS JobQueue

(* The jobs of AtLeastOnce, read off the lists and the goroutines. *)
Moving == {j \in Jobs : Pushing(j)}
Owed == {j \in Jobs : InRedis(j)} \cup Moving
Judged == {j \in Jobs : verdict[j] # "none"}

Abstract == INSTANCE AtLeastOnce WITH owed <- Owed, judged <- Judged, moving <- Moving

(* One worker at a time and its queue implement AtLeastOnce: a job leaves   *)
(* Redis only after a verdict, or inside the two commands of a Requeue.     *)
KeepsPromise == Abstract!Spec
=============================================================================
