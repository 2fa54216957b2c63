---------------------------- MODULE AtLeastOnce -----------------------------
(***************************************************************************)
(* What the reliable queue promises the code that enqueues a job: a job it *)
(* accepted is owed until a handler run of it has been judged, and only a  *)
(* job being moved back for a retry can be lost instead.                   *)
(***************************************************************************)
CONSTANT Jobs

VARIABLES
    owed,     \* accepted jobs the queue still answers for
    judged,   \* jobs a handler run of which ended with a verdict
    moving    \* owed jobs on their way back to the queue for a retry

vars == <<owed, judged, moving>>

Init == owed = {} /\ judged = {} /\ moving = {}

(* The queue accepts a job. *)
Accept(j) ==
    /\ owed' = owed \cup {j}
    /\ UNCHANGED <<judged, moving>>

(* A handler run of an owed job ends with a verdict. *)
Conclude(j) ==
    /\ j \in owed
    /\ judged' = judged \cup {j}
    /\ UNCHANGED <<owed, moving>>

(* A judged job is forgotten. *)
Retire(j) ==
    /\ j \in owed \cap judged
    /\ owed' = owed \ {j}
    /\ UNCHANGED <<judged, moving>>

(* A retry starts: the job leaves one place for another. *)
Lift(j) ==
    /\ j \in owed
    /\ moving' = moving \cup {j}
    /\ UNCHANGED <<owed, judged>>

(* The retry arrives. *)
Land(j) ==
    /\ j \in moving
    /\ moving' = moving \ {j}
    /\ UNCHANGED <<owed, judged>>

(* The retries of a set of jobs are cut short; some are lost by it. *)
Cut(S, lost) ==
    /\ S \subseteq moving /\ lost \subseteq S
    /\ moving' = moving \ S
    /\ owed' = owed \ lost
    /\ UNCHANGED judged

Next ==
    \/ \E j \in Jobs : Accept(j) \/ Conclude(j) \/ Retire(j) \/ Lift(j) \/ Land(j)
    \/ \E S \in SUBSET moving : \E lost \in SUBSET S : Cut(S, lost)

Spec == Init /\ [][Next]_vars
=============================================================================
