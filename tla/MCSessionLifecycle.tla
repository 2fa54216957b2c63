------------------------- MODULE MCSessionLifecycle -------------------------
(***************************************************************************)
(* Instances of SessionLifecycle for TLC.                                  *)
(***************************************************************************)
EXTENDS SessionLifecycle, TLC

(* Handlers are interchangeable, and so are the rows; the run that uses the *)
(* symmetry checks invariants only.                                         *)
Symmetry == Permutations(Handlers) \cup Permutations(Sessions)

(* No guard reads the results of a row: a run that has no property about    *)
(* them is told apart without them.                                         *)
WithoutResults ==
    <<[s \in Sessions |-> row[s].status], fresh \cap Recording, stored, job, up, rec, looping,
      [p \in Procs |-> IF proc[p].pc = "requeue.mark" THEN At("requeue.mark", proc[p].s)
                                                      ELSE proc[p]],
      cut, overlap, faults>>

(* Bound: how many of the handlers, the resume and the reaper are at work   *)
(* at the same moment.                                                      *)
MaxBusy == 3
FewBusy == Cardinality({p \in Procs : proc[p] # Idle}) <= MaxBusy
=============================================================================
