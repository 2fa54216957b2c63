-------------------------------- MODULE Tape ---------------------------------
(***************************************************************************)
(* What a recorder promises of the frames it hears: one that it holds      *)
(* leaves its memory only when storage has it or it is given up, and what  *)
(* storage has and memory has not stays, unless the recorder exposes it.   *)
(***************************************************************************)
CONSTANT Frame
VARIABLES
    heard,       \* frames heard so far
    held,        \* those in memory
    stored,      \* those in storage
    forgone,     \* frames given up
    exposed      \* frames that may be lost, or stored again

Init == heard = {} /\ held = {} /\ stored = {} /\ forgone = {} /\ exposed = {}

(* A frame that is heard is held; the recorder may give it up at once. *)
Hear ==
    \E f \in Frame :
        /\ heard' = heard \cup {f} /\ held' = held \cup {f}
        /\ forgone' \in {forgone, forgone \cup {f}}
        /\ UNCHANGED <<stored, exposed>>

(* Held frames are stored; what only storage has stays there. *)
Store ==
    /\ stored \ (held \cup exposed) \subseteq stored'
    /\ stored' \subseteq stored \cup held \cup exposed
    /\ UNCHANGED <<heard, held, forgone, exposed>>

(* What is in storage, or given up, need not be held. *)
Release ==
    /\ held' \subseteq held /\ held \ held' \subseteq stored \cup forgone \cup exposed
    /\ UNCHANGED <<heard, stored, forgone, exposed>>

GiveUp ==
    /\ forgone \subseteq forgone'
    /\ held' \subseteq held /\ held \ held' \subseteq forgone'
    /\ UNCHANGED <<heard, stored, exposed>>

(* Frames that are held or stored get exposed. *)
Expose ==
    /\ exposed \subseteq exposed' /\ exposed' \subseteq exposed \cup held \cup stored
    /\ UNCHANGED <<heard, held, stored, forgone>>

Next == Hear \/ Store \/ Release \/ GiveUp \/ Expose
Spec == Init /\ [][Next]_<<heard, held, stored, forgone, exposed>>
=============================================================================
