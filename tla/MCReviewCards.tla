--------------------------- MODULE MCReviewCards ---------------------------
(* Instances of ReviewCards for TLC: messages and handlers are              *)
(* interchangeable.                                                         *)
EXTENDS ReviewCards, FiniteSets, TLC

Symmetry == Permutations(Cards) \cup Permutations(Handlers)

(* Bound: with both messages in use, one handler is at work. *)
FewBusy ==
    Cardinality({m \in Cards : card[m].shows = "proposal"})
        + Cardinality({h \in Handlers : handler[h] # Idle}) <= 3

(* States are told apart by what can still matter: not by why a message has *)
(* no buttons, nor by what it has shown of the rows it had to show, nor by  *)
(* what the verb of a click does not look at, nor by which of the two       *)
(* verdicts a row was decided, but by whether the news of it agrees.        *)
ToShow(c) == (c.start \cap Pending) \ c.pass
Matters(c) ==
    IF c.shows = "proposal" THEN <<c.p, c.text, c.at, ToShow(c)>> ELSE <<>>
Agrees(says) == IF says = NoNews THEN <<>> ELSE <<says.p, says.verdict = proposal[says.p].status>>
Relevant(state) ==
    CASE "on" \in DOMAIN state ->
            <<state.pc, state.verb, state.m, state.p,
              IF state.verb = "approve" THEN <<state.on.text, state.on.at>> ELSE <<>>,
              IF state.verb = "skip" THEN ToShow(state.on) ELSE {}>>
      [] "says" \in DOMAIN state ->
            <<state.pc, state.m, Agrees(state.says),
              IF "content" \in DOMAIN state THEN Matters(state.content) ELSE <<>>>>
      [] "content" \in DOMAIN state -> <<state.pc, Matters(state.content)>>
      [] OTHER -> state
RowMatters(p) ==
    CASE p \in Pending -> <<proposal[p], told[p]>>
      [] proposal[p].status \in Verdicts ->
            <<[i \in DOMAIN told[p] |-> told[p][i] = proposal[p].status], p \in unheard>>
      [] OTHER -> <<proposal[p].status, told[p]>>
WithoutPast ==
    <<[p \in Rows |-> RowMatters(p)], edits,
      [m \in Cards |-> Matters(card[m])], [h \in Handlers |-> Relevant(handler[h])]>>
=============================================================================
