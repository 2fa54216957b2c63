-------------------------- MODULE InteractionProofs --------------------------
(***************************************************************************)
(* Theorems about what the bot answers to its users.                       *)
(*                                                                         *)
(* ReviewCards, for any number of sessions, messages, clicks at work, rows *)
(* and edits: a decision is made by one click, what is approved is what    *)
(* was shown, and skipping leads past everything.                          *)
(*                                                                         *)
(* Replies, for every command, any times and limits that fit each other    *)
(* and any number of failures: a private reply stays private, every end    *)
(* is answered, and a reply is complete or says that it is not.            *)
(*                                                                         *)
(* MessageSplitting, for every text and size: the pieces fit, are in the   *)
(* order of the text and hold all of it, so that every letter arrives, in  *)
(* messages, in an embed and what follows it, and in the passages of the   *)
(* notes; and a truncated text fits and keeps what it can.                 *)
(***************************************************************************)
EXTENDS ReviewCards, Replies, MessageSplitting, TLAPS, WellFoundedInduction,
        SequenceTheorems, FiniteSetTheorems

Proposed == [shows : {"proposal"}, p : Rows, text : Wordings, at : Wordings,
             pass : SUBSET Rows, start : SUBSET Rows]
Content == Proposed \cup [shows : {"unused", "caught up", "failed"}]
Verbs == {"approve", "reject", "edit", "skip"}
Saying == [p : Rows, verdict : Verdicts] \cup {NoNews}

Interaction ==
    [pc : {"idle"}]
    \cup [pc : {"create"}, content : Content]
    \cup [pc : {"clicked", "found"}, verb : Verbs, m : Cards, p : Rows, on : Proposed]
    \cup [pc : {"decided"}, m : Cards, says : Saying]
    \cup [pc : {"update"}, m : Cards, content : Content, says : Saying]
    \cup [pc : {"form"}, p : Rows]
    \cup [pc : {"saved"}, p : Rows, old : Wordings]

(* What can be said of a message, once the rows are prop and e forms were   *)
(* saved: the row existed; while it is pending its text is the one shown,   *)
(* or newer than what was read; and of what was pending at the top, all     *)
(* that still is and does not come later was shown.                         *)
TruthfulIn(c, prop, e) ==
    c.shows = "proposal" =>
        /\ prop[c.p] # NoRow
        /\ c.at <= e
        /\ prop[c.p].status = "pending" => (prop[c.p].text = c.text \/ prop[c.p].text > c.at)
        /\ \A q \in c.start : prop[q] # NoRow
        /\ \A q \in c.start : prop[q].status = "pending" /\ q <= c.p => q \in c.pass
Truthful(c) == TruthfulIn(c, proposal, edits)

(* What can be said of what a goroutine holds on to. *)
HoldsIn(state, prop, e) ==
    /\ state.pc \in {"create", "update"} => TruthfulIn(state.content, prop, e)
    /\ state.pc \in {"clicked", "found"} => TruthfulIn(state.on, prop, e) /\ state.on.p = state.p
    /\ state.pc \in {"form", "saved"} => prop[state.p] # NoRow

(* No text is newer than the last form saved. *)
Written == \A p \in Rows : proposal[p] \in Row => proposal[p].text <= edits

RowsInv ==
    /\ proposal \in [Rows -> Row \cup {NoRow, Gone}]
    /\ edits \in Wordings
    /\ Written

CardsInv == card \in [Cards -> Content] /\ \A m \in Cards : Truthful(card[m])
HandsInv ==
    /\ handler \in [Handlers -> Interaction]
    /\ \A h \in Handlers : HoldsIn(handler[h], proposal, edits)

(* A decision has one click that will announce it, and no message has yet.  *)
Says(state) == IF state.pc \in {"decided", "update"} THEN state.says ELSE NoNews
NewsInv ==
    /\ told \in [Rows -> Seq(Verdicts)] /\ unheard \subseteq Rows
    /\ \A h \in Handlers : Says(handler[h]) # NoNews =>
          LET p == Says(handler[h]).p
          IN  /\ p \in Rows /\ told[p] = <<>>
              /\ Says(handler[h]).verdict \in Verdicts
              /\ proposal[p].status = Says(handler[h]).verdict
    /\ \A h, k \in Handlers : Says(handler[h]) # NoNews /\ Says(handler[h]).p = Says(handler[k]).p => h = k
    /\ ToldOnce

IInv == RowsInv /\ CardsInv /\ HandsInv /\ NewsInv

(* How the rows move: what exists stays or goes for good, and a pending row *)
(* keeps its text or gets one newer than all before.                        *)
RowsMoveOn ==
    /\ edits <= edits'
    /\ \A q \in Rows : proposal[q] # NoRow =>
          /\ proposal'[q] # NoRow
          /\ proposal'[q].status = "pending" =>
                /\ proposal[q].status = "pending"
                /\ proposal'[q].text = proposal[q].text \/ proposal'[q].text > edits
-----------------------------------------------------------------------------
(* A non-empty set of rows has a first one. *)
LEMMA FirstRow ==
    ASSUME NEW S \in SUBSET Rows, S # {}
    PROVE  First(S) \in S /\ \A q \in S : First(S) <= q
<1>1. S \subseteq Nat
  BY BoundsAssumption DEF Rows
<1>2. PICK p \in S : \A q \in S : ~ (<<q, p>> \in OpToRel(<, Nat))
  BY <1>1, NatLessThanWellFounded, WFMin
<1>3. ASSUME NEW q \in S PROVE p <= q
  <2>1. <<q, p>> \in OpToRel(<, Nat) <=> q < p
    BY <1>1, Zenon DEF OpToRel
  <2>2. ~ (q < p)
    BY <1>2, <2>1, Zenon
  <2>3. p \in Nat /\ q \in Nat
    BY <1>1
  <2> QED BY <2>2, <2>3
<1> QED BY <1>3 DEF First

(* What was true of a message stays true as the rows move on. *)
LEMMA StaysTruthful ==
    ASSUME RowsInv, RowsInv', RowsMoveOn
    PROVE  \A c \in Content : TruthfulIn(c, proposal, edits) => TruthfulIn(c, proposal', edits')
<1> SUFFICES ASSUME NEW c \in Proposed, TruthfulIn(c, proposal, edits)
             PROVE  TruthfulIn(c, proposal', edits')
  BY DEF Content, TruthfulIn
<1>1. c.p \in Rows /\ c.start \subseteq Rows /\ c.at \in Nat /\ c.shows = "proposal"
  BY BoundsAssumption DEF Proposed, Wordings
<1>2. edits \in Nat /\ edits' \in Nat /\ edits <= edits' /\ c.at <= edits
  BY <1>1, BoundsAssumption DEF RowsInv, Wordings, RowsMoveOn, TruthfulIn
<1>3. ASSUME proposal'[c.p].status = "pending"
      PROVE  proposal'[c.p].text = c.text \/ proposal'[c.p].text > c.at
  <2>1. /\ proposal[c.p].status = "pending"
        /\ proposal'[c.p].text = proposal[c.p].text \/ proposal'[c.p].text > edits
    BY <1>1, <1>3 DEF RowsMoveOn, TruthfulIn
  <2>2. proposal'[c.p].text \in Nat
    BY <1>1, <1>3, BoundsAssumption DEF RowsInv, Row, NoRow, Gone, Wordings
  <2> QED BY <1>1, <1>2, <2>1, <2>2 DEF TruthfulIn
<1> QED BY <1>1, <1>2, <1>3 DEF RowsMoveOn, TruthfulIn

(* The same for what a goroutine holds on to. *)
LEMMA StillHolds ==
    ASSUME RowsInv, RowsInv', RowsMoveOn
    PROVE  \A state \in Interaction :
              HoldsIn(state, proposal, edits) => HoldsIn(state, proposal', edits')
<1> SUFFICES ASSUME NEW state \in Interaction, HoldsIn(state, proposal, edits)
             PROVE  HoldsIn(state, proposal', edits')
  OBVIOUS
<1>1. \A c \in Content : TruthfulIn(c, proposal, edits) => TruthfulIn(c, proposal', edits')
  BY StaysTruthful
<1>2. state.pc \in {"create", "update"} => state.content \in Content
  BY DEF Interaction
<1>3. state.pc \in {"clicked", "found"} => state.on \in Content
  BY DEF Interaction, Content
<1>4. state.pc \in {"form", "saved"} => state.p \in Rows
  BY DEF Interaction
<1>5. state.pc \in {"form", "saved"} => proposal'[state.p] # NoRow
  BY <1>4 DEF HoldsIn, RowsMoveOn
<1> QED BY <1>1, <1>2, <1>3, <1>5 DEF HoldsIn

-----------------------------------------------------------------------------
(* The head of a listing of pending rows, as it is shown. *)
LEMMA HeadTruthful ==
    ASSUME IInv, NEW S \in SUBSET Pending
    PROVE  FromTop(S) \in Content /\ Truthful(FromTop(S))
<1>1. CASE S = {}
  BY <1>1 DEF FromTop, Finished, Content, Truthful, TruthfulIn
<1>2. CASE S # {}
  <2> DEFINE p == First(S)
  <2>1. S \subseteq Rows /\ \A q \in S : proposal[q].status = "pending"
    BY DEF Pending, PendingIn
  <2>2. p \in S /\ \A q \in S : p <= q
    BY <1>2, <2>1, FirstRow
  <2>3. FromTop(S) = [shows |-> "proposal", p |-> p, text |-> proposal[p].text,
                   at |-> proposal[p].text, pass |-> {p}, start |-> S]
    BY <1>2 DEF FromTop, Shown, Showing
  <2>4. proposal[p].text \in Wordings /\ proposal[p].text <= edits /\ proposal[p] # NoRow
    BY <2>1, <2>2 DEF IInv, RowsInv, Written, Row, NoRow, Gone
  <2>5. S \subseteq Nat
    BY <2>1, BoundsAssumption DEF Rows
  <2>6. \A q \in S : proposal[q] # NoRow
    BY <2>1 DEF NoRow
  <2>7. FromTop(S) \in Proposed
    BY <2>1, <2>2, <2>3, <2>4 DEF Proposed
  <2> HIDE DEF p
  <2>8. \A q \in S : q <= p => q = p
    BY <2>2, <2>5
  <2>9. edits \in Nat /\ proposal[p].text \in Nat
    BY <2>4, BoundsAssumption DEF IInv, RowsInv, Wordings
  <2>10. TruthfulIn(FromTop(S), proposal, edits)
    BY <2>2, <2>3, <2>4, <2>6, <2>8, <2>9 DEF TruthfulIn
  <2> QED BY <2>7, <2>10 DEF Content, Truthful
<1> QED BY <1>1, <1>2

(* After a skip nothing pending lies between what was shown and what is. *)
LEMMA NextTruthful ==
    ASSUME IInv, NEW on \in Proposed, Truthful(on)
    PROVE  Next(on) \in Content /\ Truthful(Next(on))
<1>1. CASE on.p \notin Pending \/ Following(on.p) = {}
  BY <1>1, HeadTruthful DEF Next
<1>2. CASE on.p \in Pending /\ Following(on.p) # {}
  <2> DEFINE p == First(Following(on.p))
  <2>0. on.p \in Nat /\ Rows \subseteq Nat
    BY BoundsAssumption DEF Rows, Proposed
  <2>1. Following(on.p) \subseteq Pending /\ Pending \subseteq Rows
    BY DEF Following, Pending, PendingIn
  <2>2. p \in Following(on.p) /\ \A q \in Following(on.p) : p <= q
    BY <1>2, <2>1, FirstRow
  <2>3. Next(on) = [shows |-> "proposal", p |-> p, text |-> proposal[p].text,
                    at |-> proposal[p].text, pass |-> on.pass \cup {p}, start |-> on.start]
    BY <1>2 DEF Next, Shown, Showing
  <2>4. p \in Rows /\ p \in Nat /\ proposal[p].status = "pending"
    BY <2>0, <2>1, <2>2 DEF Pending, PendingIn
  <2>5. proposal[p].text \in Wordings /\ proposal[p].text <= edits /\ proposal[p] # NoRow
    BY <2>4 DEF IInv, RowsInv, Written, Row, NoRow, Gone
  <2>6. on.start \subseteq Rows /\ on.pass \subseteq Rows /\ on.shows = "proposal"
    BY DEF Proposed
  <2>7. Next(on) \in Proposed
    BY <2>3, <2>4, <2>5, <2>6 DEF Proposed
  <2>8. ASSUME NEW q \in on.start, proposal[q].status = "pending", q <= p
        PROVE  q \in on.pass \cup {p}
    <3>1. q \in Rows /\ q \in Nat
      BY <2>0, <2>6
    <3>2. CASE q <= on.p
      BY <2>6, <2>8, <3>2 DEF Truthful, TruthfulIn
    <3>3. CASE q > on.p
      <4>1. q \in Following(on.p)
        <5>1. proposal[q].session \in Sessions
          BY <2>8, <3>1 DEF IInv, RowsInv, Row, NoRow, Gone
        <5> QED BY <2>8, <3>1, <3>3, <5>1 DEF Following, Pending, PendingIn
      <4> QED BY <2>2, <2>4, <2>8, <3>1, <4>1
    <3> QED BY <2>0, <3>1, <3>2, <3>3
  <2>9. \A q \in on.start : proposal[q] # NoRow
    BY <2>6 DEF Truthful, TruthfulIn
  <2> HIDE DEF p
  <2>10. TruthfulIn(Next(on), proposal, edits)
    BY <2>3, <2>4, <2>5, <2>8, <2>9 DEF TruthfulIn
  <2> QED BY <2>7, <2>10 DEF Content, Truthful
<1> QED BY <1>1, <1>2
-----------------------------------------------------------------------------
(* The ways a step changes the state.  Nothing happens to the rows... *)
LEMMA RowsStay ==
    ASSUME RowsInv, UNCHANGED rows
    PROVE  RowsInv' /\ RowsMoveOn
<1>1. RowsInv'
  BY DEF RowsInv, Written, rows
<1>2. edits \in Nat
  BY BoundsAssumption DEF RowsInv, Wordings
<1> QED BY <1>1, <1>2 DEF RowsMoveOn, rows

(* ... or nothing that is told or to be told... *)
LEMMA AnnouncesIs ==
    ASSUME NEW h \in Handlers, NEW p \in Rows
    PROVE  Announces(h, p) <=> Says(handler[h]) # NoNews /\ Says(handler[h]).p = p
BY BoundsAssumption DEF Announces, Says, NoNews, Rows

LEMMA AnnouncesNext ==
    ASSUME NEW h \in Handlers, NEW p \in Rows
    PROVE  Announces(h, p)' <=> Says(handler'[h]) # NoNews /\ Says(handler'[h]).p = p
BY BoundsAssumption DEF Announces, Says, NoNews, Rows

LEMMA NewsStay ==
    ASSUME NewsInv, UNCHANGED news,
           \A h \in Handlers : Says(handler'[h]) = Says(handler[h]),
           \A p \in Rows : proposal[p].status \in Verdicts \/ proposal'[p].status \in Verdicts =>
                              proposal'[p].status = proposal[p].status
    PROVE  NewsInv'
<1>1. ToldOnce'
  <2> SUFFICES ASSUME NEW p \in Rows
               PROVE  /\ told[p] # <<>> => proposal'[p].status \in Verdicts /\ told[p] = <<proposal'[p].status>>
                      /\ proposal'[p].status \in Verdicts =>
                            told[p] # <<>> \/ p \in unheard \/ \E h \in Handlers : Announces(h, p)'
    BY DEF ToldOnce, news
  <2>1. \A h \in Handlers : Announces(h, p) => Announces(h, p)'
    BY AnnouncesIs, AnnouncesNext
  <2> QED BY <2>1 DEF NewsInv, ToldOnce
<1> QED BY <1>1 DEF NewsInv, news

(* ... the rows move on, a goroutine goes from one place to another... *)
LEMMA RowsAndHandMove ==
    ASSUME IInv, RowsInv', RowsMoveOn, NewsInv', UNCHANGED card,
           NEW h \in Handlers, NEW state \in Interaction, HoldsIn(state, proposal', edits'),
           handler' = [handler EXCEPT ![h] = state]
    PROVE  IInv'
<1>1. CardsInv'
  <2>1. \A m \in Cards : card[m] \in Content /\ TruthfulIn(card[m], proposal, edits)
    BY DEF IInv, CardsInv, Truthful
  <2>2. \A m \in Cards : TruthfulIn(card[m], proposal', edits')
    BY <2>1, StaysTruthful DEF IInv
  <2> QED BY <2>2 DEF IInv, CardsInv, Truthful
<1>2. HandsInv'
  <2>1. handler' \in [Handlers -> Interaction]
    BY DEF IInv, HandsInv
  <2>2. ASSUME NEW k \in Handlers PROVE HoldsIn(handler'[k], proposal', edits')
    <3>1. CASE k = h
      BY <3>1 DEF IInv, HandsInv
    <3>2. CASE k # h
      <4>1. handler'[k] = handler[k] /\ handler[k] \in Interaction /\ HoldsIn(handler[k], proposal, edits)
        BY <3>2 DEF IInv, HandsInv
      <4>2. HoldsIn(handler[k], proposal', edits')
        BY <4>1, StillHolds DEF IInv
      <4> QED BY <4>1, <4>2
    <3> QED BY <3>1, <3>2
  <2> QED BY <2>1, <2>2 DEF HandsInv
<1> QED BY <1>1, <1>2 DEF IInv

(* ... only that... *)
LEMMA HandMoves ==
    ASSUME IInv, UNCHANGED <<rows, news, card>>,
           NEW h \in Handlers, NEW state \in Interaction, HoldsIn(state, proposal, edits),
           Says(state) = Says(handler[h]),
           handler' = [handler EXCEPT ![h] = state]
    PROVE  IInv'
<1>1. RowsInv' /\ RowsMoveOn
  BY RowsStay DEF IInv
<1>2. HoldsIn(state, proposal', edits')
  BY DEF rows
<1>3. NewsInv'
  <2>1. \A k \in Handlers : Says(handler'[k]) = Says(handler[k])
    BY DEF IInv, HandsInv
  <2> QED BY <2>1, NewsStay DEF IInv, rows
<1> QED BY <1>1, <1>2, <1>3, RowsAndHandMove

(* ... or a goroutine ends, and has written a message or not. *)
LEMMA MessageMoves ==
    ASSUME IInv, UNCHANGED rows, NewsInv',
           NEW h \in Handlers, handler' = [handler EXCEPT ![h] = Idle],
           NEW m \in Cards, NEW c \in Content, Truthful(c),
           card' = [card EXCEPT ![m] = c] \/ UNCHANGED card
    PROVE  IInv'
<1>1. RowsInv'
  BY RowsStay DEF IInv
<1>2. CardsInv'
  BY DEF IInv, CardsInv, Truthful, rows
<1>3. HandsInv'
  <2>1. Idle \in Interaction /\ HoldsIn(Idle, proposal, edits)
    BY DEF Idle, Interaction, HoldsIn
  <2> QED BY <2>1 DEF IInv, HandsInv, rows
<1> QED BY <1>1, <1>2, <1>3 DEF IInv
-----------------------------------------------------------------------------
LEMMA InitInv == Init => IInv
<1> SUFFICES ASSUME Init PROVE IInv
  OBVIOUS
<1>1. RowsInv
  BY BoundsAssumption DEF Init, RowsInv, Written, NoRow, Row, Wordings
<1>2. CardsInv
  BY DEF Init, CardsInv, Content, Finished, Truthful, TruthfulIn
<1>3. HandsInv
  BY DEF Init, HandsInv, Interaction, Idle, HoldsIn
<1>4. NewsInv
  <2>1. \A h \in Handlers : Says(handler[h]) = NoNews
    BY DEF Init, Says, Idle
  <2>2. \A p \in Rows : proposal[p].status \notin Verdicts /\ told[p] = <<>>
    BY DEF Init, NoRow, Verdicts
  <2> QED BY <2>1, <2>2 DEF Init, NewsInv, ToldOnce
<1> QED BY <1>1, <1>2, <1>3, <1>4 DEF IInv

(* An extraction removes pending rows and adds new ones. *)
LEMMA ReplaceInv ==
    ASSUME IInv, NEW s \in Sessions, Replace(s)
    PROVE  IInv'
<1>1. PICK batch \in SUBSET {p \in Rows : proposal[p] = NoRow} :
         proposal' = [p \in Rows |->
              IF p \in batch THEN [status |-> "pending", session |-> s, text |-> 0]
              ELSE IF p \in PendingIn({s}) THEN Gone ELSE proposal[p]]
  BY DEF Replace
<1>2. UNCHANGED <<card, handler, edits, news>>
  BY DEF Replace
<1>3. edits \in Nat /\ 0 \in Wordings
  BY BoundsAssumption DEF IInv, RowsInv, Wordings
<1>4. RowsInv'
  <2>1. proposal' \in [Rows -> Row \cup {NoRow, Gone}]
    BY <1>1, <1>3 DEF IInv, RowsInv, Row
  <2>3. Written'
    <3>1. ASSUME NEW p \in Rows, proposal'[p] \in Row PROVE proposal'[p].text <= edits
      <4>1. CASE p \in batch
        BY <1>1, <1>3, <4>1
      <4>2. CASE p \notin batch
        <5>1. proposal'[p] = proposal[p]
          BY <1>1, <3>1, <4>2 DEF Row, Gone
        <5> QED BY <3>1, <5>1 DEF IInv, RowsInv, Written
      <4> QED BY <4>1, <4>2
    <3> QED BY <1>2, <3>1 DEF Written
  <2> QED BY <1>2, <2>1, <2>3 DEF IInv, RowsInv
<1>5. RowsMoveOn
  <2>1. ASSUME NEW p \in Rows, proposal[p] # NoRow
        PROVE  proposal'[p] = Gone \/ proposal'[p] = proposal[p]
    BY <1>1, <2>1
  <2> QED BY <1>2, <1>3, <2>1 DEF RowsMoveOn, NoRow, Gone
<1>6. CardsInv'
  <2>1. \A m \in Cards : card[m] \in Content /\ TruthfulIn(card[m], proposal, edits)
    BY DEF IInv, CardsInv, Truthful
  <2>2. \A m \in Cards : TruthfulIn(card[m], proposal', edits')
    BY <1>4, <1>5, <2>1, StaysTruthful DEF IInv
  <2> QED BY <1>2, <2>2 DEF IInv, CardsInv, Truthful
<1>7. HandsInv'
  <2>1. \A h \in Handlers : handler[h] \in Interaction /\ HoldsIn(handler[h], proposal, edits)
    BY DEF IInv, HandsInv
  <2>2. \A h \in Handlers : HoldsIn(handler[h], proposal', edits')
    BY <1>4, <1>5, <2>1, StillHolds DEF IInv
  <2> QED BY <1>2, <2>2 DEF IInv, HandsInv
<1>8. NewsInv'
  <2>1. \A p \in Rows : proposal[p].status \in Verdicts \/ proposal'[p].status \in Verdicts =>
                            proposal'[p].status = proposal[p].status
    BY <1>1 DEF PendingIn, NoRow, Gone, Verdicts
  <2> QED BY <1>2, <2>1, NewsStay DEF IInv
<1> QED BY <1>4, <1>6, <1>7, <1>8 DEF IInv

(* A decision settles a row that was pending. *)
LEMMA DecideInv ==
    ASSUME IInv, NEW h \in Handlers, Decide(h)
    PROVE  IInv'
<1> DEFINE p == handler[h].p
           verdict == Verdict(handler[h].verb)
           possible == proposal[p].status = "pending"
           says == IF possible THEN News(p, verdict) ELSE NoNews
           state == [pc |-> "decided", m |-> handler[h].m, says |-> says]
<1>1. handler[h].pc = "found" /\ handler[h] \in Interaction
  BY DEF Decide, Decides, At, IInv, HandsInv
<1>2. p \in Rows /\ handler[h].m \in Cards /\ verdict \in Verdicts
  BY <1>1 DEF Interaction, Verdict, Verdicts
<1>3. UNCHANGED <<card, edits, news>> /\ handler' = [handler EXCEPT ![h] = state]
  BY DEF Decide, Decides, Becomes
<1>4. state \in Interaction /\ HoldsIn(state, proposal', edits') /\ HoldsIn(state, proposal, edits)
  <2>1. says \in Saying
    BY <1>2 DEF Saying, News
  <2> HIDE DEF says
  <2> QED BY <1>2, <2>1 DEF Interaction, HoldsIn
<1>5. Says(state) = says /\ Says(handler[h]) = NoNews
  BY <1>1 DEF Says
<1>6. \A k \in Handlers \ {h} : handler'[k] = handler[k]
  BY <1>3 DEF IInv, HandsInv
<1>7. handler'[h] = state
  BY <1>3 DEF IInv, HandsInv
<1>8. CASE possible
  <2>1. proposal' = [proposal EXCEPT ![p].status = verdict]
    BY <1>8 DEF Decide, Decides
  <2>3. proposal[p] \in Row
    BY <1>2, <1>8 DEF IInv, RowsInv, NoRow, Gone
  <2>4. /\ proposal'[p] \in Row /\ proposal'[p].text = proposal[p].text
        /\ proposal'[p].status = verdict
        /\ \A q \in Rows \ {p} : proposal'[q] = proposal[q]
    BY <1>2, <2>1, <2>3 DEF IInv, RowsInv, Row, Verdicts
  <2>6. proposal' \in [Rows -> Row \cup {NoRow, Gone}]
    BY <1>2, <2>1, <2>4 DEF IInv, RowsInv
  <2>8. Written'
    BY <1>2, <1>3, <2>3, <2>4 DEF IInv, RowsInv, Written
  <2>9. RowsInv'
    BY <1>3, <2>6, <2>8 DEF IInv, RowsInv
  <2>10. RowsMoveOn
    <3>1. edits \in Nat
      BY BoundsAssumption DEF IInv, RowsInv, Wordings
    <3>2. proposal'[p] # NoRow /\ proposal'[p].status # "pending"
      BY <1>2, <2>4 DEF Row, NoRow, Verdicts
    <3> QED BY <1>2, <1>3, <2>4, <3>1, <3>2 DEF RowsMoveOn
  <2>11. says = News(p, verdict) /\ says # NoNews /\ says.p = p /\ says.verdict = verdict
    BY <1>2, <1>8, BoundsAssumption DEF News, NoNews, Rows
  <2>12. told[p] = <<>> /\ \A k \in Handlers : Says(handler[k]) # NoNews => Says(handler[k]).p # p
    BY <1>2, <1>8 DEF IInv, NewsInv, ToldOnce, Verdicts
  <2>13. \A k \in Handlers \ {h} : Says(handler'[k]) = Says(handler[k])
    BY <1>6
  <2>14. Says(handler'[h]) = says
    BY <1>5, <1>7
  <2>15. \A q \in Rows : q = p => Announces(h, q)'
    BY <1>2, <2>11, <2>14, AnnouncesNext
  <2>16. ToldOnce'
    <3> SUFFICES ASSUME NEW q \in Rows
                 PROVE  /\ told[q] # <<>> => proposal'[q].status \in Verdicts /\ told[q] = <<proposal'[q].status>>
                        /\ proposal'[q].status \in Verdicts =>
                              told[q] # <<>> \/ q \in unheard \/ \E k \in Handlers : Announces(k, q)'
      BY <1>3 DEF ToldOnce, news
    <3>1. CASE q = p
      BY <1>2, <2>12, <2>15, <3>1
    <3>2. CASE q # p
      <4>1. \A k \in Handlers : Announces(k, q) => k # h
        BY <1>5, AnnouncesIs
      <4>2. \A k \in Handlers : Announces(k, q) => Announces(k, q)'
        BY <2>13, <4>1, AnnouncesIs, AnnouncesNext
      <4> QED BY <2>4, <3>2, <4>2 DEF IInv, NewsInv, ToldOnce
    <3> QED BY <3>1, <3>2
  <2> HIDE DEF says, p, verdict, state
  <2>17. ASSUME NEW k \in Handlers, Says(handler'[k]) # NoNews
         PROVE  /\ Says(handler'[k]).p \in Rows /\ told[Says(handler'[k]).p] = <<>>
                /\ Says(handler'[k]).verdict \in Verdicts
                /\ proposal'[Says(handler'[k]).p].status = Says(handler'[k]).verdict
    <3>1. CASE k = h
      BY <1>2, <2>4, <2>11, <2>12, <2>14, <3>1
    <3>2. CASE k # h
      BY <2>4, <2>12, <2>13, <2>17, <3>2 DEF IInv, NewsInv
    <3> QED BY <3>1, <3>2
  <2>18. ASSUME NEW k \in Handlers, NEW l \in Handlers, Says(handler'[k]) # NoNews,
                Says(handler'[k]).p = Says(handler'[l]).p
         PROVE  k = l
    <3>1. \A j \in Handlers \ {h} : Says(handler'[j]) # NoNews => Says(handler'[j]).p # p
      BY <2>12, <2>13
    <3>2. Says(handler'[l]) # NoNews
      <4>1. Says(handler'[k]).p # 0
        BY <2>17, <2>18, BoundsAssumption DEF Rows
      <4> QED BY <2>18, <4>1 DEF NoNews
    <3> QED BY <2>11, <2>13, <2>14, <2>18, <3>1, <3>2 DEF IInv, NewsInv
  <2>19. NewsInv'
    BY <1>3, <2>16, <2>17, <2>18 DEF IInv, NewsInv, news
  <2> QED BY <1>3, <1>4, <2>9, <2>10, <2>19, RowsAndHandMove
<1>9. CASE ~possible
  <2>1. UNCHANGED rows
    BY <1>3, <1>9 DEF Decide, Decides, rows
  <2>2. Says(state) = Says(handler[h])
    BY <1>5, <1>9
  <2> HIDE DEF state
  <2> QED BY <1>3, <1>4, <2>1, <2>2, HandMoves
<1> QED BY <1>8, <1>9

(* The Edit form gives a row that is pending a text newer than all others. *)
LEMMA SubmitFormInv ==
    ASSUME IInv, NEW h \in Handlers, SubmitForm(h)
    PROVE  IInv'
<1> DEFINE p == handler[h].p
           state == [pc |-> "saved", p |-> p, old |-> proposal[p].text]
<1>1. handler[h].pc = "form" /\ handler[h] \in Interaction
  BY DEF SubmitForm, At, IInv, HandsInv
<1>2. p \in Rows
  BY <1>1 DEF Interaction
<1>3. /\ proposal[p].status = "pending" /\ edits < MaxEdits
      /\ proposal' = [proposal EXCEPT ![p].text = edits + 1] /\ edits' = edits + 1
      /\ handler' = [handler EXCEPT ![h] = state] /\ UNCHANGED <<card, news>>
  BY DEF SubmitForm, Becomes
<1>4. edits \in Nat /\ edits' \in Wordings
  BY <1>3, BoundsAssumption DEF IInv, RowsInv, Wordings
<1>5. proposal[p] \in Row
  BY <1>2, <1>3 DEF IInv, RowsInv, NoRow, Gone
<1>6. /\ proposal'[p] \in Row /\ proposal'[p].text = edits + 1 /\ proposal'[p].status = "pending"
      /\ \A q \in Rows \ {p} : proposal'[q] = proposal[q]
  BY <1>2, <1>3, <1>4, <1>5 DEF IInv, RowsInv, Row
<1>7. proposal' \in [Rows -> Row \cup {NoRow, Gone}]
  BY <1>2, <1>3, <1>6 DEF IInv, RowsInv
<1>8. NewsInv'
  <2>1. \A q \in Rows : proposal[q].status \in Verdicts \/ proposal'[q].status \in Verdicts =>
                            proposal'[q].status = proposal[q].status
    BY <1>3, <1>6 DEF Verdicts
  <2>2. \A k \in Handlers : Says(handler'[k]) = Says(handler[k])
    BY <1>1, <1>3 DEF IInv, HandsInv, Says
  <2> QED BY <1>3, <2>1, <2>2, NewsStay DEF IInv
<1>9. Written'
  <2>1. ASSUME NEW q \in Rows, proposal'[q] \in Row PROVE proposal'[q].text <= edits + 1
    <3>1. CASE q = p
      BY <1>4, <1>6, <3>1
    <3>2. CASE q # p
      <4>1. proposal[q] \in Row /\ proposal'[q] = proposal[q] /\ proposal[q].text \in Nat
        BY <1>6, <2>1, <3>2, BoundsAssumption DEF Row, Wordings
      <4>2. proposal[q].text <= edits
        BY <4>1 DEF IInv, RowsInv, Written
      <4> QED BY <1>4, <4>1, <4>2
    <3> QED BY <3>1, <3>2
  <2> QED BY <1>3, <2>1 DEF Written
<1>10. RowsInv'
  BY <1>3, <1>4, <1>7, <1>9 DEF IInv, RowsInv
<1>11. RowsMoveOn
  <2>1. proposal'[p] # NoRow
    BY <1>6 DEF Row, NoRow
  <2> QED BY <1>2, <1>3, <1>4, <1>6, <2>1 DEF RowsMoveOn
<1>12. state \in Interaction
  BY <1>2, <1>5 DEF Interaction, Row
<1>13. HoldsIn(state, proposal', edits')
  BY <1>6 DEF HoldsIn, Row, NoRow
<1> HIDE DEF state
<1> QED BY <1>3, <1>8, <1>10, <1>11, <1>12, <1>13, RowsAndHandMove

(* A goroutine at a click knows the message and the row. *)
LEMMA AtClick ==
    ASSUME IInv, NEW h \in Handlers, handler[h].pc \in {"clicked", "found"}
    PROVE  /\ handler[h].p \in Rows /\ handler[h].m \in Cards /\ handler[h].verb \in Verbs
           /\ handler[h].on \in Proposed /\ Truthful(handler[h].on)
           /\ handler[h].on.p = handler[h].p /\ proposal[handler[h].p] # NoRow
           /\ handler[h] \in
                [pc : {"clicked", "found"}, verb : Verbs, m : Cards, p : Rows, on : Proposed]
<1>1. handler[h] \in Interaction /\ HoldsIn(handler[h], proposal, edits)
  BY DEF IInv, HandsInv
<1>2. handler[h] \in [pc : {"clicked", "found"}, verb : Verbs, m : Cards, p : Rows, on : Proposed]
  BY <1>1 DEF Interaction
<1> QED BY <1>1, <1>2 DEF HoldsIn, Truthful, TruthfulIn, Proposed

(* A goroutine that ends leaves nothing to know. *)
LEMMA IdleKnowsNothing ==
    Idle \in Interaction /\ HoldsIn(Idle, proposal, edits) /\ Says(Idle) = NoNews
BY DEF Idle, Interaction, HoldsIn, Says

(* /review-session, from the listing to its message. *)
LEMMA CommandInv ==
    ASSUME IInv, NEW h \in Handlers
    PROVE  /\ \A S \in SUBSET Sessions : HandleReviewSession(h, S) => IInv'
           /\ \A m \in Cards : CreateMessage(h, m) => IInv'
           /\ CreateFails(h) => IInv'
<1>1. ASSUME NEW S \in SUBSET Sessions, HandleReviewSession(h, S) PROVE IInv'
  <2> DEFINE state == [pc |-> "create", content |-> FromTop(PendingIn(S))]
  <2>1. PendingIn(S) \in SUBSET Pending
    BY DEF Pending, PendingIn
  <2>2. FromTop(PendingIn(S)) \in Content /\ Truthful(FromTop(PendingIn(S)))
    BY <2>1, HeadTruthful
  <2>3. state \in Interaction /\ HoldsIn(state, proposal, edits) /\ Says(state) = Says(handler[h])
    BY <1>1, <2>2 DEF HandleReviewSession, At, Interaction, HoldsIn, Truthful, Says
  <2>4. handler' = [handler EXCEPT ![h] = state] /\ UNCHANGED <<rows, news, card>>
    BY <1>1 DEF HandleReviewSession, Becomes
  <2> HIDE DEF state
  <2> QED BY <2>3, <2>4, HandMoves
<1>2. ASSUME NEW m \in Cards, CreateMessage(h, m) PROVE IInv'
  <2>1. handler[h].pc = "create" /\ handler[h] \in Interaction /\ HoldsIn(handler[h], proposal, edits)
    BY <1>2 DEF CreateMessage, At, IInv, HandsInv
  <2>2. handler[h].content \in Content /\ Truthful(handler[h].content)
    BY <2>1 DEF Interaction, HoldsIn, Truthful
  <2>3. /\ card' = [card EXCEPT ![m] = handler[h].content]
        /\ handler' = [handler EXCEPT ![h] = Idle] /\ UNCHANGED <<rows, news>>
    BY <1>2 DEF CreateMessage, Ends, Becomes
  <2>4. NewsInv'
    <3>1. \A k \in Handlers : Says(handler'[k]) = Says(handler[k])
      BY <2>1, <2>3, IdleKnowsNothing DEF IInv, HandsInv, Says
    <3> QED BY <2>3, <3>1, NewsStay DEF IInv, rows
  <2> QED BY <2>2, <2>3, <2>4, MessageMoves
<1>3. ASSUME CreateFails(h) PROVE IInv'
  <2>1. handler' = [handler EXCEPT ![h] = Idle] /\ UNCHANGED <<rows, news, card>>
    BY <1>3 DEF CreateFails, Ends, Becomes
  <2>2. Says(handler[h]) = NoNews
    BY <1>3 DEF CreateFails, At, Says
  <2> QED BY <2>1, <2>2, IdleKnowsNothing, HandMoves
<1> QED BY <1>1, <1>2, <1>3

(* A click, until it has found its row. *)
LEMMA ClickInv ==
    ASSUME IInv, NEW h \in Handlers
    PROVE  /\ \A m \in Cards, verb \in Verbs : Click(h, m, verb) => IInv'
           /\ Lookup(h) => IInv'
           /\ LookupVanished(h) => IInv'
<1>1. ASSUME NEW m \in Cards, NEW verb \in Verbs, Click(h, m, verb) PROVE IInv'
  <2> DEFINE state == [pc |-> "clicked", verb |-> verb, m |-> m, p |-> card[m].p, on |-> card[m]]
  <2>1. card[m].shows = "proposal" /\ card[m] \in Content /\ Truthful(card[m])
    BY <1>1 DEF Click, IInv, CardsInv
  <2>2. card[m] \in Proposed /\ card[m].p \in Rows
    BY <2>1 DEF Content, Proposed
  <2>3. state \in Interaction
    BY <2>2 DEF Interaction
  <2>4. HoldsIn(state, proposal, edits) /\ Says(state) = Says(handler[h])
    BY <1>1, <2>1 DEF Click, At, HoldsIn, Truthful, Says
  <2>5. handler' = [handler EXCEPT ![h] = state] /\ UNCHANGED <<rows, news, card>>
    BY <1>1 DEF Click, Becomes
  <2> HIDE DEF state
  <2> QED BY <2>3, <2>4, <2>5, HandMoves
<1>2. ASSUME Lookup(h) PROVE IInv'
  <2> DEFINE state == [pc |-> "found", verb |-> handler[h].verb, m |-> handler[h].m,
                       p |-> handler[h].p, on |-> handler[h].on]
  <2>1. handler[h].pc = "clicked"
    BY <1>2 DEF Lookup, At
  <2>2. handler' = [handler EXCEPT ![h] = state] /\ UNCHANGED <<rows, news, card>>
    <3>0. handler[h] \in
            [pc : {"clicked", "found"}, verb : Verbs, m : Cards, p : Rows, on : Proposed]
      BY <2>1, AtClick
    <3>1. [handler[h] EXCEPT !.pc = "found"] = state
      BY <3>0
    <3>2. handler' = [handler EXCEPT ![h] = [handler[h] EXCEPT !.pc = "found"]]
      BY <1>2 DEF Lookup, MovesTo, IInv, HandsInv
    <3> QED BY <1>2, <3>1, <3>2 DEF Lookup
  <2>3. state \in Interaction /\ HoldsIn(state, proposal, edits) /\ Says(state) = Says(handler[h])
    BY <2>1, AtClick DEF Interaction, HoldsIn, Truthful, Says
  <2> HIDE DEF state
  <2> QED BY <2>2, <2>3, HandMoves
<1>3. ASSUME LookupVanished(h) PROVE IInv'
  <2> DEFINE state == [pc |-> "update", m |-> handler[h].m, content |-> Finished("caught up"),
                       says |-> NoNews]
  <2>1. handler[h].m \in Cards
    BY <1>3, AtClick DEF LookupVanished, At
  <2>2. state \in Interaction /\ HoldsIn(state, proposal, edits) /\ Says(state) = Says(handler[h])
    BY <1>3, <2>1 DEF LookupVanished, At, Interaction, HoldsIn, Content, Finished, TruthfulIn, Says, Saying
  <2>3. handler' = [handler EXCEPT ![h] = state] /\ UNCHANGED <<rows, news, card>>
    BY <1>3 DEF LookupVanished, Becomes
  <2> HIDE DEF state
  <2> QED BY <2>2, <2>3, HandMoves
<1> QED BY <1>1, <1>2, <1>3

(* The Edit form, but for the saving of it. *)
LEMMA FormInv ==
    ASSUME IInv, NEW h \in Handlers
    PROVE  /\ OpenForm(h) => IInv'
           /\ DismissForm(h) \/ FormRefused(h) => IInv'
           /\ Reshow(h) => IInv'
<1>1. ASSUME OpenForm(h) PROVE IInv'
  <2> DEFINE state == [pc |-> "form", p |-> handler[h].p]
  <2>1. handler[h].p \in Rows /\ proposal[handler[h].p] # NoRow
    BY <1>1, AtClick DEF OpenForm, At
  <2>2. state \in Interaction /\ HoldsIn(state, proposal, edits) /\ Says(state) = Says(handler[h])
    BY <1>1, <2>1 DEF OpenForm, At, Interaction, HoldsIn, Says
  <2>3. handler' = [handler EXCEPT ![h] = state] /\ UNCHANGED <<rows, news, card>>
    BY <1>1 DEF OpenForm, Becomes
  <2> HIDE DEF state
  <2> QED BY <2>2, <2>3, HandMoves
<1>2. ASSUME DismissForm(h) \/ FormRefused(h) PROVE IInv'
  <2>1. handler' = [handler EXCEPT ![h] = Idle] /\ UNCHANGED <<rows, news, card>>
    BY <1>2 DEF DismissForm, FormRefused, Ends, Becomes
  <2>2. Says(handler[h]) = NoNews
    BY <1>2 DEF DismissForm, FormRefused, At, Says
  <2> QED BY <2>1, <2>2, IdleKnowsNothing, HandMoves
<1>3. ASSUME Reshow(h) PROVE IInv'
  <2> DEFINE p == handler[h].p
             text == proposal[p].text
             c == [shows |-> "proposal", p |-> p, text |-> text, at |-> text, pass |-> {p}, start |-> {p}]
             state == [pc |-> "create", content |-> c]
  <2>1. p \in Rows /\ proposal[p] # NoRow
    BY <1>3 DEF Reshow, At, IInv, HandsInv, Interaction, HoldsIn
  <2>2. UNCHANGED <<rows, news, card>> /\ Says(handler[h]) = NoNews
    BY <1>3 DEF Reshow, Reshown, At, Says
  <2>3. CASE proposal[p] = Gone
    <3>1. handler' = [handler EXCEPT ![h] = Idle]
      BY <1>3, <2>3 DEF Reshow, Reshown, Ends, Becomes
    <3> QED BY <2>2, <3>1, IdleKnowsNothing, HandMoves
  <2>4. CASE proposal[p] # Gone
    <3>1. handler' = [handler EXCEPT ![h] = state]
      BY <1>3, <2>4 DEF Reshow, Reshown, Showing, Becomes
    <3>2. proposal[p] \in Row
      BY <2>1, <2>4 DEF IInv, RowsInv
    <3>3. text \in Wordings /\ text <= edits
      BY <2>1, <3>2 DEF IInv, RowsInv, Written, Row
    <3>4. c \in Content
      BY <2>1, <3>3 DEF Content, Proposed
    <3>5. TruthfulIn(c, proposal, edits)
      BY <2>1, <3>3 DEF TruthfulIn
    <3> HIDE DEF c
    <3>6. state \in Interaction /\ HoldsIn(state, proposal, edits) /\ Says(state) = NoNews
      BY <3>4, <3>5 DEF Interaction, HoldsIn, Says
    <3> HIDE DEF state
    <3> QED BY <2>2, <3>1, <3>6, HandMoves
  <2> QED BY <2>3, <2>4
<1> QED BY <1>1, <1>2, <1>3

(* Whoever announces a decision is the only one to do so... *)
LEMMA UpdateNews ==
    ASSUME IInv, NEW h \in Handlers, UpdateMessage(h)
    PROVE  NewsInv'
<1> DEFINE says == handler[h].says
<1>1. handler[h].pc = "update" /\ handler[h] \in Interaction
  BY DEF UpdateMessage, At, IInv, HandsInv
<1>2. Says(handler[h]) = says /\ says \in Saying
  BY <1>1 DEF Says, Interaction
<1>3. handler' = [handler EXCEPT ![h] = Idle] /\ UNCHANGED <<rows, unheard>>
  BY DEF UpdateMessage, Ends, Becomes
<1>4. Says(handler'[h]) = NoNews /\ \A k \in Handlers \ {h} : Says(handler'[k]) = Says(handler[k])
  BY <1>3, IdleKnowsNothing DEF IInv, HandsInv
<1>5. CASE says = NoNews
  <2>1. UNCHANGED news
    BY <1>3, <1>5 DEF UpdateMessage, news
  <2> QED BY <1>2, <1>3, <1>4, <1>5, <2>1, NewsStay DEF IInv, rows
<1>6. CASE says # NoNews
  <2> DEFINE p == says.p
  <2>1. p \in Rows /\ told[p] = <<>> /\ says.verdict \in Verdicts /\ proposal[p].status = says.verdict
    BY <1>2, <1>6 DEF IInv, NewsInv
  <2>2. told' = [told EXCEPT ![p] = Append(@, says.verdict)]
    BY <1>6 DEF UpdateMessage
  <2>3. told'[p] = <<says.verdict>> /\ \A q \in Rows \ {p} : told'[q] = told[q]
    BY <2>1, <2>2 DEF IInv, NewsInv
  <2>4. told' \in [Rows -> Seq(Verdicts)]
    BY <2>1, <2>2, <2>3 DEF IInv, NewsInv
  <2>5. \A k \in Handlers \ {h} : Says(handler[k]) # NoNews => Says(handler[k]).p # p
    BY <1>2, <1>6, <2>1 DEF IInv, NewsInv
  <2>9. says.p = p
    OBVIOUS
  <2> HIDE DEF p, says
  <2>6. ToldOnce'
    <3> SUFFICES ASSUME NEW q \in Rows
                 PROVE  /\ told'[q] # <<>> => proposal[q].status \in Verdicts /\ told'[q] = <<proposal[q].status>>
                        /\ proposal[q].status \in Verdicts =>
                              told'[q] # <<>> \/ q \in unheard \/ \E k \in Handlers : Announces(k, q)'
      BY <1>3 DEF ToldOnce, rows
    <3>1. CASE q = p
      BY <2>1, <2>3, <3>1
    <3>2. CASE q # p
      <4>1. \A k \in Handlers : Announces(k, q) => Announces(k, q)'
        BY <1>2, <1>4, <2>9, <3>2, AnnouncesIs, AnnouncesNext
      <4> QED BY <2>3, <3>2, <4>1 DEF IInv, NewsInv, ToldOnce
    <3> QED BY <3>1, <3>2
  <2>7. ASSUME NEW k \in Handlers, Says(handler'[k]) # NoNews
        PROVE  /\ k # h /\ Says(handler'[k]).p \in Rows /\ told'[Says(handler'[k]).p] = <<>>
               /\ Says(handler'[k]).verdict \in Verdicts
               /\ proposal[Says(handler'[k]).p].status = Says(handler'[k]).verdict
    BY <1>4, <2>3, <2>5, <2>7 DEF IInv, NewsInv
  <2>8. ASSUME NEW k \in Handlers, NEW l \in Handlers, Says(handler'[k]) # NoNews,
               Says(handler'[k]).p = Says(handler'[l]).p
        PROVE  k = l
    <3>1. k # h /\ Says(handler'[k]).p # 0
      BY <2>7, <2>8, BoundsAssumption DEF Rows
    <3>2. l # h
      BY <1>4, <2>8, <3>1 DEF NoNews
    <3> QED BY <1>4, <2>8, <3>1, <3>2 DEF IInv, NewsInv
  <2> QED BY <1>3, <2>4, <2>6, <2>7, <2>8 DEF IInv, NewsInv, rows
<1> QED BY <1>5, <1>6

(* ... or fails, and nobody else does. *)
LEMMA FailsNews ==
    ASSUME IInv, NEW h \in Handlers, ButtonFails(h)
    PROVE  NewsInv'
<1>1. handler' = [handler EXCEPT ![h] = Idle] /\ UNCHANGED <<rows, told>>
      /\ unheard' = unheard \cup {p \in Rows : Announces(h, p)}
  BY DEF ButtonFails, Ends, Becomes
<1>2. Says(handler'[h]) = NoNews /\ \A k \in Handlers \ {h} : Says(handler'[k]) = Says(handler[k])
  BY <1>1, IdleKnowsNothing DEF IInv, HandsInv
<1>3. ToldOnce'
  <2> SUFFICES ASSUME NEW q \in Rows
               PROVE  /\ told[q] # <<>> => proposal[q].status \in Verdicts /\ told[q] = <<proposal[q].status>>
                      /\ proposal[q].status \in Verdicts =>
                            told[q] # <<>> \/ q \in unheard' \/ \E k \in Handlers : Announces(k, q)'
    BY <1>1 DEF ToldOnce, rows
  <2>1. \A k \in Handlers : Announces(k, q) => Announces(k, q)' \/ q \in unheard'
    BY <1>1, <1>2, AnnouncesIs, AnnouncesNext
  <2> QED BY <1>1, <2>1 DEF IInv, NewsInv, ToldOnce
<1>4. ASSUME NEW k \in Handlers, NEW l \in Handlers, Says(handler'[k]) # NoNews,
             Says(handler'[k]).p = Says(handler'[l]).p
      PROVE  k = l
  <2>1. k # h /\ Says(handler'[k]).p # 0
    BY <1>2, <1>4, BoundsAssumption DEF IInv, NewsInv, Rows
  <2>2. l # h
    BY <1>2, <1>4, <2>1 DEF NoNews
  <2> QED BY <1>2, <1>4, <2>1, <2>2 DEF IInv, NewsInv
<1> QED BY <1>1, <1>2, <1>3, <1>4 DEF IInv, NewsInv, rows

(* What comes after a verdict or a Skip. *)
LEMMA AdvanceInv ==
    ASSUME IInv, NEW h \in Handlers
    PROVE  /\ AdvanceToHead(h) => IInv'
           /\ Skip(h) => IInv'
           /\ UpdateMessage(h) => IInv'
           /\ ButtonFails(h) => IInv'
<1>1. ASSUME AdvanceToHead(h) PROVE IInv'
  <2> DEFINE state == [pc |-> "update", m |-> handler[h].m, content |-> FromTop(Pending),
                       says |-> handler[h].says]
  <2>1. handler[h].pc = "decided" /\ handler[h].m \in Cards /\ handler[h].says \in Saying
    BY <1>1 DEF AdvanceToHead, At, IInv, HandsInv, Interaction
  <2>2. FromTop(Pending) \in Content /\ Truthful(FromTop(Pending))
    BY HeadTruthful
  <2>3. state \in Interaction /\ HoldsIn(state, proposal, edits) /\ Says(state) = Says(handler[h])
    BY <2>1, <2>2 DEF Interaction, HoldsIn, Truthful, Says
  <2>4. handler' = [handler EXCEPT ![h] = state] /\ UNCHANGED <<rows, news, card>>
    BY <1>1 DEF AdvanceToHead, Becomes
  <2> HIDE DEF state
  <2> QED BY <2>3, <2>4, HandMoves
<1>2. ASSUME Skip(h) PROVE IInv'
  <2> DEFINE state == [pc |-> "update", m |-> handler[h].m, content |-> Next(handler[h].on),
                       says |-> NoNews]
  <2>1. handler[h].m \in Cards /\ handler[h].on \in Proposed /\ Truthful(handler[h].on)
    BY <1>2, AtClick DEF Skip, At
  <2>2. Next(handler[h].on) \in Content /\ Truthful(Next(handler[h].on))
    BY <2>1, NextTruthful
  <2>3. state \in Interaction /\ HoldsIn(state, proposal, edits) /\ Says(state) = Says(handler[h])
    BY <1>2, <2>1, <2>2 DEF Skip, At, Interaction, HoldsIn, Truthful, Says, Saying
  <2>4. handler' = [handler EXCEPT ![h] = state] /\ UNCHANGED <<rows, news, card>>
    BY <1>2 DEF Skip, Becomes
  <2> HIDE DEF state
  <2> QED BY <2>3, <2>4, HandMoves
<1>3. ASSUME UpdateMessage(h) PROVE IInv'
  <2>1. handler[h].pc = "update" /\ handler[h] \in Interaction /\ HoldsIn(handler[h], proposal, edits)
    BY <1>3 DEF UpdateMessage, At, IInv, HandsInv
  <2>2. handler[h].m \in Cards /\ handler[h].content \in Content /\ Truthful(handler[h].content)
    BY <2>1 DEF Interaction, HoldsIn, Truthful
  <2>3. /\ card' = [card EXCEPT ![handler[h].m] = handler[h].content]
        /\ handler' = [handler EXCEPT ![h] = Idle] /\ UNCHANGED rows
    BY <1>3 DEF UpdateMessage, Ends, Becomes
  <2> QED BY <1>3, <2>2, <2>3, UpdateNews, MessageMoves
<1>4. ASSUME ButtonFails(h) PROVE IInv'
  <2>1. handler[h].m \in Cards
    BY <1>4 DEF ButtonFails, Clicked, IInv, HandsInv, Interaction
  <2>2. Finished("failed") \in Content /\ Truthful(Finished("failed"))
    BY DEF Finished, Content, Truthful, TruthfulIn
  <2>3. /\ card' = [card EXCEPT ![handler[h].m] = Finished("failed")] \/ UNCHANGED card
        /\ handler' = [handler EXCEPT ![h] = Idle] /\ UNCHANGED rows
    BY <1>4 DEF ButtonFails, Ends, Becomes
  <2> QED BY <1>4, <2>1, <2>2, <2>3, FailsNews, MessageMoves
<1> QED BY <1>1, <1>2, <1>3, <1>4

(* A message is dismissed. *)
LEMMA DismissInv ==
    ASSUME IInv, NEW m \in Cards, Dismiss(m)
    PROVE  IInv'
<1>1. RowsInv' /\ HandsInv'
  BY RowsStay DEF Dismiss, IInv, HandsInv, rows
<1>2. CardsInv'
  BY DEF Dismiss, IInv, CardsInv, Content, Finished, Truthful, TruthfulIn, rows
<1>3. NewsInv'
  BY NewsStay DEF Dismiss, IInv, rows
<1> QED BY <1>1, <1>2, <1>3 DEF IInv

LEMMA StepInv ==
    ASSUME IInv, [ReviewStep]_vars
    PROVE  IInv'
<1>1. CASE UNCHANGED vars
  <2>1. RowsInv'
    BY <1>1, RowsStay DEF IInv, vars
  <2>2. NewsInv'
    BY <1>1, NewsStay DEF IInv, vars, rows
  <2> QED BY <1>1, <2>1, <2>2 DEF IInv, CardsInv, HandsInv, Truthful, vars, rows
<1>2. CASE ReviewStep
  <2>1. CASE \E s \in Sessions : Replace(s)
    BY <2>1, ReplaceInv
  <2>2. CASE \E m \in Cards : Dismiss(m)
    BY <2>2, DismissInv
  <2>3. ASSUME NEW h \in Handlers,
               \/ \E S \in {{s} : s \in Sessions} \cup {Sessions} : HandleReviewSession(h, S)
               \/ \E m \in Cards : CreateMessage(h, m)
               \/ CreateFails(h)
        PROVE  IInv'
    BY <2>3, CommandInv
  <2>4. ASSUME NEW h \in Handlers,
               \/ \E m \in Cards, verb \in Verbs : Click(h, m, verb)
               \/ Lookup(h) \/ LookupVanished(h)
        PROVE  IInv'
    BY <2>4, ClickInv
  <2>5. ASSUME NEW h \in Handlers, OpenForm(h) \/ DismissForm(h) \/ FormRefused(h) \/ Reshow(h)
        PROVE  IInv'
    BY <2>5, FormInv
  <2>6. ASSUME NEW h \in Handlers, SubmitForm(h) \/ Decide(h)
        PROVE  IInv'
    BY <2>6, SubmitFormInv, DecideInv
  <2>7. ASSUME NEW h \in Handlers,
               AdvanceToHead(h) \/ Skip(h) \/ UpdateMessage(h) \/ ButtonFails(h)
        PROVE  IInv'
    BY <2>7, AdvanceInv
  <2> QED BY <1>2, <2>1, <2>2, <2>3, <2>4, <2>5, <2>6, <2>7 DEF ReviewStep, Verbs
<1> QED BY <1>1, <1>2

(* The inductive invariant holds. *)
LEMMA Invariant == Spec => []IInv
BY InitInv, StepInv, PTL DEF Spec
-----------------------------------------------------------------------------
(* However many clicks on however many messages work at once, and however   *)
(* late their answers and messages come, at most one message announces a    *)
(* decision, with the verdict that stands, and only a click that failed     *)
(* after deciding leaves one unannounced (ApproveProposal, RejectProposal,  *)
(* handleReviewButton).                                                     *)
THEOREM DecidedByOne == Spec => []ToldOnce
<1>1. IInv => ToldOnce
  BY DEF IInv, NewsInv
<1> QED BY <1>1, Invariant, PTL

(* An approval makes canon what the clicked message shows, or an Edit that  *)
(* was saved since.                                                         *)
THEOREM ApprovesWhatWasShown == Spec => ApprovedAsShown
<1> DEFINE Good == \A h \in Handlers : Approves(h) =>
          LET text == proposal[handler[h].p].text
          IN  text = handler[h].on.text \/ text > handler[h].on.at
<1>1. IInv => Good
  <2> SUFFICES ASSUME IInv, NEW h \in Handlers, Approves(h)
               PROVE  \/ proposal[handler[h].p].text = handler[h].on.text
                      \/ proposal[handler[h].p].text > handler[h].on.at
    OBVIOUS
  <2>1. handler[h].pc = "found" /\ proposal[handler[h].p].status = "pending"
    BY DEF Approves, At
  <2> QED BY <2>1, AtClick DEF Truthful, TruthfulIn, Proposed
<1>2. Spec => [][Good]_vars
  BY <1>1, Invariant, PTL
<1> QED BY <1>2 DEF ApprovedAsShown

(* Skipping comes to the last proposal only after it has shown all that     *)
(* were pending since the top of the queue (nextPendingIndex).              *)
THEOREM SkippingShowsAll == Spec => SkipsShowAll
<1> DEFINE Good == \A h \in Handlers : Skips(h) /\ Wraps(handler[h].p) =>
          handler[h].on.start \cap Pending \subseteq handler[h].on.pass
<1>1. IInv => Good
  <2> SUFFICES ASSUME IInv, NEW h \in Handlers, Skips(h), Wraps(handler[h].p),
                      NEW q \in handler[h].on.start \cap Pending
               PROVE  q \in handler[h].on.pass
    OBVIOUS
  <2>1. /\ handler[h].on \in Proposed /\ Truthful(handler[h].on)
        /\ handler[h].on.p = handler[h].p /\ handler[h].p \in Rows
    BY AtClick DEF Skips, At
  <2>2. q \in Rows /\ proposal[q].status = "pending"
    BY DEF Pending, PendingIn
  <2>3. q <= handler[h].p
    BY <2>1, <2>2, BoundsAssumption DEF Wraps, Following, Rows
  <2> QED BY <2>1, <2>2, <2>3 DEF Truthful, TruthfulIn, Proposed
<1>2. Spec => [][Good]_vars
  BY <1>1, Invariant, PTL
<1> QED BY <1>2 DEF SkipsShowAll
-----------------------------------------------------------------------------
(* The commands of Replies. *)
Bubble ==
    [part : Nat, marked : BOOLEAN, private : BOOLEAN, shown : BOOLEAN, error : BOOLEAN]
Shapes ==
    /\ cmd \in Commands \cup {Mention} /\ at \in 1..Len(cmd.steps)
    /\ doing \in {"step", "call", "send", "tell", "again", "fail", "done"}
    /\ now \in Nat /\ deadline \in Nat
    /\ call \in [attempt : Nat, since : Nat]
    /\ reply \in [chunks : Nat, cut : BOOLEAN, next : Nat]
    /\ original \in Bubble \cup {None} /\ more \in Seq(Bubble)
    /\ faults \in Nat /\ refused \in BOOLEAN /\ died \in BOOLEAN

(* What a handler is doing it is doing at a step of that kind; only a long  *)
(* reply has messages after its first.                                      *)
Places ==
    /\ doing = "call" => Step \in {"embed", "chat"}
    /\ doing = "tell" => Step = "embed"
    /\ doing = "again" => Step = "sendReply"
    /\ doing = "fail" => Step # "sendReply"
    /\ more # <<>> => Step \in Longs /\ doing \in {"send", "fail", "done"}

(* No deferral makes a handler outlive the token it answers with. *)
InTime == now <= deadline /\ (cmd # Mention => deadline <= TokenLife)

(* Nothing of a private reply is public yet. *)
Hidden ==
    cmd.private => /\ original = None \/ original.private
                   /\ \A i \in 1..Len(more) : more[i].private

(* The parts of a reply before part n are what is shown of it. *)
FirstSent ==
    /\ original \in Bubble /\ original.shown /\ original.part = FirstPart
    /\ original.marked = Marked(FirstPart)
RestSent ==
    \A i \in 1..Len(more) :
        more[i].part = FirstPart + i /\ more[i].marked = Marked(FirstPart + i)
Sent(n) ==
    IF n = FirstPart THEN more = <<>>
    ELSE FirstSent /\ Len(more) = n - FirstPart - 1

(* A reply under way has sent the pieces before the next. *)
Sending ==
    doing = "send" =>
        /\ Step \in Answers
        /\ FirstPart <= reply.next /\ reply.next <= LastPart
        /\ (Step \notin Longs => reply.chunks = 1)
        /\ Sent(reply.next)
(* A handler that ended said so, or all there is; or it was refused. *)
Failed == original \in Bubble /\ original.shown /\ original.error
Ended ==
    doing = "done" =>
        /\ original.shown \/ Unheard
        /\ Step \in Answers => refused \/ Failed \/ Sent(LastPart + 1)
        /\ Step = "sendReply" => original = None \/ original = Whole

(* A conversation sends its answer or its error last. *)
Unspoken == cmd = Mention /\ doing # "done" => original = None

ReplyInv == Shapes /\ Places /\ InTime /\ Hidden /\ RestSent /\ Sending /\ Ended /\ Unspoken
-----------------------------------------------------------------------------
Waits == {"check", "query", "tell", "ack", "defer", "embed", "chat"}
StepsFit(h) ==
    \A i \in 1..Len(h.steps) :
        /\ h.steps[i] \in Waits => i + 1 \in 1..Len(h.steps)
        /\ h.steps[i] \in Waits \cup Answers \cup {"sendReply"}
        /\ h.private => h.steps[i] \notin {"followupLong", "followupEmbedLong"}
        /\ h.steps[i] = "defer" => Window + h.budget <= TokenLife
HandlerFits(h) ==
    /\ h.private \in BOOLEAN /\ h.budget \in Nat
    /\ Len(h.steps) \in Nat \ {0}
    /\ StepsFit(h)
CommandFits(h) == HandlerFits(h) /\ \A i \in 1..Len(h.steps) : h.steps[i] # "sendReply"

(* The handlers as they are: the last step of each answers, and what it may *)
(* take after a deferral is within the life of the token.                   *)
LEMMA HandlersFit ==
    /\ \A h \in Commands : CommandFits(h)
    /\ HandlerFits(Mention)
    /\ \A i \in 1..Len(Mention.steps) : Mention.steps[i] \in {"chat", "sendReply"}
<1> USE DEF CommandFits, HandlerFits, StepsFit, Handler, Waits, Answers, Longs, Embeds
<1>0. /\ Window \in Nat /\ TokenLife \in Nat /\ HandlerTimeout \in Nat /\ VoiceTimeout \in Nat
      /\ PurgeTimeout \in Nat /\ DeferredTimeout \in Nat
      /\ Window + PurgeTimeout <= TokenLife /\ Window + VoiceTimeout <= TokenLife
      /\ Window + DeferredTimeout <= TokenLife
  BY TimesAssumption DEF DeferredTimeout
<1> HIDE DEF DeferredTimeout
<1>1. CommandFits(Lore)
  BY <1>0 DEF Lore
<1>2. CommandFits(Recap)
  BY <1>0 DEF Recap
<1>3. CommandFits(Ask)
  BY <1>0 DEF Ask
<1>4. CommandFits(Prep)
  BY <1>0 DEF Prep
<1>5. CommandFits(Art)
  BY <1>0 DEF Art
<1>6. CommandFits(Voice)
  BY <1>0 DEF Voice
<1>7. CommandFits(Purge)
  BY <1>0 DEF Purge
<1>8. CommandFits(Show)
  BY <1>0 DEF Show
<1>9. CommandFits(List)
  BY <1>0 DEF List
<1>10. CommandFits(Remind)
  BY <1>0 DEF Remind
<1>11. /\ HandlerFits(Mention)
       /\ \A i \in 1..Len(Mention.steps) : Mention.steps[i] \in {"chat", "sendReply"}
  BY <1>0 DEF Mention
<1> QED
  <2> HIDE DEF CommandFits, HandlerFits
  <2> QED BY <1>1, <1>2, <1>3, <1>4, <1>5, <1>6, <1>7, <1>8, <1>9, <1>10, <1>11 DEF Commands
-----------------------------------------------------------------------------
Kinds == Waits \cup Answers \cup {"sendReply"}

(* What the step a handler is at says of the handler. *)
LEMMA Here ==
    ASSUME Shapes
    PROVE  /\ cmd.private \in BOOLEAN /\ cmd.budget \in Nat /\ Step \in Kinds
           /\ Step \in Waits => at + 1 \in 1..Len(cmd.steps)
           /\ Step \in Answers => cmd # Mention
           /\ Step = "sendReply" => cmd = Mention
           /\ cmd = Mention => Step \in {"chat", "sendReply"}
           /\ cmd.private => Step \notin {"followupLong", "followupEmbedLong"}
           /\ Step = "defer" => Window + cmd.budget <= TokenLife
<1>1. cmd \in Commands \cup {Mention} /\ at \in 1..Len(cmd.steps) /\ HandlerFits(cmd)
  BY HandlersFit DEF Shapes, CommandFits
<1>2. CASE cmd = Mention
  <2>1. Step \in {"chat", "sendReply"}
    BY <1>1, <1>2, HandlersFit DEF Step
  <2> QED BY <1>1, <1>2, <2>1 DEF HandlerFits, StepsFit, Step, Kinds, Answers, Longs,
                                  Embeds
<1>3. CASE cmd \in Commands /\ cmd # Mention
  <2>1. Step # "sendReply"
    BY <1>1, <1>3, HandlersFit DEF CommandFits, Step
  <2> QED BY <1>1, <1>3, <2>1 DEF HandlerFits, StepsFit, Step, Kinds
<1> QED BY <1>1, <1>2, <1>3

Numbers ==
    /\ Window \in Nat /\ TokenLife \in Nat /\ HandlerTimeout \in Nat /\ DeferredTimeout \in Nat
    /\ MaxMessages \in Nat \ {0} /\ RequestTimeout \in Nat /\ HandlerTimeout <= TokenLife
LEMMA NumbersFit == Numbers
BY TimesAssumption DEF Numbers, DeferredTimeout

LEMMA InitReply == ASSUME ReplyInit PROVE ReplyInv
<1>1. cmd \in Commands \cup {Mention} /\ HandlerFits(cmd)
  BY HandlersFit DEF CommandFits, ReplyInit
<1>2. Shapes
  <2>1. Len(cmd.steps) \in Nat \ {0} /\ at = 1 /\ MaxChunks \in Nat
    BY <1>1, TimesAssumption DEF ReplyInit, HandlerFits
  <2>2. deadline \in Nat
    BY NumbersFit DEF ReplyInit, Numbers
  <2>3. reply \in [chunks : Nat, cut : BOOLEAN, next : Nat]
    BY <2>1 DEF ReplyInit
  <2>4. original \in Bubble \cup {None} /\ more \in Seq(Bubble)
    BY DEF ReplyInit
  <2>5. /\ doing = "step" /\ now = 0 /\ call = NoCall /\ faults = 0
        /\ refused = FALSE /\ died = FALSE
    BY DEF ReplyInit
  <2>6. call \in [attempt : Nat, since : Nat]
    BY <2>5 DEF NoCall
  <2>7. at \in 1..Len(cmd.steps)
    BY <2>1
  <2> QED BY <1>1, <2>2, <2>3, <2>4, <2>5, <2>6, <2>7 DEF Shapes
<1>3. InTime
  BY NumbersFit DEF ReplyInit, InTime, Numbers
<1> QED BY <1>2, <1>3 DEF ReplyInit, ReplyInv, Places, Hidden, RestSent, Sending, Ended, Unspoken

(* A handler that waits, or fails before it answers. *)
LEMMA Silent ==
    ASSUME ReplyInv, Shapes', InTime', Places', UNCHANGED <<screen, cmd, reply>>,
           doing \in {"step", "call", "tell", "again"}, doing' \notin {"send", "done"}
    PROVE  ReplyInv'
<1>1. more = <<>>
  BY DEF ReplyInv, Places
<1> QED BY <1>1 DEF ReplyInv, screen, Hidden, RestSent, Sending, Ended, Shapes, Unspoken

LEMMA WaitStep ==
    ASSUME ReplyInv,
           Tick \/ CheckPasses \/ Query \/ QueryFails \/ TellPasses \/ CallBegins
           \/ CallAnswers \/ Retry \/ CallFails
    PROVE  ReplyInv'
<1>0. Numbers /\ Shapes /\ Places /\ InTime
  BY NumbersFit DEF ReplyInv
<1>1. /\ UNCHANGED <<screen, cmd, reply>>
      /\ doing \in {"step", "call", "tell"} /\ doing' \notin {"send", "done", "again"}
      /\ refused' = refused /\ died' = died /\ deadline' = deadline
  BY DEF Tick, CheckPasses, Query, QueryFails, TellPasses, CallBegins,
         CallAnswers, Retry,
         CallFails, Doing, Goes, Stay, Fixed, Advance, screen, times, past
<1>2. now' \in Nat /\ now' <= deadline /\ faults' \in Nat
  BY SMTT(20), <1>0 DEF Tick, CheckPasses, Query, QueryFails, TellPasses, CallBegins,
              CallAnswers, Retry,
         CallFails, Fixed, Alive, Fault, times, past, Shapes, InTime
<1>3. call' \in [attempt : Nat, since : Nat]
  BY <1>0 DEF Tick, CheckPasses, Query, QueryFails, TellPasses, CallBegins,
              CallAnswers, Retry,
         CallFails, NoCall, Shapes
<1>4. at' \in 1..Len(cmd.steps) /\ doing' \in {"step", "call", "tell", "fail"}
  BY <1>0, Here DEF Tick, CheckPasses, Query, QueryFails, TellPasses, CallBegins,
                    CallAnswers,
         Retry, CallFails, Doing, Goes, Stay, Advance, Waits, Places, Shapes
<1>5. /\ doing' = "call" => at' = at /\ Step \in {"embed", "chat"}
      /\ doing' = "tell" => at' = at /\ Step = "embed"
      /\ doing' = "fail" => at' = at /\ Step # "sendReply"
  BY <1>0 DEF Tick, CheckPasses, Query, QueryFails, TellPasses, CallBegins,
              CallAnswers,
         Retry, CallFails, Doing, Goes, Stay, Advance, Places
<1>6. Shapes'
  BY <1>0, <1>1, <1>2, <1>3, <1>4 DEF Shapes, screen
<1>7. Places'
  BY <1>0, <1>1, <1>4, <1>5 DEF Places, Step, screen
<1>8. InTime'
  BY <1>0, <1>1, <1>2 DEF InTime
<1> QED BY <1>1, <1>6, <1>7, <1>8, Silent

(* What is shown by a note that ends the handler, or its place.             *)
LEMMA NoteFits ==
    ASSUME NEW error \in BOOLEAN, NEW private \in BOOLEAN
    PROVE  /\ Note(error, private) \in Bubble /\ Note(error, private).private = private
           /\ Note(error, private).shown /\ Note(error, private).error = error
           /\ [Note(error, private) EXCEPT !.shown = FALSE] \in Bubble
           /\ [Note(error, private) EXCEPT !.shown = FALSE].private = private
BY DEF Note, Bubble

(* A handler that is refused before it answers will say so or give up.      *)
LEMMA RefusedStep ==
    ASSUME ReplyInv, NEW possible \in BOOLEAN, Refused(possible),
           Goes("fail"), UNCHANGED <<cmd, at, deadline, now, reply>>,
           call' \in [attempt : Nat, since : Nat],
           doing \in {"step", "tell"}, Step # "sendReply"
    PROVE  ReplyInv'
<1>1. Shapes'
  BY DEF ReplyInv, Shapes, Refused, Goes, Fault, screen
<1>2. Places' /\ InTime'
  BY DEF ReplyInv, Places, InTime, Refused, Goes, screen, Step
<1> QED BY <1>1, <1>2, Silent DEF Refused, Goes

(* A note that ends a handler which has answered nothing yet.               *)
LEMMA NoteStep ==
    ASSUME ReplyInv, UNCHANGED <<cmd, at, deadline, now, reply, more, past>>,
           call' \in [attempt : Nat, since : Nat],
           doing \in {"step", "tell", "fail"}, doing' = "done",
           original' \in Bubble, original'.shown, cmd.private => original'.private,
           Step \in Answers => original'.error, Step # "sendReply"
    PROVE  ReplyInv'
<1>1. Shapes'
  BY DEF ReplyInv, Shapes, past
<1>2. Places' /\ InTime'
  BY DEF ReplyInv, Places, InTime, past, Step
<1>3. Hidden' /\ RestSent'
  BY DEF ReplyInv, Hidden, RestSent, FirstPart, Marked, Step
<1>4. Sending' /\ Ended' /\ Unspoken'
  BY DEF Sending, Ended, Step, Failed, Unspoken
<1> QED BY <1>1, <1>2, <1>3, <1>4 DEF ReplyInv

LEMMA CheckStep == ASSUME ReplyInv, CheckAnswers PROVE ReplyInv'
<1>1. Shapes /\ Step = "check" /\ doing = "step"
  BY DEF ReplyInv, CheckAnswers, Doing
<1>2. CASE Refused(~Responded /\ InWindow) /\ Goes("fail")
  BY <1>1, <1>2, RefusedStep DEF CheckAnswers, Stay, Fixed, Responded, InWindow, Shapes
<1>3. CASE Respond(Note(FALSE, TRUE)) /\ Goes("done") /\ UNCHANGED past
  BY <1>1, <1>3, NoteFits, NoteStep
     DEF CheckAnswers, Stay, Fixed, Respond, Goes, Shapes, Answers, Longs, Embeds
<1> QED BY <1>2, <1>3 DEF CheckAnswers

(* An edit keeps the visibility of what it edits. *)
LEMMA EditFits ==
    ASSUME Shapes, Hidden, NEW m \in Bubble, Edit(m)
    PROVE  /\ original' \in Bubble /\ original \in Bubble
           /\ cmd.private => original'.private
           /\ original'.shown = m.shown /\ original'.error = m.error
           /\ original'.part = m.part /\ original'.marked = m.marked
           /\ UNCHANGED more
<1>1. original \in Bubble
  BY DEF Shapes, Edit, Responded
<1>2. original' = [m EXCEPT !.private = original.private] /\ original # None /\ UNCHANGED more
  BY DEF Edit, Responded
<1>3. cmd.private => original.private
  BY <1>2 DEF Hidden
<1> QED BY <1>1, <1>2, <1>3 DEF Bubble

LEMMA TellStep == ASSUME ReplyInv, Tell \/ CallTells PROVE ReplyInv'
<1>1. Shapes /\ Hidden /\ Step \in {"tell", "embed"} /\ doing \in {"step", "tell"} /\ Tells
  BY DEF ReplyInv, Tell, CallTells, Doing, Places
<1>2. call' \in [attempt : Nat, since : Nat]
  BY <1>1 DEF Tells, NoCall
<1>3. CASE Refused(Responded /\ InLife) /\ Goes("fail")
  BY <1>1, <1>2, <1>3, RefusedStep DEF Tells, Stay, Fixed, Responded, InLife, Shapes
<1>4. CASE Edit(Note(FALSE, TRUE)) /\ Goes("done") /\ UNCHANGED past
  <2>1. Note(FALSE, TRUE) \in Bubble /\ Note(FALSE, TRUE).shown
    BY NoteFits
  <2>2. /\ original' \in Bubble /\ original'.shown /\ UNCHANGED more
        /\ cmd.private => original'.private
    BY <1>1, <1>4, <2>1, EditFits
  <2> QED BY <1>1, <1>2, <1>4, <2>2, NoteStep
          DEF Tells, Stay, Fixed, Goes, Answers, Longs, Embeds
<1> QED BY <1>1, <1>3, <1>4 DEF Tells

LEMMA DeferStep == ASSUME ReplyInv, Defer PROVE ReplyInv'
<1>0. Numbers /\ Shapes /\ doing = "step" /\ Step \in {"ack", "defer"} /\ cmd # Mention
  BY NumbersFit, Here DEF ReplyInv, Defer
<1>1. CASE /\ Refused(~Responded /\ InWindow) /\ Goes("fail") /\ Stay
           /\ UNCHANGED deadline
  BY <1>0, <1>1, RefusedStep DEF Defer, Stay, Responded, InWindow, Shapes
<1>2. CASE /\ Respond([Note(FALSE, cmd.private) EXCEPT !.shown = FALSE])
           /\ deadline' = IF Step = "defer" THEN now + cmd.budget ELSE deadline
           /\ Advance /\ UNCHANGED past
  <2>1. /\ cmd.private \in BOOLEAN /\ cmd.budget \in Nat /\ at + 1 \in 1..Len(cmd.steps)
        /\ Step = "defer" => Window + cmd.budget <= TokenLife
    BY <1>0, Here DEF Waits
  <2>2. original' \in Bubble /\ original'.private = cmd.private /\ UNCHANGED more
    BY <1>2, <2>1, NoteFits DEF Respond
  <2>3. UNCHANGED <<cmd, now, call, reply, past>> /\ doing' = "step" /\ at' = at + 1
    BY <1>2 DEF Defer, Advance, Goes
  <2>4. now <= Window
    BY <1>0, <1>2 DEF Respond, InWindow
  <2>5. deadline' \in Nat /\ now <= deadline' /\ deadline' <= TokenLife
    <3>1. now <= deadline /\ deadline <= TokenLife /\ now \in Nat /\ deadline \in Nat
      BY <1>0 DEF ReplyInv, InTime, Shapes
    <3>2. CASE Step = "defer"
      BY <1>0, <1>2, <2>1, <2>4, <3>1, <3>2 DEF Numbers
    <3>3. CASE Step # "defer"
      BY <1>2, <3>1, <3>3
    <3> QED BY <3>2, <3>3
  <2>6. Shapes'
    BY <1>0, <2>1, <2>2, <2>3, <2>5 DEF Shapes, past
  <2>7. more = <<>>
    BY <1>0 DEF ReplyInv, Places
  <2>8. Places' /\ InTime'
    BY <1>0, <2>2, <2>3, <2>5, <2>7 DEF Places, InTime
  <2>9. Hidden' /\ RestSent' /\ Sending' /\ Ended' /\ Unspoken'
    BY <1>0, <2>2, <2>3, <2>7 DEF Hidden, RestSent, Sending, Ended, Unspoken
  <2> QED BY <2>6, <2>8, <2>9 DEF ReplyInv
<1> QED BY <1>1, <1>2 DEF Defer
-----------------------------------------------------------------------------
(* The parts of a reply, once it has begun. *)
LEMMA PartsFit ==
    ASSUME Numbers, Shapes
    PROVE  /\ FirstPart \in {0, 1} /\ LastPart \in Nat /\ FirstPart <= LastPart
           /\ Step \notin Longs /\ reply.chunks = 1 => FirstPart = LastPart
           /\ reply.chunks \in Nat /\ reply.cut \in BOOLEAN /\ reply.next \in Nat
BY DEF Numbers, Shapes, FirstPart, LastPart, Least, Longs

LEMMA MessageFits ==
    ASSUME NEW n \in Nat, NEW private \in BOOLEAN
    PROVE  /\ Message(n, private) \in Bubble /\ Message(n, private).private = private
           /\ Message(n, private).part = n /\ Message(n, private).shown
           /\ Message(n, private).marked = Marked(n)
<1>1. Marked(n) \in BOOLEAN
  BY DEF Marked
<1> QED BY <1>1 DEF Message, Bubble

LEMMA PartsStay ==
    ASSUME UNCHANGED <<cmd, at>>, reply'.chunks = reply.chunks, reply'.cut = reply.cut
    PROVE  /\ Step' = Step /\ FirstPart' = FirstPart /\ LastPart' = LastPart
           /\ \A n : Marked(n)' = Marked(n)
BY DEF Step, FirstPart, LastPart, Marked

LEMMA BeginStep == ASSUME ReplyInv, ReplyBegins PROVE ReplyInv'
<1>0. Numbers /\ Shapes /\ Step \in Answers /\ cmd # Mention /\ doing = "step"
  BY NumbersFit, Here DEF ReplyInv, ReplyBegins
<1>1. /\ UNCHANGED <<cmd, at, deadline, now, call, screen, past>> /\ doing' = "send"
      /\ more = <<>>
  BY <1>0 DEF ReplyBegins, Goes, Stay, Fixed, ReplyInv, Places
<1>2. /\ reply'.chunks = IF Step \in Longs THEN reply.chunks ELSE 1
      /\ reply'.next = (IF Step \in Embeds \/ reply'.chunks = 0 THEN 0 ELSE 1)
      /\ reply' \in [chunks : Nat, cut : BOOLEAN, next : Nat]
  BY <1>0 DEF ReplyBegins, Shapes
<1>3. Shapes'
  BY <1>0, <1>1, <1>2 DEF Shapes, screen, past
<1>4. Places' /\ InTime' /\ Hidden' /\ RestSent' /\ Unspoken' /\ Ended'
  BY <1>0, <1>1 DEF ReplyInv, Places, InTime, Hidden, RestSent, Unspoken, Ended, screen
<1>5. Step' = Step /\ reply'.next = FirstPart'
  BY <1>1, <1>2 DEF Step, FirstPart
<1>6. FirstPart' <= LastPart'
  BY <1>0, <1>2, <1>5 DEF Numbers, LastPart, Least, FirstPart
<1>7. Sending'
  BY <1>0, <1>1, <1>2, <1>5, <1>6 DEF Sending, Sent, screen
<1> QED BY <1>3, <1>4, <1>7 DEF ReplyInv

(* A part that is refused ends the reply with an error. *)
LEMMA PartRefusedStep ==
    ASSUME ReplyInv, doing = "send", NEW possible \in BOOLEAN,
           PartRefused(possible),
           UNCHANGED <<cmd, at, deadline, now, call>>
    PROVE  ReplyInv'
<1>0. Shapes /\ Step \in Answers /\ cmd # Mention /\ Step' = Step
  BY Here DEF ReplyInv, Sending, Step
<1>1. /\ UNCHANGED <<screen, reply, died>> /\ doing' = "fail" /\ refused' \in BOOLEAN
      /\ faults' \in Nat
  BY <1>0 DEF PartRefused, Refused, Goes, Fault, Shapes
<1>2. Shapes'
  BY <1>0, <1>1 DEF Shapes, screen
<1>3. Places' /\ InTime' /\ Hidden' /\ Sending' /\ Ended' /\ Unspoken'
  BY <1>0, <1>1 DEF ReplyInv, Places, InTime, Hidden, Sending, Ended, Unspoken, screen,
                    Answers, Longs, Embeds
<1>4. RestSent'
  BY <1>1, PartsStay DEF ReplyInv, RestSent, screen
<1> QED BY <1>2, <1>3, <1>4 DEF ReplyInv

(* A part that arrives is the next of what is shown of the reply. *)
LEMMA PartSentStep ==
    ASSUME ReplyInv, doing = "send", PartSent, UNCHANGED <<cmd, at, deadline, now,
                                                                         call>>,
           original' \in Bubble \cup {None}, more' \in Seq(Bubble),
           Hidden', RestSent', FirstSent', Step \in Longs \/ more' = <<>>,
           Len(more') = reply.next - FirstPart
    PROVE  ReplyInv'
<1>0. Numbers /\ Shapes /\ Step \in Answers /\ cmd # Mention
  BY NumbersFit, Here DEF ReplyInv, Sending
<1>1. /\ reply'.next = reply.next + 1 /\ reply'.chunks = reply.chunks /\ reply'.cut = reply.cut
      /\ reply' \in [chunks : Nat, cut : BOOLEAN, next : Nat]
      /\ UNCHANGED past
  BY SMTT(20), <1>0 DEF PartSent, Shapes
<1>2. /\ Step' = Step /\ FirstPart' = FirstPart /\ LastPart' = LastPart
  BY <1>1, PartsStay
<1>3. doing' = IF reply.next = LastPart THEN "done" ELSE "send"
  BY DEF PartSent, Goes
<1>4. /\ FirstPart \in Nat /\ LastPart \in Nat /\ reply.next \in Nat
      /\ FirstPart <= reply.next /\ reply.next <= LastPart
      /\ Step \notin Longs => reply.chunks = 1
  BY <1>0, PartsFit DEF ReplyInv, Sending
<1>5. Sent(reply.next)'
  BY <1>1, <1>2, <1>4 DEF Sent
<1>6. Shapes'
  BY <1>0, <1>1, <1>3 DEF Shapes, past
<1>7. Places' /\ InTime' /\ Unspoken'
  BY <1>0, <1>2, <1>3, <1>1 DEF ReplyInv, Places, InTime, Unspoken, past
<1>8. Sending'
  BY <1>0, <1>1, <1>2, <1>3, <1>4, <1>5 DEF Sending
<1>9. Ended'
  <2>1. Step \in Answers /\ doing' = "done" => Sent(LastPart + 1)'
    BY <1>1, <1>2, <1>3, <1>4, <1>5 DEF Sent
  <2> QED BY <1>0, <1>2, <2>1 DEF Ended, FirstSent, Answers, Longs, Embeds
<1> QED BY <1>6, <1>7, <1>8, <1>9 DEF ReplyInv

LEMMA FirstStep == ASSUME ReplyInv, SendFirst PROVE ReplyInv'
<1>0. /\ Numbers /\ Shapes /\ Hidden /\ Step \in Answers /\ cmd # Mention
      /\ cmd.private \in BOOLEAN
      /\ doing = "send" /\ reply.next = FirstPart /\ UNCHANGED <<cmd, at, deadline, now, call>>
      /\ more = <<>> /\ FirstPart \in Nat
  BY NumbersFit, Here, PartsFit DEF ReplyInv, Sending, SendFirst, Stay, Fixed, Sent
<1> DEFINE m == Message(reply.next, cmd.private)
<1>1. /\ m \in Bubble /\ m.private = cmd.private /\ m.part = FirstPart /\ m.shown
      /\ m.marked = Marked(FirstPart)
  BY <1>0, MessageFits
<1>2. ASSUME PartSent, Edit(m) \/ Respond(m) PROVE ReplyInv'
  <2>1. /\ original' \in Bubble /\ original'.shown /\ original'.part = FirstPart
        /\ UNCHANGED more
        /\ original'.marked = Marked(FirstPart)
        /\ cmd.private => original'.private
    <3> HIDE DEF m
    <3>1. CASE Edit(m)
      BY <1>0, <1>1, <3>1, EditFits
    <3>2. CASE Respond(m)
      BY <1>1, <3>2 DEF Respond
    <3> QED BY <1>2, <3>1, <3>2
  <2>2. /\ FirstPart' = FirstPart /\ \A n : Marked(n)' = Marked(n)
    BY <1>0, <1>2, PartsStay DEF PartSent, Shapes
  <2>3. FirstSent' /\ RestSent' /\ Hidden'
    BY <1>0, <2>1, <2>2 DEF FirstSent, RestSent, Hidden
  <2> QED BY <1>0, <1>2, <2>1, <2>3, PartSentStep
<1>3. ASSUME NEW possible \in BOOLEAN, PartRefused(possible) PROVE ReplyInv'
  BY <1>0, <1>3, PartRefusedStep
<1> QED BY <1>2, <1>3 DEF SendFirst, Responded, InLife, InWindow

LEMMA FollowupStep == ASSUME ReplyInv, SendFollowups PROVE ReplyInv'
<1>0. /\ Numbers /\ Shapes /\ Hidden /\ Step \in Answers /\ cmd # Mention
      /\ cmd.private \in BOOLEAN
      /\ doing = "send" /\ reply.next # FirstPart /\ UNCHANGED <<cmd, at, deadline, now, call>>
      /\ FirstPart \in Nat /\ reply.next \in Nat
  BY NumbersFit, Here, PartsFit DEF ReplyInv, Sending, SendFollowups, Stay, Fixed
<1>1. /\ Step \in Longs /\ FirstSent /\ RestSent /\ Len(more) = reply.next - FirstPart - 1
      /\ FirstPart < reply.next
  BY <1>0, PartsFit DEF ReplyInv, Sending, Sent
<1> DEFINE private == cmd.private /\ Step \in {"replyLong", "replyEmbedLong"}
           m == Message(reply.next, private)
<1>2. cmd.private => private
  BY <1>0, <1>1, Here DEF Longs, Embeds
<1>3. /\ m \in Bubble /\ m.part = reply.next /\ m.marked = Marked(reply.next)
      /\ cmd.private => m.private
  BY <1>0, <1>2, MessageFits
<1>4. ASSUME Follow(m), PartSent PROVE ReplyInv'
  <2> HIDE DEF m
  <2>1. more \in Seq(Bubble) /\ more' = Append(more, m) /\ UNCHANGED original
    BY <1>0, <1>4 DEF Follow, Shapes
  <2>2. /\ more' \in Seq(Bubble) /\ Len(more') = Len(more) + 1 /\ more'[Len(more) + 1] = m
        /\ \A i \in 1..Len(more) : more'[i] = more[i]
    BY <1>3, <2>1
  <2>3. /\ FirstPart' = FirstPart /\ \A n : Marked(n)' = Marked(n)
    BY <1>0, <1>4, PartsStay DEF PartSent, Shapes
  <2>4. RestSent'
    <3>1. SUFFICES ASSUME NEW i \in 1..Len(more')
                   PROVE  /\ more'[i].part = FirstPart + i
                          /\ more'[i].marked = Marked(FirstPart + i)
      BY <2>3 DEF RestSent
    <3>2. CASE i \in 1..Len(more)
      BY <1>1, <2>2, <3>2 DEF RestSent
    <3>3. CASE i = Len(more) + 1
      <4>1. FirstPart + i = reply.next
        BY <1>0, <1>1, <3>3
      <4> QED BY <1>3, <2>2, <3>3, <4>1
    <3> QED BY <2>1, <2>2, <3>2, <3>3
  <2>5. FirstSent'
    BY <1>1, <2>1, <2>3 DEF FirstSent
  <2>6. Hidden'
    BY <1>0, <1>3, <2>1, <2>2 DEF Hidden
  <2>7. Len(more') = reply.next - FirstPart
    BY <1>0, <1>1, <2>1, <2>2
  <2>8. original' \in Bubble
    BY <1>1, <2>1 DEF FirstSent
  <2> QED BY <1>0, <1>1, <1>4, <2>2, <2>4, <2>5, <2>6, <2>7, <2>8, PartSentStep
<1>5. ASSUME NEW possible \in BOOLEAN, PartRefused(possible) PROVE ReplyInv'
  BY <1>0, <1>5, PartRefusedStep
<1> QED BY <1>4, <1>5 DEF SendFollowups, Responded, InLife

LEMMA WholeFits ==
    ASSUME Shapes
    PROVE  Whole \in Bubble /\ Whole.shown
<1>1. Least(1, reply.chunks) \in Nat
  BY DEF Shapes, Least
<1>2. /\ Message(Least(1, reply.chunks), FALSE) \in Bubble
      /\ Message(Least(1, reply.chunks), FALSE).shown
  BY <1>1, MessageFits
<1>3. (reply.cut \/ reply.chunks > 1) \in BOOLEAN
  OBVIOUS
<1> QED BY <1>2, <1>3 DEF Whole, Bubble

LEMMA ReplyStep == ASSUME ReplyInv, SendReply \/ SendReplyAgain PROVE ReplyInv'
<1>0. /\ Shapes /\ Step = "sendReply" /\ cmd = Mention
      /\ UNCHANGED <<cmd, at, deadline, now, call, reply>>
      /\ more = <<>> /\ doing \in {"step", "again"} /\ UNCHANGED more /\ original = None
      /\ cmd.private = FALSE /\ Step' = Step
  BY Here DEF ReplyInv, SendReply, SendReplyAgain, Doing, Places, Stay, Fixed,
              Unspoken, Refused, screen,
              Mention, Handler, Step
<1>1. /\ faults' \in Nat /\ refused' \in BOOLEAN /\ died' = died
      /\ doing' \in {"again", "done"}
      /\ doing' = "again" => UNCHANGED screen
  <2>1. CASE SendReply
    <3>1. CASE doing' = "done" /\ UNCHANGED past
      BY <1>0, <3>1 DEF Shapes, past
    <3>2. CASE /\ IF Worded THEN Fault ELSE UNCHANGED faults
               /\ doing' = "again" /\ UNCHANGED <<screen, refused, died>>
      BY <1>0, <3>2 DEF Shapes, Fault
    <3> QED BY <2>1, <3>1, <3>2 DEF SendReply, Goes
  <2>2. CASE SendReplyAgain
    <3>1. doing' = "done"
      BY <2>2 DEF SendReplyAgain, Goes
    <3>2. CASE UNCHANGED past
      BY <1>0, <3>1, <3>2 DEF Shapes, past
    <3>3. CASE Refused(TRUE)
      BY <1>0, <3>1, <3>3 DEF Shapes, Refused, Fault
    <3> QED BY <2>2, <3>2, <3>3 DEF SendReplyAgain
  <2> QED BY <2>1, <2>2
<1>2. /\ original' = Whole \/ original' = None
      /\ doing' = "done" => original' = Whole \/ refused' \/ ~Worded
  BY <1>0 DEF SendReply, SendReplyAgain, Goes, Refused, screen
<1>3. Whole' = Whole /\ Worded' = Worded /\ Whole \in Bubble /\ Whole.shown
  BY <1>0, WholeFits DEF Whole, Worded, Message, Marked, Least
<1>4. Shapes'
  BY <1>0, <1>1, <1>2, <1>3 DEF Shapes
<1>5. Places' /\ InTime' /\ Hidden' /\ RestSent' /\ Sending' /\ Unspoken'
  BY <1>0, <1>1, <1>3 DEF ReplyInv, Places, InTime, Hidden, RestSent, Sending, Unspoken, screen
<1>6. Ended'
  BY <1>0, <1>1, <1>2, <1>3 DEF Ended, Unheard, Answers, Longs, Embeds
<1> QED BY <1>4, <1>5, <1>6 DEF ReplyInv

LEMMA ErrorStep == ASSUME ReplyInv, ReplyError \/ MentionError PROVE ReplyInv'
<1>0. /\ Numbers /\ Shapes /\ doing = "fail" /\ doing' = "done" /\ Step # "sendReply"
      /\ UNCHANGED <<cmd, at, deadline, now, call, reply, more>>
      /\ died' = died /\ Step' = Step
  BY NumbersFit DEF ReplyInv, Places, ReplyError, MentionError, Goes, Stay, Fixed,
                    Respond, Refused,
                    screen, past, Step
<1>1. \/ refused' /\ UNCHANGED original
      \/ /\ original' \in Bubble /\ original'.shown /\ original'.error
         /\ cmd.private => original'.private
  <2>1. CASE ReplyError /\ Responded /\ InLife /\ EditError
    <3>1. original \in Bubble /\ (cmd.private => original.private)
      BY <1>0, <2>1 DEF Responded, Shapes, ReplyInv, Hidden
    <3> QED BY <2>1, <3>1 DEF EditError, Note, Bubble
  <2>2. CASE ReplyError /\ Respond(Note(TRUE, TRUE))
    BY <2>2, NoteFits DEF Respond
  <2>3. CASE ReplyError /\ Refused((Responded /\ InLife) \/ (~Responded /\ InWindow))
    <3>1. Responded => InLife
      BY <1>0, <2>3 DEF InLife, ReplyInv, InTime, Shapes, Numbers, ReplyError
    <3> QED BY <2>3, <3>1 DEF Refused, screen
  <2>4. CASE MentionError
    <3>1. cmd.private = FALSE
      BY <2>4 DEF MentionError, Mention, Handler
    <3>2. CASE original' = Note(TRUE, FALSE)
      BY <3>1, <3>2, NoteFits
    <3>3. CASE Refused(TRUE)
      BY <3>3 DEF Refused, screen
    <3> QED BY <2>4, <3>2, <3>3 DEF MentionError
  <2> QED BY <2>1, <2>2, <2>3, <2>4 DEF ReplyError
<1>2. faults' \in Nat /\ refused' \in BOOLEAN
  <2>1. ASSUME NEW possible \in BOOLEAN, Refused(possible)
        PROVE faults' \in Nat /\ refused' \in BOOLEAN
    BY <1>0, <2>1 DEF Refused, Fault, Shapes
  <2>2. ASSUME UNCHANGED past PROVE faults' \in Nat /\ refused' \in BOOLEAN
    BY <1>0, <2>2 DEF past, Shapes
  <2> QED BY <2>1, <2>2 DEF ReplyError, MentionError, Responded, InLife, InWindow
<1>3. Shapes'
  BY <1>0, <1>1, <1>2 DEF Shapes
<1>4. RestSent'
  BY <1>0, PartsStay DEF ReplyInv, RestSent
<1>5. Places' /\ InTime' /\ Hidden' /\ Sending' /\ Unspoken'
  BY <1>0, <1>1 DEF ReplyInv, Places, InTime, Hidden, Sending, Unspoken
<1>6. Ended'
  BY <1>0, <1>1 DEF Ended, Failed, Unheard
<1> QED BY <1>3, <1>4, <1>5, <1>6 DEF ReplyInv

LEMMA PanicStep == ASSUME ReplyInv, Panics PROVE ReplyInv'
<1>0. /\ Shapes /\ doing \in {"step", "call"}
      /\ UNCHANGED <<cmd, at, deadline, now, call, reply, screen, refused>>
      /\ died' = TRUE /\ faults' \in Nat /\ Step' = Step /\ more = <<>>
      /\ doing' = IF cmd = Mention THEN "done" ELSE "fail"
  BY DEF ReplyInv, Panics, Goes, Stay, Fixed, Fault, Shapes, Step, Places
<1>1. Shapes' /\ InTime'
  BY <1>0 DEF ReplyInv, Shapes, InTime, screen
<1>2. Places'
  BY <1>0, Here DEF Places, screen
<1>3. CASE cmd = Mention
  <2>1. original = None /\ original' = None /\ more' = <<>>
    BY <1>0, <1>3 DEF ReplyInv, Unspoken, screen
  <2>2. Hidden' /\ RestSent' /\ Sending' /\ Unspoken'
    BY <1>0, <1>3, <2>1 DEF Hidden, RestSent, Sending, Unspoken
  <2>3. Ended'
    BY <1>0, <1>3, <2>1, Here DEF Ended, Unheard, Answers, Longs, Embeds
  <2> QED BY <1>1, <1>2, <2>2, <2>3 DEF ReplyInv
<1>4. CASE cmd # Mention
  BY <1>0, <1>1, <1>2, <1>4, Silent
<1> QED BY <1>3, <1>4

LEMMA StepReply == ASSUME ReplyInv, [ReplyNext]_replyVars PROVE ReplyInv'
<1>1. CASE Tick \/ Proceed
  BY <1>1, WaitStep, CheckStep, TellStep, DeferStep, BeginStep, FirstStep, FollowupStep,
     ReplyStep, ErrorStep DEF Proceed
<1>2. CASE Panics
  BY <1>2, PanicStep
<1>3. CASE UNCHANGED replyVars
  <2>1. UNCHANGED <<cmd, at, doing, now, deadline, call, reply, original, more, faults, refused,
                    died>>
    BY <1>3 DEF replyVars, times, screen, past
  <2>2. /\ Step' = Step /\ FirstPart' = FirstPart /\ LastPart' = LastPart
        /\ \A n : Marked(n)' = Marked(n)
    BY <2>1, PartsStay
  <2>3. FirstSent' = FirstSent
    BY <2>1, <2>2 DEF FirstSent
  <2>4. Sent(reply.next)' = Sent(reply.next) /\ Sent(LastPart + 1)' = Sent(LastPart + 1)
    BY <2>1, <2>2, <2>3 DEF Sent
  <2>5. Whole' = Whole /\ Unheard' = Unheard
    BY <2>1 DEF Whole, Message, Marked, Least, Unheard, Worded
  <2>6. Shapes' /\ Places' /\ InTime' /\ Hidden' /\ Unspoken'
    BY <2>1, <2>2 DEF ReplyInv, Shapes, Places, InTime, Hidden, Unspoken
  <2>7. RestSent'
    BY <2>1, <2>2 DEF ReplyInv, RestSent
  <2>8. Sending' /\ Ended'
    BY <2>1, <2>2, <2>4, <2>5 DEF ReplyInv, Sending, Ended, Failed
  <2> QED BY <2>6, <2>7, <2>8 DEF ReplyInv
<1> QED BY <1>1, <1>2, <1>3 DEF ReplyNext

(* The invariant of Replies: with the step a handler is at, it relates what *)
(* is shown to the piece that is next and bounds what a handler may take.   *)
LEMMA ReplyInvariant == ReplySpec => []ReplyInv
<1>1. ReplyInit => ReplyInv
  BY InitReply
<1>2. ReplyInv /\ [ReplyNext]_replyVars => ReplyInv'
  BY StepReply
<1> QED BY <1>1, <1>2, PTL DEF ReplySpec
-----------------------------------------------------------------------------
(* What is shown, in order. *)
LEMMA TextsAre ==
    ASSUME Shapes
    PROVE  LET first == IF original.shown THEN 1 ELSE 0
           IN  /\ Len(Texts) = first + Len(more)
               /\ original.shown => Texts[1] = original
               /\ \A i \in 1..Len(more) : Texts[first + i] = more[i]
<1>1. more \in Seq(Bubble)
  BY DEF Shapes
<1>2. CASE original.shown
  <2>1. <<original>> \in Seq({original}) /\ Len(<<original>>) = 1 /\ <<original>>[1] = original
    OBVIOUS
  <2> QED BY <1>1, <1>2, <2>1 DEF Texts
<1>3. CASE ~original.shown
  <2>1. Texts = << >> \o more
    BY <1>3 DEF Texts
  <2> QED BY <1>1, <1>3, <2>1
<1> QED BY <1>2, <1>3

(* interactions.go:182-183: whatever fails, at whichever part, and however  *)
(* it is told, no message that answers a private command is public.         *)
THEOREM PrivateStaysPrivate == ReplySpec => []StaysPrivate
<1>1. ASSUME ReplyInv, cmd.private, NEW i \in 1..Len(Texts) PROVE Texts[i].private
  <2>1. Shapes /\ Hidden
    BY <1>1 DEF ReplyInv
  <2>2. CASE original.shown /\ i = 1
    BY <1>1, <2>1, <2>2, TextsAre DEF Hidden, None
  <2>3. CASE original.shown /\ i > 1
    <3>1. Len(more) \in Nat /\ Len(Texts) = 1 + Len(more) /\ Texts[1 + (i - 1)] = more[i - 1]
      <4>1. /\ Len(more) \in Nat /\ Len(Texts) = 1 + Len(more)
            /\ \A j \in 1..Len(more) : Texts[1 + j] = more[j]
        BY <2>1, <2>3, TextsAre DEF Shapes
      <4>2. i \in Nat /\ i - 1 \in 1..Len(more)
        BY <1>1, <2>3, <4>1
      <4> QED BY <4>1, <4>2
    <3>2. i - 1 \in 1..Len(more) /\ 1 + (i - 1) = i
      BY <1>1, <2>3, <3>1
    <3> QED BY <1>1, <2>1, <3>1, <3>2 DEF Hidden
  <2>4. CASE ~original.shown
    <3>1. i \in 1..Len(more) /\ Texts[i] = more[i]
      BY <1>1, <2>1, <2>4, TextsAre DEF Shapes
    <3> QED BY <1>1, <2>1, <3>1 DEF Hidden
  <2> QED BY <1>1, <2>2, <2>3, <2>4
<1>2. ReplyInv => StaysPrivate
  BY <1>1 DEF StaysPrivate
<1> QED BY <1>2, ReplyInvariant, PTL

(* interactions.go:48-57, what CommandAnswered says short of progress: a    *)
(* command that has ended has shown its user something, an error if need    *)
(* be, unless Discord failed or a conversation panicked or had no words.    *)
(* No deadline of a handler outlives the token, so that Discord takes the   *)
(* error of one that timed out.                                             *)
EndsAnswered == doing = "done" => Texts # << >> \/ Unheard
(* interactions.go:48-57: a handler that ends has answered. *)
THEOREM EveryEndIsAnswered == ReplySpec => []EndsAnswered
<1>1. ASSUME ReplyInv, doing = "done", original.shown PROVE Texts # << >>
  <2>1. Len(Texts) > 0
    BY <1>1, TextsAre DEF ReplyInv, Shapes
  <2> QED BY <2>1
<1>2. ReplyInv => EndsAnswered
  BY <1>1 DEF EndsAnswered, ReplyInv, Ended
<1> QED BY <1>2, ReplyInvariant, PTL

(* interactions.go:166-209, messages.go: what is shown of a reply is its    *)
(* beginning in order, all of it or marked at its end as incomplete.        *)
THEOREM RepliesCompleteOrMarked == ReplySpec => []CompleteOrMarked
<1>1. ASSUME ReplyInv PROVE \A i \in 1..Len(more) : more[i].part = FirstPart + i
  BY <1>1 DEF ReplyInv, RestSent
<1>2. ASSUME ReplyInv, Answered, ~refused
      PROVE  LET final == Texts[Len(Texts)]
             IN  /\ original.part = IF cmd = Mention THEN Least(1, reply.chunks) ELSE FirstPart
                 /\ final.marked \/ (final.part = reply.chunks /\ ~reply.cut)
  <2>1. Numbers /\ Shapes /\ doing = "done" /\ Texts # << >> /\ ~Erred
    BY <1>2, NumbersFit DEF ReplyInv, Answered
  <2>2. CASE Step = "sendReply"
    <3>1. cmd = Mention /\ more = << >> /\ (original = None \/ original = Whole)
      BY <1>2, <2>1, <2>2, Here DEF ReplyInv, Ended, Places, Longs, Embeds
    <3>2. original # None
      BY <2>1, <3>1 DEF Texts, None
    <3>3. Len(Texts) = 1 /\ Texts[1] = Whole
      BY <2>1, <3>1, <3>2, WholeFits, TextsAre
    <3>4. Whole.part = Least(1, reply.chunks) /\ Whole.marked = (reply.cut \/ reply.chunks > 1)
      BY DEF Whole, Message
    <3>5. reply.chunks <= 1 => Least(1, reply.chunks) = reply.chunks
      BY <2>1 DEF Shapes, Least
    <3>6. Texts[Len(Texts)] = Whole /\ original = Whole
      BY <3>1, <3>2, <3>3
    <3>7. Whole.marked \/ (Whole.part = reply.chunks /\ ~reply.cut)
      <4>1. CASE reply.cut \/ reply.chunks > 1
        BY <3>4, <4>1
      <4>2. CASE ~(reply.cut \/ reply.chunks > 1)
        <5>1. reply.chunks <= 1
          BY <2>1, <4>2 DEF Shapes
        <5> QED BY <3>4, <3>5, <4>2, <5>1
      <4> QED BY <4>1, <4>2
    <3>8. original.part = IF cmd = Mention THEN Least(1, reply.chunks) ELSE FirstPart
      BY <3>1, <3>4, <3>6
    <3>9. Texts[Len(Texts)].marked \/ (Texts[Len(Texts)].part = reply.chunks /\ ~reply.cut)
      BY <3>6, <3>7
    <3> QED BY <3>8, <3>9
  <2>3. CASE Step \in Answers
    <3>1. cmd # Mention
      BY <2>1, <2>3, <1>2, Here
    <3>2. ~Failed
      BY <2>1, TextsAre DEF Failed, Erred, Shapes
    <3>3. FirstSent /\ Len(more) = LastPart - FirstPart /\ RestSent
      BY <1>2, <2>1, <2>3, <3>2, PartsFit DEF ReplyInv, Ended, Sent
    <3>4. /\ Texts[Len(Texts)].part = LastPart
          /\ Texts[Len(Texts)].marked = Marked(LastPart)
      <4>1. CASE more = << >>
        BY <2>1, <3>3, <4>1, TextsAre, PartsFit DEF FirstSent
      <4>2. CASE more # << >>
        <5>1. Len(more) \in 1..Len(more) /\ Texts[Len(Texts)] = more[Len(more)]
          BY <2>1, <3>3, <4>2, TextsAre DEF Shapes, FirstSent
        <5> QED BY <2>1, <3>3, <5>1, PartsFit DEF RestSent
      <4> QED BY <4>1, <4>2
    <3>5. Marked(LastPart) \/ (LastPart = reply.chunks /\ ~reply.cut)
      BY <2>1, PartsFit DEF Marked, LastPart, Least, Numbers
    <3> QED BY <3>1, <3>3, <3>4, <3>5 DEF FirstSent
  <2> QED BY <1>2, <2>2, <2>3 DEF Answered
<1>3. ReplyInv => CompleteOrMarked
  BY <1>1, <1>2 DEF CompleteOrMarked
<1> QED BY <1>3, ReplyInvariant, PTL
-----------------------------------------------------------------------------
-----------------------------------------------------------------------------
(* A number of a set of naturals is the least. *)
LEMMA LeastNumber ==
    ASSUME NEW T \in SUBSET Nat, T # {}
    PROVE  \E m \in T : \A k \in T : m <= k
<1>1. IsWellFoundedOn(OpToRel(<, Nat), Nat)
  BY NatLessThanWellFounded
<1>2. PICK m \in T : \A k \in T : <<k, m>> \notin OpToRel(<, Nat)
  BY <1>1, WFMin
<1>3. \A k \in T : ~(k < m)
  BY <1>2 DEF OpToRel
<1> QED BY <1>3

(* g[n] is what the first n parts are together. *)
Flattens(g, parts, m) ==
    g = [n \in 0..m |-> IF n = 0 THEN <<>> ELSE g[n - 1] \o parts[n]]

(* There is such a function for any number of parts. *)
LEMMA FlatIs ==
    ASSUME NEW parts, Len(parts) \in Nat
    PROVE  \E g : Flattens(g, parts, Len(parts)) /\ Flat(parts) = g[Len(parts)]
<1> DEFINE T == {m \in Nat : ~\E g : Flattens(g, parts, m)}
<1>1. T = {}
  <2>1. SUFFICES ASSUME T # {} PROVE FALSE
    OBVIOUS
  <2>2. PICK m \in T : \A k \in T : m <= k
    BY <2>1, LeastNumber
  <2>3. m # 0
    <3>1. Flattens([n \in 0..0 |-> <<>>], parts, 0)
      BY DEF Flattens
    <3> QED BY <2>2, <3>1
  <2>4. PICK g : Flattens(g, parts, m - 1)
    <3>1. m - 1 \in Nat /\ ~(m <= m - 1)
      BY <2>2, <2>3
    <3> QED BY <2>2, <3>1
  <2> DEFINE h == [n \in 0..m |-> IF n = 0 THEN <<>> ELSE g[n - 1] \o parts[n]]
  <2>5. \A n \in 0..(m - 1) : h[n] = g[n]
    <3>1. ASSUME NEW n \in 0..(m - 1) PROVE h[n] = g[n]
      <4>1. n \in 0..m
        BY <2>2
      <4> QED BY <2>4, <4>1 DEF Flattens
    <3> QED BY <3>1
  <2>6. Flattens(h, parts, m)
    <3>1. \A n \in 1..m : h[n - 1] = g[n - 1]
      <4>1. \A n \in 1..m : n - 1 \in 0..(m - 1)
        BY <2>2
      <4> HIDE DEF h
      <4> QED BY <2>5, <4>1
    <3>2. \A n \in 0..m : n # 0 => n \in 1..m
      BY <2>2
    <3>3. ASSUME NEW n \in 0..m
          PROVE  (IF n = 0 THEN <<>> ELSE g[n - 1] \o parts[n])
                 = (IF n = 0 THEN <<>> ELSE h[n - 1] \o parts[n])
      <4>1. CASE n = 0
        BY <4>1
      <4>2. CASE n # 0
        <5>1. h[n - 1] = g[n - 1]
          BY <3>1, <3>2, <4>2
        <5> HIDE DEF h
        <5> QED BY <4>2, <5>1
      <4> QED BY <4>1, <4>2
    <3>4. h = [n \in 0..m |-> IF n = 0 THEN <<>> ELSE g[n - 1] \o parts[n]]
      OBVIOUS
    <3> HIDE DEF h
    <3> QED BY <3>3, <3>4 DEF Flattens
  <2> QED BY <2>2, <2>6
<1>2. \E g : Flattens(g, parts, Len(parts))
  BY <1>1
<1> DEFINE f == CHOOSE g : g = [n \in 0..Len(parts) |-> IF n = 0 THEN <<>> ELSE g[n - 1] \o parts[n]]
<1>3. Flattens(f, parts, Len(parts))
  BY <1>2 DEF Flattens
<1>4. Flat(parts) = f[Len(parts)]
  BY DEF Flat
<1> HIDE DEF f
<1> QED BY <1>3, <1>4

(* g[n] is g[n - 1] with the part n after it. *)
PartAdded(g, parts, n) == g[n] = g[n - 1] \o parts[n]

LEMMA FlattensAt ==
    ASSUME NEW g, NEW parts, NEW m \in Nat, Flattens(g, parts, m)
    PROVE  g[0] = <<>> /\ \A n \in 1..m : PartAdded(g, parts, n)
<1>1. g[0] = <<>>
  <2>1. 0 \in 0..m
    OBVIOUS
  <2> QED BY <2>1 DEF Flattens
<1>2. ASSUME NEW n \in 1..m PROVE PartAdded(g, parts, n)
  <2>1. n \in 0..m /\ n # 0
    OBVIOUS
  <2> QED BY <2>1 DEF Flattens, PartAdded
<1> QED BY <1>1, <1>2

(* What the first parts are together does not depend on those after them. *)
LEMMA FlattensAlike ==
    ASSUME NEW g, NEW p, NEW m \in Nat, NEW h, NEW q, NEW n \in Nat, m <= n,
           Flattens(g, p, m), Flattens(h, q, n), \A i \in 1..m : p[i] = q[i]
    PROVE  g[m] = h[m]
<1> DEFINE T == {i \in 0..m : g[i] # h[i]}
<1>1. SUFFICES ASSUME T # {} PROVE FALSE
  OBVIOUS
<1>2. PICK k \in T : \A i \in T : k <= i
  <2>1. T \subseteq Nat
    OBVIOUS
  <2> QED BY <1>1, <2>1, LeastNumber
<1>3. k # 0
  BY <1>2, FlattensAt
<1>4. k \in 1..m /\ k \in 1..n /\ k - 1 \in 0..m /\ ~(k <= k - 1)
  BY <1>2, <1>3
<1>5. g[k - 1] = h[k - 1]
  BY <1>2, <1>4
<1>6. g[k] = g[k - 1] \o p[k] /\ h[k] = h[k - 1] \o q[k] /\ p[k] = q[k]
  <2>1. PartAdded(g, p, k) /\ PartAdded(h, q, k)
    BY <1>4, FlattensAt
  <2> QED BY <1>4, <2>1 DEF PartAdded
<1> QED BY <1>2, <1>5, <1>6

LEMMA FlattensTyped ==
    ASSUME NEW parts \in Seq(Seq(Chars)), NEW g, Flattens(g, parts, Len(parts)),
           NEW m \in 0..Len(parts)
    PROVE  g[m] \in Seq(Chars)
<1> DEFINE T == {i \in 0..Len(parts) : g[i] \notin Seq(Chars)}
<1>0. Len(parts) \in Nat
  BY LenProperties
<1>1. SUFFICES ASSUME T # {} PROVE FALSE
  OBVIOUS
<1>2. PICK k \in T : \A i \in T : k <= i
  <2>1. T \subseteq Nat
    OBVIOUS
  <2> QED BY <1>1, <2>1, LeastNumber
<1>3. k # 0
  <2>1. g[0] = <<>> /\ <<>> \in Seq(Chars)
    BY <1>0, FlattensAt, EmptySeq
  <2> QED BY <1>2, <2>1
<1>4. k \in 1..Len(parts) /\ k - 1 \in 0..Len(parts) /\ ~(k <= k - 1)
  BY <1>0, <1>2, <1>3
<1>5. g[k - 1] \in Seq(Chars) /\ parts[k] \in Seq(Chars)
  BY <1>2, <1>4, ElementOfSeq
<1>6. g[k] = g[k - 1] \o parts[k]
  <2>1. PartAdded(g, parts, k)
    BY <1>0, <1>4, FlattensAt
  <2> QED BY <2>1 DEF PartAdded
<1>7. g[k - 1] \o parts[k] \in Seq(Chars)
  BY <1>5, ConcatProperties
<1> QED BY <1>2, <1>6, <1>7

LEMMA FlatTyped ==
    ASSUME NEW parts \in Seq(Seq(Chars))
    PROVE  Flat(parts) \in Seq(Chars)
<1>1. Len(parts) \in Nat /\ Len(parts) \in 0..Len(parts)
  BY LenProperties
<1>2. PICK g : Flattens(g, parts, Len(parts)) /\ Flat(parts) = g[Len(parts)]
  BY <1>1, FlatIs
<1> QED BY <1>1, <1>2, FlattensTyped

LEMMA FlatNothing ==
    ASSUME NEW parts \in Seq(Seq(Chars)), \A i \in 1..Len(parts) : parts[i] = <<>>
    PROVE  Flat(parts) = <<>>
<1>1. Len(parts) \in Nat
  BY LenProperties
<1>2. PICK g : Flattens(g, parts, Len(parts)) /\ Flat(parts) = g[Len(parts)]
  BY <1>1, FlatIs
<1> DEFINE T == {i \in 0..Len(parts) : g[i] # <<>>}
<1>3. SUFFICES ASSUME T # {} PROVE FALSE
  <2>1. Len(parts) \in 0..Len(parts)
    BY <1>1
  <2> QED BY <1>2, <2>1
<1>4. PICK k \in T : \A i \in T : k <= i
  <2>1. T \subseteq Nat
    OBVIOUS
  <2> QED BY <1>3, <2>1, LeastNumber
<1>5. k # 0
  BY <1>1, <1>2, <1>4, FlattensAt
<1>6. k \in 1..Len(parts) /\ k - 1 \in 0..Len(parts) /\ ~(k <= k - 1)
  BY <1>1, <1>4, <1>5
<1>7. g[k - 1] = <<>> /\ parts[k] = <<>> /\ g[k] = g[k - 1] \o parts[k]
  <2>1. PartAdded(g, parts, k)
    BY <1>1, <1>2, <1>6, FlattensAt
  <2> QED BY <1>4, <1>6, <2>1 DEF PartAdded
<1>8. <<>> \o <<>> = <<>>
  <2>1. <<>> \in Seq(Chars)
    BY EmptySeq
  <2> QED BY <2>1, ConcatEmptySeq
<1> QED BY <1>4, <1>7, <1>8

LEMMA AppendIs ==
    ASSUME NEW S, NEW s \in Seq(S), NEW e \in S, NEW k, k = Len(s)
    PROVE  /\ k \in Nat /\ Append(s, e) \in Seq(S) /\ Len(Append(s, e)) = k + 1
           /\ (\A i \in 1..k : Append(s, e)[i] = s[i]) /\ Append(s, e)[k + 1] = e
BY LenProperties, AppendProperties

LEMMA FlatAppend ==
    ASSUME NEW parts \in Seq(Seq(Chars)), NEW p \in Seq(Chars)
    PROVE  Flat(Append(parts, p)) = Flat(parts) \o p
<1>1. PICK m \in Nat : m = Len(parts)
  BY LenProperties
<1>2. PICK longer \in Seq(Seq(Chars)) :
         longer = Append(parts, p) /\ Len(longer) = m + 1 /\ longer[m + 1] = p
         /\ \A i \in 1..m : longer[i] = parts[i]
  <2>1. /\ Append(parts, p) \in Seq(Seq(Chars)) /\ Len(Append(parts, p)) = Len(parts) + 1
        /\ \A i \in 1..Len(parts) : Append(parts, p)[i] = parts[i]
        /\ Append(parts, p)[Len(parts) + 1] = p
    BY AppendProperties
  <2>2. PICK longer : longer = Append(parts, p)
    OBVIOUS
  <2> QED BY <1>1, <2>1, <2>2
<1>3. PICK g : Flattens(g, parts, m) /\ Flat(parts) = g[m]
  BY <1>1, FlatIs
<1>4. PICK h : Flattens(h, longer, m + 1) /\ Flat(longer) = h[m + 1]
  <2>1. Len(longer) \in Nat
    BY <1>2
  <2>2. \E h : Flattens(h, longer, Len(longer)) /\ Flat(longer) = h[Len(longer)]
    BY <2>1, FlatIs
  <2> QED BY <1>2, <2>2
<1>5. g[m] = h[m]
  <2>1. m + 1 \in Nat /\ m <= m + 1 /\ \A i \in 1..m : parts[i] = longer[i]
    BY <1>2
  <2> QED BY <2>1, <1>3, <1>4, FlattensAlike
<1>6. h[m + 1] = h[m] \o p
  <2>1. m + 1 \in 1..(m + 1) /\ (m + 1) - 1 = m /\ m + 1 \in Nat
    OBVIOUS
  <2>2. PartAdded(h, longer, m + 1)
    BY <2>1, <1>4, FlattensAt
  <2>3. h[m + 1] = h[(m + 1) - 1] \o longer[m + 1]
    BY <2>2 DEF PartAdded
  <2> QED BY <1>2, <2>1, <2>3
<1> QED BY <1>2, <1>3, <1>4, <1>5, <1>6

(* Three texts one after the other, whichever two are joined first. *)
Regroup(s, t, v) == (s \o t) \o v = s \o (t \o v)

LEMMA TextsRegroup ==
    ASSUME NEW s \in Seq(Chars), NEW t \in Seq(Chars), NEW v \in Seq(Chars)
    PROVE  Regroup(s, t, v)
BY ConcatAssociative, SMTT(20) DEF Regroup

(* What is appended to the second of two lists comes last in both together. *)
AppendLast(S, p, u, x) ==
    /\ p \o u \in Seq(S) /\ Len(u) \in Nat /\ Len(Append(u, x)) = Len(u) + 1
    /\ p \o Append(u, x) = Append(p \o u, x)

LEMMA AppendJoins ==
    ASSUME NEW S, NEW p \in Seq(S), NEW u \in Seq(S), NEW x \in S
    PROVE  AppendLast(S, p, u, x)
<1>1. p \o u \in Seq(S) /\ Len(u) \in Nat /\ Len(Append(u, x)) = Len(u) + 1
  BY ConcatProperties, LenProperties, AppendProperties
<1>2. Append(u, x) = u \o <<x>> /\ Append(p \o u, x) = (p \o u) \o <<x>> /\ <<x>> \in Seq(S)
  BY <1>1, AppendIsConcat
<1>3. (p \o u) \o <<x>> = p \o (u \o <<x>>)
  BY <1>2, ConcatAssociative, SMTT(20)
<1> QED BY <1>1, <1>2, <1>3 DEF AppendLast

(* The parts of two lists, together. *)
LEMMA FlatJoins ==
    ASSUME NEW p \in Seq(Seq(Chars)), NEW q \in Seq(Seq(Chars))
    PROVE  Flat(p \o q) = Flat(p) \o Flat(q)
<1> DEFINE S == Seq(Chars)
           T == {n \in Nat : \E r \in Seq(S) : Len(r) = n /\ Flat(p \o r) # Flat(p) \o Flat(r)}
<1>1. SUFFICES ASSUME T # {} PROVE FALSE
  <2>1. Len(q) \in Nat
    BY LenProperties
  <2> QED BY <2>1
<1>2. PICK n \in T : \A i \in T : n <= i
  BY <1>1, LeastNumber
<1>3. PICK r \in Seq(S) : Len(r) = n /\ Flat(p \o r) # Flat(p) \o Flat(r)
  BY <1>2
<1>4. Flat(p) \in Seq(Chars)
  BY FlatTyped
<1>5. r # <<>>
  <2>1. <<>> \in Seq(S) /\ p \o <<>> = p
    BY EmptySeq, ConcatEmptySeq
  <2>2. Flat(<<>>) = <<>>
    <3>1. <<>> \in Seq(Seq(Chars)) /\ \A i \in 1..Len(<<>>) : <<>>[i] = <<>>
      BY <2>1
    <3> QED BY <3>1, FlatNothing
  <2>3. Flat(p) \o <<>> = Flat(p)
    BY <1>4, ConcatEmptySeq
  <2> QED BY <1>3, <2>1, <2>2, <2>3
<1>6. PICK u \in Seq(S), x \in S : r = Append(u, x)
  BY <1>5, SequenceEmptyOrAppend
<1>7. /\ p \o u \in Seq(S) /\ Len(u) \in Nat /\ Len(r) = Len(u) + 1
      /\ p \o r = Append(p \o u, x)
  <2>1. p \in Seq(S)
    OBVIOUS
  <2> HIDE DEF S
  <2>2. AppendLast(S, p, u, x)
    BY <2>1, AppendJoins
  <2> QED BY <1>6, <2>2 DEF AppendLast
<1>8. Flat(p \o u) = Flat(p) \o Flat(u)
  <2>1. Len(u) \in Nat /\ ~(n <= Len(u))
    BY <1>3, <1>7
  <2> QED BY <1>2, <2>1
<1>9. Flat(Append(p \o u, x)) = Flat(p \o u) \o x
  BY <1>7, FlatAppend
<1>10. Flat(p \o r) = (Flat(p) \o Flat(u)) \o x
  BY <1>7, <1>8, <1>9
<1>11. Flat(r) = Flat(u) \o x
  BY <1>6, FlatAppend
<1>12. (Flat(p) \o Flat(u)) \o x = Flat(p) \o (Flat(u) \o x)
  <2>1. Flat(u) \in Seq(Chars)
    BY FlatTyped
  <2>2. x \in Seq(Chars)
    BY <1>6
  <2>3. Regroup(Flat(p), Flat(u), x)
    BY <1>4, <2>1, <2>2, TextsRegroup
  <2> QED BY <2>3 DEF Regroup
<1> QED BY <1>3, <1>10, <1>11, <1>12
-----------------------------------------------------------------------------
(* Each character as a text of its own, white space as an empty one. *)
Glyphs(s) == [i \in 1..Len(s) |-> IF s[i] \in White THEN <<>> ELSE <<s[i]>>]

LEMMA GlyphsAre ==
    ASSUME NEW s \in Seq(Chars)
    PROVE  /\ Letters(s) = Flat(Glyphs(s)) /\ Glyphs(s) \in Seq(Seq(Chars))
           /\ Len(Glyphs(s)) = Len(s)
           /\ \A i \in 1..Len(s) : Glyphs(s)[i] = IF s[i] \in White THEN <<>> ELSE <<s[i]>>
<1>1. Letters(s) = Flat(Glyphs(s))
  BY DEF Letters, Glyphs
<1>2. Len(s) \in Nat
  BY LenProperties
<1>3. \A i \in 1..Len(s) : (IF s[i] \in White THEN <<>> ELSE <<s[i]>>) \in Seq(Chars)
  <2>1. ASSUME NEW i \in 1..Len(s) PROVE <<>> \in Seq(Chars) /\ <<s[i]>> \in Seq(Chars)
    <3>1. s[i] \in Chars
      BY ElementOfSeq
    <3> QED BY <3>1
  <2> QED BY <2>1
<1> DEFINE S == Seq(Chars)
<1>4. \A i \in 1..Len(s) : (IF s[i] \in White THEN <<>> ELSE <<s[i]>>) \in S
  BY <1>3
<1> HIDE DEF S
<1>5. Glyphs(s) \in Seq(S) /\ Len(Glyphs(s)) = Len(s)
  <2>1. Glyphs(s) \in [1..Len(s) -> S]
    BY <1>4 DEF Glyphs
  <2> QED BY <1>2, <2>1
<1> QED BY <1>1, <1>5 DEF Glyphs, S

LEMMA LettersTyped == ASSUME NEW s \in Seq(Chars) PROVE Letters(s) \in Seq(Chars)
BY GlyphsAre, FlatTyped

LEMMA LettersOfBlank == ASSUME NEW s \in Seq(Chars), Blank(s) PROVE Letters(s) = <<>>
<1>1. \A i \in 1..Len(Glyphs(s)) : Glyphs(s)[i] = <<>>
  BY GlyphsAre DEF Blank
<1> QED BY <1>1, GlyphsAre, FlatNothing

LEMMA LettersJoin ==
    ASSUME NEW s \in Seq(Chars), NEW t \in Seq(Chars)
    PROVE  Letters(s \o t) = Letters(s) \o Letters(t)
<1>1. PICK u \in Seq(Chars) : u = s \o t
  BY ConcatProperties
<1>2. PICK k \in Nat, l \in Nat : k = Len(s) /\ l = Len(t)
  BY LenProperties
<1>3. Len(u) = k + l /\ \A i \in 1..(k + l) : u[i] = IF i <= k THEN s[i] ELSE t[i - k]
  BY <1>1, <1>2, ConcatProperties
<1>4. PICK g, h, j : g = Glyphs(s) /\ h = Glyphs(t) /\ j = Glyphs(u)
  OBVIOUS
<1> DEFINE S == Seq(Chars)
<1>5. /\ g \in Seq(S) /\ h \in Seq(S) /\ j \in Seq(S)
      /\ Len(g) = k /\ Len(h) = l /\ Len(j) = k + l
  BY <1>2, <1>3, <1>4, GlyphsAre
<1>6. /\ \A i \in 1..k : g[i] = IF s[i] \in White THEN <<>> ELSE <<s[i]>>
      /\ \A i \in 1..l : h[i] = IF t[i] \in White THEN <<>> ELSE <<t[i]>>
      /\ \A i \in 1..(k + l) : j[i] = IF u[i] \in White THEN <<>> ELSE <<u[i]>>
  <2>1. \A i \in 1..k : g[i] = IF s[i] \in White THEN <<>> ELSE <<s[i]>>
    BY <1>2, <1>4, GlyphsAre
  <2>2. \A i \in 1..l : h[i] = IF t[i] \in White THEN <<>> ELSE <<t[i]>>
    BY <1>2, <1>4, GlyphsAre
  <2>3. \A i \in 1..(k + l) : j[i] = IF u[i] \in White THEN <<>> ELSE <<u[i]>>
    BY <1>3, <1>4, GlyphsAre
  <2> QED BY <2>1, <2>2, <2>3
<1> HIDE DEF S
<1>7. /\ g \o h \in Seq(S) /\ Len(g \o h) = k + l
      /\ \A i \in 1..(k + l) : (g \o h)[i] = IF i <= k THEN g[i] ELSE h[i - k]
  BY <1>5, ConcatProperties
<1>8. ASSUME NEW i \in 1..(k + l) PROVE j[i] = (g \o h)[i]
  <2>1. CASE i <= k
    <3>1. i \in 1..k /\ u[i] = s[i] /\ (g \o h)[i] = g[i]
      BY <1>3, <1>7, <2>1
    <3> QED BY <1>6, <3>1
  <2>2. CASE ~(i <= k)
    <3>1. PICK m \in 1..l : u[i] = t[m] /\ (g \o h)[i] = h[m]
      <4>1. i - k \in 1..l
        BY <2>2
      <4> QED BY <1>3, <1>7, <2>2, <4>1
    <3> QED BY <1>6, <3>1
  <2> QED BY <2>1, <2>2
<1>9. j = g \o h
  BY <1>5, <1>7, <1>8, SeqEqual
<1>10. Flat(j) = Flat(g) \o Flat(h)
  BY <1>5, <1>9, FlatJoins DEF S
<1> QED BY <1>1, <1>4, <1>10, GlyphsAre

(* The letters of a part of a text and of what follows it. *)
LEMMA LettersOfSlices ==
    ASSUME NEW s \in Seq(Chars), NEW a \in 1..(Len(s) + 1), NEW b \in (a - 1)..Len(s),
           NEW c \in b..Len(s)
    PROVE  /\ SubSeq(s, a, b) \in Seq(Chars) /\ SubSeq(s, b + 1, c) \in Seq(Chars)
           /\ Letters(SubSeq(s, a, c)) = Letters(SubSeq(s, a, b)) \o Letters(SubSeq(s, b + 1, c))
<1>1. SubSeq(s, a, b) \o SubSeq(s, b + 1, c) = SubSeq(s, a, c)
  BY ConcatAdjacentSubSeq
<1>2. Len(s) \in Nat /\ \A i \in 1..Len(s) : s[i] \in Chars
  BY LenProperties, ElementOfSeq
<1>3. SubSeq(s, a, b) \in Seq(Chars)
  <2>1. \A i \in a..b : s[i] \in Chars
    BY <1>2
  <2> QED BY <1>2, <2>1, SubSeqProperties
<1>4. SubSeq(s, b + 1, c) \in Seq(Chars)
  <2>1. (\A i \in (b + 1)..c : s[i] \in Chars) /\ b + 1 \in Int /\ c \in Int
    BY <1>2
  <2> QED BY <2>1, SubSeqProperties
<1> QED BY <1>1, <1>3, <1>4, LettersJoin

(* The letters of each piece. *)
Spelt(pieces) == [i \in 1..Len(pieces) |-> Letters(pieces[i])]

LEMMA SpeltAre ==
    ASSUME NEW p \in Seq(Seq(Chars))
    PROVE  /\ AllLetters(p) = Flat(Spelt(p)) /\ Spelt(p) \in Seq(Seq(Chars))
           /\ Len(Spelt(p)) = Len(p) /\ \A i \in 1..Len(p) : Spelt(p)[i] = Letters(p[i])
<1>1. AllLetters(p) = Flat(Spelt(p))
  BY DEF AllLetters, Spelt
<1>2. Len(p) \in Nat
  BY LenProperties
<1>3. \A i \in 1..Len(p) : Letters(p[i]) \in Seq(Chars)
  <2>1. ASSUME NEW i \in 1..Len(p) PROVE Letters(p[i]) \in Seq(Chars)
    <3>1. p[i] \in Seq(Chars)
      BY ElementOfSeq
    <3> QED BY <3>1, LettersTyped
  <2> QED BY <2>1
<1> DEFINE S == Seq(Chars)
<1>4. \A i \in 1..Len(p) : Letters(p[i]) \in S
  BY <1>3
<1> HIDE DEF S
<1>5. Spelt(p) \in Seq(S) /\ Len(Spelt(p)) = Len(p)
  <2>1. Spelt(p) \in [1..Len(p) -> S]
    BY <1>4 DEF Spelt
  <2>2. PICK e : e = Spelt(p)
    OBVIOUS
  <2>3. e \in [1..Len(p) -> S]
    BY <2>1, <2>2
  <2>4. e \in Seq(S)
    <3>1. PICK k \in Nat : k = Len(p)
      BY <1>2
    <3>2. e \in [1..k -> S]
      BY <2>3, <3>1
    <3> QED BY SMTT(20), <3>2
  <2>5. DOMAIN e = 1..Len(p)
    BY <2>3
  <2>6. Len(e) = Len(p)
    BY <1>2, <2>4, <2>5, LenProperties
  <2> QED BY <2>2, <2>4, <2>6
<1> QED BY <1>1, <1>5 DEF Spelt, S

LEMMA AllTyped == ASSUME NEW p \in Seq(Seq(Chars)) PROVE AllLetters(p) \in Seq(Chars)
BY SpeltAre, FlatTyped

LEMMA AllOfNone == AllLetters(<<>>) = <<>> /\ <<>> \in Seq(Seq(Chars))
<1>1. <<>> \in Seq(Seq(Chars)) /\ Len(<<>>) = 0
  BY EmptySeq
<1>2. Spelt(<<>>) \in Seq(Seq(Chars)) /\ Len(Spelt(<<>>)) = 0 /\ AllLetters(<<>>) = Flat(Spelt(<<>>))
  BY <1>1, SpeltAre
<1>3. \A i \in 1..Len(Spelt(<<>>)) : Spelt(<<>>)[i] = <<>>
  BY <1>2
<1> QED BY <1>1, <1>2, <1>3, FlatNothing

LEMMA AllAppend ==
    ASSUME NEW p \in Seq(Seq(Chars)), NEW x \in Seq(Chars)
    PROVE  AllLetters(Append(p, x)) = AllLetters(p) \o Letters(x)
<1> DEFINE S == Seq(Chars)
<1>1. PICK k \in Nat : k = Len(p)
  BY LenProperties
<1>2. PICK q \in Seq(S) : /\ q = Append(p, x) /\ Len(q) = k + 1
                          /\ q[k + 1] = x /\ \A i \in 1..k : q[i] = p[i]
  <2>1. /\ Append(p, x) \in Seq(S) /\ Len(Append(p, x)) = Len(p) + 1
        /\ \A i \in 1..Len(p) : Append(p, x)[i] = p[i]
        /\ Append(p, x)[Len(p) + 1] = x
    BY AppendProperties
  <2>2. PICK q : q = Append(p, x)
    OBVIOUS
  <2> QED BY <1>1, <2>1, <2>2
<1>3. PICK g, h, y : g = Spelt(p) /\ h = Spelt(q) /\ y = Letters(x)
  OBVIOUS
<1>4. /\ g \in Seq(S) /\ Len(g) = k /\ \A i \in 1..k : g[i] = Letters(p[i])
      /\ AllLetters(p) = Flat(g)
  BY <1>1, <1>3, SpeltAre
<1>5. /\ h \in Seq(S) /\ Len(h) = k + 1 /\ \A i \in 1..(k + 1) : h[i] = Letters(q[i])
      /\ AllLetters(q) = Flat(h)
  BY <1>2, <1>3, SpeltAre
<1>6. y \in S
  BY <1>3, LettersTyped
<1> HIDE DEF S
<1>7. /\ Append(g, y) \in Seq(S) /\ Len(Append(g, y)) = k + 1
      /\ \A i \in 1..k : Append(g, y)[i] = g[i]
      /\ Append(g, y)[k + 1] = y
  <2>1. g \in Seq(S) /\ y \in S /\ k = Len(g)
    BY <1>4, <1>6
  <2> QED BY <2>1, AppendIs
<1>8. ASSUME NEW i \in 1..(k + 1) PROVE h[i] = Append(g, y)[i]
  <2>1. CASE i \in 1..k
    BY <2>1, <1>2, <1>4, <1>5, <1>7
  <2>2. CASE i = k + 1
    <3>1. h[i] = Letters(q[i]) /\ q[i] = x /\ Append(g, y)[i] = y
      BY <2>2, <1>2, <1>5, <1>7
    <3> QED BY <1>3, <3>1
  <2>3. i \in 1..k \/ i = k + 1
    OBVIOUS
  <2> QED BY <2>1, <2>2, <2>3
<1>9. h = Append(g, y)
  BY <1>5, <1>7, <1>8, SeqEqual
<1>10. Flat(Append(g, y)) = Flat(g) \o y
  BY <1>4, <1>6, FlatAppend DEF S
<1> QED BY <1>2, <1>3, <1>4, <1>5, <1>9, <1>10

LEMMA AllJoins ==
    ASSUME NEW p \in Seq(Seq(Chars)), NEW q \in Seq(Seq(Chars))
    PROVE  AllLetters(p \o q) = AllLetters(p) \o AllLetters(q)
<1> DEFINE S == Seq(Chars)
           T == {n \in Nat : \E r \in Seq(S) : /\ Len(r) = n
                                               /\ AllLetters(p \o r) # AllLetters(p) \o AllLetters(r)}
<1>1. SUFFICES ASSUME T # {} PROVE FALSE
  <2>1. Len(q) \in Nat
    BY LenProperties
  <2> QED BY <2>1
<1>2. PICK n \in T : \A i \in T : n <= i
  BY <1>1, LeastNumber
<1>3. PICK r \in Seq(S) : Len(r) = n /\ AllLetters(p \o r) # AllLetters(p) \o AllLetters(r)
  BY <1>2
<1>4. AllLetters(p) \in Seq(Chars)
  BY AllTyped
<1>5. r # <<>>
  <2>1. <<>> \in Seq(S) /\ p \o <<>> = p
    BY EmptySeq, ConcatEmptySeq
  <2>2. AllLetters(p) \o <<>> = AllLetters(p)
    BY <1>4, ConcatEmptySeq
  <2> QED BY <1>3, <2>1, <2>2, AllOfNone
<1>6. PICK u \in Seq(S), x \in S : r = Append(u, x)
  BY <1>5, SequenceEmptyOrAppend
<1>7. /\ p \o u \in Seq(S) /\ Len(u) \in Nat /\ Len(r) = Len(u) + 1
      /\ p \o r = Append(p \o u, x)
  <2>1. p \in Seq(S)
    OBVIOUS
  <2> HIDE DEF S
  <2>2. AppendLast(S, p, u, x)
    BY <2>1, AppendJoins
  <2> QED BY <1>6, <2>2 DEF AppendLast
<1>8. AllLetters(p \o u) = AllLetters(p) \o AllLetters(u)
  <2>1. Len(u) \in Nat /\ ~(n <= Len(u))
    BY <1>3, <1>7
  <2> QED BY <1>2, <2>1
<1>9. AllLetters(Append(p \o u, x)) = AllLetters(p \o u) \o Letters(x)
  BY <1>7, AllAppend
<1>10. AllLetters(r) = AllLetters(u) \o Letters(x)
  BY <1>6, AllAppend
<1>11. (AllLetters(p) \o AllLetters(u)) \o Letters(x) = AllLetters(p) \o (AllLetters(u) \o Letters(x))
  <2>1. AllLetters(u) \in Seq(Chars)
    BY AllTyped
  <2>2. Letters(x) \in Seq(Chars)
    BY LettersTyped
  <2>3. Regroup(AllLetters(p), AllLetters(u), Letters(x))
    BY <1>4, <2>1, <2>2, TextsRegroup
  <2> QED BY <2>3 DEF Regroup
<1> QED BY <1>3, <1>7, <1>8, <1>9, <1>10, <1>11

LEMMA AllOfOne == ASSUME NEW x \in Seq(Chars) PROVE AllLetters(<<x>>) = Letters(x)
<1>1. <<x>> = Append(<<>>, x)
  OBVIOUS
<1>2. AllLetters(Append(<<>>, x)) = <<>> \o Letters(x)
  BY AllOfNone, AllAppend
<1>3. <<>> \o Letters(x) = Letters(x)
  BY LettersTyped, ConcatEmptySeq
<1> QED BY <1>1, <1>2, <1>3
-----------------------------------------------------------------------------
LEMMA MinIs ==
    ASSUME NEW T \in SUBSET Nat, T # {}
    PROVE  Min(T) \in T /\ \A x \in T : Min(T) <= x
<1>1. PICK m \in T : \A x \in T : m <= x
  BY LeastNumber
<1>2. \E m2 \in T : \A x \in T : m2 =< x
  BY <1>1
<1>3. Min(T) = CHOOSE m2 \in T : \A x \in T : m2 =< x
  BY DEF Min
<1> HIDE DEF Min
<1> QED BY <1>2, <1>3

LEMMA MaxIs ==
    ASSUME NEW n \in Nat, NEW T \in SUBSET (0..n), T # {}
    PROVE  Max(T) \in T /\ \A x \in T : x <= Max(T)
<1> DEFINE R == {n - x : x \in T}
<1>1. R \in SUBSET Nat /\ R # {}
  <2>1. ASSUME NEW x \in T PROVE n - x \in Nat
    <3>1. x \in 0..n
      OBVIOUS
    <3> QED BY <3>1
  <2>2. PICK x : x \in T
    OBVIOUS
  <2> QED BY <2>1, <2>2
<1>2. PICK r \in R : \A y \in R : r <= y
  BY <1>1, LeastNumber
<1>3. PICK m \in T : r = n - m
  BY <1>2
<1>4. ASSUME NEW x \in T PROVE m >= x
  <2>1. n - x \in R
    OBVIOUS
  <2>2. r <= n - x
    BY <1>2, <2>1
  <2> QED BY <1>3, <2>2
<1>5. \E m2 \in T : \A x \in T : m2 >= x
  BY <1>4
<1>6. Max(T) = CHOOSE m2 \in T : \A x \in T : m2 >= x
  BY DEF Max
<1> HIDE DEF Max
<1>7. Max(T) \in T /\ \A x \in T : Max(T) >= x
  BY <1>5, <1>6
<1> QED BY <1>7

LEMMA SliceTyped ==
    ASSUME NEW s \in Seq(Chars), NEW a \in 1..(Len(s) + 1), NEW b \in (a - 1)..Len(s)
    PROVE  /\ SubSeq(s, a, b) \in Seq(Chars) /\ Len(SubSeq(s, a, b)) = b - a + 1
           /\ \A i \in 1..(b - a + 1) : SubSeq(s, a, b)[i] = s[a + i - 1]
<1>1. Len(s) \in Nat /\ \A i \in 1..Len(s) : s[i] \in Chars
  BY LenProperties, ElementOfSeq
<1>2. (\A i \in a..b : s[i] \in Chars) /\ a \in Int /\ b \in Int
  BY <1>1
<1>3. /\ SubSeq(s, a, b) \in Seq(Chars)
      /\ Len(SubSeq(s, a, b)) = IF a <= b THEN b - a + 1 ELSE 0
      /\ \A i \in 1..(b - a + 1) : SubSeq(s, a, b)[i] = s[a + i - 1]
  BY <1>2, SubSeqProperties
<1> QED BY <1>2, <1>3

LEMMA SliceBlank ==
    ASSUME NEW s \in Seq(Chars), NEW a \in 1..(Len(s) + 1), NEW b \in (a - 1)..Len(s),
           \A i \in a..b : s[i] \in White
    PROVE  Letters(SubSeq(s, a, b)) = <<>>
<1>1. PICK p \in Seq(Chars) : /\ p = SubSeq(s, a, b) /\ Len(p) = b - a + 1
                              /\ \A i \in 1..(b - a + 1) : p[i] = s[a + i - 1]
  BY SliceTyped
<1>2. Blank(p)
  <2>1. ASSUME NEW i \in 1..(b - a + 1) PROVE p[i] \in White
    <3>1. a + i - 1 \in a..b /\ Len(s) \in Nat
      BY LenProperties
    <3> QED BY <1>1, <3>1
  <2> QED BY <1>1, <2>1 DEF Blank
<1> QED BY <1>1, <1>2, LettersOfBlank

(* White space around a text holds no letters. *)
LEMMA LettersStay ==
    ASSUME NEW s \in Seq(Chars), NEW a \in 1..(Len(s) + 1), NEW b \in (a - 1)..Len(s),
           \A i \in 1..Len(s) : i < a \/ i > b => s[i] \in White
    PROVE  Letters(SubSeq(s, a, b)) = Letters(s)
<1>1. PICK n \in Nat : n = Len(s)
  BY LenProperties
<1>2. PICK x, y, z, u : /\ x = SubSeq(s, 1, a - 1) /\ y = SubSeq(s, a, b)
                        /\ z = SubSeq(s, b + 1, n) /\ u = SubSeq(s, 1, b)
  OBVIOUS
<1>3. a \in Int /\ b \in Int /\ 1 \in 1..(n + 1) /\ a - 1 \in (1 - 1)..n /\ b \in (a - 1)..n /\ n \in b..n
      /\ b \in (1 - 1)..n /\ (a - 1) + 1 = a /\ b + 1 \in 1..(n + 1) /\ n \in ((b + 1) - 1)..n
  BY <1>1
<1>4. Letters(u) = Letters(x) \o Letters(y) /\ x \in Seq(Chars) /\ y \in Seq(Chars)
  <2>1. /\ SubSeq(s, 1, a - 1) \in Seq(Chars) /\ SubSeq(s, (a - 1) + 1, b) \in Seq(Chars)
        /\ Letters(SubSeq(s, 1, b)) = Letters(SubSeq(s, 1, a - 1)) \o Letters(SubSeq(s, (a - 1) + 1, b))
    BY <1>1, <1>3, LettersOfSlices
  <2> QED BY <1>2, <1>3, <2>1
<1>5. Letters(s) = Letters(u) \o Letters(z) /\ u \in Seq(Chars)
  <2>1. SubSeq(s, 1, n) = s
    BY <1>1, SubSeqFull
  <2>2. /\ SubSeq(s, 1, b) \in Seq(Chars)
        /\ Letters(SubSeq(s, 1, n)) = Letters(SubSeq(s, 1, b)) \o Letters(SubSeq(s, b + 1, n))
    BY <1>1, <1>3, LettersOfSlices
  <2> QED BY <1>2, <2>1, <2>2
<1>6. Letters(x) = <<>>
  <2>1. \A i \in 1..(a - 1) : s[i] \in White
    BY <1>1, <1>3
  <2>2. Letters(SubSeq(s, 1, a - 1)) = <<>>
    BY <1>1, <1>3, <2>1, SliceBlank
  <2> QED BY <1>2, <2>2
<1>7. Letters(z) = <<>>
  <2>1. \A i \in (b + 1)..n : s[i] \in White
    BY <1>1, <1>3
  <2>2. Letters(SubSeq(s, b + 1, n)) = <<>>
    BY <1>1, <1>3, <2>1, SliceBlank
  <2> QED BY <1>2, <2>2
<1>8. Letters(u) = Letters(y)
  <2>1. Letters(y) \in Seq(Chars)
    BY <1>4, LettersTyped
  <2> QED BY <1>4, <1>6, <2>1, ConcatEmptySeq
<1>9. Letters(s) = Letters(u)
  <2>1. Letters(u) \in Seq(Chars)
    BY <1>5, LettersTyped
  <2> QED BY <1>5, <1>7, <2>1, ConcatEmptySeq
<1> QED BY <1>2, <1>8, <1>9

LEMMA TrimRightIs ==
    ASSUME NEW s \in Seq(Chars)
    PROVE  \E k \in 0..Len(s) : /\ TrimRight(s) = SubSeq(s, 1, k)
                                /\ \A i \in (k + 1)..Len(s) : s[i] \in White
<1>1. PICK n \in Nat : n = Len(s)
  BY LenProperties
<1> DEFINE T == {0} \cup Inked(s)
<1>2. T \in SUBSET (0..n) /\ T # {}
  BY <1>1 DEF Inked
<1>3. PICK k : k = Max(T)
  OBVIOUS
<1>4. k \in T /\ \A x \in T : x <= k
  BY <1>2, <1>3, MaxIs
<1>5. ASSUME NEW i \in (k + 1)..n PROVE s[i] \in White
  <2>1. k \in 0..n
    BY <1>2, <1>4
  <2>2. i \in 1..n /\ ~(i <= k)
    BY <2>1
  <2>3. i \notin T
    BY <1>4, <2>2
  <2> QED BY <1>1, <2>2, <2>3 DEF Inked
<1>6. TrimRight(s) = SubSeq(s, 1, k)
  BY <1>3 DEF TrimRight, UpTo
<1>7. k \in 0..Len(s)
  BY <1>1, <1>2, <1>4
<1> QED BY <1>1, <1>5, <1>6, <1>7

LEMMA TrimLeftIs ==
    ASSUME NEW s \in Seq(Chars)
    PROVE  \E a \in 1..(Len(s) + 1) : /\ TrimLeft(s) = SubSeq(s, a, Len(s))
                                      /\ \A i \in 1..(a - 1) : s[i] \in White
<1>1. PICK n \in Nat : n = Len(s)
  BY LenProperties
<1> DEFINE T == {Len(s) + 1} \cup Inked(s)
<1>2. T \in SUBSET Nat /\ T # {} /\ T \subseteq 1..(n + 1)
  BY <1>1 DEF Inked
<1>3. PICK a : a = Min(T)
  OBVIOUS
<1>4. a \in T /\ \A x \in T : a <= x
  BY <1>2, <1>3, MinIs
<1>5. ASSUME NEW i \in 1..(a - 1) PROVE s[i] \in White
  <2>1. a \in 1..(n + 1)
    BY <1>2, <1>4
  <2>2. i \in 1..n /\ ~(a <= i)
    BY <2>1
  <2>3. i \notin T
    BY <1>4, <2>2
  <2> QED BY <1>1, <2>2, <2>3 DEF Inked
<1>6. TrimLeft(s) = SubSeq(s, a, Len(s))
  BY <1>3 DEF TrimLeft, From
<1>7. a \in 1..(Len(s) + 1)
  BY <1>1, <1>2, <1>4
<1> QED BY <1>5, <1>6, <1>7

(* Trimming leaves the letters, and makes no text longer. *)
LEMMA TrimKeeps ==
    ASSUME NEW s \in Seq(Chars)
    PROVE  /\ TrimSpace(s) \in Seq(Chars) /\ Letters(TrimSpace(s)) = Letters(s)
           /\ Len(TrimSpace(s)) <= Len(s)
<1>1. PICK n \in Nat : n = Len(s)
  BY LenProperties
<1>2. PICK k \in 0..n : TrimRight(s) = SubSeq(s, 1, k) /\ \A i \in (k + 1)..n : s[i] \in White
  BY <1>1, TrimRightIs
<1>3. 1 \in 1..(Len(s) + 1) /\ k \in (1 - 1)..Len(s) /\ \A i \in 1..Len(s) : i < 1 \/ i > k => s[i] \in White
  BY <1>1, <1>2
<1>4. PICK r \in Seq(Chars) : r = TrimRight(s) /\ Letters(r) = Letters(s) /\ Len(r) = k
  <2>1. Letters(SubSeq(s, 1, k)) = Letters(s)
    BY <1>3, LettersStay
  <2>2. SubSeq(s, 1, k) \in Seq(Chars) /\ Len(SubSeq(s, 1, k)) = k - 1 + 1
    BY <1>3, SliceTyped
  <2>3. TrimRight(s) \in Seq(Chars) /\ Len(TrimRight(s)) = k
    BY <1>2, <2>2
  <2> QED BY <1>2, <2>1, <2>3
<1>5. PICK a \in 1..(k + 1) : TrimLeft(r) = SubSeq(r, a, k) /\ \A i \in 1..(a - 1) : r[i] \in White
  BY <1>4, TrimLeftIs
<1>6. a \in 1..(Len(r) + 1) /\ k \in (a - 1)..Len(r) /\ \A i \in 1..Len(r) : i < a \/ i > k => r[i] \in White
  BY <1>4, <1>5
<1>7. Letters(SubSeq(r, a, k)) = Letters(r)
  BY <1>6, LettersStay
<1>8. SubSeq(r, a, k) \in Seq(Chars) /\ Len(SubSeq(r, a, k)) = k - a + 1
  BY <1>6, SliceTyped
<1>9. k - a + 1 <= n
  OBVIOUS
<1> QED BY <1>1, <1>4, <1>5, <1>7, <1>8, <1>9 DEF TrimSpace
-----------------------------------------------------------------------------
LEMMA QuotientIs ==
    ASSUME NEW a \in Nat, NEW n \in Nat \ {0}
    PROVE  \E q \in Int, r \in Nat : q = a \div n /\ r < n /\ a = n * q + r
<1>1. \E q \in Int, r \in Nat : q = a \div n /\ r = a % n /\ r < n /\ a = n * q + r
  OBVIOUS
<1> QED BY <1>1

LEMMA TimesGrows ==
    ASSUME NEW n \in Nat, NEW a \in Int, NEW b \in Int, a <= b
    PROVE  a * n <= b * n /\ a * n \in Int /\ b * n \in Int
<1>1. (b - a) * n >= 0 /\ b * n = a * n + (b - a) * n
  OBVIOUS
<1>2. a * n \in Int /\ b * n \in Int /\ (b - a) * n \in Int
  OBVIOUS
<1> QED BY <1>1, <1>2

LEMMA MinOfTwo ==
    ASSUME NEW a \in Nat, NEW b \in Nat
    PROVE  Min({a, b}) = IF a <= b THEN a ELSE b
<1>1. {a, b} \in SUBSET Nat /\ {a, b} # {}
  OBVIOUS
<1>2. Min({a, b}) \in {a, b} /\ \A x \in {a, b} : Min({a, b}) <= x
  BY <1>1, MinIs
<1> QED BY <1>2

(* s is cut into k pieces of at most n, the i-th of which ends at e[i]. *)
CutAt(s, n, k, e) ==
    /\ k \in Nat /\ e \in [0..k -> 0..Len(s)] /\ e[0] = 0 /\ e[k] = Len(s)
    /\ \A i \in 1..k : e[i - 1] <= e[i] /\ e[i] - e[i - 1] <= n

Slices(s, k, e) == [i \in 1..k |-> SubSeq(s, e[i - 1] + 1, e[i])]

LEMMA HardSplitCuts ==
    ASSUME NEW s \in Seq(Chars), NEW n \in Nat \ {0}
    PROVE  \E k, e : CutAt(s, n, k, e) /\ HardSplit(s, n) = Slices(s, k, e)
<1>1. PICK m \in Nat : m = Len(s)
  BY LenProperties
<1>2. PICK k \in Int, r \in Nat : k = (m + n - 1) \div n /\ r < n /\ m + n - 1 = n * k + r
  <2>1. PICK a \in Nat : a = m + n - 1
    OBVIOUS
  <2> QED BY <2>1, QuotientIs
<1>3. PICK z \in Int : z = k * n /\ m <= z /\ z < m + n
  <2>1. PICK z \in Int : z = k * n /\ z = n * k
    <3>1. n * k = k * n /\ k * n \in Int
      OBVIOUS
    <3> QED BY <3>1
  <2>2. m + n - 1 = z + r
    BY <1>2, <2>1
  <2>3. r < n
    BY <1>2
  <2>4. m <= z /\ z < m + n
    BY <2>2, <2>3
  <2> QED BY <2>1, <2>4
<1>4. k \in Nat
  <2>1. CASE k <= -1
    <3>1. k * n <= (-1) * n /\ (-1) * n = -n
      BY <2>1, TimesGrows
    <3>2. z <= -n
      BY <1>3, <3>1
    <3> QED BY <1>3, <3>2
  <2> QED BY <2>1
<1>5. ASSUME NEW i \in 0..k
      PROVE  /\ i * n \in Nat
             /\ i < k => i * n <= m
             /\ (i + 1) * n = i * n + n
  <2>1. 0 * n <= i * n /\ i * n \in Int /\ 0 * n = 0
    BY TimesGrows
  <2>2. (i + 1) * n = i * n + n
    OBVIOUS
  <2>3. ASSUME i < k PROVE i * n <= m
    <3>1. (i + 1) * n <= k * n /\ (i + 1) * n \in Int
      BY <2>3, <1>4, TimesGrows
    <3> QED BY <1>3, <2>1, <2>2, <3>1
  <2> QED BY <2>1, <2>2, <2>3
<1>6. PICK e : e = [i \in 0..k |-> Min({i * n, m})]
  OBVIOUS
<1>7. ASSUME NEW i \in 0..k
      PROVE  /\ e[i] \in 0..m /\ (i < k => e[i] = i * n)
             /\ e[i] = IF i * n <= m THEN i * n ELSE m
  <2>1. PICK x \in Nat : x = i * n /\ (i < k => x <= m)
    BY <1>5
  <2>2. e[i] = Min({x, m})
    BY <1>6, <2>1
  <2>3. e[i] = IF x <= m THEN x ELSE m
    BY <2>2, MinOfTwo
  <2> QED BY <2>1, <2>3
<1>8. e[0] = 0 /\ e[k] = m
  <2>1. 0 * n = 0 /\ 0 \in 0..k /\ k \in 0..k
    BY <1>4
  <2>2. e[0] = 0
    BY <1>7, <2>1
  <2>3. e[k] = IF z <= m THEN z ELSE m
    BY <1>3, <1>7, <2>1
  <2> QED BY <1>3, <2>2, <2>3
<1>9. ASSUME NEW i \in 1..k
      PROVE  /\ e[i - 1] = (i - 1) * n /\ e[i - 1] <= e[i] /\ e[i] - e[i - 1] <= n
             /\ e[i - 1] + 1 = (i - 1) * n + 1 /\ e[i] = Min({i * n, Len(s)})
  <2>1. i - 1 \in 0..k /\ i - 1 < k /\ i \in 0..k /\ (i - 1) + 1 = i
    BY <1>4
  <2>2. PICK x \in Nat, y \in Nat : x = (i - 1) * n /\ y = i * n /\ y = x + n /\ x <= m
    <3>1. ((i - 1) + 1) * n = (i - 1) * n + n /\ (i - 1) * n \in Nat /\ (i - 1) * n <= m
      BY <2>1, <1>5
    <3>2. i * n \in Nat
      BY <2>1, <1>5
    <3> QED BY <2>1, <3>1, <3>2
  <2>3. e[i - 1] = x
    BY <2>1, <2>2, <1>7
  <2>4. e[i] = IF y <= m THEN y ELSE m
    BY <2>1, <2>2, <1>7
  <2>5. e[i] = Min({i * n, m})
    BY <1>6, <2>1
  <2> QED BY <1>1, <2>2, <2>3, <2>4, <2>5
<1>10. CutAt(s, n, k, e)
  <2>1. e \in [0..k -> 0..m]
    <3>1. \A i \in 0..k : e[i] \in 0..m
      BY <1>7
    <3>2. e = [i \in 0..k |-> e[i]]
      BY <1>6
    <3> QED BY <3>1, <3>2
  <2>2. \A i \in 1..k : e[i - 1] <= e[i] /\ e[i] - e[i - 1] <= n
    BY <1>9
  <2> QED BY <1>1, <1>4, <1>8, <2>1, <2>2 DEF CutAt
<1>11. HardSplit(s, n) = [i \in 1..k |-> SubSeq(s, e[i - 1] + 1, e[i])]
  <2>1. HardSplit(s, n) = [i \in 1..k |-> SubSeq(s, (i - 1) * n + 1, Min({i * n, Len(s)}))]
    BY <1>1, <1>2 DEF HardSplit
  <2>2. ASSUME NEW i \in 1..k
        PROVE  SubSeq(s, (i - 1) * n + 1, Min({i * n, Len(s)})) = SubSeq(s, e[i - 1] + 1, e[i])
    BY <1>9
  <2> QED BY <2>1, <2>2
<1> QED BY <1>10, <1>11 DEF Slices

(* The pieces of a text that is cut, together. *)
LEMMA CutsHold ==
    ASSUME NEW s \in Seq(Chars), NEW n \in Nat \ {0}, NEW k, NEW e, CutAt(s, n, k, e),
           NEW h, h = Slices(s, k, e)
    PROVE  /\ h \in Seq(Seq(Chars)) /\ Len(h) = k /\ AllLetters(h) = Letters(s)
           /\ \A i \in 1..k : Len(h[i]) <= n
<1>1. PICK m \in Nat : m = Len(s)
  BY LenProperties
<1>0. h = [i \in 1..k |-> SubSeq(s, e[i - 1] + 1, e[i])]
  BY DEF Slices
<1>2. /\ k \in Nat /\ e[0] = 0 /\ e[k] = m
      /\ \A i \in 0..k : e[i] \in 0..m
      /\ \A i \in 1..k : e[i - 1] <= e[i] /\ e[i] - e[i - 1] <= n
  BY <1>1 DEF CutAt
<1>3. ASSUME NEW i \in 1..k
      PROVE  /\ h[i] = SubSeq(s, e[i - 1] + 1, e[i]) /\ h[i] \in Seq(Chars) /\ Len(h[i]) <= n
             /\ e[i - 1] \in 0..m /\ e[i] \in e[i - 1]..m
  <2>1. i - 1 \in 0..k /\ i \in 0..k
    BY <1>2
  <2>2. e[i - 1] \in 0..m /\ e[i] \in 0..m /\ e[i - 1] <= e[i] /\ e[i] - e[i - 1] <= n
    BY <1>2, <2>1
  <2>3. PICK a \in 1..(m + 1) : \E b \in (a - 1)..m : /\ a = e[i - 1] + 1 /\ b = e[i]
                                                      /\ b - a + 1 <= n
    <3>1. e[i - 1] + 1 \in 1..(m + 1) /\ e[i] \in ((e[i - 1] + 1) - 1)..m
      BY <2>2
    <3>2. e[i] - (e[i - 1] + 1) + 1 <= n
      BY <2>2
    <3> QED BY <3>1, <3>2
  <2>4. PICK b \in (a - 1)..m : a = e[i - 1] + 1 /\ b = e[i] /\ b - a + 1 <= n
    BY <2>3
  <2>5. SubSeq(s, a, b) \in Seq(Chars) /\ Len(SubSeq(s, a, b)) = b - a + 1
    BY <1>1, SliceTyped
  <2>6. h[i] = SubSeq(s, a, b)
    BY <1>0, <2>4
  <2>7. e[i] \in e[i - 1]..m
    BY <2>2
  <2>8. b - a + 1 <= n /\ h[i] \in Seq(Chars) /\ Len(h[i]) = b - a + 1
    BY <2>4, <2>5, <2>6
  <2>9. Len(h[i]) <= n
    BY <2>8
  <2> QED BY <2>2, <2>4, <2>6, <2>7, <2>8, <2>9
<1> DEFINE S == Seq(Chars)
<1>4. h \in Seq(S) /\ Len(h) = k
  <2>1. \A i \in 1..k : SubSeq(s, e[i - 1] + 1, e[i]) \in S
    BY <1>3
  <2> HIDE DEF S
  <2>2. h \in [1..k -> S]
    BY <1>0, <2>1
  <2> QED BY <2>2, <1>2
<1> DEFINE T == {i \in 0..k : AllLetters(SubSeq(h, 1, i)) # Letters(SubSeq(s, 1, e[i]))}
<1>5. T = {}
  <2>1. SUFFICES ASSUME T # {} PROVE FALSE
    OBVIOUS
  <2>2. PICK i \in T : \A j \in T : i <= j
    <3>1. T \in SUBSET Nat
      BY <1>2
    <3> QED BY <2>1, <3>1, LeastNumber
  <2>3. i # 0
    <3>1. SubSeq(h, 1, 0) = <<>> /\ SubSeq(s, 1, 0) = <<>>
      BY SubSeqEmpty
    <3>2. Letters(<<>>) = <<>>
      <4>1. <<>> \in Seq(Chars) /\ Blank(<<>>)
        BY EmptySeq DEF Blank
      <4> QED BY <4>1, LettersOfBlank
    <3>3. AllLetters(SubSeq(h, 1, 0)) = Letters(SubSeq(s, 1, e[0]))
      BY <1>2, <3>1, <3>2, AllOfNone
    <3> QED BY <2>2, <3>3
  <2>4. i \in 1..k /\ i - 1 \in 0..k /\ ~(i <= i - 1) /\ i - 1 \in 0..Len(h) /\ i \in 1..Len(h)
    BY <1>2, <1>4, <2>2, <2>3
  <2>5. AllLetters(SubSeq(h, 1, i - 1)) = Letters(SubSeq(s, 1, e[i - 1]))
    BY <2>2, <2>4
  <2>6. SubSeq(h, 1, i) = SubSeq(h, 1, i - 1) \o <<h[i]>> /\ SubSeq(h, 1, i - 1) \in Seq(S)
    <3>1. h \in Seq(S) /\ 1 \in 1..Len(h) /\ i \in 1..Len(h)
      BY <1>2, <1>4, <2>4
    <3>2. \A j \in 1..(i - 1) : h[j] \in S
      <4>1. \A j \in 1..(i - 1) : j \in 1..k
        BY <1>2, <2>4
      <4> QED BY <1>3, <4>1
    <3> HIDE DEF S
    <3>3. SubSeq(h, 1, i) = SubSeq(h, 1, i - 1) \o <<h[i]>>
      BY <3>1, SubSeqRecursiveSecond
    <3>4. SubSeq(h, 1, i - 1) \in Seq(S)
      <4>1. 1 \in Int /\ i - 1 \in Int
        BY <2>4
      <4> QED BY <3>2, <4>1, SubSeqProperties
    <3> QED BY <3>3, <3>4
  <2>7. AllLetters(SubSeq(h, 1, i)) = AllLetters(SubSeq(h, 1, i - 1)) \o Letters(h[i])
    <3>1. h[i] \in Seq(Chars) /\ <<h[i]>> \in Seq(S)
      BY <1>3, <2>4
    <3>2. AllLetters(<<h[i]>>) = Letters(h[i])
      BY <3>1, AllOfOne
    <3>3. AllLetters(SubSeq(h, 1, i - 1) \o <<h[i]>>)
             = AllLetters(SubSeq(h, 1, i - 1)) \o AllLetters(<<h[i]>>)
      BY <2>6, <3>1, AllJoins
    <3> QED BY <2>6, <3>2, <3>3
  <2>8. Letters(SubSeq(s, 1, e[i])) = Letters(SubSeq(s, 1, e[i - 1])) \o Letters(h[i])
    <3>1. PICK b \in 0..m : \E c \in b..m : b = e[i - 1] /\ c = e[i] /\ h[i] = SubSeq(s, b + 1, c)
      BY <1>3, <2>4
    <3>4. PICK c \in b..m : b = e[i - 1] /\ c = e[i] /\ h[i] = SubSeq(s, b + 1, c)
      BY <3>1
    <3>2. 1 \in 1..(Len(s) + 1) /\ b \in (1 - 1)..Len(s) /\ c \in b..Len(s)
      BY <1>1
    <3>3. Letters(SubSeq(s, 1, c)) = Letters(SubSeq(s, 1, b)) \o Letters(SubSeq(s, b + 1, c))
      BY <3>2, LettersOfSlices
    <3> QED BY <3>4, <3>3
  <2> QED BY <2>2, <2>5, <2>7, <2>8
<1>6. AllLetters(h) = Letters(s)
  <2>1. k \in 0..k
    BY <1>2
  <2>2. AllLetters(SubSeq(h, 1, k)) = Letters(SubSeq(s, 1, e[k]))
    BY <1>5, <2>1
  <2>3. SubSeq(s, 1, m) = s
    BY <1>1, SubSeqFull
  <2>4. SubSeq(h, 1, k) = h
    <3> HIDE DEF S
    <3> QED BY <1>4, SubSeqFull
  <2> QED BY <1>2, <2>2, <2>3, <2>4
<1> QED BY <1>3, <1>4, <1>6

(* Alike pieces hold the same letters. *)
LEMMA SameLetters ==
    ASSUME NEW p, NEW q, Len(p) = Len(q), \A i \in 1..Len(p) : Letters(p[i]) = Letters(q[i])
    PROVE  AllLetters(p) = AllLetters(q)
BY DEF AllLetters

(* A paragraph that fits no passage. *)
LEMMA HardSplitHolds ==
    ASSUME NEW s \in Seq(Chars), NEW n \in Nat \ {0}, NEW h, h = HardSplit(s, n),
           NEW q, q = [i \in 1..Len(h) |-> TrimSpace(h[i])]
    PROVE  /\ q \in Seq(Seq(Chars)) /\ AllLetters(q) = Letters(s)
           /\ \A i \in 1..Len(q) : Len(q[i]) <= n
<1>1. PICK k, e : CutAt(s, n, k, e) /\ h = Slices(s, k, e)
  BY HardSplitCuts
<1>2. /\ h \in Seq(Seq(Chars)) /\ Len(h) = k /\ AllLetters(h) = Letters(s)
      /\ \A i \in 1..k : Len(h[i]) <= n
  BY <1>1, CutsHold
<1>3. k \in Nat
  BY <1>1 DEF CutAt
<1>4. ASSUME NEW i \in 1..k
      PROVE  /\ TrimSpace(h[i]) \in Seq(Chars) /\ Letters(TrimSpace(h[i])) = Letters(h[i])
             /\ Len(TrimSpace(h[i])) <= n
  <2>1. h[i] \in Seq(Chars) /\ Len(h[i]) <= n
    BY <1>2, ElementOfSeq
  <2>2. /\ TrimSpace(h[i]) \in Seq(Chars) /\ Letters(TrimSpace(h[i])) = Letters(h[i])
        /\ Len(TrimSpace(h[i])) <= Len(h[i])
    BY <2>1, TrimKeeps
  <2>3. Len(TrimSpace(h[i])) \in Nat /\ Len(h[i]) \in Nat
    BY <2>1, <2>2, LenProperties
  <2> QED BY <2>1, <2>2, <2>3
<1> DEFINE S == Seq(Chars)
<1>5. q \in Seq(S) /\ Len(q) = k /\ \A i \in 1..k : q[i] = TrimSpace(h[i])
  <2>1. \A i \in 1..k : TrimSpace(h[i]) \in S
    BY <1>4
  <2>2. q = [i \in 1..k |-> TrimSpace(h[i])]
    BY <1>2
  <2> HIDE DEF S
  <2>3. q \in [1..k -> S]
    BY <2>1, <2>2
  <2> QED BY <2>2, <2>3, <1>3
<1>6. AllLetters(q) = AllLetters(h)
  <2>1. Len(q) = Len(h) /\ \A i \in 1..Len(q) : Letters(q[i]) = Letters(h[i])
    BY <1>2, <1>4, <1>5
  <2> QED BY <2>1, SameLetters
<1> QED BY <1>2, <1>4, <1>5, <1>6
-----------------------------------------------------------------------------
(* The paragraphs packed so far, and where the next begins. *)
Gathering == [at : Nat, out : Seq(Seq(Chars)), cur : Seq(Chars)]

(* The passages fit, and hold the letters x. *)
Hold(b, n, x) ==
    /\ b \in Gathering /\ Len(b.cur) <= n /\ \A i \in 1..Len(b.out) : Len(b.out[i]) <= n
    /\ AllLetters(b.out) \o Letters(b.cur) = x

LEMMA HoldIs ==
    ASSUME NEW n \in Nat, NEW a \in Nat, NEW o \in Seq(Seq(Chars)), NEW c \in Seq(Chars),
           Len(c) <= n, \A i \in 1..Len(o) : Len(o[i]) <= n
    PROVE  Hold([at |-> a, out |-> o, cur |-> c], n, AllLetters(o) \o Letters(c))
BY DEF Hold, Gathering

LEMMA HoldHas ==
    ASSUME NEW n, NEW x, NEW b, Hold(b, n, x)
    PROVE  /\ b.at \in Nat /\ b.out \in Seq(Seq(Chars)) /\ b.cur \in Seq(Chars)
           /\ Len(b.cur) <= n /\ \A i \in 1..Len(b.out) : Len(b.out[i]) <= n
           /\ AllLetters(b.out) \o Letters(b.cur) = x
           /\ b = [at |-> b.at, out |-> b.out, cur |-> b.cur]
BY DEF Hold, Gathering

LEMMA PiecesAdded ==
    ASSUME NEW n \in Nat, NEW o \in Seq(Seq(Chars)), NEW p \in Seq(Seq(Chars)),
           \A i \in 1..Len(o) : Len(o[i]) <= n, \A i \in 1..Len(p) : Len(p[i]) <= n
    PROVE  /\ o \o p \in Seq(Seq(Chars)) /\ \A i \in 1..Len(o \o p) : Len((o \o p)[i]) <= n
           /\ AllLetters(o \o p) = AllLetters(o) \o AllLetters(p)
<1> DEFINE S == Seq(Chars)
<1>1. PICK k \in Nat, l \in Nat : k = Len(o) /\ l = Len(p)
  BY LenProperties
<1>2. /\ o \o p \in Seq(S) /\ Len(o \o p) = k + l
      /\ \A i \in 1..(k + l) : (o \o p)[i] = IF i <= k THEN o[i] ELSE p[i - k]
  <2>1. o \in Seq(S) /\ p \in Seq(S)
    OBVIOUS
  <2> HIDE DEF S
  <2> QED BY <1>1, <2>1, ConcatProperties
<1>3. ASSUME NEW i \in 1..(k + l) PROVE Len((o \o p)[i]) <= n
  <2>1. CASE i <= k
    BY <1>1, <1>2, <2>1
  <2>2. CASE ~(i <= k)
    <3>1. PICK j \in 1..l : j = i - k
      BY <2>2
    <3>2. (o \o p)[i] = p[j]
      BY <1>2, <2>2, <3>1
    <3> QED BY <1>1, <3>2
  <2> QED BY <2>1, <2>2
<1>4. AllLetters(o \o p) = AllLetters(o) \o AllLetters(p)
  BY AllJoins
<1> QED BY <1>2, <1>3, <1>4

LEMMA PieceAdded ==
    ASSUME NEW n \in Nat, NEW o \in Seq(Seq(Chars)), NEW p \in Seq(Chars),
           \A i \in 1..Len(o) : Len(o[i]) <= n, Len(p) <= n
    PROVE  /\ Append(o, p) \in Seq(Seq(Chars))
           /\ \A i \in 1..Len(Append(o, p)) : Len(Append(o, p)[i]) <= n
           /\ AllLetters(Append(o, p)) = AllLetters(o) \o Letters(p)
<1> DEFINE S == Seq(Chars)
<1>1. PICK k \in Nat : k = Len(o)
  BY LenProperties
<1>2. /\ Append(o, p) \in Seq(S) /\ Len(Append(o, p)) = k + 1
      /\ (\A i \in 1..k : Append(o, p)[i] = o[i]) /\ Append(o, p)[k + 1] = p
  <2>1. o \in Seq(S) /\ p \in S
    OBVIOUS
  <2> HIDE DEF S
  <2> QED BY <1>1, <2>1, AppendIs
<1>3. ASSUME NEW i \in 1..(k + 1) PROVE Len(Append(o, p)[i]) <= n
  <2>1. i \in 1..k \/ i = k + 1
    OBVIOUS
  <2> QED BY <1>1, <1>2, <2>1
<1> QED BY <1>2, <1>3, AllAppend

LEMMA NoLetters == Letters(<<>>) = <<>> /\ <<>> \in Seq(Chars) /\ Len(<<>>) = 0
<1>1. <<>> \in Seq(Chars) /\ Blank(<<>>) /\ Len(<<>>) = 0
  BY EmptySeq DEF Blank
<1> QED BY <1>1, LettersOfBlank

LEMMA FlushHolds ==
    ASSUME NEW n \in Nat, NEW x, NEW b, Hold(b, n, x)
    PROVE  /\ Hold(FlushedNotes(b), n, x) /\ FlushedNotes(b).cur = <<>>
           /\ FlushedNotes(b).at = b.at
<1>1. /\ b.at \in Nat /\ b.out \in Seq(Seq(Chars)) /\ b.cur \in Seq(Chars)
      /\ Len(b.cur) <= n /\ \A i \in 1..Len(b.out) : Len(b.out[i]) <= n
      /\ AllLetters(b.out) \o Letters(b.cur) = x
  BY HoldHas
<1>2. CASE b.cur = <<>>
  BY <1>2 DEF FlushedNotes
<1>3. CASE b.cur # <<>>
  <2>1. PICK o, p : o \in Seq(Seq(Chars)) /\ o = b.out /\ p = TrimSpace(b.cur)
    BY <1>1
  <2>2. /\ p \in Seq(Chars) /\ Letters(p) = Letters(b.cur) /\ Len(p) <= n
    <3>1. p \in Seq(Chars) /\ Letters(p) = Letters(b.cur) /\ Len(p) <= Len(b.cur)
      BY <1>1, <2>1, TrimKeeps
    <3>2. Len(p) \in Nat /\ Len(b.cur) \in Nat
      BY <1>1, <3>1, LenProperties
    <3> QED BY <1>1, <3>1, <3>2
  <2>5. /\ Append(o, p) \in Seq(Seq(Chars))
        /\ \A i \in 1..Len(Append(o, p)) : Len(Append(o, p)[i]) <= n
        /\ AllLetters(Append(o, p)) = AllLetters(o) \o Letters(p)
    <3>1. o \in Seq(Seq(Chars)) /\ p \in Seq(Chars) /\ Len(p) <= n
      BY <2>1, <2>2
    <3>2. \A i \in 1..Len(o) : Len(o[i]) <= n
      BY <1>1, <2>1
    <3> QED BY <3>1, <3>2, PieceAdded
  <2>6. AllLetters(Append(o, p)) = x
    BY <1>1, <2>1, <2>2, <2>5
  <2>7. AllLetters(Append(o, p)) \o Letters(<<>>) = x
    <3>1. AllLetters(Append(o, p)) \in Seq(Chars)
      BY <2>5, AllTyped
    <3> QED BY <2>6, <3>1, NoLetters, ConcatEmptySeq
  <2>8. Hold([at |-> b.at, out |-> Append(o, p), cur |-> <<>>], n, x)
    <3>1. Len(<<>>) <= n
      BY NoLetters
    <3>2. Hold([at |-> b.at, out |-> Append(o, p), cur |-> <<>>], n,
               AllLetters(Append(o, p)) \o Letters(<<>>))
      BY <1>1, <2>5, <3>1, NoLetters, HoldIs
    <3> QED BY <2>7, <3>2
  <2>9. FlushedNotes(b) = [at |-> b.at, out |-> Append(o, p), cur |-> <<>>]
    BY <1>3, <2>1 DEF FlushedNotes
  <2> QED BY <2>8, <2>9
<1> QED BY <1>2, <1>3

(* A paragraph is added to the passage being packed, which has room. *)
LEMMA AddedHolds ==
    ASSUME NEW n \in Nat, NEW x, NEW b, Hold(b, n, x), NEW para \in Seq(Chars),
           Len(para) <= n, b.cur = <<>> \/ Len(b.cur) + Len(para) + 2 <= n
    PROVE  Hold([at |-> b.at, out |-> b.out,
                 cur |-> IF b.cur = <<>> THEN para ELSE b.cur \o <<Newline, Newline>> \o para],
                n, x \o Letters(para))
<1>1. /\ b.at \in Nat /\ b.out \in Seq(Seq(Chars)) /\ b.cur \in Seq(Chars)
      /\ Len(b.cur) <= n /\ \A i \in 1..Len(b.out) : Len(b.out[i]) <= n
      /\ AllLetters(b.out) \o Letters(b.cur) = x
  BY HoldHas
<1>2. AllLetters(b.out) \in Seq(Chars) /\ Letters(para) \in Seq(Chars) /\ Letters(b.cur) \in Seq(Chars)
  BY <1>1, AllTyped, LettersTyped
<1>3. CASE b.cur = <<>>
  <2>1. x = AllLetters(b.out)
    <3>1. AllLetters(b.out) \o <<>> = AllLetters(b.out)
      BY <1>2, ConcatEmptySeq
    <3>2. Letters(b.cur) = <<>>
      BY Zenon, <1>3, NoLetters
    <3> QED BY Zenon, <1>1, <3>1, <3>2
  <2> QED BY <1>1, <1>3, <2>1, HoldIs
<1>4. CASE b.cur # <<>>
  <2>1. PICK g \in Seq(Chars) : g = <<Newline, Newline>> /\ Len(g) = 2 /\ Blank(g)
    <3>1. Newline \in Chars /\ Newline \in White
      BY TextAssumption DEF White
    <3>2. <<Newline, Newline>> \in Seq(Chars) /\ Len(<<Newline, Newline>>) = 2
      BY <3>1
    <3>3. Blank(<<Newline, Newline>>)
      BY <3>1 DEF Blank
    <3> QED BY <3>2, <3>3
  <2>2. Letters(g) = <<>>
    BY <2>1, LettersOfBlank
  <2>3. /\ b.cur \o g \in Seq(Chars) /\ Len(b.cur \o g) = Len(b.cur) + 2
        /\ Letters(b.cur \o g) = Letters(b.cur)
    <3>1. b.cur \o g \in Seq(Chars) /\ Len(b.cur \o g) = Len(b.cur) + Len(g)
      BY <1>1, ConcatProperties
    <3>2. Letters(b.cur \o g) = Letters(b.cur) \o Letters(g)
      BY <1>1, LettersJoin
    <3> QED BY <1>2, <2>1, <2>2, <3>1, <3>2, ConcatEmptySeq
  <2>4. PICK c \in Seq(Chars) : /\ c = b.cur \o g \o para /\ Len(c) = Len(b.cur) + 2 + Len(para)
                                /\ Letters(c) = Letters(b.cur) \o Letters(para)
    <3>1. /\ (b.cur \o g) \o para \in Seq(Chars)
          /\ Len((b.cur \o g) \o para) = Len(b.cur \o g) + Len(para)
      BY <2>3, ConcatProperties
    <3>2. Letters((b.cur \o g) \o para) = Letters(b.cur \o g) \o Letters(para)
      BY <2>3, LettersJoin
    <3> QED BY <2>3, <3>1, <3>2
  <2>5. Len(c) <= n
    <3>1. Len(b.cur) \in Nat /\ Len(para) \in Nat
      BY <1>1, LenProperties
    <3> QED BY <1>4, <2>4, <3>1
  <2>6. AllLetters(b.out) \o Letters(c) = x \o Letters(para)
    <3>1. PICK u \in Seq(Chars), v \in Seq(Chars), w \in Seq(Chars) :
             u = AllLetters(b.out) /\ v = Letters(b.cur) /\ w = Letters(para)
      BY <1>2
    <3>2. PICK z, y : z = Letters(c) /\ y = x
      OBVIOUS
    <3>3. u \o v = y /\ z = v \o w /\ (u \o v) \o w = u \o (v \o w)
      <4>1. Regroup(u, v, w)
        BY TextsRegroup
      <4> QED BY Zenon, <1>1, <2>4, <3>1, <3>2, <4>1 DEF Regroup
    <3>4. u \o z = y \o w
      BY Zenon, <3>3
    <3> QED BY Zenon, <3>1, <3>2, <3>4
  <2>7. Hold([at |-> b.at, out |-> b.out, cur |-> c], n, AllLetters(b.out) \o Letters(c))
    BY <1>1, <2>5, HoldIs
  <2> QED BY <1>4, <2>1, <2>4, <2>6, <2>7
<1> QED BY <1>3, <1>4

LEMMA ParagraphHolds ==
    ASSUME NEW n \in Nat \ {0}, NEW x, NEW b, Hold(b, n, x), NEW para \in Seq(Chars)
    PROVE  /\ Hold(AddParagraph(b, para, n), n, x \o Letters(para))
           /\ AddParagraph(b, para, n).at = b.at
<1>0. /\ b.at \in Nat /\ b.out \in Seq(Seq(Chars)) /\ b.cur \in Seq(Chars)
      /\ Len(b.cur) \in Nat /\ Len(para) \in Nat
      /\ AllLetters(b.out) \o Letters(b.cur) = x
  BY HoldHas, LenProperties
<1>1. CASE para = <<>>
  <2>1. x \in Seq(Chars)
    <3>1. AllLetters(b.out) \in Seq(Chars) /\ Letters(b.cur) \in Seq(Chars)
      BY <1>0, AllTyped, LettersTyped
    <3> QED BY <1>0, <3>1, ConcatProperties
  <2>2. x \o Letters(para) = x
    BY <1>1, <2>1, NoLetters, ConcatEmptySeq
  <2> QED BY <1>1, <2>2 DEF AddParagraph
<1>2. CASE para # <<>> /\ Len(para) > n
  <2>1. PICK f : f = FlushedNotes(b) /\ Hold(f, n, x) /\ f.cur = <<>> /\ f.at = b.at
    <3>1. n \in Nat
      OBVIOUS
    <3> QED BY <3>1, FlushHolds
  <2>2. /\ f.at \in Nat /\ f.out \in Seq(Seq(Chars))
        /\ \A i \in 1..Len(f.out) : Len(f.out[i]) <= n
        /\ AllLetters(f.out) \o Letters(f.cur) = x
        /\ f = [at |-> f.at, out |-> f.out, cur |-> f.cur]
    BY <2>1 DEF Hold, Gathering
  <2>3. PICK h, q : h = HardSplit(para, n) /\ q = [i \in 1..Len(h) |-> TrimSpace(h[i])]
    OBVIOUS
  <2>4. /\ q \in Seq(Seq(Chars)) /\ AllLetters(q) = Letters(para)
        /\ \A i \in 1..Len(q) : Len(q[i]) <= n
    BY <2>3, HardSplitHolds
  <2>5. /\ f.out \o q \in Seq(Seq(Chars)) /\ \A i \in 1..Len(f.out \o q) : Len((f.out \o q)[i]) <= n
        /\ AllLetters(f.out \o q) = AllLetters(f.out) \o AllLetters(q)
    <3>1. n \in Nat
      OBVIOUS
    <3> QED BY Zenon, <2>2, <2>4, <3>1, PiecesAdded
  <2>6. AllLetters(f.out \o q) \o Letters(<<>>) = x \o Letters(para)
    <3>1. AllLetters(f.out) \in Seq(Chars) /\ AllLetters(f.out \o q) \in Seq(Chars)
      BY <2>2, <2>5, AllTyped
    <3>2. AllLetters(f.out) = x
      <4>1. Letters(f.cur) = <<>>
        BY <2>1, NoLetters
      <4>2. AllLetters(f.out) \o <<>> = AllLetters(f.out)
        BY <3>1, ConcatEmptySeq
      <4> QED BY <2>2, <4>1, <4>2
    <3>3. AllLetters(f.out \o q) \o <<>> = AllLetters(f.out \o q)
      BY <3>1, ConcatEmptySeq
    <3>4. AllLetters(f.out \o q) = x \o Letters(para)
      BY <2>4, <2>5, <3>2
    <3>5. Letters(<<>>) = <<>>
      BY NoLetters
    <3> QED BY <3>3, <3>4, <3>5
  <2>7. Hold([at |-> f.at, out |-> f.out \o q, cur |-> <<>>], n, x \o Letters(para))
    <3>1. Len(<<>>) <= n /\ <<>> \in Seq(Chars) /\ n \in Nat
      BY NoLetters
    <3>2. Hold([at |-> f.at, out |-> f.out \o q, cur |-> <<>>], n,
               AllLetters(f.out \o q) \o Letters(<<>>))
      BY <2>2, <2>5, <3>1, HoldIs
    <3> QED BY <2>6, <3>2
  <2>8. [f EXCEPT !.out = @ \o q] = [at |-> f.at, out |-> f.out \o q, cur |-> <<>>]
    <3>1. PICK r : r = f.out \o q
      OBVIOUS
    <3>2. [f EXCEPT !.out = r] = [at |-> f.at, out |-> r, cur |-> f.cur]
      <4>1. f = [at |-> f.at, out |-> f.out, cur |-> f.cur]
        BY Zenon, <2>2
      <4> QED BY <4>1
    <3>3. [f EXCEPT !.out = r] = [at |-> f.at, out |-> r, cur |-> <<>>]
      BY Zenon, <2>1, <3>2
    <3> QED BY Zenon, <3>1, <3>3
  <2>9. AddParagraph(b, para, n) = [f EXCEPT !.out = @ \o q]
    BY <1>2, <2>1, <2>3 DEF AddParagraph
  <2> QED BY <2>1, <2>7, <2>8, <2>9
<1>3. CASE para # <<>> /\ ~(Len(para) > n)
  <2>1. PICK f : /\ f = IF NotesFull(b, para, n) THEN FlushedNotes(b) ELSE b
                 /\ Hold(f, n, x) /\ f.at = b.at
                 /\ f.cur = <<>> \/ Len(f.cur) + Len(para) + 2 <= n
    <3>1. CASE NotesFull(b, para, n)
      <4>1. n \in Nat
        OBVIOUS
      <4> QED BY <3>1, <4>1, FlushHolds
    <3>2. CASE ~NotesFull(b, para, n)
      BY <1>0, <3>2 DEF NotesFull
    <3> QED BY <3>1, <3>2
  <2>2. f = [at |-> f.at, out |-> f.out, cur |-> f.cur]
    BY <2>1, HoldHas
  <2>3. PICK c : c = IF f.cur = <<>> THEN para ELSE f.cur \o <<Newline, Newline>> \o para
    OBVIOUS
  <2>4. Hold([at |-> f.at, out |-> f.out, cur |-> c], n, x \o Letters(para))
    <3>1. n \in Nat /\ Len(para) <= n
      BY <1>0, <1>3
    <3>2. Hold([at |-> f.at, out |-> f.out,
                cur |-> IF f.cur = <<>> THEN para ELSE f.cur \o <<Newline, Newline>> \o para],
               n, x \o Letters(para))
      BY <2>1, <3>1, AddedHolds
    <3> QED BY <2>3, <3>2
  <2>5. AddParagraph(b, para, n) = [f EXCEPT !.cur = c]
    BY <1>3, <2>1, <2>3 DEF AddParagraph
  <2>6. [f EXCEPT !.cur = c] = [at |-> f.at, out |-> f.out, cur |-> c]
    BY <2>2
  <2> QED BY <2>1, <2>4, <2>5, <2>6
<1> QED BY <1>1, <1>2, <1>3
-----------------------------------------------------------------------------
(* What is between two parts of a text does not count if it is blank. *)
LEMMA LettersAcross ==
    ASSUME NEW s \in Seq(Chars), NEW m \in 0..Len(s), NEW a \in (m + 1)..(Len(s) + 1),
           NEW e \in (a - 1)..Len(s), \A i \in (m + 1)..(a - 1) : s[i] \in White
    PROVE  Letters(SubSeq(s, 1, e)) = Letters(SubSeq(s, 1, m)) \o Letters(SubSeq(s, a, e))
<1>1. PICK n \in Nat : n = Len(s)
  BY LenProperties
<1>2. PICK d \in 0..n : d = a - 1
  BY <1>1
<1>3. /\ 1 \in 1..(n + 1) /\ m \in (1 - 1)..n /\ d \in m..n /\ e \in d..n /\ d \in (1 - 1)..n
      /\ m + 1 \in 1..(n + 1) /\ d \in ((m + 1) - 1)..n /\ d + 1 = a
  BY <1>1, <1>2
<1>4. PICK x, y, z : x = SubSeq(s, 1, m) /\ y = SubSeq(s, 1, d) /\ z = SubSeq(s, m + 1, d)
  OBVIOUS
<1>5. x \in Seq(Chars) /\ Letters(y) = Letters(x) \o Letters(z)
  <2>1. /\ SubSeq(s, 1, m) \in Seq(Chars)
        /\ Letters(SubSeq(s, 1, d)) = Letters(SubSeq(s, 1, m)) \o Letters(SubSeq(s, m + 1, d))
    BY <1>1, <1>3, LettersOfSlices
  <2> QED BY <1>4, <2>1
<1>6. Letters(z) = <<>>
  <2>1. \A i \in (m + 1)..d : s[i] \in White
    BY <1>2
  <2>2. Letters(SubSeq(s, m + 1, d)) = <<>>
    BY <1>1, <1>3, <2>1, SliceBlank
  <2> QED BY <1>4, <2>2
<1>7. Letters(y) = Letters(x)
  <2>1. Letters(x) \in Seq(Chars)
    BY <1>5, LettersTyped
  <2> QED BY <1>5, <1>6, <2>1, ConcatEmptySeq
<1>8. Letters(SubSeq(s, 1, e)) = Letters(y) \o Letters(SubSeq(s, d + 1, e))
  <2>1. Letters(SubSeq(s, 1, e)) = Letters(SubSeq(s, 1, d)) \o Letters(SubSeq(s, d + 1, e))
    BY <1>1, <1>3, LettersOfSlices
  <2> QED BY <1>4, <2>1
<1> QED BY <1>3, <1>4, <1>7, <1>8

LEMMA ParagraphEnds ==
    ASSUME NEW s \in Seq(Chars), NEW a \in 1..(Len(s) + 1)
    PROVE  /\ ParagraphEnd(s, a) \in (a - 1)..Len(s)
           /\ \A i \in (ParagraphEnd(s, a) + 1)..Len(s) :
                 i < ParagraphEnd(s, a) + 3 => s[i] \in White
<1>1. PICK n \in Nat : n = Len(s)
  BY LenProperties
<1> DEFINE T == {Len(s)} \cup {e \in (a - 1)..(Len(s) - 2) : s[e + 1] = Newline /\ s[e + 2] = Newline}
<1>2. T \in SUBSET Nat /\ T # {}
  BY <1>1
<1>3. PICK e : e = ParagraphEnd(s, a) /\ e = Min(T)
  BY DEF ParagraphEnd
<1>4. e \in T
  <2> HIDE DEF T
  <2> QED BY <1>2, <1>3, MinIs
<1>5. ASSUME NEW i \in (e + 1)..n, i < e + 3 PROVE s[i] \in White
  <2>1. CASE e = n
    BY <1>5, <2>1
  <2>2. CASE s[e + 1] = Newline /\ s[e + 2] = Newline /\ e \in Nat
    <3>1. i = e + 1 \/ i = e + 2
      BY <1>5, <2>2
    <3> QED BY <2>2, <3>1 DEF White
  <2> QED BY <1>1, <1>2, <1>4, <2>1, <2>2
<1>6. e \in (a - 1)..n
  BY <1>1, <1>4
<1> QED BY <1>1, <1>3, <1>5, <1>6

(* All letters before the next paragraph, and no others, are in the passages. *)
ReachedIn(b, s, n) ==
    \E m \in 0..Len(s) :
        /\ m < b.at /\ Hold(b, n, Letters(SubSeq(s, 1, m)))
        /\ \A i \in (m + 1)..Len(s) : i < b.at => s[i] \in White

LEMMA HoldMoves ==
    ASSUME NEW n \in Nat, NEW x, NEW b, Hold(b, n, x), NEW a \in Nat
    PROVE  Hold([b EXCEPT !.at = a], n, x) /\ [b EXCEPT !.at = a].at = a
<1>1. /\ b.out \in Seq(Seq(Chars)) /\ b.cur \in Seq(Chars)
      /\ Len(b.cur) <= n /\ \A i \in 1..Len(b.out) : Len(b.out[i]) <= n
      /\ AllLetters(b.out) \o Letters(b.cur) = x
      /\ b = [at |-> b.at, out |-> b.out, cur |-> b.cur]
  BY HoldHas
<1>2. Hold([at |-> a, out |-> b.out, cur |-> b.cur], n, x)
  BY <1>1, HoldIs
<1>3. [b EXCEPT !.at = a] = [at |-> a, out |-> b.out, cur |-> b.cur]
  <2>1. PICK u, v, w : b = [at |-> u, out |-> v, cur |-> w]
    BY <1>1
  <2>2. [b EXCEPT !.at = a] = [at |-> a, out |-> v, cur |-> w] /\ b.out = v /\ b.cur = w
    BY <2>1
  <2> QED BY <2>2
<1> QED BY <1>2, <1>3

LEMMA NextHolds ==
    ASSUME NEW n \in Nat \ {0}, NEW s \in Seq(Chars), NEW b, ReachedIn(b, s, n)
    PROVE  /\ ReachedIn(NextParagraph(b, s, n), s, n) /\ b.at \in Nat
           /\ \/ NextParagraph(b, s, n).at > Len(s) + 1
              \/ NextParagraph(b, s, n).at > b.at
           /\ NextParagraph(b, s, n).at \in Nat
<1>1. PICK m \in 0..Len(s) :
         /\ m < b.at /\ Hold(b, n, Letters(SubSeq(s, 1, m)))
         /\ \A i \in (m + 1)..Len(s) : i < b.at => s[i] \in White
  BY DEF ReachedIn
<1>2. b.at \in Nat /\ Len(s) \in Nat
  BY <1>1, HoldHas, LenProperties
<1>3. CASE b.at > Len(s) + 1
  BY <1>2, <1>3 DEF NextParagraph
<1>4. CASE ~(b.at > Len(s) + 1)
  <2>1. PICK a \in 1..(Len(s) + 1) : a = b.at
    BY <1>1, <1>2, <1>4
  <2>2. PICK e \in (a - 1)..Len(s) :
           /\ e = ParagraphEnd(s, a) /\ \A i \in (e + 1)..Len(s) : i < e + 3 => s[i] \in White
    BY ParagraphEnds
  <2>3. PICK para \in Seq(Chars) : /\ para = TrimSpace(SubSeq(s, a, e))
                                   /\ Letters(para) = Letters(SubSeq(s, a, e))
    <3>1. SubSeq(s, a, e) \in Seq(Chars)
      BY SliceTyped
    <3> QED BY <3>1, TrimKeeps
  <2>4. PICK c : /\ c = AddParagraph(b, para, n) /\ c.at = b.at
                 /\ Hold(c, n, Letters(SubSeq(s, 1, m)) \o Letters(para))
    BY <1>1, ParagraphHolds
  <2>5. Letters(SubSeq(s, 1, e)) = Letters(SubSeq(s, 1, m)) \o Letters(para)
    <3>1. a \in (m + 1)..(Len(s) + 1) /\ \A i \in (m + 1)..(a - 1) : s[i] \in White
      BY <1>1, <1>2, <2>1
    <3>2. Letters(SubSeq(s, 1, e)) = Letters(SubSeq(s, 1, m)) \o Letters(SubSeq(s, a, e))
      BY <3>1, LettersAcross
    <3> QED BY <2>3, <3>2
  <2>6. PICK d : d = [c EXCEPT !.at = e + 3] /\ Hold(d, n, Letters(SubSeq(s, 1, e))) /\ d.at = e + 3
    <3>1. e + 3 \in Nat /\ n \in Nat
      BY <1>2
    <3>2. Hold(c, n, Letters(SubSeq(s, 1, e)))
      BY <2>4, <2>5
    <3>3. Hold([c EXCEPT !.at = e + 3], n, Letters(SubSeq(s, 1, e))) /\ [c EXCEPT !.at = e + 3].at = e + 3
      BY SMTT(20), <3>1, <3>2, HoldMoves
    <3> QED BY Zenon, <3>3
  <2>7. NextParagraph(b, s, n) = d
    BY <1>4, <2>1, <2>2, <2>3, <2>4, <2>6 DEF NextParagraph
  <2>8. ReachedIn(d, s, n)
    <3>1. e \in 0..Len(s) /\ e < d.at
      BY <1>2, <2>6
    <3>2. \A i \in (e + 1)..Len(s) : i < d.at => s[i] \in White
      BY <2>2, <2>6
    <3> QED BY <2>6, <3>1, <3>2 DEF ReachedIn
  <2>9. d.at > b.at /\ d.at \in Nat
    BY <1>2, <2>1, <2>6
  <2> QED BY <1>2, <2>7, <2>8, <2>9
<1> QED BY <1>3, <1>4

(* g[i] is what is packed after i paragraphs. *)
NothingPacked == [at |-> 1, out |-> <<>>, cur |-> <<>>]
Packs(g, s, n, m) ==
    g = [i \in 0..m |-> IF i = 0 THEN NothingPacked ELSE NextParagraph(g[i - 1], s, n)]

LEMMA PacksIs ==
    ASSUME NEW s, NEW n, NEW l \in Nat
    PROVE  \E g : Packs(g, s, n, l)
<1> DEFINE T == {m \in Nat : ~\E g : Packs(g, s, n, m)}
<1>1. SUFFICES ASSUME T # {} PROVE FALSE
  OBVIOUS
<1>2. PICK m \in T : \A k \in T : m <= k
  BY <1>1, LeastNumber
<1>3. m # 0
  <2>1. Packs([i \in 0..0 |-> NothingPacked], s, n, 0)
    BY DEF Packs
  <2> QED BY <1>2, <2>1
<1>4. PICK g : Packs(g, s, n, m - 1)
  <2>1. m - 1 \in Nat /\ ~(m <= m - 1)
    BY <1>2, <1>3
  <2> QED BY <1>2, <2>1
<1> DEFINE h == [i \in 0..m |-> IF i = 0 THEN NothingPacked ELSE NextParagraph(g[i - 1], s, n)]
<1>5. ASSUME NEW i \in 0..(m - 1) PROVE h[i] = g[i]
  <2>1. i \in 0..m
    BY <1>2
  <2> QED BY <1>4, <2>1 DEF Packs
<1>6. ASSUME NEW i \in 0..m
      PROVE  (IF i = 0 THEN NothingPacked ELSE NextParagraph(g[i - 1], s, n))
             = (IF i = 0 THEN NothingPacked ELSE NextParagraph(h[i - 1], s, n))
  <2>1. CASE i = 0
    BY <2>1
  <2>2. CASE i # 0
    <3>1. i - 1 \in 0..(m - 1)
      BY <1>2, <2>2
    <3>2. h[i - 1] = g[i - 1]
      BY <1>5, <3>1
    <3> HIDE DEF h
    <3> QED BY <2>2, <3>2
  <2> QED BY <2>1, <2>2
<1>7. h = [i \in 0..m |-> IF i = 0 THEN NothingPacked ELSE NextParagraph(g[i - 1], s, n)]
  OBVIOUS
<1> HIDE DEF h
<1>8. Packs(h, s, n, m)
  BY <1>6, <1>7 DEF Packs
<1> QED BY <1>2, <1>8

LEMMA PacksAt ==
    ASSUME NEW g, NEW s, NEW n, NEW m \in Nat, Packs(g, s, n, m)
    PROVE  g[0] = NothingPacked /\ \A i \in 1..m : g[i] = NextParagraph(g[i - 1], s, n)
<1>1. g[0] = NothingPacked
  <2>1. 0 \in 0..m
    OBVIOUS
  <2> QED BY <2>1 DEF Packs
<1>2. ASSUME NEW i \in 1..m PROVE g[i] = NextParagraph(g[i - 1], s, n)
  <2>1. i \in 0..m /\ i # 0
    OBVIOUS
  <2> QED BY <2>1 DEF Packs
<1> QED BY <1>1, <1>2

LEMMA PacksReach ==
    ASSUME NEW n \in Nat \ {0}, NEW s \in Seq(Chars), NEW m \in Nat, m <= Len(s) + 1,
           NEW g, Packs(g, s, n, m)
    PROVE  ReachedIn(g[m], s, n) /\ g[m].at \in Nat /\ g[m].at > m
<1> DEFINE Good(i) == ReachedIn(g[i], s, n) /\ g[i].at \in Nat /\ g[i].at > i
           T == {i \in 0..m : ~Good(i)}
<1>0. Len(s) \in Nat
  BY LenProperties
<1>1. SUFFICES ASSUME T # {} PROVE FALSE
  OBVIOUS
<1>2. PICK k \in T : \A i \in T : k <= i
  <2>1. T \in SUBSET Nat
    OBVIOUS
  <2> HIDE DEF T
  <2> QED BY <1>1, <2>1, LeastNumber
<1>3. k # 0
  <2>1. g[0] = NothingPacked
    BY PacksAt
  <2>2. NothingPacked.at = 1
    BY DEF NothingPacked
  <2>3. Hold(NothingPacked, n, Letters(SubSeq(s, 1, 0)))
    <3>1. SubSeq(s, 1, 0) = <<>>
      BY SubSeqEmpty
    <3>2. <<>> \in Seq(Seq(Chars)) /\ (\A i \in 1..Len(<<>>) : Len(<<>>[i]) <= n) /\ Len(<<>>) <= n
      BY AllOfNone, NoLetters
    <3>3. Hold([at |-> 1, out |-> <<>>, cur |-> <<>>], n, AllLetters(<<>>) \o Letters(<<>>))
      <4>1. n \in Nat /\ 1 \in Nat
        OBVIOUS
      <4> QED BY <3>2, <4>1, NoLetters, HoldIs
    <3>4. <<>> \o <<>> = <<>>
      BY NoLetters, ConcatEmptySeq
    <3> QED BY <3>1, <3>3, <3>4, NoLetters, AllOfNone DEF NothingPacked
  <2>4. ReachedIn(NothingPacked, s, n)
    <3>1. 0 \in 0..Len(s) /\ 0 < 1 /\ \A i \in (0 + 1)..Len(s) : i < 1 => s[i] \in White
      BY <1>0
    <3> QED BY <2>2, <2>3, <3>1 DEF ReachedIn
  <2>5. Good(0)
    BY <2>1, <2>2, <2>4
  <2> QED BY <1>2, <2>5
<1>4. k \in 1..m /\ k - 1 \in 0..m /\ ~(k <= k - 1)
  BY <1>2, <1>3
<1>5. Good(k - 1)
  BY <1>2, <1>4
<1>6. g[k] = NextParagraph(g[k - 1], s, n)
  BY <1>4, PacksAt
<1>7. /\ ReachedIn(g[k], s, n) /\ g[k - 1].at \in Nat /\ g[k].at \in Nat
      /\ g[k].at > Len(s) + 1 \/ g[k].at > g[k - 1].at
  BY <1>5, <1>6, NextHolds
<1>8. g[k].at > k
  BY <1>0, <1>4, <1>5, <1>7
<1> QED BY <1>2, <1>7, <1>8

(* The passages of any notes hold every letter and fit (chunkNotes).         *)
LEMMA NotesAreWhole ==
    ASSUME NEW notes \in Seq(Chars), NEW n \in Nat \ {0}
    PROVE  NotesWhole(notes, n)
<1>1. PICK s \in Seq(Chars) : s = TrimSpace(notes) /\ Letters(s) = Letters(notes)
  BY TrimKeeps
<1>2. PICK l \in Nat : l = Len(s) + 1
  BY LenProperties
<1> DEFINE g == CHOOSE f : f = [i \in 0..l |->
                    IF i = 0 THEN NothingPacked ELSE NextParagraph(f[i - 1], s, n)]
<1>3. Packs(g, s, n, l)
  <2>1. \E f : Packs(f, s, n, l)
    BY PacksIs
  <2> QED BY <2>1 DEF Packs
<1>4. ChunkNotes(notes, n) = FlushedNotes(g[l]).out
  BY <1>1, <1>2 DEF ChunkNotes, NothingPacked
<1> HIDE DEF g
<1>5. ReachedIn(g[l], s, n) /\ g[l].at \in Nat /\ g[l].at > l
  <2>1. l <= Len(s) + 1
    BY <1>2
  <2> HIDE DEF g
  <2> QED BY Zenon, <1>3, <2>1, PacksReach
<1>6. PICK m \in 0..Len(s) :
         /\ Hold(g[l], n, Letters(SubSeq(s, 1, m)))
         /\ \A i \in (m + 1)..Len(s) : i < g[l].at => s[i] \in White
  BY <1>5 DEF ReachedIn
<1>7. Letters(SubSeq(s, 1, m)) = Letters(s)
  <2>1. 1 \in 1..(Len(s) + 1) /\ m \in (1 - 1)..Len(s)
    BY <1>2, LenProperties
  <2>2. \A i \in 1..Len(s) : i < 1 \/ i > m => s[i] \in White
    BY <1>2, <1>5, <1>6, LenProperties
  <2> QED BY <2>1, <2>2, LettersStay
<1>8. PICK f : f = FlushedNotes(g[l]) /\ Hold(f, n, Letters(s)) /\ f.cur = <<>>
  <2>1. n \in Nat
    OBVIOUS
  <2> QED BY <1>6, <1>7, <2>1, FlushHolds
<1>9. /\ f.out \in Seq(Seq(Chars)) /\ \A i \in 1..Len(f.out) : Len(f.out[i]) <= n
      /\ AllLetters(f.out) \o Letters(f.cur) = Letters(s)
  BY <1>8, HoldHas
<1>10. AllLetters(f.out) = Letters(s)
  <2>1. AllLetters(f.out) \in Seq(Chars)
    BY <1>9, AllTyped
  <2>2. Letters(f.cur) = <<>>
    BY <1>8, NoLetters
  <2>3. AllLetters(f.out) \o <<>> = AllLetters(f.out)
    BY <2>1, ConcatEmptySeq
  <2> QED BY <1>9, <2>2, <2>3
<1> QED BY <1>1, <1>4, <1>8, <1>9, <1>10 DEF NotesWhole
-----------------------------------------------------------------------------
LEMMA UpToIs ==
    ASSUME NEW s \in Seq(Chars), NEW k \in 0..Len(s)
    PROVE  UpTo(s, k) \in Seq(Chars) /\ Len(UpTo(s, k)) = k /\ \A i \in 1..k : UpTo(s, k)[i] = s[i]
<1>1. 1 \in 1..(Len(s) + 1) /\ k \in (1 - 1)..Len(s) /\ k - 1 + 1 = k /\ \A i \in 1..k : 1 + i - 1 = i
  BY LenProperties
<1>2. /\ SubSeq(s, 1, k) \in Seq(Chars) /\ Len(SubSeq(s, 1, k)) = k - 1 + 1
      /\ \A i \in 1..(k - 1 + 1) : SubSeq(s, 1, k)[i] = s[1 + i - 1]
  BY <1>1, SliceTyped
<1>3. PICK u : u = SubSeq(s, 1, k)
  OBVIOUS
<1>4. u \in Seq(Chars) /\ Len(u) = k /\ \A i \in 1..k : u[i] = s[i]
  BY <1>1, <1>2, <1>3
<1> QED BY <1>3, <1>4 DEF UpTo

LEMMA UpToOf ==
    ASSUME NEW s \in Seq(Chars), NEW l \in 0..Len(s), NEW k \in 0..l
    PROVE  UpTo(UpTo(s, l), k) = UpTo(s, k)
<1>1. PICK u \in Seq(Chars) : u = UpTo(s, l) /\ Len(u) = l /\ \A i \in 1..l : u[i] = s[i]
  BY UpToIs
<1>2. k \in 0..Len(u) /\ k \in 0..Len(s) /\ \A i \in 1..k : i \in 1..l
  BY <1>1, LenProperties
<1>3. PICK x \in Seq(Chars) : x = UpTo(u, k) /\ Len(x) = k /\ \A i \in 1..k : x[i] = u[i]
  BY <1>2, UpToIs
<1>4. PICK y \in Seq(Chars) : y = UpTo(s, k) /\ Len(y) = k /\ \A i \in 1..k : y[i] = s[i]
  BY <1>2, UpToIs
<1>5. \A i \in 1..Len(x) : x[i] = y[i]
  BY <1>1, <1>2, <1>3, <1>4
<1>6. x = y
  BY <1>3, <1>4, <1>5, SeqEqual
<1> QED BY <1>1, <1>3, <1>4, <1>6

(* A longer beginning has no fewer bytes. *)
LEMMA BytesGrow ==
    ASSUME NEW s \in Seq(Chars), NEW j \in 0..Len(s), NEW i \in 0..j
    PROVE  /\ ByteLen(UpTo(s, i)) \in Nat /\ ByteLen(UpTo(s, j)) \in Nat
           /\ ByteLen(UpTo(s, i)) <= ByteLen(UpTo(s, j))
<1> DEFINE B(u, k) == {spot \in (1..k) \X (1..4) : spot[2] <= Bytes[u[spot[1]]]}
<1>1. i \in 0..Len(s) /\ i \in Nat /\ j \in Nat
  BY LenProperties
<1>2. PICK u \in Seq(Chars) : u = UpTo(s, i) /\ Len(u) = i /\ \A n \in 1..i : u[n] = s[n]
  BY <1>1, UpToIs
<1>3. PICK v \in Seq(Chars) : v = UpTo(s, j) /\ Len(v) = j /\ \A n \in 1..j : v[n] = s[n]
  BY UpToIs
<1>4. ByteLen(u) = Cardinality(B(u, i)) /\ ByteLen(v) = Cardinality(B(v, j))
  BY <1>2, <1>3 DEF ByteLen
<1>5. B(u, i) \in SUBSET B(v, j)
  <2>1. \A n \in 1..i : n \in 1..j /\ u[n] = v[n]
    BY <1>1, <1>2, <1>3
  <2> QED BY <2>1
<1>6. IsFiniteSet(B(v, j))
  <2>1. IsFiniteSet(1..j) /\ IsFiniteSet(1..4)
    <3>1. \A l \in Int : IsFiniteSet(1..l)
      BY FS_Interval
    <3>2. j \in Int /\ 4 \in Int
      BY <1>1
    <3> QED BY <3>1, <3>2
  <2>2. IsFiniteSet((1..j) \X (1..4))
    BY <2>1, FS_Product
  <2> QED BY <2>2, FS_Subset
<1> HIDE DEF B
<1>7. /\ IsFiniteSet(B(u, i)) /\ Cardinality(B(u, i)) <= Cardinality(B(v, j))
  BY <1>5, <1>6, FS_Subset
<1>8. Cardinality(B(u, i)) \in Nat /\ Cardinality(B(v, j)) \in Nat
  BY <1>6, <1>7, FS_CardinalityType
<1> QED BY <1>2, <1>3, <1>4, <1>7, <1>8

LEMMA NoBytes ==
    ASSUME NEW s \in Seq(Chars), NEW k \in Int, k <= 0
    PROVE  ByteLen(UpTo(s, k)) = 0
<1>1. k < 1 /\ 1 \in Int /\ UpTo(s, k) = SubSeq(s, 1, k)
  BY DEF UpTo
<1>2. UpTo(s, k) = <<>>
  BY <1>1, SubSeqEmpty
<1>3. PICK u : u = UpTo(s, k) /\ u = <<>>
  BY <1>2
<1>4. {spot \in (1..Len(u)) \X (1..4) : spot[2] <= Bytes[u[spot[1]]]} = {}
  BY <1>3
<1> QED BY <1>3, <1>4, FS_EmptySet DEF ByteLen

(* A beginning of k characters, marked, with nothing but white space up to  *)
(* end, which is far enough, and before another word if one begins there.   *)
LEMMA MarkedFits ==
    ASSUME NEW s \in Seq(Chars), NEW n \in Nat \ {0}, NEW k \in 0..(n - 1), n <= Len(s),
           Truncate(s, n) = UpTo(s, k) \o <<Ellipsis>>,
           NEW end \in k..(n - 1), \A i \in (k + 1)..end : s[i] \in White,
           end = n - 1 \/ ByteLen(UpTo(s, end)) > Half(n - 1),
           (\E i \in 1..(n - 1) : s[i] \in White /\ ByteLen(UpTo(s, i - 1)) > Half(n - 1))
               => s[k + 1] \in White
    PROVE  TruncatedFits(s, n)
<1>1. k \in 0..Len(s)
  BY LenProperties
<1>2. PICK u \in Seq(Chars) : u = UpTo(s, k) /\ Len(u) = k
  BY <1>1, UpToIs
<1>3. Len(u \o <<Ellipsis>>) = k + 1
  <2> DEFINE S == Chars \cup {Ellipsis}
  <2>1. u \in Seq(S)
    <3>1. Len(u) \in Nat /\ u \in [1..Len(u) -> Chars]
      BY LenProperties
    <3> QED BY <3>1
  <2>2. <<Ellipsis>> \in Seq(S) /\ Len(<<Ellipsis>>) = 1
    OBVIOUS
  <2> HIDE DEF S
  <2> QED BY <1>2, <2>1, <2>2, ConcatProperties
<1>4. PICK t : t = Truncate(s, n) /\ Len(t) = k + 1 /\ t = UpTo(s, k) \o <<Ellipsis>>
  BY <1>2, <1>3
<1>5. Len(t) - 1 = k /\ Len(t) <= n
  BY <1>4
<1> QED BY <1>4, <1>5 DEF TruncatedFits

LEMMA TruncatedIs ==
    ASSUME NEW s \in Seq(Chars), NEW n \in Nat \ {0}
    PROVE  TruncatedFits(s, n)
<1>1. PICK h \in Nat : h = Half(n - 1) /\ h <= n - 1
  BY DEF Half
<1>2. Len(s) \in Nat
  BY LenProperties
<1>3. CASE Len(s) <= n
  <2>1. Truncate(s, n) = s
    BY <1>3 DEF Truncate
  <2> QED BY <2>1 DEF TruncatedFits
<1>4. CASE ~(Len(s) <= n)
  <2>0. n - 1 \in 0..Len(s) /\ n <= Len(s)
    BY <1>2, <1>4
  <2>1. PICK cut \in Seq(Chars) :
           cut = UpTo(s, n - 1) /\ Len(cut) = n - 1 /\ \A i \in 1..(n - 1) : cut[i] = s[i]
    BY <2>0, UpToIs
  <2>2. PICK e, w : e = SentenceEnd(cut) /\ w = LastWhite(cut)
    OBVIOUS
  <2>3. Truncate(s, n) = IF ByteLen(UpTo(cut, e)) > h THEN UpTo(cut, e) \o <<Ellipsis>>
                         ELSE IF ByteLen(UpTo(cut, w - 1)) > h
                              THEN TrimRight(UpTo(cut, w - 1)) \o <<Ellipsis>>
                         ELSE cut \o <<Ellipsis>>
    BY <1>1, <1>4, <2>1, <2>2 DEF Truncate
  <2>4. \A k \in 0..(n - 1) : UpTo(cut, k) = UpTo(s, k)
    BY <2>0, <2>1, UpToOf
  <2>5. CASE ByteLen(UpTo(cut, e)) > h
    <3>1. e \in 0..(n - 2) /\ cut[e + 1] \in White
      <4> DEFINE T == {0} \cup {i \in 1..(Len(cut) - 1) : cut[i] = Stop /\ cut[i + 1] \in White}
      <4>1. T \in SUBSET (0..(n - 1)) /\ T # {} /\ n - 1 \in Nat
        BY <2>1
      <4>2. e = Max(T)
        BY <2>2 DEF SentenceEnd
      <4>3. e \in T
        <5> HIDE DEF T
        <5> QED BY <4>1, <4>2, MaxIs
      <4>4. e # 0
        BY <1>1, <2>5, NoBytes
      <4> QED BY <2>1, <4>3, <4>4
    <3>2. e \in 0..(n - 1) /\ e + 1 \in 1..(n - 1) /\ e \in e..(n - 1)
      BY <3>1
    <3>3. Truncate(s, n) = UpTo(s, e) \o <<Ellipsis>> /\ ByteLen(UpTo(s, e)) > h
      BY <2>3, <2>4, <2>5, <3>2
    <3>4. s[e + 1] \in White
      BY <2>1, <3>1, <3>2
    <3>5. \A i \in (e + 1)..e : FALSE
      BY <3>2
    <3> QED BY <1>1, <2>0, <3>2, <3>3, <3>4, <3>5, MarkedFits
  <2>6. w \in 0..(n - 1) /\ (w # 0 => cut[w] \in White)
        /\ \A i \in 1..(n - 1) : cut[i] \in White => i <= w
    <3> DEFINE T == {0} \cup {i \in 1..Len(cut) : cut[i] \in White}
    <3>1. T \in SUBSET (0..(n - 1)) /\ T # {} /\ n - 1 \in Nat
      BY <2>1
    <3>2. w = Max(T)
      BY <2>2 DEF LastWhite
    <3>3. w \in T /\ \A x \in T : x <= w
      <4> HIDE DEF T
      <4> QED BY <3>1, <3>2, MaxIs
    <3> QED BY <2>1, <3>1, <3>3
  <2>7. CASE ~(ByteLen(UpTo(cut, e)) > h) /\ ByteLen(UpTo(cut, w - 1)) > h
    <3>0. w # 0
      BY <1>1, <2>7, NoBytes
    <3>1. PICK d \in 0..(n - 2) : d = w - 1 /\ d + 1 \in 1..(n - 1) /\ s[d + 1] \in White
                                  /\ ByteLen(UpTo(cut, d)) > h
      BY <2>1, <2>6, <2>7, <3>0
    <3>2. PICK u \in Seq(Chars) : u = UpTo(s, d) /\ Len(u) = d /\ \A i \in 1..d : u[i] = s[i]
      <4>1. d \in 0..Len(s)
        BY <1>2, <1>4
      <4> QED BY <4>1, UpToIs
    <3>3. PICK k \in 0..d : TrimRight(u) = SubSeq(u, 1, k) /\ \A i \in (k + 1)..d : u[i] \in White
      BY <3>2, TrimRightIs
    <3>4. TrimRight(u) = UpTo(s, k)
      <4>1. d \in 0..Len(s)
        BY <1>2, <1>4
      <4>2. UpTo(u, k) = UpTo(s, k)
        BY <3>2, <4>1, UpToOf
      <4> QED BY <3>3, <4>2 DEF UpTo
    <3>5. k \in 0..(n - 1) /\ d \in 0..(n - 1) /\ d \in k..(n - 1)
      OBVIOUS
    <3>6. Truncate(s, n) = UpTo(s, k) \o <<Ellipsis>>
      BY <2>3, <2>4, <2>7, <3>1, <3>2, <3>4, <3>5
    <3>7. \A i \in (k + 1)..(d + 1) : s[i] \in White
      <4>1. ASSUME NEW i \in (k + 1)..(d + 1) PROVE s[i] \in White
        <5>1. CASE i = d + 1
          BY <3>1, <5>1
        <5>2. CASE i \in (k + 1)..d
          <6>1. i \in 1..d
            BY <5>2
          <6> QED BY <3>2, <3>3, <5>2, <6>1
        <5>3. i = d + 1 \/ i \in (k + 1)..d
          OBVIOUS
        <5> QED BY <5>1, <5>2, <5>3
      <4> QED BY <4>1
    <3>8. k + 1 \in (k + 1)..(d + 1) /\ \A i \in (k + 1)..d : i \in (k + 1)..(d + 1)
      OBVIOUS
    <3>9. ByteLen(UpTo(s, d)) > h
      BY <2>4, <3>1, <3>5
    <3> QED BY <1>1, <2>0, <3>5, <3>6, <3>7, <3>8, <3>9, MarkedFits
  <2>8. CASE ~(ByteLen(UpTo(cut, e)) > h) /\ ~(ByteLen(UpTo(cut, w - 1)) > h)
    <3>1. n - 1 \in 0..(n - 1) /\ n - 1 \in (n - 1)..(n - 1)
      OBVIOUS
    <3>2. Truncate(s, n) = UpTo(s, n - 1) \o <<Ellipsis>>
      BY <2>1, <2>3, <2>8
    <3>3. \A i \in (n - 1 + 1)..(n - 1) : FALSE
      OBVIOUS
    <3>4. ~\E i \in 1..(n - 1) : s[i] \in White /\ ByteLen(UpTo(s, i - 1)) > h
      <4>1. ASSUME NEW i \in 1..(n - 1), s[i] \in White, ByteLen(UpTo(s, i - 1)) > h PROVE FALSE
        <5>1. cut[i] \in White
          BY <2>1, <4>1
        <5>2. i <= w
          BY <2>6, <5>1
        <5>3. w - 1 \in 0..Len(s) /\ i - 1 \in 0..(w - 1) /\ w - 1 \in 0..(n - 1)
          BY <1>2, <2>0, <2>6, <5>2
        <5>4. PICK x, y : x = ByteLen(UpTo(s, i - 1)) /\ y = ByteLen(UpTo(s, w - 1))
          OBVIOUS
        <5>5. x \in Nat /\ y \in Nat /\ x <= y
          BY <5>3, <5>4, BytesGrow
        <5>6. ~(y > h) /\ x > h
          BY <2>4, <2>8, <4>1, <5>3, <5>4
        <5> QED BY <5>5, <5>6
      <4> QED BY <4>1
    <3> QED BY <1>1, <2>0, <3>1, <3>2, <3>3, <3>4, MarkedFits
  <2> QED BY <2>5, <2>7, <2>8
<1> QED BY <1>3, <1>4

(* All letters before h, and no others, are in the pieces. *)
Arrived(o, t, h) ==
    \E m \in 0..Len(t) :
        /\ m < h /\ AllLetters(o) = Letters(SubSeq(t, 1, m))
        /\ \A i \in (m + 1)..Len(t) : i < h => t[i] \in White

LEMMA ArrivedFrom ==
    ASSUME NEW t \in Seq(Chars)
    PROVE  Arrived(<<>>, t, 1)
<1>1. 0 \in 0..Len(t) /\ Len(t) \in Nat
  BY LenProperties
<1>2. SubSeq(t, 1, 0) = <<>>
  BY SubSeqEmpty
<1>3. Letters(<<>>) = <<>>
  BY NoLetters
<1>4. \A i \in (0 + 1)..Len(t) : i < 1 => t[i] \in White
  BY <1>1
<1>5. AllLetters(<<>>) = Letters(SubSeq(t, 1, 0))
  BY Zenon, <1>2, <1>3, AllOfNone
<1>6. 0 < 1
  OBVIOUS
<1> QED BY Zenon, <1>1, <1>4, <1>5, <1>6 DEF Arrived

LEMMA ArrivedSkips ==
    ASSUME NEW t, NEW o, NEW h \in Nat, NEW g \in Nat, Len(t) \in Nat,
           Arrived(o, t, h), h <= g, \A i \in 1..Len(t) : h <= i /\ i < g => t[i] \in White
    PROVE  Arrived(o, t, g)
<1>1. PICK m \in 0..Len(t) :
         /\ m < h /\ AllLetters(o) = Letters(SubSeq(t, 1, m))
         /\ \A i \in (m + 1)..Len(t) : i < h => t[i] \in White
  BY DEF Arrived
<1>2. \A i \in (m + 1)..Len(t) : i < g => t[i] \in White
  <2>1. ASSUME NEW i \in (m + 1)..Len(t), i < g PROVE t[i] \in White
    <3>1. i \in 1..Len(t)
      OBVIOUS
    <3>2. i < h \/ h <= i
      BY <3>1
    <3> QED BY <1>1, <2>1, <3>1, <3>2
  <2> QED BY <2>1
<1>3. m < g
  BY <1>1
<1> QED BY <1>1, <1>2, <1>3 DEF Arrived

LEMMA ArrivedGrows ==
    ASSUME NEW t \in Seq(Chars), NEW o \in Seq(Seq(Chars)), NEW h \in Nat, NEW g \in Nat,
           NEW f \in Nat \ {0}, NEW l \in Int, Arrived(o, t, h),
           h <= f, f - 1 <= l, l <= Len(t), l < g,
           \A i \in 1..Len(t) : h <= i /\ i < g /\ t[i] \notin White => f <= i /\ i <= l
    PROVE  Arrived(Append(o, SubSeq(t, f, l)), t, g)
<1>1. PICK m \in 0..Len(t) :
         /\ m < h /\ AllLetters(o) = Letters(SubSeq(t, 1, m))
         /\ \A i \in (m + 1)..Len(t) : i < h => t[i] \in White
  BY DEF Arrived
<1>2. Len(t) \in Nat
  BY LenProperties
<1>3. f \in (m + 1)..(Len(t) + 1) /\ l \in (f - 1)..Len(t) /\ f \in 1..(Len(t) + 1) /\ l \in 0..Len(t)
  BY <1>1, <1>2
<1>4. \A i \in (m + 1)..(f - 1) : t[i] \in White
  <2>1. ASSUME NEW i \in (m + 1)..(f - 1) PROVE t[i] \in White
    <3>1. i \in 1..Len(t) /\ i \in (m + 1)..Len(t) /\ i < g /\ ~(f <= i) /\ (i < h \/ h <= i)
      BY <1>2, <1>3
    <3> QED BY <1>1, <3>1
  <2> QED BY <2>1
<1>5. PICK p \in Seq(Chars) : p = SubSeq(t, f, l)
  BY <1>3, SliceTyped
<1>6. Letters(SubSeq(t, 1, l)) = Letters(SubSeq(t, 1, m)) \o Letters(p)
  BY <1>3, <1>4, <1>5, LettersAcross
<1>7. AllLetters(Append(o, p)) = Letters(SubSeq(t, 1, l))
  BY <1>1, <1>6, AllAppend
<1>8. \A i \in (l + 1)..Len(t) : i < g => t[i] \in White
  <2>1. ASSUME NEW i \in (l + 1)..Len(t), i < g PROVE t[i] \in White
    <3>1. i \in 1..Len(t) /\ h <= i /\ ~(i <= l)
      BY <1>2, <1>3
    <3> QED BY <2>1, <3>1
  <2> QED BY <2>1
<1> QED BY <1>3, <1>5, <1>7, <1>8 DEF Arrived

LEMMA ArrivedAll ==
    ASSUME NEW t \in Seq(Chars), NEW o, NEW h \in Nat, Arrived(o, t, h), h > Len(t)
    PROVE  AllLetters(o) = Letters(t)
<1>1. PICK m \in 0..Len(t) :
         /\ m < h /\ AllLetters(o) = Letters(SubSeq(t, 1, m))
         /\ \A i \in (m + 1)..Len(t) : i < h => t[i] \in White
  BY DEF Arrived
<1>2. Len(t) \in Nat
  BY LenProperties
<1>3. 1 \in 1..(Len(t) + 1) /\ m \in (1 - 1)..Len(t)
  BY <1>2
<1>4. \A i \in 1..Len(t) : i < 1 \/ i > m => t[i] \in White
  BY <1>1, <1>2
<1>5. Letters(SubSeq(t, 1, m)) = Letters(t)
  BY <1>3, <1>4, LettersStay
<1> QED BY <1>1, <1>5
-----------------------------------------------------------------------------
(* Everything before h is done with: what may not be cut is in a piece, and *)
(* the letters of the pieces are those of the text.                         *)
Packed(o, c, t, n, h) ==
    /\ o \in Seq(Seq(Chars)) /\ c \in Seq(Int \X Int)
    /\ PiecesFit(o, c, t, n) /\ KeptBefore(h, c, t, n) /\ Arrived(o, t, h)
    /\ \A i \in 1..Len(c) : c[i][2] < h

(* A line begins at p, or the text has ended. *)
LineBegins(t, p) ==
    /\ p \in 1..(Len(t) + 2)
    /\ p \in 2..(Len(t) + 1) => t[p - 1] = Newline

(* What is in hand between lines: those from f to before p. *)
LinesInHand(t, n, piece, f, p) ==
    /\ LineBegins(t, p)
    /\ piece # <<>> => f \in 1..(p - 2) /\ piece = SubSeq(t, f, p - 2) /\ Len(piece) <= n

(* What is in hand within a line that ends before p: all of it from f, and  *)
(* if f is where the line begins then the line fits no piece.               *)
LineInHand(t, n, r, f, p) ==
    /\ LineBegins(t, p) /\ f \in 1..(p - 1) /\ r = SubSeq(t, f, p - 2)
    /\ \A k \in f..(p - 2) : t[k] # Newline
    /\ \A a \in f..(p - 2) : a = 1 \/ t[a - 1] = Newline => a = f /\ p - 1 - f > n

SplitInv ==
    /\ body \in Seq(Chars) /\ size \in Nat \ {0} /\ next \in Nat
    /\ cur \in Seq(Chars) /\ out \in Seq(Seq(Chars)) /\ PiecesFit(out, cuts, body, size)
    /\ mode = "idle" => body = <<>> /\ out = <<>> /\ cuts = <<>> /\ cur = <<>>
    /\ mode = "lines" =>
          /\ LinesInHand(body, size, cur, from, next)
          /\ cur = <<>> => Packed(out, cuts, body, size, next)
          /\ cur # <<>> => Packed(out, cuts, body, size, from)
    /\ mode = "words" =>
          /\ cur = <<>> /\ LineInHand(body, size, rest, from, next)
          /\ Packed(out, cuts, body, size, from)
    /\ mode = "done" => cur = <<>> /\ KeptBefore(Len(body) + 1, cuts, body, size)
    /\ mode = "join" => next >= 2

-----------------------------------------------------------------------------
LEMMA HalfIs == ASSUME NEW n \in Nat \ {0} PROVE Half(n) \in Nat /\ Half(n) <= n - 1
BY DEF Half

LEMMA SliceIs ==
    ASSUME NEW S, NEW s \in Seq(S), NEW a \in Nat \ {0}, NEW b \in Int,
           a - 1 <= b, b <= Len(s)
    PROVE  /\ SubSeq(s, a, b) \in Seq(S) /\ Len(SubSeq(s, a, b)) = b - a + 1
           /\ \A i \in 1..(b - a + 1) : SubSeq(s, a, b)[i] = s[a + i - 1]
  OBVIOUS

LEMMA SliceOfSlice ==
    ASSUME NEW S, NEW s \in Seq(S), NEW a \in Nat \ {0}, NEW b \in Int,
           a - 1 <= b, b <= Len(s), NEW c \in Nat \ {0}, NEW d \in Int,
           c - 1 <= d, d <= b - a + 1
    PROVE  SubSeq(SubSeq(s, a, b), c, d) = SubSeq(s, a + c - 1, a + d - 1)
<1> DEFINE r == SubSeq(s, a, b)
<1>1. /\ r \in Seq(S) /\ Len(r) = b - a + 1 /\ \A i \in 1..(b - a + 1) : r[i] = s[a + i - 1]
  BY SliceIs
<1> HIDE DEF r
<1>2. /\ SubSeq(r, c, d) \in Seq(S) /\ Len(SubSeq(r, c, d)) = d - c + 1
      /\ \A i \in 1..(d - c + 1) : SubSeq(r, c, d)[i] = r[c + i - 1]
  BY <1>1, SliceIs
<1> DEFINE f == a + c - 1  l == a + d - 1
<1>3. f \in Nat \ {0} /\ l \in Int /\ f - 1 <= l /\ l <= Len(s) /\ l - f + 1 = d - c + 1
  OBVIOUS
<1> HIDE DEF f, l
<1>4. /\ SubSeq(s, f, l) \in Seq(S) /\ Len(SubSeq(s, f, l)) = l - f + 1
      /\ \A i \in 1..(l - f + 1) : SubSeq(s, f, l)[i] = s[f + i - 1]
  BY <1>3, SliceIs
<1>5. ASSUME NEW i \in 1..(d - c + 1) PROVE SubSeq(r, c, d)[i] = SubSeq(s, f, l)[i]
  <2>1. c + i - 1 \in 1..(b - a + 1) /\ a + (c + i - 1) - 1 = (a + c - 1) + i - 1
    OBVIOUS
  <2>2. r[c + i - 1] = s[a + (c + i - 1) - 1]
    BY <1>1, <2>1
  <2>3. SubSeq(r, c, d)[i] = r[c + i - 1] /\ SubSeq(s, f, l)[i] = s[f + i - 1]
    BY <1>2, <1>3, <1>4
  <2> QED BY <2>1, <2>2, <2>3 DEF f
<1>6. SubSeq(r, c, d) = SubSeq(s, f, l)
  BY <1>2, <1>3, <1>4, <1>5, SeqEqual
<1> QED BY <1>6 DEF r, f, l

LEMMA SlicesJoin ==
    ASSUME NEW S, NEW s \in Seq(S), NEW a \in Nat \ {0}, NEW b \in Nat, NEW e \in Nat,
           a - 1 <= b, b < e, e <= Len(s)
    PROVE  SubSeq(s, a, b) \o <<s[b + 1]>> \o SubSeq(s, b + 2, e) = SubSeq(s, a, e)
<1> DEFINE x == SubSeq(s, a, b)  y == SubSeq(s, b + 2, e)  z == SubSeq(s, a, e)
           w == <<s[b + 1]>>
<1>1. /\ x \in Seq(S) /\ Len(x) = b - a + 1 /\ \A i \in 1..(b - a + 1) : x[i] = s[a + i - 1]
  BY SliceIs
<1>2. /\ y \in Seq(S) /\ Len(y) = e - b - 1 /\ \A i \in 1..(e - b - 1) : y[i] = s[b + i + 1]
  <2>1. b + 2 \in Nat \ {0} /\ e \in Int /\ (b + 2) - 1 <= e /\ e - (b + 2) + 1 = e - b - 1
    OBVIOUS
  <2>2. /\ y \in Seq(S) /\ Len(y) = e - (b + 2) + 1
        /\ \A i \in 1..(e - (b + 2) + 1) : y[i] = s[(b + 2) + i - 1]
    BY SMTT(20), <2>1, SliceIs
  <2>3. \A i \in 1..(e - b - 1) : y[i] = s[(b + 2) + i - 1] /\ (b + 2) + i - 1 = b + i + 1
    BY <2>1, <2>2
  <2> QED BY <2>1, <2>2, <2>3
<1>3. /\ z \in Seq(S) /\ Len(z) = e - a + 1 /\ \A i \in 1..(e - a + 1) : z[i] = s[a + i - 1]
  BY SliceIs
<1>4. w \in Seq(S) /\ Len(w) = 1 /\ w[1] = s[b + 1]
  OBVIOUS
<1> HIDE DEF x, y, z, w
<1>5. /\ x \o w \in Seq(S) /\ Len(x \o w) = b - a + 2
      /\ \A i \in 1..(b - a + 2) : (x \o w)[i] = s[a + i - 1]
  <2>1. /\ x \o w \in Seq(S) /\ Len(x \o w) = Len(x) + Len(w)
        /\ \A i \in 1..(Len(x) + Len(w)) :
              (x \o w)[i] = IF i <= Len(x) THEN x[i] ELSE w[i - Len(x)]
    BY <1>1, <1>4, ConcatProperties
  <2>2. ASSUME NEW i \in 1..(b - a + 2) PROVE (x \o w)[i] = s[a + i - 1]
    <3>1. CASE i <= b - a + 1
      BY <2>1, <3>1, <1>1, <1>4
    <3>2. CASE i = b - a + 2
      <4>0. Len(x) = b - a + 1 /\ Len(w) = 1 /\ i \in 1..(Len(x) + Len(w))
        BY <3>2, <1>1, <1>4
      <4>1. ~(i <= Len(x)) /\ i - Len(x) = 1 /\ a + i - 1 = b + 1
        BY <3>2, <4>0
      <4>2. (x \o w)[i] = w[1]
        BY <2>1, <4>0, <4>1
      <4> QED BY <4>1, <4>2, <1>4
    <3>3. i <= b - a + 1 \/ i = b - a + 2
      OBVIOUS
    <3> QED BY <3>1, <3>2, <3>3
  <2>3. Len(x) + Len(w) = b - a + 2
    BY <1>1, <1>4
  <2>4. x \o w \in Seq(S) /\ Len(x \o w) = b - a + 2
    BY <2>1, <2>3
  <2> QED BY <2>2, <2>4
<1> DEFINE u == x \o w
<1>6. u \in Seq(S) /\ Len(u) = b - a + 2 /\ \A i \in 1..(b - a + 2) : u[i] = s[a + i - 1]
  BY <1>5
<1> HIDE DEF u
<1>7. /\ u \o y \in Seq(S) /\ Len(u \o y) = e - a + 1
      /\ \A i \in 1..(e - a + 1) :
            (u \o y)[i] = IF i <= b - a + 2 THEN u[i] ELSE y[i - (b - a + 2)]
  <2>1. Len(u) + Len(y) = e - a + 1
    BY <1>2, <1>6
  <2>2. /\ u \o y \in Seq(S) /\ Len(u \o y) = Len(u) + Len(y)
        /\ \A i \in 1..(Len(u) + Len(y)) :
              (u \o y)[i] = IF i <= Len(u) THEN u[i] ELSE y[i - Len(u)]
    BY <1>2, <1>6, ConcatProperties
  <2> QED BY <1>6, <2>1, <2>2
<1>8. ASSUME NEW i \in 1..(e - a + 1) PROVE (u \o y)[i] = z[i]
  <2>0. z[i] = s[a + i - 1]
    BY <1>3
  <2>1. CASE i <= b - a + 2
    <3>1. (u \o y)[i] = u[i] /\ i \in 1..(b - a + 2)
      BY <2>1, <1>7
    <3> QED BY <2>0, <3>1, <1>6
  <2>2. CASE i > b - a + 2
    <3>1. i - (b - a + 2) \in 1..(e - b - 1) /\ b + (i - (b - a + 2)) + 1 = a + i - 1
      BY <2>2
    <3>2. (u \o y)[i] = y[i - (b - a + 2)]
      BY <2>2, <1>7
    <3>3. y[i - (b - a + 2)] = s[b + (i - (b - a + 2)) + 1]
      BY <3>1, <1>2
    <3> QED BY <2>0, <3>1, <3>2, <3>3
  <2>3. i <= b - a + 2 \/ i > b - a + 2
    OBVIOUS
  <2> QED BY <2>1, <2>2, <2>3
<1>9. u \o y = z
  <2>1. \A i \in 1..Len(u \o y) : (u \o y)[i] = z[i]
    BY <1>7, <1>8
  <2> QED BY <1>3, <1>7, <2>1, SeqEqual
<1> QED BY <1>9 DEF x, y, z, w, u

-----------------------------------------------------------------------------
LEMMA PackedFrom ==
    ASSUME NEW t \in Seq(Chars), NEW n \in Nat \ {0} PROVE Packed(<<>>, <<>>, t, n, 1)
<1>1. <<>> \in Seq(Seq(Chars)) /\ <<>> \in Seq(Int \X Int) /\ Len(<<>>) = 0
  BY EmptySeq
<1>2. Arrived(<<>>, t, 1)
  BY ArrivedFrom
<1> QED BY <1>1, <1>2 DEF Packed, PiecesFit, KeptBefore

(* A letter may not be cut. *)
LEMMA LetterUncut ==
    ASSUME NEW t, NEW n, NEW i \in 1..Len(t), Len(t) \in Nat, t[i] \notin White
    PROVE  i \in i..Len(t) /\ Uncut(t, n, i, i)
BY DEF Uncut

LEMMA PackedSkips ==
    ASSUME NEW t \in Seq(Chars), NEW n \in Nat \ {0}, NEW o, NEW c, NEW h \in Nat, NEW g \in Nat,
           Packed(o, c, t, n, h), h <= g,
           \A a \in 1..Len(t) : \A b \in a..Len(t) : h <= a /\ a < g => ~Uncut(t, n, a, b)
    PROVE  Packed(o, c, t, n, g)
<1>1. c \in Seq(Int \X Int) /\ \A i \in 1..Len(c) : c[i][2] < g
  <2>1. c \in Seq(Int \X Int) /\ \A i \in 1..Len(c) : c[i][2] < h
    BY DEF Packed
  <2>2. ASSUME NEW i \in 1..Len(c) PROVE c[i][2] < g
    <3>1. c[i][2] \in Int
      BY <2>1, ElementOfSeq
    <3> QED BY <2>1, <3>1
  <2> QED BY <2>1, <2>2
<1>2. ASSUME NEW a \in 1..(g - 1), NEW b \in a..Len(t), Uncut(t, n, a, b)
      PROVE  \E i \in 1..Len(c) : c[i][1] <= a /\ b <= c[i][2]
  <2>1. a \in 1..Len(t) /\ a < g
    OBVIOUS
  <2>2. a \in 1..(h - 1)
    BY <1>2, <2>1
  <2> QED BY <1>2, <2>2 DEF Packed, KeptBefore
<1>3. Arrived(o, t, g)
  <2>1. Len(t) \in Nat /\ Arrived(o, t, h)
    BY LenProperties DEF Packed
  <2>2. ASSUME NEW i \in 1..Len(t), h <= i /\ i < g PROVE t[i] \in White
    BY <2>1, <2>2, LetterUncut
  <2> QED BY <2>1, <2>2, ArrivedSkips
<1> QED BY <1>1, <1>2, <1>3 DEF Packed, KeptBefore

LEMMA PackedGrows ==
    ASSUME NEW t \in Seq(Chars), NEW n \in Nat \ {0}, NEW o, NEW c, NEW h \in Nat, NEW g \in Nat,
           NEW f \in Nat \ {0}, NEW l \in Int,
           Packed(o, c, t, n, h), h <= f, f - 1 <= l, l <= Len(t), l < g, h <= g, l - f + 1 <= n,
           Blank(SubSeq(t, f, l)) => \A p \in f..(f + Half(n)) : t[p] \in White,
           \A a \in 1..Len(t) : \A b \in a..Len(t) :
              h <= a /\ a < g /\ Uncut(t, n, a, b) => f <= a /\ b <= l
    PROVE  Packed(Append(o, SubSeq(t, f, l)), Append(c, <<f, l>>), t, n, g)
<1> DEFINE piece == SubSeq(t, f, l)  o2 == Append(o, piece)  c2 == Append(c, <<f, l>>)
<1>1. piece \in Seq(Chars) /\ Len(piece) = l - f + 1
  BY SliceIs
<1>2. /\ o \in Seq(Seq(Chars)) /\ c \in Seq(Int \X Int) /\ Len(c) = Len(o) /\ Len(o) \in Nat
      /\ PiecesFit(o, c, t, n) /\ KeptBefore(h, c, t, n) /\ \A i \in 1..Len(c) : c[i][2] < h
  BY LenProperties DEF Packed, PiecesFit
<1> HIDE DEF piece
<1>3. /\ o2 \in Seq(Seq(Chars)) /\ Len(o2) = Len(o) + 1 /\ o2[Len(o) + 1] = piece
      /\ \A i \in 1..Len(o) : o2[i] = o[i]
  BY <1>1, <1>2
<1>4. /\ c2 \in Seq(Int \X Int) /\ Len(c2) = Len(o) + 1 /\ c2[Len(o) + 1] = <<f, l>>
      /\ \A i \in 1..Len(o) : c2[i] = c[i]
  BY <1>2
<1>5. \A i \in 1..Len(o) : c[i] \in Int \X Int
  BY <1>2, ElementOfSeq
<1> HIDE DEF o2, c2
<1>6. ASSUME NEW i \in 1..(Len(o) + 1) PROVE c2[i][2] < g
  <2>1. CASE i = Len(o) + 1
    BY <2>1, <1>4
  <2>2. CASE i \in 1..Len(o)
    <3>1. c2[i][2] = c[i][2] /\ c[i][2] \in Int /\ c[i][2] < h
      BY <2>2, <1>2, <1>4, <1>5
    <3> QED BY <3>1
  <2>3. i = Len(o) + 1 \/ i \in 1..Len(o)
    BY <1>2
  <2> QED BY <2>1, <2>2, <2>3
<1>7. PiecesFit(o2, c2, t, n)
  <2>1. ASSUME NEW i \in 1..(Len(o) + 1)
        PROVE  /\ Len(o2[i]) <= n /\ o2[i] = SubSeq(t, c2[i][1], c2[i][2])
               /\ Blank(o2[i]) => \A p \in c2[i][1]..(c2[i][1] + Half(n)) : t[p] \in White
               /\ \A j \in (i + 1)..(Len(o) + 1) : c2[i][2] < c2[j][1]
    <3>1. CASE i = Len(o) + 1
      <4>1. o2[i] = piece /\ c2[i][1] = f /\ c2[i][2] = l
        BY <3>1, <1>3, <1>4
      <4>2. \A j \in (i + 1)..(Len(o) + 1) : FALSE
        BY <3>1, <1>2
      <4> QED BY <4>1, <4>2, <1>1 DEF piece
    <3>2. CASE i \in 1..Len(o)
      <4>1. o2[i] = o[i] /\ c2[i] = c[i] /\ c[i][2] < h /\ c[i] \in Int \X Int
        BY <3>2, <1>2, <1>3, <1>4, <1>5
      <4>2. /\ Len(o[i]) <= n /\ o[i] = SubSeq(t, c[i][1], c[i][2])
            /\ Blank(o[i]) => \A p \in c[i][1]..(c[i][1] + Half(n)) : t[p] \in White
            /\ \A j \in (i + 1)..Len(o) : c[i][2] < c[j][1]
        BY <3>2, <1>2 DEF PiecesFit
      <4>3. ASSUME NEW j \in (i + 1)..(Len(o) + 1) PROVE c2[i][2] < c2[j][1]
        <5>1. CASE j = Len(o) + 1
          <6>1. c2[j] = <<f, l>>
            BY <5>1, <1>4
          <6>2. c2[j][1] = f /\ c2[i] = c[i] /\ c[i][2] < h /\ c[i][2] \in Int
            BY <6>1, <4>1
          <6> QED BY <6>2
        <5>2. CASE j \in (i + 1)..Len(o)
          <6>1. j \in 1..Len(o)
            BY <5>2, <3>2, <1>2
          <6>2. c2[j] = c[j]
            BY <6>1, <1>4
          <6> QED BY <6>2, <5>2, <4>1, <4>2
        <5>3. j = Len(o) + 1 \/ j \in (i + 1)..Len(o)
          <6>1. Len(o) \in Nat
            BY <1>2
          <6> QED BY <6>1
        <5> QED BY <5>1, <5>2, <5>3
      <4> QED BY <4>1, <4>2, <4>3
    <3>3. i = Len(o) + 1 \/ i \in 1..Len(o)
      BY <1>2
    <3> QED BY <3>1, <3>2, <3>3
  <2> QED BY <2>1, <1>3, <1>4 DEF PiecesFit
<1>8. ASSUME NEW a \in 1..(g - 1), NEW b \in a..Len(t), Uncut(t, n, a, b)
      PROVE  \E i \in 1..(Len(o) + 1) : c2[i][1] <= a /\ b <= c2[i][2]
  <2>1. CASE a < h
    <3>1. PICK i \in 1..Len(c) : c[i][1] <= a /\ b <= c[i][2]
      <4>1. a \in 1..(h - 1)
        BY <2>1
      <4> QED BY <4>1, <1>2, <1>8 DEF KeptBefore
    <3>2. i \in 1..(Len(o) + 1) /\ c2[i] = c[i]
      BY <1>2, <1>4
    <3> QED BY <3>1, <3>2
  <2>2. CASE h <= a
    <3>1. f <= a /\ b <= l
      <4>1. a \in 1..Len(t) /\ a < g
        OBVIOUS
      <4> QED BY <4>1, <2>2, <1>8
    <3>2. c2[Len(o) + 1][1] = f /\ c2[Len(o) + 1][2] = l /\ Len(o) + 1 \in 1..(Len(o) + 1)
      BY <1>2, <1>4
    <3> QED BY <3>1, <3>2
  <2> QED BY <2>1, <2>2
<1>9. Arrived(o2, t, g)
  <2>1. Len(t) \in Nat /\ Arrived(o, t, h)
    BY LenProperties DEF Packed
  <2>2. ASSUME NEW i \in 1..Len(t), h <= i /\ i < g /\ t[i] \notin White
        PROVE  f <= i /\ i <= l
    BY <2>1, <2>2, LetterUncut
  <2>3. Arrived(Append(o, SubSeq(t, f, l)), t, g)
    BY <1>2, <2>1, <2>2, ArrivedGrows
  <2> QED BY <2>3 DEF o2, piece
<1>10. Packed(o2, c2, t, n, g)
  BY <1>3, <1>4, <1>6, <1>7, <1>8, <1>9 DEF Packed, KeptBefore
<1> QED BY <1>10 DEF o2, c2, piece

-----------------------------------------------------------------------------
LEMMA UncutHas ==
    ASSUME NEW t \in Seq(Chars), NEW n \in Nat \ {0}, NEW a \in 1..Len(t), NEW b \in a..Len(t),
           Uncut(t, n, a, b)
    PROVE  (\A k \in a..b : t[k] # Newline) /\ \E k \in a..b : t[k] \notin White
<1>1. CASE a = b /\ t[a] \notin White
  BY <1>1 DEF White
<1>2. CASE IsRun(t, a, b, {Newline}) /\ ~Blank(SubSeq(t, a, b))
  <2>1. /\ Len(SubSeq(t, a, b)) = b - a + 1
        /\ \A i \in 1..(b - a + 1) : SubSeq(t, a, b)[i] = t[a + i - 1]
    BY SliceIs
  <2>2. PICK i \in 1..(b - a + 1) : SubSeq(t, a, b)[i] \notin White
    BY <1>2, <2>1 DEF Blank
  <2>3. t[a + i - 1] \notin White /\ a + i - 1 \in a..b
    BY <2>1, <2>2
  <2> QED BY <1>2, <2>3 DEF IsRun
<1>3. CASE IsRun(t, a, b, White)
  <2>1. a \in a..b /\ \A k \in a..b : t[k] \notin White
    BY <1>3 DEF IsRun
  <2> QED BY <2>1 DEF White
<1> QED BY <1>1, <1>2, <1>3 DEF Uncut

(* What may not be cut does not reach over the end of a line. *)
LEMMA UncutEnds ==
    ASSUME NEW t \in Seq(Chars), NEW n \in Nat \ {0}, NEW a \in 1..Len(t), NEW b \in a..Len(t),
           Uncut(t, n, a, b), NEW p, LineBegins(t, p), a <= p - 2
    PROVE  b <= p - 2
<1>1. p \in 1..(Len(t) + 2) /\ (p \in 2..(Len(t) + 1) => t[p - 1] = Newline)
  BY DEF LineBegins
<1>2. SUFFICES ASSUME b > p - 2 PROVE FALSE
  BY <1>1
<1>3. p \in 2..(Len(t) + 1) /\ p - 1 \in a..b
  BY <1>1, <1>2
<1> QED BY <1>1, <1>3, UncutHas

(* In a line too long for a piece only letters and words may not be cut. *)
LEMMA UncutInLine ==
    ASSUME NEW t \in Seq(Chars), NEW n \in Nat \ {0}, NEW a \in 1..Len(t), NEW b \in a..Len(t),
           Uncut(t, n, a, b), NEW r, NEW f, NEW p, LineInHand(t, n, r, f, p), f <= a, a <= p - 2
    PROVE  /\ b <= p - 2 /\ \A k \in a..b : t[k] \notin White
           /\ a = b \/ (IsRun(t, a, b, White) /\ b - a + 1 <= n - Half(n))
<1>1. /\ p \in 1..(Len(t) + 2) /\ f \in 1..(p - 1)
      /\ \A k \in f..(p - 2) : t[k] # Newline
      /\ a = 1 \/ t[a - 1] = Newline => a = f /\ p - 1 - f > n
  BY DEF LineInHand, LineBegins
<1>2. b <= p - 2
  BY UncutEnds DEF LineInHand
<1>3. CASE a = b /\ t[a] \notin White
  <2>1. ASSUME NEW k \in a..b PROVE t[k] \notin White
    <3>1. k = a
      BY <1>3
    <3> QED BY <1>3, <3>1
  <2>2. \A k \in a..b : t[k] \notin White
    BY <2>1
  <2>3. a = b
    BY <1>3
  <2> QED BY <1>2, <2>2, <2>3
<1>4. CASE IsRun(t, a, b, {Newline}) /\ b - a + 1 <= n
  <2>1. a = 1 \/ t[a - 1] = Newline
    BY <1>4 DEF IsRun
  <2>2. a = f /\ p - 1 - f > n
    BY <1>1, <2>1
  <2>3. b < p - 2
    BY <1>1, <1>2, <1>4, <2>2
  <2>4. b < Len(t) /\ b + 1 \in f..(p - 2)
    BY <1>1, <2>2, <2>3
  <2>5. t[b + 1] = Newline
    BY <1>4, <2>4 DEF IsRun
  <2> QED BY <1>1, <2>4, <2>5
<1>5. CASE IsRun(t, a, b, White) /\ b - a + 1 <= n - Half(n)
  BY <1>2, <1>5 DEF IsRun
<1> QED BY <1>3, <1>4, <1>5 DEF Uncut

(* What s begins with. *)
Beginning(piece, s, k) == piece = SubSeq(s, 1, k)

(* All that r has from i to j is blank. *)
Gap(r, i, j) == \A k \in i..j : r[k] = Space

(* The line at p ends at e. *)
LineTo(t, p, e) ==
    /\ p <= Len(t) + 1 /\ e \in (p - 1)..Len(t)
    /\ \A k \in p..e : t[k] # Newline
    /\ e < Len(t) => t[e + 1] = Newline

LEMMA NextLine ==
    ASSUME NEW t \in Seq(Chars), NEW p, LineBegins(t, p), NEW e, LineTo(t, p, e)
    PROVE  LineBegins(t, e + 2)
BY DEF LineBegins, LineTo

LEMMA LineStarts ==
    ASSUME NEW t \in Seq(Chars), NEW n \in Nat \ {0}, NEW o, NEW c, NEW p, NEW e, NEW f,
           LinesInHand(t, n, <<>>, f, p), Packed(o, c, t, n, p),
           LineTo(t, p, e), e - p + 1 <= n, NEW piece, piece = SubSeq(t, p, e)
    PROVE  /\ LinesInHand(t, n, piece, p, e + 2) /\ piece \in Seq(Chars)
           /\ piece = <<>> => Packed(o, c, t, n, e + 2)
           /\ piece # <<>> => Packed(o, c, t, n, p)
<1>1. LineBegins(t, p) /\ p \in 1..(Len(t) + 1) /\ e \in (p - 1)..Len(t)
  BY DEF LinesInHand, LineBegins, LineTo
<1>2. piece \in Seq(Chars) /\ Len(piece) = e - p + 1
  BY <1>1, SliceIs
<1>3. LineBegins(t, e + 2)
  BY <1>1, NextLine
<1>4. CASE piece = <<>>
  <2>1. e = p - 1
    BY <1>1, <1>2, <1>4
  <2>2. ASSUME NEW a \in 1..Len(t), NEW b \in a..Len(t), p <= a, a < e + 2 PROVE ~Uncut(t, n, a, b)
    <3>1. a = p /\ e < Len(t) /\ a = e + 1
      BY <1>1, <2>1, <2>2
    <3>2. t[a] = Newline
      BY <3>1 DEF LineTo
    <3> QED BY <3>2, UncutHas
  <2>3. p \in Nat /\ e + 2 \in Nat /\ p <= e + 2
    BY <1>1, <2>1
  <2>4. Packed(o, c, t, n, e + 2)
    BY <2>2, <2>3, PackedSkips
  <2> QED BY <1>2, <1>3, <1>4, <2>4 DEF LinesInHand
<1>5. CASE piece # <<>>
  <2>1. Len(piece) > 0
    BY <1>2, <1>5
  <2>2. p \in 1..((e + 2) - 2) /\ (e + 2) - 2 = e
    BY <1>1, <1>2, <2>1
  <2> QED BY <1>2, <1>3, <1>5, <2>2 DEF LinesInHand
<1> QED BY <1>4, <1>5

LEMMA LineIsAdded ==
    ASSUME NEW t \in Seq(Chars), NEW n \in Nat \ {0}, NEW p, NEW e, NEW f, NEW piece,
           LinesInHand(t, n, piece, f, p), piece # <<>>,
           LineTo(t, p, e), Len(piece) + 1 + (e - p + 1) <= n
    PROVE  LET longer == piece \o <<Newline>> \o SubSeq(t, p, e)
           IN  /\ longer # <<>> /\ longer \in Seq(Chars)
               /\ LinesInHand(t, n, longer, f, e + 2)
<1>1. /\ LineBegins(t, p) /\ p \in 1..(Len(t) + 1) /\ e \in (p - 1)..Len(t)
      /\ f \in 1..(p - 2) /\ piece = SubSeq(t, f, p - 2) /\ t[p - 1] = Newline
  BY DEF LinesInHand, LineBegins, LineTo
<1>2. Len(piece) = p - 1 - f
  <2>1. p - 2 \in Int /\ f \in Nat \ {0} /\ f - 1 <= p - 2 /\ p - 2 <= Len(t)
    BY <1>1
  <2>2. Len(SubSeq(t, f, p - 2)) = (p - 2) - f + 1
    BY <2>1, SliceIs
  <2> QED BY <1>1, <2>2
<1> DEFINE longer == piece \o <<Newline>> \o SubSeq(t, p, e)
<1>3. longer = SubSeq(t, f, e)
  <2>1. /\ p - 2 \in Nat /\ f \in Nat \ {0} /\ e \in Nat /\ f - 1 <= p - 2 /\ p - 2 < e
        /\ e <= Len(t)
    BY <1>1
  <2>2. SubSeq(t, f, p - 2) \o <<t[(p - 2) + 1]>> \o SubSeq(t, (p - 2) + 2, e) = SubSeq(t, f, e)
    BY <2>1, SlicesJoin
  <2>3. (p - 2) + 1 = p - 1 /\ (p - 2) + 2 = p
    BY <1>1
  <2> QED BY <1>1, <2>2, <2>3
<1> HIDE DEF longer
<1>4. longer \in Seq(Chars) /\ Len(longer) = e - f + 1
  <2>1. f \in Nat \ {0} /\ e \in Int /\ f - 1 <= e /\ e <= Len(t)
    BY <1>1
  <2> QED BY <2>1, <1>3, SliceIs
<1>5. Len(longer) > 0 /\ Len(longer) <= n
  BY <1>1, <1>2, <1>4
<1>6. longer # <<>>
  BY <1>5
<1>7. f \in 1..((e + 2) - 2) /\ (e + 2) - 2 = e
  BY <1>1
<1>8. LinesInHand(t, n, longer, f, e + 2)
  BY <1>1, <1>3, <1>5, <1>7, NextLine DEF LinesInHand
<1> QED BY <1>4, <1>6, <1>8 DEF longer

LEMMA LineIsBroken ==
    ASSUME NEW t \in Seq(Chars), NEW n \in Nat \ {0}, NEW p, NEW e,
           LineBegins(t, p), LineTo(t, p, e), e - p + 1 > n
    PROVE  LineInHand(t, n, SubSeq(t, p, e), p, e + 2)
<1>1. p \in 1..(Len(t) + 1) /\ e \in (p - 1)..Len(t) /\ \A k \in p..e : t[k] # Newline
  BY DEF LineBegins, LineTo
<1>2. p \in 1..((e + 2) - 1) /\ (e + 2) - 2 = e /\ (e + 2) - 1 - p = e - p + 1
  BY <1>1
<1>3. ASSUME NEW a \in p..e, a = 1 \/ t[a - 1] = Newline PROVE a = p
  <2>1. CASE a > p
    <3>1. a - 1 \in p..e /\ a # 1
      BY <1>1, <2>1
    <3> QED BY <1>1, <1>3, <3>1
  <2> QED BY <1>1, <2>1
<1> QED BY <1>1, <1>2, <1>3, NextLine DEF LineInHand

LEMMA PieceIsFlushed ==
    ASSUME NEW t \in Seq(Chars), NEW n \in Nat \ {0}, NEW o, NEW c, NEW p, NEW f, NEW piece,
           LinesInHand(t, n, piece, f, p), piece # <<>>, Packed(o, c, t, n, f),
           NEW k \in 0..Len(piece), \A i \in (k + 1)..Len(piece) : piece[i] = Newline,
           NEW chunk, chunk = SubSeq(piece, 1, k)
    PROVE  /\ Blank(chunk) => Packed(o, c, t, n, p)
           /\ ~Blank(chunk) =>
                 Packed(Append(o, chunk), Append(c, <<f, f + Len(chunk) - 1>>), t, n, p)
<1>1. /\ LineBegins(t, p) /\ p \in 1..(Len(t) + 2) /\ f \in 1..(p - 2)
      /\ piece = SubSeq(t, f, p - 2) /\ Len(piece) <= n
      /\ p \in 2..(Len(t) + 1) => t[p - 1] = Newline
  BY DEF LinesInHand, LineBegins
<1>2. /\ piece \in Seq(Chars) /\ Len(piece) = p - 1 - f
      /\ \A i \in 1..(p - 1 - f) : piece[i] = t[f + i - 1]
  <2>1. f \in Nat \ {0} /\ p - 2 \in Int /\ f - 1 <= p - 2 /\ p - 2 <= Len(t)
        /\ (p - 2) - f + 1 = p - 1 - f
    BY <1>1
  <2> QED BY <1>1, <2>1, SliceIs
<1>3. chunk = SubSeq(t, f, f + k - 1) /\ Len(chunk) = k /\ \A i \in 1..k : chunk[i] = piece[i]
  <2>1. /\ 1 \in Nat \ {0} /\ k \in Int /\ 1 - 1 <= k /\ k <= Len(piece)
        /\ f \in Nat \ {0} /\ p - 2 \in Int /\ f - 1 <= p - 2 /\ p - 2 <= Len(t)
        /\ k <= (p - 2) - f + 1 /\ f + 1 - 1 = f /\ k - 1 + 1 = k
    BY <1>1, <1>2
  <2>2. SubSeq(SubSeq(t, f, p - 2), 1, k) = SubSeq(t, f + 1 - 1, f + k - 1)
    BY <2>1, SliceOfSlice
  <2>3. /\ Len(SubSeq(piece, 1, k)) = k - 1 + 1
        /\ \A i \in 1..(k - 1 + 1) : SubSeq(piece, 1, k)[i] = piece[1 + i - 1]
    BY <2>1, <1>2, SliceIs
  <2> QED BY <1>1, <2>1, <2>2, <2>3
<1>4. ASSUME NEW a \in 1..Len(t), NEW b \in a..Len(t), f <= a, a < p, Uncut(t, n, a, b)
      PROVE  b <= f + k - 1 /\ ~Blank(chunk)
  <2>1. a <= p - 2
    <3>1. CASE a = p - 1
      <4>1. p \in 2..(Len(t) + 1)
        BY <1>1, <3>1
      <4>2. t[a] = Newline /\ a \in a..b
        BY <1>1, <3>1, <4>1
      <4>3. \A j \in a..b : t[j] # Newline
        BY <1>4, UncutHas
      <4> QED BY <4>2, <4>3
    <3> QED BY <1>1, <1>4, <3>1
  <2>2. b <= p - 2
    BY <1>1, <1>4, <2>1, UncutEnds
  <2>3. \A j \in a..b : t[j] # Newline
    BY <1>4, UncutHas
  <2>4. b <= f + k - 1
    <3>1. SUFFICES ASSUME b > f + k - 1 PROVE FALSE
      BY <1>1
    <3>2. b - f + 1 \in (k + 1)..Len(piece) /\ b - f + 1 \in 1..(p - 1 - f) /\ f + (b - f + 1) - 1 = b
      BY <1>1, <1>2, <1>4, <2>2, <3>1
    <3>3. piece[b - f + 1] = Newline /\ piece[b - f + 1] = t[f + (b - f + 1) - 1]
      BY <3>2, <1>2
    <3> QED BY <2>3, <3>2, <3>3
  <2>5. PICK j \in a..b : t[j] \notin White
    BY <1>4, UncutHas
  <2>6. j - f + 1 \in 1..k /\ j - f + 1 \in 1..(p - 1 - f) /\ f + (j - f + 1) - 1 = j
    BY <1>1, <1>2, <1>4, <2>4
  <2>7. chunk[j - f + 1] = t[j]
    BY <2>6, <1>2, <1>3
  <2> QED BY <2>4, <2>5, <2>6, <2>7, <1>3 DEF Blank
<1>5. f \in Nat /\ p \in Nat /\ f <= p
  BY <1>1
<1>6. ASSUME Blank(chunk) PROVE Packed(o, c, t, n, p)
  <2>1. \A a \in 1..Len(t) : \A b \in a..Len(t) : f <= a /\ a < p => ~Uncut(t, n, a, b)
    BY <1>4, <1>6
  <2> QED BY <2>1, <1>5, PackedSkips
<1>7. ASSUME ~Blank(chunk)
      PROVE  Packed(Append(o, chunk), Append(c, <<f, f + Len(chunk) - 1>>), t, n, p)
  <2> DEFINE l == f + k - 1
  <2>1. /\ f \in Nat \ {0} /\ l \in Int /\ f - 1 <= l /\ l <= Len(t) /\ l < p /\ l - f + 1 <= n
    BY <1>1, <1>2
  <2>2. chunk = SubSeq(t, f, l) /\ f + Len(chunk) - 1 = l
    BY <1>3
  <2>3. \A a \in 1..Len(t) : \A b \in a..Len(t) :
           f <= a /\ a < p /\ Uncut(t, n, a, b) => f <= a /\ b <= l
    BY <1>4
  <2> HIDE DEF l
  <2>4. Blank(SubSeq(t, f, l)) => \A q \in f..(f + Half(n)) : t[q] \in White
    BY <1>7, <2>2
  <2>5. f <= f
    BY <2>1
  <2>6. Packed(Append(o, SubSeq(t, f, l)), Append(c, <<f, l>>), t, n, p)
    BY <1>5, <2>1, <2>3, <2>4, <2>5, PackedGrows
  <2> QED BY <2>2, <2>6
<1> QED BY <1>6, <1>7

-----------------------------------------------------------------------------
LEMMA LineHeld ==
    ASSUME NEW t \in Seq(Chars), NEW n \in Nat \ {0}, NEW r, NEW f, NEW p, LineInHand(t, n, r, f, p)
    PROVE  /\ f \in Nat \ {0} /\ p \in Nat /\ f <= p - 1 /\ p - 2 <= Len(t)
           /\ r \in Seq(Chars) /\ Len(r) = p - 1 - f
           /\ \A i \in 1..(p - 1 - f) : r[i] = t[f + i - 1] /\ r[i] # Newline
<1>1. /\ p \in 1..(Len(t) + 2) /\ f \in 1..(p - 1) /\ r = SubSeq(t, f, p - 2)
      /\ \A k \in f..(p - 2) : t[k] # Newline
  BY DEF LineInHand, LineBegins
<1>2. f \in Nat \ {0} /\ p - 2 \in Int /\ f - 1 <= p - 2 /\ p - 2 <= Len(t)
      /\ (p - 2) - f + 1 = p - 1 - f
  BY <1>1
<1>3. /\ r \in Seq(Chars) /\ Len(r) = p - 1 - f
      /\ \A i \in 1..(p - 1 - f) : r[i] = t[f + i - 1]
  BY SMTT(20), <1>1, <1>2, SliceIs
<1>4. ASSUME NEW i \in 1..(p - 1 - f) PROVE r[i] # Newline
  <2>1. f + i - 1 \in f..(p - 2)
    BY <1>1
  <2> QED BY <1>1, <1>3, <2>1
<1> QED BY <1>1, <1>2, <1>3, <1>4

(* What is left of a line after its first d characters. *)
LEMMA RestOfLine ==
    ASSUME NEW t \in Seq(Chars), NEW n \in Nat \ {0}, NEW r, NEW f, NEW p, LineInHand(t, n, r, f, p),
           NEW d \in 1..Len(r)
    PROVE  LineInHand(t, n, SubSeq(r, d + 1, Len(r)), f + d, p)
<1>1. /\ f \in Nat \ {0} /\ p \in Nat /\ f <= p - 1 /\ p - 2 <= Len(t) /\ Len(r) = p - 1 - f
  BY LineHeld
<1>2. r = SubSeq(t, f, p - 2) /\ LineBegins(t, p) /\ \A k \in f..(p - 2) : t[k] # Newline
  BY DEF LineInHand
<1>3. SubSeq(r, d + 1, Len(r)) = SubSeq(t, f + d, p - 2)
  <2> DEFINE i == d + 1  j == Len(r)
  <2>1. /\ p - 2 \in Int /\ f - 1 <= p - 2 /\ i \in Nat \ {0} /\ j \in Int /\ i - 1 <= j
        /\ j <= (p - 2) - f + 1 /\ f + i - 1 = f + d /\ f + j - 1 = p - 2
    BY <1>1
  <2> HIDE DEF i, j
  <2>2. SubSeq(SubSeq(t, f, p - 2), i, j) = SubSeq(t, f + i - 1, f + j - 1)
    BY <1>1, <2>1, SliceOfSlice
  <2> QED BY <1>2, <2>1, <2>2 DEF i, j
<1>4. f + d \in 1..(p - 1)
  BY <1>1
<1>5. ASSUME NEW a \in (f + d)..(p - 2) PROVE a # 1 /\ t[a - 1] # Newline
  <2>1. a - 1 \in f..(p - 2) /\ a # 1
    BY <1>1
  <2> QED BY <1>2, <2>1
<1>6. \A k \in (f + d)..(p - 2) : t[k] # Newline
  BY <1>1, <1>2
<1> QED BY <1>2, <1>3, <1>4, <1>5, <1>6 DEF LineInHand

LEMMA PieceOfLine ==
    ASSUME NEW t \in Seq(Chars), NEW n \in Nat \ {0}, NEW r, NEW f, NEW p, LineInHand(t, n, r, f, p),
           NEW k \in 0..Len(r), NEW piece, Beginning(piece, r, k)
    PROVE  /\ piece = SubSeq(t, f, f + k - 1) /\ Len(piece) = k
           /\ \A i \in 1..k : piece[i] = r[i]
<1>1. /\ f \in Nat \ {0} /\ p \in Nat /\ f <= p - 1 /\ p - 2 <= Len(t) /\ Len(r) = p - 1 - f
      /\ r \in Seq(Chars)
  BY LineHeld
<1>2. r = SubSeq(t, f, p - 2)
  BY DEF LineInHand
<1>3. /\ 1 \in Nat \ {0} /\ k \in Int /\ 1 - 1 <= k /\ k <= Len(r) /\ p - 2 \in Int
      /\ f - 1 <= p - 2 /\ k <= (p - 2) - f + 1 /\ f + 1 - 1 = f /\ k - 1 + 1 = k
  BY <1>1
<1>4. SubSeq(SubSeq(t, f, p - 2), 1, k) = SubSeq(t, f + 1 - 1, f + k - 1)
  BY <1>1, <1>3, SliceOfSlice
<1>5. /\ Len(SubSeq(r, 1, k)) = k - 1 + 1
      /\ \A i \in 1..(k - 1 + 1) : SubSeq(r, 1, k)[i] = r[1 + i - 1]
  BY <1>1, <1>3, SliceIs
<1>6. ASSUME NEW i \in 1..k PROVE SubSeq(r, 1, k)[i] = r[i]
  <2>1. i \in 1..(k - 1 + 1) /\ 1 + i - 1 = i
    OBVIOUS
  <2> QED BY <2>1, <1>5
<1>7. SubSeq(r, 1, k) = SubSeq(t, f, f + k - 1)
  BY <1>2, <1>3, <1>4
<1> QED BY <1>3, <1>5, <1>6, <1>7 DEF Beginning

(* The last piece of a line. *)
LEMMA LineIsEnded ==
    ASSUME NEW t \in Seq(Chars), NEW n \in Nat \ {0}, NEW o, NEW c, NEW p, NEW f, NEW r,
           LineInHand(t, n, r, f, p), Packed(o, c, t, n, f), Len(r) <= n
    PROVE  /\ Blank(r) => Packed(o, c, t, n, p)
           /\ ~Blank(r) => Packed(Append(o, r), Append(c, <<f, f + Len(r) - 1>>), t, n, p)
<1>1. /\ f \in Nat \ {0} /\ p \in Nat /\ f <= p - 1 /\ p - 2 <= Len(t)
      /\ r \in Seq(Chars) /\ Len(r) = p - 1 - f
      /\ \A i \in 1..(p - 1 - f) : r[i] = t[f + i - 1] /\ r[i] # Newline
  BY LineHeld
<1>2. r = SubSeq(t, f, p - 2) /\ p \in 1..(Len(t) + 2) /\ (p \in 2..(Len(t) + 1) => t[p - 1] = Newline)
  BY DEF LineInHand, LineBegins
<1>3. ASSUME NEW a \in 1..Len(t), NEW b \in a..Len(t), f <= a, a < p, Uncut(t, n, a, b)
      PROVE  b <= p - 2 /\ ~Blank(r)
  <2>1. a <= p - 2
    <3>1. CASE a = p - 1
      <4>1. p \in 2..(Len(t) + 1)
        BY <1>1, <3>1
      <4>2. t[a] = Newline /\ a \in a..b
        BY <1>2, <3>1, <4>1
      <4>3. \A j \in a..b : t[j] # Newline
        BY <1>3, UncutHas
      <4> QED BY <4>2, <4>3
    <3> QED BY <1>1, <1>3, <3>1
  <2>2. b <= p - 2
    BY <1>3, <2>1, UncutInLine
  <2>3. PICK j \in a..b : t[j] \notin White
    BY <1>3, UncutHas
  <2>4. j - f + 1 \in 1..(p - 1 - f) /\ f + (j - f + 1) - 1 = j
    BY <1>1, <1>3, <2>2
  <2>5. r[j - f + 1] \notin White
    BY <1>1, <2>3, <2>4
  <2> QED BY <1>1, <2>2, <2>4, <2>5 DEF Blank
<1>4. ASSUME Blank(r) PROVE Packed(o, c, t, n, p)
  <2>1. \A a \in 1..Len(t) : \A b \in a..Len(t) : f <= a /\ a < p => ~Uncut(t, n, a, b)
    BY <1>3, <1>4
  <2>2. f \in Nat /\ f <= p
    BY <1>1
  <2> QED BY <1>1, <2>1, <2>2, PackedSkips
<1>5. ASSUME ~Blank(r) PROVE Packed(Append(o, r), Append(c, <<f, f + Len(r) - 1>>), t, n, p)
  <2> DEFINE l == p - 2
  <2>1. /\ f \in Nat /\ l \in Int /\ f - 1 <= l /\ l <= Len(t) /\ l < p /\ l - f + 1 <= n
        /\ f <= p /\ f + Len(r) - 1 = l
    BY <1>1
  <2>2. \A a \in 1..Len(t) : \A b \in a..Len(t) :
           f <= a /\ a < p /\ Uncut(t, n, a, b) => f <= a /\ b <= l
    BY <1>3
  <2>3. r = SubSeq(t, f, l)
    BY <1>2
  <2> HIDE DEF l
  <2>4. Blank(SubSeq(t, f, l)) => \A q \in f..(f + Half(n)) : t[q] \in White
    BY <1>5, <2>3
  <2>5. f <= f /\ f \in Nat \ {0} /\ p \in Nat
    BY <1>1
  <2>6. Packed(Append(o, SubSeq(t, f, l)), Append(c, <<f, l>>), t, n, p)
    BY <2>1, <2>2, <2>4, <2>5, PackedGrows
  <2> QED BY <2>1, <2>3, <2>6
<1> QED BY <1>4, <1>5

(* A piece of a line that is cut at the blanks from its character i to d,   *)
(* and ends at k, before the blanks in front of them.                       *)
LEMMA LineIsSplit ==
    ASSUME NEW t \in Seq(Chars), NEW n \in Nat \ {0}, NEW o, NEW c, NEW p, NEW f, NEW r \in Seq(Chars),
           LineInHand(t, n, r, f, p), Packed(o, c, t, n, f),
           NEW i \in 1..n, n < Len(r), i - 1 >= Half(n), NEW k \in 0..(i - 1), NEW d \in i..Len(r),
           Gap(r, k + 1, d),
           NEW piece, Beginning(piece, r, k)
    PROVE  Packed(Append(o, piece), Append(c, <<f, f + Len(piece) - 1>>), t, n, f + d)
<1>1. /\ f \in Nat \ {0} /\ p \in Nat /\ f <= p - 1 /\ p - 2 <= Len(t)
      /\ r \in Seq(Chars) /\ Len(r) = p - 1 - f
      /\ \A j \in 1..(p - 1 - f) : r[j] = t[f + j - 1] /\ r[j] # Newline
  BY LineHeld
<1>2. k \in 0..Len(r) /\ d \in 1..Len(r) /\ Half(n) \in Nat
  BY <1>1, HalfIs
<1>3. /\ piece = SubSeq(t, f, f + k - 1) /\ Len(piece) = k
      /\ \A j \in 1..k : piece[j] = r[j]
  <2>1. k \in 0..Len(r)
    BY <1>2
  <2> QED BY <2>1, PieceOfLine
<1>4. ASSUME NEW j \in (f + k)..(f + d - 1) PROVE t[j] = Space
  <2>1. j - f + 1 \in (k + 1)..d /\ j - f + 1 \in 1..(p - 1 - f) /\ f + (j - f + 1) - 1 = j
    BY <1>1, <1>2
  <2> QED BY <1>1, <2>1 DEF Gap
<1>5. ASSUME NEW a \in 1..Len(t), NEW b \in a..Len(t), f <= a, a < f + d, Uncut(t, n, a, b)
      PROVE  b <= f + k - 1
  <2>1. a <= p - 2
    BY <1>1, <1>2, <1>5
  <2>2. \A j \in a..b : t[j] \notin White
    BY <1>5, <2>1, UncutInLine
  <2>3. SUFFICES ASSUME b > f + k - 1 PROVE FALSE
    BY SMTT(20), <1>1
  <2>4. CASE a >= f + k
    <3>1. a \in a..b /\ a \in (f + k)..(f + d - 1)
      BY <1>1, <1>5, <2>4
    <3> QED BY <1>4, <2>2, <3>1 DEF White
  <2>5. CASE a < f + k
    <3>1. f + k \in a..b /\ f + k \in (f + k)..(f + d - 1)
      BY <1>1, <1>2, <2>3, <2>5
    <3> QED BY <1>4, <2>2, <3>1 DEF White
  <2> QED BY SMTT(20), <1>1, <2>4, <2>5
<1>6. ASSUME Blank(piece), NEW q \in f..(f + Half(n)) PROVE t[q] \in White
  <2>1. CASE q < f + k
    <3>1. q - f + 1 \in 1..k /\ q - f + 1 \in 1..(p - 1 - f) /\ f + (q - f + 1) - 1 = q
      BY <1>1, <1>2, <2>1
    <3>2. piece[q - f + 1] = t[q]
      BY <1>1, <1>3, <3>1
    <3>3. piece[q - f + 1] \in White
      BY <1>3, <1>6, <3>1 DEF Blank
    <3> QED BY <3>2, <3>3
  <2>2. CASE q >= f + k
    <3>1. q \in (f + k)..(f + d - 1)
      BY SMTT(20), <1>1, <1>2, <2>2
    <3>2. t[q] = Space
      BY Zenon, <1>4, <3>1
    <3> QED BY Zenon, <3>2 DEF White
  <2>3. q < f + k \/ q >= f + k
    BY <1>1
  <2> QED BY <2>1, <2>2, <2>3
<1> DEFINE l == f + k - 1  g == f + d
<1>7. /\ l \in Int /\ g \in Nat /\ f \in Nat /\ f <= f /\ f - 1 <= l /\ l <= Len(t) /\ l < g
      /\ f <= g /\ l - f + 1 <= n /\ f + Len(piece) - 1 = l
  <2>0. Len(r) = p - 1 - f /\ Len(piece) = k
    BY <1>1, <1>3
  <2>1. k \in Nat /\ d \in Nat /\ k < d /\ k <= n /\ d <= p - 1 - f
    BY <2>0
  <2>2. l = f + k - 1 /\ g = f + d /\ Len(piece) = k /\ Len(t) \in Nat
    BY <2>0
  <2> HIDE DEF l, g
  <2> QED BY <1>1, <2>1, <2>2
<1>8. Blank(SubSeq(t, f, l)) => \A q \in f..(f + Half(n)) : t[q] \in White
  BY <1>3, <1>6
<1>9. \A a \in 1..Len(t) : \A b \in a..Len(t) :
         f <= a /\ a < g /\ Uncut(t, n, a, b) => f <= a /\ b <= l
  BY <1>5
<1>10. piece = SubSeq(t, f, l)
  BY <1>3
<1> HIDE DEF l, g
<1>11. Packed(Append(o, SubSeq(t, f, l)), Append(c, <<f, l>>), t, n, g)
  BY <1>1, <1>7, <1>8, <1>9, PackedGrows
<1>12. Packed(Append(o, piece), Append(c, <<f, f + Len(piece) - 1>>), t, n, g)
  BY <1>7, <1>10, <1>11
<1> QED BY <1>12 DEF g

(* A piece of a line that has no blank in the second half of its window. *)
LEMMA LineIsSplitAnywhere ==
    ASSUME NEW t \in Seq(Chars), NEW n \in Nat \ {0}, NEW o, NEW c, NEW p, NEW f, NEW r \in Seq(Chars),
           LineInHand(t, n, r, f, p), Packed(o, c, t, n, f), n < Len(r),
           \A i \in 1..n : r[i] = Space => i - 1 < Half(n),
           NEW piece, Beginning(piece, r, n)
    PROVE  Packed(Append(o, piece), Append(c, <<f, f + Len(piece) - 1>>), t, n, f + n)
<1>1. /\ f \in Nat \ {0} /\ p \in Nat /\ f <= p - 1 /\ p - 2 <= Len(t)
      /\ r \in Seq(Chars) /\ Len(r) = p - 1 - f
      /\ \A j \in 1..(p - 1 - f) : r[j] = t[f + j - 1] /\ r[j] # Newline
  BY LineHeld
<1>2. n \in 0..Len(r) /\ Half(n) \in Nat /\ Half(n) <= n - 1
  BY <1>1, HalfIs
<1>3. /\ piece = SubSeq(t, f, f + n - 1) /\ Len(piece) = n
      /\ \A j \in 1..n : piece[j] = r[j]
  <2>1. n \in 0..Len(r)
    BY <1>2
  <2> QED BY <2>1, PieceOfLine
<1>4. ~Blank(piece)
  <2>1. n \in 1..n /\ n \in 1..(p - 1 - f) /\ ~(n - 1 < Half(n))
    BY <1>1, <1>2
  <2>2. r[n] # Space /\ r[n] # Newline
    BY <1>1, <2>1
  <2> QED BY <1>3, <2>1, <2>2 DEF Blank, White
<1>5. ASSUME NEW a \in 1..Len(t), NEW b \in a..Len(t), f <= a, a < f + n, Uncut(t, n, a, b)
      PROVE  b <= f + n - 1
  <2>1. a <= p - 2
    BY <1>1, <1>2, <1>5
  <2>2. a = b \/ (IsRun(t, a, b, White) /\ b - a + 1 <= n - Half(n))
    BY <1>5, <2>1, UncutInLine
  <2>3. CASE a = b
    BY <1>1, <1>5, <2>3
  <2>4. CASE a = f /\ b - a + 1 <= n - Half(n)
    BY <1>1, <1>2, <2>4
  <2>5. CASE a > f /\ IsRun(t, a, b, White) /\ b - a + 1 <= n - Half(n)
    <3>1. a - f \in 1..n /\ a - f \in 1..(p - 1 - f) /\ f + (a - f) - 1 = a - 1 /\ a > 1
      BY SMTT(20), <1>1, <1>5, <2>1, <2>5
    <3>2. t[a - 1] \in White
      BY <2>5, <3>1 DEF IsRun
    <3>3. r[a - f] = t[a - 1] /\ r[a - f] # Newline
      BY <1>1, <3>1
    <3>4. r[a - f] = Space
      BY <3>2, <3>3 DEF White
    <3>5. (a - f) - 1 < Half(n)
      BY <3>1, <3>4
    <3> QED BY <1>1, <1>2, <2>5, <3>1, <3>5
  <2>6. a = f \/ a > f
    BY <1>1, <1>5
  <2> QED BY <2>2, <2>3, <2>4, <2>5, <2>6
<1> DEFINE l == f + n - 1  g == f + n
<1>6. /\ l \in Int /\ g \in Nat /\ f \in Nat /\ f <= f /\ f - 1 <= l /\ l <= Len(t) /\ l < g
      /\ f <= g /\ l - f + 1 <= n /\ f + Len(piece) - 1 = l
  BY <1>1, <1>2, <1>3
<1>7. piece = SubSeq(t, f, l)
  BY <1>3
<1>8. Blank(SubSeq(t, f, l)) => \A q \in f..(f + Half(n)) : t[q] \in White
  BY <1>4, <1>7
<1>9. \A a \in 1..Len(t) : \A b \in a..Len(t) :
         f <= a /\ a < g /\ Uncut(t, n, a, b) => f <= a /\ b <= l
  BY <1>5
<1> HIDE DEF l, g
<1>10. Packed(Append(o, SubSeq(t, f, l)), Append(c, <<f, l>>), t, n, g)
  BY <1>1, <1>6, <1>8, <1>9, PackedGrows
<1>11. Packed(Append(o, piece), Append(c, <<f, f + Len(piece) - 1>>), t, n, g)
  BY <1>6, <1>7, <1>10
<1> QED BY <1>11 DEF g

-----------------------------------------------------------------------------
LEMMA ChunkMarkdownStep ==
    ASSUME NEW s \in Seq(Chars), NEW n \in Nat \ {0}, ChunkMarkdown(s, n)
    PROVE  SplitInv'
<1>0. PICK a \in 1..(Len(s) + 1) : \E b \in (a - 1)..Len(s) : body' = SubSeq(s, a, b)
  BY DEF ChunkMarkdown
<1>1. PICK b \in (a - 1)..Len(s) : body' = SubSeq(s, a, b)
  BY <1>0
<1>2. body' \in Seq(Chars)
  <2>1. a \in Nat \ {0} /\ b \in Int /\ a - 1 <= b /\ b <= Len(s)
    OBVIOUS
  <2> QED BY <1>1, <2>1, SliceIs
<1>3. /\ size' = n /\ next' = 1 /\ cur' = <<>> /\ out' = <<>> /\ from' = 1 /\ cuts' = <<>>
      /\ mode' = IF body' = <<>> THEN "done" ELSE "lines"
  BY DEF ChunkMarkdown
<1>4. PICK t \in Seq(Chars) : t = body'
  BY <1>2
<1>5. Packed(<<>>, <<>>, t, n, 1) /\ KeptBefore(1, <<>>, t, n)
  BY PackedFrom DEF Packed
<1>6. LinesInHand(t, n, <<>>, 1, 1)
  BY DEF LinesInHand, LineBegins
<1>7. PiecesFit(<<>>, <<>>, t, n) /\ <<>> \in Seq(Chars) /\ <<>> \in Seq(Seq(Chars))
  BY <1>5, EmptySeq DEF Packed
<1>8. t = <<>> => Len(t) + 1 = 1
  BY EmptySeq
<1> QED BY <1>3, <1>4, <1>5, <1>6, <1>7, <1>8 DEF SplitInv

LEMMA PostStep == ASSUME SplitInv, Post PROVE SplitInv'
<1>1. PICK s \in Contents, n \in Sizes : ChunkMarkdown(s, n)
  BY DEF Post
<1> QED BY <1>1, ChunkMarkdownStep, SplittingAssumption

LEMMA ShowRecordStep == ASSUME SplitInv, ShowRecord PROVE SplitInv'
<1>1. PICK s \in Contents, budget \in Sizes :
         \/ mode' = "done" /\ UNCHANGED <<body, size, next, cur, rest, out, from, cuts>>
         \/ ChunkMarkdown(s, budget)
  BY DEF ShowRecord
<1>2. CASE mode' = "done" /\ UNCHANGED <<body, size, next, cur, rest, out, from, cuts>>
  <2>1. /\ body = <<>> /\ out = <<>> /\ cuts = <<>> /\ cur = <<>> /\ size \in Nat \ {0}
        /\ body \in Seq(Chars)
    BY DEF SplitInv, ShowRecord
  <2>2. KeptBefore(1, <<>>, body, size) /\ Len(body) + 1 = 1
    <3>1. Packed(<<>>, <<>>, body, size, 1)
      BY <2>1, PackedFrom
    <3>2. Len(body) = 0
      BY <2>1, EmptySeq
    <3> QED BY <3>1, <3>2 DEF Packed
  <2> QED BY <1>2, <2>1, <2>2 DEF SplitInv
<1>3. CASE ChunkMarkdown(s, budget)
  BY <1>3, ChunkMarkdownStep, SplittingAssumption
<1> QED BY <1>1, <1>2, <1>3

LEMMA OverflowStep == ASSUME SplitInv, Overflow PROVE SplitInv'
<1>1. PICK n \in Sizes : ChunkMarkdown(cur, n)
  BY DEF Overflow
<1>2. cur \in Seq(Chars) /\ n \in Nat \ {0}
  BY SplittingAssumption DEF SplitInv
<1> QED BY <1>1, <1>2, ChunkMarkdownStep

LEMMA ShowFirstStep == ASSUME SplitInv, ShowFirst PROVE SplitInv'
BY DEF SplitInv, ShowFirst

LEMMA JoinStep == ASSUME SplitInv, Join PROVE SplitInv'
<1>1. /\ mode = "join" /\ next <= Len(out) /\ next \in Nat /\ next >= 2
      /\ cur \in Seq(Chars) /\ out \in Seq(Seq(Chars))
      /\ cur' = IF next = 2 THEN out[next] ELSE cur \o <<Newline>> \o out[next]
      /\ next' = next + 1 /\ UNCHANGED <<mode, body, size, out, cuts>>
  BY DEF Join, SplitInv
<1>2. out[next] \in Seq(Chars)
  <2>1. next \in 1..Len(out)
    BY <1>1
  <2> QED BY <1>1, <2>1, ElementOfSeq
<1>3. <<Newline>> \in Seq(Chars)
  BY TextAssumption
<1>4. cur \o <<Newline>> \o out[next] \in Seq(Chars)
  <2>1. cur \o <<Newline>> \in Seq(Chars)
    BY <1>1, <1>3, ConcatProperties
  <2> QED BY <1>2, <2>1, ConcatProperties
<1>5. cur' \in Seq(Chars)
  BY <1>1, <1>2, <1>4
<1> QED BY <1>1, <1>5 DEF SplitInv

LEMMA FlushStep == ASSUME SplitInv, Flush PROVE SplitInv'
<1>1. /\ mode = "lines" /\ cur # <<>> /\ cur' = <<>>
      /\ UNCHANGED <<mode, body, size, next, from>>
  BY DEF Flush
<1>2. /\ body \in Seq(Chars) /\ size \in Nat \ {0} /\ next \in Nat /\ cur \in Seq(Chars)
      /\ LinesInHand(body, size, cur, from, next) /\ Packed(out, cuts, body, size, from)
  BY <1>1 DEF SplitInv
<1>3. PICK k \in 0..Len(cur) :
         /\ \A i \in (k + 1)..Len(cur) : cur[i] = Newline
         /\ IF Blank(SubSeq(cur, 1, k)) THEN UNCHANGED <<out, cuts>>
            ELSE Deliver(SubSeq(cur, 1, k), from)
  BY DEF Flush
<1>4. PICK chunk : chunk = SubSeq(cur, 1, k)
  OBVIOUS
<1>5. /\ Blank(chunk) => Packed(out, cuts, body, size, next)
      /\ ~Blank(chunk) =>
            Packed(Append(out, chunk), Append(cuts, <<from, from + Len(chunk) - 1>>), body, size, next)
  BY <1>1, <1>2, <1>3, <1>4, PieceIsFlushed
<1>6. PICK o, c : o = out' /\ c = cuts' /\ Packed(o, c, body, size, next)
  BY <1>3, <1>4, <1>5 DEF Deliver
<1>7. LinesInHand(body, size, <<>>, from, next)
  BY <1>2 DEF LinesInHand
<1>8. o \in Seq(Seq(Chars)) /\ PiecesFit(o, c, body, size) /\ <<>> \in Seq(Chars)
  BY <1>6, EmptySeq DEF Packed
<1> QED BY <1>1, <1>2, <1>6, <1>7, <1>8 DEF SplitInv

LEMMA AddLineStep == ASSUME SplitInv, AddLine PROVE SplitInv'
<1>1. PICK e \in (next - 1)..Len(body) :
         /\ LineEnds(e) /\ e - next + 1 <= size /\ Fits(e)
         /\ cur' = IF cur = <<>> THEN SubSeq(body, next, e)
                   ELSE cur \o <<Newline>> \o SubSeq(body, next, e)
         /\ next' = e + 2
  BY DEF AddLine
<1>2. /\ mode = "lines" /\ from' = (IF cur = <<>> THEN next ELSE from)
      /\ UNCHANGED <<mode, body, size, out, cuts>>
  BY DEF AddLine
<1>3. /\ body \in Seq(Chars) /\ size \in Nat \ {0} /\ next \in Nat /\ cur \in Seq(Chars)
      /\ out \in Seq(Seq(Chars)) /\ PiecesFit(out, cuts, body, size)
      /\ LinesInHand(body, size, cur, from, next)
      /\ cur = <<>> => Packed(out, cuts, body, size, next)
      /\ cur # <<>> => Packed(out, cuts, body, size, from)
  BY <1>2 DEF SplitInv
<1>4. LineTo(body, next, e)
  BY <1>1 DEF LineEnds, LineTo
<1>5. e + 2 \in Nat
  BY <1>3
<1>6. CASE cur = <<>>
  <2>1. PICK piece : piece = SubSeq(body, next, e)
    OBVIOUS
  <2>2. /\ LinesInHand(body, size, piece, next, e + 2) /\ piece \in Seq(Chars)
        /\ piece = <<>> => Packed(out, cuts, body, size, e + 2)
        /\ piece # <<>> => Packed(out, cuts, body, size, next)
    BY <1>1, <1>3, <1>4, <1>6, <2>1, LineStarts
  <2>3. cur' = piece /\ next' = e + 2 /\ from' = next
    BY <1>1, <1>2, <1>6, <2>1
  <2> QED BY <1>2, <1>3, <1>5, <2>2, <2>3 DEF SplitInv
<1>7. CASE cur # <<>>
  <2>1. PICK longer : longer = cur \o <<Newline>> \o SubSeq(body, next, e)
    OBVIOUS
  <2>2. Len(cur) + 1 + (e - next + 1) <= size
    BY <1>1, <1>7 DEF Fits
  <2>3. longer # <<>> /\ longer \in Seq(Chars) /\ LinesInHand(body, size, longer, from, e + 2)
    BY <1>3, <1>4, <1>7, <2>1, <2>2, LineIsAdded
  <2>4. cur' = longer /\ next' = e + 2 /\ from' = from
    BY <1>1, <1>2, <1>7, <2>1
  <2> QED BY <1>2, <1>3, <1>5, <1>7, <2>3, <2>4 DEF SplitInv
<1> QED BY <1>6, <1>7

LEMMA BreakLineStep == ASSUME SplitInv, BreakLine PROVE SplitInv'
<1>1. PICK e \in (next - 1)..Len(body) :
         /\ LineEnds(e) /\ e - next + 1 > size
         /\ rest' = SubSeq(body, next, e) /\ next' = e + 2
  BY DEF BreakLine
<1>2. /\ mode = "lines" /\ cur = <<>> /\ from' = next /\ mode' = "words"
      /\ UNCHANGED <<body, size, cur, out, cuts>>
  BY DEF BreakLine
<1>3. /\ body \in Seq(Chars) /\ size \in Nat \ {0} /\ next \in Nat /\ cur \in Seq(Chars)
      /\ out \in Seq(Seq(Chars)) /\ PiecesFit(out, cuts, body, size)
      /\ LineBegins(body, next) /\ Packed(out, cuts, body, size, next)
  BY <1>2 DEF SplitInv, LinesInHand
<1>4. LineTo(body, next, e) /\ e + 2 \in Nat
  BY <1>1, <1>3 DEF LineEnds, LineTo
<1>5. PICK r : r = SubSeq(body, next, e)
  OBVIOUS
<1>6. LineInHand(body, size, r, next, e + 2)
  BY <1>1, <1>3, <1>4, <1>5, LineIsBroken
<1> QED BY <1>1, <1>2, <1>3, <1>4, <1>5, <1>6 DEF SplitInv

(* Within a line too long for a piece. *)
LEMMA WordsStep ==
    ASSUME SplitInv, mode = "words", UNCHANGED <<mode, body, size, next, cur>>,
           NEW r, NEW f, rest' = r, from' = f, LineInHand(body, size, r, f, next),
           NEW o, NEW c, out' = o, cuts' = c, Packed(o, c, body, size, f)
    PROVE  SplitInv'
<1>1. o \in Seq(Seq(Chars)) /\ PiecesFit(o, c, body, size)
  BY DEF Packed
<1> QED BY <1>1 DEF SplitInv

LEMMA SplitAtBlankStep == ASSUME SplitInv, SplitAtBlank PROVE SplitInv'
<1>1. PICK i \in 1..size : LastBlank(i, size) /\ SplitAround(i)
  BY DEF SplitAtBlank
<1>2. /\ mode = "words" /\ Len(rest) > size /\ UNCHANGED <<mode, body, size, next, cur>>
  BY <1>1 DEF SplitAtBlank, SplitAround
<1>3. /\ body \in Seq(Chars) /\ size \in Nat \ {0} /\ rest \in Seq(Chars)
      /\ LineInHand(body, size, rest, from, next) /\ Packed(out, cuts, body, size, from)
  <2>1. /\ body \in Seq(Chars) /\ size \in Nat \ {0}
        /\ LineInHand(body, size, rest, from, next) /\ Packed(out, cuts, body, size, from)
    BY <1>2 DEF SplitInv
  <2>2. rest \in Seq(Chars)
    BY <2>1, LineHeld
  <2> QED BY <2>1, <2>2
<1>4. PICK k \in 0..(i - 1) :
         /\ \A j \in (k + 1)..(i - 1) : rest[j] = Space
         /\ Deliver(SubSeq(rest, 1, k), from)
  BY <1>1 DEF SplitAround
<1>5. PICK skip \in i..Len(rest) :
         /\ \A j \in i..skip : rest[j] = Space
         /\ rest' = SubSeq(rest, skip + 1, Len(rest)) /\ from' = from + skip
  BY <1>1 DEF SplitAround
<1>6. PICK piece : piece = SubSeq(rest, 1, k) /\ Beginning(piece, rest, k)
  BY DEF Beginning
<1>7. Gap(rest, k + 1, skip)
  BY <1>4, <1>5 DEF Gap
<1>8. i - 1 >= Half(size) /\ size < Len(rest)
  BY <1>1, <1>2, <1>3 DEF LastBlank
<1>9. Packed(Append(out, piece), Append(cuts, <<from, from + Len(piece) - 1>>), body, size, from + skip)
  BY <1>3, <1>6, <1>7, <1>8, LineIsSplit
<1>10. PICK r : r = SubSeq(rest, skip + 1, Len(rest))
  OBVIOUS
<1>11. LineInHand(body, size, r, from + skip, next)
  <2>1. skip \in 1..Len(rest)
    OBVIOUS
  <2> QED BY <1>3, <1>10, <2>1, RestOfLine
<1>12. /\ out' = Append(out, piece)
       /\ cuts' = Append(cuts, <<from, from + Len(piece) - 1>>)
  BY <1>4, <1>6 DEF Deliver
<1> QED BY <1>2, <1>5, <1>9, <1>10, <1>11, <1>12, WordsStep

LEMMA SplitAnywhereStep == ASSUME SplitInv, SplitAnywhere PROVE SplitInv'
<1>1. /\ mode = "words" /\ Len(rest) > size
      /\ \A i \in 1..size : rest[i] = Space => i - 1 < Half(size)
      /\ Deliver(SubSeq(rest, 1, size), from)
      /\ rest' = SubSeq(rest, size + 1, Len(rest)) /\ from' = from + size
      /\ UNCHANGED <<mode, body, size, next, cur>>
  BY DEF SplitAnywhere
<1>2. /\ body \in Seq(Chars) /\ size \in Nat \ {0}
      /\ LineInHand(body, size, rest, from, next) /\ Packed(out, cuts, body, size, from)
  BY <1>1 DEF SplitInv
<1>3. PICK piece : piece = SubSeq(rest, 1, size) /\ Beginning(piece, rest, size)
  BY DEF Beginning
<1>4. size \in 1..Len(rest) /\ size < Len(rest) /\ rest \in Seq(Chars)
  <2>1. Len(rest) \in Nat /\ rest \in Seq(Chars)
    BY <1>2, LineHeld, LenProperties
  <2> QED BY <1>1, <1>2, <2>1
<1>5. Packed(Append(out, piece), Append(cuts, <<from, from + Len(piece) - 1>>), body, size, from + size)
  BY <1>1, <1>2, <1>3, <1>4, LineIsSplitAnywhere
<1>6. PICK r : r = SubSeq(rest, size + 1, Len(rest))
  OBVIOUS
<1>7. LineInHand(body, size, r, from + size, next)
  BY <1>2, <1>4, <1>6, RestOfLine
<1>8. /\ out' = Append(out, piece)
      /\ cuts' = Append(cuts, <<from, from + Len(piece) - 1>>)
  BY <1>1, <1>3 DEF Deliver
<1> QED BY <1>1, <1>5, <1>6, <1>7, <1>8, WordsStep

LEMMA EndLineStep == ASSUME SplitInv, EndLine PROVE SplitInv'
<1>1. /\ mode = "words" /\ Len(rest) <= size /\ mode' = "lines"
      /\ IF Blank(rest) THEN UNCHANGED <<out, cuts>> ELSE Deliver(rest, from)
      /\ UNCHANGED <<body, size, next, cur, from>>
  BY DEF EndLine
<1>2. /\ body \in Seq(Chars) /\ size \in Nat \ {0} /\ next \in Nat /\ cur = <<>> /\ cur \in Seq(Chars)
      /\ LineInHand(body, size, rest, from, next) /\ Packed(out, cuts, body, size, from)
  BY <1>1 DEF SplitInv
<1>3. /\ Blank(rest) => Packed(out, cuts, body, size, next)
      /\ ~Blank(rest) =>
            Packed(Append(out, rest), Append(cuts, <<from, from + Len(rest) - 1>>), body, size, next)
  BY <1>1, <1>2, LineIsEnded
<1>4. PICK o, c : o = out' /\ c = cuts' /\ Packed(o, c, body, size, next)
  BY <1>1, <1>3 DEF Deliver
<1>5. o \in Seq(Seq(Chars)) /\ PiecesFit(o, c, body, size)
  BY <1>4 DEF Packed
<1>6. LinesInHand(body, size, <<>>, from, next)
  BY <1>2 DEF LinesInHand, LineInHand
<1> QED BY <1>1, <1>2, <1>4, <1>5, <1>6 DEF SplitInv

LEMMA FinishStep == ASSUME SplitInv, Finish PROVE SplitInv'
<1>1. /\ mode = "lines" /\ cur = <<>> /\ next > Len(body) + 1 /\ mode' = "done"
      /\ UNCHANGED <<body, size, next, cur, out, cuts>>
  BY DEF Finish
<1>2. /\ body \in Seq(Chars) /\ size \in Nat \ {0} /\ next \in Nat /\ cur \in Seq(Chars)
      /\ out \in Seq(Seq(Chars)) /\ PiecesFit(out, cuts, body, size)
      /\ Packed(out, cuts, body, size, next)
  BY <1>1 DEF SplitInv
<1>3. KeptBefore(Len(body) + 1, cuts, body, size)
  <2>1. \A a \in 1..Len(body) : a \in 1..(next - 1)
    BY <1>1, <1>2
  <2>2. Len(body) + 1 - 1 = Len(body)
    BY <1>2
  <2>3. KeptBefore(next, cuts, body, size)
    BY <1>2 DEF Packed
  <2>4. ASSUME NEW a \in 1..Len(body), NEW b \in a..Len(body), Uncut(body, size, a, b)
        PROVE  \E i \in 1..Len(cuts) : cuts[i][1] <= a /\ b <= cuts[i][2]
    BY <2>1, <2>3, <2>4 DEF KeptBefore
  <2> QED BY <2>2, <2>4 DEF KeptBefore
<1> QED BY <1>1, <1>2, <1>3 DEF SplitInv

LEMMA SplitInvariant == SplitSpec => []SplitInv
<1>1. SplitInit => SplitInv
  <2>1. <<>> \in Seq(Chars) /\ <<>> \in Seq(Seq(Chars)) /\ Packed(<<>>, <<>>, <<>>, 1, 1)
    <3>1. <<>> \in Seq(Chars) /\ <<>> \in Seq(Seq(Chars)) /\ 1 \in Nat \ {0}
      BY EmptySeq
    <3> QED BY <3>1, PackedFrom
  <2>2. PiecesFit(<<>>, <<>>, <<>>, 1)
    BY <2>1 DEF Packed
  <2> QED BY <2>1, <2>2 DEF SplitInit, SplitInv
<1>2. SplitInv /\ [SplitNext]_splitVars => SplitInv'
  <2> SUFFICES ASSUME SplitInv, [SplitNext]_splitVars PROVE SplitInv'
    OBVIOUS
  <2>1. CASE UNCHANGED splitVars
    BY <2>1 DEF splitVars, SplitInv
  <2>2. CASE SplitNext
    BY <2>2, PostStep, ShowRecordStep, FlushStep, AddLineStep, BreakLineStep, SplitAtBlankStep,
       SplitAnywhereStep, EndLineStep, FinishStep, ShowFirstStep, JoinStep, OverflowStep
       DEF SplitNext
  <2> QED BY <2>1, <2>2
<1> QED BY <1>1, <1>2, PTL DEF SplitSpec

(* Whatever the text and the size, the pieces fit and are parts of the text *)
(* in its order, and when all is done every letter, every line that fits    *)
(* and every word of half a piece is in one (ChunkMarkdown and SplitWords,  *)
(* of a text, of a record shown and of what its embed does not hold).       *)
THEOREM MessagesAreWhole == SplitSpec => []MessagesWhole
<1>1. SplitInv => MessagesWhole
  BY DEF SplitInv, MessagesWhole
<1> QED BY <1>1, SplitInvariant, PTL
-----------------------------------------------------------------------------
(* Where the letters asked for are: in the embed and in what is being cut;  *)
(* while pieces are joined, in the embed, the pieces joined and the others. *)
LettersInv ==
    /\ asked \in Seq(Chars) /\ embed \in Seq(Chars)
    /\ mode = "idle" => embed = <<>>
    /\ mode \in {"lines", "words", "done"} => Letters(embed) \o Letters(body) = Letters(asked)
    /\ mode = "done" => AllLetters(out) = Letters(body)
    /\ pass = "embed" /\ mode \in {"lines", "words"} => embed = <<>>
    /\ pass = "embed" /\ mode = "done" => embed = <<>> \/ out = <<>>
    /\ mode = "join" =>
          /\ next \in 2..(Len(out) + 1) /\ AllLetters(out) = Letters(asked)
          /\ Letters(embed) \o Letters(cur) = AllLetters(SubSeq(out, 1, next - 1))
          /\ next = 2 => cur = <<>>

(* What ChunkMarkdown is called with keeps its letters without the space around. *)
LEMMA ChunkLetters ==
    ASSUME NEW s \in Seq(Chars), NEW n, ChunkMarkdown(s, n)
    PROVE  /\ Letters(body') = Letters(s) /\ mode' \in {"lines", "done"}
           /\ mode' = "done" => AllLetters(out') = Letters(body')
<1>1. PICK a \in 1..(Len(s) + 1) : \E b \in (a - 1)..Len(s) :
         /\ \A i \in 1..Len(s) : i < a \/ i > b => s[i] \in White
         /\ body' = SubSeq(s, a, b)
  BY DEF ChunkMarkdown
<1>2. PICK b \in (a - 1)..Len(s) :
         /\ \A i \in 1..Len(s) : i < a \/ i > b => s[i] \in White
         /\ body' = SubSeq(s, a, b)
  BY <1>1
<1>3. Letters(SubSeq(s, a, b)) = Letters(s)
  BY <1>2, LettersStay
<1>4. out' = <<>> /\ mode' = IF body' = <<>> THEN "done" ELSE "lines"
  BY DEF ChunkMarkdown
<1>5. body' = <<>> => AllLetters(<<>>) = Letters(body')
  <2>1. AllLetters(<<>>) = Letters(<<>>)
    BY Zenon, AllOfNone, NoLetters
  <2> QED BY <2>1
<1>6. mode' = "done" => body' = <<>>
  BY <1>4
<1>7. Letters(body') = Letters(s)
  BY <1>2, <1>3
<1> QED BY <1>4, <1>5, <1>6, <1>7

LEMMA LettersAfterNone ==
    ASSUME NEW s \in Seq(Chars) PROVE Letters(<<>>) \o Letters(s) = Letters(s)
<1>1. Letters(s) \in Seq(Chars)
  BY LettersTyped
<1> QED BY <1>1, NoLetters, ConcatEmptySeq

(* A text is cut for the first time. *)
LEMMA LettersBegin ==
    ASSUME SplitInv', NEW s \in Seq(Chars), NEW n, ChunkMarkdown(s, n), asked' = s, embed' = <<>>
    PROVE  LettersInv'
<1>1. /\ Letters(body') = Letters(s) /\ mode' \in {"lines", "done"}
      /\ mode' = "done" => AllLetters(out') = Letters(body')
  BY ChunkLetters
<1>2. PICK t \in Seq(Chars) : t = body'
  BY DEF SplitInv
<1>3. Letters(<<>>) \o Letters(t) = Letters(t)
  BY LettersAfterNone
<1>4. Letters(embed') \o Letters(body') = Letters(asked')
  BY <1>1, <1>2, <1>3
<1>5. <<>> \in Seq(Chars)
  BY EmptySeq
<1>6. mode' # "idle" /\ mode' # "join"
  BY <1>1
<1>7. asked' \in Seq(Chars) /\ embed' \in Seq(Chars)
  BY <1>5
<1> QED BY Zenon, <1>1, <1>4, <1>6, <1>7 DEF LettersInv

LEMMA LettersPost == ASSUME SplitInv, SplitInv', LettersInv, Post PROVE LettersInv'
<1>1. PICK s \in Contents, n \in Sizes : ChunkMarkdown(s, n) /\ asked' = s
  BY DEF Post
<1>2. embed' = <<>>
  BY DEF Post, LettersInv
<1>3. s \in Seq(Chars)
  BY SplittingAssumption
<1> QED BY <1>1, <1>2, <1>3, LettersBegin

LEMMA LettersShow == ASSUME SplitInv, SplitInv', LettersInv, ShowRecord PROVE LettersInv'
<1>1. PICK s \in Contents, budget \in Sizes :
         /\ asked' = s
         /\ \/ /\ embed' = s /\ mode' = "done"
               /\ UNCHANGED <<body, size, next, cur, rest, out, from, cuts>>
            \/ ChunkMarkdown(s, budget) /\ embed' = <<>>
  BY DEF ShowRecord
<1>2. s \in Seq(Chars)
  BY SplittingAssumption
<1>3. CASE /\ embed' = s /\ mode' = "done"
           /\ UNCHANGED <<body, size, next, cur, rest, out, from, cuts>>
  <2>1. body' = <<>> /\ out' = <<>>
    BY <1>3 DEF SplitInv, ShowRecord
  <2>2. AllLetters(<<>>) = Letters(<<>>) /\ Letters(<<>>) = <<>>
    BY Zenon, AllOfNone, NoLetters
  <2>3. Letters(s) \o <<>> = Letters(s)
    BY <1>2, LettersTyped, ConcatEmptySeq
  <2>4. Letters(embed') \o Letters(body') = Letters(asked') /\ AllLetters(out') = Letters(body')
    BY <1>1, <1>3, <2>1, <2>2, <2>3
  <2>5. mode' = "done" /\ mode' # "idle" /\ mode' # "join" /\ mode' # "lines" /\ mode' # "words"
    BY <1>3
  <2>6. asked' \in Seq(Chars) /\ embed' \in Seq(Chars)
    BY <1>1, <1>2, <1>3
  <2> QED BY Zenon, <2>1, <2>4, <2>5, <2>6 DEF LettersInv
<1>4. CASE ChunkMarkdown(s, budget) /\ embed' = <<>>
  BY <1>1, <1>2, <1>4, LettersBegin
<1> QED BY <1>1, <1>3, <1>4

(* While a text is being cut nothing moves but its pieces. *)
LEMMA LettersPack ==
    ASSUME LettersInv, UNCHANGED <<pass, body, asked, embed>>,
           mode \in {"lines", "words"}, mode' \in {"lines", "words"}
    PROVE  LettersInv'
BY DEF LettersInv

LEMMA LettersFinish == ASSUME SplitInv, LettersInv, Finish PROVE LettersInv'
<1>1. /\ mode = "lines" /\ cur = <<>> /\ next > Len(body) + 1 /\ mode' = "done"
      /\ UNCHANGED <<pass, body, out, asked, embed>>
  BY DEF Finish
<1>2. body \in Seq(Chars) /\ next \in Nat /\ Arrived(out, body, next)
  BY <1>1 DEF SplitInv, Packed
<1>3. next > Len(body)
  BY <1>1, <1>2, LenProperties
<1>4. AllLetters(out) = Letters(body)
  BY <1>2, <1>3, ArrivedAll
<1> QED BY <1>1, <1>4 DEF LettersInv

LEMMA LettersFirst == ASSUME SplitInv, LettersInv, ShowFirst PROVE LettersInv'
<1>1. /\ mode = "done" /\ pass = "embed" /\ next' = 2
      /\ embed' = (IF out = <<>> THEN asked ELSE Head(out))
      /\ mode' = (IF out = <<>> THEN mode ELSE "join")
      /\ UNCHANGED <<pass, body, cur, out, asked>>
  BY DEF ShowFirst
<1>2. /\ asked \in Seq(Chars) /\ embed \in Seq(Chars) /\ AllLetters(out) = Letters(body)
      /\ Letters(embed) \o Letters(body) = Letters(asked) /\ (embed = <<>> \/ out = <<>>)
  BY <1>1 DEF LettersInv
<1>3. cur = <<>> /\ out \in Seq(Seq(Chars)) /\ body \in Seq(Chars)
  BY <1>1 DEF SplitInv
<1>4. CASE out = <<>>
  <2>1. Letters(body) = <<>>
    BY Zenon, <1>2, <1>4, AllOfNone
  <2>2. Letters(asked) \o <<>> = Letters(asked)
    BY <1>2, LettersTyped, ConcatEmptySeq
  <2>3. embed' = asked /\ mode' = "done" /\ mode' # "idle" /\ mode' # "join" /\ out' = <<>>
        /\ body' = body /\ asked' = asked /\ mode' # "lines" /\ mode' # "words"
    BY <1>1, <1>4
  <2>4. Letters(embed') \o Letters(body') = Letters(asked')
    BY <2>1, <2>2, <2>3
  <2>5. AllLetters(out') = Letters(body')
    BY <1>1, <1>2
  <2> QED BY Zenon, <1>2, <2>3, <2>4, <2>5 DEF LettersInv
<1>5. CASE out # <<>>
  <2>1. embed = <<>>
    BY <1>2, <1>5
  <2>2. AllLetters(out) = Letters(asked)
    BY <1>2, <1>3, <2>1, LettersAfterNone
  <2>3. PICK k \in Nat \ {0} : k = Len(out)
    BY <1>3, <1>5, EmptySeq, LenProperties
  <2>4. PICK x \in Seq(Chars) : x = Head(out) /\ x = out[1]
    <3>1. 1 \in 1..Len(out)
      BY <2>3
    <3>2. out[1] \in Seq(Chars)
      BY <1>3, <3>1, ElementOfSeq
    <3>3. Head(out) = out[1]
      OBVIOUS
    <3> QED BY <3>2, <3>3
  <2>5. SubSeq(out, 1, 1) = <<x>>
    <3> DEFINE S == Seq(Chars)
    <3>1. out \in Seq(S) /\ 1 \in 1..Len(out)
      BY <1>3, <2>3
    <3>2. x \in S
      BY <2>4
    <3> HIDE DEF S
    <3>3. PICK p : p = SubSeq(out, 1, 1)
      OBVIOUS
    <3>4. p \in Seq(S) /\ Len(p) = 1 /\ p[1] = x
      BY <2>4, <3>1, <3>3
    <3>5. <<x>> \in Seq(S) /\ Len(<<x>>) = 1 /\ <<x>>[1] = x
      BY <3>2
    <3>6. \A i \in 1..Len(p) : p[i] = <<x>>[i]
      BY <3>4, <3>5
    <3>7. p = <<x>>
      BY <3>4, <3>5, <3>6, SeqEqual
    <3> QED BY <3>3, <3>7
  <2>6. AllLetters(<<x>>) = Letters(x) /\ Letters(x) \o Letters(<<>>) = Letters(x)
    BY AllOfOne, NoLetters, LettersTyped, ConcatEmptySeq
  <2>7. /\ embed' = x /\ cur' = <<>> /\ next' = 2 /\ mode' = "join" /\ out' = out /\ asked' = asked
        /\ mode' # "idle" /\ mode' # "lines" /\ mode' # "words" /\ mode' # "done"
    BY <1>1, <1>3, <1>5, <2>4
  <2>8. next' \in 2..(Len(out') + 1) /\ next' - 1 = 1
    BY <2>3, <2>7
  <2>9. Letters(embed') \o Letters(cur') = AllLetters(SubSeq(out', 1, next' - 1))
    BY <2>5, <2>6, <2>7, <2>8
  <2>10. asked' \in Seq(Chars) /\ embed' \in Seq(Chars) /\ AllLetters(out') = Letters(asked')
    BY <1>2, <2>2, <2>7
  <2> QED BY Zenon, <2>7, <2>8, <2>9, <2>10 DEF LettersInv
<1> QED BY <1>4, <1>5

LEMMA LettersJoined == ASSUME SplitInv, LettersInv, Join PROVE LettersInv'
<1>1. /\ mode = "join" /\ next <= Len(out) /\ next' = next + 1 /\ mode' = "join"
      /\ cur' = (IF next = 2 THEN out[next] ELSE cur \o <<Newline>> \o out[next])
      /\ UNCHANGED <<pass, body, out, asked, embed>>
  BY DEF Join
<1>2. /\ asked \in Seq(Chars) /\ embed \in Seq(Chars)
      /\ next \in 2..(Len(out) + 1) /\ AllLetters(out) = Letters(asked)
      /\ Letters(embed) \o Letters(cur) = AllLetters(SubSeq(out, 1, next - 1))
      /\ next = 2 => cur = <<>>
  BY <1>1 DEF LettersInv
<1>3. cur \in Seq(Chars) /\ out \in Seq(Seq(Chars))
  BY DEF SplitInv
<1>4. PICK k \in Nat, l \in Nat : k = Len(out) /\ l = next /\ l \in 2..k
  BY <1>1, <1>2, <1>3, LenProperties
<1>5. PICK x \in Seq(Chars) : x = out[l]
  <2>1. l \in 1..Len(out)
    BY <1>4
  <2> QED BY <1>3, <2>1, ElementOfSeq
<1>6. Letters(cur') = Letters(cur) \o Letters(x)
  <2>1. CASE l = 2
    BY <1>1, <1>2, <1>4, <1>5, <2>1, LettersAfterNone
  <2>2. CASE l # 2
    <3>1. PICK w \in Seq(Chars) : w = <<Newline>> /\ Blank(w)
      <4>1. <<Newline>> \in Seq(Chars)
        BY TextAssumption
      <4>2. Blank(<<Newline>>)
        BY DEF Blank, White
      <4> QED BY <4>1, <4>2
    <3>2. PICK c \in Seq(Chars) : c = cur \o w /\ Letters(c) = Letters(cur)
      <4>1. cur \o w \in Seq(Chars)
        BY <1>3, ConcatProperties
      <4>2. Letters(cur \o w) = Letters(cur) \o Letters(w)
        BY <1>3, LettersJoin
      <4>3. Letters(w) = <<>>
        BY <3>1, LettersOfBlank
      <4>4. Letters(cur) \o <<>> = Letters(cur)
        BY <1>3, LettersTyped, ConcatEmptySeq
      <4> QED BY <4>1, <4>2, <4>3, <4>4
    <3>3. Letters(c \o x) = Letters(c) \o Letters(x)
      BY LettersJoin
    <3>4. cur' = c \o x
      BY <1>1, <1>4, <1>5, <2>2, <3>1, <3>2
    <3> QED BY <3>2, <3>3, <3>4
  <2> QED BY <2>1, <2>2
<1>7. PICK p \in Seq(Seq(Chars)) : p = SubSeq(out, 1, l - 1) /\ Append(p, x) = SubSeq(out, 1, l)
  <2> DEFINE S == Seq(Chars)
  <2>1. out \in Seq(S) /\ l \in 1..Len(out) /\ x = out[l]
    BY <1>3, <1>4, <1>5
  <2> HIDE DEF S
  <2>2. SubSeq(out, 1, l - 1) \in Seq(S) /\ Append(SubSeq(out, 1, l - 1), x) = SubSeq(out, 1, l)
    BY <2>1
  <2> QED BY <2>2 DEF S
<1>8. AllLetters(SubSeq(out, 1, l)) = Letters(embed) \o Letters(cur')
  <2>1. AllLetters(Append(p, x)) = AllLetters(p) \o Letters(x)
    BY AllAppend
  <2>2. AllLetters(p) = Letters(embed) \o Letters(cur)
    BY <1>2, <1>4, <1>7
  <2>3. (Letters(embed) \o Letters(cur)) \o Letters(x) = Letters(embed) \o (Letters(cur) \o Letters(x))
    <3>1. Letters(embed) \in Seq(Chars) /\ Letters(cur) \in Seq(Chars) /\ Letters(x) \in Seq(Chars)
      BY <1>2, <1>3, LettersTyped
    <3>2. Regroup(Letters(embed), Letters(cur), Letters(x))
      BY <3>1, TextsRegroup
    <3> QED BY <3>2 DEF Regroup
  <2> QED BY <1>6, <1>7, <2>1, <2>2, <2>3
<1>9. next' - 1 = l /\ next' \in 2..(Len(out') + 1) /\ next' # 2
  BY <1>1, <1>4
<1>10. Letters(embed') \o Letters(cur') = AllLetters(SubSeq(out', 1, next' - 1))
  BY <1>1, <1>8, <1>9
<1>11. mode' # "idle" /\ mode' # "lines" /\ mode' # "words" /\ mode' # "done"
  BY <1>1
<1>12. asked' \in Seq(Chars) /\ embed' \in Seq(Chars) /\ AllLetters(out') = Letters(asked')
  BY <1>1, <1>2
<1> QED BY Zenon, <1>9, <1>10, <1>11, <1>12 DEF LettersInv

LEMMA LettersOver == ASSUME SplitInv, SplitInv', LettersInv, Overflow PROVE LettersInv'
<1>1. PICK n \in Sizes : ChunkMarkdown(cur, n)
  BY DEF Overflow
<1>2. /\ mode = "join" /\ next > Len(out) /\ pass' = "overflow" /\ asked' = asked /\ embed' = embed
  BY DEF Overflow
<1>3. cur \in Seq(Chars) /\ out \in Seq(Seq(Chars))
  BY DEF SplitInv
<1>4. /\ asked \in Seq(Chars) /\ embed \in Seq(Chars)
      /\ next \in 2..(Len(out) + 1) /\ AllLetters(out) = Letters(asked)
      /\ Letters(embed) \o Letters(cur) = AllLetters(SubSeq(out, 1, next - 1))
  BY <1>2 DEF LettersInv
<1>5. next - 1 = Len(out)
  BY <1>2, <1>3, <1>4, LenProperties
<1>6. SubSeq(out, 1, Len(out)) = out
  BY <1>3, SubSeqFull
<1>7. /\ Letters(body') = Letters(cur) /\ mode' \in {"lines", "done"}
      /\ mode' = "done" => AllLetters(out') = Letters(body')
  BY <1>1, <1>3, ChunkLetters
<1>8. Letters(embed') \o Letters(body') = Letters(asked')
  BY <1>2, <1>4, <1>5, <1>6, <1>7
<1>9. mode' # "idle" /\ mode' # "join" /\ pass' # "embed"
  BY <1>2, <1>7
<1>10. asked' \in Seq(Chars) /\ embed' \in Seq(Chars)
  BY <1>2, <1>4
<1> QED BY Zenon, <1>7, <1>8, <1>9, <1>10 DEF LettersInv

LEMMA LettersStep ==
    ASSUME SplitInv, SplitInv', LettersInv, [SplitNext]_splitVars
    PROVE  LettersInv'
<1>1. CASE UNCHANGED splitVars
  BY <1>1 DEF splitVars, LettersInv
<1>2. CASE Flush \/ AddLine \/ BreakLine \/ SplitAtBlank \/ SplitAnywhere \/ EndLine
  <2>1. /\ UNCHANGED <<pass, body, asked, embed>>
        /\ mode \in {"lines", "words"} /\ mode' \in {"lines", "words"}
    BY <1>2 DEF Flush, AddLine, BreakLine, SplitAtBlank, SplitAnywhere, SplitAround, EndLine
  <2> QED BY <2>1, LettersPack
<1> QED BY <1>1, <1>2, LettersPost, LettersShow, LettersFinish, LettersFirst, LettersJoined,
           LettersOver DEF SplitNext

(* Whatever the text and the size, every letter of it arrives, in order, in *)
(* the embed and the messages it was cut into; the passages of a session's  *)
(* notes hold every letter of them and fit, and a truncated text fits and   *)
(* keeps what it can (ChunkMarkdown, SplitWords, splitForShow, chunkNotes   *)
(* with HardSplit, Truncate).                                               *)
THEOREM EveryLetterArrives == SplitSpec => []TextArrives
<1>1. SplitInit => LettersInv
  <2>1. Letters(<<>>) = <<>> /\ <<>> \in Seq(Chars)
    BY NoLetters, EmptySeq
  <2> QED BY <2>1 DEF SplitInit, LettersInv
<1>2. SplitInv /\ SplitInv' /\ LettersInv /\ [SplitNext]_splitVars => LettersInv'
  BY LettersStep
<1>3. SplitInv /\ LettersInv => TextArrives
  <2> SUFFICES ASSUME SplitInv, LettersInv, mode = "done"
               PROVE  /\ AllLetters(<<embed>> \o out) = Letters(asked)
                      /\ NotesWhole(asked, size) /\ TruncatedFits(asked, size)
    BY DEF TextArrives
  <2>1. /\ asked \in Seq(Chars) /\ embed \in Seq(Chars) /\ AllLetters(out) = Letters(body)
        /\ Letters(embed) \o Letters(body) = Letters(asked)
    BY DEF LettersInv
  <2>2. out \in Seq(Seq(Chars)) /\ size \in Nat \ {0}
    BY DEF SplitInv
  <2>3. AllLetters(<<embed>> \o out) = Letters(asked)
    <3>1. <<embed>> \in Seq(Seq(Chars)) /\ AllLetters(<<embed>>) = Letters(embed)
      BY <2>1, AllOfOne
    <3>2. AllLetters(<<embed>> \o out) = AllLetters(<<embed>>) \o AllLetters(out)
      BY <2>2, <3>1, AllJoins
    <3> QED BY <2>1, <3>1, <3>2
  <2>4. NotesWhole(asked, size) /\ TruncatedFits(asked, size)
    BY <2>1, <2>2, NotesAreWhole, TruncatedIs
  <2> QED BY <2>3, <2>4
<1> QED BY <1>1, <1>2, <1>3, SplitInvariant, PTL DEF SplitSpec
=============================================================================
