--------------------------- MODULE RemindersProofs ---------------------------
(***************************************************************************)
(* Theorems about Reminders, for any number of replicas, commands and      *)
(* failures and any length of the week: no occurrence of a reminder is     *)
(* posted twice, and a campaign has one.                                   *)
(***************************************************************************)
EXTENDS Reminders, TLAPS

Row == [slot : Slots, next : Times]
Item == [id : Ids, row : Row]
Place ==
    {Idle} \cup [pc : {"tick"}, due : SUBSET Item]
    \cup [pc : {"post"}, due : SUBSET Item, id : Ids, next : Times]

TypeOK ==
    /\ reminder \in [Ids -> Row \cup {NoRow}]
    /\ setter \in [Ids -> {Idle} \cup [pc : {"insert"}, row : Row]]
    /\ loop \in [Replicas -> Place]
    /\ now \in 0..MaxNow /\ sets \in 0..MaxSets
    /\ posts \in [Ids \X Times -> Nat]
    /\ claimed \subseteq Ids \X Times /\ lost \subseteq claimed

(* A row has moved past what was claimed of it, and one that is not yet in  *)
(* the table was never claimed.                                             *)
MovedPast ==
    \A i \in Ids, t \in Times : <<i, t>> \in claimed =>
        /\ i <= sets /\ ~Setting(i)
        /\ reminder[i] # NoRow => reminder[i].next > t
Unused ==
    \A i \in Ids :
        /\ i > sets => reminder[i] = NoRow /\ ~Setting(i)
        /\ Setting(i) => reminder[i] = NoRow

(* What a replica read was due when it read it; what it is about to post is *)
(* claimed and not lost.                                                    *)
LoopKnows ==
    \A g \in Replicas :
        /\ loop[g].pc \in {"tick", "post"} =>
              \A d \in loop[g].due : d.row.next <= now /\ d.id <= sets
        /\ loop[g].pc = "post" => <<loop[g].id, loop[g].next>> \in claimed \ lost

(* Rows that are in the table or about to be. *)
Coming(i) == i \in Rows \/ Setting(i)
Alone == crowded \/ \A i, j \in Ids : Coming(i) /\ Coming(j) => i = j

IInv == TypeOK /\ MovedPast /\ Unused /\ LoopKnows /\ ClaimedOnce /\ Alone
-----------------------------------------------------------------------------
LEMMA Remainder ==
    ASSUME NEW a \in Nat
    PROVE  a % Week \in Nat /\ a % Week < Week
BY WeekAssumption

(* nextWeekly gives a time after from, at most a week later. *)
LEMMA NextIsAfter ==
    ASSUME NEW from \in 0..MaxNow, NEW slot \in Slots
    PROVE  NextWeekly(from, slot) \in Times /\ NextWeekly(from, slot) > from
<1>1. from \in Nat /\ slot \in Nat /\ Week \in Nat /\ MaxNow \in Nat
  BY BoundsAssumption, WeekAssumption DEF Slots
<1> DEFINE a == slot + Week - (from % Week)
           r == a % Week
<1>2. a \in Nat
  <2>1. from % Week \in Nat /\ from % Week < Week
    BY <1>1, Remainder
  <2> QED BY <1>1, <2>1
<1>3. r \in Nat /\ r < Week
  BY <1>2, Remainder
<1>4. NextWeekly(from, slot) = IF from + r > from THEN from + r ELSE from + r + Week
  BY DEF NextWeekly
<1> HIDE DEF r
<1> QED BY <1>1, <1>3, <1>4, WeekAssumption DEF Times
-----------------------------------------------------------------------------
LEMMA InitInv == Init => IInv
<1> SUFFICES ASSUME Init PROVE IInv
  OBVIOUS
<1>1. TypeOK
  BY BoundsAssumption DEF Init, TypeOK, Place
<1>2. MovedPast /\ Unused /\ ClaimedOnce /\ Alone
  BY DEF Init, MovedPast, Unused, ClaimedOnce, InHand, Alone, Coming, Rows, Setting, Idle
<1>3. LoopKnows
  BY DEF Init, LoopKnows, Idle
<1> QED BY <1>1, <1>2, <1>3 DEF IInv

(* What a replica works on. *)
LEMMA DueItems ==
    ASSUME TypeOK, NEW g \in Replicas
    PROVE  /\ loop[g].pc \in {"tick", "post"} => loop[g].due \in SUBSET Item
           /\ loop[g].pc = "tick" => loop[g] \in [pc : {"tick"}, due : SUBSET Item]
           /\ loop[g].pc = "post" => loop[g].id \in Ids /\ loop[g].next \in Times
<1>1. \/ loop[g] = Idle \/ loop[g] \in [pc : {"tick"}, due : SUBSET Item]
      \/ loop[g] \in [pc : {"post"}, due : SUBSET Item, id : Ids, next : Times]
  BY DEF TypeOK, Place
<1>2. CASE loop[g] = Idle
  BY <1>2 DEF Idle
<1>3. CASE loop[g] \in [pc : {"tick"}, due : SUBSET Item]
  BY <1>3
<1>4. CASE loop[g] \in [pc : {"post"}, due : SUBSET Item, id : Ids, next : Times]
  BY <1>4
<1> QED BY <1>1, <1>2, <1>3, <1>4

(* What was done stays as it is while a command or the clock moves on. *)
LEMMA NothingClaimed ==
    ASSUME IInv, UNCHANGED <<loop, outcome>>, now <= now', sets <= sets', now' \in Nat, sets' \in Nat
    PROVE  LoopKnows' /\ ClaimedOnce'
<1>1. ClaimedOnce'
  BY DEF IInv, ClaimedOnce, InHand, outcome
<1>2. LoopKnows'
  <2>1. now \in Nat /\ sets \in Nat /\ Ids \subseteq Nat /\ Times \subseteq Nat
    BY BoundsAssumption, WeekAssumption DEF IInv, TypeOK, Ids, Times
  <2>2. ASSUME NEW g \in Replicas, loop[g].pc \in {"tick", "post"}, NEW d \in loop[g].due
        PROVE  d.row.next <= now' /\ d.id <= sets'
    <3>0. loop[g].due \in SUBSET Item
      BY <2>2, DueItems DEF IInv
    <3>1. d \in Item /\ d.row.next <= now /\ d.id <= sets
      BY <2>2, <3>0 DEF IInv, LoopKnows
    <3>2. d.row.next \in Nat /\ d.id \in Nat
      BY <2>1, <3>1 DEF Item, Row
    <3> QED BY <2>1, <3>1, <3>2
  <2> QED BY <2>2 DEF IInv, LoopKnows, outcome
<1> QED BY <1>1, <1>2

LEMMA NatTypes ==
    ASSUME TypeOK
    PROVE  now \in Nat /\ sets \in Nat /\ Ids \subseteq Nat /\ Times \subseteq Nat
BY BoundsAssumption, WeekAssumption DEF TypeOK, Ids, Times

LEMMA TickInv == ASSUME IInv, Tick PROVE IInv'
<1>1. now \in Nat /\ sets \in Nat
  BY NatTypes DEF IInv
<1>2. UNCHANGED <<table, setter, loop, sets, outcome, crowded>> /\ now' = now + 1 /\ now < MaxNow
  BY DEF Tick
<1>3. TypeOK'
  BY <1>1, <1>2, BoundsAssumption DEF IInv, TypeOK, table, outcome
<1>4. MovedPast' /\ Unused' /\ Alone'
  BY <1>2 DEF IInv, MovedPast, Unused, Alone, Coming, Rows, Setting, table, outcome
<1>5. LoopKnows' /\ ClaimedOnce'
  BY <1>1, <1>2, NothingClaimed
<1> QED BY <1>3, <1>4, <1>5 DEF IInv

(* /remind clear, /campaign delete, and a set command that fails. *)
LEMMA RemoveInv ==
    ASSUME IInv, Clear \/ DeleteCampaign \/ \E i \in Ids : SetFails(i)
    PROVE  IInv'
<1>1. /\ UNCHANGED <<loop, outcome, crowded, now, sets>>
      /\ reminder' = [i \in Ids |-> NoRow] \/ UNCHANGED reminder
      /\ UNCHANGED setter \/ \E i \in Ids : setter' = [setter EXCEPT ![i] = Idle]
  BY DEF Clear, DeleteCampaign, SetFails, DeleteRows, SetEnds, Fault, table, counters
<1>2. \A i \in Ids : reminder'[i] \in {NoRow, reminder[i]} /\ setter'[i] \in {Idle, setter[i]}
  BY <1>1 DEF IInv, TypeOK
<1>3. TypeOK'
  BY <1>1 DEF IInv, TypeOK, outcome
<1>4. MovedPast'
  BY <1>1, <1>2 DEF IInv, MovedPast, Setting, outcome
<1>5. Unused'
  BY <1>1, <1>2 DEF IInv, Unused, Setting
<1>6. Alone'
  BY <1>1, <1>2 DEF IInv, Alone, Coming, Rows, Setting
<1>7. LoopKnows' /\ ClaimedOnce'
  BY <1>1, NatTypes, NothingClaimed DEF IInv
<1> QED BY <1>3, <1>4, <1>5, <1>6, <1>7 DEF IInv

(* The new reminder has an id that was never used. *)
LEMMA SetDeletesInv == ASSUME IInv, NEW slot \in Slots, SetDeletes(slot) PROVE IInv'
<1> DEFINE row == [slot |-> slot, next |-> NextWeekly(now, slot)]
           new == [pc |-> "insert", row |-> row]
           i == sets + 1
<1>1. /\ UNCHANGED <<loop, outcome, now>> /\ sets' = i /\ sets < MaxSets
      /\ reminder' = [k \in Ids |-> NoRow] /\ setter' = [setter EXCEPT ![i] = new]
      /\ crowded' = (\E k \in Ids : Setting(k))
  BY DEF SetDeletes, DeleteRows
<1>2. now \in Nat /\ sets \in Nat /\ i \in Ids /\ Ids \subseteq Nat
  BY <1>1, NatTypes, BoundsAssumption DEF IInv, Ids
<1>3. row \in Row /\ new # Idle
  BY NextIsAfter DEF IInv, TypeOK, Row, Idle
<1>4. TypeOK'
  <2>1. new \in [pc : {"insert"}, row : Row]
    BY <1>3
  <2> HIDE DEF new
  <2>2. setter' \in [Ids -> {Idle} \cup [pc : {"insert"}, row : Row]]
    BY <1>1, <2>1 DEF IInv, TypeOK
  <2>3. sets' \in 0..MaxSets
    BY <1>1, <1>2, BoundsAssumption
  <2> QED BY <1>1, <2>2, <2>3 DEF IInv, TypeOK, outcome
<1> HIDE DEF new, row
<1>5. ~Setting(i) /\ \A k \in Ids : Setting(k)' <=> (k = i \/ Setting(k))
  BY <1>1, <1>2, <1>3 DEF IInv, TypeOK, Unused, Setting
<1>6. MovedPast'
  <2>1. ASSUME NEW k \in Ids, NEW t \in Times, <<k, t>> \in claimed
        PROVE  k <= i /\ ~Setting(k)' /\ reminder'[k] = NoRow
    BY <1>1, <1>2, <1>5, <2>1 DEF IInv, MovedPast
  <2> QED BY <1>1, <2>1 DEF MovedPast, outcome
<1>7. Unused'
  BY <1>1, <1>2, <1>5 DEF IInv, Unused
<1>8. Alone'
  BY <1>1, <1>5 DEF Alone, Coming, Rows
<1>9. LoopKnows' /\ ClaimedOnce'
  <2>1. sets <= sets' /\ now <= now' /\ sets' \in Nat /\ now' \in Nat
    BY <1>1, <1>2
  <2> QED BY <1>1, <2>1, NothingClaimed
<1> QED BY <1>4, <1>6, <1>7, <1>8, <1>9 DEF IInv

LEMMA SetInsertsInv == ASSUME IInv, NEW i \in Ids, SetInserts(i) PROVE IInv'
<1>1. /\ UNCHANGED <<loop, outcome, crowded, now, sets>> /\ Setting(i)
      /\ reminder' = [reminder EXCEPT ![i] = setter[i].row]
      /\ setter' = [setter EXCEPT ![i] = Idle]
  BY DEF SetInserts, SetEnds, counters
<1>2. setter[i].row \in Row
  BY <1>1 DEF IInv, TypeOK, Setting
<1>3. setter[i].row # NoRow
  BY <1>2 DEF Row, NoRow, Slots, Times
<1>4. TypeOK'
  BY <1>1, <1>2 DEF IInv, TypeOK, outcome
<1>5. /\ ~Setting(i)' /\ \A k \in Ids \ {i} : Setting(k)' <=> Setting(k)
      /\ \A k \in Ids \ {i} : reminder'[k] = reminder[k]
  BY <1>1 DEF IInv, TypeOK, Setting
<1>6. MovedPast'
  <2>1. ASSUME NEW k \in Ids, NEW t \in Times, <<k, t>> \in claimed PROVE k # i
    BY <1>1, <2>1 DEF IInv, MovedPast
  <2> QED BY <1>1, <1>5, <2>1 DEF IInv, MovedPast, outcome
<1>7. Unused'
  BY <1>1, <1>5 DEF IInv, Unused
<1>8. Alone'
  BY <1>1, <1>5 DEF IInv, Alone, Coming, Rows
<1>9. LoopKnows' /\ ClaimedOnce'
  BY <1>1, NatTypes, NothingClaimed DEF IInv
<1> QED BY <1>4, <1>6, <1>7, <1>8, <1>9 DEF IInv
-----------------------------------------------------------------------------
(* A replica goes on with nothing claimed. *)
LEMMA LoopMoves ==
    ASSUME IInv, UNCHANGED <<reminder, setter, now, sets, crowded, outcome>>,
           NEW g \in Replicas, loop[g].pc # "post",
           NEW place \in Place, place.pc # "post", loop' = [loop EXCEPT ![g] = place],
           place.pc = "tick" => \A d \in place.due : d.row.next <= now /\ d.id <= sets
    PROVE  IInv'
<1>1. loop'[g] = place /\ \A k \in Replicas \ {g} : loop'[k] = loop[k]
  BY DEF IInv, TypeOK
<1>2. TypeOK'
  BY DEF IInv, TypeOK, outcome
<1>3. MovedPast' /\ Unused' /\ Alone'
  BY DEF IInv, MovedPast, Unused, Alone, Coming, Rows, Setting, outcome
<1>4. LoopKnows'
  BY <1>1 DEF IInv, LoopKnows, outcome
<1>5. \A o \in Ids \X Times : InHand(o)' = InHand(o)
  BY <1>1 DEF InHand
<1>6. ClaimedOnce'
  BY <1>5 DEF IInv, ClaimedOnce, outcome
<1> QED BY <1>2, <1>3, <1>4, <1>6 DEF IInv

LEMMA DueRemindersInv == ASSUME IInv, NEW g \in Replicas, DueReminders(g) PROVE IInv'
<1> DEFINE due == {[id |-> i, row |-> reminder[i]] : i \in Due}
           place == [pc |-> "tick", due |-> due]
<1>1. loop[g].pc # "post" /\ loop' = [loop EXCEPT ![g] = place]
      /\ UNCHANGED <<reminder, setter, now, sets, crowded, outcome>>
  BY DEF DueReminders, Idle, table, counters
<1>2. \A i \in Due : i \in Ids /\ reminder[i] \in Row /\ reminder[i].next <= now /\ i <= sets
  <2>1. ASSUME NEW i \in Due
        PROVE  i \in Ids /\ reminder[i] \in Row /\ reminder[i].next <= now /\ i <= sets
    <3>1. i \in Ids /\ reminder[i] \in Row /\ reminder[i] # NoRow /\ reminder[i].next <= now
      BY DEF Due, Rows, IInv, TypeOK
    <3>2. i \in Nat /\ sets \in Nat
      BY <3>1, NatTypes DEF IInv
    <3> QED BY <3>1, <3>2 DEF IInv, Unused
  <2> QED BY <2>1
<1>3. due \in SUBSET Item /\ \A d \in due : d.row.next <= now /\ d.id <= sets
  BY <1>2 DEF Item
<1> HIDE DEF due
<1>4. place \in Place
  BY <1>3 DEF Place
<1>5. place.pc = "tick" /\ place.due = due
  OBVIOUS
<1> HIDE DEF place
<1> QED BY <1>1, <1>3, <1>4, <1>5, LoopMoves

(* What is left of a tick once d was looked at, and its end. *)
LEMMA PassInv ==
    ASSUME IInv, NEW g \in Replicas, loop[g].pc = "tick", NEW D \in SUBSET loop[g].due,
           UNCHANGED <<reminder, setter, now, sets, crowded, outcome>>,
           loop' = [loop EXCEPT ![g].due = D] \/ loop' = [loop EXCEPT ![g] = Idle]
    PROVE  IInv'
<1>1. loop[g] \in [pc : {"tick"}, due : SUBSET Item]
  BY DueItems DEF IInv
<1> DEFINE place == [pc |-> "tick", due |-> D]
<1>2. CASE loop' = [loop EXCEPT ![g].due = D]
  <2>1. loop' = [loop EXCEPT ![g] = place]
    <3>1. [loop[g] EXCEPT !.due = D] = place
      BY <1>1
    <3>2. loop' = [loop EXCEPT ![g] = [loop[g] EXCEPT !.due = D]]
      BY <1>2 DEF IInv, TypeOK
    <3> QED BY <3>1, <3>2
  <2>2. place \in Place /\ place.pc = "tick" /\ place.due = D
    BY <1>1 DEF Place
  <2>3. \A d \in D : d.row.next <= now /\ d.id <= sets
    BY DEF IInv, LoopKnows
  <2> HIDE DEF place
  <2> QED BY <2>1, <2>2, <2>3, LoopMoves
<1>3. CASE loop' = [loop EXCEPT ![g] = Idle]
  <2>1. Idle \in Place /\ Idle.pc = "idle"
    BY DEF Place, Idle
  <2> QED BY <1>3, <2>1, LoopMoves
<1> QED BY <1>2, <1>3

(* What is claimed was not claimed before, and its row moves past it. *)
LEMMA ClaimMoves ==
    ASSUME IInv, NEW g \in Replicas, loop[g].pc = "tick", NEW d \in loop[g].due,
           reminder[d.id] = d.row, reminder' = [reminder EXCEPT ![d.id].next = Next(d)],
           claimed' = claimed \cup {<<d.id, d.row.next>>},
           UNCHANGED <<setter, now, sets, crowded>>
    PROVE  /\ d \in Item /\ <<d.id, d.row.next>> \notin claimed
           /\ reminder' \in [Ids -> Row \cup {NoRow}]
           /\ MovedPast' /\ Unused' /\ Alone'
<1>1. d \in Item /\ d.row.next <= now /\ d.id <= sets
  BY DueItems DEF IInv, LoopKnows
<1>2. d.id \in Ids /\ d.row \in Row /\ d.row # NoRow
  BY <1>1 DEF Item, Row, NoRow
<1>3. d.row.next \in Times /\ d.row.slot \in Slots /\ d.row.next \in Nat
  BY <1>2, NatTypes DEF IInv, Row
<1>4. Next(d) \in Times /\ Next(d) \in Nat /\ Next(d) > now /\ now \in Nat
  BY <1>3, NextIsAfter, NatTypes DEF IInv, TypeOK, Next
<1>5. <<d.id, d.row.next>> \notin claimed
  BY <1>2, <1>3 DEF IInv, MovedPast
<1>6. /\ reminder'[d.id] \in Row /\ reminder'[d.id].next = Next(d)
      /\ \A i \in Ids \ {d.id} : reminder'[i] = reminder[i]
  BY <1>2, <1>4 DEF IInv, TypeOK, Row
<1>7. reminder' \in [Ids -> Row \cup {NoRow}]
  BY <1>6 DEF IInv, TypeOK
<1>8. ~Setting(d.id) /\ \A i \in Ids : Setting(i)' <=> Setting(i)
  BY <1>2 DEF IInv, Unused, Setting
<1>9. MovedPast'
  <2>1. ASSUME NEW i \in Ids, NEW t \in Times, <<i, t>> \in claimed'
        PROVE  i <= sets /\ ~Setting(i)
    BY <1>1, <1>8, <2>1 DEF IInv, MovedPast
  <2>2. ASSUME NEW i \in Ids, NEW t \in Times, <<i, t>> \in claimed', reminder'[i] # NoRow
        PROVE  reminder'[i].next > t
    <3>1. CASE i # d.id
      BY <1>6, <2>2, <3>1 DEF IInv, MovedPast
    <3>2. CASE i = d.id
      <4>1. t \in Nat
        BY NatTypes DEF IInv
      <4>2. CASE t = d.row.next
        BY <1>1, <1>3, <1>4, <1>6, <3>2, <4>2
      <4>3. CASE t # d.row.next
        <5>1. d.row.next > t
          BY <1>2, <2>2, <3>2, <4>3 DEF IInv, MovedPast
        <5> QED BY <1>1, <1>3, <1>4, <1>6, <3>2, <4>1, <5>1
      <4> QED BY <4>2, <4>3
    <3> QED BY <3>1, <3>2
  <2> QED BY <1>8, <2>1, <2>2 DEF MovedPast
<1>10. Unused'
  BY <1>1, <1>2, <1>6, <1>8, NatTypes DEF IInv, Unused
<1>11. Alone'
  <2>1. \A i \in Ids : i \in Rows' <=> i \in Rows
    <3>1. reminder'[d.id] # NoRow
      BY <1>6 DEF Row, NoRow
    <3> QED BY <1>2, <1>6, <3>1 DEF Rows
  <2> QED BY <1>8, <2>1 DEF IInv, Alone, Coming
<1> QED BY <1>1, <1>5, <1>7, <1>9, <1>10, <1>11

LEMMA ClaimInv ==
    ASSUME IInv, NEW g \in Replicas, loop[g].pc = "tick", NEW d \in loop[g].due, ClaimReminder(g, d)
    PROVE  IInv'
<1>1. CASE reminder[d.id] # d.row
  <2>1. /\ loop' = [loop EXCEPT ![g].due = Without(g, d)]
        /\ UNCHANGED <<reminder, setter, now, sets, crowded, outcome>>
    BY <1>1 DEF ClaimReminder, Passes, table, counters
  <2>2. Without(g, d) \in SUBSET loop[g].due
    BY DEF Without
  <2> QED BY <2>1, <2>2, PassInv
<1>2. CASE reminder[d.id] = d.row
  <2> DEFINE o == <<d.id, d.row.next>>
             place == [pc |-> "post", due |-> Without(g, d), id |-> d.id, next |-> d.row.next]
  <2>1. /\ reminder' = [reminder EXCEPT ![d.id].next = Next(d)] /\ claimed' = claimed \cup {o}
        /\ loop' = [loop EXCEPT ![g] = place] /\ UNCHANGED <<setter, now, sets, crowded, posts, lost>>
    BY <1>2 DEF ClaimReminder, Claims, counters
  <2>2. /\ d \in Item /\ o \notin claimed /\ reminder' \in [Ids -> Row \cup {NoRow}]
        /\ MovedPast' /\ Unused' /\ Alone'
    BY <1>2, <2>1, ClaimMoves
  <2>3. loop[g].due \in SUBSET Item /\ Without(g, d) \in SUBSET loop[g].due
    BY DueItems DEF IInv, Without
  <2>4. o \in Ids \X Times /\ place \in Place
    BY <2>2, <2>3 DEF Item, Row, Place
  <2>5. place.pc = "post" /\ place.due = Without(g, d) /\ <<place.id, place.next>> = o
    OBVIOUS
  <2> HIDE DEF place
  <2>6. loop'[g] = place /\ \A k \in Replicas \ {g} : loop'[k] = loop[k]
    BY <2>1 DEF IInv, TypeOK
  <2>7. TypeOK'
    BY <2>1, <2>2, <2>4 DEF IInv, TypeOK
  <2>8. o \notin lost
    BY <2>2 DEF IInv, TypeOK
  <2>9. LoopKnows'
    <3>1. \A e \in place.due : e.row.next <= now /\ e.id <= sets
      BY <2>3, <2>5 DEF IInv, LoopKnows
    <3> HIDE DEF o
    <3> QED BY <2>1, <2>5, <2>6, <2>8, <3>1 DEF IInv, LoopKnows
  <2>10. ClaimedOnce'
    <3>1. InHand(o) = {}
      BY <2>2 DEF IInv, LoopKnows, InHand
    <3>2. InHand(o)' = {g}
      BY <2>5, <2>6, <3>1 DEF InHand
    <3>3. \A q \in Ids \X Times : q # o => InHand(q)' = InHand(q)
      BY <2>5, <2>6 DEF InHand
    <3>4. posts[o] = 0
      BY <2>2, <2>4 DEF IInv, TypeOK, ClaimedOnce
    <3> HIDE DEF o
    <3> QED BY <2>1, <2>8, <3>2, <3>3, <3>4 DEF IInv, ClaimedOnce
  <2> QED BY <2>2, <2>7, <2>9, <2>10 DEF IInv
<1> QED BY <1>1, <1>2

(* The UPDATE was made and its reply lost: the occurrence is claimed and    *)
(* lost at once.                                                            *)
LEMMA ClaimFailsInv ==
    ASSUME IInv, NEW g \in Replicas, loop[g].pc = "tick", NEW d \in loop[g].due, ClaimFails(g, d)
    PROVE  IInv'
<1>1. /\ loop' = [loop EXCEPT ![g].due = Without(g, d)] /\ Without(g, d) \in SUBSET loop[g].due
      /\ UNCHANGED <<setter, now, sets, crowded, posts>>
  BY DEF ClaimFails, Fault, Without
<1>2. CASE UNCHANGED <<reminder, claimed, lost>>
  BY <1>1, <1>2, PassInv DEF outcome
<1>3. CASE /\ reminder[d.id] = d.row /\ reminder' = [reminder EXCEPT ![d.id].next = Next(d)]
           /\ claimed' = claimed \cup {<<d.id, d.row.next>>}
           /\ lost' = lost \cup {<<d.id, d.row.next>>}
  <2> DEFINE o == <<d.id, d.row.next>>
  <2>1. /\ d \in Item /\ o \notin claimed /\ reminder' \in [Ids -> Row \cup {NoRow}]
        /\ MovedPast' /\ Unused' /\ Alone'
    BY <1>1, <1>3, ClaimMoves
  <2>2. o \in Ids \X Times
    BY <2>1 DEF Item, Row
  <2>3. loop[g] \in [pc : {"tick"}, due : SUBSET Item]
    BY DueItems DEF IInv
  <2>4. /\ loop'[g] \in [pc : {"tick"}, due : SUBSET Item] /\ loop'[g].due \subseteq loop[g].due
        /\ loop' = [k \in Replicas |-> loop'[k]] /\ \A k \in Replicas \ {g} : loop'[k] = loop[k]
    BY <1>1, <2>3 DEF IInv, TypeOK
  <2>5. TypeOK'
    <3>1. \A k \in Replicas : loop'[k] \in Place
      BY <2>4 DEF IInv, TypeOK, Place
    <3> QED BY <1>1, <1>3, <2>1, <2>2, <2>4, <3>1 DEF IInv, TypeOK
  <2> HIDE DEF o
  <2>6. LoopKnows'
    <3>1. ASSUME NEW k \in Replicas, loop'[k].pc = "post"
          PROVE  <<loop[k].id, loop[k].next>> \in claimed' \ lost' /\ loop'[k] = loop[k]
      BY <1>3, <2>1, <2>4, <3>1 DEF IInv, LoopKnows, o
    <3>2. ASSUME NEW k \in Replicas, loop'[k].pc \in {"tick", "post"}, NEW e \in loop'[k].due
          PROVE  e.row.next <= now /\ e.id <= sets
      BY <2>3, <2>4, <3>2 DEF IInv, LoopKnows
    <3> QED BY <1>1, <3>1, <3>2 DEF LoopKnows
  <2>7. ClaimedOnce'
    <3>1. \A q \in Ids \X Times : InHand(q)' = InHand(q)
      BY <2>3, <2>4 DEF InHand
    <3>2. InHand(o) = {}
      BY <2>1 DEF IInv, LoopKnows, InHand
    <3>3. posts[o] = 0
      BY <2>1, <2>2 DEF IInv, TypeOK, ClaimedOnce
    <3>4. claimed' = claimed \cup {o} /\ lost' = lost \cup {o}
      BY <1>3 DEF o
    <3> QED BY <1>1, <3>1, <3>2, <3>3, <3>4 DEF IInv, ClaimedOnce
  <2> QED BY <2>1, <2>5, <2>6, <2>7 DEF IInv
<1> QED BY <1>2, <1>3 DEF ClaimFails

(* A replica posts what it claimed, or loses it. *)
LEMMA PostInv ==
    ASSUME IInv, NEW g \in Replicas, loop[g].pc = "post",
           UNCHANGED <<reminder, setter, now, sets, crowded, claimed>>,
           loop' = [loop EXCEPT ![g] = Posted(g)] \/ loop' = [loop EXCEPT ![g] = Idle],
           \/ /\ posts' = [posts EXCEPT ![<<loop[g].id, loop[g].next>>] = @ + 1]
              /\ UNCHANGED lost
           \/ /\ lost' = lost \cup {<<loop[g].id, loop[g].next>>}
              /\ UNCHANGED posts
    PROVE  IInv'
<1>0. PICK o \in Ids \X Times : o = <<loop[g].id, loop[g].next>>
  BY DueItems DEF IInv
<1>1. loop[g].due \in SUBSET Item
  BY DueItems DEF IInv
<1>2. o \in claimed \ lost /\ g \in InHand(o)
  BY <1>0 DEF IInv, LoopKnows, InHand
<1>3. posts[o] = 0 /\ InHand(o) = {g}
  BY <1>1, <1>2 DEF IInv, ClaimedOnce
<1>4. /\ loop'[g] \in {Idle, Posted(g)} /\ loop' = [k \in Replicas |-> loop'[k]]
      /\ \A k \in Replicas \ {g} : loop'[k] = loop[k]
  BY DEF IInv, TypeOK
<1>5. Posted(g) \in Place /\ Posted(g).pc = "tick" /\ Posted(g).due = loop[g].due
  BY <1>1 DEF Place, Posted
<1>6. Idle \in Place /\ Idle.pc = "idle"
  BY DEF Place, Idle
<1>7. \/ posts' = [posts EXCEPT ![o] = @ + 1] /\ UNCHANGED lost
      \/ lost' = lost \cup {o} /\ UNCHANGED posts
  BY <1>0
<1>8. TypeOK'
  <2>1. \A k \in Replicas : loop'[k] \in Place
    BY <1>4, <1>5, <1>6 DEF IInv, TypeOK
  <2>2. loop' \in [Replicas -> Place]
    BY <1>4, <2>1
  <2>3. posts' \in [Ids \X Times -> Nat] /\ lost' \subseteq claimed
    BY <1>2, <1>7 DEF IInv, TypeOK
  <2> QED BY <2>2, <2>3 DEF IInv, TypeOK
<1>9. MovedPast' /\ Unused' /\ Alone'
  BY DEF IInv, MovedPast, Unused, Alone, Coming, Rows, Setting
<1>10. InHand(o)' = {} /\ \A q \in Ids \X Times : q # o => InHand(q)' = InHand(q)
  <2>1. ASSUME NEW q, NEW k \in Replicas
        PROVE  k \in InHand(q)' <=> k \in InHand(q) /\ k # g
    BY <1>4, <1>5, <1>6 DEF InHand
  <2>2. \A q : q # o => g \notin InHand(q)
    BY <1>0 DEF InHand
  <2>3. InHand(o)' = {}
    BY <1>3, <2>1 DEF InHand
  <2>4. ASSUME NEW q, q # o PROVE InHand(q)' = InHand(q)
    <3>1. InHand(q) \subseteq Replicas /\ InHand(q)' \subseteq Replicas
      BY DEF InHand
    <3> QED BY <2>1, <2>2, <2>4, <3>1
  <2> QED BY <2>3, <2>4
<1>11. LoopKnows'
  <2>1. ASSUME NEW k \in Replicas, loop'[k].pc \in {"tick", "post"}, NEW d \in loop'[k].due
        PROVE  d.row.next <= now /\ d.id <= sets
    BY <1>4, <1>5, <1>6, <2>1 DEF IInv, LoopKnows
  <2>2. ASSUME NEW k \in Replicas, loop'[k].pc = "post"
        PROVE  <<loop'[k].id, loop'[k].next>> \in claimed \ lost'
    <3>1. k # g /\ loop'[k] = loop[k]
      BY <1>4, <1>5, <1>6, <2>2
    <3>2. <<loop[k].id, loop[k].next>> \in claimed \ lost
      BY <2>2, <3>1 DEF IInv, LoopKnows
    <3>3. <<loop[k].id, loop[k].next>> # o
      BY <1>3, <2>2, <3>1 DEF InHand
    <3> QED BY <1>7, <3>1, <3>2, <3>3
  <2> QED BY <2>1, <2>2 DEF LoopKnows
<1>12. ClaimedOnce'
  <2>1. posts'[o] = (IF o \in lost' THEN 0 ELSE 1) /\ o \in claimed
    BY <1>2, <1>3, <1>7 DEF IInv, TypeOK
  <2>2. \A q \in Ids \X Times : q # o => posts'[q] = posts[q] /\ (q \in lost' <=> q \in lost)
    BY <1>7 DEF IInv, TypeOK
  <2> QED BY <1>10, <2>1, <2>2 DEF IInv, ClaimedOnce
<1> QED BY <1>8, <1>9, <1>11, <1>12 DEF IInv

(* The steps of the loop of a replica. *)
LEMMA LoopInv ==
    ASSUME IInv, NEW g \in Replicas
    PROVE  /\ Loop(g) => IInv'
           /\ PostFails(g) \/ TickPanics(g) => IInv'
           /\ loop[g].pc = "tick" => \A d \in loop[g].due : ClaimFails(g, d) => IInv'
<1>1. ASSUME Post(g) PROVE IInv'
  BY <1>1, PostInv DEF Post, table, counters
<1>2. ASSUME TickEnds(g) PROVE IInv'
  <2>1. {} \in SUBSET loop[g].due
    OBVIOUS
  <2> QED BY <1>2, <2>1, PassInv DEF TickEnds, table, counters
<1>3. ASSUME PostFails(g) PROVE IInv'
  BY <1>3, PostInv DEF PostFails, Fault, table
<1>4. ASSUME TickPanics(g) PROVE IInv'
  <2>1. /\ loop[g] # Idle /\ loop' = [loop EXCEPT ![g] = Idle]
        /\ UNCHANGED <<reminder, setter, now, sets, crowded, posts, claimed>>
    BY <1>4 DEF TickPanics, Fault, table
  <2>2. CASE loop[g].pc = "post"
    <3>1. lost' = lost \cup {<<loop[g].id, loop[g].next>>}
      BY <1>4, <2>2 DEF TickPanics
    <3> QED BY <2>1, <2>2, <3>1, PostInv
  <2>3. CASE loop[g].pc # "post"
    <3>1. UNCHANGED outcome
      BY <1>4, <2>3 DEF TickPanics, outcome
    <3>2. Idle \in Place /\ Idle.pc = "idle"
      BY DEF Place, Idle
    <3> QED BY <2>1, <2>3, <3>1, <3>2, LoopMoves
  <2> QED BY <2>2, <2>3
<1> QED BY <1>1, <1>2, <1>3, <1>4, DueRemindersInv, ClaimInv, ClaimFailsInv DEF Loop

LEMMA StepInv ==
    ASSUME IInv, [Step]_vars
    PROVE  IInv'
<1>1. CASE UNCHANGED vars
  BY <1>1 DEF vars, table, counters, outcome, IInv, TypeOK, MovedPast, Unused, LoopKnows,
              ClaimedOnce, InHand, Alone, Coming, Rows, Setting
<1>2. CASE Step
  <2>1. CASE Tick \/ Clear \/ DeleteCampaign
    BY <2>1, TickInv, RemoveInv
  <2>2. CASE \E slot \in Slots : SetDeletes(slot)
    BY <2>2, SetDeletesInv
  <2>3. CASE \E i \in Ids : SetInserts(i) \/ SetFails(i)
    BY <2>3, SetInsertsInv, RemoveInv
  <2>4. ASSUME NEW g \in Replicas,
               \/ Loop(g) \/ PostFails(g) \/ TickPanics(g)
               \/ \E d \in IF loop[g].pc = "tick" THEN loop[g].due ELSE {} : ClaimFails(g, d)
        PROVE  IInv'
    BY <2>4, LoopInv
  <2> QED BY <1>2, <2>1, <2>2, <2>3, <2>4 DEF Step
<1> QED BY <1>1, <1>2

(* The inductive invariant holds. *)
LEMMA Invariant == Spec => []IInv
BY InitInv, StepInv, PTL DEF Spec
-----------------------------------------------------------------------------
(* "a crash mid-claim drops one reminder rather than double-posting"        *)
(* (reminders.go:26-27): each occurrence is claimed by one replica, and     *)
(* posted once, about to be, or lost to a failure.                          *)
THEOREM NeverPostedTwice == Spec => []ClaimedOnce
<1>1. IInv => ClaimedOnce
  BY DEF IInv
<1> QED BY <1>1, Invariant, PTL

(* "one active reminder each" (store_session.go:301), unless two commands   *)
(* set it at a time.                                                        *)
THEOREM OneReminderEach == Spec => []OneReminder
<1>1. IInv => OneReminder
  BY DEF IInv, Alone, Coming, OneReminder, Rows
<1> QED BY <1>1, Invariant, PTL
=============================================================================
