------------------------------ MODULE Reminders -------------------------------
(***************************************************************************)
(* The weekly reminder of a campaign: /remind set and clear                *)
(* (internal/gateway/handlers_misc.go), the loop that every gateway        *)
(* replica runs (reminders.go) and the statements of store_session.go.     *)
(*                                                                         *)
(* Time passes in ticks, Week of them to a week; a schedule is the tick of *)
(* the week at which it falls due.  A statement commits by itself.         *)
(***************************************************************************)
EXTENDS Naturals

CONSTANTS
    Replicas,      \* gateway replicas
    Week,          \* ticks of a week
    MaxNow,        \* bound: ticks that pass
    MaxSets,       \* bound: /remind set commands
    MaxFaults      \* bound: failures of the database, Discord or a gateway

ASSUME WeekAssumption == Week \in Nat \ {0}
ASSUME BoundsAssumption == {MaxNow, MaxSets, MaxFaults} \subseteq Nat

VARIABLES
    campaign,      \* whether the campaign exists
    reminder,      \* reminder[i]: a row of reminders of the campaign
    setter,        \* setter[i]: where the command that sets reminder i is
    loop           \* loop[g]: where a replica's loop is

VARIABLES          \* history
    now, sets, faults,
    posts,         \* posts[i, t]: how often the reminder i due at t was posted
    claimed,       \* occurrences that some replica claimed
    lost,          \* those of them that a failure kept from being posted
    crowded        \* a reminder was set while another was being set

table == <<campaign, reminder>>
counters == <<now, sets, faults>>
outcome == <<posts, claimed, lost>>
vars == <<table, setter, loop, counters, outcome, crowded>>
-----------------------------------------------------------------------------
Ids == 1..MaxSets
Slots == 0..(Week - 1)
Times == 0..(MaxNow + Week)
NoRow == [slot |-> Week]
Idle == [pc |-> "idle"]
Occurrence(i) == <<i, reminder[i].next>>
Rows == {i \in Ids : reminder[i] # NoRow}

(* nextWeekly: today's or a later day's, next week's if that is not after from. *)
NextWeekly(from, slot) ==
    LET candidate == from + ((slot + Week - (from % Week)) % Week)
    IN  IF candidate > from THEN candidate ELSE candidate + Week

Init ==
    /\ campaign = TRUE /\ reminder = [i \in Ids |-> NoRow]
    /\ setter = [i \in Ids |-> Idle] /\ loop = [g \in Replicas |-> Idle]
    /\ now = 0 /\ sets = 0 /\ faults = 0
    /\ posts = [o \in Ids \X Times |-> 0] /\ claimed = {} /\ lost = {} /\ crowded = FALSE

Fault == faults < MaxFaults /\ faults' = faults + 1 /\ UNCHANGED <<now, sets>>

Tick ==
    /\ now < MaxNow /\ now' = now + 1
    /\ UNCHANGED <<table, setter, loop, sets, faults, outcome, crowded>>
-----------------------------------------------------------------------------
DeleteRows == reminder' = [i \in Ids |-> NoRow]
Setting(i) == setter[i] # Idle
SetEnds(i) == setter' = [setter EXCEPT ![i] = Idle]

(* Variant: the reminder is added to the others. *)
SetKeeps(slot) ==
    /\ campaign /\ sets < MaxSets
    /\ sets' = sets + 1
    /\ setter' = [setter EXCEPT ![sets + 1] =
                     [pc |-> "insert", row |-> [slot |-> slot, next |-> NextWeekly(now, slot)]]]
    /\ crowded' = (\E i \in Ids : Setting(i))
    /\ UNCHANGED <<table, loop, now, faults, outcome>>

(* /remind set: CreateReminder deletes the campaign's reminder... *)
SetDeletes(slot) ==
    /\ campaign /\ sets < MaxSets
    /\ sets' = sets + 1
    /\ DeleteRows
    /\ setter' = [setter EXCEPT ![sets + 1] =
                     [pc |-> "insert", row |-> [slot |-> slot, next |-> NextWeekly(now, slot)]]]
    /\ crowded' = (\E i \in Ids : Setting(i))
    /\ UNCHANGED <<campaign, loop, now, faults, outcome>>

(* ... and inserts the new one, in a second statement... *)
SetInserts(i) ==
    /\ Setting(i) /\ campaign
    /\ reminder' = [reminder EXCEPT ![i] = setter[i].row]
    /\ SetEnds(i)
    /\ UNCHANGED <<campaign, loop, counters, outcome, crowded>>

(* ... which fails with the database, or because the campaign has gone. *)
SetFails(i) ==
    /\ Setting(i) /\ (IF campaign THEN Fault ELSE UNCHANGED counters)
    /\ SetEnds(i)
    /\ UNCHANGED <<table, loop, outcome, crowded>>

Clear ==
    /\ campaign /\ Rows # {}
    /\ DeleteRows
    /\ UNCHANGED <<campaign, setter, loop, counters, outcome, crowded>>

(* /campaign delete takes the reminder along. *)
DeleteCampaign ==
    /\ campaign /\ campaign' = FALSE
    /\ DeleteRows
    /\ UNCHANGED <<setter, loop, counters, outcome, crowded>>
-----------------------------------------------------------------------------
(* Variant: next_run = now. *)
DueExactly == {i \in Rows : reminder[i].next = now}
Due == {i \in Rows : reminder[i].next <= now}

(* A tick of the loop reads what is due... *)
DueReminders(g) ==
    /\ loop[g] = Idle /\ Due # {}
    /\ loop' = [loop EXCEPT ![g] =
                  [pc |-> "tick", due |-> {[id |-> i, row |-> reminder[i]] : i \in Due}]]
    /\ UNCHANGED <<table, setter, counters, outcome, crowded>>

Next(d) == NextWeekly(now, d.row.slot)
Without(g, d) == loop[g].due \ {d}
Claims(g, d, next) ==
    /\ reminder' = [reminder EXCEPT ![d.id].next = next]
    /\ claimed' = claimed \cup {<<d.id, d.row.next>>}
    /\ loop' = [loop EXCEPT ![g] = [pc |-> "post", due |-> Without(g, d), id |-> d.id, next |-> d.row.next]]
    /\ UNCHANGED <<campaign, setter, counters, posts, lost, crowded>>
Passes(g, d) ==
    /\ loop' = [loop EXCEPT ![g].due = Without(g, d)]
    /\ UNCHANGED <<table, setter, counters, outcome, crowded>>

(* Variant: WHERE id=$1. *)
ClaimWithoutExpected(g, d) ==
    /\ loop[g].pc = "tick" /\ d \in loop[g].due
    /\ IF d.id \in Rows THEN Claims(g, d, Next(d)) ELSE Passes(g, d)

(* ... and claims each: the conditional UPDATE moves it to the occurrence   *)
(* after the present time, unless another replica did, or it is gone.       *)
ClaimReminder(g, d) ==
    /\ loop[g].pc = "tick" /\ d \in loop[g].due
    /\ IF reminder[d.id] = d.row THEN Claims(g, d, Next(d)) ELSE Passes(g, d)

(* An error: the UPDATE was made all the same, or not. *)
ClaimFails(g, d) ==
    /\ loop[g].pc = "tick" /\ d \in loop[g].due /\ Fault
    /\ loop' = [loop EXCEPT ![g].due = Without(g, d)]
    /\ \/ /\ reminder[d.id] = d.row
          /\ reminder' = [reminder EXCEPT ![d.id].next = Next(d)]
          /\ claimed' = claimed \cup {<<d.id, d.row.next>>}
          /\ lost' = lost \cup {<<d.id, d.row.next>>}
       \/ UNCHANGED <<reminder, claimed, lost>>
    /\ UNCHANGED <<campaign, setter, posts, crowded>>

Posted(g) == [pc |-> "tick", due |-> loop[g].due]

(* The one that won the claim posts... *)
Post(g) ==
    /\ loop[g].pc = "post"
    /\ posts' = [posts EXCEPT ![<<loop[g].id, loop[g].next>>] = @ + 1]
    /\ loop' = [loop EXCEPT ![g] = Posted(g)]
    /\ UNCHANGED <<table, setter, counters, claimed, lost, crowded>>

(* ... or fails to, which is logged. *)
PostFails(g) ==
    /\ loop[g].pc = "post" /\ Fault
    /\ lost' = lost \cup {<<loop[g].id, loop[g].next>>}
    /\ loop' = [loop EXCEPT ![g] = Posted(g)]
    /\ UNCHANGED <<table, setter, posts, claimed, crowded>>

TickEnds(g) ==
    /\ loop[g].pc = "tick" /\ loop[g].due = {}
    /\ loop' = [loop EXCEPT ![g] = Idle]
    /\ UNCHANGED <<table, setter, counters, outcome, crowded>>

(* A panic ends the tick, a crash ends the gateway, and the next tick, of   *)
(* the restarted gateway if need be, starts over.                           *)
TickPanics(g) ==
    /\ loop[g] # Idle /\ Fault
    /\ lost' = IF loop[g].pc = "post" THEN lost \cup {<<loop[g].id, loop[g].next>>} ELSE lost
    /\ loop' = [loop EXCEPT ![g] = Idle]
    /\ UNCHANGED <<table, setter, posts, claimed, crowded>>
-----------------------------------------------------------------------------
Loop(g) ==
    \/ DueReminders(g) \/ Post(g) \/ TickEnds(g)
    \/ \E d \in IF loop[g].pc = "tick" THEN loop[g].due ELSE {} : ClaimReminder(g, d)

Step ==
    \/ Tick \/ Clear \/ DeleteCampaign
    \/ \E slot \in Slots : SetDeletes(slot)
    \/ \E i \in Ids : SetInserts(i) \/ SetFails(i)
    \/ \E g \in Replicas :
          \/ Loop(g) \/ PostFails(g) \/ TickPanics(g)
          \/ \E d \in IF loop[g].pc = "tick" THEN loop[g].due ELSE {} : ClaimFails(g, d)

(* The ticker of every replica goes on. *)
Fairness == \A g \in Replicas : WF_vars(Loop(g))
Spec == Init /\ [][Step]_vars /\ Fairness
-----------------------------------------------------------------------------
(* "a crash mid-claim drops one reminder rather than double-posting"        *)
(* (reminders.go:26-27): over all replicas, failures and /remind commands,  *)
(* each occurrence is claimed once, and then posted once, about to be       *)
(* posted by one replica, or lost.                                          *)
InHand(o) == {g \in Replicas : loop[g].pc = "post" /\ <<loop[g].id, loop[g].next>> = o}
ClaimedOnce ==
    \A o \in Ids \X Times :
        /\ posts[o] <= (IF o \in claimed \ lost THEN 1 ELSE 0)
        /\ \A g, k \in InHand(o) : g = k
        /\ o \in claimed => (posts[o] = 1 \/ o \in lost \/ InHand(o) # {})
        /\ InHand(o) # {} => posts[o] = 0

(* "one active reminder each" (store_session.go:301): unless two commands   *)
(* set it at a time, when both rows stay until it is next set or cleared.   *)
OneReminder == \A i, j \in Rows : i = j \/ crowded

(* What is due is claimed or removed, however late the loop comes to it. *)
Overdue(i) == i \in Rows /\ reminder[i].next <= now
DueIsTaken == \A i \in Ids : Overdue(i) ~> ~Overdue(i)
=============================================================================
