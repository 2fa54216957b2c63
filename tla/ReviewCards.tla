----------------------------- MODULE ReviewCards -----------------------------
(***************************************************************************)
(* The review of proposals in Discord (internal/gateway/handlers_review.go *)
(* and the listings of internal/db/store_proposals.go): messages that show *)
(* a pending proposal each, whose Approve, Reject, Edit and Skip buttons   *)
(* lead to the next one.  Every click runs on a goroutine of its own, so   *)
(* several work on one message, and extraction replaces the proposals      *)
(* under all of them.  What an approval writes is in Proposals.            *)
(*                                                                         *)
(* A row is its rank in the listing (created_at, id).  What it says is the *)
(* number of the Edit form that wrote it, 0 for the extraction.            *)
(***************************************************************************)
EXTENDS Naturals, Sequences

CONSTANTS
    Sessions,      \* sessions with proposals, of one campaign
    Cards,         \* messages that show a proposal
    Handlers,      \* interactions under way
    MaxRows,       \* bound: rows created
    MaxEdits       \* bound: Edit forms saved

ASSUME BoundsAssumption == MaxRows \in Nat /\ MaxEdits \in Nat

VARIABLES
    proposal,      \* proposal[p]: a row of state_proposals
    card,          \* card[m]: what message m shows
    handler        \* handler[h]: where the goroutine of an interaction is

VARIABLES          \* history
    edits,         \* Edit forms saved
    told,          \* told[p]: the verdicts on p that messages announced
    unheard        \* rows decided by a click that then failed

rows == <<proposal, edits>>
news == <<told, unheard>>
vars == <<rows, news, card, handler>>
-----------------------------------------------------------------------------
Rows == 1..MaxRows
Wordings == 0..MaxEdits
NoRow == [status |-> "absent"]
Gone == [status |-> "gone"]
Row == [status : {"pending", "approved", "rejected"}, session : Sessions, text : Wordings]

Idle == [pc |-> "idle"]
Clicked == {"clicked", "found", "decided", "update"}
Finished(why) == [shows |-> why]
Verdicts == {"approved", "rejected"}
(* What the note over the next card says of the click: who decided p says   *)
(* so, the others that it was decided, or that it is gone, or was skipped.  *)
NoNews == [p |-> 0, verdict |-> "none"]
News(p, verdict) == [p |-> p, verdict |-> verdict]
(* A message that shows p as text, when the row said at; pass: what it      *)
(* showed since the top of the queue, where start was pending.              *)
Showing(p, text, pass, start) ==
    [shows |-> "proposal", p |-> p, text |-> text, at |-> proposal[p].text,
     pass |-> pass, start |-> start]
Shown(p, pass, start) == Showing(p, proposal[p].text, pass, start)

First(S) == CHOOSE p \in S : \A q \in S : p <= q
PendingIn(S) == {p \in Rows : proposal[p].status = "pending" /\ proposal[p].session \in S}
Pending == PendingIn(Sessions)
Following(p) == {q \in Pending : q > p}

(* The head of a listing, or the note that there is nothing left. *)
FromTop(listed) == IF listed = {} THEN Finished("caught up")
                ELSE Shown(First(listed), {First(listed)}, listed)

Init ==
    /\ proposal = [p \in Rows |-> NoRow]
    /\ card = [m \in Cards |-> Finished("unused")] /\ handler = [h \in Handlers |-> Idle]
    /\ edits = 0 /\ told = [p \in Rows |-> <<>>] /\ unheard = {}

Live(m) ==
    card[m].shows = "proposal" \/ \E h \in Handlers : handler[h].pc \in Clicked /\ handler[h].m = m
At(h, pc) == handler[h].pc = pc
Becomes(h, state) == handler' = [handler EXCEPT ![h] = state]
Ends(h) == Becomes(h, Idle)
Announces(h, p) ==
    handler[h].pc \in {"decided", "update"} /\ handler[h].says.p = p
MovesTo(h, pc) == handler' = [handler EXCEPT ![h].pc = pc]
-----------------------------------------------------------------------------
(* An extraction replaces the pending rows of a session; overlapping ones   *)
(* may commit in the other order, so a new row may come before older ones.  *)
Replace(s) ==
    /\ \E batch \in (SUBSET {p \in Rows : proposal[p] = NoRow}) \ {{}} :
          proposal' = [p \in Rows |->
              IF p \in batch THEN [status |-> "pending", session |-> s, text |-> 0]
              ELSE IF p \in PendingIn({s}) THEN Gone ELSE proposal[p]]
    /\ UNCHANGED <<card, handler, edits, news>>

(* /review-session lists what is pending, of one session if it names one... *)
HandleReviewSession(h, S) ==
    /\ At(h, "idle") /\ PendingIn(S) # {}
    /\ Becomes(h, [pc |-> "create", content |-> FromTop(PendingIn(S))])
    /\ UNCHANGED <<rows, news, card>>

(* ... and a handler's new message shows what it had read; m stands for a   *)
(* message without buttons that no click is at work on.                     *)
CreateMessage(h, m) ==
    /\ At(h, "create") /\ ~Live(m)
    /\ card' = [card EXCEPT ![m] = handler[h].content]
    /\ Ends(h)
    /\ UNCHANGED <<rows, news>>

(* The answer is lost, or too late for Discord. *)
CreateFails(h) ==
    /\ At(h, "create")
    /\ Ends(h)
    /\ UNCHANGED <<rows, news, card>>

(* A click is a goroutine that knows the message and the proposal's id. *)
Click(h, m, verb) ==
    /\ At(h, "idle") /\ card[m].shows = "proposal"
    /\ Becomes(h, [pc |-> "clicked", verb |-> verb, m |-> m, p |-> card[m].p, on |-> card[m]])
    /\ UNCHANGED <<rows, news, card>>

(* GetStateProposal finds the row... *)
Lookup(h) ==
    /\ At(h, "clicked") /\ handler[h].verb # "edit" /\ proposal[handler[h].p] # Gone
    /\ MovesTo(h, "found")
    /\ UNCHANGED <<rows, news, card>>

(* ... or no row: the message is cleared. *)
LookupVanished(h) ==
    /\ At(h, "clicked") /\ proposal[handler[h].p] = Gone
    /\ Becomes(h, [pc |-> "update", m |-> handler[h].m, content |-> Finished("caught up"),
                   says |-> NoNews])
    /\ UNCHANGED <<rows, news, card>>

(* Edit opens a form filled in with the row, decided or not... *)
OpenForm(h) ==
    /\ At(h, "clicked") /\ handler[h].verb = "edit" /\ proposal[handler[h].p] # Gone
    /\ Becomes(h, [pc |-> "form", p |-> handler[h].p])
    /\ UNCHANGED <<rows, news, card>>

DismissForm(h) == At(h, "form") /\ Ends(h) /\ UNCHANGED <<rows, news, card>>

(* ... sent minutes later it replaces the text of a row still pending... *)
SubmitForm(h) ==
    /\ At(h, "form") /\ edits < MaxEdits
    /\ LET p == handler[h].p
       IN  /\ proposal[p].status = "pending"
           /\ proposal' = [proposal EXCEPT ![p].text = edits + 1]
           /\ Becomes(h, [pc |-> "saved", p |-> p, old |-> proposal[p].text])
    /\ edits' = edits + 1
    /\ UNCHANGED <<card, news>>

(* ... or is refused. *)
FormRefused(h) ==
    /\ At(h, "form") /\ proposal[handler[h].p].status # "pending"
    /\ Ends(h)
    /\ UNCHANGED <<rows, news, card>>

Reshown(h, text) ==
    /\ LET p == handler[h].p
       IN  IF proposal[p] = Gone THEN Ends(h)
           ELSE Becomes(h, [pc |-> "create", content |-> Showing(p, text, {p}, {p})])
    /\ UNCHANGED <<rows, news, card>>

(* Variant: what the form was filled in with is shown. *)
ReshowOld(h) == At(h, "saved") /\ Reshown(h, handler[h].old)

(* The row is read again, by its id, and shown in a new message. *)
Reshow(h) == At(h, "saved") /\ Reshown(h, proposal[handler[h].p].text)

Verdict(verb) == IF verb = "approve" THEN "approved" ELSE "rejected"

(* ApproveProposal and RejectProposal take effect, and answer whether this  *)
(* call decided the row.                                                    *)
Decides(h, possible) ==
    /\ At(h, "found") /\ handler[h].verb \in {"approve", "reject"}
    /\ LET p == handler[h].p
           verdict == Verdict(handler[h].verb)
       IN  /\ proposal' = IF possible THEN [proposal EXCEPT ![p].status = verdict] ELSE proposal
           /\ Becomes(h, [pc |-> "decided", m |-> handler[h].m,
                          says |-> IF possible THEN News(p, verdict) ELSE NoNews])
    /\ UNCHANGED <<card, edits, news>>

(* Variant: UPDATE ... WHERE id=$1. *)
DecideUnconditionally(h) == Decides(h, proposal[handler[h].p] # Gone)

(* The call that finds the row pending decides it.  Its answer may be lost, *)
(* or be an error although it took effect: ButtonFails then ends the click. *)
Decide(h) == Decides(h, proposal[handler[h].p].status = "pending")

(* advanceReviewForCampaign: the head of what is still pending. *)
AdvanceToHead(h) ==
    /\ At(h, "decided")
    /\ Becomes(h, [pc |-> "update", m |-> handler[h].m, content |-> FromTop(Pending),
                   says |-> handler[h].says])
    /\ UNCHANGED <<rows, news, card>>

(* Variant: the index moved by two. *)
NextButOne(on) ==
    IF on.p \notin Pending \/ Following(on.p) = {} THEN FromTop(Pending)
    ELSE LET later == Following(on.p)
             next == IF later = {First(later)} THEN First(later)
                     ELSE First(later \ {First(later)})
         IN  Shown(next, on.pass \cup {next}, on.start)

(* nextPendingIndex: past the last one it wraps to the top. *)
Next(on) ==
    IF on.p \notin Pending \/ Following(on.p) = {} THEN FromTop(Pending)
    ELSE LET next == First(Following(on.p)) IN Shown(next, on.pass \cup {next}, on.start)

(* advanceReviewAfter: a skipped proposal stays pending. *)
Skip(h) ==
    /\ At(h, "found") /\ handler[h].verb = "skip"
    /\ Becomes(h, [pc |-> "update", m |-> handler[h].m, content |-> Next(handler[h].on),
                   says |-> NoNews])
    /\ UNCHANGED <<rows, news, card>>

(* The message is edited in place: only now does the reviewer learn what    *)
(* the click did.                                                           *)
UpdateMessage(h) ==
    /\ At(h, "update")
    /\ card' = [card EXCEPT ![handler[h].m] = handler[h].content]
    /\ LET says == handler[h].says
       IN  told' = IF says = NoNews THEN told
                   ELSE [told EXCEPT ![says.p] = Append(@, says.verdict)]
    /\ Ends(h)
    /\ UNCHANGED <<rows, unheard>>

(* Any step may fail: the message says so and loses its buttons, or stays   *)
(* as it is when that too fails, or when the handler panics.  What was      *)
(* decided stays so, and nobody is told.                                    *)
ButtonFails(h) ==
    /\ handler[h].pc \in Clicked
    /\ \/ card' = [card EXCEPT ![handler[h].m] = Finished("failed")]
       \/ UNCHANGED card
    /\ unheard' = unheard \cup {p \in Rows : Announces(h, p)}
    /\ Ends(h)
    /\ UNCHANGED <<rows, told>>

(* The reader dismisses a message. *)
Dismiss(m) ==
    /\ card[m].shows = "proposal"
    /\ card' = [card EXCEPT ![m] = Finished("unused")]
    /\ UNCHANGED <<rows, news, handler>>

ReviewStep ==
    \/ \E s \in Sessions : Replace(s)
    \/ \E h \in Handlers :
          \/ \E S \in {{s} : s \in Sessions} \cup {Sessions} : HandleReviewSession(h, S)
          \/ \E m \in Cards : CreateMessage(h, m)
          \/ \E m \in Cards, verb \in {"approve", "reject", "edit", "skip"} : Click(h, m, verb)
          \/ CreateFails(h) \/ Lookup(h) \/ LookupVanished(h)
          \/ OpenForm(h) \/ DismissForm(h) \/ SubmitForm(h) \/ FormRefused(h) \/ Reshow(h)
          \/ Decide(h) \/ AdvanceToHead(h) \/ Skip(h) \/ UpdateMessage(h) \/ ButtonFails(h)
    \/ \E m \in Cards : Dismiss(m)

Spec == Init /\ [][ReviewStep]_vars
-----------------------------------------------------------------------------
Skips(h) == At(h, "found") /\ handler[h].verb = "skip" /\ handler'[h].pc = "update"

(* "That was the last one - back to the top of the queue" is true: by then  *)
(* each proposal that was pending all the time since the top was shown,     *)
(* however many clicks on however many messages decided others, and         *)
(* whatever new rows an extraction put between them.                        *)
Wraps(p) == p \in Pending /\ Following(p) = {} /\ Pending # {p}
SkipsShowAll ==
    [][\A h \in Handlers : Skips(h) /\ Wraps(handler[h].p) =>
          handler[h].on.start \cap Pending \subseteq handler[h].on.pass]_vars

(* Double clicks and several reviewers, whose calls answer late, or with an *)
(* error after they took effect: no two messages announce a decision, the   *)
(* one that does names the verdict that stands, and a decision nobody was   *)
(* told of has a click that is about to tell, or one that failed.           *)
ToldOnce ==
    \A p \in Rows :
        /\ told[p] # <<>> => proposal[p].status \in Verdicts /\ told[p] = <<proposal[p].status>>
        /\ proposal[p].status \in Verdicts =>
              told[p] # <<>> \/ p \in unheard \/ \E h \in Handlers : Announces(h, p)

(* What an approval makes canon is the text that the clicked message shows, *)
(* unless an Edit of it was saved after that text had been read: by another *)
(* reviewer, or by the same one, who left the older message behind.         *)
Approves(h) ==
    At(h, "found") /\ proposal[handler[h].p].status = "pending"
        /\ proposal'[handler[h].p].status = "approved"
ApprovedAsShown ==
    [][\A h \in Handlers : Approves(h) =>
          LET text == proposal[handler[h].p].text
          IN  text = handler[h].on.text \/ text > handler[h].on.at]_vars
=============================================================================
