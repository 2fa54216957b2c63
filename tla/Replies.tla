------------------------------- MODULE Replies --------------------------------
(***************************************************************************)
(* A command from its interaction to its last message: the dispatch and    *)
(* the reply helpers of internal/gateway/interactions.go, the commands     *)
(* that wait for the language model (handlers_ai.go), the conversation of  *)
(* messages.go, and the client with its retries (litellm/client.go).       *)
(*                                                                         *)
(* Commands share nothing here but the store, which other modules model:   *)
(* one command is followed, whatever it is and however long each call      *)
(* takes.  A handler is the sequence of what it does; time passes in ticks *)
(* while it waits for the store or the model.                              *)
(***************************************************************************)
EXTENDS Naturals, Sequences

CONSTANTS
    Window,          \* Discord takes a first response this long (3 s)
    TokenLife,       \* ... and edits and follow-ups this long (15 min)
    HandlerTimeout,  \* interactionTimeout
    VoiceTimeout,    \* deferredVoiceTimeout
    PurgeTimeout,    \* deferredPurgeTimeout
    RequestTimeout,  \* LITELLM_REQUEST_TIMEOUT: one attempt of the client
    Slack,           \* deferredSlack
    MaxRetries,      \* retries of the client
    MaxMessages,     \* maxFollowupMessages
    MaxChunks,       \* bound: pieces of a reply
    MaxFaults        \* bound: failures of Discord, the store or the model; panics

(* What a handler may take, deferred or not, fits in the time Discord allows. *)
ASSUME TimesAssumption ==
    /\ {Window, TokenLife, HandlerTimeout, VoiceTimeout, PurgeTimeout, RequestTimeout,
        Slack, MaxRetries, MaxMessages, MaxChunks, MaxFaults} \subseteq Nat
    /\ MaxMessages > 0 /\ RequestTimeout > 0 /\ HandlerTimeout <= TokenLife
    /\ Window + PurgeTimeout <= TokenLife /\ Window + VoiceTimeout <= TokenLife
    /\ Window + RequestTimeout + Slack <= TokenLife
-----------------------------------------------------------------------------
DeferredTimeout == RequestTimeout + Slack

(* What each handler does, in order; private is the visibility it gives     *)
(* its reply, budget the time it has once it deferred.                      *)
Handler(private, budget, steps) == [private |-> private, budget |-> budget, steps |-> steps]

Lore   == Handler(FALSE, DeferredTimeout, <<"check", "defer", "chat", "followupLong">>)
Recap  == Handler(FALSE, DeferredTimeout, <<"check", "query", "defer", "chat", "followupEmbedLong">>)
Ask    == Handler(FALSE, DeferredTimeout,
                  <<"check", "defer", "embed", "query", "tell", "chat", "followupLong">>)
Prep   == Handler(FALSE, DeferredTimeout, <<"check", "defer", "tell", "chat", "followupEmbedLong">>)
Art    == Handler(FALSE, HandlerTimeout, <<"check", "ack", "query", "followup">>)
Voice  == Handler(TRUE, VoiceTimeout, <<"check", "defer", "query", "followup">>)
Purge  == Handler(TRUE, PurgeTimeout, <<"check", "defer", "tell", "followup">>)
Show   == Handler(TRUE, HandlerTimeout, <<"check", "query", "replyEmbedLong">>)
List   == Handler(TRUE, HandlerTimeout, <<"check", "query", "replyLong">>)
Remind == Handler(FALSE, HandlerTimeout, <<"check", "query", "reply">>)
Mention == Handler(FALSE, DeferredTimeout, <<"chat", "sendReply">>)

Commands == {Lore, Recap, Ask, Prep, Art, Voice, Purge, Show, List, Remind}
Embeds == {"followupEmbedLong", "replyEmbedLong"}
Longs == Embeds \cup {"followupLong", "replyLong"}
Answers == Longs \cup {"reply", "followup"}

VARIABLES
    cmd, at,         \* the handler, and the step it is at
    doing,           \* "step"; "call", "send": in its course; "tell", "again",
                     \* "fail": after a failure; "done"
    now, deadline,   \* the time, and when the handler's context ends
    call,            \* the request to the model: its attempt, and since when
    reply,           \* the reply: its pieces after the first of an embed; whether
                     \* the model was cut off; the next piece to send
    original,        \* the response to the interaction, as the user sees it
    more             \* the follow-up messages after it

VARIABLES            \* history
    faults,
    refused,         \* Discord failed, or it was too late for a first response
    died             \* a panic

times == <<now, deadline>>
screen == <<original, more>>
past == <<faults, refused, died>>
replyVars == <<cmd, at, doing, times, call, reply, screen, past>>

None == [part |-> 0, shown |-> FALSE]
NoCall == [attempt |-> 0, since |-> 0]
-----------------------------------------------------------------------------
Step == cmd.steps[at]
Doing(what, step) == doing = what /\ Step = step
Least(a, b) == IF a < b THEN a ELSE b

(* boundChunks: the last of the messages a reply may have is marked; the    *)
(* model's reply that was cut off is marked at its end, before it is split. *)
FirstPart == IF Step \in Embeds \/ reply.chunks = 0 THEN 0 ELSE 1
LastPart == Least(reply.chunks, MaxMessages)
(* Variant: the reply is split first, and its first piece is marked. *)
MarkedFirst(part) ==
    \/ part = MaxMessages /\ reply.chunks > MaxMessages
    \/ part = FirstPart /\ reply.cut
Marked(part) ==
    \/ part = MaxMessages /\ reply.chunks > MaxMessages
    \/ part = reply.chunks /\ reply.cut
Message(part, private) ==
    [part |-> part, marked |-> Marked(part), private |-> private, shown |-> TRUE, error |-> FALSE]
Note(error, private) ==
    [part |-> 0, marked |-> FALSE, private |-> private, shown |-> TRUE, error |-> error]

ReplyInit ==
    /\ cmd \in Commands \cup {Mention} /\ at = 1 /\ doing = "step"
    /\ now = 0
    /\ deadline = IF cmd = Mention THEN DeferredTimeout ELSE HandlerTimeout
    /\ call = NoCall
    /\ reply \in [chunks : 0..MaxChunks, cut : BOOLEAN, next : {0}]
    /\ reply.cut => \E i \in 1..Len(cmd.steps) : cmd.steps[i] = "chat"
    /\ original = None /\ more = <<>>
    /\ faults = 0 /\ refused = FALSE /\ died = FALSE

Fault == faults < MaxFaults /\ faults' = faults + 1
Goes(what) == doing' = what
Advance == at' = at + 1 /\ Goes("step")
Stay == UNCHANGED at
Fixed == UNCHANGED <<cmd, deadline, now>>

Alive == now < deadline

(* Time passes while the handler waits, until its context ends or, in a     *)
(* request, the client's timeout.                                           *)
Tick ==
    /\ Alive
    /\ \/ doing = "step" /\ Step \in {"check", "query", "tell"}
       \/ doing = "call" /\ now < call.since + RequestTimeout
    /\ now' = now + 1
    /\ UNCHANGED <<cmd, at, doing, deadline, call, reply, screen, past>>
-----------------------------------------------------------------------------
(* Discord. *)
InWindow == cmd = Mention \/ now <= Window
InLife == cmd = Mention \/ now <= TokenLife
Responded == original # None

(* The first response, which Discord takes once, in time... *)
Respond(m) == ~Responded /\ InWindow /\ original' = m /\ UNCHANGED more
(* ... an edit of it, which keeps its visibility... *)
Edit(m) ==
    /\ Responded /\ InLife
    /\ original' = [m EXCEPT !.private = original.private]
    /\ UNCHANGED more
(* ... and a message after it. *)
Follow(m) == Responded /\ InLife /\ more' = Append(more, m) /\ UNCHANGED original
(* A call that fails, or that Discord refuses because it is not possible. *)
Refused(possible) ==
    /\ IF possible THEN Fault ELSE UNCHANGED faults
    /\ refused' = (refused \/ possible \/ ~Responded)
    /\ UNCHANGED <<died, screen>>
-----------------------------------------------------------------------------
(* Checks of the handler, and of routeCommand before it: the answer to one  *)
(* that does not pass is private.                                           *)
CheckPasses ==
    /\ Doing("step", "check") /\ Alive /\ Advance /\ Fixed
    /\ UNCHANGED <<call, reply, screen, past>>
CheckAnswers ==
    /\ Doing("step", "check")
    /\ \/ Respond(Note(FALSE, TRUE)) /\ Goes("done") /\ UNCHANGED past
       \/ Refused(~Responded /\ InWindow) /\ Goes("fail")
    /\ Stay /\ Fixed /\ UNCHANGED <<call, reply>>

(* A statement, or another piece of work, that may fail; a context that has *)
(* ended makes it fail.                                                     *)
Query ==
    /\ Doing("step", "query") /\ Alive /\ Advance /\ Fixed
    /\ UNCHANGED <<call, reply, screen, past>>
QueryFails ==
    /\ Doing("step", "query") /\ (IF Alive THEN Fault ELSE UNCHANGED faults)
    /\ Goes("fail") /\ Stay /\ Fixed
    /\ UNCHANGED <<call, reply, screen, refused, died>>

(* Nothing to work from, or a failure the handler words itself. *)
Tells ==
    /\ \/ Edit(Note(FALSE, TRUE)) /\ Goes("done") /\ UNCHANGED past
       \/ Refused(Responded /\ InLife) /\ Goes("fail")
    /\ Stay /\ Fixed /\ call' = NoCall /\ UNCHANGED reply
Tell == Doing("step", "tell") /\ Tells
TellPasses ==
    /\ Doing("step", "tell") /\ Alive /\ Advance /\ Fixed
    /\ UNCHANGED <<call, reply, screen, past>>

(* Variant: the deferred handler keeps working for as long as it takes. *)
DeferWithoutDeadline ==
    /\ doing = "step" /\ Step \in {"ack", "defer"}
    /\ \/ /\ Respond([Note(FALSE, cmd.private) EXCEPT !.shown = FALSE])
          /\ deadline' = IF Step = "defer" THEN TokenLife * 9 ELSE deadline
          /\ Advance /\ UNCHANGED past
       \/ Refused(~Responded /\ InWindow) /\ Goes("fail") /\ Stay /\ UNCHANGED deadline
    /\ UNCHANGED <<cmd, now, call, reply>>

(* ack, and ackLong, whose context lives for the handler's budget. *)
Defer ==
    /\ doing = "step" /\ Step \in {"ack", "defer"}
    /\ \/ /\ Respond([Note(FALSE, cmd.private) EXCEPT !.shown = FALSE])
          /\ deadline' = IF Step = "defer" THEN now + cmd.budget ELSE deadline
          /\ Advance /\ UNCHANGED past
       \/ Refused(~Responded /\ InWindow) /\ Goes("fail") /\ Stay /\ UNCHANGED deadline
    /\ UNCHANGED <<cmd, now, call, reply>>
-----------------------------------------------------------------------------
(* The client: an attempt... *)
CallBegins ==
    /\ doing = "step" /\ Step \in {"embed", "chat"}
    /\ Goes("call") /\ Stay /\ Fixed
    /\ call' = [attempt |-> 1, since |-> now]
    /\ UNCHANGED <<reply, screen, past>>

TimedOut == now >= call.since + RequestTimeout
CallAnswers ==
    /\ doing = "call" /\ Alive /\ ~TimedOut
    /\ Advance /\ Fixed /\ call' = NoCall
    /\ UNCHANGED <<reply, screen, past>>

(* ... which may fail in a way that is worth another try, unless there is   *)
(* none left or the context has ended...                                    *)
Retry ==
    /\ doing = "call" /\ Alive /\ call.attempt <= MaxRetries
    /\ (IF TimedOut THEN UNCHANGED faults ELSE Fault)
    /\ call' = [attempt |-> call.attempt + 1, since |-> now]
    /\ UNCHANGED <<cmd, at, doing, times, reply, screen, refused, died>>

(* ... or not.  /ask words the failure to embed its question; the others    *)
(* return it, and a conversation says it could not answer.                  *)
CallFails ==
    /\ doing = "call"
    /\ IF ~Alive \/ (TimedOut /\ call.attempt > MaxRetries) THEN UNCHANGED faults ELSE Fault
    /\ call' = NoCall /\ Stay /\ Fixed
    /\ Goes(IF Step = "embed" THEN "tell" ELSE "fail")
    /\ UNCHANGED <<reply, screen, refused, died>>
CallTells == doing = "tell" /\ Tells
-----------------------------------------------------------------------------
(* The reply: reply and followup send one message, the long ones a first    *)
(* part and the rest as follow-ups.                                         *)
ReplyBegins ==
    /\ doing = "step" /\ Step \in Answers
    /\ Goes("send") /\ Stay /\ Fixed
    /\ LET c == IF Step \in Longs THEN reply.chunks ELSE 1
           r == [reply EXCEPT !.chunks = c]
       IN  reply' = [r EXCEPT !.next = IF Step \in Embeds \/ c = 0 THEN 0 ELSE 1]
    /\ UNCHANGED <<call, screen, past>>

PartSent ==
    /\ reply' = [reply EXCEPT !.next = @ + 1]
    /\ Goes(IF reply.next = LastPart THEN "done" ELSE "send")
    /\ UNCHANGED past
PartRefused(possible) == Refused(possible) /\ Goes("fail") /\ UNCHANGED reply

SendFirst ==
    /\ doing = "send" /\ reply.next = FirstPart
    /\ LET m == Message(reply.next, cmd.private)
           deferred == Step \in {"followup", "followupLong", "followupEmbedLong"}
       IN  \/ (IF deferred THEN Edit(m) ELSE Respond(m)) /\ PartSent
           \/ PartRefused(IF deferred THEN Responded /\ InLife ELSE ~Responded /\ InWindow)
    /\ Stay /\ Fixed /\ UNCHANGED call

(* Variant: follow-ups without the flag. *)
SendFollowupsPublicly ==
    /\ doing = "send" /\ reply.next # FirstPart
    /\ \/ Follow(Message(reply.next, FALSE)) /\ PartSent
       \/ PartRefused(Responded /\ InLife)
    /\ Stay /\ Fixed /\ UNCHANGED call

(* sendFollowups: the flag of the reply helpers, none for the followup ones. *)
SendFollowups ==
    /\ doing = "send" /\ reply.next # FirstPart
    /\ LET private == cmd.private /\ Step \in {"replyLong", "replyEmbedLong"}
       IN  \/ Follow(Message(reply.next, private)) /\ PartSent
           \/ PartRefused(Responded /\ InLife)
    /\ Stay /\ Fixed /\ UNCHANGED call

(* A conversation's answer is one message, its end cut to fit and marked;   *)
(* it is sent as a reply and, if that fails, once more without.  Discord    *)
(* takes no empty message.                                                  *)
Worded == reply.chunks > 0 \/ reply.cut
Whole == [Message(Least(1, reply.chunks), FALSE) EXCEPT !.marked = reply.cut \/ reply.chunks > 1]
SendReply ==
    /\ Doing("step", "sendReply")
    /\ \/ Worded /\ original' = Whole /\ Goes("done") /\ UNCHANGED <<more, past>>
       \/ /\ IF Worded THEN Fault ELSE UNCHANGED faults
          /\ Goes("again") /\ UNCHANGED <<screen, refused, died>>
    /\ Stay /\ Fixed /\ UNCHANGED <<call, reply>>
SendReplyAgain ==
    /\ doing = "again"
    /\ \/ Worded /\ original' = Whole /\ UNCHANGED <<more, past>>
       \/ Worded /\ Refused(TRUE)
       \/ ~Worded /\ UNCHANGED <<screen, past>>
    /\ Goes("done") /\ Stay /\ Fixed /\ UNCHANGED <<call, reply>>
-----------------------------------------------------------------------------
(* replyError, after an error or a panic: an edit of the response, of which *)
(* an embed stays, or else a response.                                      *)
EditError ==
    original' = IF Step \in Embeds /\ original.shown
                THEN [original EXCEPT !.error = TRUE]
                ELSE Note(TRUE, original.private)
ReplyError ==
    /\ doing = "fail" /\ cmd # Mention
    /\ \/ Responded /\ InLife /\ EditError /\ UNCHANGED <<more, past>>
       \/ Respond(Note(TRUE, TRUE)) /\ UNCHANGED past
       \/ Refused((Responded /\ InLife) \/ (~Responded /\ InWindow))
    /\ Goes("done") /\ Stay /\ Fixed /\ UNCHANGED <<call, reply>>

MentionError ==
    /\ doing = "fail" /\ cmd = Mention
    /\ \/ original' = Note(TRUE, FALSE) /\ UNCHANGED <<more, past>>
       \/ Refused(TRUE)
    /\ Goes("done") /\ Stay /\ Fixed /\ UNCHANGED <<call, reply>>

(* A panic is recovered: a command answers that something went wrong, a     *)
(* conversation is left without an answer.                                  *)
Panics ==
    /\ doing \in {"step", "call"} /\ Fault /\ died' = TRUE
    /\ Goes(IF cmd = Mention THEN "done" ELSE "fail") /\ Stay /\ Fixed
    /\ UNCHANGED <<call, reply, screen, refused>>
-----------------------------------------------------------------------------
Proceed ==
    \/ CheckPasses \/ CheckAnswers \/ Query \/ QueryFails \/ Tell \/ TellPasses \/ Defer
    \/ CallBegins \/ CallAnswers \/ Retry \/ CallFails \/ CallTells
    \/ ReplyBegins \/ SendFirst \/ SendFollowups \/ SendReply \/ SendReplyAgain
    \/ ReplyError \/ MentionError
ReplyNext == Tick \/ Proceed \/ Panics

(* Either time passes or the goroutine goes on. *)
ReplySpec == ReplyInit /\ [][ReplyNext]_replyVars /\ WF_replyVars(Tick \/ Proceed)
-----------------------------------------------------------------------------
Texts == (IF original.shown THEN <<original>> ELSE <<>>) \o more

(* Every command ends with something the user sees, in the time Discord     *)
(* allows (interactions.go:48-57): unless Discord itself failed, or the     *)
(* first response was late, or a conversation panicked or the model's       *)
(* answer to it was empty.                                                  *)
Unheard == refused \/ (cmd = Mention /\ (died \/ ~Worded))
CommandAnswered == <>(doing = "done" /\ (Texts # <<>> \/ Unheard))

(* "otherwise the overflow of an ephemeral reply would be posted publicly"  *)
(* (interactions.go:182-183): nothing of a private reply is public,         *)
(* its continuation and its error included.                                 *)
StaysPrivate == cmd.private => \A i \in 1..Len(Texts) : Texts[i].private

(* What is shown of a reply is a beginning of it, in order, whose first     *)
(* message an error may have replaced; with no error it is all of it, or    *)
(* its last message says that there was more, be it cut by the model, by    *)
(* the bound on messages or to fit one.                                     *)
Erred == \E i \in 1..Len(Texts) : Texts[i].error
Answered == doing = "done" /\ Step \in Answers \cup {"sendReply"} /\ Texts # <<>> /\ ~Erred
CompleteOrMarked ==
    /\ \A i \in 1..Len(more) : more[i].part = FirstPart + i
    /\ Answered /\ ~refused =>
          LET final == Texts[Len(Texts)]
          IN  /\ original.part = IF cmd = Mention THEN Least(1, reply.chunks) ELSE FirstPart
              /\ final.marked \/ (final.part = reply.chunks /\ ~reply.cut)
=============================================================================
