# Formal models of discord-dnd-bot

TLA+ models of the Discord bot in `src/`, model-checked with TLC, with theorems checked by TLAPS. Every
definition is a translation of the source; `PROJECT.json` gives the lines each one stands for, the runs, the
mutants that show what each property can catch, the hazards, the findings and the theorems.

## 1. The system

Two Go programs share PostgreSQL, Redis and an object store.

* The **gateway** (`cmd/gateway`, `internal/gateway`) keeps the Discord connection: slash commands, forms and
  buttons, voice receive. One replica; each interaction runs on a goroutine of its own.
* The **workers** (`cmd/worker`, `internal/worker`) run jobs: transcription and notes, extraction, embeddings, art.
  KEDA scales them between 0 and 1 on the length of the two Redis lists; a rolling update overlaps two.

| component (source) | state it keeps | operations | interacts with | hard behaviour | what makes it correct | model |
|---|---|---|---|---|---|---|
| job queue (`queue/queue.go`) | Redis lists *jobs* and *jobs:processing* | Enqueue, Dequeue, Ack, Requeue, ReapOrphans, Depth | gateway enqueues; workers drain; KEDA watches | kills between two commands, replies lost, two reapers | an accepted job is run to a verdict or still in Redis | JobQueue |
| worker run loop (`worker/worker.go`, `cmd/worker`) | slots, the job in hand, the run context | Run, process, maybeRequeue, panics, SIGTERM | queue, handlers | drain, cancel, retry, panic, last attempt | bounded runs, one holder, drain ends | JobQueue |
| session commands (`handlers_session.go`) | none of its own | start, stop, requeue (status and list read) | sessions table, voice manager, queue | check-then-act over a handshake of up to 40 s | the row and the recording agree | SessionLifecycle |
| voice manager and recorder (`voice.go`) | recordings by guild; per speaker a track of frames and a chunk number | join, stop, stopAll, resumeActive, reapStale, mixFrame, checkpoint | object store, sessions table, queue | late packets, timestamps that wrap, failed and slow uploads, crash, resume, bounded waits | no frame lost, doubled or out of order; nobody wedged | SessionLifecycle, Recorder, CampaignPurge |
| sessions table (`store_session.go`, `0001_init.sql`) | status, transcript, notes, heartbeat; one recording row per guild | create, end, set result, heartbeat, listings | all of the above | unconditional updates by key | *processing* always leads somewhere | SessionLifecycle, CampaignPurge |
| transcription job (`transcribe.go`, `roster.go`, `chat.go`) | none of its own | transcribe, notes, markFailed, announce | object store, STT and chat servers, sessions table | partial failure, retry, last attempt | results kept, session settles; all that was recorded is heard | SessionLifecycle, TrackSegments |
| gateway process (`gateway.go`, `cmd/gateway`) | readiness | Open, resume goroutine, reaper ticker, Close | voice manager | death and restart | as for the recorder | SessionLifecycle |
| extraction job (`worker/extract.go`, `extract/`) | none of its own | read canon, ask the model, repair, parse, merge and filter its answer, replace pending proposals | proposals, world store, model | overlap with reviews and with itself; an answer cut anywhere | no duplicates, no decided row touched, nothing finished is lost | Proposals, Extraction |
| review (`handlers_review.go`, `store_proposals.go`) | table `state_proposals`; what each message shows | approve, reject, edit, skip | world store, embeddings, Discord | double clicks, stale messages, retries, answers that are lost, READ COMMITTED | applied once, as approved; every card is shown | Proposals, ReviewCards |
| world store (`store_world.go`, `handlers_world.go`, `handlers_entity_modals.go`) | entities and characters | add, edit, delete, through forms | proposals, embeddings | forms open for minutes | nothing written is lost unseen | Proposals |
| canon embeddings (`worker/embed.go`, `store_embeddings.go`, `canon_text.go`) | tables `canon_embeddings`, `session_embeddings` | embed, upsert, delete, reindex | world store, queue | jobs out of order, delete while embedding, transcripts changed by failed and requeued jobs | no stale or ghost embedding | CanonEmbed |
| reminders (`reminders.go`, `handlers_misc.go`) | table `reminders` | set, clear, claim due, post | Discord, campaigns | replicas, crash between claim and post | posted at most once, never stuck | Reminders |
| dispatch and replies (`interactions.go`, `handlers_ai.go`, `messages.go`) | deadlines; what the user sees | check, defer, query, call the model, reply in parts | Discord, model, store | 3 s and 15 min limits, timeouts, panics, partial replies | every command is answered; private stays private | Replies |
| language model client (`litellm/client.go`, `worker/chat.go`) | none | request, retry, continue a cut answer | model | timeouts, retries, truncation | bounded, nothing dropped | Replies, Extraction |
| splitting, audio (`discordfmt`, `audio/wav.go`, `transcribe.go`) | none | split, truncate, trim, downmix, segment | | boundaries | within limits, nothing lost | MessageSplitting, TextSplitting, TrackSegments |
| campaigns and users (`store_campaign.go`, `store_user.go`, `handlers_world.go`) | campaigns, the active one, members | select, create, delete with the purge of its audio | everything, by foreign key; object store | delete under a running session | no row of a deleted campaign, no audio that nothing names | CampaignPurge; the cascade also in CanonEmbed and Reminders |
| object storage (`storage/storage.go`) | chunks by key | put, get, list and delete by prefix, in pages | recorder, transcription job, campaign deletion | a page fails; a put lands after a listing | a key is replaced whole; a deletion reports what it left | Recorder, CampaignPurge |
| dice, rendering, prompts, config, logging, metrics, HTTP | none that the properties are about | | | | | not modelled |

## 2. The modules

| module | what it is |
|---|---|
| `JobQueue` | the queue and the workers, with Redis failures, kills, SIGTERM, panics and KEDA |
| `AtLeastOnce` | what the queue promises its callers |
| `MCJobQueue` | instances for TLC; the refinement mapping from JobQueue to AtLeastOnce |
| `SessionLifecycle`, `MCSessionLifecycle` | a guild's sessions: commands, voice manager, reaper, resume, table, transcription job |
| `Recorder` | the audio of one session: tracks, checkpoints, chunks, crashes, resume |
| `Tape` | what a recorder promises of the frames it hears; Recorder implements it |
| `Proposals`, `MCProposals` | extraction, review and hand-written changes of the campaign's records |
| `ReviewCards`, `MCReviewCards` | the messages, buttons and forms of a review |
| `CanonEmbed` | what /ask searches: embeddings of records and transcripts, and /reindex |
| `Reminders` | the weekly reminder: commands, and the loop of every gateway replica |
| `Replies` | a command or a conversation from its arrival to its last message |
| `TrackSegments` | from one speaker's chunks to the recordings the speech model is sent |
| `MessageSplitting` | from a text of any length to pieces that Discord takes |
| `TextSplitting`, `Extraction` | the algorithms without state: cutting text elsewhere, reading the model's answer |
| `MCAlgorithms` | the inputs TLC gives to these four |
| `CampaignPurge`, `MCCampaignPurge` | the deletion of a campaign and of its audio, beside a recording |
| `JobQueueProofs`, `SessionLifecycleProofs`, `ProposalsProofs`, `CanonEmbedProofs`, `RemindersProofs`, `CampaignPurgeProofs` | theorems about the module of that name, with their proofs |
| `AudioProofs` | those about Recorder and TrackSegments |
| `InteractionProofs` | those about ReviewCards, Replies and MessageSplitting |

**How they compose.** A module treats its neighbours by what they promise. SessionLifecycle's jobs behave as
AtLeastOnce says: a job runs, may run again, and can be lost only in a Requeue (`RetryLost`, counted in `cut`). It may
also be stranded on the processing list, as JobQueue shows, until some worker starts (`Stranded`, `Recovered`).
SessionLifecycle only knows *whether* a session has chunks, CampaignPurge which, Recorder what is in them. Handlers are
opaque in JobQueue; SessionLifecycle opens the transcription handler, Proposals the extraction handler and CanonEmbed
the embedding and reindex handlers. What an approval writes is in Proposals, which message leads to it in ReviewCards.

Operators whose comment starts with *Variant:* are plausible bugs. They are not part of any `Next`; each stands
beside the definition it varies and is listed in `PROJECT.json` with the property that catches it.

### JobQueue

`pending` and `processing` are the two lists, oldest end first; `phase[w]` is where a worker's `Run` is; `thread[t]`
is what a goroutine has in hand, goroutine 0 being the `Run` loop, which pops a job before it has a slot for it.
A step is one Redis command or one decision of the worker: `Requeue` is the two steps `RequeueRemove` and
`RequeuePush`, and between them the job is on neither list. `HandlerFails` makes the tests of `maybeRequeue` in the
code's order (permanent, exhausted, shutting down, otherwise requeue). `Ack` removes *by value*, so with two workers
it may remove the copy of the other's run. Each Redis command has a failing twin, and `DequeueReplyLost` is a
BRPOPLPUSH that took effect without an answer. `Kill` ends every goroutine of a worker at any point.
`verdict`, `runs`, `reaps`, `cut` and `twinned` record what happened; no action reads them.

### SessionLifecycle

The steps are the accesses to shared state between which other goroutines can run: a query, an update, an access to
the voice manager's map, the voice handshake. So `/session start` is `StartLookup` (query), `StartCheck` (map),
`StartClear` (update), `StartCreate` (insert, under the partial unique index on recording rows), `JoinCheck` (map),
`JoinOpened` or `JoinGivesUp` (handshake, map), `StartRollback`. `proc[p]` holds what a goroutine read earlier and
acts on later: that is where stale state comes from. `fresh` is the set of sessions whose heartbeat is younger than
the reaper's limit. A transcription job lists the chunks once, when it begins. Every update that the code makes
without looking at the result (`markFailed`, the rollbacks, the reaper) can fail silently.
A job at `stranded` has its body on the processing list and nobody working on it, after a panic, a lost reply of
BRPOPLPUSH, or a Requeue or Ack that failed in Redis. `cut` collects sessions whose hand-over to a job failed half way,
`overlap` says that some process ran while another was in a voice handshake.

### Recorder

A frame is a place on a recording's timeline. `track[u]` is the part of the timeline still in memory (`base`, `len`)
with the number of its next chunk; `chunk[u][n]` is an object in storage, the set of frames in it. A packet is named by
the time it was sent and arrives up to `Lateness` later; `anchor[u]` is what the code takes from a speaker's first
packet, its RTP timestamp and the frame of its arrival, and `FrameIndexFor` the unsigned difference from it, in frames
and modulo `Wrap`. So a packet sent before the first but arriving after it is placed a wrap ahead, and `Accepted`
refuses it. An upload is three steps: it starts with a snapshot, lands in storage (replacing the key), and returns or
fails, whether it landed or not. The checkpoint loop and the last flush of a stop are two flushers, which the code keeps
apart by a wait of 5 s (3 s in `stopAll`) although a Put may take 20 s; `LastFlush` therefore needs nothing of the loop.
A resume numbers its chunks after those in storage, or from the start when List fails, an error that the code ignores
(`Counted`). `heard` is every frame mixed in; `forgone` what a crash, an exit or a failed last upload gave up with the
memory; `exposed` what the code may lose or store twice: what a track holds whose chunk both flushers are uploading
(`Contested`), and what is in storage when a resume starts numbering below it.
`Tape` knows nothing of tracks, chunks or numbers: frames are held, stored, and let go of once they are stored, given up
or exposed. Recorder maps to it with `held` as the frames in memory and `stored` as those in any chunk (`KeepsTape`).

### Proposals

`canon[n]` is the record of a name, its description taken as a set of details; `proposal[p]` is a row. PostgreSQL
runs at READ COMMITTED: the claim of an approval locks its row to the end of the transaction; the description is
read by an unlocked SELECT (`Resolve`) and written from what was read (`ApproveAppends`, or `ApproveCreates` with its
ON CONFLICT). `ReplaceStarts` is the moment the DELETE of an extraction sees the pending rows, `ReplaceCommits` the
end of its waiting. Forms hold what they showed until they are submitted. `written` is what writers put into the
records that exist, `raced` the records whose writer had read an older description.

### ReviewCards

`proposal[p]` is a row at its rank in the listing, with the number of the Edit form that last wrote it; `card[m]` is what
a message shows, with what it has shown since the top of the queue (`pass`) and what was pending there (`start`);
`handler[h]` is the goroutine of an interaction. A click is a goroutine that knows a message and an identifier
(`Click`), reads the row (`Lookup`), decides it by a conditional update (`Decide`), lists what is pending
(`AdvanceToHead`, `Skip`) and edits the message (`UpdateMessage`); any of it may fail, a decision also after it took
effect. The reviewer learns of a decision by the last step only: `told[p]` is what messages announced of a row, and
`unheard` the decisions whose click failed before it could. Between two steps of one click others, forms (`SubmitForm`)
and extractions (`Replace`) run.

### CanonEmbed

A record's text is the number of the save that wrote it. A save is two steps of the gateway, `Save` and
`EnqueueCanonEmbed`, and so is a deletion; the second may fail, which the code only logs (`lost`). A job reads the record
(`EmbedReads`), calls the model, and upserts what it read (`EmbedWrites`). A reindex (`ReindexBegins` to `ReindexEnds`)
walks three lists, each read when it is begun. A session's transcript is written in more ways than one. `TranscriptSaved`
is the successful job, which then embeds it; `TranscriptKept` a save that is not followed by an embedding (no notes, the
worker goes down, or an error after the save took effect); `MarkFailed` empties it; `RequeueReads` and `RequeueWrites`
are the two halves of `/session requeue`, which writes back what it had read. None of the last three embeds anything or
deletes old passages. `overtaken` is the set of records whose right embedding was replaced by an older one: two jobs of
one record that end in the other order. `unindexed` are the sessions whose transcript was last changed by one of those
three writes.

### Reminders

A week has `Week` ticks and a schedule is one of them; `reminder[i]` has its slot and its next tick. Setting one is a
DELETE (`SetDeletes`) and an INSERT (`SetInserts`). Each replica's loop reads what is due, claims each by the
conditional update (`ClaimReminder`) and posts what it claimed. A claim whose answer is an error may have been made.

### Replies

One command is followed through time. `cmd` is one of the handlers, the sequence of what it does; `doing` is its place in
the present step; `deadline` is when its context ends. `original` and `more` are what the user sees. Time passes while
the handler waits for the store, for its own work, or for the model; a call to Discord takes no time, but may fail, and is refused when it
comes outside the 3 seconds or 15 minutes that Discord allows. `Retry` is the client's next attempt.

### CampaignPurge

`row[s]` is a session's row: recording or ended, of which campaign, and whether its `chunk_prefix` is in it yet (`named`);
`chunk` is object storage, `rec` the recording in memory, `command` the session command or the resume under way.
`purge[d]` is a `/campaign delete`: it reads the prefixes of the campaign's sessions, lists the keys under each and
deletes them, and then deletes the campaign, whose sessions go by cascade; an error on the way ends it with the rows
kept. `late` collects the chunks stored behind it and those under prefixes that were not named; when the rows go they
become `missed`, what a deletion could not know of. Deletions run beside each other and beside one session command or
resume at a time; what session commands do to each other is SessionLifecycle's subject.

### TrackSegments

One speaker's track through `transcribeUserTrack`. `untrimmed` is what TrimSilence has yet to see of the chunk in hand,
`buf` the segment being filled, `sent` what `transcribeBuf` was given. `Get` may fail for any chunk (`SkipUnreadable`),
and the speech model for any segment (`TranscribeFails`), which ends the track. TrimSilence is taken frame by frame
(`TrimFrame`), so that the claim of the comment at transcribe.go:302, that trimming each chunk is trimming the track, is
something `RecordingCovered` can check: its own `TrimSilence` takes the whole of what was read.

### MessageSplitting

`ChunkMarkdown` and `SplitWords` as the loops they are, so that they can be reasoned about. Lines are packed into `cur`
(`AddLine`, `Flush`); a line longer than a piece is `rest` while it is cut, at its last blank or anywhere
(`BreakLine` to `EndLine`). `out` are the pieces. `splitForShow` puts the first into an embed, joins the others and splits what it
joined again for the messages after it (`ShowRecord`, `ShowFirst`, `Join`, `Overflow`). `from` and `cuts` say where in the text
what is in hand, and each piece, begins and ends; no action reads them but to extend them. How many pieces are sent, and what the
user sees when one is refused, is in Replies.

### TextSplitting, Extraction

Operators, one per function of the source, over sequences of characters: `Truncate`, `HardSplit` and the worker's
`chunkNotes`, whose loop over the paragraphs is a recursive function, so that it can be reasoned about. A character has one to
four bytes (`Bytes`): the code counts runes, but `Truncate` compares an index into the string, which counts bytes
(`ByteLen`), with half of a number of runes. MessageSplitting extends
TextSplitting, and `TextArrives` asks the same text of all of them. `Extraction` parses the characters that
structure JSON: an answer is the document of a list of proposals, prose before it and after it, cut anywhere.
Decoding is taken the other way round (`Decodes`): a text decodes to the proposals whose document it is, and to nothing
if one of them has a field of a wrong type (`WellTyped`). `ChatComplete` gives nothing if a round that it needs fails.

## 3. The runs

| run | instance | distinct states | what it shows |
|---|---|---|---|
| `JobQueueOne` | 1 worker, 2 slots, 2 jobs, 1 retry, 2 disturbances | about 35 s | all properties of the queue, liveness and the refinement of AtLeastOnce |
| `SessionLifecycle` | 2 sessions, 2 commands, resume, reaper, 1 job, 1 disturbance | 2.7 M, about 2 min | a processing session has a job, stranded maybe; the recording is the row |
| `SessionLive` | 1 session, 1 command, 1 retry, 2 disturbances | 104 k | a processing session settles unless its job is stranded; a row whose gateway died is attended to |
| `Recorder` | 1 speaker, 4 frames, 2 recordings, 2 faults | 1.9 M | no frame is lost, stored twice or out of order but those the code exposes; which packets are never dropped; the refinement of Tape |
| `Proposals` | 1 entity, 1 character, 2 proposals, 2 reviewers, 2 extractions, 1 member | 1.2 M | approvals are applied once, as approved, finally; nothing is lost but to a stale read |
| `CanonEmbed` | 1 entity, 1 character, 1 session, 2 workers, 2 saves, 1 reindex, 1 failure | 711 k | /ask finds what the records say, at rest and in the end, with three exceptions; a reindex catches up |
| `ReviewCards` | 1 session, 2 messages, 2 clicks at once, 3 rows, 1 edit | 1.13 M | one message announces a decision, as it stands; a round of skips shows all; approved as shown |
| `Reminders` | 2 replicas, a week of 2 ticks, 3 ticks, 2 sets, 1 failure | 60 k | each occurrence is claimed and posted once, or lost to a failure; none is stuck |
| `Replies` | 10 commands and the conversation, 4 pieces, 2 messages, 2 failures | 33 k | the user is answered in time; private stays private; a reply is whole or marked |
| `CampaignPurge` | 2 campaigns, 2 sessions, 2 deletions at once, 2 chunks, 2 failures | 766 k | audio outlives the row that names it only where a deletion could not know of it |
| `Algorithms` | texts of 6 characters, tracks of 3 chunks, 3 proposals | 310 k | nothing is lost by splitting, segmenting or repair; what is lost to a wrong type or a failing round |

One run ends in a counterexample. `SessionWedged` checks handlers_session.go:59-62, which says that stale rows are
cleared "so the user isn't wedged": a command during another's handshake clears the row of the recording that is about
to begin; then neither start nor stop works, until the gateway restarts: start tells the user that the bot could not join
the voice channel, stop that nothing is recorded.

### Where the code and its comments differ

Other sentences that the code does not keep, met while modelling. Where a module states the sentence as a definition, the
instance that refutes it is given; none of them is a property of a run.

* README.md:506-508, a scale-in "never drops a transcription mid-flight": SIGTERM cancels the handler; on its last
  attempt the exhausted test (worker.go:253) drops the job before the shutdown test would leave it for the reaper
  (`ScaleInDropsNothing`, JobQueue with one job, one retry and one SIGTERM).
* worker.go:272-273, after a failed Requeue "the job is still on the processing list": Requeue has already removed it
  from there (`FailedRequeueKeepsJob`, JobQueue with one job and one disturbance).
* transcribe.go:112-113, "Keep the transcript either way so nothing is lost": a later failed attempt writes an empty
  transcript over it (`TranscriptKept`, the instance of SessionLive).
* transcribe.go:384, the same write seen from /ask: the transcript is empty, and its passages are still found, since
  embed.go:28-30 returns early on an empty text (`FailedLeavesAsk`, the instance of CanonEmbed).
* worker.go:170-183, a recovered panic: the job is neither acknowledged nor requeued, and its session says "processing"
  until some worker starts (`EverySessionSettles`, the instance of SessionLive).
* voice.go:606-607, the loop "can't race with our final flush": an upload that outlasts the wait lands after the final
  flush under the same key and overwrites the longer chunk; voice.go:687-690, a resumed track "never overwrites its
  existing chunks": when List fails its error is ignored (696) and numbering starts over (`NothingWrittenOver`, the
  instance of Recorder).
* store_proposals.go:328-330, "never overwriting hand-written detail": an approval writes back a description it read
  before a member's write (`ApprovalAppends`, the instance of Proposals).
* handlers_world.go:121, a deletion "permanently removes a campaign and everything under it": a recording goes on storing
  chunks behind the purge, and a session whose prefix is not in its row yet is passed over (`EverythingUnderIt`,
  CampaignPurge with one deletion and no failure).
* voice.go:438-440, "audio is never silently dropped": a packet sent before a speaker's first to arrive, but arriving
  after it, is placed 2^32 timestamps ahead and dropped (`JitterIsHeard`, the instance of Recorder). And 555-558, what is
  dropped "indicates a bogus timestamp": a speaker first heard, or heard again, more than an hour after the end of
  their track is dropped for ever (`PunctualIsHeard`, the same instance).
* discordfmt.go:58-60, no rewind "so far that we throw away most of the allowance": LastIndex counts bytes and the
  allowance runes, so of a text of four bytes a character an eighth may be left (`KeepsHalf`, the texts of Algorithms).
* extract.go:89-91, "a single bad item shouldn't discard good ones": one field of a wrong JSON type makes `dec.Decode` (116)
  fail for the whole batch.
* chat.go:36-38, "a long-but-complete-ish answer beats an error": when a continuation round fails (47-50) what the
  earlier rounds wrote is discarded.
* README.md:18, a delete "removes an entry (and drops it from /ask)": an embedding job that read the record before the
  deletion writes after it (`DeletedLeavesAsk`, the instance of CanonEmbed).
* interactions.go:51-55, the client's own timeout cuts a slow model reply off rather than the handler's deadline: true of
  the first attempt; two retries of a full timeout do not fit in `deferredTimeout`, whose slack is 30 s.
* handlers_review.go:358-366: a click on a proposal that an extraction replaced says "All caught up" though others are
  pending; and a review of one session goes on over the whole campaign after the first decision. A reviewer whose
  approval took effect but answered with an error is told that it failed, and on the next try that it was already decided.
* messages.go:119 and 40-47: a conversation whose answer is empty, or whose handler panics, is left without a word.
* extract.go:237-242: an identifier the model was shown is taken although its name or kind is another's; merging
  (283-287) then makes an update of what was to be a new record.
* extract.go:26-27 and 141: proposals after the cap are dropped even if they would merge into one before it.
* filter.go:59, "fail-open": an object without `keep`, such as `{}`, is readable and drops everything.
* store_session.go:302-306: a reminder set by two commands at once is kept twice, and none is left when the INSERT fails.
* discordfmt.go:80-83: the branch for a terminator at the end is never taken, since `best` starts at -1 and a separator
  that is not found gives 0. SplitWords may give an empty message for a line that begins with half a window of blanks.

### Properties worth reading first

* `JobAccounted`: through every interleaving of workers, reapers, kills and Redis failures an accepted job is in
  Redis, between the two commands of a Requeue, judged, or had a Requeue cut. The last case is the only hole.
* `Recoverable`, `OnePlace`: with one worker, what goroutines have in hand is on the processing list as often as they
  have it, and a job is in one place. Both are false with two workers, where `Ack` removes by value.
* `RunsBounded`: the attempt counter bounds the runs only up to the reaps, which it does not see.
* `EveryJobSettles`, `ProcessingSettles`: except for a body *stranded* on the processing list of a worker that stays up
  (after a panic or a lost reply: only the start-up reaper looks there), of a job and of the session that waits for it.
* `ProcessingHasJob`, `LiveRowIsRecording`: two processes that each read one half of the state and write the other.
* `AudioKept`, `Chronological`: hold-back against late packets, retries under the same key, numbering after a resume,
  uploads that outlast a stop. What the code exposes is named frame by frame, so that all the rest must be kept: the
  chunks of the same track that only one flusher uploads, and everything once a resume could list.
  `KeepsTape` says of every step what `AudioKept` says of states: what is in storage stays there, through a retry that
  replaces a chunk and a resume that numbers its own. `EarlyIsHeard`: no checkpoint, retry or resume moves a track past
  a slot that a packet may still fill.
* `AudioNamed`: a purge in pages beside uploads, failures, a second deletion and a resume; the exceptions it names are
  the chunks that stay in storage with nothing to find them by.
* `CanonIsApproved`, `AppliedOnce`, `DecisionFinal`, `KeptUnlessStale`, `OneBatch`: reviews, edits and extractions of
  the same rows.
* `ToldOnce`: two clicks whose calls answer late, or with an error after they took effect, are not both announced, and a
  decision that nobody was told of is one whose click failed.
* `SkipsShowAll`: the note that the queue has been gone through is true, whatever was decided or inserted meanwhile;
  `ApprovedAsShown`: approvals read the row at the click, which is right only because an edit sends a new message.
* `FreshWhenHandled`, `EventuallyFresh`: the one place where a retried, repeated and overtaken job leaves a trace, with
  three exceptions named as such: a job given up, one overtaken, and a transcript changed by a write that indexes nothing.
* `ClaimedOnce`: nothing but the conditional update keeps two replicas apart; `DueIsTaken`: a reminder that was missed for
  weeks is claimed at its old time and moved past the present one.
* `CommandAnswered`: three nested deadlines, retries, panics and Discord's two limits; `CompleteOrMarked`: the two
  places that mark an incomplete reply, and an error that lands on a reply half sent; `StaysPrivate`: each
  part of a private answer is a message of its own with a visibility of its own, and so is an error behind it.
* `MessagesWhole`: no letter, no line that fits a message and no word that need not be cut is lost or cut by ChunkMarkdown,
  and every message fits and is not blank, with the one exception the code has; `TextArrives`: every letter arrives in
  order, in messages, in an embed with the messages behind it, and in the passages that are embedded, which fit; what
  `Truncate` leaves is said in bytes, as the code counts.
* `ExtractionKeeps`: each prefix of each answer gives exactly the proposals it finished, or an error only if one of them,
  or the next, has a field of a wrong type; merging what has one kind and name keeps evidence, fields and the most
  confident text.
* `SegmentsAreWindows`: what is sent are the windows of the track one advance apart, and the last reaches the end,
  though one chunk may fill several segments or none; `RecordingCovered`: the same of what the speech model hears,
  against the whole recording, trimmed and downmixed at once.

### Bounds, and why they are enough

* *JobQueue*: two jobs and two slots let a job wait for a slot while others run, be held by the loop at SIGTERM, and
  be confused with another; one retry has a first, a last and an exhausted attempt; two disturbances give a failure
  during the recovery from another. Two workers at once, whose copies of a job nothing bounds, are left to the
  theorem `NoJobUnaccounted`.
* *SessionLifecycle*: two rows are needed for a stop that takes another session's recording; two commands, the resume
  and the reaper may all be at work, at most three at the same moment (`MaxBusy`). `WithoutResults` leaves the results
  out of the state in the run that has no property about them. `SessionLive` needs one row for its two properties, a
  retry, and a disturbance in the recovery from another.
* *Recorder*: tracks do not interact but for the number a resumed recording starts from, hence one speaker; a
  hold-back of two frames over a lateness of one keeps the relation of the real 50 frames to the jitter; four frames, of
  which three may have sound (`MaxHeard`), let a checkpoint, a retry and a final flush store different parts of a track.
  `Wrap` is past every frame of a recording, as 2^32 timestamps are 24.8 hours; a speaker has one SSRC in a recording.
* *Proposals*: `MaxBusy` allows two of the approvals, jobs and forms at once: every pair of writers is explored.
  Two record identifiers allow a record to be deleted and made again under the same name. The same properties hold
  with two entities and no character (3.3 M states, 3 min), which adds proposals that refer to one entity and name another.

* *ReviewCards*: two messages and two clicks make every pair of handlers race; three rows are needed to skip over one that
  is decided or inserted meanwhile. `FewBusy` leaves out two clicks while both messages are in use, which would only add
  states of two messages that do not meet; `WithoutPast` leaves out of a state what nothing in it can depend on.
* *CampaignPurge*: two sessions let a deletion pass one while the other records, in the same campaign or in the other;
  two deletions meet on the keys of one prefix; two chunks are one that the listing saw and one that it did not; two
  failures are a page that fails and a death of the gateway before the next try.
* *CanonEmbed*: two workers overtake each other on one record; of each of the three lists of a reindex there is one
  record; a failure in any of the steps, and the retry after it; two saves of a transcript, between which a requeue may
  read one and write it back over the other.
* *Reminders*: two replicas that hold the same reading; two reminders, of which one replaces the other; three ticks of a
  week of two bring an occurrence, a missed one and the next.
* *Replies*: the times keep the order of the real ones (3 s; 15 s; 90 s; the model's timeout and 30 s; 5 min; 15 min), and
  in particular the two retries that do not fit; four pieces and two messages give a reply that is bounded, by one piece
  and by more; two failures give one while another is answered.
* *Algorithms*: a letter has one byte or four, by its place; with sizes 2 to 4 a text of 6 letters, blanks, line ends and full stops has up to three windows and breaks
  at every place in them; segments of 4, 6 and 10 samples over chunks of up to 12 give a chunk that fills several, an
  overlap longer than a segment, and no segments; three proposals, of nine, merge, exceed the cap of two, and end cut.

`CHECK_DEADLOCK FALSE` everywhere: all jobs judged and no worker alive, a finished recording, or a bound that is used
up are places where the system, or its bounded model, stops.

### Fairness

Commands, SIGTERM, kills and failures need never happen. What must: Redis answers (`QueueReplies`); a handler ends,
because every job runs under a timeout (worker.go:159-168); the `Run` loop goes on; KEDA starts a worker while either
list is non-empty, the triggers in `keda.yaml` (`Outstanding`). A command's goroutine proceeds because its queries
and the voice handshake have deadlines; Kubernetes restarts the gateway; `RunSessionReaper` ticks every minute; a
heartbeat that nobody refreshes ages; the worker goes on with the jobs that are pending or in its hands. All of it
is weak fairness. That a worker starts and brings a stranded job back (`Recovered`) is not assumed: KEDA keeps the one
that is up while the processing list is not empty, and only a start looks there. `ProcessingSettles` excuses such a job. In CanonEmbed the handlers go on after a save or a deletion and waiting jobs are taken and ended; a job
that is given up is allowed for. In Reminders the ticker of every replica goes on, whatever else fails; it is not assumed
that time or commands do. In Replies either time passes or the goroutine goes on: every wait has a deadline.

## 4. What is proved

Eight modules of proofs, for every value of the constants: any number of actors, records, attempts and failures. The
bounds of the runs are constants too, so that no theorem depends on their values.

Each module has an inductive invariant for each component (`IInv`; `ReplyInv` for Replies, `SegmentInv` for
TrackSegments, `SplitInv` for MessageSplitting), one lemma per action (or per group of actions) that it is kept, the theorem that it always holds, and
the theorems that follow from it. What follows names the strengthening and why it is needed.

**JobQueue**: `TypeCorrect` (no body ever has an attempt above `MaxRetries`) and `NoJobUnaccounted`
(`JobAccounted`). A step such as `Ack` removes a body from Redis and must know that the job was judged: `HandKnows`
says what a goroutine in a given place knows (a job being acknowledged or dropped has a verdict, one whose body is
about to be moved back has an attempt left). The argument turns on `LRemProperties`: LREM of one body leaves every
*other* job on the list, so that a removal answers only for the job of its body. `LastPosition` gives the CHOOSE in
`LRem` a meaning; it comes from the well-foundedness of strict inclusion on finite sets. Two workers at once, which
no run explores, are covered.

Four more theorems of JobQueue have the hypothesis `OneWorker`: one worker at a time out of a finite set of pods,
which is what `maxReplicaCount: 1` of KEDA gives. With two, the reaper of one moves a body the other still has in
hand, and the job can be in two hands at once. `ImplementsAtLeastOnce` is the refinement of AtLeastOnce (its safety part),
`HandsAreRecoverable`, `JobsAreInOnePlace` and `AttemptsBoundRuns` are `Recoverable`, `OnePlace` and `RunsBounded`.
LREM removes by value, so a removal by one goroutine could take the body another still relies on. `Placed` rules
that out: each goroutine that keeps a job has a body on the processing list *to itself*, an injection from
goroutines to positions, and `LRemShape` says which position goes and how the others move. `TwoInv` adds, for a job
none of whose removals failed, that it is in one place (`Whole`), that its runs are paid for by attempts and reaps
(`Counted`), and that a job not yet submitted is nowhere (`Untouched`). The refinement then needs only that a step
which takes a job off the lists has a verdict for it, or is the first half of a Requeue.

**SessionLifecycle**: `TypesHold`, `ProcessingIsOwed` (`ProcessingHasJob`), `LiveIsTheRow` (`LiveRowIsRecording`).
`Owed` strengthens the first: the job is one that has yet to write (`Owing`: queued, running, about to be retried, or
stranded), or a process is between the row and the enqueue, or a hand-over was cut. `Knows(p)` is what a goroutine still knows of the rows and of the recording
from what it read earlier, most of it only while nothing has run beside a voice handshake (`~overlap`): that is
where the code's check-then-act is sound, and the condition is exactly the exception the property makes. `Watched`
says that `overlap` misses no process that runs beside a handshake.

**Recorder**: `AudioIsKept`, `NothingTwice`, `ChunksAreChronological`, `EarlyPacketsAreHeard`, without an assumption on how
long an upload takes or on whether List succeeds: what these take away is in `exposed`, and the invariant is about the
rest. It has seven parts: `Shapes`, `Fits`, `Flushing`, `Chronological`, `Kept`, `Within` (nothing was heard beyond the end of
a track, so that padding frames are new) and `Bounded` (chunk numbers have a maximum). `TrackFits` relates a track to
`Present(u)`, the slot of a packet that is sent now, which the anchor shifts by the lateness of the first packet
(`AnchorFits`): a track ends there at the latest, and what it has dropped is older than any packet that may still come
(this needs `Lateness < Holdback`). `ChunksFit`: but for exposed frames, the chunk a track is at overlaps only memory and
the chunks before it hold older frames. An upload is either `Live`, the front of its track under its key, so that a retry
replaces a chunk by a longer one; or `Dead`: another upload had its key, and all it can take away is exposed. `Rivals`
says that of two uploads of one key both are dead. While packets come only the loop uploads (`Quiet`), and its uploads
end before the hold-back.

`KeepsItsTape` (`KeepsTape`) is the refinement of Tape, one lemma per action, from the same invariant: what lands replaces
frames that are still held, or exposed ones. `TypesHold` is the type invariant with the bounds on the numbers (`Counters`);
a flusher has one upload under way also while both are at work (`Singles`).

**TrackSegments**: `WindowsOfTheTrack` (`SegmentsAreWindows`), for any chunks, segment length and overlap. Between two
steps the segments sent are whole windows of what was kept, and the buffer is what was kept from where the next one
starts (`InHand`). Three lemmas carry it: more that is kept leaves the windows where they are (`HandGrows`), a full
segment is the next window (`HandSends`), and at the end either the rest is the last window or the last whole segment
reached the end exactly, because what is kept back is shorter than a segment (`HandEnds`). They rest on three facts
about slices of sequences (`SliceStays`, `SliceGrows`, `SliceOfSlice`).

**Proposals**: `TypesHold`, `NothingUnapproved` (`CanonIsApproved`), `AppliedExactlyOnce`, `DecisionsAreFinal`,
`OnlyStaleWritesLose` (`KeptUnlessStale`), `LastExtractionWaits` (`OneBatch`). `Locks`: a row that a transaction has
claimed is pending, and no other transaction has it. A decided row never changes, so it vouches for the details
taken from it for ever, in the record, in what a reviewer has read and in what a form shows (`SeenVouched`,
`StaysVouched`). `Batches`: a job that replaces the pending rows while no other does deletes all of them.

**ReviewCards**: `DecidedByOne` (`ToldOnce`), `ApprovesWhatWasShown`, `SkippingShowsAll`. A message is true of the
rows when it is listed and stays so while they only move on (`RowsMoveOn`: what is decided stays so, a pending row
keeps its text or gets a newer one); `TruthfulIn` states it as a fact about a message, a table and the number of
edits, so that one lemma carries messages and what goroutines hold over every step. `NewsInv`: a goroutine that has something to
announce decided the row itself, with the verdict the row has; nobody else has it to announce, and nobody has announced it.

**Replies**: `PrivateStaysPrivate` (`StaysPrivate`), `RepliesCompleteOrMarked` (`CompleteOrMarked`), and
`EveryEndIsAnswered`, the safety half of `CommandAnswered`: a handler that has ended has shown something, unless Discord
refused or a conversation panicked or had no words. The invariant `ReplyInv` relates the place in the handler to the
clock and to the messages: no handler outlives its deadline nor the token of its interaction (`InTime`); a deferred
answer is hidden if its command is (`Hidden`); what is yet to be sent and what is shown make up the reply, in order
(`RestSent`, `Sending`); what has ended without a word is one of the exceptions (`Ended`, `Unspoken`). It rests on
`TimesAssumption`: the limits are in the order of the real ones, and the longest handler ends within the token's life.

**MessageSplitting**: `MessagesAreWhole` (`MessagesWhole`), for any text over any characters and any size. `Packed`: all that may
not be cut before a place of the text is in a piece, and the pieces end before that place. Between lines the place is
where the piece in hand begins (`LinesInHand`), within a long line where its rest begins (`LineInHand`). The latter also says that
such a line fits no piece, so that only its letters and words are still to be kept (`UncutInLine`), and a cut goes
through a word only when there was no blank in the second half of the window: the word is then longer than that. It
rests on facts about slices of sequences (`SliceIs`, `SliceOfSlice`, `SlicesJoin`) and not on induction over the text,
since every step of the loop is a step of the module.

`EveryLetterArrives` (`TextArrives`) says where every letter ends up. `Arrived`, a part of `Packed`: the letters of the pieces are
those of the text up to a place, and what follows it is white space. `LettersInv` adds what the embed has taken: its letters
and those of what is being cut are the letters asked for, and while pieces are joined, those of the pieces joined so far.
`TextArrives` also speaks of operators that are computed at once, so that the proof does need induction over data, for which
the library's theorems cannot be used. It is done by a least counterexample instead (`LeastNumber`, from the
well-foundedness of the naturals). So `Flat`, and with it `Letters` and `AllLetters`, are shown to carry
concatenation over (`FlatJoins`, `LettersJoin`, `AllJoins`), trimming to keep the letters (`TrimKeeps`), `HardSplit` to cut the whole
text into parts that fit (`HardSplitHolds`), and the loop of `chunkNotes` to hold, after any number of paragraphs, the
letters before the next (`PacksReach`; `Hold` is its invariant, `NextHolds` one turn). `TruncatedIs`: the three ways to end a
truncated text, whose bytes are compared: a longer beginning has no fewer (`BytesGrow`), whatever the bytes of a character.

**CanonEmbed**: `TypesHold`, `HandledIsFresh` (`FreshWhenHandled`), `ReindexIsComplete` (`ReindexCatchesUp`). Every
record has somebody who will yet store *what it says now*, or is fresh, or excused (`Cared`); a job that has read an
older text does not count, which is why overtaking is an exception and a retry is not. A write of a transcript that
leaves nobody to index it is the third exception (`SessionWritten`). `Existence`: a record that is gone stays so, a completed
session has a transcript, and without the campaign nothing is written back. `CaughtUp`: what an
undisturbed `/reindex` has passed is fresh, and what it lists (`Listable`: a session only when it is complete) of the
list it is at is fresh or before it. The proof
needs that no other `/reindex` runs: one that had read an older text would store it behind the first.

**Reminders**: `NeverPostedTwice` (`ClaimedOnce`), `OneReminderEach` (`OneReminder`). A row has moved past
everything that was claimed of it (`MovedPast`), by the lemma `NextIsAfter`: nextWeekly is later than the time it
starts from, for any length of the week. `Unused`: an identifier not yet inserted has no past. What is claimed and
not lost is posted or in one replica's hand.

**CampaignPurge**: `TypesHold`, `AudioIsNamed` (`AudioNamed`). `Passed`: every chunk of a campaign being deleted is
under a prefix still to be purged, among the keys to be deleted, or came late. `NewSilent`: nothing records a
session that has no row yet.

Assumptions, each stated in its module: numbers are naturals (`BoundsAssumption`, `RetriesAssumption`,
`SessionBounds`, `RecorderBounds`, `PurgeBounds`); there is a slot (`ConcurrencyAssumption`) and a week is not empty
(`WeekAssumption`); the hold-back exceeds the lateness (`HoldbackAssumption`); a recording is shorter than a wrap of RTP timestamps, which
exceeds the gap a track may have (`WrapAssumption`); a blank and a line end are characters, and a character has one to four
bytes (`TextAssumption`); the deadlines nest (`TimesAssumption`);
there is a channel, a frame is not empty, and chunks are sequences of integers (`TrackAssumption`), whole frames of whole
instants, as segments are (`AlignmentAssumption`); texts are sequences of characters and sizes are not zero (`SplittingAssumption`); values that stand for
nobody or nothing, and kinds of records or writers, are distinct (`DistinctAssumption`, `NoneAssumption`,
`NamesAssumption`, `MembersAssumption`, `KindsAssumption`).

Only model-checked:

* Liveness, under the fairness of section 3, which is out of reach of the installed provers: `EveryJobSettles`,
  `StopsWhenAsked`, `ProcessingSettles`, `RecordingAttended`, `EventuallyFresh`, `DueIsTaken`, `CommandAnswered`. Of the
  last, the safety half is proved.
* `ExtractionKeeps`: `ChatComplete` is a recursive operator, and what the scan of a reply finds, wherever the reply is cut, is
  an induction over the document, its nesting included, for which no proof was attempted.

## 5. What is not modelled

* Contents: audio samples, texts, prompts, embeds, JSON metadata (merged key by key by the database), empty
  descriptions, and the deliberate removal of text in an edit form. In the algorithms the contents are what is modelled.
* Renaming a character, characters of the same name, and several guilds at once.
* Redis losing its data (`redis.yaml`: every queued job is lost while the sessions stay in processing, and
  `/session requeue` is the recovery), a PostgreSQL restore, and jobs injected into Redis by hand.
* A panic inside `checkpointLoop`; a speaker whose SSRC changes within a recording, which gives the track a second anchor;
  recordings longer than a wrap of RTP timestamps (24.8 h).
* The search by similarity, full text search, and merging of the passages of /ask; image generation; WAV headers.
* Dice: a pure function of one expression, whose limits its tests cover. Configuration, logging, metrics and health
  endpoints, command registration, autocomplete, `/dm-server`, `/feedback`, `/help`, `/notes-channel`: single reads or
  writes with nothing to relate them to.
* Campaigns and users but for the deletion of a campaign: single statements. Session commands beside each other *and*
  beside a deletion: CampaignPurge runs one at a time.

## 6. Plan

Written: `JobQueue` and `AtLeastOnce`; `SessionLifecycle`; `Recorder`; `Proposals`; `CanonEmbed`; `ReviewCards`;
`Reminders`; `Replies`; `MessageSplitting`, `TextSplitting`, `TrackSegments` and `Extraction`; `CampaignPurge`; and the theorems of section 4.

What is left, in this order:

1. Composition: JobQueue with SessionLifecycle's handler in place of the opaque one, in the small, to check that the
   promise SessionLifecycle assumes is the one JobQueue gives; two jobs of one session racing on its results.
2. What would have to change in the code for the definitions that no run checks to become properties: `NothingWrittenOver`
   and `JitterIsHeard` (Recorder), `EverySessionSettles` and `TranscriptKept` (SessionLifecycle), `FailedLeavesAsk` and
   `DeletedLeavesAsk` (CanonEmbed), `ApprovalAppends` (Proposals), `EverythingUnderIt` (CampaignPurge), `KeepsHalf`
   (TextSplitting), `ScaleInDropsNothing` and `FailedRequeueKeepsJob` (JobQueue). The runs can take them up as they are.
