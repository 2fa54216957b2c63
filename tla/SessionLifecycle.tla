-------------------------- MODULE SessionLifecycle --------------------------
(***************************************************************************)
(* One guild's recording sessions from /session start to posted notes: the *)
(* gateway's command handlers (handlers_session.go), its voice manager     *)
(* with the resume goroutine and the stale-session reaper (voice.go), the  *)
(* sessions table (store_session.go) and the worker's transcription job    *)
(* (transcribe.go).  The steps are the accesses to shared state: a query,  *)
(* an update, an access to the voice manager's map, a voice handshake.     *)
(*                                                                         *)
(* The queue is JobQueue seen from outside: a job runs until it is judged, *)
(* may run again, may be lost in a Requeue, and may be stranded, its body  *)
(* on the processing list with nobody at work on it.  Which chunks a       *)
(* recording stores is Recorder's subject; here only whether there are any.*)
(***************************************************************************)
EXTENDS Naturals, FiniteSets

CONSTANTS
    Sessions,      \* rows the sessions table may come to hold
    Handlers,      \* interaction goroutines that may run at once
    Tickets,       \* transcription jobs outstanding at once: a bound
    MaxRetries,    \* WORKER_MAX_RETRIES
    MaxFaults,     \* bound of the model: disturbances of one behaviour
    None, Resume, Reaper

ASSUME DistinctAssumption ==
    /\ None \notin Sessions /\ Resume # Reaper
    /\ {Resume, Reaper} \cap Handlers = {}
ASSUME SessionBounds == MaxRetries \in Nat /\ MaxFaults \in Nat

VARIABLES
    row,        \* sessions table: status, has a transcript, has notes
    fresh,      \* sessions whose heartbeat_at is younger than staleAfter
    stored,     \* sessions with at least one chunk in object storage
    job         \* job[k]: an outstanding transcription job, or NoJob

VARIABLES       \* the gateway process; all lost when it dies
    up,         \* the process runs
    rec,        \* voiceManager.rec for the guild: the session recorded
    looping,    \* sessions whose checkpointLoop goroutine runs
    proc        \* proc[p]: where a handler, the resume or the reaper is

VARIABLES       \* what happened, for the properties
    cut,        \* sessions whose hand-over to a job was cut short
    overlap     \* some process ran while another was joining the channel

VARIABLE faults

database == <<row, fresh, stored>>
gateway == <<up, rec, looping, proc, overlap>>
vars == <<database, job, gateway, cut, faults>>
-----------------------------------------------------------------------------
Statuses == {"absent", "recording", "processing", "complete", "failed"}
Row == [status : Statuses, text : BOOLEAN, notes : BOOLEAN]

Procs == Handlers \cup {Resume, Reaper}
Idle == [pc |-> "idle"]
At(pc, s) == [pc |-> pc, s |-> s]

(* The gateway's points between two accesses to shared state. *)
StartPoints == {"start.looked", "start.clear", "start.joining", "start.opening",
                "start.rollback"}
StopPoints == {"stop.looked", "stop.leaving", "stop.clear", "stop.end"}
ReaperPoints == {"reap.found", "reap.clear", "reap.end"}
Point ==
    {Idle} \cup {At(pc, s) : pc \in StartPoints \cup StopPoints \cup ReaperPoints
                                    \cup {"handing"}, s \in Sessions}
           \cup {[pc |-> "start.create"], [pc |-> "resume.list"]}
           \cup [pc : {"stop.flush"}, s : Sessions, of : Sessions]
           \cup [pc : {"requeue.mark"}, s : Sessions, text : BOOLEAN, notes : BOOLEAN]

NoJob == [pc |-> "none"]

(* Where the queue has a job: pending, in a handler's hands, between the    *)
(* handler's return and its Requeue or Ack, with its notes saved, or left   *)
(* on the processing list by a worker that is up.                           *)
JobPoints == {"queued", "running", "retry", "drop", "saved", "stranded"}
Job == [pc : JobPoints, s : Sessions, attempt : 0..MaxRetries, audio : BOOLEAN]

Recording == {s \in Sessions : row[s].status = "recording"}
Has == rec # None
LastAttempt(k) == job[k].attempt >= MaxRetries

Disturb == faults < MaxFaults /\ faults' = faults + 1

(* Some process is at work while another one is joining the voice channel. *)
Overlapping(procs) ==
    \E p \in Procs : \E q \in Procs \ {p} :
        procs[p].pc \in {"start.joining", "start.opening"} /\ procs[q] # Idle

Go(p, point) ==
    LET procs == [proc EXCEPT ![p] = point]
    IN  proc' = procs /\ overlap' = (overlap \/ Overlapping(procs))

(* SetSessionResult: an unconditional update by primary key. *)
Written(s, text, notes, status) ==
    [row EXCEPT ![s] = [status |-> status, text |-> text, notes |-> notes]]
SetResult(s, text, notes, status) == row' = Written(s, text, notes, status)

(* EndSession: the status goes, the results stay. *)
EndSession(s) == row' = [row EXCEPT ![s].status = "processing"]

Init ==
    /\ row = [s \in Sessions |-> [status |-> "absent", text |-> FALSE, notes |-> FALSE]]
    /\ fresh = {} /\ stored = {}
    /\ job = [k \in Tickets |-> NoJob]
    /\ up = TRUE /\ rec = None /\ looping = {}
    /\ proc = [p \in Procs |-> Idle]
    /\ cut = {} /\ overlap = FALSE /\ faults = 0
-----------------------------------------------------------------------------
(* /session start: GetActiveSession. *)
StartLookup(h) ==
    /\ up /\ proc[h] = Idle
    /\ \/ Recording = {} /\ Go(h, [pc |-> "start.create"])
       \/ \E s \in Recording : Go(h, At("start.looked", s))
    /\ UNCHANGED <<database, job, up, rec, looping, cut, faults>>

(* A recording in memory is a genuine duplicate; otherwise the row is       *)
(* stale and is cleared.                                                    *)
StartCheck(h) ==
    /\ proc[h].pc = "start.looked"
    /\ Go(h, IF Has THEN Idle ELSE At("start.clear", proc[h].s))
    /\ UNCHANGED <<database, job, up, rec, looping, cut, faults>>

StartClear(h) ==
    /\ proc[h].pc = "start.clear"
    /\ SetResult(proc[h].s, FALSE, FALSE, "failed")
    /\ Go(h, [pc |-> "start.create"])
    /\ UNCHANGED <<fresh, stored, job, up, rec, looping, cut, faults>>

(* CreateSession: the partial unique index refuses a second recording row   *)
(* of the guild.  No campaign, or no voice channel, ends the command.       *)
StartCreate(h) ==
    /\ proc[h].pc = "start.create"
    /\ \/ /\ Recording = {}
          /\ \E s \in Sessions :
                /\ row[s].status = "absent"
                /\ SetResult(s, FALSE, FALSE, "recording")
                /\ fresh' = fresh \cup {s}
                /\ Go(h, At("start.joining", s))
       \/ Go(h, Idle) /\ UNCHANGED <<row, fresh>>
    /\ UNCHANGED <<stored, job, up, rec, looping, cut, faults>>

(* A command's join ends in a rollback when it fails, the resume's join     *)
(* leaves the session to the reaper.                                        *)
JoinFailed(p) == Go(p, IF p = Resume THEN Idle ELSE At("start.rollback", proc[p].s))

(* voiceManager.join: the map is checked before the handshake... *)
JoinCheck(p) ==
    /\ proc[p].pc = "start.joining"
    /\ IF Has THEN JoinFailed(p) ELSE Go(p, At("start.opening", proc[p].s))
    /\ UNCHANGED <<database, job, up, rec, looping, cut, faults>>

(* ... and written after it, with the checkpoint loop started. *)
JoinOpened(p) ==
    /\ proc[p].pc = "start.opening"
    /\ rec' = proc[p].s
    /\ looping' = looping \cup {proc[p].s}
    /\ Go(p, Idle)
    /\ UNCHANGED <<database, job, up, cut, faults>>

JoinGivesUp(p) ==
    /\ proc[p].pc = "start.opening"
    /\ JoinFailed(p)
    /\ UNCHANGED <<database, job, up, rec, looping, cut, faults>>

StartRollback(h) ==
    /\ proc[h].pc = "start.rollback"
    /\ SetResult(proc[h].s, FALSE, FALSE, "failed")
    /\ Go(h, Idle)
    /\ UNCHANGED <<fresh, stored, job, up, rec, looping, cut, faults>>
-----------------------------------------------------------------------------
(* /session stop: GetActiveSession. *)
StopLookup(h) ==
    /\ up /\ proc[h] = Idle
    /\ \E s \in Recording : Go(h, At("stop.looked", s))
    /\ UNCHANGED <<database, job, up, rec, looping, cut, faults>>

StopCheck(h) ==
    /\ proc[h].pc = "stop.looked"
    /\ Go(h, At(IF Has THEN "stop.leaving" ELSE "stop.clear", proc[h].s))
    /\ UNCHANGED <<database, job, up, rec, looping, cut, faults>>

(* Nothing in memory to finalize: the row is marked failed. *)
StopClear(h) ==
    /\ proc[h].pc = "stop.clear"
    /\ SetResult(proc[h].s, FALSE, FALSE, "failed")
    /\ Go(h, Idle)
    /\ UNCHANGED <<fresh, stored, job, up, rec, looping, cut, faults>>

(* voiceManager.stop takes the guild's recording out of the map, whatever   *)
(* session it belongs to; another stop may have taken it first.             *)
StopLeave(h) ==
    /\ proc[h].pc = "stop.leaving"
    /\ rec' = None
    /\ Go(h, IF Has THEN [pc |-> "stop.flush", s |-> proc[h].s, of |-> rec]
                    ELSE At("stop.clear", proc[h].s))
    /\ UNCHANGED <<database, job, up, looping, cut, faults>>

(* The checkpoint loop ends and the tail, if there is one, is stored. *)
StopFlush(h) ==
    /\ proc[h].pc = "stop.flush"
    /\ looping' = looping \ {proc[h].of}
    /\ stored' \in {stored, stored \cup {proc[h].of}}
    /\ Go(h, At("stop.end", proc[h].s))
    /\ UNCHANGED <<row, fresh, job, up, rec, cut, faults>>

StopEnd(h) ==
    /\ proc[h].pc = "stop.end"
    /\ EndSession(proc[h].s)
    /\ Go(h, At("handing", proc[h].s))
    /\ UNCHANGED <<fresh, stored, job, up, rec, looping, cut, faults>>

(* Enqueue of the transcription job, the last step of a stop, a requeue or  *)
(* a reap.                                                                  *)
HandOver(p) ==
    /\ proc[p].pc = "handing"
    /\ \E k \in Tickets :
          /\ job[k] = NoJob
          /\ job' = [job EXCEPT ![k] = [pc |-> "queued", s |-> proc[p].s,
                                         attempt |-> 0, audio |-> FALSE]]
    /\ Go(p, Idle)
    /\ UNCHANGED <<database, up, rec, looping, cut, faults>>

HandOverFails(p) ==
    /\ proc[p].pc = "handing"
    /\ cut' = cut \cup {proc[p].s}
    /\ Go(p, Idle) /\ Disturb
    /\ UNCHANGED <<database, job, up, rec, looping>>
-----------------------------------------------------------------------------
(* /session requeue: GetSession and the guards on what it returned. *)
RequeueLookup(h) ==
    /\ up /\ proc[h] = Idle
    /\ \E s \in Sessions :
          /\ row[s].status \notin {"absent", "recording"}
          /\ Go(h, [pc |-> "requeue.mark", s |-> s,
                    text |-> row[s].text, notes |-> row[s].notes])
    /\ UNCHANGED <<database, job, up, rec, looping, cut, faults>>

(* The results read by RequeueLookup are written back with the new status. *)
RequeueMark(h) ==
    /\ proc[h].pc = "requeue.mark"
    /\ SetResult(proc[h].s, proc[h].text, proc[h].notes, "processing")
    /\ Go(h, At("handing", proc[h].s))
    /\ UNCHANGED <<fresh, stored, job, up, rec, looping, cut, faults>>

(* An update fails: the process returns the error or ignores it, and ends   *)
(* there either way.                                                        *)
WriteFails(p) ==
    /\ proc[p].pc \in {"start.clear", "start.create", "start.rollback", "stop.clear",
                      "stop.end", "requeue.mark", "reap.clear", "reap.end"}
    /\ Go(p, Idle) /\ Disturb
    /\ UNCHANGED <<database, job, up, rec, looping, cut>>
-----------------------------------------------------------------------------
(* One tick of checkpointLoop: a chunk when there is sound to store, and    *)
(* the heartbeat of a row that is recording.                                *)
Checkpoint(s) ==
    /\ s \in looping
    /\ stored' \in {stored, stored \cup {s}}
    /\ fresh' = IF s \in Recording THEN fresh \cup {s} ELSE fresh
    /\ UNCHANGED <<row, job, gateway, cut, faults>>

(* staleAfter passes without a heartbeat: nothing ticks, or the database    *)
(* kept refusing the heartbeats of a live loop.                             *)
HeartbeatAges(s) ==
    /\ s \in fresh \cap Recording
    /\ fresh' = fresh \ {s}
    /\ IF s \in looping THEN Disturb ELSE UNCHANGED faults
    /\ UNCHANGED <<row, stored, job, gateway, cut>>

(* reapStale: StaleRecordingSessions. *)
ReapQuery ==
    /\ up /\ proc[Reaper] = Idle
    /\ \E s \in Recording \ fresh : Go(Reaper, At("reap.found", s))
    /\ UNCHANGED <<database, job, up, rec, looping, cut, faults>>

(* Variant: the reaper trusts the heartbeat alone. *)
ReapCheckHeartbeatOnly ==
    /\ proc[Reaper].pc = "reap.found"
    /\ LET s == proc[Reaper].s
       IN  Go(Reaper, At(IF s \in stored THEN "reap.end" ELSE "reap.clear", s))
    /\ UNCHANGED <<database, job, up, rec, looping, cut, faults>>

(* Variant: a stale session without chunks is left alone. *)
ReapCheckSkipsEmpty ==
    /\ proc[Reaper].pc = "reap.found"
    /\ LET s == proc[Reaper].s
       IN  Go(Reaper, IF ~Has /\ s \in stored THEN At("reap.end", s) ELSE Idle)
    /\ UNCHANGED <<database, job, up, rec, looping, cut, faults>>

(* Skip what is live here; otherwise look for chunks. *)
ReapCheck ==
    /\ proc[Reaper].pc = "reap.found"
    /\ LET s == proc[Reaper].s
       IN  \/ Has /\ Go(Reaper, Idle) /\ UNCHANGED faults
           \/ /\ ~Has
              /\ Go(Reaper, At(IF s \in stored THEN "reap.end" ELSE "reap.clear", s))
              /\ UNCHANGED faults
           \/ ~Has /\ Go(Reaper, Idle) /\ Disturb
    /\ UNCHANGED <<database, job, up, rec, looping, cut>>

ReapClear ==
    /\ proc[Reaper].pc = "reap.clear"
    /\ SetResult(proc[Reaper].s, FALSE, FALSE, "failed")
    /\ Go(Reaper, Idle)
    /\ UNCHANGED <<fresh, stored, job, up, rec, looping, cut, faults>>

ReapEnd ==
    /\ proc[Reaper].pc = "reap.end"
    /\ EndSession(proc[Reaper].s)
    /\ Go(Reaper, At("handing", proc[Reaper].s))
    /\ UNCHANGED <<fresh, stored, job, up, rec, looping, cut, faults>>
-----------------------------------------------------------------------------
(* The gateway dies; on SIGTERM stopAll first stores the live recording's   *)
(* tail.  Rows stay as they are; a hand-over in flight is cut.              *)
GatewayStops ==
    /\ up
    /\ up' = FALSE /\ rec' = None /\ looping' = {}
    /\ proc' = [p \in Procs |-> Idle]
    /\ cut' = cut \cup {proc[p].s : p \in {q \in Procs : proc[q].pc = "handing"}}
    /\ stored' \in {stored, stored \cup ({rec} \ {None})}
    /\ Disturb
    /\ UNCHANGED <<row, fresh, job, overlap>>

(* Open starts the resume goroutine. *)
GatewayStarts ==
    /\ ~up
    /\ up' = TRUE
    /\ Go(Resume, [pc |-> "resume.list"])
    /\ UNCHANGED <<database, job, rec, looping, cut, faults>>

(* resumeActive: ListRecordingSessions, then a join for the session. *)
ResumeList ==
    /\ proc[Resume].pc = "resume.list"
    /\ \/ Recording = {} /\ Go(Resume, Idle) /\ UNCHANGED faults
       \/ \E s \in Recording : Go(Resume, At("start.joining", s)) /\ UNCHANGED faults
       \/ Go(Resume, Idle) /\ Disturb
    /\ UNCHANGED <<database, job, up, rec, looping, cut>>
-----------------------------------------------------------------------------
(* handleTranscribeSession: GetSession, and the chunks listed once. *)
TranscribeBegin(k) ==
    /\ job[k].pc = "queued"
    /\ job' = [job EXCEPT ![k].pc = "running", ![k].audio = job[k].s \in stored]
    /\ UNCHANGED <<database, gateway, cut, faults>>

JobAt(k, pc) == job' = [job EXCEPT ![k].pc = pc]
JobFails(k) == JobAt(k, IF LastAttempt(k) THEN "drop" ELSE "retry")

(* markFailed ignores the error of its update: the row keeps its status     *)
(* (a SIGTERM or the job's timeout cancels the update, too).                *)
MarkFailed(s) ==
    \/ SetResult(s, FALSE, FALSE, "failed") /\ UNCHANGED <<cut, faults>>
    \/ cut' = cut \cup {s} /\ Disturb /\ UNCHANGED row

(* Storage or the STT server failed: players hear of the last attempt only. *)
TranscribeFails(k) ==
    /\ job[k].pc = "running"
    /\ JobFails(k)
    /\ IF LastAttempt(k) THEN MarkFailed(job[k].s) ELSE UNCHANGED <<row, cut, faults>>
    /\ UNCHANGED <<fresh, stored, gateway>>

(* No chunk was listed, or no speech was found: a permanent failure. *)
NothingToTranscribe(k) ==
    /\ job[k].pc = "running"
    /\ JobAt(k, "drop") /\ MarkFailed(job[k].s)
    /\ UNCHANGED <<fresh, stored, gateway>>

(* Variant: the transcript is saved as processing on every attempt. *)
NotesFailUnsettled(k) ==
    /\ job[k].pc = "running" /\ job[k].audio
    /\ JobFails(k)
    /\ SetResult(job[k].s, TRUE, FALSE, "processing")
    /\ UNCHANGED <<fresh, stored, gateway, cut, faults>>

(* The chat model failed: the transcript is saved alone. *)
NotesFail(k) ==
    /\ job[k].pc = "running" /\ job[k].audio
    /\ JobFails(k)
    /\ SetResult(job[k].s, TRUE, FALSE, IF LastAttempt(k) THEN "failed" ELSE "processing")
    /\ UNCHANGED <<fresh, stored, gateway, cut, faults>>

SaveNotes(k) ==
    /\ job[k].pc = "running" /\ job[k].audio
    /\ SetResult(job[k].s, TRUE, TRUE, "complete")
    /\ JobAt(k, "saved")
    /\ UNCHANGED <<fresh, stored, gateway, cut, faults>>

(* GetSession or an update of the results failed. *)
DatabaseFails(k) ==
    /\ job[k].pc \in {"queued", "running"}
    /\ JobFails(k) /\ Disturb
    /\ cut' = IF LastAttempt(k) THEN cut \cup {job[k].s} ELSE cut
    /\ UNCHANGED <<database, gateway>>

(* The notes are posted and extraction, Proposals' subject, is enqueued. *)
Announce(k) ==
    /\ job[k].pc = "saved"
    /\ job' = [job EXCEPT ![k] = NoJob]
    /\ UNCHANGED <<database, gateway, cut, faults>>

(* The queue drops the job or takes it back, or loses it in a Requeue. *)
Drop(k) ==
    /\ job[k].pc = "drop"
    /\ job' = [job EXCEPT ![k] = NoJob]
    /\ UNCHANGED <<database, gateway, cut, faults>>

(* Variant: the attempt is not counted. *)
RetryUncounted(k) ==
    /\ job[k].pc = "retry"
    /\ job' = [job EXCEPT ![k].pc = "queued", ![k].audio = FALSE]
    /\ UNCHANGED <<database, gateway, cut, faults>>

Retry(k) ==
    /\ job[k].pc = "retry"
    /\ job' = [job EXCEPT ![k].pc = "queued", ![k].attempt = @ + 1, ![k].audio = FALSE]
    /\ UNCHANGED <<database, gateway, cut, faults>>

RetryLost(k) ==
    /\ job[k].pc = "retry"
    /\ cut' = cut \cup {job[k].s}
    /\ job' = [job EXCEPT ![k] = NoJob]
    /\ Disturb
    /\ UNCHANGED <<database, gateway>>

(* The worker died or was stopped, and the reaper brings the job back. *)
WorkerLost(k) ==
    /\ job[k].pc \in {"running", "retry", "drop", "saved"}
    /\ job' = [job EXCEPT ![k].pc = "queued", ![k].audio = FALSE]
    /\ Disturb
    /\ UNCHANGED <<database, gateway, cut>>

(* The reply of BRPOPLPUSH is lost, the handler panics and process returns  *)
(* with neither Ack nor Requeue, or the Requeue or the Ack fails in Redis:  *)
(* the body stays on the processing list, and the worker goes on without it.*)
Stranded(k) ==
    /\ job[k].pc \in JobPoints \ {"stranded"}
    /\ job' = [job EXCEPT ![k].pc = "stranded", ![k].audio = FALSE]
    /\ Disturb
    /\ UNCHANGED <<database, gateway, cut>>

(* A worker starts, and ReapOrphans brings a stranded job back.             *)
Recovered(k) ==
    /\ job[k].pc = "stranded"
    /\ job' = [job EXCEPT ![k].pc = "queued"]
    /\ UNCHANGED <<database, gateway, cut, faults>>
-----------------------------------------------------------------------------
Command(h) == StartLookup(h) \/ StopLookup(h) \/ RequeueLookup(h)

Proceeds(p) ==
    \/ StartCheck(p) \/ StartClear(p) \/ StartCreate(p) \/ StartRollback(p)
    \/ JoinCheck(p) \/ JoinOpened(p) \/ JoinGivesUp(p)
    \/ StopCheck(p) \/ StopClear(p) \/ StopLeave(p) \/ StopFlush(p) \/ StopEnd(p)
    \/ RequeueMark(p) \/ HandOver(p)

Resumes == ResumeList \/ Proceeds(Resume)
Reaps == ReapQuery \/ ReapCheck \/ ReapClear \/ ReapEnd \/ HandOver(Reaper)

Works(k) ==
    \/ TranscribeBegin(k) \/ TranscribeFails(k) \/ NothingToTranscribe(k)
    \/ NotesFail(k) \/ SaveNotes(k) \/ Announce(k) \/ Drop(k) \/ Retry(k)

Next ==
    \/ \E h \in Handlers : Command(h) \/ Proceeds(h)
    \/ \E p \in Procs : WriteFails(p) \/ HandOverFails(p)
    \/ Resumes \/ Reaps \/ GatewayStops \/ GatewayStarts
    \/ \E s \in Sessions : Checkpoint(s) \/ HeartbeatAges(s)
    \/ \E k \in Tickets :
          \/ Works(k) \/ DatabaseFails(k) \/ RetryLost(k)
          \/ WorkerLost(k) \/ Stranded(k) \/ Recovered(k)

Spec == Init /\ [][Next]_vars

(* Commands, deaths and failures need not happen, nor need a worker start   *)
(* that brings a stranded job back: the one that is up only looks at the    *)
(* pending list.  A handler's waits all have a deadline, the reaper ticks   *)
(* every minute, Kubernetes restarts the gateway, and the worker goes on    *)
(* with the jobs that are pending or in its hands.                          *)
Fairness ==
    /\ \A h \in Handlers : WF_vars(Proceeds(h))
    /\ WF_vars(Resumes)
    /\ WF_vars(Reaps)
    /\ WF_vars(GatewayStarts)
    /\ \A s \in Sessions :
          WF_vars(s \notin looping /\ HeartbeatAges(s))
    /\ \A k \in Tickets : WF_vars(Works(k))

FairSpec == Spec /\ Fairness
-----------------------------------------------------------------------------
TypeOK ==
    /\ row \in [Sessions -> Row]
    /\ fresh \subseteq Sessions /\ stored \subseteq Sessions
    /\ job \in [Tickets -> Job \cup {NoJob}]
    /\ up \in BOOLEAN /\ rec \in Sessions \cup {None} /\ looping \subseteq Sessions
    /\ proc \in [Procs -> Point]
    /\ cut \subseteq Sessions /\ overlap \in BOOLEAN /\ faults \in 0..MaxFaults

(* A session that says "processing" has a transcription job in the queue,   *)
(* stranded maybe but there for the next worker's reaper, or a process      *)
(* about to enqueue one, whatever commands, reaps, requeues and runs of the *)
(* same session overlap; or its hand-over was cut: by a death or a Redis    *)
(* failure after EndSession, or by a database failure on the last attempt.  *)
ProcessingHasJob ==
    \A s \in Sessions : row[s].status = "processing" =>
        \/ \E k \in Tickets : job[k] # NoJob /\ job[k].s = s
        \/ \E p \in Procs : proc[p].pc = "handing" /\ proc[p].s = s
        \/ s \in cut

(* The recording in memory is the row that says "recording", so /session    *)
(* stop can reach it; only a process that ran during somebody's voice       *)
(* handshake can have taken the row away.                                   *)
LiveRowIsRecording == Has => row[rec].status = "recording" \/ overlap

(* A processing session is eventually complete or failed, unless its        *)
(* hand-over was cut or its job comes to be stranded; one that a worker's   *)
(* start brought back settles like any other.                               *)
ProcessingSettles ==
    \A s \in Sessions : row[s].status = "processing" ~>
        \/ row[s].status # "processing" \/ s \in cut
        \/ \E k \in Tickets : job[k].pc = "stranded" /\ job[k].s = s

(* worker.go: a recovered panic lets one bad job do no harm to the others   *)
(* in flight; but the session of that job then says "processing" until some *)
(* worker starts.  This is what a user expects, and the code does not keep  *)
(* it.                                                                      *)
EverySessionSettles ==
    \A s \in Sessions : row[s].status = "processing" ~>
        (row[s].status # "processing" \/ s \in cut)

(* A recording row whose recorder is gone is eventually resumed or cleared, *)
(* so a dead gateway does not wedge its guild.                              *)
RecordingAttended ==
    \A s \in Sessions : row[s].status = "recording" ~>
        (row[s].status # "recording" \/ rec = s \/ overlap)

(* handlers_session.go: a row without a recording is cleared "so the user   *)
(* isn't wedged".  A guild is wedged when nothing is going on and /session  *)
(* start refuses (a recording is in memory) while /session stop finds none  *)
(* (no row says recording).                                                 *)
NeverWedged ==
    ~ (Has /\ Recording = {} /\ \A p \in Procs : proc[p] = Idle)

(* transcribe.go, when the notes fail: "Keep the transcript either way so   *)
(* nothing is lost".  A later run of the job must then not lose it.         *)
TranscriptKept ==
    [][\A k \in Tickets, s \in Sessions :
          job'[k] # job[k] /\ row[s].text => row'[s].text]_vars
=============================================================================
