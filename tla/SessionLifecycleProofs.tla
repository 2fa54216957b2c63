----------------------- MODULE SessionLifecycleProofs -----------------------
(***************************************************************************)
(* Theorems about SessionLifecycle, for any number of sessions, commands   *)
(* at once, transcription jobs, retries, deaths and failures: a session    *)
(* that says "processing" is somebody's business, and the recording in     *)
(* memory is the row that says "recording".                                *)
(***************************************************************************)
EXTENDS SessionLifecycle, TLAPS

(* A row in one of these statuses was recorded, and never records again.    *)
Finished == {"processing", "complete", "failed"}
Ended(s) == row[s].status \in Finished

(* A job that may have yet to write the results of its session, or fail it. *)
Owing == {"queued", "running", "retry", "stranded"}
Owes(k, s) == job[k].pc \in Owing /\ job[k].s = s
Hands(p, s) == proc[p].pc = "handing" /\ proc[p].s = s

Owed ==
    \A s \in Sessions : row[s].status = "processing" =>
        (\E k \in Tickets : Owes(k, s)) \/ (\E p \in Procs : Hands(p, s)) \/ s \in cut

JobsLate == \A k \in Tickets : job[k] # NoJob => Ended(job[k].s)
RetriesLeft == \A k \in Tickets : job[k].pc = "retry" => job[k].attempt < MaxRetries

(* Points at which a process has seen that nothing is recorded, or has      *)
(* taken the recording away.                                                *)
Silent == {"start.clear", "start.opening", "stop.clear", "stop.flush", "stop.end",
           "reap.clear", "reap.end"}
Joining == {"start.joining", "start.opening"}
ResumePoints == {"idle", "resume.list"} \cup Joining

(* What a process knows of its session; most of it only as long as nobody   *)
(* ran beside a voice handshake.                                            *)
Knows(p) ==
    /\ p = Resume => proc[p].pc \in ResumePoints
    /\ proc[p].pc \in {"handing", "requeue.mark"} => Ended(proc[p].s)
    /\ ~overlap /\ proc[p].pc \in Silent => rec = None
    /\ ~overlap /\ proc[p].pc = "start.rollback" => rec # proc[p].s
    /\ ~overlap /\ proc[p].pc = "start.joining" /\ p # Resume => rec # proc[p].s
    /\ ~overlap /\ proc[p].pc \in Joining => row[proc[p].s].status = "recording"

Watched == overlap \/ ~Overlapping(proc)

IInv ==
    /\ TypeOK /\ Owed /\ JobsLate /\ RetriesLeft /\ Watched
    /\ \A p \in Procs : Knows(p)
    /\ LiveRowIsRecording
-----------------------------------------------------------------------------
PointsWithSession ==
    StartPoints \cup StopPoints \cup ReaperPoints
    \cup {"handing", "stop.flush", "requeue.mark"}

LEMMA PointFields ==
    ASSUME TypeOK, NEW p \in Procs
    PROVE  /\ proc[p].pc \in PointsWithSession => proc[p].s \in Sessions
           /\ proc[p].pc = "stop.flush" => proc[p].of \in Sessions
           /\ proc[p].pc = "requeue.mark" => proc[p].text \in BOOLEAN /\ proc[p].notes \in BOOLEAN
<1>1. proc[p] \in Point
  BY DEF TypeOK
<1> QED BY <1>1 DEF Point, PointsWithSession, Idle, At, StartPoints, StopPoints, ReaperPoints

LEMMA SessionPoint ==
    ASSUME NEW s \in Sessions,
           NEW pc \in StartPoints \cup StopPoints \cup ReaperPoints \cup {"handing"}
    PROVE  At(pc, s) \in Point
BY DEF Point

LEMMA OtherPoints ==
    /\ Idle \in Point /\ [pc |-> "start.create"] \in Point /\ [pc |-> "resume.list"] \in Point
    /\ \A s, t \in Sessions : [pc |-> "stop.flush", s |-> s, of |-> t] \in Point
    /\ \A s \in Sessions, text, notes \in BOOLEAN :
          [pc |-> "requeue.mark", s |-> s, text |-> text, notes |-> notes] \in Point
BY DEF Point

LEMMA GoTypes ==
    ASSUME TypeOK, NEW p \in Procs, NEW point \in Point, Go(p, point)
    PROVE  /\ proc' \in [Procs -> Point] /\ overlap' \in BOOLEAN
           /\ proc'[p] = point /\ \A q \in Procs \ {p} : proc'[q] = proc[q]
           /\ overlap => overlap'
<1>1. proc' = [proc EXCEPT ![p] = point]
  BY DEF Go
<1>2. overlap' = (overlap \/ Overlapping([proc EXCEPT ![p] = point]))
  BY DEF Go
<1>3. overlap' \in BOOLEAN /\ (overlap => overlap')
  BY <1>2, Zenon
<1> QED BY <1>1, <1>3 DEF TypeOK

LEMMA ResultTypes ==
    ASSUME TypeOK, NEW s \in Sessions, NEW text \in BOOLEAN, NEW notes \in BOOLEAN,
           NEW status \in Statuses, SetResult(s, text, notes, status)
    PROVE  /\ row' \in [Sessions -> Row] /\ row'[s].status = status
           /\ \A t \in Sessions \ {s} : row'[t] = row[t]
<1>1. [status |-> status, text |-> text, notes |-> notes] \in Row
  BY DEF Row
<1> QED BY <1>1 DEF SetResult, Written, TypeOK

LEMMA EndTypes ==
    ASSUME TypeOK, NEW s \in Sessions, EndSession(s)
    PROVE  /\ row' \in [Sessions -> Row] /\ row'[s].status = "processing"
           /\ \A t \in Sessions \ {s} : row'[t] = row[t]
<1>1. row[s] \in Row
  BY DEF TypeOK
<1>2. /\ [row[s] EXCEPT !.status = "processing"] \in Row
      /\ [row[s] EXCEPT !.status = "processing"].status = "processing"
  BY <1>1 DEF Row, Statuses
<1>3. row' = [row EXCEPT ![s] = [row[s] EXCEPT !.status = "processing"]]
  BY DEF EndSession
<1> QED BY <1>2, <1>3 DEF TypeOK

LEMMA DisturbTypes ==
    ASSUME TypeOK, Disturb
    PROVE  faults' \in 0..MaxFaults
BY SessionBounds DEF TypeOK, Disturb

LEMMA ProcsAre == Resume \in Procs /\ Reaper \in Procs /\ Handlers \subseteq Procs
BY DEF Procs
-----------------------------------------------------------------------------
(* Rows are only ever ended, or begin to record. *)
RowsGoOn ==
    \A s \in Sessions : \/ row'[s] = row[s] \/ Ended(s)'
                        \/ row[s].status = "absent" /\ row'[s].status = "recording"

LEMMA EndedStays ==
    ASSUME TypeOK, RowsGoOn, NEW s \in Sessions, Ended(s)
    PROVE  Ended(s)'
BY DEF RowsGoOn, Ended, Finished

(* A process that takes a step disturbs what the others know only beside a  *)
(* voice handshake.                                                         *)
LEMMA OthersKnow ==
    ASSUME IInv, NEW p \in Procs, NEW point \in Point, Go(p, point), RowsGoOn,
           row' = row \/ proc[p] # Idle,
           rec' \in {rec, None} \/ proc[p].pc = "start.opening",
           NEW q \in Procs \ {p}
    PROVE  Knows(q)'
<1>1. TypeOK /\ Knows(q) /\ Watched
  BY DEF IInv
<1>2. proc'[q] = proc[q] /\ (overlap => overlap')
  BY <1>1, GoTypes
<1>3. proc[q].pc \in {"handing", "requeue.mark"} => row'[proc[q].s].status \in Finished
  <2>1. proc[q].pc \in {"handing", "requeue.mark"} => Ended(proc[q].s) /\ proc[q].s \in Sessions
    BY <1>1, PointFields DEF Knows, PointsWithSession
  <2>2. ASSUME NEW u \in Sessions, Ended(u) PROVE Ended(u)'
    BY <1>1, <2>2, EndedStays
  <2> QED BY <1>2, <2>1, <2>2 DEF Ended
<1>4. ASSUME ~overlap', proc[q].pc \in Joining
      PROVE  proc[p] = Idle
  <2>1. q \in Procs /\ p \in Procs \ {q}
    OBVIOUS
  <2>2. proc[q].pc \in {"start.joining", "start.opening"}
    BY <1>4 DEF Joining
  <2>3. ~Overlapping(proc)
    BY <1>1, <1>2, <1>4 DEF Watched
  <2> QED BY <2>1, <2>2, <2>3 DEF Overlapping
<1>5. ASSUME ~overlap', proc[q].pc \in Silent \cup Joining \cup {"start.rollback"}
      PROVE  rec' \in {rec, None}
  <2>1. SUFFICES ASSUME proc[p].pc = "start.opening" PROVE FALSE
    OBVIOUS
  <2>2. q \in Procs \ {p} /\ proc[q] # Idle
    BY <1>5 DEF Silent, Joining, Idle
  <2>3. ~Overlapping(proc)
    BY <1>1, <1>2, <1>5 DEF Watched
  <2> QED BY <2>1, <2>2, <2>3 DEF Overlapping
<1>6. None \notin Sessions
  BY DistinctAssumption
<1>7. ~overlap' /\ proc[q].pc \in Silent => rec' = None
  BY <1>1, <1>2, <1>5 DEF Knows
<1>8. ~overlap' /\ proc[q].pc = "start.rollback" => rec' # proc[q].s
  BY <1>1, <1>2, <1>5, <1>6, PointFields DEF Knows, PointsWithSession, StartPoints
<1>9. ~overlap' /\ proc[q].pc = "start.joining" /\ q # Resume => rec' # proc[q].s
  BY <1>1, <1>2, <1>5, <1>6, PointFields DEF Knows, PointsWithSession, StartPoints, Joining
<1>10. ~overlap' /\ proc[q].pc \in Joining => row'[proc[q].s].status = "recording"
  BY <1>1, <1>2, <1>4 DEF Knows
<1>11. q = Resume => proc[q].pc \in ResumePoints
  BY <1>1 DEF Knows
<1> QED BY <1>2, <1>3, <1>7, <1>8, <1>9, <1>10, <1>11 DEF Knows, Ended

(* A step of a process, with what has to be shown of it alone. *)
LEMMA MoveStep ==
    ASSUME IInv, TypeOK', NEW p \in Procs, \E point \in Point : Go(p, point), RowsGoOn,
           row' = row \/ proc[p] # Idle,
           \/ rec' \in {rec, None} /\ (~overlap /\ rec # None => row'[rec] = row[rec])
           \/ proc[p].pc = "start.opening" /\ rec' = proc[p].s /\ row' = row,
           cut \subseteq cut',
           \A s \in Sessions : row'[s].status = "processing" =>
                row[s].status = "processing" \/ Hands(p, s)',
           proc[p].pc = "handing" =>
                \E s \in Sessions : /\ s = proc[p].s
                                    /\ s \in cut' \/ \E k \in Tickets : Owes(k, s)',
           \A k \in Tickets : \/ job'[k] = job[k]
                              \/ /\ job[k] = NoJob /\ job'[k].pc = "queued"
                                 /\ row'[job'[k].s].status \in Finished,
           Knows(p)'
    PROVE  IInv'
<1>1. PICK point \in Point : Go(p, point)
  OBVIOUS
<1>2. TypeOK /\ Watched
  BY DEF IInv
<1>3. /\ proc' = [proc EXCEPT ![p] = point] /\ (overlap => overlap')
      /\ proc'[p] = point /\ \A q \in Procs \ {p} : proc'[q] = proc[q]
  BY <1>1, <1>2, GoTypes DEF Go
<1>4. ASSUME NEW q \in Procs PROVE Knows(q)'
  <2>1. CASE q = p
    BY <2>1
  <2>2. CASE q # p
    BY <1>1, <2>2, OthersKnow
  <2> QED BY <2>1, <2>2
<1>5. Watched'
  <2>1. overlap' \/ ~Overlapping(proc')
    BY <1>1 DEF Go
  <2> QED BY <2>1 DEF Watched, Overlapping
<1>6. JobsLate'
  <2> SUFFICES ASSUME NEW k \in Tickets, job'[k] # NoJob
               PROVE  row'[job'[k].s].status \in Finished
    BY DEF JobsLate, Ended
  <2>1. CASE job'[k] = job[k]
    <3>1. job[k].s \in Sessions /\ Ended(job[k].s)
      BY <2>1, <1>2 DEF IInv, JobsLate, TypeOK, Job
    <3> QED BY <2>1, <3>1, <1>2, EndedStays DEF Ended, RowsGoOn
  <2> QED BY <2>1
<1>7. Owed'
  <2> SUFFICES ASSUME NEW s \in Sessions, row'[s].status = "processing"
               PROVE  \/ \E k \in Tickets : Owes(k, s)'
                      \/ \E q \in Procs : Hands(q, s)'
                      \/ s \in cut'
    BY DEF Owed
  <2>1. CASE Hands(p, s)'
    BY <2>1
  <2>2. CASE row[s].status = "processing" /\ ~Hands(p, s)'
    <3>1. CASE s \in cut
      BY <3>1
    <3>2. ASSUME NEW k \in Tickets, Owes(k, s) PROVE Owes(k, s)'
      BY <3>2 DEF Owes, Owing, NoJob
    <3>3. ASSUME NEW q \in Procs \ {p}, Hands(q, s) PROVE Hands(q, s)'
      BY <1>3, <3>3 DEF Hands
    <3>4. CASE Hands(p, s)
      BY <3>4 DEF Hands
    <3>5. (\E k \in Tickets : Owes(k, s)) \/ (\E q \in Procs : Hands(q, s)) \/ s \in cut
      BY <2>2 DEF IInv, Owed
    <3> QED BY <3>1, <3>2, <3>3, <3>4, <3>5
  <2> QED BY <2>1, <2>2
<1>8. LiveRowIsRecording'
  <2> SUFFICES ASSUME ~overlap', rec' # None PROVE row'[rec'].status = "recording"
    BY DEF LiveRowIsRecording, Has
  <2>1. ~overlap
    BY <1>3
  <2>2. CASE rec' = rec /\ row'[rec] = row[rec]
    BY <2>1, <2>2 DEF IInv, LiveRowIsRecording, Has
  <2>3. CASE proc[p].pc = "start.opening" /\ rec' = proc[p].s /\ row' = row
    BY <2>1, <2>3 DEF IInv, Knows, Joining
  <2> QED BY <2>1, <2>2, <2>3
<1>9. RetriesLeft'
  BY DEF IInv, RetriesLeft
<1> QED BY <1>4, <1>5, <1>6, <1>7, <1>8, <1>9 DEF IInv

(* A step that leaves the rows, the recording and the jobs alone. *)
LEMMA LookStep ==
    ASSUME IInv, NEW p \in Procs, \E point \in Point : Go(p, point),
           UNCHANGED <<row, fresh, job, rec, cut>>, stored' \subseteq Sessions,
           up' \in BOOLEAN, looping' \subseteq Sessions, faults' \in 0..MaxFaults,
           proc[p].pc # "handing", Knows(p)'
    PROVE  IInv'
<1>1. TypeOK
  BY DEF IInv
<1>2. proc' \in [Procs -> Point] /\ overlap' \in BOOLEAN
  BY <1>1, GoTypes
<1>3. TypeOK'
  BY <1>1, <1>2 DEF TypeOK
<1>4. RowsGoOn
  BY DEF RowsGoOn
<1> QED BY <1>3, <1>4, MoveStep

(* A step that writes the row of s, which is not the recording in memory. *)
LEMMA WriteStep ==
    ASSUME IInv, NEW p \in Procs, \E point \in Point : Go(p, point), NEW s \in Sessions,
           row' \in [Sessions -> Row], \A t \in Sessions \ {s} : row'[t] = row[t],
           Ended(s)' \/ (row[s].status = "absent" /\ row'[s].status = "recording"),
           UNCHANGED <<stored, job, up, rec, looping, cut, faults>>, fresh' \subseteq Sessions,
           proc[p] # Idle, proc[p].pc # "handing",
           ~overlap => rec # s, row'[s].status = "processing" => Hands(p, s)', Knows(p)'
    PROVE  IInv'
<1>1. TypeOK
  BY DEF IInv
<1>2. proc' \in [Procs -> Point] /\ overlap' \in BOOLEAN
  BY <1>1, GoTypes
<1>3. TypeOK'
  BY <1>1, <1>2 DEF TypeOK
<1>4. RowsGoOn
  BY DEF RowsGoOn
<1>5. ~overlap /\ rec # None => row'[rec] = row[rec]
  BY <1>1 DEF TypeOK
<1>6. \A t \in Sessions : row'[t].status = "processing" =>
          row[t].status = "processing" \/ Hands(p, t)'
  OBVIOUS
<1> QED BY <1>3, <1>4, <1>5, <1>6, MoveStep

(* SetResult and EndSession, of a process that then goes to point. *)
LEMMA ResultStep ==
    ASSUME IInv, NEW p \in Procs, NEW point \in Point, Go(p, point), NEW s \in Sessions,
           \/ /\ \E text, notes \in BOOLEAN, status \in {"failed", "processing"} :
                    SetResult(s, text, notes, status)
              /\ ~overlap => rec # s
           \/ EndSession(s) /\ (~overlap => rec # s),
           UNCHANGED <<fresh, stored, job, up, rec, looping, cut, faults>>,
           proc[p] # Idle, proc[p].pc # "handing", p # Resume,
           row'[s].status = "failed" \/ point = At("handing", s),
           point \in {Idle, [pc |-> "start.create"], At("handing", s)}
    PROVE  IInv'
<1>1. TypeOK
  BY DEF IInv
<1>2. row' \in [Sessions -> Row] /\ \A t \in Sessions \ {s} : row'[t] = row[t]
  BY <1>1, ResultTypes, EndTypes DEF Statuses
<1>3. row'[s].status \in {"failed", "processing"}
  BY <1>1, ResultTypes, EndTypes DEF Statuses
<1>4. proc'[p] = point
  BY <1>1, GoTypes
<1>5. Ended(s)'
  BY <1>3 DEF Ended, Finished
<1>6. row'[s].status = "processing" => Hands(p, s)'
  BY <1>4 DEF Hands, At
<1>7. Knows(p)'
  <2>1. CASE point = At("handing", s)
    BY <1>4, <1>5, <2>1 DEF Knows, At, Silent, Joining, Ended
  <2>2. CASE point \in {Idle, [pc |-> "start.create"]}
    BY <1>4, <2>2 DEF Knows, Idle, Silent, Joining
  <2> QED BY <2>1, <2>2
<1>8. fresh' \subseteq Sessions
  BY <1>1 DEF TypeOK
<1>9. \E next \in Point : Go(p, next)
  OBVIOUS
<1>10. ~overlap => rec # s
  OBVIOUS
<1>11. Ended(s)' \/ (row[s].status = "absent" /\ row'[s].status = "recording")
  BY <1>5
<1> QED BY <1>2, <1>6, <1>7, <1>8, <1>9, <1>10, <1>11, WriteStep, Zenon

-----------------------------------------------------------------------------
(* Points that say nothing of the recording. *)
Plain == {"idle", "start.looked", "start.create", "stop.looked", "stop.leaving",
          "reap.found", "resume.list"}

LEMMA PlainKnows ==
    ASSUME TypeOK, NEW p \in Procs, NEW point \in Point, Go(p, point), point.pc \in Plain,
           p = Resume => point.pc \in ResumePoints
    PROVE  Knows(p)'
<1>1. proc'[p] = point
  BY GoTypes
<1> QED BY <1>1 DEF Knows, Plain, Silent, Joining

(* A step that only looks, and goes to point. *)
LEMMA Looks ==
    ASSUME IInv, NEW p \in Procs, NEW point \in Point, Go(p, point),
           UNCHANGED <<database, job, up, rec, looping, cut>>, faults' \in 0..MaxFaults,
           proc[p].pc # "handing", Knows(p)'
    PROVE  IInv'
<1>1. \E next \in Point : Go(p, next)
  OBVIOUS
<1>2. UNCHANGED <<row, fresh, job, rec, cut>>
  BY DEF database
<1>3. stored' \subseteq Sessions /\ up' \in BOOLEAN /\ looping' \subseteq Sessions
  BY DEF IInv, TypeOK, database
<1>4. faults' \in 0..MaxFaults
  OBVIOUS
<1>5. Knows(p)' /\ proc[p].pc # "handing"
  OBVIOUS
<1> QED BY <1>1, <1>2, <1>3, <1>4, <1>5, LookStep, Zenon

LEMMA LooksPlain ==
    ASSUME IInv, NEW p \in Procs, NEW point \in Point, Go(p, point), point.pc \in Plain,
           p = Resume => point.pc \in ResumePoints,
           UNCHANGED <<database, job, up, rec, looping, cut>>, faults' \in 0..MaxFaults,
           proc[p].pc # "handing"
    PROVE  IInv'
<1>1. TypeOK
  BY DEF IInv
<1>2. Knows(p)'
  BY <1>1, PlainKnows
<1> QED BY <1>2, Looks

(* The lookups of the commands, of the reaper and of the resume. *)
LEMMA CommandStep ==
    ASSUME IInv, NEW h \in Handlers, Command(h)
    PROVE  IInv'
<1>1. TypeOK /\ h \in Procs /\ h # Resume /\ faults \in 0..MaxFaults
  BY DistinctAssumption DEF IInv, TypeOK, Procs
<1>2. CASE StartLookup(h)
  <2>1. PICK point \in Point : Go(h, point) /\ point.pc \in Plain
    <3>1. CASE Go(h, [pc |-> "start.create"])
      BY <3>1, OtherPoints DEF Plain
    <3>2. CASE \E s \in Recording : Go(h, At("start.looked", s))
      <4>1. PICK s \in Recording : Go(h, At("start.looked", s))
        BY <3>2
      <4>2. At("start.looked", s) \in Point /\ At("start.looked", s).pc \in Plain
        BY SessionPoint DEF Recording, StartPoints, At, Plain
      <4> QED BY <4>1, <4>2
    <3> QED BY <1>2, <3>1, <3>2 DEF StartLookup
  <2>2. proc[h].pc # "handing"
    BY <1>2 DEF StartLookup, Idle
  <2>3. UNCHANGED <<database, job, up, rec, looping, cut>> /\ faults' \in 0..MaxFaults
    BY <1>1, <1>2 DEF StartLookup
  <2> QED BY <1>1, <2>1, <2>2, <2>3, LooksPlain
<1>3. CASE StopLookup(h)
  <2>1. PICK s \in Sessions : Go(h, At("stop.looked", s))
    BY <1>3 DEF StopLookup, Recording
  <2>2. At("stop.looked", s) \in Point /\ At("stop.looked", s).pc \in Plain
    BY SessionPoint DEF StopPoints, At, Plain
  <2>3. proc[h].pc # "handing"
    BY <1>3 DEF StopLookup, Idle
  <2>4. UNCHANGED <<database, job, up, rec, looping, cut>> /\ faults' \in 0..MaxFaults
    BY <1>1, <1>3 DEF StopLookup
  <2> QED BY <1>1, <2>1, <2>2, <2>3, <2>4, LooksPlain
<1>4. CASE RequeueLookup(h)
  <2>1. PICK s \in Sessions : /\ row[s].status \notin {"absent", "recording"}
                              /\ Go(h, [pc |-> "requeue.mark", s |-> s,
                                        text |-> row[s].text, notes |-> row[s].notes])
    BY <1>4 DEF RequeueLookup
  <2>2. PICK point : point = [pc |-> "requeue.mark", s |-> s,
                              text |-> row[s].text, notes |-> row[s].notes]
    OBVIOUS
  <2>3. row[s] \in Row
    BY <1>1 DEF TypeOK
  <2>4. point \in Point /\ Go(h, point) /\ point.pc = "requeue.mark" /\ point.s = s
    BY <2>1, <2>2, <2>3, OtherPoints DEF Row
  <2>5. Ended(s) /\ row' = row
    BY <1>4, <2>1, <2>3 DEF Ended, Finished, Row, Statuses, RequeueLookup, database
  <2>6. Knows(h)'
    <3>1. proc'[h] = point
      BY <1>1, <2>4, GoTypes
    <3> QED BY <1>1, <2>4, <2>5, <3>1 DEF Knows, Ended, Silent, Joining
  <2>7. proc[h].pc # "handing"
    BY <1>4 DEF RequeueLookup, Idle
  <2>8. UNCHANGED <<database, job, up, rec, looping, cut>> /\ faults' \in 0..MaxFaults
    BY <1>1, <1>4 DEF RequeueLookup
  <2> QED BY <1>1, <2>4, <2>6, <2>7, <2>8, Looks
<1> QED BY <1>2, <1>3, <1>4 DEF Command
-----------------------------------------------------------------------------
LEMMA OnSession ==
    ASSUME IInv, NEW p \in Procs, proc[p].pc \in PointsWithSession
    PROVE  proc[p].s \in Sessions /\ proc[p].s # None /\ proc[p] # Idle
<1>1. proc[p].s \in Sessions
  BY PointFields DEF IInv
<1>2. proc[p] # Idle
  BY DEF PointsWithSession, StartPoints, StopPoints, ReaperPoints, Idle
<1> QED BY <1>1, <1>2, DistinctAssumption

(* A check of the voice manager's map: what follows when it is empty.       *)
LEMMA LooksEmpty ==
    ASSUME IInv, NEW p \in Procs, NEW pc \in {"start.clear", "stop.clear", "reap.end", "reap.clear"},
           Go(p, At(pc, proc[p].s)), ~Has, proc[p].pc \in PointsWithSession \ {"handing"},
           p # Resume,
           UNCHANGED <<database, job, up, rec, looping, cut>>, faults' \in 0..MaxFaults
    PROVE  IInv'
<1>1. TypeOK /\ proc[p].s \in Sessions
  BY OnSession DEF IInv
<1>2. At(pc, proc[p].s) \in Point
  BY <1>1, SessionPoint DEF StartPoints, StopPoints, ReaperPoints
<1>3. PICK point \in Point : point = At(pc, proc[p].s)
  BY <1>2
<1>4. proc'[p] = point /\ point.pc = pc
  BY <1>1, <1>3, GoTypes DEF At
<1>5. Knows(p)'
  BY <1>4 DEF Knows, Joining, Has
<1> QED BY <1>3, <1>5, Looks

(* A session that is not recorded is marked failed. *)
LEMMA FailStep ==
    ASSUME IInv, NEW p \in Procs, p # Resume,
           proc[p].pc \in {"start.clear", "start.rollback", "stop.clear", "reap.clear"},
           SetResult(proc[p].s, FALSE, FALSE, "failed"),
           NEW point \in {Idle, [pc |-> "start.create"]}, Go(p, point),
           UNCHANGED <<fresh, stored, job, up, rec, looping, cut, faults>>
    PROVE  IInv'
<1>1. TypeOK /\ proc[p].s \in Sessions /\ proc[p].s # None /\ proc[p] # Idle
  BY OnSession DEF IInv, PointsWithSession, StartPoints, StopPoints, ReaperPoints
<1>2. ~overlap => rec # proc[p].s
  BY <1>1 DEF IInv, Knows, Silent
<1>3. row'[proc[p].s].status = "failed"
  BY <1>1, ResultTypes DEF Statuses
<1>4. point \in Point
  BY OtherPoints
<1> QED BY <1>1, <1>2, <1>3, <1>4, ResultStep

LEMMA StartCheckStep ==
    ASSUME IInv, NEW p \in Procs, StartCheck(p)
    PROVE  IInv'
<1>1. p # Resume
  BY DEF IInv, Knows, StartCheck, ResumePoints, Joining
<1>2. UNCHANGED <<database, job, up, rec, looping, cut>> /\ faults' \in 0..MaxFaults
  BY DEF StartCheck, IInv, TypeOK
<1>3. proc[p].pc \in PointsWithSession \ {"handing"}
  BY DEF StartCheck, PointsWithSession, StartPoints
<1>4. CASE Has
  <2>1. Go(p, Idle) /\ Idle \in Point /\ Idle.pc \in Plain
    BY <1>4, OtherPoints DEF StartCheck, Plain, Idle
  <2> QED BY <1>1, <1>2, <1>3, <2>1, LooksPlain
<1>5. CASE ~Has
  BY <1>1, <1>2, <1>3, <1>5, LooksEmpty DEF StartCheck
<1> QED BY <1>4, <1>5

LEMMA StartCreateStep ==
    ASSUME IInv, NEW p \in Procs, StartCreate(p)
    PROVE  IInv'
<1>1. p # Resume /\ proc[p] # Idle /\ proc[p].pc # "handing" /\ TypeOK
  BY DEF IInv, Knows, StartCreate, ResumePoints, Joining, Idle
<1>2. CASE Go(p, Idle) /\ UNCHANGED <<row, fresh>>
  <2>1. Idle \in Point /\ Idle.pc \in Plain
    BY OtherPoints DEF Plain, Idle
  <2>2. UNCHANGED <<database, job, up, rec, looping, cut>> /\ faults' \in 0..MaxFaults
    BY <1>1, <1>2 DEF StartCreate, TypeOK, database
  <2> QED BY <1>1, <1>2, <2>1, <2>2, LooksPlain
<1>3. ASSUME NEW s \in Sessions, row[s].status = "absent",
             SetResult(s, FALSE, FALSE, "recording"), fresh' = fresh \cup {s},
             Go(p, At("start.joining", s))
      PROVE  IInv'
  <2>1. At("start.joining", s) \in Point
    BY SessionPoint DEF StartPoints
  <2>2. PICK point \in Point : point = At("start.joining", s)
    BY <2>1
  <2>3. proc'[p] = point /\ (overlap => overlap') /\ point.pc = "start.joining" /\ point.s = s
    BY <1>1, <1>3, <2>2, GoTypes DEF At
  <2>4. /\ row' \in [Sessions -> Row] /\ row'[s].status = "recording"
        /\ \A t \in Sessions \ {s} : row'[t] = row[t]
    BY <1>1, <1>3, ResultTypes DEF Statuses
  <2>5. ~overlap => rec # s
    BY <1>3, DistinctAssumption DEF IInv, LiveRowIsRecording, Has
  <2>6. UNCHANGED <<stored, job, up, rec, looping, cut, faults>>
    BY DEF StartCreate
  <2>7. Knows(p)'
    BY <1>1, <2>3, <2>4, <2>5, <2>6 DEF Knows, Silent
  <2>8. fresh' \subseteq Sessions
    BY <1>1, <1>3 DEF TypeOK
  <2>9. Ended(s)' \/ (row[s].status = "absent" /\ row'[s].status = "recording")
    BY <1>3, <2>4
  <2>10. \E next \in Point : Go(p, next)
    BY <1>3, <2>1
  <2>11. row'[s].status = "processing" => Hands(p, s)'
    BY <2>4
  <2> QED BY <1>1, <2>4, <2>5, <2>6, <2>7, <2>8, <2>9, <2>10, <2>11, WriteStep, Zenon
<1> QED BY <1>2, <1>3 DEF StartCreate

LEMMA StopCheckStep ==
    ASSUME IInv, NEW p \in Procs, StopCheck(p)
    PROVE  IInv'
<1>1. p # Resume
  BY DEF IInv, Knows, StopCheck, ResumePoints, Joining
<1>2. UNCHANGED <<database, job, up, rec, looping, cut>> /\ faults' \in 0..MaxFaults
  BY DEF StopCheck, IInv, TypeOK
<1>3. proc[p].pc \in PointsWithSession \ {"handing"} /\ proc[p].s \in Sessions
  BY OnSession DEF StopCheck, PointsWithSession, StopPoints
<1>4. CASE Has
  <2>1. Go(p, At("stop.leaving", proc[p].s))
    BY <1>4 DEF StopCheck
  <2>2. At("stop.leaving", proc[p].s) \in Point /\ At("stop.leaving", proc[p].s).pc \in Plain
    BY <1>3, SessionPoint DEF StopPoints, At, Plain
  <2> QED BY <1>1, <1>2, <1>3, <2>1, <2>2, LooksPlain
<1>5. CASE ~Has
  BY <1>1, <1>2, <1>3, <1>5, LooksEmpty DEF StopCheck
<1> QED BY <1>4, <1>5
-----------------------------------------------------------------------------
LEMMA ClearsStep ==
    ASSUME IInv, NEW p \in Procs, StartClear(p) \/ StartRollback(p) \/ StopClear(p)
    PROVE  IInv'
<1>1. proc[p].pc \in {"start.clear", "start.rollback", "stop.clear"}
  BY DEF StartClear, StartRollback, StopClear
<1>2. p # Resume
  BY <1>1 DEF IInv, Knows, ResumePoints, Joining
<1>3. SetResult(proc[p].s, FALSE, FALSE, "failed")
  BY DEF StartClear, StartRollback, StopClear
<1>4. PICK point \in {Idle, [pc |-> "start.create"]} : Go(p, point)
  BY DEF StartClear, StartRollback, StopClear
<1>5. UNCHANGED <<fresh, stored, job, up, rec, looping, cut, faults>>
  BY DEF StartClear, StartRollback, StopClear
<1> QED BY <1>1, <1>2, <1>3, <1>4, <1>5, FailStep

(* A join that fails: nothing is recorded, or something else is. *)
LEMMA JoinFailedStep ==
    ASSUME IInv, NEW p \in Procs, proc[p].pc \in Joining, JoinFailed(p),
           UNCHANGED <<database, job, up, rec, looping, cut, faults>>
    PROVE  IInv'
<1>1. TypeOK /\ proc[p].s \in Sessions /\ proc[p].s # None
  BY OnSession DEF IInv, Joining, PointsWithSession, StartPoints
<1>2. proc[p].pc # "handing" /\ faults' \in 0..MaxFaults
  BY <1>1 DEF Joining, TypeOK
<1>3. UNCHANGED <<database, job, up, rec, looping, cut>>
  OBVIOUS
<1>4. CASE p = Resume
  <2>1. Go(p, Idle) /\ Idle \in Point /\ Idle.pc \in Plain /\ Idle.pc \in ResumePoints
    BY <1>4, OtherPoints DEF JoinFailed, Plain, Idle, ResumePoints
  <2> QED BY <1>2, <1>3, <2>1, LooksPlain
<1>5. CASE p # Resume
  <2>1. At("start.rollback", proc[p].s) \in Point
    BY <1>1, SessionPoint DEF StartPoints
  <2>2. PICK point \in Point : point = At("start.rollback", proc[p].s)
    BY <2>1
  <2>3. Go(p, point) /\ point.pc = "start.rollback" /\ point.s = proc[p].s
    BY <1>5, <2>2 DEF JoinFailed, At
  <2>4. proc'[p] = point /\ (overlap => overlap')
    BY <1>1, <2>3, GoTypes
  <2>5. ~overlap => rec # proc[p].s
    BY <1>1, <1>5 DEF IInv, Knows, Joining, Silent
  <2>6. Knows(p)'
    BY <1>3, <1>5, <2>3, <2>4, <2>5 DEF Knows, Silent, Joining
  <2> QED BY <1>2, <1>3, <2>3, <2>6, Looks
<1> QED BY <1>4, <1>5

LEMMA JoinCheckStep ==
    ASSUME IInv, NEW p \in Procs, JoinCheck(p)
    PROVE  IInv'
<1>1. proc[p].pc = "start.joining" /\ UNCHANGED <<database, job, up, rec, looping, cut, faults>>
  BY DEF JoinCheck
<1>2. CASE Has
  BY <1>1, <1>2, JoinFailedStep DEF JoinCheck, Joining
<1>3. CASE ~Has
  <2>1. TypeOK /\ proc[p].s \in Sessions
    BY <1>1, OnSession DEF IInv, PointsWithSession, StartPoints
  <2>2. At("start.opening", proc[p].s) \in Point
    BY <2>1, SessionPoint DEF StartPoints
  <2>3. PICK point \in Point : point = At("start.opening", proc[p].s)
    BY <2>2
  <2>4. Go(p, point) /\ point.pc = "start.opening" /\ point.s = proc[p].s
    BY <1>3, <2>3 DEF JoinCheck, At
  <2>5. proc'[p] = point /\ (overlap => overlap')
    BY <2>1, <2>4, GoTypes
  <2>6. ~overlap => row[proc[p].s].status = "recording"
    BY <1>1 DEF IInv, Knows, Joining
  <2>7. UNCHANGED <<row, rec>>
    BY <1>1 DEF database
  <2>8. Knows(p)'
    BY <1>3, <2>4, <2>5, <2>6, <2>7 DEF Knows, Joining, ResumePoints, Has
  <2>9. faults' \in 0..MaxFaults
    BY <1>1, <2>1 DEF TypeOK
  <2> QED BY <1>1, <2>4, <2>8, <2>9, Looks
<1> QED BY <1>2, <1>3

LEMMA JoinGivesUpStep ==
    ASSUME IInv, NEW p \in Procs, JoinGivesUp(p)
    PROVE  IInv'
BY JoinFailedStep DEF JoinGivesUp, Joining

(* The recording in memory becomes the session joined for. *)
LEMMA JoinOpenedStep ==
    ASSUME IInv, NEW p \in Procs, JoinOpened(p)
    PROVE  IInv'
<1>1. proc[p].pc = "start.opening" /\ rec' = proc[p].s /\ Go(p, Idle) /\ Idle \in Point
  BY OtherPoints DEF JoinOpened
<1>2. UNCHANGED <<row, fresh, stored, job, up, cut, faults>>
  BY DEF JoinOpened, database
<1>3. TypeOK /\ proc[p].s \in Sessions
  BY <1>1, OnSession DEF IInv, PointsWithSession, StartPoints
<1>4. proc' \in [Procs -> Point] /\ overlap' \in BOOLEAN /\ proc'[p] = Idle
  BY <1>1, <1>3, GoTypes
<1>5. TypeOK'
  BY <1>1, <1>2, <1>3, <1>4 DEF TypeOK, JoinOpened
<1>6. Knows(p)'
  BY <1>4 DEF Knows, Silent, Joining, ResumePoints, Idle
<1>7. RowsGoOn
  BY <1>2 DEF RowsGoOn
<1>8. \E point \in Point : Go(p, point)
  BY <1>1
<1>9. proc[p].pc = "handing" =>
         \E s \in Sessions : /\ s = proc[p].s
                             /\ s \in cut' \/ \E k \in Tickets : Owes(k, s)'
  BY <1>1
<1>10. \A s \in Sessions : row'[s].status = "processing" =>
           row[s].status = "processing" \/ Hands(p, s)'
  BY <1>2
<1> QED BY <1>1, <1>2, <1>5, <1>6, <1>7, <1>8, <1>9, <1>10, MoveStep

(* The recording is taken out of the map. *)
LEMMA StopLeaveStep ==
    ASSUME IInv, NEW p \in Procs, StopLeave(p)
    PROVE  IInv'
<1>1. proc[p].pc = "stop.leaving" /\ rec' = None
  BY DEF StopLeave
<1>2. UNCHANGED <<row, fresh, stored, job, up, looping, cut, faults>>
  BY DEF StopLeave, database
<1>3. TypeOK /\ proc[p].s \in Sessions /\ p # Resume
  BY <1>1, OnSession
     DEF IInv, PointsWithSession, StopPoints, Knows, ResumePoints, Joining
<1>4. PICK point \in Point : Go(p, point) /\ point.pc \in {"stop.flush", "stop.clear"}
  <2>1. CASE Has
    <3>1. rec \in Sessions
      BY <1>3, <2>1 DEF TypeOK, Has
    <3>2. PICK point : point = [pc |-> "stop.flush", s |-> proc[p].s, of |-> rec]
      OBVIOUS
    <3> QED BY <1>3, <2>1, <3>1, <3>2, OtherPoints DEF StopLeave
  <2>2. CASE ~Has
    <3>1. At("stop.clear", proc[p].s) \in Point
      BY <1>3, SessionPoint DEF StopPoints
    <3> QED BY <2>2, <3>1 DEF StopLeave, At
  <2> QED BY <2>1, <2>2
<1>5. proc' \in [Procs -> Point] /\ overlap' \in BOOLEAN /\ proc'[p] = point
  BY <1>3, <1>4, GoTypes
<1>6. TypeOK'
  BY <1>1, <1>2, <1>3, <1>5 DEF TypeOK
<1>7. Knows(p)'
  BY <1>1, <1>3, <1>4, <1>5 DEF Knows, Joining
<1>8. RowsGoOn
  BY <1>2 DEF RowsGoOn
<1>9. \E next \in Point : Go(p, next)
  BY <1>4
<1>10. proc[p].pc = "handing" =>
         \E s \in Sessions : /\ s = proc[p].s
                             /\ s \in cut' \/ \E k \in Tickets : Owes(k, s)'
  BY <1>1
<1>11. \A s \in Sessions : row'[s].status = "processing" =>
           row[s].status = "processing" \/ Hands(p, s)'
  BY <1>2
<1> QED BY <1>1, <1>2, <1>6, <1>7, <1>8, <1>9, <1>10, <1>11, MoveStep

LEMMA StopFlushStep ==
    ASSUME IInv, NEW p \in Procs, StopFlush(p)
    PROVE  IInv'
<1>1. proc[p].pc = "stop.flush" /\ Go(p, At("stop.end", proc[p].s))
  BY DEF StopFlush
<1>2. UNCHANGED <<row, fresh, job, up, rec, cut, faults>>
  BY DEF StopFlush
<1>3. TypeOK /\ proc[p].s \in Sessions /\ proc[p].of \in Sessions /\ p # Resume
  BY <1>1, OnSession, PointFields
     DEF IInv, PointsWithSession, Knows, ResumePoints, Joining
<1>4. stored' \subseteq Sessions /\ looping' \subseteq Sessions
  BY <1>3 DEF TypeOK, StopFlush
<1>5. At("stop.end", proc[p].s) \in Point
  BY <1>3, SessionPoint DEF StopPoints
<1>6. PICK point \in Point : point = At("stop.end", proc[p].s)
  BY <1>5
<1>7. proc'[p] = point /\ point.pc = "stop.end" /\ (overlap => overlap')
  BY <1>1, <1>3, <1>6, GoTypes DEF At
<1>8. ~overlap => rec = None
  BY <1>1 DEF IInv, Knows, Silent
<1>9. Knows(p)'
  BY <1>2, <1>3, <1>7, <1>8 DEF Knows, Joining
<1>10. up' \in BOOLEAN /\ faults' \in 0..MaxFaults
  BY <1>2, <1>3 DEF TypeOK
<1>11. \E next \in Point : Go(p, next)
  BY <1>1, <1>5
<1> QED BY <1>1, <1>2, <1>4, <1>9, <1>10, <1>11, LookStep
-----------------------------------------------------------------------------
(* The row becomes "processing", by the process that enqueues its job. *)
LEMMA EndsStep ==
    ASSUME IInv, NEW p \in Procs, proc[p].pc \in {"stop.end", "reap.end"},
           EndSession(proc[p].s), Go(p, At("handing", proc[p].s)),
           UNCHANGED <<fresh, stored, job, up, rec, looping, cut, faults>>
    PROVE  IInv'
<1>1. /\ TypeOK /\ proc[p].s \in Sessions /\ proc[p].s # None /\ proc[p] # Idle
      /\ p # Resume
  BY OnSession
     DEF IInv, PointsWithSession, StopPoints, ReaperPoints, Knows, ResumePoints, Joining
<1>2. ~overlap => rec # proc[p].s
  BY <1>1 DEF IInv, Knows, Silent
<1>3. At("handing", proc[p].s) \in Point
  BY <1>1, SessionPoint
<1>4. PICK s \in Sessions : s = proc[p].s
  BY <1>1
<1>5. PICK point \in Point : point = At("handing", s)
  BY <1>3, <1>4
<1>6. EndSession(s) /\ Go(p, point) /\ (~overlap => rec # s)
  BY <1>2, <1>4, <1>5
<1> QED BY <1>1, <1>5, <1>6, ResultStep

LEMMA RequeueMarkStep ==
    ASSUME IInv, NEW p \in Procs, RequeueMark(p)
    PROVE  IInv'
<1>1. proc[p].pc = "requeue.mark"
  BY DEF RequeueMark
<1>2. /\ TypeOK /\ proc[p].s \in Sessions /\ proc[p] # Idle /\ p # Resume
      /\ proc[p].text \in BOOLEAN /\ proc[p].notes \in BOOLEAN
  BY <1>1, OnSession, PointFields
     DEF IInv, PointsWithSession, Knows, ResumePoints, Joining
<1>3. PICK s \in Sessions : s = proc[p].s
  BY <1>2
<1>4. PICK text \in BOOLEAN, notes \in BOOLEAN : SetResult(s, text, notes, "processing")
  BY <1>2, <1>3 DEF RequeueMark
<1>5. ~overlap => rec # s
  <2>1. Ended(s)
    BY <1>1, <1>3 DEF IInv, Knows
  <2>2. s # None
    BY DistinctAssumption
  <2> QED BY <2>1, <2>2 DEF IInv, LiveRowIsRecording, Has, Ended, Finished
<1>6. At("handing", s) \in Point
  BY SessionPoint
<1>7. PICK point \in Point : point = At("handing", s)
  BY <1>6
<1>8. Go(p, point)
  BY <1>3, <1>7 DEF RequeueMark
<1>9. UNCHANGED <<fresh, stored, job, up, rec, looping, cut, faults>>
  BY DEF RequeueMark
<1>10. \E t, n \in BOOLEAN, status \in {"failed", "processing"} : SetResult(s, t, n, status)
  BY <1>4
<1> QED BY <1>1, <1>2, <1>5, <1>7, <1>8, <1>9, <1>10, ResultStep

(* An enqueue, or the death of its hopes: the session stays accounted for.  *)
LEMMA HandOverStep ==
    ASSUME IInv, NEW p \in Procs, HandOver(p) \/ HandOverFails(p)
    PROVE  IInv'
<1>1. proc[p].pc = "handing" /\ Go(p, Idle) /\ Idle \in Point
  BY OtherPoints DEF HandOver, HandOverFails
<1>2. UNCHANGED <<row, fresh, stored, up, rec, looping>>
  BY DEF HandOver, HandOverFails, database
<1>3. TypeOK /\ proc[p].s \in Sessions /\ proc[p] # Idle /\ p # Resume
  BY <1>1, OnSession DEF IInv, PointsWithSession, Knows, ResumePoints, Joining
<1>4. PICK s \in Sessions : s = proc[p].s
  BY <1>3
<1>5. proc' \in [Procs -> Point] /\ overlap' \in BOOLEAN /\ proc'[p] = Idle
  BY <1>1, <1>3, GoTypes
<1>6. Ended(s)
  BY <1>1, <1>4 DEF IInv, Knows
<1>7. /\ job' \in [Tickets -> Job \cup {NoJob}] /\ cut' \subseteq Sessions /\ cut \subseteq cut'
      /\ faults' \in 0..MaxFaults
      /\ s \in cut' \/ \E k \in Tickets : Owes(k, s)'
      /\ \A k \in Tickets : \/ job'[k] = job[k]
                            \/ /\ job[k] = NoJob /\ job'[k].pc = "queued"
                               /\ row'[job'[k].s].status \in Finished
  <2>1. CASE HandOver(p)
    <3>1. PICK new : new = [pc |-> "queued", s |-> s, attempt |-> 0, audio |-> FALSE]
      OBVIOUS
    <3>2. new \in Job /\ new.s = s /\ new.pc = "queued"
      BY <3>1, SessionBounds DEF Job, JobPoints
    <3>3. PICK k \in Tickets : job[k] = NoJob /\ job' = [job EXCEPT ![k] = new]
      BY <1>4, <2>1, <3>1 DEF HandOver
    <3>4. job'[k] = new /\ \A l \in Tickets \ {k} : job'[l] = job[l]
      BY <1>3, <3>3 DEF TypeOK
    <3>5. Owes(k, s)'
      BY <3>2, <3>4 DEF Owes, Owing
    <3>6. row'[job'[k].s].status \in Finished
      BY <1>2, <1>6, <3>2, <3>4 DEF Ended
    <3>7. job' \in [Tickets -> Job \cup {NoJob}]
      BY <1>3, <3>2, <3>3 DEF TypeOK
    <3>8. UNCHANGED <<cut, faults>>
      BY <2>1 DEF HandOver
    <3>9. \A l \in Tickets : \/ job'[l] = job[l]
                            \/ /\ job[l] = NoJob /\ job'[l].pc = "queued"
                               /\ row'[job'[l].s].status \in Finished
      BY <3>2, <3>3, <3>4, <3>6
    <3> QED BY <1>3, <3>5, <3>7, <3>8, <3>9 DEF TypeOK
  <2>2. CASE HandOverFails(p)
    <3>1. cut' = cut \cup {s} /\ job' = job /\ Disturb
      BY <1>4, <2>2 DEF HandOverFails
    <3> QED BY <1>3, <3>1, DisturbTypes DEF TypeOK
  <2> QED BY <2>1, <2>2
<1>8. TypeOK'
  BY <1>2, <1>3, <1>5, <1>7 DEF TypeOK
<1>9. Knows(p)'
  BY <1>5 DEF Knows, Silent, Joining, ResumePoints, Idle
<1>10. RowsGoOn
  BY <1>2 DEF RowsGoOn
<1>11. \E point \in Point : Go(p, point)
  BY <1>1
<1>12. proc[p].pc = "handing" =>
         \E t \in Sessions : /\ t = proc[p].s
                             /\ t \in cut' \/ \E k \in Tickets : Owes(k, t)'
  BY <1>4, <1>7
<1>13. \A t \in Sessions : row'[t].status = "processing" =>
           row[t].status = "processing" \/ Hands(p, t)'
  BY <1>2
<1> QED BY <1>2, <1>7, <1>8, <1>9, <1>10, <1>11, <1>12, <1>13, MoveStep

LEMMA WriteFailsStep ==
    ASSUME IInv, NEW p \in Procs, WriteFails(p)
    PROVE  IInv'
<1>1. Go(p, Idle) /\ Idle \in Point /\ Idle.pc \in Plain /\ Idle.pc \in ResumePoints
  BY OtherPoints DEF WriteFails, Plain, ResumePoints, Idle
<1>2. proc[p].pc # "handing" /\ UNCHANGED <<database, job, up, rec, looping, cut>>
  BY DEF WriteFails
<1>3. faults' \in 0..MaxFaults
  BY DisturbTypes DEF WriteFails, IInv
<1> QED BY <1>1, <1>2, <1>3, LooksPlain

LEMMA ProceedsStep ==
    ASSUME IInv, NEW p \in Procs, Proceeds(p)
    PROVE  IInv'
<1>1. CASE StopEnd(p)
  BY <1>1, EndsStep DEF StopEnd
<1> QED BY <1>1, StartCheckStep, StartCreateStep, StopCheckStep, ClearsStep, JoinCheckStep,
           JoinGivesUpStep, JoinOpenedStep, StopLeaveStep, StopFlushStep, RequeueMarkStep,
           HandOverStep DEF Proceeds
-----------------------------------------------------------------------------
LEMMA ReapsStep ==
    ASSUME IInv, Reaps
    PROVE  IInv'
<1>1. TypeOK /\ Reaper \in Procs /\ Reaper # Resume /\ faults \in 0..MaxFaults
  BY DistinctAssumption DEF Procs, IInv, TypeOK
<1>2. CASE ReapQuery
  <2>1. PICK s \in Sessions : Go(Reaper, At("reap.found", s))
    BY <1>2 DEF ReapQuery, Recording
  <2>2. At("reap.found", s) \in Point /\ At("reap.found", s).pc \in Plain
    BY SessionPoint DEF ReaperPoints, At, Plain
  <2>3. proc[Reaper].pc # "handing"
    BY <1>2 DEF ReapQuery, Idle
  <2>4. UNCHANGED <<database, job, up, rec, looping, cut>> /\ faults' \in 0..MaxFaults
    BY <1>1, <1>2 DEF ReapQuery
  <2> QED BY <1>1, <2>1, <2>2, <2>3, <2>4, LooksPlain
<1>3. CASE ReapCheck
  <2>1. /\ proc[Reaper].pc \in PointsWithSession \ {"handing"}
        /\ UNCHANGED <<database, job, up, rec, looping, cut>>
    BY <1>3 DEF ReapCheck, PointsWithSession, ReaperPoints
  <2>2. faults' \in 0..MaxFaults
    BY <1>1, <1>3, DisturbTypes DEF ReapCheck
  <2>3. CASE Go(Reaper, Idle)
    <3>1. Idle \in Point /\ Idle.pc \in Plain
      BY OtherPoints DEF Plain, Idle
    <3> QED BY <1>1, <2>1, <2>2, <2>3, <3>1, LooksPlain
  <2>4. CASE ~Has /\ Go(Reaper, At("reap.end", proc[Reaper].s))
    BY <1>1, <2>1, <2>2, <2>4, LooksEmpty
  <2>5. CASE ~Has /\ Go(Reaper, At("reap.clear", proc[Reaper].s))
    BY <1>1, <2>1, <2>2, <2>5, LooksEmpty
  <2> QED BY <1>3, <2>3, <2>4, <2>5 DEF ReapCheck
<1>4. CASE ReapClear
  BY <1>1, <1>4, FailStep DEF ReapClear
<1>5. CASE ReapEnd
  BY <1>1, <1>5, EndsStep DEF ReapEnd
<1>6. CASE HandOver(Reaper)
  BY <1>1, <1>6, HandOverStep
<1> QED BY <1>2, <1>3, <1>4, <1>5, <1>6 DEF Reaps

LEMMA ResumesStep ==
    ASSUME IInv, Resumes
    PROVE  IInv'
<1>1. TypeOK /\ Resume \in Procs /\ faults \in 0..MaxFaults
  BY DEF Procs, IInv, TypeOK
<1>2. CASE ResumeList
  <2>1. /\ proc[Resume].pc = "resume.list"
        /\ UNCHANGED <<database, job, up, rec, looping, cut>>
    BY <1>2 DEF ResumeList
  <2>2. faults' \in 0..MaxFaults
    BY <1>1, <1>2, DisturbTypes DEF ResumeList
  <2>3. CASE Go(Resume, Idle)
    <3>1. Idle \in Point /\ Idle.pc \in Plain /\ Idle.pc \in ResumePoints
      BY OtherPoints DEF Plain, Idle, ResumePoints
    <3> QED BY <1>1, <2>1, <2>2, <2>3, <3>1, LooksPlain
  <2>4. ASSUME NEW s \in Recording, Go(Resume, At("start.joining", s)) PROVE IInv'
    <3>1. s \in Sessions /\ row[s].status = "recording"
      BY DEF Recording
    <3>2. At("start.joining", s) \in Point
      BY <3>1, SessionPoint DEF StartPoints
    <3>3. PICK point \in Point : point = At("start.joining", s)
      BY <3>2
    <3>4. proc'[Resume] = point /\ point.pc = "start.joining" /\ point.s = s
      BY <1>1, <2>4, <3>3, GoTypes DEF At
    <3>5. row' = row
      BY <2>1 DEF database
    <3>6. Knows(Resume)'
      BY <3>1, <3>4, <3>5 DEF Knows, ResumePoints, Joining, Silent
    <3>7. Go(Resume, point) /\ proc[Resume].pc # "handing"
      BY <2>1, <2>4, <3>3
    <3> QED BY <1>1, <2>1, <2>2, <3>6, <3>7, Looks
  <2> QED BY <1>2, <2>3, <2>4 DEF ResumeList
<1>3. CASE Proceeds(Resume)
  BY <1>1, <1>3, ProceedsStep
<1> QED BY <1>2, <1>3 DEF Resumes

LEMMA GatewayStartsStep ==
    ASSUME IInv, GatewayStarts
    PROVE  IInv'
<1>1. TypeOK /\ Resume \in Procs /\ proc[Resume].pc # "handing"
  BY DEF Procs, IInv, Knows, ResumePoints, Joining
<1>2. Go(Resume, [pc |-> "resume.list"]) /\ [pc |-> "resume.list"] \in Point
  BY OtherPoints DEF GatewayStarts
<1>3. PICK point \in Point : point = [pc |-> "resume.list"]
  BY <1>2
<1>4. Go(Resume, point) /\ point.pc \in Plain \cap ResumePoints
  BY <1>2, <1>3 DEF Plain, ResumePoints
<1>5. Knows(Resume)'
  BY <1>1, <1>4, PlainKnows
<1>6. UNCHANGED <<row, fresh, stored, job, rec, looping, cut, faults>> /\ up' = TRUE
  BY DEF GatewayStarts, database
<1>7. stored' \subseteq Sessions /\ up' \in BOOLEAN /\ looping' \subseteq Sessions
  BY <1>1, <1>6 DEF TypeOK
<1>8. faults' \in 0..MaxFaults
  BY <1>1, <1>6 DEF TypeOK
<1> QED BY <1>1, <1>4, <1>5, <1>6, <1>7, <1>8, LookStep

(* A death: whatever was being handed over is cut short. *)
LEMMA GatewayStopsStep ==
    ASSUME IInv, GatewayStops
    PROVE  IInv'
<1>1. TypeOK
  BY DEF IInv
<1>2. /\ up' = FALSE /\ rec' = None /\ looping' = {} /\ proc' = [p \in Procs |-> Idle]
      /\ cut' = cut \cup {proc[p].s : p \in {q \in Procs : proc[q].pc = "handing"}}
      /\ UNCHANGED <<row, fresh, job, overlap>>
  BY DEF GatewayStops
<1>3. stored' \subseteq Sessions
  BY <1>1 DEF GatewayStops, TypeOK
<1>4. faults' \in 0..MaxFaults
  BY <1>1, DisturbTypes DEF GatewayStops
<1>5. \A p \in Procs : proc[p].pc = "handing" => proc[p].s \in Sessions
  BY <1>1, PointFields DEF PointsWithSession
<1>6. cut' \subseteq Sessions
  BY <1>1, <1>2, <1>5 DEF TypeOK
<1>7. proc' \in [Procs -> Point]
  BY <1>2, OtherPoints
<1>8. TypeOK'
  BY <1>1, <1>2, <1>3, <1>4, <1>6, <1>7 DEF TypeOK
<1>9. Owed'
  BY <1>2 DEF IInv, Owed, Owes, Hands
<1>10. JobsLate' /\ RetriesLeft'
  BY <1>2 DEF IInv, JobsLate, RetriesLeft, Ended
<1>11. \A p \in Procs : Knows(p)'
  BY <1>2 DEF Knows, Idle, Silent, Joining, ResumePoints
<1>12. Watched'
  <2>1. ~Overlapping(proc)'
    BY <1>2 DEF Overlapping, Idle
  <2> QED BY <2>1 DEF Watched
<1>13. LiveRowIsRecording'
  BY <1>2 DEF LiveRowIsRecording, Has
<1> QED BY <1>8, <1>9, <1>10, <1>11, <1>12, <1>13 DEF IInv
-----------------------------------------------------------------------------
(* Chunks and heartbeats are nothing the invariant depends on. *)
LEMMA CheckpointStep ==
    ASSUME IInv, NEW s \in Sessions, Checkpoint(s) \/ HeartbeatAges(s)
    PROVE  IInv'
<1>1. UNCHANGED <<row, job, up, rec, looping, proc, overlap, cut>>
  BY DEF Checkpoint, HeartbeatAges, gateway
<1>2. fresh' \subseteq Sessions /\ stored' \subseteq Sessions /\ faults' \in 0..MaxFaults
  BY DisturbTypes DEF IInv, TypeOK, Checkpoint, HeartbeatAges
<1>3. TypeOK'
  BY <1>1, <1>2 DEF IInv, TypeOK
<1>4. Owed' /\ JobsLate' /\ RetriesLeft' /\ Watched' /\ LiveRowIsRecording'
  BY <1>1 DEF IInv, Owed, Owes, Hands, JobsLate, RetriesLeft, Ended, Watched, Overlapping,
              LiveRowIsRecording, Has
<1>5. \A p \in Procs : Knows(p)'
  BY <1>1 DEF IInv, Knows, Ended
<1> QED BY <1>3, <1>4, <1>5 DEF IInv

(* A step of job k, which goes on as new: it still owes its session the     *)
(* results, or the row says how it ended, or its end was cut short.         *)
LEMMA JobStep ==
    ASSUME IInv, NEW k \in Tickets, job[k] # NoJob,
           NEW new \in Job \cup {NoJob}, job' = [job EXCEPT ![k] = new],
           new # NoJob => new.s = job[k].s,
           new.pc = "retry" => new.attempt < MaxRetries,
           UNCHANGED <<fresh, stored, gateway>>, cut \subseteq cut',
           cut' \subseteq Sessions, faults' \in 0..MaxFaults,
           NEW s \in Sessions, s = job[k].s,
           row' \in [Sessions -> Row], \A t \in Sessions \ {s} : row'[t] = row[t],
           row'[s] = row[s] \/ row'[s].status \in Finished,
           \/ row'[s].status # "processing" \/ s \in cut'
           \/ new.pc \in Owing
           \/ row'[s] = row[s] /\ job[k].pc \notin Owing
    PROVE  IInv'
<1>1. UNCHANGED <<up, rec, looping, proc, overlap>>
  BY DEF gateway
<1>2. TypeOK /\ Ended(s)
  BY DEF IInv, JobsLate
<1>3. job' \in [Tickets -> Job \cup {NoJob}]
  BY <1>2 DEF TypeOK
<1>4. TypeOK'
  BY <1>1, <1>2, <1>3 DEF TypeOK
<1>5. job'[k] = new /\ \A l \in Tickets \ {k} : job'[l] = job[l]
  BY <1>2 DEF TypeOK
<1>6. \A t \in Sessions : Ended(t) => Ended(t)'
  BY <1>2 DEF Ended
<1>7. \A t \in Sessions : row[t].status = "recording" => row'[t] = row[t]
  BY <1>2 DEF Ended, Finished
<1>8. JobsLate'
  <2> SUFFICES ASSUME NEW l \in Tickets, job'[l] # NoJob
               PROVE  row'[job'[l].s].status \in Finished
    BY DEF JobsLate, Ended
  <2>1. CASE l = k
    BY <1>2, <1>5, <1>6, <2>1 DEF Ended
  <2>2. CASE l # k
    <3>1. job'[l] = job[l] /\ job[l] # NoJob
      BY <1>5, <2>2
    <3>2. job[l].s \in Sessions /\ Ended(job[l].s)
      BY <1>2, <3>1 DEF IInv, JobsLate, TypeOK, Job
    <3> QED BY <1>6, <3>1, <3>2 DEF Ended
  <2> QED BY <2>1, <2>2
<1>9. RetriesLeft'
  BY <1>5 DEF IInv, RetriesLeft
<1>10. Owed'
  <2> SUFFICES ASSUME NEW t \in Sessions, row'[t].status = "processing"
               PROVE  \/ \E l \in Tickets : Owes(l, t)'
                      \/ \E p \in Procs : Hands(p, t)'
                      \/ t \in cut'
    BY DEF Owed
  <2>1. ASSUME NEW p \in Procs, Hands(p, t) PROVE Hands(p, t)'
    BY <1>1, <2>1 DEF Hands
  <2>2. ASSUME NEW l \in Tickets \ {k}, Owes(l, t) PROVE Owes(l, t)'
    BY <1>5, <2>2 DEF Owes
  <2>3. CASE t # s
    <3>1. row[t].status = "processing" /\ ~Owes(k, t)
      BY <2>3 DEF Owes
    <3>2. (\E l \in Tickets \ {k} : Owes(l, t)) \/ (\E p \in Procs : Hands(p, t)) \/ t \in cut
      BY <3>1 DEF IInv, Owed
    <3> QED BY <2>1, <2>2, <3>2
  <2>4. CASE t = s /\ new.pc \in Owing
    <3>1. new # NoJob
      BY <2>4 DEF NoJob, Owing
    <3>2. Owes(k, t)'
      BY <1>5, <2>4, <3>1 DEF Owes
    <3> QED BY <3>2
  <2>5. CASE t = s /\ row'[s] = row[s] /\ job[k].pc \notin Owing
    <3>1. row[t].status = "processing" /\ ~Owes(k, t)
      BY <2>5 DEF Owes
    <3>2. (\E l \in Tickets \ {k} : Owes(l, t)) \/ (\E p \in Procs : Hands(p, t)) \/ t \in cut
      BY <3>1 DEF IInv, Owed
    <3> QED BY <2>1, <2>2, <3>2
  <2> QED BY <2>3, <2>4, <2>5
<1>11. Watched'
  BY <1>1 DEF IInv, Watched, Overlapping
<1>12. LiveRowIsRecording'
  <2>1. rec \in Sessions \cup {None}
    BY <1>2 DEF TypeOK
  <2> QED BY <1>1, <1>7, <2>1 DEF IInv, LiveRowIsRecording, Has
<1>13. ASSUME NEW p \in Procs PROVE Knows(p)'
  <2>1. Knows(p) /\ (proc[p].pc \in PointsWithSession => proc[p].s \in Sessions)
    BY <1>2, PointFields DEF IInv
  <2>2. proc[p].pc \in {"handing", "requeue.mark"} => row'[proc[p].s].status \in Finished
    BY <1>6, <2>1 DEF Knows, PointsWithSession, Ended
  <2>3. ~overlap /\ proc[p].pc \in Joining => row'[proc[p].s].status = "recording"
    BY <1>7, <2>1 DEF Knows, PointsWithSession, Joining, StartPoints
  <2> QED BY <1>1, <2>1, <2>2, <2>3 DEF Knows, Ended
<1> QED BY <1>4, <1>8, <1>9, <1>10, <1>11, <1>12, <1>13 DEF IInv

LEMMA JobFields ==
    ASSUME IInv, NEW k \in Tickets, job[k].pc \in JobPoints
    PROVE  /\ job[k] \in Job /\ job[k] # NoJob /\ job[k].s \in Sessions
           /\ job[k].attempt \in 0..MaxRetries /\ TypeOK
<1>1. TypeOK /\ job[k] # NoJob
  BY DEF IInv, JobPoints, NoJob
<1>2. job[k] \in Job
  BY <1>1 DEF TypeOK
<1> QED BY <1>1, <1>2 DEF Job

(* A job that moves to pc as it is. *)
LEMMA JobAtStep ==
    ASSUME IInv, NEW k \in Tickets, job[k].pc \in JobPoints,
           NEW pc \in JobPoints, JobAt(k, pc), pc = "retry" => ~LastAttempt(k),
           UNCHANGED <<fresh, stored, gateway>>, cut \subseteq cut',
           cut' \subseteq Sessions, faults' \in 0..MaxFaults,
           row' \in [Sessions -> Row],
           \A t \in Sessions \ {job[k].s} : row'[t] = row[t],
           row'[job[k].s] = row[job[k].s] \/ row'[job[k].s].status \in Finished,
           \/ row'[job[k].s].status # "processing" \/ job[k].s \in cut'
           \/ pc \in Owing
    PROVE  IInv'
<1>1. job[k] \in Job /\ job[k] # NoJob /\ job[k].s \in Sessions /\ job[k].attempt \in 0..MaxRetries
  BY JobFields
<1>2. PICK new : new = [job[k] EXCEPT !.pc = pc]
  OBVIOUS
<1>3. new \in Job /\ new.pc = pc /\ new.s = job[k].s /\ new.attempt = job[k].attempt
  BY <1>1, <1>2 DEF Job, JobPoints
<1>4. job' = [job EXCEPT ![k] = new]
  BY <1>2 DEF JobAt
<1>5. new.pc = "retry" => new.attempt < MaxRetries
  BY <1>1, <1>3, SessionBounds DEF LastAttempt
<1>6. PICK s \in Sessions : s = job[k].s
  BY <1>1
<1>7. /\ \A t \in Sessions \ {s} : row'[t] = row[t]
      /\ row'[s] = row[s] \/ row'[s].status \in Finished
      /\ \/ row'[s].status # "processing" \/ s \in cut'
         \/ new.pc \in Owing
  BY <1>3, <1>6
<1> QED BY <1>1, <1>3, <1>4, <1>5, <1>6, <1>7, JobStep

(* A job's end without results: the row says failed, or its end was cut.    *)
LEMMA FailsStep ==
    ASSUME IInv, NEW k \in Tickets, TranscribeFails(k) \/ NothingToTranscribe(k)
    PROVE  IInv'
<1>1. job[k].pc = "running" /\ UNCHANGED <<fresh, stored, gateway>>
  BY DEF TranscribeFails, NothingToTranscribe
<1>2. job[k].pc \in JobPoints
  BY <1>1 DEF JobPoints
<1>3. TypeOK /\ job[k].s \in Sessions
  BY <1>2, JobFields
<1>4. CASE TranscribeFails(k) /\ ~LastAttempt(k)
  <2>1. JobAt(k, "retry") /\ UNCHANGED <<row, cut, faults>>
    BY <1>4 DEF TranscribeFails, JobFails
  <2>2. row' \in [Sessions -> Row] /\ cut' \subseteq Sessions /\ faults' \in 0..MaxFaults
    BY <1>3, <2>1 DEF TypeOK
  <2> QED BY <1>1, <1>2, <1>3, <1>4, <2>1, <2>2, JobAtStep DEF JobPoints, Owing
<1>5. CASE JobAt(k, "drop") /\ MarkFailed(job[k].s)
  <2>1. CASE SetResult(job[k].s, FALSE, FALSE, "failed") /\ UNCHANGED <<cut, faults>>
    <3>1. /\ row' \in [Sessions -> Row] /\ row'[job[k].s].status = "failed"
          /\ \A t \in Sessions \ {job[k].s} : row'[t] = row[t]
      BY <1>3, <2>1, ResultTypes DEF Statuses
    <3>2. cut' \subseteq Sessions /\ faults' \in 0..MaxFaults /\ cut \subseteq cut'
      BY <1>3, <2>1 DEF TypeOK
    <3> QED BY <1>1, <1>2, <1>5, <3>1, <3>2, JobAtStep DEF JobPoints, Finished
  <2>2. CASE cut' = cut \cup {job[k].s} /\ Disturb /\ UNCHANGED row
    <3>1. row' \in [Sessions -> Row] /\ cut' \subseteq Sessions /\ faults' \in 0..MaxFaults
      BY <1>3, <2>2, DisturbTypes DEF TypeOK
    <3>2. cut \subseteq cut' /\ job[k].s \in cut'
      BY <2>2
    <3> QED BY <1>1, <1>2, <1>3, <1>5, <2>2, <3>1, <3>2, JobAtStep DEF JobPoints
  <2> QED BY <1>5, <2>1, <2>2 DEF MarkFailed
<1> QED BY <1>4, <1>5 DEF TranscribeFails, NothingToTranscribe, JobFails

(* The results are written: with the notes, or without. *)
LEMMA SavesStep ==
    ASSUME IInv, NEW k \in Tickets, NotesFail(k) \/ SaveNotes(k)
    PROVE  IInv'
<1>1. job[k].pc = "running" /\ UNCHANGED <<fresh, stored, gateway, cut, faults>>
  BY DEF NotesFail, SaveNotes
<1>2. job[k].pc \in JobPoints
  BY <1>1 DEF JobPoints
<1>3. TypeOK /\ job[k].s \in Sessions
  BY <1>2, JobFields
<1>4. cut' \subseteq Sessions /\ faults' \in 0..MaxFaults /\ cut \subseteq cut'
  BY <1>1, <1>3 DEF TypeOK
<1>5. PICK pc \in {"saved", "drop", "retry"}, status \in {"failed", "processing", "complete"},
           notes \in BOOLEAN :
          /\ SetResult(job[k].s, TRUE, notes, status) /\ JobAt(k, pc)
          /\ pc = "retry" => ~LastAttempt(k)
          /\ status = "processing" => pc = "retry"
  BY DEF NotesFail, SaveNotes, JobFails
<1>6. /\ row' \in [Sessions -> Row] /\ row'[job[k].s].status = status
      /\ \A t \in Sessions \ {job[k].s} : row'[t] = row[t]
  BY <1>3, <1>5, ResultTypes DEF Statuses
<1>7. row'[job[k].s].status \in Finished
  BY <1>6 DEF Finished
<1>8. row'[job[k].s].status # "processing" \/ pc \in Owing
  BY <1>5, <1>6 DEF Owing
<1> QED BY <1>1, <1>2, <1>4, <1>5, <1>6, <1>7, <1>8, JobAtStep DEF JobPoints

LEMMA DatabaseFailsStep ==
    ASSUME IInv, NEW k \in Tickets, DatabaseFails(k)
    PROVE  IInv'
<1>1. job[k].pc \in JobPoints /\ UNCHANGED <<row, fresh, stored, gateway>>
  BY DEF DatabaseFails, JobPoints, database
<1>2. TypeOK /\ job[k].s \in Sessions
  BY <1>1, JobFields
<1>3. PICK pc \in {"drop", "retry"} :
          /\ JobAt(k, pc)
          /\ pc = "retry" => ~LastAttempt(k)
          /\ pc = "drop" => job[k].s \in cut'
  BY DEF DatabaseFails, JobFails
<1>4. cut' \subseteq Sessions /\ cut \subseteq cut'
  BY <1>2 DEF DatabaseFails, TypeOK
<1>5. faults' \in 0..MaxFaults
  BY <1>2, DisturbTypes DEF DatabaseFails
<1>6. row' \in [Sessions -> Row]
  BY <1>1, <1>2 DEF TypeOK
<1>7. row' = row /\ UNCHANGED <<fresh, stored, gateway>>
  BY <1>1
<1>8. pc \in JobPoints
  BY DEF JobPoints
<1>9. \/ row'[job[k].s].status # "processing" \/ job[k].s \in cut'
      \/ pc \in Owing
  BY <1>3 DEF Owing
<1> QED BY <1>1, <1>3, <1>4, <1>5, <1>6, <1>7, <1>8, <1>9, JobAtStep

(* A job begins, goes back to the queue, or leaves it. *)
LEMMA QueueStep ==
    ASSUME IInv, NEW k \in Tickets,
           TranscribeBegin(k) \/ Announce(k) \/ Drop(k) \/ Retry(k) \/ RetryLost(k)
           \/ WorkerLost(k) \/ Stranded(k) \/ Recovered(k)
    PROVE  IInv'
<1>1. job[k].pc \in JobPoints
  BY DEF TranscribeBegin, Announce, Drop, Retry, RetryLost, WorkerLost, Stranded, Recovered,
         JobPoints
<1>2. /\ job[k] \in Job /\ job[k] # NoJob /\ job[k].s \in Sessions
      /\ job[k].attempt \in 0..MaxRetries /\ TypeOK
  BY <1>1, JobFields
<1>3. UNCHANGED <<row, fresh, stored, gateway>>
  BY DEF TranscribeBegin, Announce, Drop, Retry, RetryLost, WorkerLost, Stranded, Recovered,
         database
<1>4. faults' \in 0..MaxFaults
  BY <1>2, DisturbTypes
     DEF TranscribeBegin, Announce, Drop, Retry, RetryLost, WorkerLost, Stranded, Recovered,
         TypeOK
<1>5. cut \subseteq cut' /\ cut' \subseteq Sessions
  BY <1>2 DEF TranscribeBegin, Announce, Drop, Retry, RetryLost, WorkerLost, Stranded,
              Recovered, TypeOK
<1>6. PICK new \in Job \cup {NoJob} :
          /\ job' = [job EXCEPT ![k] = new]
          /\ new # NoJob => new.s = job[k].s
          /\ new.pc # "retry"
          /\ \/ new.pc \in Owing \/ job[k].s \in cut'
             \/ job[k].pc \notin Owing
  <2>1. CASE TranscribeBegin(k)
    <3>0. PICK listed \in BOOLEAN : listed = (job[k].s \in stored)
      <4>1. CASE job[k].s \in stored
        <5>1. TRUE = (job[k].s \in stored)
          BY <4>1
        <5> QED BY <5>1
      <4>2. CASE job[k].s \notin stored
        <5>1. FALSE = (job[k].s \in stored)
          BY <4>2
        <5> QED BY <5>1
      <4> QED BY <4>1, <4>2
    <3>1. PICK new : new = [job[k] EXCEPT !.pc = "running", !.audio = listed]
      OBVIOUS
    <3>2. new \in Job /\ new.pc = "running" /\ new.s = job[k].s
      BY <1>2, <3>1 DEF Job, JobPoints
    <3>3. job' = [job EXCEPT ![k] = new]
      BY <2>1, <3>0, <3>1 DEF TranscribeBegin
    <3> QED BY <3>2, <3>3 DEF Owing
  <2>2. CASE Announce(k) \/ Drop(k) \/ RetryLost(k)
    <3>1. PICK new : new = NoJob
      OBVIOUS
    <3>2. new \in Job \cup {NoJob} /\ new.pc # "retry"
      BY <3>1 DEF NoJob
    <3>3. job' = [job EXCEPT ![k] = new]
      BY <2>2, <3>1 DEF Announce, Drop, RetryLost
    <3>4. job[k].s \in cut' \/ job[k].pc \notin Owing
      BY <2>2 DEF Announce, Drop, RetryLost, Owing
    <3> QED BY <3>1, <3>2, <3>3, <3>4
  <2>3. CASE Retry(k)
    <3>1. PICK new : new = [job[k] EXCEPT !.pc = "queued", !.attempt = @ + 1, !.audio = FALSE]
      OBVIOUS
    <3>2. job[k].attempt + 1 \in 0..MaxRetries
      BY <1>2, <2>3, SessionBounds DEF IInv, RetriesLeft, Retry
    <3>3. new \in Job /\ new.pc = "queued" /\ new.s = job[k].s
      BY <1>2, <3>1, <3>2 DEF Job, JobPoints
    <3>4. job' = [job EXCEPT ![k] = new]
      BY <2>3, <3>1 DEF Retry
    <3> QED BY <3>3, <3>4 DEF Owing
  <2>4. CASE WorkerLost(k)
    <3>1. PICK new : new = [job[k] EXCEPT !.pc = "queued", !.audio = FALSE]
      OBVIOUS
    <3>2. new \in Job /\ new.pc = "queued" /\ new.s = job[k].s
      BY <1>2, <3>1 DEF Job, JobPoints
    <3>3. job' = [job EXCEPT ![k] = new]
      BY <2>4, <3>1 DEF WorkerLost
    <3> QED BY <3>2, <3>3 DEF Owing
  <2>5. CASE Stranded(k)
    <3>1. PICK new : new = [job[k] EXCEPT !.pc = "stranded", !.audio = FALSE]
      OBVIOUS
    <3>2. new \in Job /\ new.pc = "stranded" /\ new.s = job[k].s
      BY <1>2, <3>1 DEF Job, JobPoints
    <3>3. job' = [job EXCEPT ![k] = new]
      BY <2>5, <3>1 DEF Stranded
    <3> QED BY <3>2, <3>3 DEF Owing
  <2>6. CASE Recovered(k)
    <3>1. PICK new : new = [job[k] EXCEPT !.pc = "queued"]
      OBVIOUS
    <3>2. new \in Job /\ new.pc = "queued" /\ new.s = job[k].s
      BY <1>2, <3>1 DEF Job, JobPoints
    <3>3. job' = [job EXCEPT ![k] = new]
      BY <2>6, <3>1 DEF Recovered
    <3> QED BY <3>2, <3>3 DEF Owing
  <2> QED BY <2>1, <2>2, <2>3, <2>4, <2>5, <2>6
<1>7. PICK s \in Sessions : s = job[k].s
  BY <1>2
<1>8. /\ row' \in [Sessions -> Row] /\ \A t \in Sessions \ {s} : row'[t] = row[t]
      /\ row'[s] = row[s]
  BY <1>2, <1>3 DEF TypeOK
<1>9. \/ row'[s].status # "processing" \/ s \in cut'
      \/ new.pc \in Owing
      \/ row'[s] = row[s] /\ job[k].pc \notin Owing
  BY <1>6, <1>7, <1>8 DEF Owing
<1>10. /\ new # NoJob => new.s = job[k].s
       /\ new.pc = "retry" => new.attempt < MaxRetries
       /\ UNCHANGED <<fresh, stored, gateway>>
       /\ job' = [job EXCEPT ![k] = new]
  BY <1>3, <1>6
<1>11. job[k] # NoJob /\ s = job[k].s
  BY <1>2, <1>7
<1>12. row'[s] = row[s] \/ row'[s].status \in Finished
  BY <1>8
<1>13. row' \in [Sessions -> Row] /\ \A t \in Sessions \ {s} : row'[t] = row[t]
  BY <1>8
<1>14. new \in Job \cup {NoJob} /\ s \in Sessions
  OBVIOUS
<1>15. CASE row'[s].status # "processing"
  BY <1>4, <1>5, <1>10, <1>11, <1>12, <1>13, <1>14, <1>15, JobStep
<1>16. CASE s \in cut'
  BY <1>4, <1>5, <1>10, <1>11, <1>12, <1>13, <1>14, <1>16, JobStep
<1>17. CASE new.pc \in Owing
  BY <1>4, <1>5, <1>10, <1>11, <1>12, <1>13, <1>14, <1>17, JobStep
<1>18. CASE row'[s] = row[s] /\ job[k].pc \notin Owing
  BY <1>4, <1>5, <1>10, <1>11, <1>12, <1>13, <1>14, <1>18, JobStep
<1> QED BY <1>9, <1>15, <1>16, <1>17, <1>18
-----------------------------------------------------------------------------
LEMMA InitInv == Init => IInv
<1> SUFFICES ASSUME Init PROVE IInv
  OBVIOUS
<1>1. [status |-> "absent", text |-> FALSE, notes |-> FALSE] \in Row
  BY DEF Row, Statuses
<1>2. row \in [Sessions -> Row]
  BY <1>1 DEF Init
<1>3. TypeOK
  <2>1. job \in [Tickets -> Job \cup {NoJob}]
    BY DEF Init
  <2>2. proc \in [Procs -> Point]
    BY OtherPoints DEF Init
  <2>3. faults \in 0..MaxFaults
    BY SessionBounds DEF Init
  <2> QED BY <1>2, <2>1, <2>2, <2>3 DEF Init, TypeOK
<1>4. Owed /\ JobsLate /\ RetriesLeft
  BY DEF Init, Owed, JobsLate, RetriesLeft, NoJob
<1>5. Watched
  BY DEF Init, Watched, Overlapping, Idle
<1>6. \A p \in Procs : Knows(p)
  BY DEF Init, Knows, Idle, ResumePoints, Silent, Joining
<1>7. LiveRowIsRecording
  BY DEF Init, LiveRowIsRecording, Has
<1> QED BY <1>3, <1>4, <1>5, <1>6, <1>7 DEF IInv

LEMMA StepInv == IInv /\ [Next]_vars => IInv'
<1> SUFFICES ASSUME IInv, [Next]_vars PROVE IInv'
  OBVIOUS
<1>1. CASE UNCHANGED vars
  <2>1. UNCHANGED <<row, fresh, stored, job, up, rec, looping, proc, overlap, cut, faults>>
    BY <1>1 DEF vars, database, gateway
  <2>2. TypeOK'
    BY <2>1 DEF IInv, TypeOK
  <2>3. Owed' /\ JobsLate' /\ RetriesLeft' /\ Watched' /\ LiveRowIsRecording'
    BY <2>1 DEF IInv, Owed, Owes, Hands, JobsLate, RetriesLeft, Ended, Watched, Overlapping,
                LiveRowIsRecording, Has
  <2>4. \A p \in Procs : Knows(p)'
    BY <2>1 DEF IInv, Knows, Ended
  <2> QED BY <2>2, <2>3, <2>4 DEF IInv
<1>2. ASSUME NEW h \in Handlers, Command(h) \/ Proceeds(h) PROVE IInv'
  BY <1>2, ProcsAre, CommandStep, ProceedsStep
<1>3. ASSUME NEW p \in Procs, WriteFails(p) \/ HandOverFails(p) PROVE IInv'
  BY <1>3, WriteFailsStep, HandOverStep
<1>4. CASE Resumes \/ Reaps \/ GatewayStops \/ GatewayStarts
  BY <1>4, ResumesStep, ReapsStep, GatewayStopsStep, GatewayStartsStep
<1>5. ASSUME NEW s \in Sessions, Checkpoint(s) \/ HeartbeatAges(s) PROVE IInv'
  BY <1>5, CheckpointStep
<1>6. ASSUME NEW k \in Tickets,
             Works(k) \/ DatabaseFails(k) \/ RetryLost(k)
             \/ WorkerLost(k) \/ Stranded(k) \/ Recovered(k)
      PROVE  IInv'
  BY <1>6, FailsStep, SavesStep, DatabaseFailsStep, QueueStep DEF Works
<1> QED BY <1>1, <1>2, <1>3, <1>4, <1>5, <1>6 DEF Next

LEMMA Invariant == Spec => []IInv
BY InitInv, StepInv, PTL DEF Spec

(* Rows, jobs, goroutines and the recording in memory are always what the   *)
(* code can make them: no job runs past WORKER_MAX_RETRIES.                 *)
THEOREM TypesHold == Spec => []TypeOK
<1>1. IInv => TypeOK
  BY DEF IInv
<1> QED BY <1>1, Invariant, PTL

(* A session that says "processing" has a job, or a process about to        *)
(* enqueue one, or its hand-over was cut short: /session stop, requeue, the *)
(* reaper and the worker never leave one that nobody settles.               *)
THEOREM ProcessingIsOwed == Spec => []ProcessingHasJob
<1>1. IInv => ProcessingHasJob
  BY DEF IInv, Owed, Owes, Owing, Hands, ProcessingHasJob, NoJob
<1> QED BY <1>1, Invariant, PTL

(* The recording in memory is the row that says "recording", unless some    *)
(* process ran during another one's voice handshake.                        *)
THEOREM LiveIsTheRow == Spec => []LiveRowIsRecording
<1>1. IInv => LiveRowIsRecording
  BY DEF IInv
<1> QED BY <1>1, Invariant, PTL
=============================================================================
