------------------------------ MODULE Recorder ------------------------------
(***************************************************************************)
(* The audio of one session (internal/gateway/voice.go): packets mixed into *)
(* a track per speaker, the checkpoint loop and the final flush uploading  *)
(* each track's leading frames as numbered chunks, /session stop, SIGTERM, *)
(* crashes, and the next gateway resuming the numbering.                   *)
(*                                                                         *)
(* A frame is 20 ms of one speaker, named by the recording (a session that *)
(* was resumed has several) and its place on that recording's timeline.    *)
(* What a frame sounds like is left out: a chunk is the set of frames with *)
(* sound in it.  Time is counted in frames, RTP timestamps too.            *)
(***************************************************************************)
EXTENDS Integers, FiniteSets, FiniteSetsExt, Functions

CONSTANTS
    Users,
    Holdback,      \* holdbackFrames: frames a checkpoint leaves in memory
    Lateness,      \* by how many frames a packet may come late
    MaxGap,        \* maxGapFrames: how far ahead of its track a packet may be
    Wrap,          \* the frames after which an RTP timestamp starts over
    MaxNow,        \* bound: frames of a recording
    MaxHeard,      \* bound: packets mixed into the session's tracks
    MaxEpochs,     \* bound: recordings of the session
    MaxFaults      \* bound: failed uploads and crashes

ASSUME HoldbackAssumption == Holdback \in Nat /\ Lateness \in Nat /\ Lateness < Holdback
ASSUME RecorderBounds ==
    /\ MaxGap \in Nat /\ MaxNow \in Nat /\ MaxHeard \in Nat
    /\ MaxEpochs \in Nat \ {0} /\ MaxFaults \in Nat
ASSUME WrapAssumption ==
    Wrap \in Nat /\ MaxNow + Lateness < Wrap /\ MaxGap + Lateness + 1 < Wrap

VARIABLES
    phase,     \* of the recording: see Phases
    epoch,     \* how many recordings the session has had
    now,       \* frames since this recording started
    startSeq,  \* recording.startSeq
    track,     \* track[u]: userTrack of u, or NoTrack
    anchor,    \* anchor[u]: when u's first packet was sent, and its slot
    chunk,     \* chunk[u][n]: the object chunk-n of u, if there is one
    flush      \* flush[f]: what a flusher has snapshotted and is uploading

VARIABLES      \* history
    heard,     \* frames mixed into a track
    forgone,   \* frames a crash, a failed last upload or an exit gave up
    exposed    \* frames two uploads of one key, or chunk numbers given out
               \* again, may take away

VARIABLE faults

history == <<heard, forgone, exposed>>
vars == <<phase, epoch, now, startSeq, track, anchor, chunk, flush, history, faults>>
-----------------------------------------------------------------------------
(* off: no gateway holds the session.  stopping: stopCh is closed, the      *)
(* connection still open.  final: the last flush of a stop; exiting: that   *)
(* of stopAll, with the connection still open.  ended: stop returned.       *)
Phases == {"off", "capturing", "stopping", "final", "exiting", "ended"}

(* The checkpoint loop, until it saw stopCh, and the last flush. *)
Flushers == {"loop", "last"}

(* When a packet is sent, from Lateness before the recording starts, and    *)
(* where it is placed: a first packet that came late shifts the rest.       *)
Times == 0..MaxNow
SendTimes == (0 - Lateness)..MaxNow
Slots == 0..(MaxNow + Lateness)
Frame == (1..MaxEpochs) \X Users \X Slots
Seqs == Nat \ {0}

NoTrack == [base |-> 0, len |-> 0, seq |-> 0]
Lengths == 0..(MaxNow + Lateness + 1)
Track == [base : Lengths, len : Lengths, seq : Nat]
Origin == [sent |-> 0, slot |-> 0]
Anchor == [sent : SendTimes, slot : Times]

Upload == [user : Users, seq : Seqs, count : Lengths \ {0}, frames : SUBSET Frame]
Resting == [todo |-> {}, put |-> {}, landed |-> FALSE]
Gone == [todo |-> {}, put |-> {}, landed |-> TRUE]    \* the loop has returned

Disturb == faults < MaxFaults /\ faults' = faults + 1
Recording == <<epoch, now, startSeq, anchor>>

(* The frames with sound that the track of u holds, count of them leading. *)
Leading(u, count) ==
    {f \in heard : /\ f[1] = epoch /\ f[2] = u
                   /\ track[u].base <= f[3] /\ f[3] < track[u].base + count}
InMemory == UNION {Leading(u, track[u].len) : u \in Users}

InStore == UNION {UNION Range(chunk[u]) : u \in Users}

(* checkpointUpTo, under the lock: the uploads of one flush. *)
Snapshot(holdback) ==
    {[user |-> u, seq |-> track[u].seq, count |-> track[u].len - holdback,
      frames |-> Leading(u, track[u].len - holdback)]
        : u \in {v \in Users : track[v].len > holdback}}

(* What the tracks hold whose chunk both jobs and flusher f are uploading:  *)
(* whichever lands last decides what the chunk holds, whichever returns     *)
(* first what its track drops.                                              *)
Contested(jobs, f) ==
    UNION {Leading(j.user, track[j.user].len) : j \in
              {i \in jobs : \E k \in flush[f].todo \cup flush[f].put :
                                k.user = i.user /\ k.seq = i.seq}}

(* Variant: a resumed recording numbers its chunks from 1. *)
FromOne == 0

(* maxChunkSeq over the keys of all speakers. *)
LastSeq == Max({0} \cup UNION {DOMAIN chunk[u] : u \in Users})

Init ==
    /\ phase = "capturing" /\ epoch = 1 /\ now = 0 /\ startSeq = 0
    /\ track = [u \in Users |-> NoTrack] /\ anchor = [u \in Users |-> Origin]
    /\ chunk = [u \in Users |-> << >>]
    /\ flush = [f \in Flushers |-> Resting]
    /\ heard = {} /\ forgone = {} /\ exposed = {} /\ faults = 0
-----------------------------------------------------------------------------
Tick ==
    /\ phase \in {"capturing", "stopping", "exiting"} /\ now < MaxNow
    /\ now' = now + 1
    /\ UNCHANGED <<phase, epoch, startSeq, track, anchor, chunk, flush, history, faults>>

(* The anchor of u's RTP clock, set by the first packet to where it arrives; *)
(* and the slot of a packet.  The subtraction is unsigned: one sent before   *)
(* the first but arriving after it is placed a whole wrap ahead.             *)
AnchorOf(u, sent) ==
    IF track[u] = NoTrack THEN [sent |-> sent, slot |-> now] ELSE anchor[u]
FrameIndexFor(u, sent) ==
    LET a == AnchorOf(u, sent)
    IN  a.slot + (IF sent >= a.sent THEN sent - a.sent ELSE sent - a.sent + Wrap)

(* mixFrame's tests: the slot is not flushed yet and not absurdly far ahead *)
(* of the end of the track.                                                 *)
Accepted(u, i) ==
    /\ i >= track[u].base
    /\ i - track[u].base <= track[u].len + MaxGap

(* When a packet that arrives now was sent: networks delay it by no more.   *)
MayCome(sent) == now - Lateness <= sent /\ sent <= now

(* ReceiveOpusFrame, once for each slot: the track is made at its first     *)
(* packet, kept or not, and extended with silence up to the slot.           *)
Receive(u, sent) ==
    /\ phase \in {"capturing", "stopping", "exiting"}
    /\ MayCome(sent) /\ Cardinality(heard) < MaxHeard
    /\ LET i == FrameIndexFor(u, sent)
           t == IF track[u] = NoTrack THEN [NoTrack EXCEPT !.seq = startSeq + 1]
                                      ELSE track[u]
       IN  /\ <<epoch, u, i>> \notin heard
           /\ IF Accepted(u, i)
              THEN /\ track' = [track EXCEPT ![u] =
                                   [t EXCEPT !.len = Max({t.len, i - t.base + 1})]]
                   /\ heard' = heard \cup {<<epoch, u, i>>}
                   /\ forgone' = IF phase = "exiting" THEN forgone \cup {<<epoch, u, i>>}
                                                      ELSE forgone
              ELSE track' = [track EXCEPT ![u] = t] /\ UNCHANGED <<heard, forgone>>
    /\ anchor' = [anchor EXCEPT ![u] = AnchorOf(u, sent)]
    /\ UNCHANGED <<phase, epoch, now, startSeq, chunk, flush, exposed, faults>>
-----------------------------------------------------------------------------
(* Variant: a checkpoint uploads the newest frames too. *)
CheckpointAll ==
    /\ phase # "off" /\ flush["loop"] = Resting
    /\ Snapshot(0) # {}
    /\ flush' = [flush EXCEPT !["loop"].todo = Snapshot(0)]
    /\ exposed' = exposed \cup Contested(Snapshot(0), "last")
    /\ UNCHANGED <<phase, Recording, track, chunk, heard, forgone, faults>>

(* A tick of checkpointLoop; one may still come when stopCh is closed. *)
Checkpoint ==
    /\ phase # "off" /\ flush["loop"] = Resting
    /\ Snapshot(Holdback) # {}
    /\ flush' = [flush EXCEPT !["loop"].todo = Snapshot(Holdback)]
    /\ exposed' = exposed \cup Contested(Snapshot(Holdback), "last")
    /\ UNCHANGED <<phase, Recording, track, chunk, heard, forgone, faults>>

(* The tracks of a flush are uploaded one after the other, in any order. *)
PutStarts(f) ==
    /\ flush[f].put = {}
    /\ \E j \in flush[f].todo :
          flush' = [flush EXCEPT ![f] = [todo |-> @.todo \ {j}, put |-> {j}, landed |-> FALSE]]
    /\ UNCHANGED <<phase, Recording, track, chunk, history, faults>>

(* Storage applies the upload: whatever the key held is replaced. *)
PutLands(f) ==
    /\ ~flush[f].landed
    /\ \E j \in flush[f].put :
          chunk' = [chunk EXCEPT ![j.user] =
                       [n \in DOMAIN @ \cup {j.seq} |-> IF n = j.seq THEN j.frames ELSE @[n]]]
    /\ flush' = [flush EXCEPT ![f].landed = TRUE]
    /\ UNCHANGED <<phase, Recording, track, history, faults>>

PutDone(f) == flush' = [flush EXCEPT ![f].put = {}, ![f].landed = FALSE]

(* The Put succeeded: if the track is still at that chunk, its flushed      *)
(* frames are dropped and the numbering goes on.                            *)
PutReturns(f) ==
    /\ flush[f].landed
    /\ \E j \in flush[f].put :
          LET t == track[j.user]
          IN  track' = IF t.seq = j.seq /\ t.len >= j.count
                       THEN [track EXCEPT ![j.user] =
                               [base |-> t.base + j.count, len |-> t.len - j.count,
                                seq |-> t.seq + 1]]
                       ELSE track
    /\ PutDone(f)
    /\ UNCHANGED <<phase, Recording, chunk, history, faults>>

(* Variant: a failed Put uses its chunk number up. *)
PutFailsCounted(f) ==
    /\ flush[f].put # {}
    /\ \E j \in flush[f].put :
          track' = [track EXCEPT ![j.user].seq = IF @ = j.seq THEN @ + 1 ELSE @]
    /\ PutDone(f) /\ Disturb
    /\ UNCHANGED <<phase, Recording, chunk, history>>

(* The Put failed, or its answer was lost: the frames stay for a retry. *)
PutFails(f) ==
    /\ flush[f].put # {}
    /\ PutDone(f) /\ Disturb
    /\ UNCHANGED <<phase, Recording, track, chunk, history>>
-----------------------------------------------------------------------------
(* stop closes stopCh... *)
Stop ==
    /\ phase = "capturing"
    /\ phase' = "stopping"
    /\ UNCHANGED <<Recording, track, chunk, flush, history, faults>>

LoopEnds ==
    /\ phase \in {"stopping", "final", "exiting", "ended"} /\ flush["loop"] = Resting
    /\ flush' = [flush EXCEPT !["loop"] = Gone]
    /\ UNCHANGED <<phase, Recording, track, chunk, history, faults>>

(* ... waits for the loop for less time than an upload of it may take, and  *)
(* flushes everything: stop after closing the connection, stopAll before.   *)
LastFlush ==
    /\ phase = "stopping"
    /\ phase' \in {"final", "exiting"}
    /\ flush' = [flush EXCEPT !["last"].todo = Snapshot(0)]
    /\ exposed' = exposed \cup Contested(Snapshot(0), "loop")
    /\ UNCHANGED <<Recording, track, chunk, heard, forgone, faults>>

(* The last flush is over and stop returns: nothing stores what is left.   *)
StopReturns ==
    /\ phase = "final" /\ flush["last"] = Resting
    /\ phase' = "ended"
    /\ forgone' = forgone \cup InMemory
    /\ UNCHANGED <<Recording, track, chunk, flush, heard, exposed, faults>>

(* The same of stopAll: the process exits. *)
Exit ==
    /\ phase = "exiting" /\ flush["last"] = Resting
    /\ phase' = "off"
    /\ forgone' = forgone \cup InMemory
    /\ flush' = [f \in Flushers |-> Resting]
    /\ track' = [u \in Users |-> NoTrack]
    /\ UNCHANGED <<Recording, chunk, heard, exposed, faults>>

Crash ==
    /\ phase \notin {"off", "ended"}
    /\ phase' = "off"
    /\ forgone' = forgone \cup InMemory
    /\ track' = [u \in Users |-> NoTrack]
    /\ flush' = [f \in Flushers |-> Resting]
    /\ Disturb
    /\ UNCHANGED <<Recording, chunk, heard, exposed>>

(* resumeActive: a new recording of the session, numbered after the chunks  *)
(* that are listed.  If List fails, its error is ignored: numbering starts  *)
(* over, and the chunks that are there may be written over.                 *)
Counted == {0, LastSeq}
ResumeActive ==
    /\ phase = "off" /\ epoch < MaxEpochs
    /\ phase' = "capturing" /\ epoch' = epoch + 1 /\ now' = 0
    /\ anchor' = [u \in Users |-> Origin]
    /\ startSeq' \in Counted
    /\ exposed' = IF startSeq' < LastSeq THEN exposed \cup InStore ELSE exposed
    /\ UNCHANGED <<track, chunk, flush, heard, forgone, faults>>

Next ==
    \/ Tick \/ Checkpoint \/ Stop \/ LoopEnds \/ LastFlush \/ StopReturns \/ Exit
    \/ Crash \/ ResumeActive
    \/ \E u \in Users, sent \in SendTimes : Receive(u, sent)
    \/ \E f \in Flushers : PutStarts(f) \/ PutLands(f) \/ PutReturns(f) \/ PutFails(f)

Spec == Init /\ [][Next]_vars
-----------------------------------------------------------------------------
TypeOK ==
    /\ phase \in Phases /\ epoch \in 1..MaxEpochs /\ now \in Times /\ startSeq \in Nat
    /\ track \in [Users -> Track] /\ anchor \in [Users -> Anchor]
    /\ \A u \in Users :
          DOMAIN chunk[u] \subseteq Seqs /\ UNION Range(chunk[u]) \subseteq Frame
    /\ \A f \in Flushers :
          /\ flush[f].todo \subseteq Upload /\ flush[f].put \subseteq Upload
          /\ Cardinality(flush[f].put) <= 1 /\ flush[f].landed \in BOOLEAN
    /\ heard \cup forgone \cup exposed \subseteq Frame /\ faults \in 0..MaxFaults

(* A frame that was mixed is in memory or in storage, until the recording   *)
(* that holds it is given up: no checkpoint, retry, stop or resume drops it *)
(* or writes over it.  But for what the code exposes: what a track holds    *)
(* when the last flush and the loop are uploading the same chunk of it, and *)
(* what is stored when a resume could not list the chunks.                  *)
AudioKept == heard \subseteq InMemory \cup InStore \cup forgone \cup exposed

(* "so it can't race with our final flush", and "only the downtime window   *)
(* is lost": nothing is taken away.  The code does not keep it: stop waits  *)
(* 5 s and stopAll 3 s for an upload that may take 20 s, and resumeActive   *)
(* ignores the error of List.                                               *)
NothingWrittenOver == heard \subseteq InMemory \cup InStore \cup forgone

(* The recorder does what Tape promises: a frame leaves memory only when    *)
(* storage has it, when a crash, an exit or a failed last upload gave it up *)
(* or when it is exposed, and nothing else is taken from storage.           *)
Tape == INSTANCE Tape WITH held <- InMemory, stored <- InStore
KeepsTape == Tape!Spec

(* No frame is in two chunks, so no word is transcribed twice, unless it    *)
(* was exposed.                                                             *)
NoEcho ==
    \A u \in Users : \A m, n \in DOMAIN chunk[u] :
        m # n => chunk[u][m] \cap chunk[u][n] \subseteq exposed

(* A speaker's chunks are in the order the frames were heard, also across   *)
(* resumes: the worker stitches them in key order.  Again but for frames    *)
(* that were exposed.                                                       *)
Before(f, g) == f[1] < g[1] \/ (f[1] = g[1] /\ f[3] < g[3])
Chronological ==
    \A u \in Users : \A m, n \in DOMAIN chunk[u] :
        m < n => \A f \in chunk[u][m] \ exposed, g \in chunk[u][n] \ exposed : Before(f, g)

(* In the first maxGapFrames of a recording every packet that may come is   *)
(* mixed, however late within the jitter, that was not sent before the      *)
(* first of its speaker to arrive: no checkpoint, retry or resume moves a   *)
(* track on past a slot that a packet may still fill.                       *)
SinceFirst(u, sent) == track[u] # NoTrack => sent >= anchor[u].sent
EarlyIsHeard ==
    phase = "capturing" /\ now + Lateness <= MaxGap =>
        \A u \in Users, sent \in SendTimes :
            MayCome(sent) /\ SinceFirst(u, sent) => Accepted(u, FrameIndexFor(u, sent))

(* ReceiveOpusFrame routes packets so that "audio is never silently         *)
(* dropped": the same of any packet the jitter delays.  The code does not   *)
(* keep it: a packet sent before the first that arrived is placed a whole   *)
(* wrap ahead and dropped.                                                  *)
JitterIsHeard ==
    phase = "capturing" /\ now + Lateness <= MaxGap =>
        \A u \in Users, sent \in SendTimes :
            MayCome(sent) => Accepted(u, FrameIndexFor(u, sent))

(* And what mixFrame drops "indicates a bogus timestamp": a packet that     *)
(* arrives when it was sent is mixed.  Not kept: that of a speaker who was  *)
(* silent for more than maxGapFrames is dropped too.                        *)
PunctualIsHeard ==
    phase = "capturing" => \A u \in Users : Accepted(u, FrameIndexFor(u, now))
=============================================================================
