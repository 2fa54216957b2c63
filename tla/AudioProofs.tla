---------------------------- MODULE AudioProofs -----------------------------
(***************************************************************************)
(* Theorems about Recorder, for any number of speakers, frames, resumed    *)
(* recordings and faults, and any hold-back longer than the lateness of a  *)
(* packet: but for the frames that the code exposes - to a last flush that *)
(* runs into an upload of the loop, and to a resume that could not list    *)
(* the chunks - no mixed frame is lost or stored twice, the chunks are in  *)
(* the order the frames were heard, and the recorder does what Tape        *)
(* promises.  And about TrackSegments, for any chunks, segment length and  *)
(* overlap: what the speech model is sent of a track are its windows, up   *)
(* to the end, and what it hears is the recording, trimmed and downmixed   *)
(* at once.                                                                *)
(***************************************************************************)
EXTENDS Recorder, TrackSegments, TLAPS, FiniteSetTheorems, SequenceTheorems,
        WellFoundedInduction

Slot == [base : Nat, len : Nat, seq : Nat]
Load == [user : Users, seq : Nat, count : Lengths \ {0}, frames : SUBSET Frame]
Work == [todo : SUBSET Load, put : SUBSET Load, landed : BOOLEAN]

(* The uploads a flusher has before it, the one under way included. *)
Jobs(f) == flush[f].todo \cup flush[f].put

(* The phases in which packets come that must not be lost. *)
Open == {"capturing", "stopping"}

Shapes ==
    /\ phase \in Phases /\ epoch \in 1..MaxEpochs /\ now \in Times /\ startSeq \in Nat
    /\ track \in [Users -> Slot] /\ anchor \in [Users -> [sent : Int, slot : Nat]]
    /\ DOMAIN chunk = Users
    /\ flush \in [Flushers -> Work]
    /\ heard \subseteq Frame /\ exposed \subseteq Frame

(* The slot of a packet that is sent now. *)
Present(u) == now + anchor[u].slot - anchor[u].sent

AnchorFits(u) ==
    /\ anchor[u].sent <= anchor[u].slot /\ anchor[u].slot <= now
    /\ anchor[u].slot <= anchor[u].sent + Lateness

(* A track ends at the present at the latest, and what it has dropped is    *)
(* older than any packet that may still come.                               *)
TrackFits(u) ==
    /\ AnchorFits(u)
    /\ track[u] = NoTrack \/ track[u].seq > startSeq
    /\ track[u].base + track[u].len <= Present(u) + 1
    /\ phase \in Open => track[u].base = 0 \/ track[u].base + Lateness <= Present(u)

(* But for exposed frames: the chunk a track is at may have been stored,    *)
(* and then holds frames that are still in memory; the chunks before it     *)
(* hold older frames; none comes after it.                                  *)
ChunksFit(u) ==
    \A n \in DOMAIN chunk[u] :
        /\ n \in Nat \ {0}
        /\ \A g \in chunk[u][n] : g \in heard /\ g[2] = u /\ g[1] <= epoch
        /\ phase # "off" =>
              \A g \in chunk[u][n] \ exposed :
                 /\ n <= startSeq \/ n <= track[u].seq
                 /\ IF n = track[u].seq THEN g \in Leading(u, track[u].len)
                                        ELSE g[1] < epoch \/ g[3] < track[u].base

(* An upload stores what leads its track, but for packets that came while   *)
(* the process was exiting.                                                 *)
Live(j) ==
    /\ j.seq = track[j.user].seq /\ j.count <= track[j.user].len
    /\ j.frames \subseteq Leading(j.user, j.count)
    /\ Leading(j.user, j.count) \subseteq j.frames \cup forgone
    /\ phase \in Open => track[j.user].base + j.count + Lateness <= Present(j.user)

(* Or another upload has its key, and all it can take away is exposed. *)
Dead(j) ==
    /\ phase \notin Open /\ 0 < j.seq /\ j.seq <= track[j.user].seq
    /\ j.frames \subseteq exposed
    /\ \A g \in j.frames : g \in heard /\ g[2] = j.user /\ g[1] = epoch
    /\ j.seq \in DOMAIN chunk[j.user] => chunk[j.user][j.seq] \subseteq exposed
    /\ j.seq = track[j.user].seq =>
          Leading(j.user, track[j.user].len) \subseteq exposed \cup forgone
JobFits(j) == Live(j) \/ Dead(j)

(* When the last flush begins, and what is left when no process runs. *)
Quiet ==
    /\ phase \in Open => Jobs("last") = {}
    /\ phase = "off" => /\ Jobs("loop") = {} /\ Jobs("last") = {}
                        /\ \A u \in Users : track[u] = NoTrack
Singles ==
    \A f \in Flushers :
        /\ flush[f].todo \cap flush[f].put = {}
        /\ \A i, j \in flush[f].put : i = j
        /\ \A i, j \in Jobs(f) : i.user = j.user => i = j
Rivals ==
    \A e, f \in Flushers : \A i \in Jobs(e), j \in Jobs(f) :
        e # f /\ i.user = j.user /\ i.seq = j.seq => Dead(i)

Landed ==
    \A f \in Flushers : flush[f].landed =>
        \A j \in flush[f].put : Dead(j) \/ ( /\ j.seq \in DOMAIN chunk[j.user]
                                             /\ chunk[j.user][j.seq] = j.frames )

Held(g) ==
    /\ g[1] = epoch
    /\ track[g[2]].base <= g[3] /\ g[3] < track[g[2]].base + track[g[2]].len
Stored(g) == \E n \in DOMAIN chunk[g[2]] : g \in chunk[g[2]][n]
Kept == \A g \in heard : Held(g) \/ Stored(g) \/ g \in forgone \/ g \in exposed

(* A track ends after the last frame heard of its speaker. *)
Past(u) == track[u].base + track[u].len
Within == \A g \in heard : g[1] <= epoch /\ (phase # "off" /\ g[1] = epoch => g[3] < Past(g[2]))

Bounded == \E k \in Nat : \A u \in Users : \A n \in DOMAIN chunk[u] : n <= k

Fits ==
    /\ \A u \in Users : TrackFits(u) /\ ChunksFit(u)
    /\ \A f \in Flushers : \A j \in Jobs(f) : JobFits(j)
Flushing == Quiet /\ Singles /\ Rivals /\ Landed

IInv == Shapes /\ Fits /\ Flushing /\ Chronological /\ Kept /\ Within /\ Bounded
-----------------------------------------------------------------------------
LEMMA FrameFields ==
    ASSUME NEW g \in Frame
    PROVE  /\ g[1] \in 1..MaxEpochs /\ g[2] \in Users /\ g[3] \in 0..(MaxNow + Lateness)
           /\ g[1] \in Nat /\ g[3] \in Nat /\ g = <<g[1], g[2], g[3]>>
BY RecorderBounds, HoldbackAssumption DEF Frame, Slots

LEMMA Numbers ==
    /\ MaxEpochs \in Nat /\ MaxNow \in Nat /\ MaxGap \in Nat /\ Wrap \in Nat
    /\ Holdback \in Nat /\ Lateness \in Nat /\ Lateness < Holdback
BY RecorderBounds, HoldbackAssumption, WrapAssumption

LEMMA NowFields ==
    ASSUME Shapes
    PROVE  now \in Nat /\ now <= MaxNow /\ epoch \in Nat /\ startSeq \in Nat
BY Numbers DEF Shapes, Times

LEMMA TrackFields ==
    ASSUME Shapes, NEW u \in Users
    PROVE  /\ track[u].base \in Nat /\ track[u].len \in Nat /\ track[u].seq \in Nat
           /\ anchor[u].sent \in Int /\ anchor[u].slot \in Nat /\ Present(u) \in Int
BY NowFields DEF Shapes, Slot, Present

LEMMA LoadFields ==
    ASSUME Shapes, NEW f \in Flushers, NEW j \in Jobs(f)
    PROVE  /\ j \in Load /\ j.user \in Users /\ j.seq \in Nat /\ j.count \in Nat \ {0}
           /\ j.frames \subseteq Frame
<1>1. flush[f] \in Work
  BY DEF Shapes
<1>2. j \in Load
  BY <1>1 DEF Jobs, Work
<1> QED BY <1>2, Numbers DEF Load, Lengths

(* While tracks and frames stay, an upload goes on fitting. *)
LEMMA LiveStays ==
    ASSUME Shapes, UNCHANGED <<epoch, startSeq, track, anchor, heard>>, forgone \subseteq forgone',
           now' \in Nat, now <= now', phase' \in Open => phase \in Open,
           NEW j \in Load, Live(j)
    PROVE  Live(j)'
<1>1. j.user \in Users /\ j.count \in Nat \ {0}
  BY Numbers DEF Load, Lengths
<1>2. Leading(j.user, j.count)' = Leading(j.user, j.count)
  BY DEF Leading
<1>3. /\ track'[j.user] = track[j.user] /\ track[j.user].base \in Nat
      /\ now \in Nat /\ Lateness \in Nat /\ Present(j.user) \in Int
      /\ anchor[j.user].sent \in Int /\ anchor[j.user].slot \in Nat
  BY <1>1, TrackFields, NowFields, Numbers
<1>4. Present(j.user) <= Present(j.user)' /\ Present(j.user)' \in Int
  BY <1>3 DEF Present
<1>5. phase' \in Open => track'[j.user].base + j.count + Lateness <= Present(j.user)'
  BY <1>1, <1>3, <1>4 DEF Live
<1>6. /\ j.frames \subseteq Leading(j.user, j.count)'
      /\ Leading(j.user, j.count)' \subseteq j.frames \cup forgone'
  BY <1>2 DEF Live
<1>7. j.seq = track'[j.user].seq /\ j.count <= track'[j.user].len
  BY <1>3 DEF Live
<1> QED BY <1>5, <1>6, <1>7 DEF Live

(* An upload whose frames are exposed can do no more harm. *)
LEMMA DeadStays ==
    ASSUME NEW j, Dead(j), UNCHANGED epoch, heard \subseteq heard', exposed \subseteq exposed',
           phase' \notin Open, j.seq <= track'[j.user].seq,
           j.seq \in DOMAIN chunk'[j.user] => chunk'[j.user][j.seq] \subseteq exposed',
           j.seq = track'[j.user].seq =>
              Leading(j.user, track[j.user].len)' \subseteq exposed' \cup forgone'
    PROVE  Dead(j)'
BY DEF Dead

LEMMA DeadRests ==
    ASSUME NEW j, Dead(j), UNCHANGED <<epoch, track, chunk, heard>>, exposed \subseteq exposed',
           forgone \subseteq forgone', phase' \notin Open
    PROVE  Dead(j)'
<1>1. Leading(j.user, track[j.user].len)' = Leading(j.user, track[j.user].len)
  BY DEF Leading
<1> QED BY <1>1, DeadStays DEF Dead

(* A step that leaves tracks, frames and chunks alone. *)
LEMMA StillStep ==
    ASSUME IInv, Shapes', UNCHANGED <<epoch, startSeq, track, anchor, chunk, heard>>,
           forgone \subseteq forgone', exposed \subseteq exposed', now <= now',
           phase' \in Open => phase \in Open, phase # "off", Flushing',
           \A f \in Flushers : \A j \in Jobs(f)' : j \in Jobs(f) \/ JobFits(j)'
    PROVE  IInv'
<1>1. Shapes /\ now' \in Nat /\ now \in Nat /\ Lateness \in Nat
  BY Numbers, NowFields DEF IInv, Shapes, Times
<1>2. ASSUME NEW u \in Users PROVE TrackFits(u)' /\ ChunksFit(u)'
  <2>1. /\ TrackFits(u) /\ ChunksFit(u) /\ Present(u) \in Int /\ Present(u)' \in Int
        /\ Present(u) <= Present(u)' /\ track[u].base \in Nat /\ track[u].len \in Nat
        /\ anchor[u].sent \in Int /\ anchor[u].slot \in Nat
    BY <1>1, TrackFields DEF IInv, Fits, Present
  <2>2. TrackFits(u)'
    BY <1>1, <2>1 DEF TrackFits, AnchorFits
  <2>3. Leading(u, track[u].len)' = Leading(u, track[u].len)
    BY DEF Leading
  <2>4. ChunksFit(u)'
    BY <2>1, <2>3 DEF ChunksFit
  <2> QED BY <2>2, <2>4
<1>3. ASSUME NEW f \in Flushers, NEW j \in Jobs(f)' PROVE JobFits(j)'
  <2>1. CASE j \in Jobs(f)
    <3>1. j \in Load /\ JobFits(j)
      BY <1>1, <2>1, LoadFields DEF IInv, Fits
    <3>2. CASE Live(j)
      BY <1>1, <3>1, <3>2, LiveStays DEF JobFits
    <3>3. CASE Dead(j)
      BY <3>3, DeadRests DEF JobFits, Dead
    <3> QED BY <3>1, <3>2, <3>3 DEF JobFits
  <2> QED BY <2>1
<1>4. Fits'
  BY <1>2, <1>3 DEF Fits
<1>5. Chronological' /\ Bounded'
  BY DEF IInv, Chronological, Bounded
<1>6. Kept' /\ Within'
  BY DEF IInv, Kept, Held, Stored, Within, Past
<1> QED BY <1>4, <1>5, <1>6 DEF IInv

LEMMA FlushTypes ==
    ASSUME Shapes, NEW f \in Flushers, NEW new \in Work, flush' = [flush EXCEPT ![f] = new]
    PROVE  /\ flush' \in [Flushers -> Work]
           /\ flush'[f] = new /\ \A e \in Flushers \ {f} : flush'[e] = flush[e]
BY DEF Shapes

(* Where flushers have no other uploads and nothing is taken from those     *)
(* that may write over each other, they stay at peace.                      *)
LEMMA FewerUploads ==
    ASSUME Flushing, \A f \in Flushers : Jobs(f)' \subseteq Jobs(f),
           \A f \in Flushers : \A j \in Jobs(f)' : Dead(j) => Dead(j)'
    PROVE  Rivals'
<1>1. SUFFICES ASSUME NEW e \in Flushers, NEW f \in Flushers, NEW i \in Jobs(e)',
                      NEW j \in Jobs(f)', e # f, i.user = j.user, i.seq = j.seq
               PROVE  Dead(i)'
  BY DEF Rivals
<1>2. i \in Jobs(e) /\ j \in Jobs(f)
  BY <1>1
<1>3. Dead(i)
  BY <1>1, <1>2 DEF Flushing, Rivals
<1> QED BY <1>1, <1>3
-----------------------------------------------------------------------------
LEMMA TickStep ==
    ASSUME IInv, Tick
    PROVE  IInv'
<1>1. /\ UNCHANGED <<phase, epoch, startSeq, track, anchor, chunk, flush, heard, forgone, exposed>>
      /\ now' = now + 1 /\ phase # "off" /\ now < MaxNow
  BY DEF Tick, history
<1>2. Shapes /\ now' \in Times /\ now <= now'
  BY <1>1, NowFields, Numbers DEF IInv, Times
<1>3. Shapes'
  BY <1>1, <1>2 DEF Shapes
<1>4. \A f \in Flushers : Jobs(f)' = Jobs(f)
  BY <1>1 DEF Jobs
<1>5. \A j : Dead(j) => Dead(j)'
  <2>1. SUFFICES ASSUME NEW j, Dead(j) PROVE Dead(j)'
    OBVIOUS
  <2> QED BY <1>1, <2>1, DeadRests DEF Dead
<1>6. Quiet' /\ Singles' /\ Landed'
  <2>1. Quiet'
    BY <1>1, <1>4 DEF IInv, Flushing, Quiet, Flushers
  <2>2. Singles'
    BY <1>1, <1>4 DEF IInv, Flushing, Singles
  <2>3. Landed'
    BY <1>1, <1>5 DEF IInv, Flushing, Landed
  <2> QED BY <2>1, <2>2, <2>3
<1>7. Flushing'
  BY <1>4, <1>5, <1>6, FewerUploads DEF IInv, Flushing
<1> QED BY <1>1, <1>2, <1>3, <1>4, <1>7, StillStep

(* /session stop begins, or returns; the loop returns. *)
LEMMA StopStep ==
    ASSUME IInv, Stop \/ StopReturns \/ LoopEnds
    PROVE  IInv'
<1>1. Shapes /\ Flushing /\ now \in Nat
  BY NowFields DEF IInv
<1>2. /\ UNCHANGED <<epoch, now, startSeq, track, anchor, chunk, heard, exposed>>
      /\ forgone \subseteq forgone'
  BY DEF Stop, StopReturns, LoopEnds, Recording, history
<1>3. phase # "off" /\ phase' \in Phases /\ (phase' \in Open => phase \in Open)
  BY <1>1 DEF Stop, StopReturns, LoopEnds, Phases, Open, Shapes
<1>4. phase \notin Open => phase' \notin Open
  BY <1>1 DEF Stop, StopReturns, LoopEnds, Open
<1>5. \A j : Dead(j) => Dead(j)'
  <2>1. SUFFICES ASSUME NEW j, Dead(j) PROVE Dead(j)'
    OBVIOUS
  <2> QED BY <1>2, <1>4, <2>1, DeadRests DEF Dead
<1>6. CASE Stop \/ StopReturns
  <2>1. flush' = flush
    BY <1>6 DEF Stop, StopReturns
  <2>2. \A f \in Flushers : Jobs(f)' = Jobs(f)
    BY <2>1 DEF Jobs
  <2>3. Shapes'
    BY <1>1, <1>2, <1>3, <2>1 DEF Shapes
  <2>4. Quiet'
    BY <1>1, <1>3, <1>6, <2>2 DEF Flushing, Quiet, Flushers, Stop, StopReturns
  <2>5. Singles' /\ Landed'
    BY <1>1, <1>2, <1>5, <2>1, <2>2 DEF Flushing, Singles, Landed
  <2>6. Flushing'
    BY <1>1, <1>5, <2>2, <2>4, <2>5, FewerUploads DEF Flushing
  <2> QED BY <1>1, <1>2, <1>3, <2>2, <2>3, <2>6, StillStep
<1>7. CASE LoopEnds
  <2>1. /\ flush["loop"] = Resting /\ flush' = [flush EXCEPT !["loop"] = Gone] /\ phase' = phase
        /\ "loop" \in Flushers /\ "last" \in Flushers
    BY <1>7 DEF LoopEnds, Flushers
  <2>2. Gone \in Work
    BY DEF Gone, Work
  <2>3. /\ flush' \in [Flushers -> Work]
        /\ flush'["loop"] = Gone /\ flush'["last"] = flush["last"]
    BY <1>1, <2>1, <2>2, FlushTypes DEF Flushers
  <2>4. Shapes'
    BY <1>1, <1>2, <1>3, <2>3 DEF Shapes
  <2>5. Jobs("loop")' = {} /\ Jobs("last")' = Jobs("last")
    BY <2>3 DEF Jobs, Gone
  <2>6. \A f \in Flushers : Jobs(f)' \subseteq Jobs(f)
    BY <2>5 DEF Flushers
  <2>7. Quiet'
    BY <1>1, <1>3, <2>1, <2>5 DEF Flushing, Quiet
  <2>8. Singles'
    BY <1>1, <2>3, <2>5 DEF Flushing, Singles, Flushers, Gone
  <2>9. Landed'
    BY <1>1, <1>2, <1>5, <2>3 DEF Flushing, Landed, Flushers, Gone
  <2>10. Flushing'
    BY <1>1, <1>5, <2>6, <2>7, <2>8, <2>9, FewerUploads DEF Flushing
  <2> QED BY <1>1, <1>2, <1>3, <2>4, <2>6, <2>10, StillStep
<1> QED BY <1>6, <1>7
-----------------------------------------------------------------------------
(* How far tracks and anchors go. *)
LEMMA TrackBounds ==
    ASSUME IInv, NEW u \in Users
    PROVE  track[u] \in Track /\ anchor[u] \in Anchor
<1>1. /\ Shapes /\ MaxNow \in Nat /\ Lateness \in Nat /\ now \in Nat /\ now <= MaxNow
  BY Numbers, NowFields DEF IInv
<1>2. /\ track[u] \in Slot /\ track[u].base + track[u].len <= Present(u) + 1 /\ AnchorFits(u)
      /\ anchor[u] \in [sent : Int, slot : Nat]
  BY <1>1 DEF IInv, Fits, TrackFits, Shapes
<1>3. anchor[u].sent \in SendTimes /\ anchor[u].slot \in Times
  BY <1>1, <1>2 DEF AnchorFits, SendTimes, Times
<1>4. Present(u) <= MaxNow + Lateness /\ Present(u) \in Int
  BY <1>1, <1>2 DEF AnchorFits, Present
<1>5. track[u].base \in Lengths /\ track[u].len \in Lengths /\ track[u].seq \in Nat
  BY <1>1, <1>2, <1>4 DEF Slot, Lengths
<1> QED BY <1>2, <1>3, <1>5 DEF Slot, Track, Anchor

LEMMA SnapshotFields ==
    ASSUME IInv, NEW h \in Nat, NEW j \in Snapshot(h)
    PROVE  /\ j \in Load /\ j.user \in Users /\ j.seq = track[j.user].seq
           /\ track[j.user].len > h /\ j.count = track[j.user].len - h
           /\ j.frames = Leading(j.user, j.count)
<1>1. PICK u \in Users :
         /\ track[u].len > h
         /\ j = [user |-> u, seq |-> track[u].seq, count |-> track[u].len - h,
                 frames |-> Leading(u, track[u].len - h)]
  BY DEF Snapshot
<1>2. track[u].seq \in Nat /\ track[u].len - h \in Lengths \ {0}
  BY <1>1, TrackBounds, Numbers DEF Track, Lengths
<1>3. Leading(u, track[u].len - h) \in SUBSET Frame
  BY DEF Leading, IInv, Shapes
<1>4. j \in Load
  BY <1>1, <1>2, <1>3 DEF Load
<1> QED BY <1>1, <1>4

(* A checkpoint leaves more frames than a packet may be late by. *)
LEMMA SnapshotFits ==
    ASSUME IInv, UNCHANGED <<epoch, now, track, anchor, heard, forgone>>,
           NEW h \in Nat, phase' \in Open => Lateness < h,
           NEW j \in Snapshot(h)
    PROVE  Live(j)'
<1>1. Shapes /\ now \in Nat /\ Lateness \in Nat
  BY Numbers, NowFields DEF IInv
<1>2. /\ j.user \in Users /\ j.seq = track[j.user].seq /\ track[j.user].len > h
      /\ j.count = track[j.user].len - h /\ j.frames = Leading(j.user, j.count)
  BY <1>1, SnapshotFields
<1>3. /\ track[j.user].base \in Nat /\ track[j.user].len \in Nat /\ Present(j.user) \in Int
      /\ track[j.user].base + track[j.user].len <= Present(j.user) + 1
  BY <1>1, <1>2, TrackFields DEF IInv, Fits, TrackFits
<1>4. Leading(j.user, j.count)' = Leading(j.user, j.count) /\ Present(j.user)' = Present(j.user)
  BY DEF Leading, Present
<1>5. phase' \in Open => track'[j.user].base + j.count + Lateness <= Present(j.user)'
  BY <1>1, <1>2, <1>3, <1>4
<1> QED BY <1>2, <1>3, <1>4, <1>5 DEF Live

(* An upload of what its track leads with, all of it exposed now. *)
LEMMA LiveDies ==
    ASSUME IInv, UNCHANGED <<epoch, track, chunk, heard>>, forgone \subseteq forgone',
           exposed \subseteq exposed', phase # "off", phase' \notin Open,
           NEW j \in Load, 0 < j.seq, j.seq = track[j.user].seq, j.count <= track[j.user].len,
           j.frames \subseteq Leading(j.user, j.count),
           Leading(j.user, track[j.user].len) \subseteq exposed'
    PROVE  Dead(j)'
<1>1. j.user \in Users /\ j.count \in Nat /\ Shapes
  BY Numbers DEF Load, Lengths, IInv
<1>2. track[j.user].base \in Nat /\ track[j.user].len \in Nat
  BY <1>1, TrackFields
<1>3. \A g \in heard : g[3] \in Nat
  BY <1>1, FrameFields DEF Shapes
<1>4. Leading(j.user, j.count) \subseteq Leading(j.user, track[j.user].len)
  BY <1>1, <1>2, <1>3 DEF Leading
<1>5. \A g \in j.frames : g \in heard' /\ g[2] = j.user /\ g[1] = epoch'
  BY DEF Leading
<1>6. j.seq \in DOMAIN chunk[j.user] => chunk[j.user][j.seq] \subseteq exposed'
  <2>1. ChunksFit(j.user)
    BY <1>1 DEF IInv, Fits
  <2> QED BY <2>1 DEF ChunksFit
<1>7. Leading(j.user, track[j.user].len)' = Leading(j.user, track[j.user].len)
  BY DEF Leading
<1>8. j.seq <= track[j.user].seq
  BY <1>1, TrackFields
<1> QED BY <1>4, <1>5, <1>6, <1>7, <1>8 DEF Dead

(* Two uploads of one chunk: what its track holds is exposed. *)
LEMMA ContestedDie ==
    ASSUME IInv, UNCHANGED <<epoch, now, startSeq, track, anchor, chunk, heard, forgone>>,
           phase # "off", phase' \notin Open, NEW h \in Nat, NEW e \in Flushers,
           exposed' = exposed \cup Contested(Snapshot(h), e),
           NEW i \in Jobs(e), NEW k \in Snapshot(h), i.user = k.user, i.seq = k.seq
    PROVE  Dead(i)' /\ Dead(k)'
<1>1. Shapes /\ i \in Load /\ JobFits(i) /\ i.user \in Users
  BY LoadFields DEF IInv, Fits
<1>2. /\ k \in Load /\ k.seq = track[k.user].seq /\ track[k.user].len > h
      /\ k.count = track[k.user].len - h /\ k.frames = Leading(k.user, k.count)
  BY <1>1, SnapshotFields
<1>3. track[k.user].len \in Nat /\ track[k.user].seq \in Nat /\ startSeq \in Nat
  BY <1>1, TrackFields, NowFields
<1>4. 0 < k.seq
  <2>1. track[k.user] # NoTrack
    BY <1>2, <1>3 DEF NoTrack
  <2>2. TrackFits(k.user)
    BY <1>1 DEF IInv, Fits
  <2> QED BY <1>2, <1>3, <2>1, <2>2 DEF TrackFits
<1>5. Leading(k.user, track[k.user].len) \subseteq exposed'
  BY DEF Contested, Jobs
<1>6. \A j \in Load :
         /\ 0 < j.seq /\ j.seq = track[j.user].seq /\ j.count <= track[j.user].len
         /\ j.frames \subseteq Leading(j.user, j.count)
         /\ Leading(j.user, track[j.user].len) \subseteq exposed'
         => Dead(j)'
  BY LiveDies
<1>7. \A j : Dead(j) => Dead(j)'
  BY DeadRests
<1>8. Dead(k)'
  BY <1>2, <1>3, <1>4, <1>5, <1>6
<1>9. CASE Live(i)
  <2>1. /\ 0 < i.seq /\ i.seq = track[i.user].seq /\ i.count <= track[i.user].len
        /\ i.frames \subseteq Leading(i.user, i.count)
    BY <1>4, <1>9 DEF Live
  <2>2. Leading(i.user, track[i.user].len) \subseteq exposed'
    BY <1>5
  <2> QED BY <1>1, <1>6, <1>8, <2>1, <2>2
<1>10. CASE Dead(i)
  BY <1>7, <1>8, <1>10
<1> QED BY <1>1, <1>9, <1>10 DEF JobFits

(* A flusher with nothing to do takes the leading frames of every track. *)
LEMMA Snapshots ==
    ASSUME IInv, UNCHANGED <<epoch, now, startSeq, track, anchor, chunk, heard, forgone>>,
           NEW e \in Flushers, NEW f \in Flushers, e # f, NEW h \in Nat, Jobs(f) = {},
           flush' = [flush EXCEPT ![f].todo = Snapshot(h)],
           exposed' = exposed \cup Contested(Snapshot(h), e),
           phase # "off", phase' \in Phases \ {"off"},
           phase' \in Open => phase \in Open /\ Lateness < h /\ f = "loop"
    PROVE  IInv'
<1>1. /\ Shapes /\ Flushing /\ Flushers = {e, f} /\ now \in Nat
      /\ flush[f].put = {} /\ now <= now' /\ forgone \subseteq forgone'
      /\ exposed \subseteq exposed'
  BY NowFields DEF IInv, Jobs, Flushers
<1>2. PICK new : new = [flush[f] EXCEPT !.todo = Snapshot(h)]
  OBVIOUS
<1>3. flush[f] \in Work /\ Snapshot(h) \subseteq Load
  BY <1>1, SnapshotFields DEF Shapes
<1>4. new \in Work /\ new.todo = Snapshot(h) /\ new.put = {}
  BY <1>1, <1>2, <1>3 DEF Work
<1>5. flush' = [flush EXCEPT ![f] = new]
  BY <1>2
<1>6. flush' \in [Flushers -> Work] /\ flush'[f] = new /\ flush'[e] = flush[e]
  BY <1>1, <1>4, <1>5, FlushTypes
<1>7. Shapes'
  <2>1. Contested(Snapshot(h), e) \subseteq Frame
    BY <1>1 DEF Contested, Leading, Shapes
  <2> QED BY <1>1, <1>6, <2>1 DEF Shapes
<1>8. Jobs(f)' = Snapshot(h) /\ Jobs(e)' = Jobs(e)
  BY <1>4, <1>6 DEF Jobs
<1>9. Quiet'
  <2>1. phase' \in Open => e = "last"
    BY DEF Flushers
  <2> QED BY <1>1, <1>8, <2>1 DEF Flushing, Quiet
<1>10. Singles'
  <2>1. \A i, j \in Snapshot(h) : i.user = j.user => i = j
    BY DEF Snapshot
  <2>2. /\ flush'[f].todo \cap flush'[f].put = {}
        /\ \A i, j \in flush'[f].put : i = j
        /\ \A i, j \in Jobs(f)' : i.user = j.user => i = j
    <3>1. flush'[f].put = {}
      BY <1>4, <1>6
    <3> QED BY <1>8, <2>1, <3>1
  <2>3. /\ flush'[e].todo \cap flush'[e].put = {}
        /\ \A i, j \in flush'[e].put : i = j
        /\ \A i, j \in Jobs(e)' : i.user = j.user => i = j
    BY <1>1, <1>6, <1>8 DEF Flushing, Singles
  <2> QED BY <1>1, <2>2, <2>3 DEF Singles
<1>11. ASSUME NEW i \in Jobs(e), NEW j \in Snapshot(h), i.user = j.user, i.seq = j.seq
       PROVE  Dead(i)' /\ Dead(j)'
  <2>1. phase' \notin Open
    BY <1>1, <1>11 DEF Flushing, Quiet, Flushers
  <2> QED BY <1>11, <2>1, ContestedDie
<1>12. Rivals'
  BY <1>1, <1>8, <1>11 DEF Rivals
<1>13. Landed'
  <2>1. SUFFICES ASSUME flush'[e].landed, NEW j \in flush'[e].put
                 PROVE  Dead(j)' \/ (/\ j.seq \in DOMAIN chunk'[j.user]
                                     /\ chunk'[j.user][j.seq] = j.frames)
    BY <1>1, <1>4, <1>6 DEF Landed
  <2>2. CASE Dead(j)
    <3>1. phase' \notin Open
      BY <2>2 DEF Dead
    <3> QED BY <1>1, <2>2, <3>1, DeadRests
  <2>3. CASE ~Dead(j)
    BY <1>1, <1>6, <2>1, <2>3 DEF Flushing, Landed
  <2> QED BY <2>2, <2>3
<1>14. ASSUME NEW k \in Flushers, NEW j \in Jobs(k)'
       PROVE  j \in Jobs(k) \/ JobFits(j)'
  <2>1. CASE k = f
    BY <1>8, <1>14, <2>1, SnapshotFits DEF JobFits
  <2>2. CASE k = e
    BY <1>8, <1>14, <2>2
  <2> QED BY <1>1, <2>1, <2>2
<1> QED BY <1>1, <1>7, <1>9, <1>10, <1>12, <1>13, <1>14, StillStep DEF Flushing

LEMMA SnapshotStep ==
    ASSUME IInv, Checkpoint \/ LastFlush
    PROVE  IInv'
<1>1. /\ Shapes /\ Flushing /\ Holdback \in Nat /\ 0 \in Nat
      /\ Lateness < Holdback /\ "loop" \in Flushers /\ "last" \in Flushers
  BY Numbers DEF IInv, Flushers
<1>2. UNCHANGED <<epoch, now, startSeq, track, anchor, chunk, heard, forgone>> /\ phase # "off"
  BY DEF Checkpoint, LastFlush, Recording
<1>3. CASE Checkpoint
  <2>1. /\ flush["loop"] = Resting /\ phase' = phase
        /\ flush' = [flush EXCEPT !["loop"].todo = Snapshot(Holdback)]
        /\ exposed' = exposed \cup Contested(Snapshot(Holdback), "last")
    BY <1>3 DEF Checkpoint
  <2>2. Jobs("loop") = {} /\ phase \in Phases
    BY <1>1, <2>1 DEF Jobs, Resting, Shapes
  <2> QED BY <1>1, <1>2, <2>1, <2>2, Snapshots
<1>4. CASE LastFlush
  <2>1. /\ phase = "stopping" /\ phase' \in {"final", "exiting"}
        /\ flush' = [flush EXCEPT !["last"].todo = Snapshot(0)]
        /\ exposed' = exposed \cup Contested(Snapshot(0), "loop")
    BY <1>4 DEF LastFlush
  <2>2. Jobs("last") = {}
    BY <1>1, <2>1 DEF Flushing, Quiet, Open
  <2>3. phase' \in Phases \ {"off"} /\ phase' \notin Open
    BY <2>1 DEF Phases, Open
  <2> QED BY <1>1, <1>2, <2>1, <2>2, <2>3, Snapshots
<1> QED BY <1>3, <1>4
-----------------------------------------------------------------------------
(* A flusher that has uploads goes on with one of them, or gives one up. *)
LEMMA FlushMoves ==
    ASSUME Shapes, Flushing, UNCHANGED <<phase, chunk>>, phase = "off" => UNCHANGED track,
           NEW f \in Flushers, NEW done \in SUBSET Load, NEW rest \in SUBSET Load,
           flush' = [flush EXCEPT ![f] = [todo |-> rest, put |-> done, landed |-> FALSE]],
           Jobs(f) # {}, rest \cup done \subseteq Jobs(f), rest \cap done = {},
           \A i, j \in done : i = j,
           \A e \in Flushers : \A j \in Jobs(e) : Dead(j) => Dead(j)'
    PROVE  /\ flush' \in [Flushers -> Work]
           /\ phase # "off" /\ Flushing'
           /\ Jobs(f)' = rest \cup done
           /\ \A e \in Flushers : Jobs(e)' \subseteq Jobs(e)
<1>1. "loop" \in Flushers /\ "last" \in Flushers
  BY DEF Flushers
<1>2. PICK new : new = [todo |-> rest, put |-> done, landed |-> FALSE]
  OBVIOUS
<1>3. new \in Work /\ new.todo = rest /\ new.put = done /\ ~new.landed
  BY <1>2 DEF Work
<1>4. flush' = [flush EXCEPT ![f] = new]
  BY <1>2
<1>5. /\ flush' \in [Flushers -> Work]
      /\ flush'[f] = new /\ \A e \in Flushers \ {f} : flush'[e] = flush[e]
  BY <1>1, <1>3, <1>4, FlushTypes
<1>6. Jobs(f)' = rest \cup done /\ \A e \in Flushers \ {f} : Jobs(e)' = Jobs(e)
  BY <1>3, <1>5 DEF Jobs
<1>7. phase # "off" /\ \A e \in Flushers : Jobs(e)' \subseteq Jobs(e)
  BY <1>1, <1>6 DEF Flushing, Quiet, Flushers
<1>8. Quiet'
  BY <1>1, <1>5, <1>7 DEF Flushing, Quiet
<1>9. Singles'
  <2>1. ASSUME NEW e \in Flushers
        PROVE  /\ flush'[e].todo \cap flush'[e].put = {}
               /\ \A i, j \in flush'[e].put : i = j
               /\ \A i, j \in Jobs(e)' : i.user = j.user => i = j
    <3>1. CASE e = f
      BY <1>3, <1>5, <1>6, <3>1 DEF Flushing, Singles
    <3>2. CASE e # f
      BY <1>5, <1>6, <3>2 DEF Flushing, Singles
    <3> QED BY <3>1, <3>2
  <2> QED BY <2>1 DEF Singles
<1>10. Rivals'
  BY <1>7, FewerUploads
<1>11. Landed'
  <2>1. SUFFICES ASSUME NEW e \in Flushers, flush'[e].landed, NEW i \in flush'[e].put
                 PROVE  Dead(i)' \/ ( /\ i.seq \in DOMAIN chunk'[i.user]
                                      /\ chunk'[i.user][i.seq] = i.frames )
    BY DEF Landed
  <2>2. e # f /\ flush'[e] = flush[e] /\ i \in Jobs(e)
    BY <1>3, <1>5, <2>1 DEF Jobs
  <2>3. Dead(i) \/ (i.seq \in DOMAIN chunk[i.user] /\ chunk[i.user][i.seq] = i.frames)
    BY <2>1, <2>2 DEF Flushing, Landed
  <2> QED BY <2>2, <2>3
<1> QED BY <1>5, <1>6, <1>7, <1>8, <1>9, <1>10, <1>11 DEF Flushing

LEMMA PutMoves ==
    ASSUME IInv, UNCHANGED <<phase, epoch, now, startSeq, track, anchor, chunk, heard>>,
           UNCHANGED <<forgone, exposed>>,
           NEW f \in Flushers, NEW done \in SUBSET Load, NEW rest \in SUBSET Load,
           flush' = [flush EXCEPT ![f] = [todo |-> rest, put |-> done, landed |-> FALSE]],
           Jobs(f) # {}, rest \cup done \subseteq Jobs(f), rest \cap done = {},
           \A i, j \in done : i = j
    PROVE  IInv'
<1>1. /\ Shapes /\ Flushing /\ now \in Nat /\ now <= now' /\ forgone \subseteq forgone'
      /\ exposed \subseteq exposed'
  BY NowFields DEF IInv
<1>2. \A j : Dead(j) => Dead(j)'
  <2>1. SUFFICES ASSUME NEW j, Dead(j) PROVE Dead(j)'
    OBVIOUS
  <2> QED BY <1>1, <2>1, DeadRests DEF Dead
<1>3. /\ flush' \in [Flushers -> Work] /\ phase # "off" /\ Flushing'
      /\ \A e \in Flushers : Jobs(e)' \subseteq Jobs(e)
  BY <1>1, <1>2, FlushMoves
<1>4. Shapes'
  BY <1>1, <1>3 DEF Shapes
<1> QED BY <1>1, <1>3, <1>4, StillStep

LEMMA PutStartsStep ==
    ASSUME IInv, NEW f \in Flushers, PutStarts(f)
    PROVE  IInv'
<1>1. /\ Shapes /\ flush[f].put = {} /\ UNCHANGED <<forgone, exposed>>
      /\ UNCHANGED <<phase, epoch, now, startSeq, track, anchor, chunk, heard>>
  BY DEF IInv, PutStarts, Recording, history
<1>2. PICK j \in flush[f].todo :
         flush' = [flush EXCEPT ![f] = [todo |-> @.todo \ {j}, put |-> {j}, landed |-> FALSE]]
  BY DEF PutStarts
<1>3. flush[f].todo \in SUBSET Load
  BY <1>1 DEF Shapes, Work
<1>4. PICK rest \in SUBSET Load : rest = flush[f].todo \ {j}
  BY <1>3
<1>5. flush' = [flush EXCEPT ![f] = [todo |-> rest, put |-> {j}, landed |-> FALSE]]
  BY <1>2, <1>4
<1>6. /\ {j} \in SUBSET Load /\ Jobs(f) # {} /\ rest \cup {j} \subseteq Jobs(f)
      /\ rest \cap {j} = {} /\ \A i, k \in {j} : i = k
  BY <1>2, <1>3, <1>4 DEF Jobs
<1> QED BY <1>1, <1>5, <1>6, PutMoves

(* The flusher is done with its upload. *)
LEMMA PutDoneIs ==
    ASSUME Shapes, NEW f \in Flushers,
           flush' = [flush EXCEPT ![f].put = {}, ![f].landed = FALSE]
    PROVE  flush' = [flush EXCEPT ![f] = [todo |-> flush[f].todo, put |-> {}, landed |-> FALSE]]
<1>1. flush \in [Flushers -> Work]
  BY DEF Shapes
<1>2. PICK mid : mid = [flush EXCEPT ![f].put = {}]
  OBVIOUS
<1>3. /\ mid \in [Flushers -> Work]
      /\ mid[f] = [flush[f] EXCEPT !.put = {}]
      /\ \A e \in Flushers \ {f} : mid[e] = flush[e]
  BY <1>1, <1>2 DEF Work
<1>4. flush' = [mid EXCEPT ![f].landed = FALSE]
  BY <1>2
<1>5. [mid[f] EXCEPT !.landed = FALSE] = [todo |-> flush[f].todo, put |-> {}, landed |-> FALSE]
  <2>1. PICK new : new = [mid[f] EXCEPT !.landed = FALSE]
    OBVIOUS
  <2>2. mid[f].todo = flush[f].todo /\ mid[f].put = {}
    BY <1>1, <1>3 DEF Work
  <2>3. new \in Work /\ new.todo = flush[f].todo /\ new.put = {} /\ new.landed = FALSE
    BY <1>3, <2>1, <2>2 DEF Work
  <2>4. new = [todo |-> new.todo, put |-> new.put, landed |-> new.landed]
    BY <2>3 DEF Work
  <2> QED BY <2>1, <2>3, <2>4
<1> QED BY <1>1, <1>3, <1>4, <1>5

LEMMA PutFailsStep ==
    ASSUME IInv, NEW f \in Flushers, PutFails(f)
    PROVE  IInv'
<1>1. /\ Shapes /\ flush[f].put # {} /\ UNCHANGED <<forgone, exposed>>
      /\ UNCHANGED <<phase, epoch, now, startSeq, track, anchor, chunk, heard>>
      /\ flush' = [flush EXCEPT ![f].put = {}, ![f].landed = FALSE]
  BY DEF IInv, PutFails, Recording, PutDone, history
<1>2. flush[f] \in Work
  BY <1>1 DEF Shapes
<1>3. PICK rest \in SUBSET Load : rest = flush[f].todo
  BY <1>2 DEF Work
<1>4. flush' = [flush EXCEPT ![f] = [todo |-> rest, put |-> {}, landed |-> FALSE]]
  BY <1>1, <1>2, <1>3, PutDoneIs
<1>5. /\ {} \in SUBSET Load /\ Jobs(f) # {} /\ rest \cup {} \subseteq Jobs(f)
      /\ rest \cap {} = {} /\ \A i, k \in {} : i = k
  BY <1>1, <1>3 DEF Jobs
<1> QED BY <1>1, <1>4, <1>5, PutMoves
-----------------------------------------------------------------------------
(* Where there is an upload: it is of a recording, and of its track's chunk *)
(* unless it can do no more harm.                                           *)
LEMMA JobFacts ==
    ASSUME IInv, NEW f \in Flushers, NEW j \in Jobs(f)
    PROVE  /\ phase # "off" /\ j \in Load /\ j.user \in Users /\ j.frames \subseteq Frame
           /\ j.seq \in Nat \ {0} /\ startSeq \in Nat /\ j.count \in Nat \ {0}
           /\ track[j.user].base \in Nat /\ track[j.user].len \in Nat /\ track[j.user].seq \in Nat
           /\ j.seq <= track[j.user].seq /\ track[j.user].seq > startSeq
           /\ \A g \in j.frames : g \in heard /\ g[2] = j.user /\ g[1] = epoch
           /\ Live(j) \/ Dead(j)
<1>1. Shapes /\ Flushing /\ JobFits(j) /\ "loop" \in Flushers /\ "last" \in Flushers
  BY DEF IInv, Fits, Flushers
<1>2. /\ j \in Load /\ j.user \in Users /\ j.seq \in Nat /\ j.count \in Nat \ {0}
      /\ j.frames \subseteq Frame
  BY <1>1, LoadFields
<1>3. /\ track[j.user].base \in Nat /\ track[j.user].len \in Nat /\ track[j.user].seq \in Nat
      /\ startSeq \in Nat
  BY <1>1, <1>2, TrackFields, NowFields
<1>4. phase # "off"
  BY <1>1 DEF Flushing, Quiet, Flushers
<1>5. j.seq <= track[j.user].seq /\ (Live(j) => j.count <= track[j.user].len)
  BY <1>1, <1>2, <1>3 DEF JobFits, Live, Dead
<1>6. track[j.user] # NoTrack
  BY <1>1, <1>2, <1>3, <1>5 DEF NoTrack, JobFits, Dead
<1>7. TrackFits(j.user)
  BY <1>2 DEF IInv, Fits
<1>8. track[j.user].seq > startSeq
  BY <1>6, <1>7 DEF TrackFits
<1>9. j.seq # 0
  BY <1>1, <1>2, <1>3, <1>8 DEF JobFits, Live, Dead
<1>10. \A g \in j.frames : g \in heard /\ g[2] = j.user /\ g[1] = epoch
  BY <1>1 DEF JobFits, Live, Dead, Leading
<1> QED BY <1>1, <1>2, <1>3, <1>4, <1>5, <1>8, <1>9, <1>10 DEF JobFits

(* Storage has the chunk of an upload. *)
LEMMA LandsFacts ==
    ASSUME IInv, NEW f \in Flushers, PutLands(f)
    PROVE  \E j \in flush[f].put, u \in Users, s \in Nat \ {0} :
              /\ u = j.user /\ s = j.seq /\ j \in Jobs(f)
              /\ DOMAIN chunk' = Users
              /\ DOMAIN chunk'[u] = DOMAIN chunk[u] \cup {s} /\ chunk'[u][s] = j.frames
              /\ \A n \in DOMAIN chunk[u] \ {s} : chunk'[u][n] = chunk[u][n]
              /\ \A v \in Users \ {u} : chunk'[v] = chunk[v]
              /\ \A g \in j.frames \ exposed : s = track[u].seq /\ g \in Leading(u, track[u].len)
              /\ s \in DOMAIN chunk[u] =>
                    \A g \in chunk[u][s] \ exposed : g \in Leading(u, track[u].len)
<1>1. Shapes
  BY DEF IInv
<1>2. PICK j \in flush[f].put :
         chunk' = [chunk EXCEPT ![j.user] =
                     [n \in DOMAIN @ \cup {j.seq} |-> IF n = j.seq THEN j.frames ELSE @[n]]]
  BY DEF PutLands
<1>3. j \in Jobs(f)
  BY <1>2 DEF Jobs
<1>4. /\ phase # "off" /\ j.user \in Users /\ j.seq \in Nat \ {0} /\ j.count \in Nat \ {0}
      /\ track[j.user].base \in Nat /\ track[j.user].len \in Nat /\ (Live(j) \/ Dead(j))
      /\ \A g \in j.frames : g \in heard /\ g[2] = j.user /\ g[1] = epoch
  BY <1>3, JobFacts
<1>5. PICK u \in Users, s \in Nat \ {0} : u = j.user /\ s = j.seq
  BY <1>4
<1>6. /\ DOMAIN chunk' = Users
      /\ DOMAIN chunk'[u] = DOMAIN chunk[u] \cup {s} /\ chunk'[u][s] = j.frames
      /\ \A n \in DOMAIN chunk[u] \ {s} : chunk'[u][n] = chunk[u][n]
      /\ \A v \in Users \ {u} : chunk'[v] = chunk[v]
  BY <1>1, <1>2, <1>5 DEF Shapes
<1>7. ASSUME NEW g \in j.frames \ exposed
      PROVE  s = track[u].seq /\ g \in Leading(u, track[u].len)
  <2>1. Live(j)
    BY <1>4 DEF Dead
  <2>2. g \in Leading(u, j.count) /\ g[3] \in Nat /\ j.count <= track[u].len
    BY <1>1, <1>4, <1>5, <2>1, FrameFields DEF Live, Shapes
  <2> QED BY <1>4, <1>5, <2>1, <2>2 DEF Live, Leading
<1>8. ASSUME s \in DOMAIN chunk[u], NEW g \in chunk[u][s] \ exposed
      PROVE  g \in Leading(u, track[u].len)
  <2>1. Live(j) /\ ChunksFit(u)
    BY <1>4, <1>5, <1>8 DEF Dead, IInv, Fits
  <2> QED BY <1>4, <1>5, <1>8, <2>1 DEF Live, ChunksFit
<1> QED BY <1>3, <1>5, <1>6, <1>7, <1>8

LEMMA PutLandsStep ==
    ASSUME IInv, NEW f \in Flushers, PutLands(f)
    PROVE  IInv'
<1>1. /\ Shapes /\ Flushing /\ now \in Nat /\ epoch \in Nat /\ startSeq \in Nat
      /\ UNCHANGED <<phase, epoch, now, startSeq, track, anchor, heard, forgone, exposed>>
      /\ flush' = [flush EXCEPT ![f].landed = TRUE]
  BY NowFields DEF IInv, PutLands, Recording, history
<1>2. PICK j \in flush[f].put, u \in Users, s \in Nat \ {0} :
         /\ u = j.user /\ s = j.seq /\ j \in Jobs(f)
         /\ DOMAIN chunk' = Users
         /\ DOMAIN chunk'[u] = DOMAIN chunk[u] \cup {s} /\ chunk'[u][s] = j.frames
         /\ \A n \in DOMAIN chunk[u] \ {s} : chunk'[u][n] = chunk[u][n]
         /\ \A v \in Users \ {u} : chunk'[v] = chunk[v]
         /\ \A g \in j.frames \ exposed : s = track[u].seq /\ g \in Leading(u, track[u].len)
         /\ s \in DOMAIN chunk[u] =>
               \A g \in chunk[u][s] \ exposed : g \in Leading(u, track[u].len)
  BY LandsFacts
<1>3. /\ phase # "off" /\ s <= track[u].seq /\ track[u].seq > startSeq /\ track[u].seq \in Nat
      /\ track[u].base \in Nat
      /\ \A g \in j.frames : g \in heard /\ g[2] = u /\ g[1] = epoch
  BY <1>2, JobFacts
<1>4. /\ flush' \in [Flushers -> Work]
      /\ flush'[f].todo = flush[f].todo /\ flush'[f].put = flush[f].put
      /\ \A e \in Flushers \ {f} : flush'[e] = flush[e]
  BY <1>1 DEF Shapes, Work
<1>5. Shapes'
  BY <1>1, <1>2, <1>4 DEF Shapes
<1>6. \A e \in Flushers : Jobs(e)' = Jobs(e)
  BY <1>4 DEF Jobs
<1>7. \A v \in Users : \A n : Leading(v, n)' = Leading(v, n)
  BY <1>1 DEF Leading
<1>8. ASSUME NEW e \in Flushers, NEW i \in Jobs(e), Dead(i)
      PROVE  i.user = u /\ i.seq = s => j.frames \subseteq exposed
  <2>1. SUFFICES ASSUME i.user = u, i.seq = s PROVE j.frames \subseteq exposed
    OBVIOUS
  <2>2. CASE e = f
    <3>1. i = j
      BY <1>1, <1>2, <2>1, <2>2 DEF Flushing, Singles
    <3> QED BY <1>8, <3>1 DEF Dead
  <2>3. CASE e # f
    <3>1. Dead(j)
      BY <1>1, <1>2, <2>1, <2>3 DEF Flushing, Rivals
    <3> QED BY <3>1 DEF Dead
  <2> QED BY <2>2, <2>3
<1>9. \A e \in Flushers : \A i \in Jobs(e) : Dead(i) => Dead(i)'
  <2>1. SUFFICES ASSUME NEW e \in Flushers, NEW i \in Jobs(e), Dead(i) PROVE Dead(i)'
    OBVIOUS
  <2>2. i.user \in Users
    BY <2>1, JobFacts
  <2>3. i.seq \in DOMAIN chunk'[i.user] => chunk'[i.user][i.seq] \subseteq exposed
    <3>1. CASE i.user = u /\ i.seq = s
      BY <1>2, <1>8, <2>1, <3>1
    <3>2. CASE ~(i.user = u /\ i.seq = s)
      BY <1>2, <2>1, <2>2, <3>2 DEF Dead
    <3> QED BY <3>1, <3>2
  <2>4. Leading(i.user, track[i.user].len)' = Leading(i.user, track[i.user].len)
    BY <1>1 DEF Leading
  <2> QED BY <1>1, <2>1, <2>3, <2>4 DEF Dead
<1>10. Fits'
  <2>1. ASSUME NEW v \in Users PROVE TrackFits(v)'
    BY <1>1 DEF IInv, Fits, TrackFits, AnchorFits, Present
  <2>2. ASSUME NEW v \in Users, NEW n \in DOMAIN chunk'[v]
        PROVE  /\ n \in Nat \ {0}
               /\ \A g \in chunk'[v][n] : g \in heard' /\ g[2] = v /\ g[1] <= epoch'
               /\ phase' # "off" =>
                     \A g \in chunk'[v][n] \ exposed' :
                        /\ n <= startSeq' \/ n <= track'[v].seq
                        /\ IF n = track'[v].seq THEN g \in Leading(v, track[v].len)'
                                                ELSE g[1] < epoch' \/ g[3] < track'[v].base
    <3>1. CASE v = u /\ n = s
      <4>1. chunk'[v][n] = j.frames /\ Leading(v, track[v].len)' = Leading(u, track[u].len)
        BY <1>1, <1>2, <1>7, <3>1
      <4> QED BY <1>1, <1>2, <1>3, <3>1, <4>1
    <3>2. CASE ~(v = u /\ n = s)
      <4>1. n \in DOMAIN chunk[v] /\ chunk'[v][n] = chunk[v][n]
        BY <1>2, <3>2
      <4>2. ChunksFit(v)
        BY DEF IInv, Fits
      <4>3. Leading(v, track[v].len)' = Leading(v, track[v].len)
        BY <1>1, <1>7
      <4> QED BY <1>1, <4>1, <4>2, <4>3 DEF ChunksFit
    <3> QED BY <3>1, <3>2
  <2>3. \A v \in Users : ChunksFit(v)'
    BY <2>2 DEF ChunksFit
  <2>4. ASSUME NEW e \in Flushers, NEW i \in Jobs(e)' PROVE JobFits(i)'
    <3>1. i \in Load /\ (Live(i) \/ Dead(i)) /\ i \in Jobs(e)
      BY <1>6, JobFacts
    <3>2. Live(i) => Live(i)'
      BY <1>1 DEF Live, Leading, Present
    <3> QED BY <1>9, <3>1, <3>2 DEF JobFits
  <2> QED BY <2>1, <2>3, <2>4 DEF Fits
<1>11. Quiet' /\ Singles'
  BY <1>1, <1>4, <1>6 DEF Flushing, Quiet, Singles, Flushers
<1>12. Rivals'
  BY <1>1, <1>6, <1>9, FewerUploads
<1>13. Landed'
  <2>1. SUFFICES ASSUME NEW e \in Flushers, flush'[e].landed, NEW i \in flush'[e].put
                 PROVE  Dead(i)' \/ ( /\ i.seq \in DOMAIN chunk'[i.user]
                                      /\ chunk'[i.user][i.seq] = i.frames )
    BY DEF Landed
  <2>2. CASE e = f
    <3>1. i = j
      BY <1>1, <1>2, <1>4, <2>1, <2>2 DEF Flushing, Singles
    <3> QED BY <1>2, <3>1
  <2>3. CASE e # f
    <3>1. /\ i \in Jobs(e) /\ i.user \in Users
          /\ Dead(i) \/ (i.seq \in DOMAIN chunk[i.user] /\ chunk[i.user][i.seq] = i.frames)
      <4>1. i \in Jobs(e) /\ flush[e].landed /\ i \in flush[e].put
        BY <1>4, <2>1, <2>3 DEF Jobs
      <4> QED BY <1>1, <4>1, JobFacts DEF Flushing, Landed
    <3>2. CASE Dead(i)
      BY <1>9, <3>1, <3>2
    <3>3. CASE ~Dead(i)
      <4>1. ~(i.user = u /\ i.seq = s)
        BY <1>1, <1>2, <2>3, <3>1, <3>3 DEF Flushing, Rivals
      <4> QED BY <1>2, <3>1, <3>3, <4>1
    <3> QED BY <3>2, <3>3
  <2> QED BY <2>2, <2>3
<1>14. Chronological'
  <2>1. ASSUME NEW v \in Users, NEW m \in DOMAIN chunk'[v], NEW n \in DOMAIN chunk'[v], m < n,
               NEW g \in chunk'[v][m] \ exposed, NEW h \in chunk'[v][n] \ exposed
        PROVE  Before(g, h)
    <3>1. /\ \A k \in DOMAIN chunk[v] : k \in Nat \ {0}
          /\ \A k \in DOMAIN chunk[v] : \A i \in chunk[v][k] : i \in heard /\ i[1] <= epoch
          /\ \A k \in DOMAIN chunk[v] : \A i \in chunk[v][k] \ exposed :
                /\ k <= startSeq \/ k <= track[v].seq
                /\ k # track[v].seq => i[1] < epoch \/ i[3] < track[v].base
      BY <1>3 DEF IInv, Fits, ChunksFit
    <3>2. CASE v # u
      BY <1>2, <2>1, <3>2 DEF IInv, Chronological
    <3>3. CASE v = u /\ m # s /\ n # s
      BY <1>2, <2>1, <3>3 DEF IInv, Chronological
    <3>4. CASE v = u /\ n = s /\ m # s
      <4>1. m \in DOMAIN chunk[u] /\ g \in chunk[u][m] /\ h \in j.frames
        BY <1>2, <3>4
      <4>2. s = track[u].seq /\ h \in Leading(u, track[u].len)
        BY <1>2, <2>1, <4>1
      <4>3. (g[1] < epoch \/ g[3] < track[u].base) /\ g[1] <= epoch /\ g \in heard
        BY <2>1, <3>1, <3>4, <4>1, <4>2
      <4>4. h \in heard /\ h[1] = epoch /\ track[u].base <= h[3]
        BY <4>2 DEF Leading
      <4>5. g[1] \in Nat /\ g[3] \in Nat /\ h[3] \in Nat
        BY <1>1, <4>3, <4>4, FrameFields DEF Shapes
      <4> QED BY <1>1, <1>3, <4>3, <4>4, <4>5 DEF Before
    <3>5. CASE v = u /\ m = s
      <4>1. n \in DOMAIN chunk[u] /\ n \in Nat /\ h \in chunk[u][n] \ exposed
        BY <1>2, <2>1, <3>1, <3>5
      <4>2. s = track[u].seq
        BY <1>2, <2>1, <3>5
      <4> QED BY <1>1, <1>3, <2>1, <3>1, <3>5, <4>1, <4>2
    <3> QED BY <3>2, <3>3, <3>4, <3>5
  <2> QED BY <1>1, <2>1 DEF Chronological, Before
<1>15. Kept'
  <2>1. ASSUME NEW g \in heard PROVE Held(g)' \/ Stored(g)' \/ g \in forgone' \/ g \in exposed'
    <3>1. g[2] \in Users /\ (Held(g) <=> Held(g)')
      BY <1>1, FrameFields DEF Shapes, Held
    <3>2. ASSUME Stored(g), g \notin exposed PROVE Held(g) \/ Stored(g)'
      <4>1. PICK n \in DOMAIN chunk[g[2]] : g \in chunk[g[2]][n]
        BY <3>2 DEF Stored
      <4>2. CASE g[2] = u /\ n = s
        <5>1. g \in Leading(u, track[u].len)
          BY <1>2, <3>2, <4>1, <4>2
        <5> QED BY <4>2, <5>1 DEF Held, Leading
      <4>3. CASE ~(g[2] = u /\ n = s)
        BY <1>2, <3>1, <4>1, <4>3 DEF Stored
      <4> QED BY <4>2, <4>3
    <3> QED BY <1>1, <3>1, <3>2 DEF IInv, Kept
  <2> QED BY <1>1, <2>1 DEF Kept
<1>16. Bounded'
  <2>1. PICK k \in Nat : \A v \in Users : \A n \in DOMAIN chunk[v] : n <= k
    BY DEF IInv, Bounded
  <2>2. PICK top \in Nat : k <= top /\ s <= top
    BY <1>2
  <2>3. ASSUME NEW v \in Users, NEW n \in DOMAIN chunk'[v] PROVE n <= top
    <3>1. CASE v = u /\ n = s
      BY <2>2, <3>1
    <3>2. CASE ~(v = u /\ n = s)
      <4>1. n \in DOMAIN chunk[v]
        BY <1>2, <3>2
      <4>2. n \in Nat
        BY <4>1 DEF IInv, Fits, ChunksFit
      <4> QED BY <2>1, <2>2, <4>1, <4>2
    <3> QED BY <3>1, <3>2
  <2> QED BY <2>3 DEF Bounded
<1>17. Within'
  BY <1>1 DEF IInv, Within, Past
<1> QED BY <1>5, <1>10, <1>11, <1>12, <1>13, <1>14, <1>15, <1>16, <1>17 DEF IInv, Flushing
-----------------------------------------------------------------------------
(* The upload that returns drops frames that are stored, or exposed.        *)
LEMMA ReturnsFacts ==
    ASSUME IInv, NEW f \in Flushers, flush[f].landed, NEW j \in flush[f].put,
           track[j.user].seq = j.seq, track[j.user].len >= j.count
    PROVE  /\ \A g \in Leading(j.user, j.count) : Stored(g) \/ g \in forgone \/ g \in exposed
           /\ j.seq \in DOMAIN chunk[j.user] =>
                 \A g \in chunk[j.user][j.seq] \ exposed : g \in Leading(j.user, j.count)
           /\ phase \in Open => track[j.user].base + j.count + Lateness <= Present(j.user)
<1>1. /\ Shapes /\ Flushing /\ j \in Jobs(f)
  BY DEF IInv, Jobs
<1>2. /\ j.user \in Users /\ j.count \in Nat /\ (Live(j) \/ Dead(j))
      /\ track[j.user].base \in Nat /\ track[j.user].len \in Nat
  BY <1>1, JobFacts
<1>3. CASE Dead(j)
  <2>1. \A g \in heard : g[3] \in Nat
    BY <1>1, FrameFields DEF Shapes
  <2>2. Leading(j.user, j.count) \subseteq Leading(j.user, track[j.user].len)
    BY <1>2, <2>1 DEF Leading
  <2> QED BY <1>3, <2>2 DEF Dead
<1>4. CASE ~Dead(j)
  <2>1. /\ Live(j) /\ j.seq \in DOMAIN chunk[j.user] /\ chunk[j.user][j.seq] = j.frames
    BY <1>1, <1>2, <1>4 DEF Flushing, Landed
  <2>2. ASSUME NEW g \in Leading(j.user, j.count) PROVE Stored(g) \/ g \in forgone
    <3>1. g \in j.frames \/ g \in forgone
      BY <2>1 DEF Live
    <3>2. g[2] = j.user
      BY DEF Leading
    <3> QED BY <2>1, <3>1, <3>2 DEF Stored
  <2> QED BY <2>1, <2>2 DEF Live
<1> QED BY <1>3, <1>4

(* Leading frames leave memory, and the track goes on to the next number.   *)
LEMMA TrackMoves ==
    ASSUME IInv, NEW f \in Flushers, NEW j \in flush[f].put, flush[f].landed,
           NEW u \in Users, NEW s \in Nat, NEW base \in Nat, NEW len \in Nat,
           u = j.user, s = j.seq, track[u].seq = s, track[u].len >= j.count,
           base = track[u].base + j.count, len = track[u].len - j.count,
           track' = [track EXCEPT ![u] = [base |-> base, len |-> len, seq |-> s + 1]],
           flush' = [flush EXCEPT ![f].put = {}, ![f].landed = FALSE],
           UNCHANGED <<phase, epoch, now, startSeq, anchor, chunk, heard, forgone, exposed>>
    PROVE  IInv'
<1>1. /\ Shapes /\ Flushing /\ now \in Nat /\ Lateness \in Nat /\ epoch \in Nat
      /\ startSeq \in Nat /\ j \in Jobs(f)
  BY Numbers, NowFields DEF IInv, Jobs
<1>2. /\ phase # "off" /\ j.count \in Nat \ {0} /\ s \in Nat \ {0} /\ s > startSeq
      /\ track[u].base \in Nat /\ track[u].len \in Nat
  BY <1>1, JobFacts
<1>3. /\ \A g \in Leading(u, j.count) : Stored(g) \/ g \in forgone \/ g \in exposed
      /\ s \in DOMAIN chunk[u] => \A g \in chunk[u][s] \ exposed : g \in Leading(u, j.count)
      /\ phase \in Open => track[u].base + j.count + Lateness <= Present(u)
  BY ReturnsFacts
<1>4. PICK new : new = [base |-> base, len |-> len, seq |-> s + 1]
  OBVIOUS
<1>5. new \in Slot /\ new.base = base /\ new.len = len /\ new.seq = s + 1
  BY <1>4 DEF Slot
<1>6. /\ track' \in [Users -> Slot] /\ track'[u] = new
      /\ \A v \in Users \ {u} : track'[v] = track[v]
  BY <1>1, <1>4, <1>5 DEF Shapes
<1>7. \A v \in Users \ {u} : \A n : Leading(v, n)' = Leading(v, n)
  BY <1>6 DEF Leading
<1>8. \A e \in Flushers : \A i \in Jobs(e) : Dead(i) => Dead(i)'
  <2>1. SUFFICES ASSUME NEW e \in Flushers, NEW i \in Jobs(e), Dead(i) PROVE Dead(i)'
    OBVIOUS
  <2>2. i.user \in Users /\ i.seq \in Nat /\ i.seq <= track[i.user].seq
    BY <2>1, JobFacts
  <2>3. i.seq <= track'[i.user].seq
    BY <1>2, <1>5, <1>6, <2>2
  <2>4. i.seq = track'[i.user].seq =>
           Leading(i.user, track[i.user].len)' \subseteq exposed' \cup forgone'
    <3>1. CASE i.user = u
      BY <1>2, <1>5, <1>6, <2>2, <3>1
    <3>2. CASE i.user # u
      <4>1. track'[i.user] = track[i.user]
        BY <1>6, <2>2, <3>2
      <4>2. Leading(i.user, track[i.user].len)' = Leading(i.user, track[i.user].len)
        BY <1>7, <2>2, <3>2, <4>1
      <4> QED BY <2>1, <4>1, <4>2 DEF Dead
    <3> QED BY <3>1, <3>2
  <2> QED BY <2>1, <2>3, <2>4, DeadStays DEF Dead
<1>9. PICK rest \in SUBSET Load : rest = flush[f].todo
  BY <1>1 DEF Shapes, Work
<1>10. flush' = [flush EXCEPT ![f] = [todo |-> rest, put |-> {}, landed |-> FALSE]]
  BY <1>1, <1>9, PutDoneIs
<1>11. /\ flush' \in [Flushers -> Work] /\ Flushing' /\ Jobs(f)' = rest \cup {}
       /\ \A e \in Flushers : Jobs(e)' \subseteq Jobs(e)
  <2>1. {} \in SUBSET Load /\ Jobs(f) # {} /\ rest \cap {} = {} /\ \A i, k \in {} : i = k
    BY <1>1
  <2>2. rest \cup {} \subseteq Jobs(f)
    BY <1>9 DEF Jobs
  <2> QED BY <1>1, <1>2, <1>8, <1>10, <2>1, <2>2, FlushMoves
<1>12. Shapes'
  BY <1>1, <1>6, <1>11 DEF Shapes
<1>13. ASSUME NEW v \in Users PROVE TrackFits(v)'
  <2>1. /\ TrackFits(v) /\ Present(v)' = Present(v) /\ Present(v) \in Int
        /\ track[v].base \in Nat /\ track[v].len \in Nat
    BY <1>1, TrackFields DEF IInv, Fits, Present
  <2>2. AnchorFits(v)'
    BY <2>1 DEF TrackFits, AnchorFits
  <2>3. CASE v = u
    <3>1. track'[v].seq > startSeq'
      BY <1>1, <1>2, <1>5, <1>6, <2>3
    <3>2. track'[v].base + track'[v].len <= Present(v)' + 1
      BY <1>2, <1>5, <1>6, <2>1, <2>3 DEF TrackFits
    <3>3. phase' \in Open => track'[v].base + Lateness <= Present(v)'
      BY <1>1, <1>2, <1>3, <1>5, <1>6, <2>1, <2>3
    <3> QED BY <2>2, <3>1, <3>2, <3>3 DEF TrackFits
  <2>4. CASE v # u
    BY <1>6, <2>1, <2>2, <2>4 DEF TrackFits
  <2> QED BY <2>3, <2>4
<1>14. ASSUME NEW v \in Users PROVE ChunksFit(v)'
  <2>1. ChunksFit(v)
    BY DEF IInv, Fits
  <2>2. CASE v = u
    <3>1. ASSUME NEW n \in DOMAIN chunk[u]
          PROVE  /\ n \in Nat \ {0}
                 /\ \A g \in chunk[u][n] : g \in heard /\ g[2] = u /\ g[1] <= epoch
                 /\ \A g \in chunk[u][n] \ exposed :
                       n <= s /\ (g[1] < epoch \/ g[3] < base)
      <4>1. /\ n \in Nat \ {0}
            /\ \A g \in chunk[u][n] : g \in heard /\ g[2] = u /\ g[1] <= epoch
        BY <2>1, <2>2 DEF ChunksFit
      <4>2. ASSUME NEW g \in chunk[u][n] \ exposed
            PROVE  n <= s /\ (g[1] < epoch \/ g[3] < base)
        <5>1. /\ n <= startSeq \/ n <= s
              /\ g[3] \in Nat
              /\ n # s => g[1] < epoch \/ g[3] < track[u].base
          <6>1. g \in Frame
            BY <1>1, <4>1 DEF Shapes
          <6>2. /\ n <= startSeq \/ n <= track[u].seq
                /\ n # track[u].seq => g[1] < epoch \/ g[3] < track[u].base
            BY <1>2, <2>1, <2>2 DEF ChunksFit
          <6> QED BY <6>1, <6>2, FrameFields
        <5>2. n <= s
          BY <1>1, <1>2, <4>1, <5>1
        <5>3. g[3] \in Nat
          BY <1>1, <4>1, FrameFields DEF Shapes
        <5>4. CASE n = s
          <6>1. g \in Leading(u, j.count)
            BY <1>3, <5>4
          <6> QED BY <5>2, <6>1 DEF Leading
        <5>5. CASE n # s
          BY <1>2, <5>1, <5>2, <5>3, <5>5
        <5> QED BY <5>4, <5>5
      <4> QED BY <4>1, <4>2
    <3>2. track'[u].seq = s + 1 /\ track'[u].base = base
      BY <1>5, <1>6
    <3>3. ASSUME NEW n \in DOMAIN chunk'[u]
          PROVE  /\ n \in Nat \ {0}
                 /\ \A g \in chunk'[u][n] : g \in heard' /\ g[2] = u /\ g[1] <= epoch'
                 /\ \A g \in chunk'[u][n] \ exposed' :
                       /\ n <= track'[u].seq /\ n # track'[u].seq
                       /\ g[1] < epoch' \/ g[3] < track'[u].base
      BY <3>1, <3>2
    <3> QED BY <2>2, <3>3 DEF ChunksFit
  <2>3. CASE v # u
    <3>1. track'[v] = track[v] /\ \A n : Leading(v, n)' = Leading(v, n)
      BY <1>6, <1>7, <2>3
    <3> QED BY <2>1, <3>1 DEF ChunksFit
  <2> QED BY <2>2, <2>3
<1>15. ASSUME NEW e \in Flushers, NEW i \in Jobs(e)' PROVE JobFits(i)'
  <2>1. i \in Jobs(e) /\ i \in Load /\ i.user \in Users /\ (Live(i) \/ Dead(i))
    BY <1>11, JobFacts
  <2>2. CASE Dead(i)
    BY <1>8, <2>1, <2>2 DEF JobFits
  <2>3. CASE ~Dead(i)
    <3>1. Live(i)
      BY <2>1, <2>3
    <3>2. i.user # u
      <4>1. SUFFICES ASSUME i.user = u PROVE FALSE
        OBVIOUS
      <4>2. i.seq = j.seq
        BY <3>1, <4>1 DEF Live
      <4>3. e = f
        BY <1>1, <2>1, <2>3, <4>1, <4>2 DEF Flushing, Rivals
      <4>4. i = j
        BY <1>1, <2>1, <4>1, <4>3 DEF Flushing, Singles
      <4>5. i \in flush[f].todo
        BY <1>9, <1>11, <4>3
      <4> QED BY <1>1, <4>4, <4>5 DEF Flushing, Singles
    <3>3. /\ track'[i.user] = track[i.user] /\ Present(i.user)' = Present(i.user)
          /\ Leading(i.user, i.count)' = Leading(i.user, i.count)
      BY <1>6, <1>7, <2>1, <3>2 DEF Present
    <3> QED BY <3>1, <3>3 DEF JobFits, Live
  <2> QED BY <2>2, <2>3
<1>16. Kept'
  <2>1. ASSUME NEW g \in heard PROVE Held(g)' \/ Stored(g)' \/ g \in forgone' \/ g \in exposed'
    <3>1. /\ g[2] \in Users /\ g[3] \in Nat /\ (Stored(g) <=> Stored(g)')
      BY <1>1, FrameFields DEF Shapes, Stored
    <3>2. ASSUME Held(g), g[2] = u
          PROVE  Held(g)' \/ Stored(g)' \/ g \in forgone \/ g \in exposed
      <4>1. CASE g[3] >= base
        BY <1>1, <1>2, <1>5, <1>6, <3>1, <3>2, <4>1 DEF Held
      <4>2. CASE g[3] < base
        <5>1. g \in Leading(u, j.count)
          BY <3>2, <4>2 DEF Held, Leading
        <5> QED BY <1>3, <3>1, <5>1
      <4> QED BY <3>1, <4>1, <4>2
    <3>3. ASSUME Held(g), g[2] # u PROVE Held(g)'
      BY <1>1, <1>6, <3>1, <3>3 DEF Held
    <3> QED BY <3>1, <3>2, <3>3 DEF IInv, Kept
  <2> QED BY <2>1 DEF Kept
<1>17. Chronological' /\ Bounded'
  BY DEF IInv, Chronological, Bounded
<1>18. Within'
  <2>1. \A v \in Users : Past(v)' = Past(v)
    BY <1>2, <1>5, <1>6 DEF Past
  <2>2. \A g \in heard : g[2] \in Users
    BY <1>1, FrameFields DEF Shapes
  <2> QED BY <2>1, <2>2 DEF IInv, Within
<1>19. Fits'
  BY <1>13, <1>14, <1>15 DEF Fits
<1> QED BY <1>11, <1>12, <1>16, <1>17, <1>18, <1>19 DEF IInv

LEMMA PutReturnsStep ==
    ASSUME IInv, NEW f \in Flushers, PutReturns(f)
    PROVE  IInv'
<1>1. /\ Shapes /\ flush[f].landed
      /\ UNCHANGED <<phase, epoch, now, startSeq, anchor, chunk, heard, forgone, exposed>>
      /\ flush' = [flush EXCEPT ![f].put = {}, ![f].landed = FALSE]
  BY DEF IInv, PutReturns, PutDone, Recording, history
<1>2. PICK j \in flush[f].put :
         track' = IF track[j.user].seq = j.seq /\ track[j.user].len >= j.count
                  THEN [track EXCEPT ![j.user] =
                          [base |-> track[j.user].base + j.count,
                           len |-> track[j.user].len - j.count,
                           seq |-> track[j.user].seq + 1]]
                  ELSE track
  BY DEF PutReturns
<1>3. /\ j \in Jobs(f) /\ j.user \in Users /\ j.seq \in Nat /\ j.count \in Nat
      /\ track[j.user].base \in Nat /\ track[j.user].len \in Nat
  <2>1. j \in Jobs(f)
    BY <1>2 DEF Jobs
  <2> QED BY <2>1, JobFacts
<1>4. CASE track[j.user].seq = j.seq /\ track[j.user].len >= j.count
  <2>1. PICK u \in Users, s \in Nat, base \in Nat, len \in Nat :
           /\ u = j.user /\ s = j.seq
           /\ base = track[u].base + j.count /\ len = track[u].len - j.count
    BY <1>3, <1>4
  <2>2. track' = [track EXCEPT ![u] = [base |-> base, len |-> len, seq |-> s + 1]]
    BY <1>2, <1>4, <2>1
  <2>3. track[u].seq = s /\ track[u].len >= j.count /\ j \in flush[f].put
    BY <1>2, <1>4, <2>1
  <2> QED BY <1>1, <2>1, <2>2, <2>3, TrackMoves
<1>5. CASE ~(track[j.user].seq = j.seq /\ track[j.user].len >= j.count)
  <2>1. track' = track
    BY <1>2, <1>5
  <2>2. PICK rest \in SUBSET Load : rest = flush[f].todo
    BY <1>1 DEF Shapes, Work
  <2>3. flush' = [flush EXCEPT ![f] = [todo |-> rest, put |-> {}, landed |-> FALSE]]
    BY <1>1, <2>2, PutDoneIs
  <2>4. /\ {} \in SUBSET Load /\ Jobs(f) # {} /\ rest \cup {} \subseteq Jobs(f)
        /\ rest \cap {} = {} /\ \A i, k \in {} : i = k
    BY <1>3, <2>2 DEF Jobs
  <2> QED BY <1>1, <2>1, <2>3, <2>4, PutMoves
<1> QED BY <1>4, <1>5
-----------------------------------------------------------------------------
LEMMA LargerOf ==
    ASSUME NEW a \in Int, NEW b \in Int
    PROVE  /\ Max({a, b}) \in {a, b} /\ a <= Max({a, b}) /\ b <= Max({a, b})
<1>1. \E x \in {a, b} : \A y \in {a, b} : x >= y
  <2>1. CASE a >= b
    BY <2>1
  <2>2. CASE b >= a
    BY <2>2
  <2> QED BY <2>1, <2>2
<1> QED BY <1>1 DEF Max

(* Where a packet is placed, if it is kept: neither after the slot of one   *)
(* that is sent now, nor by more than the lateness before it.               *)
LEMMA Place ==
    ASSUME IInv, NEW u \in Users, NEW when \in SendTimes, Receive(u, when),
           NEW i, i = FrameIndexFor(u, when)
    PROVE  /\ anchor' \in [Users -> [sent : Int, slot : Nat]]
           /\ \A v \in Users \ {u} : anchor'[v] = anchor[v]
           /\ track[u] # NoTrack => anchor'[u] = anchor[u]
           /\ AnchorFits(u)' /\ Present(u)' \in Nat /\ i \in Int
           /\ Accepted(u, i) => i \in Slots /\ i <= Present(u)' /\ Present(u)' <= i + Lateness
<1>1. /\ Shapes /\ TrackFits(u) /\ now \in Nat /\ now <= MaxNow /\ Lateness \in Nat
      /\ MaxNow \in Nat /\ MaxGap \in Nat /\ Wrap \in Nat /\ now' = now
      /\ when \in Int /\ now - Lateness <= when /\ when <= now
      /\ MaxGap + Lateness + 1 < Wrap
  BY Numbers, NowFields, WrapAssumption DEF IInv, Fits, Receive, MayCome, SendTimes
<1>2. /\ track[u].base \in Nat /\ track[u].len \in Nat
      /\ anchor[u].sent \in Int /\ anchor[u].slot \in Nat
  BY <1>1, TrackFields
<1>3. PICK a : a = AnchorOf(u, when)
  OBVIOUS
<1>4. anchor' = [anchor EXCEPT ![u] = a]
  BY <1>3 DEF Receive
<1>5. i = a.slot + (IF when >= a.sent THEN when - a.sent ELSE when - a.sent + Wrap)
  BY <1>3 DEF FrameIndexFor
<1>6. CASE track[u] = NoTrack
  <2>1. a = [sent |-> when, slot |-> now] /\ a.sent = when /\ a.slot = now
    BY <1>3, <1>6 DEF AnchorOf
  <2>2. /\ anchor' \in [Users -> [sent : Int, slot : Nat]] /\ anchor'[u] = a
        /\ \A v \in Users \ {u} : anchor'[v] = anchor[v]
    BY <1>1, <1>4, <2>1 DEF Shapes
  <2>3. i = now /\ Present(u)' = now + now - when
    BY <1>1, <1>5, <2>1, <2>2 DEF Present
  <2>4. AnchorFits(u)'
    BY <1>1, <2>1, <2>2 DEF AnchorFits
  <2> QED BY <1>1, <1>6, <2>2, <2>3, <2>4 DEF Slots
<1>7. CASE track[u] # NoTrack
  <2>1. a = anchor[u]
    BY <1>3, <1>7 DEF AnchorOf
  <2>2. anchor' = anchor
    BY <1>1, <1>4, <2>1 DEF Shapes
  <2>3. AnchorFits(u) /\ AnchorFits(u)' /\ Present(u)' = Present(u)
    BY <1>1, <2>2 DEF TrackFits, AnchorFits, Present
  <2>4. Present(u) = now + a.slot - a.sent /\ Present(u) \in Nat /\ Present(u) <= now + Lateness
    BY <1>1, <1>2, <2>1, <2>3 DEF Present, AnchorFits
  <2>5. i \in Int
    BY <1>1, <1>2, <1>5, <2>1
  <2>6. ASSUME Accepted(u, i)
        PROVE  i \in Slots /\ i <= Present(u) /\ Present(u) <= i + Lateness
    <3>1. /\ track[u].base <= i /\ i - track[u].base <= track[u].len + MaxGap
          /\ track[u].base + track[u].len <= Present(u) + 1
      BY <1>1, <2>6 DEF Accepted, TrackFits
    <3>2. i <= Present(u) + 1 + MaxGap
      BY <1>1, <1>2, <2>4, <2>5, <3>1
    <3>3. when >= a.sent
      BY <1>1, <1>2, <1>5, <2>1, <2>4, <3>2
    <3>4. i = a.slot + when - a.sent
      BY <1>1, <1>2, <1>5, <2>1, <3>3
    <3> QED BY <1>1, <1>2, <2>1, <2>4, <2>5, <3>1, <3>4 DEF Slots
  <2> QED BY <1>1, <2>2, <2>3, <2>4, <2>5, <2>6 DEF Shapes
<1> QED BY <1>6, <1>7

(* A packet makes the track of its speaker, or makes it longer.             *)
LEMMA TrackGrows ==
    ASSUME IInv, NEW u \in Users, NEW when \in SendTimes, Receive(u, when)
    PROVE  \E b \in Nat, l \in Nat, s \in Nat :
              /\ track' = [track EXCEPT ![u] = [base |-> b, len |-> l, seq |-> s]]
              /\ b = track[u].base /\ track[u].len <= l /\ b + l <= Present(u)' + 1
              /\ s > startSeq
              /\ \/ track[u] # NoTrack /\ s = track[u].seq
                 \/ track[u] = NoTrack /\ s = startSeq + 1
              /\ \/ heard' = heard /\ forgone' = forgone
                 \/ \E i \in Slots :
                       /\ heard' = heard \cup {<<epoch, u, i>>}
                       /\ b <= i /\ i < b + l /\ Present(u)' <= i + Lateness
                       /\ forgone' \in {forgone, forgone \cup {<<epoch, u, i>>}}
                       /\ phase \notin Open => <<epoch, u, i>> \in forgone'
<1>1. /\ Shapes /\ TrackFits(u) /\ startSeq \in Nat /\ Present(u) \in Int
      /\ Lateness \in Nat
  BY Numbers, NowFields, TrackFields DEF IInv, Fits
<1>2. PICK i : i = FrameIndexFor(u, when)
  OBVIOUS
<1>3. /\ Present(u)' \in Nat /\ i \in Int
      /\ track[u] # NoTrack => anchor'[u] = anchor[u]
      /\ Accepted(u, i) => i \in Slots /\ i <= Present(u)' /\ Present(u)' <= i + Lateness
  BY <1>2, Place
<1>4. PICK t : t = IF track[u] = NoTrack THEN [NoTrack EXCEPT !.seq = startSeq + 1]
                                         ELSE track[u]
  OBVIOUS
<1>5. /\ t \in Slot /\ t.base = track[u].base /\ t.len = track[u].len /\ t.seq > startSeq
      /\ t.base + t.len <= Present(u)' + 1
      /\ \/ track[u] # NoTrack /\ t.seq = track[u].seq
         \/ track[u] = NoTrack /\ t.seq = startSeq + 1
  <2>1. CASE track[u] = NoTrack
    <3>1. t = [base |-> 0, len |-> 0, seq |-> startSeq + 1]
      BY <1>4, <2>1 DEF NoTrack
    <3> QED BY <1>1, <1>3, <2>1, <3>1 DEF Slot, NoTrack
  <2>2. CASE track[u] # NoTrack
    <3>1. Present(u)' = Present(u)
      BY <1>3, <2>2 DEF Present, Receive
    <3> QED BY <1>1, <1>4, <2>2, <3>1 DEF Shapes, TrackFits
  <2> QED BY <2>1, <2>2
<1>6. /\ t.base \in Nat /\ t.len \in Nat /\ t.seq \in Nat
      /\ t = [base |-> t.base, len |-> t.len, seq |-> t.seq]
  BY <1>5 DEF Slot
<1>7. /\ phase \in {"capturing", "stopping", "exiting"}
      /\ IF Accepted(u, i)
         THEN /\ track' = [track EXCEPT ![u] = [t EXCEPT !.len = Max({t.len, i - t.base + 1})]]
              /\ heard' = heard \cup {<<epoch, u, i>>}
              /\ forgone' = IF phase = "exiting" THEN forgone \cup {<<epoch, u, i>>}
                                                 ELSE forgone
         ELSE track' = [track EXCEPT ![u] = t] /\ UNCHANGED <<heard, forgone>>
  BY <1>2, <1>4 DEF Receive
<1>8. CASE ~Accepted(u, i)
  <2>1. track' = [track EXCEPT ![u] = [base |-> t.base, len |-> t.len, seq |-> t.seq]]
    BY <1>6, <1>7, <1>8
  <2>2. track[u].len <= t.len
    BY <1>5, <1>6
  <2> QED BY <1>5, <1>6, <1>7, <1>8, <2>1, <2>2
<1>9. CASE Accepted(u, i)
  <2>1. /\ i \in Slots /\ i \in Int /\ i <= Present(u)' /\ Present(u)' <= i + Lateness
        /\ t.base <= i
    BY <1>3, <1>5, <1>6, <1>9 DEF Accepted
  <2>2. PICK l \in Nat : l = Max({t.len, i - t.base + 1})
    <3>1. i - t.base + 1 \in Nat /\ t.len \in Int /\ i - t.base + 1 \in Int
      BY <1>6, <2>1
    <3>2. Max({t.len, i - t.base + 1}) \in {t.len, i - t.base + 1}
      BY <3>1, LargerOf, Zenon
    <3> QED BY <1>6, <3>1, <3>2
  <2>3. t.len <= l /\ i - t.base + 1 <= l /\ (l = t.len \/ l = i - t.base + 1)
    <3>1. t.len \in Int /\ i - t.base + 1 \in Int
      BY <1>6, <2>1
    <3> QED BY <2>2, <3>1, LargerOf
  <2>4. PICK new : new = [t EXCEPT !.len = l]
    OBVIOUS
  <2>5. new \in Slot /\ new.base = t.base /\ new.len = l /\ new.seq = t.seq
    BY <1>5, <2>2, <2>4 DEF Slot
  <2>6. new = [base |-> t.base, len |-> l, seq |-> t.seq]
    BY <2>5 DEF Slot
  <2>7. track' = [track EXCEPT ![u] = [base |-> t.base, len |-> l, seq |-> t.seq]]
    BY <1>7, <1>9, <2>2, <2>4, <2>6
  <2>8. /\ track[u].len <= l /\ t.base + l <= Present(u)' + 1 /\ t.base <= i /\ i < t.base + l
    BY <1>3, <1>5, <1>6, <2>1, <2>3
  <2>9. /\ heard' = heard \cup {<<epoch, u, i>>}
        /\ forgone' \in {forgone, forgone \cup {<<epoch, u, i>>}}
        /\ phase \notin Open => <<epoch, u, i>> \in forgone'
    BY <1>7, <1>9 DEF Open
  <2> QED BY <1>5, <1>6, <2>1, <2>7, <2>8, <2>9
<1> QED BY <1>8, <1>9

LEMMA ReceiveStep ==
    ASSUME IInv, NEW u \in Users, NEW when \in SendTimes, Receive(u, when)
    PROVE  IInv'
<1>1. /\ Shapes /\ Flushing /\ now \in Nat /\ Lateness \in Nat
      /\ epoch \in Nat /\ epoch \in 1..MaxEpochs /\ startSeq \in Nat /\ MaxNow \in Nat
      /\ UNCHANGED <<phase, epoch, now, startSeq, chunk, flush, exposed>>
      /\ forgone \subseteq forgone' /\ phase # "off"
  BY Numbers, NowFields DEF IInv, Shapes, Receive
<1>2. PICK b \in Nat, l \in Nat, s \in Nat :
         /\ track' = [track EXCEPT ![u] = [base |-> b, len |-> l, seq |-> s]]
         /\ b = track[u].base /\ track[u].len <= l /\ b + l <= Present(u)' + 1
         /\ s > startSeq
         /\ \/ track[u] # NoTrack /\ s = track[u].seq
            \/ track[u] = NoTrack /\ s = startSeq + 1
         /\ \/ heard' = heard /\ forgone' = forgone
            \/ \E i \in Slots :
                  /\ heard' = heard \cup {<<epoch, u, i>>}
                  /\ b <= i /\ i < b + l /\ Present(u)' <= i + Lateness
                  /\ forgone' \in {forgone, forgone \cup {<<epoch, u, i>>}}
                  /\ phase \notin Open => <<epoch, u, i>> \in forgone'
  BY TrackGrows
<1>3. /\ anchor' \in [Users -> [sent : Int, slot : Nat]]
      /\ \A v \in Users \ {u} : anchor'[v] = anchor[v]
      /\ track[u] # NoTrack => anchor'[u] = anchor[u]
      /\ AnchorFits(u)' /\ Present(u)' \in Nat
  BY Place
<1>4. /\ track' \in [Users -> Slot]
      /\ track'[u].base = b /\ track'[u].len = l /\ track'[u].seq = s
      /\ \A v \in Users \ {u} : track'[v] = track[v]
  <2>1. [base |-> b, len |-> l, seq |-> s] \in Slot
    BY DEF Slot
  <2> QED BY <1>1, <1>2, <2>1 DEF Shapes
<1>5. /\ heard \subseteq heard' /\ heard' \subseteq Frame
      /\ \A g \in heard' \ heard :
            /\ g[1] = epoch /\ g[2] = u /\ g[3] \in Nat
            /\ b <= g[3] /\ g[3] < b + l /\ Present(u)' <= g[3] + Lateness
            /\ phase \notin Open => g \in forgone'
  <2>1. CASE heard' = heard
    BY <1>1, <2>1 DEF Shapes
  <2>2. CASE \E i \in Slots :
               /\ heard' = heard \cup {<<epoch, u, i>>}
               /\ b <= i /\ i < b + l /\ Present(u)' <= i + Lateness
               /\ forgone' \in {forgone, forgone \cup {<<epoch, u, i>>}}
               /\ phase \notin Open => <<epoch, u, i>> \in forgone'
    <3>1. PICK i \in Slots :
             /\ heard' = heard \cup {<<epoch, u, i>>}
             /\ b <= i /\ i < b + l /\ Present(u)' <= i + Lateness
             /\ phase \notin Open => <<epoch, u, i>> \in forgone'
      BY <2>2
    <3>2. <<epoch, u, i>> \in Frame /\ i \in Nat
      BY <1>1 DEF Frame, Slots
    <3> QED BY <1>1, <3>1, <3>2 DEF Shapes
  <2> QED BY <1>2, <2>1, <2>2
<1>6. Shapes'
  BY <1>1, <1>3, <1>4, <1>5 DEF Shapes
<1>7. \A v \in Users : /\ track'[v].base = track[v].base
                       /\ track[v].base \in Nat /\ track[v].len \in Nat /\ track[v].seq \in Nat
                       /\ track'[v].len \in Nat /\ track[v].len <= track'[v].len
                       /\ track[v] # NoTrack => /\ track'[v].seq = track[v].seq
                                                /\ Present(v)' = Present(v)
  BY <1>1, <1>2, <1>3, <1>4, TrackFields DEF Present
<1>8. ASSUME NEW v \in Users PROVE TrackFits(v)'
  <2>1. TrackFits(v)
    BY DEF IInv, Fits
  <2>2. CASE v = u
    <3>1. track'[v].seq > startSeq' /\ track'[v].base + track'[v].len <= Present(v)' + 1
      BY <1>1, <1>2, <1>4, <2>2
    <3>2. phase' \in Open => track'[v].base = 0 \/ track'[v].base + Lateness <= Present(v)'
      <4>1. CASE track[v] = NoTrack
        BY <1>7, <4>1 DEF NoTrack
      <4>2. CASE track[v] # NoTrack
        BY <1>1, <1>7, <2>1, <4>2 DEF TrackFits
      <4> QED BY <4>1, <4>2
    <3> QED BY <1>3, <2>2, <3>1, <3>2 DEF TrackFits
  <2>3. CASE v # u
    <3>1. Present(v)' = Present(v) /\ AnchorFits(v)' /\ track'[v] = track[v]
      BY <1>1, <1>3, <1>4, <2>1, <2>3 DEF Present, TrackFits, AnchorFits
    <3> QED BY <1>1, <2>1, <3>1 DEF TrackFits
  <2> QED BY <2>2, <2>3
<1>9. \A g \in heard : g[1] \in Nat /\ g[2] \in Users /\ g[3] \in Nat
  BY <1>1, FrameFields DEF Shapes
<1>10. ASSUME NEW v \in Users, NEW m \in Nat, NEW n \in Nat, m <= n
       PROVE  Leading(v, m) \subseteq Leading(v, n)'
  BY <1>1, <1>5, <1>7, <1>9, <1>10 DEF Leading
<1>11. ASSUME NEW v \in Users PROVE ChunksFit(v)'
  <2>1. ChunksFit(v)
    BY DEF IInv, Fits
  <2>2. CASE track[v] # NoTrack
    <3>1. track'[v].seq = track[v].seq /\ track'[v].base = track[v].base
      BY <1>7, <2>2
    <3>2. Leading(v, track[v].len) \subseteq Leading(v, track[v].len)'
      BY <1>7, <1>10
    <3>3. ASSUME NEW n \in DOMAIN chunk'[v]
          PROVE  /\ n \in Nat \ {0}
                 /\ \A g \in chunk'[v][n] : g \in heard' /\ g[2] = v /\ g[1] <= epoch'
                 /\ \A g \in chunk'[v][n] \ exposed' :
                       /\ n <= startSeq' \/ n <= track'[v].seq
                       /\ IF n = track'[v].seq THEN g \in Leading(v, track[v].len)'
                                               ELSE g[1] < epoch' \/ g[3] < track'[v].base
      <4>1. n \in DOMAIN chunk[v] /\ chunk'[v][n] = chunk[v][n]
        BY <1>1
      <4> QED BY <1>1, <1>5, <2>1, <3>1, <3>2, <4>1 DEF ChunksFit
    <3> QED BY <3>3 DEF ChunksFit
  <2>3. CASE track[v] = NoTrack
    <3>1. track[v].seq = 0 /\ track[v].base = 0
      BY <2>3 DEF NoTrack
    <3>2. ASSUME NEW n \in DOMAIN chunk[v]
          PROVE  /\ n \in Nat \ {0}
                 /\ \A g \in chunk[v][n] : g \in heard /\ g[2] = v /\ g[1] <= epoch
                 /\ \A g \in chunk[v][n] \ exposed : n <= startSeq /\ g[1] < epoch
      <4>1. /\ n \in Nat \ {0}
            /\ \A g \in chunk[v][n] : g \in heard /\ g[2] = v /\ g[1] <= epoch
        BY <2>1 DEF ChunksFit
      <4>2. \A g \in chunk[v][n] \ exposed : n <= startSeq /\ (g[1] < epoch \/ g[3] < 0)
        BY <1>1, <2>1, <3>1, <4>1 DEF ChunksFit
      <4> QED BY <1>9, <4>1, <4>2
    <3>3. track'[v].seq > startSeq \/ track'[v].seq = 0
      BY <1>2, <1>4, <3>1
    <3>4. \A n \in Nat \ {0} : n <= startSeq => n # track'[v].seq
      BY <1>1, <3>3
    <3>5. ASSUME NEW n \in DOMAIN chunk'[v]
          PROVE  /\ n \in Nat \ {0}
                 /\ \A g \in chunk'[v][n] : g \in heard' /\ g[2] = v /\ g[1] <= epoch'
                 /\ \A g \in chunk'[v][n] \ exposed' :
                       n <= startSeq' /\ n # track'[v].seq /\ g[1] < epoch'
      BY <1>1, <1>5, <3>2, <3>4
    <3> QED BY <3>5 DEF ChunksFit
  <2> QED BY <2>2, <2>3
<1>12. ASSUME NEW f \in Flushers, NEW j \in Jobs(f)
       PROVE  (Live(j) => Live(j)') /\ (Dead(j) => Dead(j)')
  <2>1. /\ j.user \in Users /\ j.seq \in Nat \ {0} /\ j.count \in Nat \ {0}
        /\ track[j.user].seq > startSeq /\ \A g \in j.frames : g[1] = epoch /\ g[2] = j.user
    BY JobFacts
  <2>2. track[j.user] # NoTrack
    BY <1>1, <2>1 DEF NoTrack
  <2>3. /\ track'[j.user].seq = track[j.user].seq /\ track'[j.user].base = track[j.user].base
        /\ Present(j.user)' = Present(j.user) /\ Present(j.user) \in Int
        /\ track[j.user].len \in Nat /\ track'[j.user].len \in Nat
        /\ track[j.user].len <= track'[j.user].len /\ track[j.user].base \in Nat
    BY <1>1, <1>7, <2>1, <2>2, TrackFields
  <2>4. ASSUME Live(j) PROVE Live(j)'
    <3>1. j.seq = track'[j.user].seq /\ j.count <= track'[j.user].len
      BY <2>1, <2>3, <2>4 DEF Live
    <3>2. j.frames \subseteq Leading(j.user, j.count)'
      <4>1. Leading(j.user, j.count) \subseteq Leading(j.user, j.count)'
        BY <1>10, <2>1
      <4> QED BY <2>4, <4>1 DEF Live
    <3>3. phase' \in Open => track'[j.user].base + j.count + Lateness <= Present(j.user)'
      BY <1>1, <2>3, <2>4 DEF Live
    <3>4. ASSUME NEW g \in Leading(j.user, j.count)' PROVE g \in j.frames \/ g \in forgone'
      <4>1. /\ g \in heard' /\ g[1] = epoch /\ g[2] = j.user
            /\ track[j.user].base <= g[3] /\ g[3] < track[j.user].base + j.count
        BY <1>1, <2>3, <3>4 DEF Leading
      <4>2. CASE g \in heard
        <5>1. g \in Leading(j.user, j.count)
          BY <4>1, <4>2 DEF Leading
        <5> QED BY <1>1, <2>4, <5>1 DEF Live
      <4>3. CASE g \notin heard
        <5>1. phase \notin Open => g \in forgone'
          BY <1>5, <4>1, <4>3
        <5>2. phase \in Open => FALSE
          BY <1>1, <1>5, <2>1, <2>3, <2>4, <4>1, <4>3 DEF Live
        <5> QED BY <5>1, <5>2
      <4> QED BY <4>2, <4>3
    <3> QED BY <3>1, <3>2, <3>3, <3>4 DEF Live
  <2>5. ASSUME Dead(j) PROVE Dead(j)'
    <3>1. phase' \notin Open /\ phase \notin Open
      BY <1>1, <2>5 DEF Dead
    <3>2. ASSUME j.seq = track[j.user].seq, NEW g \in Leading(j.user, track[j.user].len)'
          PROVE  g \in exposed' \cup forgone'
      <4>1. /\ g \in heard' /\ g[1] = epoch /\ g[2] = j.user /\ track[j.user].base <= g[3]
        BY <1>1, <2>3, <3>2 DEF Leading
      <4>2. CASE g \in heard
        <5>1. g[3] < track[j.user].base + track[j.user].len
          BY <1>1, <4>1, <4>2 DEF IInv, Within, Past
        <5>2. g \in Leading(j.user, track[j.user].len)
          BY <4>1, <4>2, <5>1 DEF Leading
        <5> QED BY <1>1, <2>5, <3>2, <5>2 DEF Dead
      <4>3. CASE g \notin heard
        BY <1>5, <3>1, <4>1, <4>3
      <4> QED BY <4>2, <4>3
    <3> QED BY <1>1, <1>5, <2>3, <2>5, <3>1, <3>2, DeadStays DEF Dead
  <2> QED BY <2>4, <2>5
<1>13. \A f \in Flushers : Jobs(f)' = Jobs(f)
  BY <1>1 DEF Jobs
<1>14. Flushing'
  <2>1. Quiet' /\ Singles'
    BY <1>1, <1>13 DEF Flushing, Quiet, Singles, Flushers
  <2>2. Rivals'
    BY <1>1, <1>12, <1>13, FewerUploads
  <2>3. Landed'
    BY <1>1, <1>12 DEF Flushing, Landed, Jobs
  <2> QED BY <2>1, <2>2, <2>3 DEF Flushing
<1>15. \A f \in Flushers : \A j \in Jobs(f)' : JobFits(j)'
  BY <1>12, <1>13 DEF IInv, Fits, JobFits
<1>16. Chronological' /\ Bounded'
  BY <1>1 DEF IInv, Chronological, Bounded
<1>17. ASSUME NEW g \in heard'
       PROVE  /\ Held(g)' \/ Stored(g)' \/ g \in forgone' \/ g \in exposed'
              /\ g[1] <= epoch' /\ (phase' # "off" /\ g[1] = epoch' => g[3] < Past(g[2])')
  <2>1. CASE g \in heard
    <3>1. /\ Held(g) \/ Stored(g) \/ g \in forgone \/ g \in exposed
          /\ g[1] <= epoch /\ (g[1] = epoch => g[3] < Past(g[2]))
      BY <1>1, <2>1 DEF IInv, Kept, Within
    <3>2. /\ g[2] \in Users /\ g[3] \in Nat
          /\ track'[g[2]].base = track[g[2]].base /\ track[g[2]].base \in Nat
          /\ track[g[2]].len \in Nat /\ track'[g[2]].len \in Nat
          /\ track[g[2]].len <= track'[g[2]].len
      BY <1>7, <1>9, <2>1
    <3>3. Held(g) => Held(g)'
      BY <1>1, <3>2 DEF Held
    <3>4. Stored(g) => Stored(g)'
      BY <1>1 DEF Stored
    <3>5. g[3] < Past(g[2]) => g[3] < Past(g[2])'
      BY <3>2 DEF Past
    <3> QED BY <1>1, <3>1, <3>3, <3>4, <3>5
  <2>2. CASE g \notin heard
    BY <1>1, <1>4, <1>5, <2>2 DEF Held, Past
  <2> QED BY <2>1, <2>2
<1>18. Kept' /\ Within'
  BY <1>17 DEF Kept, Within
<1>19. Fits'
  BY <1>8, <1>11, <1>15 DEF Fits
<1> QED BY <1>6, <1>14, <1>16, <1>18, <1>19 DEF IInv
-----------------------------------------------------------------------------
(* The process ends: what was in memory is given up. *)
LEMMA EndsStep ==
    ASSUME IInv, Exit \/ Crash
    PROVE  IInv'
<1>1. /\ Shapes /\ now \in Nat
      /\ UNCHANGED <<epoch, now, startSeq, anchor, chunk, heard, exposed>> /\ phase' = "off"
      /\ forgone' = forgone \cup InMemory
      /\ track' = [u \in Users |-> NoTrack] /\ flush' = [f \in Flushers |-> Resting]
  BY NowFields DEF IInv, Exit, Crash, Recording
<1>2. /\ \A u \in Users : track'[u] = NoTrack
      /\ \A f \in Flushers : flush'[f].todo = {} /\ flush'[f].put = {} /\ ~flush'[f].landed
  BY <1>1 DEF Resting
<1>3. Shapes'
  <2>1. NoTrack \in Slot
    BY DEF NoTrack, Slot
  <2>2. track' \in [Users -> Slot]
    BY <1>1, <2>1
  <2>3. Resting \in Work
    BY DEF Resting, Work
  <2>4. flush' \in [Flushers -> Work]
    BY <1>1, <2>3
  <2> QED BY <1>1, <2>2, <2>4 DEF Shapes, Phases
<1>4. \A f \in Flushers : Jobs(f)' = {}
  BY <1>2 DEF Jobs
<1>5. Flushing'
  BY <1>1, <1>2, <1>4 DEF Flushing, Quiet, Singles, Rivals, Landed, Flushers, Open
<1>6. ASSUME NEW u \in Users PROVE TrackFits(u)'
  <2>1. AnchorFits(u) /\ Present(u)' = Present(u) /\ anchor[u].sent \in Int /\ anchor[u].slot \in Nat
    BY <1>1, TrackFields DEF IInv, Fits, TrackFits, Present
  <2>2. AnchorFits(u)' /\ 0 <= Present(u)' + 1
    BY <1>1, <2>1 DEF AnchorFits, Present
  <2> QED BY <1>1, <1>2, <2>2 DEF TrackFits, NoTrack, Open
<1>7. \A u \in Users : ChunksFit(u)'
  BY <1>1 DEF IInv, Fits, ChunksFit
<1>8. Fits'
  BY <1>4, <1>6, <1>7 DEF Fits
<1>9. Kept'
  <2>1. ASSUME NEW g \in heard, Held(g) PROVE g \in InMemory
    <3>1. g[2] \in Users /\ g[3] \in Nat
      BY <1>1, FrameFields DEF Shapes
    <3>2. g \in Leading(g[2], track[g[2]].len)
      BY <2>1 DEF Held, Leading
    <3> QED BY <3>1, <3>2 DEF InMemory
  <2> QED BY <1>1, <2>1 DEF IInv, Kept, Stored
<1>10. Chronological' /\ Bounded' /\ Within'
  BY <1>1 DEF IInv, Chronological, Bounded, Within
<1> QED BY <1>3, <1>5, <1>8, <1>9, <1>10 DEF IInv

LEMMA MaxOfNumbers ==
    ASSUME NEW k \in Nat, NEW S \in SUBSET (0..k), NEW top \in S
    PROVE  Max(S) \in S /\ top <= Max(S)
<1> DEFINE T == {k - x : x \in S}
<1>1. T \subseteq Nat /\ k - top \in T
  OBVIOUS
<1>2. PICK m \in T : \A q \in T : ~ (<<q, m>> \in OpToRel(<, Nat))
  BY <1>1, NatLessThanWellFounded, WFMin
<1>3. PICK x \in S : m = k - x
  BY <1>2
<1>4. ASSUME NEW y \in S PROVE x >= y
  <2>1. k - y \in T
    OBVIOUS
  <2>2. <<k - y, m>> \in OpToRel(<, Nat) <=> k - y < m
    BY <1>1, <1>2, <2>1, Zenon DEF OpToRel
  <2>3. ~ (k - y < k - x)
    BY <1>2, <1>3, <2>1, <2>2, Zenon
  <2>4. x \in 0..k /\ y \in 0..k
    OBVIOUS
  <2>5. x \in Int /\ y \in Int /\ k \in Int
    BY <2>4
  <2> HIDE DEF T
  <2> QED BY <2>3, <2>5
<1> QED BY <1>4 DEF Max

(* The numbering goes on after every chunk of the session. *)
LEMMA LastSeqIsLast ==
    ASSUME IInv
    PROVE  LastSeq \in Nat /\ \A u \in Users : \A n \in DOMAIN chunk[u] : n <= LastSeq
<1>1. PICK k \in Nat : \A u \in Users : \A n \in DOMAIN chunk[u] : n <= k
  BY DEF IInv, Bounded
<1>2. \A u \in Users : \A n \in DOMAIN chunk[u] : n \in Nat
  BY DEF IInv, Fits, ChunksFit
<1>3. PICK S : S = {0} \cup UNION {DOMAIN chunk[u] : u \in Users}
  OBVIOUS
<1>4. S \in SUBSET (0..k) /\ 0 \in S
  BY <1>1, <1>2, <1>3
<1>5. LastSeq = Max(S)
  BY <1>3 DEF LastSeq
<1>6. \A top \in S : Max(S) \in S /\ top <= Max(S)
  BY <1>4, MaxOfNumbers
<1>7. \A u \in Users : \A n \in DOMAIN chunk[u] : n \in S
  BY <1>3
<1>8. PICK last : last = LastSeq
  OBVIOUS
<1>9. last \in S /\ \A top \in S : top <= last
  BY <1>4, <1>5, <1>6, <1>8
<1>10. last \in Nat
  BY <1>4, <1>9
<1> QED BY <1>7, <1>8, <1>9, <1>10

LEMMA ResumeStep ==
    ASSUME IInv, ResumeActive
    PROVE  IInv'
<1>1. /\ Shapes /\ Flushing /\ phase = "off" /\ epoch < MaxEpochs /\ phase' = "capturing"
      /\ epoch \in Nat /\ epoch \in 1..MaxEpochs /\ epoch' = epoch + 1 /\ now' = 0
      /\ MaxEpochs \in Nat /\ MaxNow \in Nat /\ Lateness \in Nat
      /\ startSeq' \in {0, LastSeq} /\ anchor' = [u \in Users |-> Origin]
      /\ exposed' = IF startSeq' < LastSeq THEN exposed \cup InStore ELSE exposed
      /\ UNCHANGED <<track, chunk, flush, heard, forgone>>
  BY Numbers, NowFields DEF IInv, Shapes, ResumeActive, Counted
<1>2. LastSeq \in Nat /\ \A u \in Users : \A n \in DOMAIN chunk[u] : n <= LastSeq
  BY LastSeqIsLast
<1>3. /\ exposed \subseteq exposed'
      /\ startSeq' < LastSeq =>
            \A u \in Users : \A n \in DOMAIN chunk[u] : chunk[u][n] \subseteq exposed'
  BY <1>1 DEF InStore, Range
<1>4. \A u \in Users : \A n \in DOMAIN chunk[u] :
         /\ n \in Nat \ {0}
         /\ \A g \in chunk[u][n] :
               g \in heard /\ g \in Frame /\ g[2] = u /\ g[1] \in Nat /\ g[1] <= epoch
  <2>1. \A g \in heard : g \in Frame /\ g[1] \in Nat
    BY <1>1, FrameFields DEF Shapes
  <2> QED BY <2>1 DEF IInv, Fits, ChunksFit
<1>5. Shapes'
  <2>1. InStore \subseteq Frame
    BY <1>4 DEF InStore, Range
  <2>2. anchor' \in [Users -> [sent : Int, slot : Nat]]
    BY <1>1 DEF Origin
  <2> QED BY <1>1, <1>2, <2>1, <2>2 DEF Shapes, Phases, Times
<1>6. /\ \A f \in Flushers : Jobs(f) = {} /\ Jobs(f)' = {}
      /\ \A u \in Users : track[u] = NoTrack
  BY <1>1 DEF Flushing, Quiet, Flushers, Jobs
<1>7. Flushing'
  BY <1>1, <1>6 DEF Flushing, Quiet, Singles, Rivals, Landed, Flushers, Open, Jobs
<1>8. ASSUME NEW u \in Users PROVE TrackFits(u)'
  <2>1. anchor'[u].sent = 0 /\ anchor'[u].slot = 0 /\ Present(u)' = 0
    BY <1>1 DEF Origin, Present
  <2>2. track'[u] = NoTrack
    BY <1>1, <1>6
  <2> QED BY <1>1, <2>1, <2>2 DEF TrackFits, AnchorFits, NoTrack
<1>9. ASSUME NEW u \in Users PROVE ChunksFit(u)'
  <2>1. ASSUME NEW n \in DOMAIN chunk[u]
        PROVE  \A g \in chunk[u][n] \ exposed' : n <= startSeq'
    BY <1>1, <1>2, <1>3, <1>4
  <2>2. track'[u].seq = 0
    BY <1>1, <1>6 DEF NoTrack
  <2> QED BY <1>1, <1>4, <2>1, <2>2 DEF ChunksFit
<1>10. Fits'
  BY <1>6, <1>8, <1>9 DEF Fits
<1>11. Kept'
  <2>1. ASSUME NEW g \in heard PROVE ~Held(g)
    <3>1. g[2] \in Users /\ g[3] \in Nat
      BY <1>1, FrameFields DEF Shapes
    <3> QED BY <1>6, <3>1 DEF Held, NoTrack
  <2> QED BY <1>1, <1>3, <2>1 DEF IInv, Kept, Stored
<1>12. Within'
  <2>1. \A g \in heard : g[1] \in Nat /\ g[1] <= epoch
    BY <1>1, FrameFields DEF Shapes, IInv, Within
  <2> QED BY <1>1, <2>1 DEF Within
<1>13. Chronological'
  BY <1>1, <1>3 DEF IInv, Chronological, Before
<1>14. Bounded'
  BY <1>1 DEF IInv, Bounded
<1> QED BY <1>5, <1>7, <1>10, <1>11, <1>12, <1>13, <1>14 DEF IInv
-----------------------------------------------------------------------------
LEMMA InitInv ==
    ASSUME Init
    PROVE  IInv
<1>1. /\ \A u \in Users : track[u] = NoTrack /\ DOMAIN chunk[u] = {} /\ anchor[u] = Origin
      /\ \A f \in Flushers : flush[f].todo = {} /\ flush[f].put = {} /\ ~flush[f].landed
      /\ \A f \in Flushers : Jobs(f) = {}
  BY DEF Init, Resting, Jobs
<1>2. Shapes
  <2>1. NoTrack \in Slot /\ Resting \in Work /\ Origin \in [sent : Int, slot : Nat]
    BY DEF NoTrack, Slot, Resting, Work, Origin
  <2>2. 1 \in 1..MaxEpochs /\ 0 \in Times
    BY RecorderBounds DEF Times
  <2> QED BY <2>1, <2>2 DEF Init, Shapes, Phases
<1>3. Fits
  <2>1. \A u \in Users : AnchorFits(u) /\ Present(u) = 0
    BY <1>1, Numbers DEF Init, AnchorFits, Present, Origin
  <2> QED BY <1>1, <2>1 DEF Init, Fits, TrackFits, ChunksFit, NoTrack
<1>4. Flushing
  BY <1>1 DEF Init, Flushing, Quiet, Singles, Rivals, Landed, Flushers, Open
<1>5. Chronological /\ Kept /\ Within
  BY <1>1 DEF Init, Chronological, Kept, Within
<1>6. Bounded
  <2>1. 0 \in Nat /\ \A u \in Users : \A n \in DOMAIN chunk[u] : n <= 0
    BY <1>1
  <2> QED BY <2>1 DEF Bounded
<1> QED BY <1>2, <1>3, <1>4, <1>5, <1>6 DEF IInv

LEMMA Unchanged ==
    ASSUME IInv, UNCHANGED vars
    PROVE  IInv'
<1>1. /\ UNCHANGED <<phase, epoch, now, startSeq, track, anchor, chunk, flush>>
      /\ UNCHANGED <<heard, forgone, exposed>>
  BY DEF vars, history
<1>2. Shapes' /\ Chronological' /\ Bounded' /\ Kept' /\ Within'
  BY <1>1 DEF IInv, Shapes, Chronological, Bounded, Kept, Held, Stored, Within, Past
<1>3. \A u \in Users : TrackFits(u)' /\ ChunksFit(u)'
  BY <1>1 DEF IInv, Fits, TrackFits, AnchorFits, Present, ChunksFit, Leading
<1>4. \A j : (Live(j) <=> Live(j)') /\ (Dead(j) <=> Dead(j)')
  BY <1>1 DEF Live, Dead, Present, Leading
<1>5. \A f \in Flushers : Jobs(f)' = Jobs(f)
  BY <1>1 DEF Jobs
<1>6. Fits'
  BY <1>3, <1>4, <1>5 DEF IInv, Fits, JobFits
<1>7. Flushing'
  <2>1. Quiet' /\ Singles'
    BY <1>1, <1>5 DEF IInv, Flushing, Quiet, Singles, Flushers
  <2>2. Rivals' /\ Landed'
    BY <1>1, <1>4, <1>5 DEF IInv, Flushing, Rivals, Landed
  <2> QED BY <2>1, <2>2 DEF Flushing
<1> QED BY <1>2, <1>6, <1>7 DEF IInv

LEMMA StepInv ==
    ASSUME IInv, [Next]_vars
    PROVE  IInv'
<1>1. CASE UNCHANGED vars
  BY <1>1, Unchanged
<1>2. CASE Tick
  BY <1>2, TickStep
<1>3. CASE Stop \/ StopReturns \/ LoopEnds
  BY <1>3, StopStep
<1>4. CASE Checkpoint \/ LastFlush
  BY <1>4, SnapshotStep
<1>5. CASE Exit \/ Crash
  BY <1>5, EndsStep
<1>6. CASE ResumeActive
  BY <1>6, ResumeStep
<1>7. CASE \E u \in Users, when \in SendTimes : Receive(u, when)
  BY <1>7, ReceiveStep
<1>8. CASE \E f \in Flushers : PutStarts(f) \/ PutLands(f) \/ PutReturns(f) \/ PutFails(f)
  BY <1>8, PutStartsStep, PutLandsStep, PutReturnsStep, PutFailsStep
<1> QED BY <1>1, <1>2, <1>3, <1>4, <1>5, <1>6, <1>7, <1>8 DEF Next

(* What every step of the recorder (voice.go:336-733) preserves. *)
THEOREM Invariant == Spec => []IInv
<1>1. Init => IInv
  BY InitInv
<1>2. IInv /\ [Next]_vars => IInv'
  BY StepInv
<1> QED BY <1>1, <1>2, PTL DEF Spec
-----------------------------------------------------------------------------
(* Held and Stored say what InMemory and InStore do. *)
LEMMA KeptIsKept ==
    ASSUME IInv
    PROVE  AudioKept
<1>1. ASSUME NEW g \in heard PROVE g \in InMemory \cup InStore \cup forgone \cup exposed
  <2>1. g[2] \in Users /\ g[3] \in Nat
    BY FrameFields DEF IInv, Shapes
  <2>2. ASSUME Held(g) PROVE g \in InMemory
    <3>1. g \in Leading(g[2], track[g[2]].len)
      BY <2>2 DEF Held, Leading
    <3> QED BY <2>1, <3>1 DEF InMemory
  <2>3. ASSUME Stored(g) PROVE g \in InStore
    BY <2>1, <2>3 DEF Stored, InStore, Range
  <2> QED BY <2>2, <2>3 DEF IInv, Kept
<1> QED BY <1>1 DEF AudioKept

(* checkpointUpTo and stop, also when an upload outlasts the wait for it    *)
(* (voice.go:336-402, 591-660), and resumeActive, also when List fails      *)
(* (662-717): a mixed frame is in memory or in storage until it is given    *)
(* up, or it is one of those the code exposes.                              *)
THEOREM AudioIsKept == Spec => []AudioKept
<1>1. IInv => AudioKept
  BY KeptIsKept
<1> QED BY <1>1, Invariant, PTL

(* The worker stitches a speaker's chunks in key order                      *)
(* (transcribe.go:182-256): that is the order the frames were heard in,     *)
(* also across resumes, but for exposed frames.                             *)
THEOREM ChunksAreChronological == Spec => []Chronological
<1>1. IInv => Chronological
  BY DEF IInv
<1> QED BY <1>1, Invariant, PTL

(* No frame is stored twice, whatever uploads failed after storage had      *)
(* them, unless it was exposed: nothing else is transcribed twice.          *)
THEOREM NothingTwice == Spec => []NoEcho
<1>1. ASSUME IInv, NEW u \in Users, NEW m \in DOMAIN chunk[u], NEW n \in DOMAIN chunk[u],
             m # n, NEW g, g \in chunk[u][m], g \in chunk[u][n]
      PROVE  g \in exposed
  <2>1. SUFFICES ASSUME g \notin exposed PROVE FALSE
    OBVIOUS
  <2>2. m \in Nat /\ n \in Nat /\ g \in heard
    BY <1>1 DEF IInv, Fits, ChunksFit
  <2>3. g[1] \in Nat /\ g[3] \in Nat
    BY <1>1, <2>2, FrameFields DEF IInv, Shapes
  <2>4. m < n \/ n < m
    BY <1>1, <2>2
  <2>5. Before(g, g)
    BY <1>1, <2>1, <2>4 DEF IInv, Chronological
  <2> QED BY <2>3, <2>5 DEF Before
<1>2. IInv => NoEcho
  BY <1>1 DEF NoEcho
<1> QED BY <1>2, Invariant, PTL

(* frameIndexFor and mixFrame (voice.go:521-579): while a recording is      *)
(* younger than maxGapFrames every packet that may come within the jitter   *)
(* is mixed if it was not sent before the first of its speaker to arrive,   *)
(* whatever checkpoints, retries and resumes came before.                   *)
THEOREM EarlyPacketsAreHeard == Spec => []EarlyIsHeard
<1>1. ASSUME IInv, NEW u \in Users, NEW when \in SendTimes,
             phase = "capturing", now + Lateness <= MaxGap, MayCome(when), SinceFirst(u, when)
      PROVE  Accepted(u, FrameIndexFor(u, when))
  <2>1. /\ Shapes /\ TrackFits(u) /\ now \in Nat /\ Lateness \in Nat /\ MaxGap \in Nat
        /\ when \in Int /\ now - Lateness <= when /\ when <= now
    BY <1>1, Numbers, NowFields DEF IInv, Fits, MayCome, SendTimes
  <2>2. /\ track[u].base \in Nat /\ track[u].len \in Nat
        /\ anchor[u].sent \in Int /\ anchor[u].slot \in Nat
    BY <2>1, TrackFields
  <2>3. PICK i : i = FrameIndexFor(u, when)
    OBVIOUS
  <2>4. CASE track[u] = NoTrack
    <3>1. i = now /\ track[u].base = 0
      BY <2>1, <2>3, <2>4 DEF FrameIndexFor, AnchorOf, NoTrack
    <3> QED BY <1>1, <2>1, <2>2, <2>3, <3>1 DEF Accepted
  <2>5. CASE track[u] # NoTrack
    <3>1. i = anchor[u].slot + when - anchor[u].sent /\ when >= anchor[u].sent
      BY <1>1, <2>1, <2>2, <2>3, <2>5 DEF FrameIndexFor, AnchorOf, SinceFirst
    <3>2. Present(u) = now + anchor[u].slot - anchor[u].sent /\ Present(u) <= now + Lateness
      BY <2>1, <2>2 DEF TrackFits, AnchorFits, Present
    <3>3. track[u].base = 0 \/ track[u].base + Lateness <= Present(u)
      BY <1>1, <2>1 DEF TrackFits, Open
    <3> QED BY <1>1, <2>1, <2>2, <2>3, <3>1, <3>2, <3>3 DEF Accepted
  <2> QED BY <2>4, <2>5
<1>2. IInv => EarlyIsHeard
  BY <1>1 DEF EarlyIsHeard
<1> QED BY <1>2, Invariant, PTL
-----------------------------------------------------------------------------
(* Where no chunk is written, storage has what it had; and so for memory.   *)
LEMMA StoreRests ==
    ASSUME UNCHANGED chunk
    PROVE  InStore' = InStore
BY DEF InStore

LEMMA MemoryRests ==
    ASSUME UNCHANGED <<epoch, track, heard>>
    PROVE  InMemory' = InMemory
BY DEF InMemory, Leading

(* What two uploads contest is in memory. *)
LEMMA TapeFlushes ==
    ASSUME IInv, Checkpoint \/ LastFlush
    PROVE  Tape!Expose
<1>1. /\ UNCHANGED <<epoch, track, chunk, heard, forgone>> /\ Holdback \in Nat /\ 0 \in Nat
  BY Numbers DEF Checkpoint, LastFlush, Recording
<1>2. InStore' = InStore /\ InMemory' = InMemory
  BY <1>1, StoreRests, MemoryRests
<1>3. ASSUME NEW h \in Nat, NEW f PROVE Contested(Snapshot(h), f) \subseteq InMemory
  <2>1. \A j \in Snapshot(h) : j.user \in Users
    BY <1>3, SnapshotFields DEF IInv
  <2> QED BY <2>1 DEF Contested, InMemory
<1>4. exposed \subseteq exposed' /\ exposed' \subseteq exposed \cup InMemory
  BY <1>1, <1>3 DEF Checkpoint, LastFlush
<1> QED BY <1>1, <1>2, <1>4 DEF Tape!Expose

LEMMA TapeLands ==
    ASSUME IInv, NEW f \in Flushers, PutLands(f)
    PROVE  Tape!Store
<1>1. UNCHANGED <<epoch, track, heard, forgone, exposed>> /\ DOMAIN chunk = Users
  BY DEF PutLands, Recording, history, IInv, Shapes
<1>2. InMemory' = InMemory
  BY <1>1, MemoryRests
<1>3. PICK j \in flush[f].put, u \in Users, s \in Nat \ {0} :
         /\ u = j.user /\ s = j.seq /\ j \in Jobs(f)
         /\ DOMAIN chunk' = Users
         /\ DOMAIN chunk'[u] = DOMAIN chunk[u] \cup {s} /\ chunk'[u][s] = j.frames
         /\ \A n \in DOMAIN chunk[u] \ {s} : chunk'[u][n] = chunk[u][n]
         /\ \A v \in Users \ {u} : chunk'[v] = chunk[v]
         /\ \A g \in j.frames \ exposed : s = track[u].seq /\ g \in Leading(u, track[u].len)
         /\ s \in DOMAIN chunk[u] =>
               \A g \in chunk[u][s] \ exposed : g \in Leading(u, track[u].len)
  BY LandsFacts
<1>4. ASSUME NEW g \in InStore, g \notin InMemory, g \notin exposed PROVE g \in InStore'
  <2>1. PICK v \in Users : \E n \in DOMAIN chunk[v] : g \in chunk[v][n]
    BY DEF InStore, Range
  <2>2. PICK n \in DOMAIN chunk[v] : g \in chunk[v][n]
    BY <2>1
  <2>3. ~(v = u /\ n = s)
    BY <1>3, <1>4, <2>2 DEF InMemory
  <2>4. n \in DOMAIN chunk'[v] /\ g \in chunk'[v][n]
    BY <1>3, <2>2, <2>3
  <2> QED BY <2>4 DEF InStore, Range
<1>5. ASSUME NEW g \in InStore' PROVE g \in InStore \cup InMemory \cup exposed
  <2>1. PICK v \in Users : \E n \in DOMAIN chunk'[v] : g \in chunk'[v][n]
    BY DEF InStore, Range
  <2>2. PICK n \in DOMAIN chunk'[v] : g \in chunk'[v][n]
    BY <2>1
  <2>3. CASE v = u /\ n = s
    BY <1>3, <2>2, <2>3 DEF InMemory
  <2>4. CASE ~(v = u /\ n = s)
    <3>1. n \in DOMAIN chunk[v] /\ g \in chunk[v][n]
      BY <1>3, <2>2, <2>4
    <3> QED BY <3>1 DEF InStore, Range
  <2> QED BY <2>3, <2>4
<1> QED BY <1>1, <1>2, <1>4, <1>5 DEF Tape!Store

(* A track that goes on lets frames go, and no mixed frame is lost. *)
LEMMA TapeReturns ==
    ASSUME IInv, IInv', NEW f \in Flushers, PutReturns(f)
    PROVE  Tape!Release
<1>1. /\ Shapes /\ Shapes' /\ UNCHANGED <<epoch, chunk, heard, forgone, exposed>>
  BY DEF IInv, PutReturns, Recording, history
<1>2. InStore' = InStore
  BY <1>1, StoreRests
<1>3. \A u \in Users :
         /\ track[u].base <= track'[u].base
         /\ track'[u].base + track'[u].len = track[u].base + track[u].len
         /\ track[u].base \in Nat /\ track'[u].base \in Nat
  <2>1. PICK j \in flush[f].put :
           track' = IF track[j.user].seq = j.seq /\ track[j.user].len >= j.count
                    THEN [track EXCEPT ![j.user] =
                            [base |-> track[j.user].base + j.count,
                             len |-> track[j.user].len - j.count,
                             seq |-> track[j.user].seq + 1]]
                    ELSE track
    BY DEF PutReturns
  <2>2. j \in Jobs(f)
    BY <2>1 DEF Jobs
  <2>3. j.user \in Users /\ j.count \in Nat
    BY <2>2, JobFacts
  <2>4. \A u \in Users : track[u].base \in Nat /\ track[u].len \in Nat
    BY <1>1, TrackFields
  <2>5. track \in [Users -> Slot]
    BY <1>1 DEF Shapes
  <2> QED BY <2>1, <2>3, <2>4, <2>5
<1>4. \A u \in Users : Leading(u, track[u].len)' \subseteq Leading(u, track[u].len)
  <2>1. \A g \in heard : g[3] \in Nat
    BY <1>1, FrameFields DEF Shapes
  <2> QED BY <1>1, <1>3, <2>1 DEF Leading
<1>5. InMemory' \subseteq InMemory /\ InMemory \subseteq heard
  BY <1>4 DEF InMemory, Leading
<1>6. InMemory \ InMemory' \subseteq InStore \cup forgone \cup exposed
  <2>1. AudioKept'
    BY KeptIsKept, PTL
  <2> QED BY <1>1, <1>2, <1>5, <2>1 DEF AudioKept
<1> QED BY <1>1, <1>2, <1>5, <1>6 DEF Tape!Release

(* A packet that is mixed is held; one that is not changes nothing. *)
LEMMA TapeHears ==
    ASSUME IInv, NEW u \in Users, NEW when \in SendTimes, Receive(u, when)
    PROVE  Tape!Hear \/ UNCHANGED <<heard, InMemory, InStore, forgone, exposed>>
<1>1. /\ Shapes /\ UNCHANGED <<epoch, chunk, exposed>> /\ phase # "off"
      /\ epoch \in 1..MaxEpochs /\ Lateness \in Nat /\ MaxNow \in Nat
  BY Numbers DEF IInv, Shapes, Receive
<1>2. InStore' = InStore
  BY <1>1, StoreRests
<1>3. PICK b \in Nat, l \in Nat, s \in Nat :
         /\ track' = [track EXCEPT ![u] = [base |-> b, len |-> l, seq |-> s]]
         /\ b = track[u].base /\ track[u].len <= l
         /\ \/ heard' = heard /\ forgone' = forgone
            \/ \E i \in Slots :
                  /\ heard' = heard \cup {<<epoch, u, i>>}
                  /\ b <= i /\ i < b + l
                  /\ forgone' \in {forgone, forgone \cup {<<epoch, u, i>>}}
  BY TrackGrows
<1>4. /\ track'[u].base = b /\ track'[u].len = l
      /\ \A v \in Users \ {u} : track'[v] = track[v]
  BY <1>1, <1>3 DEF Shapes
<1>5. \A g \in heard : g[1] \in Nat /\ g[2] \in Users /\ g[3] \in Nat
  BY <1>1, FrameFields DEF Shapes
<1>6. heard \subseteq heard'
  BY <1>3
<1>7. ASSUME NEW v \in Users, NEW g \in heard
      PROVE  g \in Leading(v, track[v].len) <=> g \in Leading(v, track[v].len)'
  <2>1. g[1] = epoch => g[3] < track[g[2]].base + track[g[2]].len
    BY <1>1 DEF IInv, Within, Past
  <2>2. /\ track[v].base \in Nat /\ track[v].len \in Nat /\ g[3] \in Nat
        /\ track'[v].base = track[v].base /\ track[v].len <= track'[v].len
        /\ track'[v].len \in Nat
    BY <1>1, <1>3, <1>4, <1>5, TrackFields
  <2>3. g[2] = v /\ g[1] = epoch => g[3] < track'[v].base + track'[v].len
    BY <2>1, <2>2
  <2> QED BY <1>1, <1>6, <2>1, <2>2, <2>3 DEF Leading
<1>8. \A g \in heard : g \in InMemory <=> g \in InMemory'
  BY <1>7 DEF InMemory
<1>9. InMemory \subseteq heard /\ InMemory' \subseteq heard'
  BY DEF InMemory, Leading
<1>10. CASE heard' = heard /\ forgone' = forgone
  BY <1>1, <1>2, <1>8, <1>9, <1>10
<1>11. CASE \E i \in Slots :
              /\ heard' = heard \cup {<<epoch, u, i>>}
              /\ b <= i /\ i < b + l
              /\ forgone' \in {forgone, forgone \cup {<<epoch, u, i>>}}
  <2>1. PICK i \in Slots :
           /\ heard' = heard \cup {<<epoch, u, i>>}
           /\ b <= i /\ i < b + l
           /\ forgone' \in {forgone, forgone \cup {<<epoch, u, i>>}}
    BY <1>11
  <2>2. PICK fr \in Frame : fr = <<epoch, u, i>> /\ fr[1] = epoch /\ fr[2] = u /\ fr[3] = i
    <3>1. <<epoch, u, i>> \in Frame
      BY <1>1 DEF Frame
    <3> QED BY <3>1
  <2>3. fr \in Leading(u, track[u].len)'
    BY <1>1, <1>4, <2>1, <2>2 DEF Leading
  <2>4. InMemory' = InMemory \cup {fr}
    <3>1. fr \in InMemory'
      BY <2>3 DEF InMemory
    <3> QED BY <1>8, <1>9, <2>1, <2>2, <3>1
  <2> QED BY <1>1, <1>2, <2>1, <2>2, <2>4 DEF Tape!Hear
<1> QED BY <1>3, <1>10, <1>11

(* The process ends: nothing is held, and what was is given up. *)
LEMMA TapeEnds ==
    ASSUME IInv, IInv', Exit \/ Crash
    PROVE  Tape!GiveUp
<1>1. /\ UNCHANGED <<chunk, heard, exposed>> /\ forgone' = forgone \cup InMemory
      /\ \A u \in Users : track'[u] = NoTrack
  BY DEF Exit, Crash
<1>2. InMemory' = {}
  <2>1. \A g \in heard : g[3] \in Nat
    BY FrameFields DEF IInv, Shapes
  <2> QED BY <1>1, <2>1 DEF InMemory, Leading, NoTrack
<1> QED BY <1>1, <1>2, StoreRests DEF Tape!GiveUp

(* The next recording holds nothing yet; it may write over what is stored.  *)
LEMMA TapeResumes ==
    ASSUME IInv, ResumeActive
    PROVE  Tape!Expose
<1>1. /\ UNCHANGED <<track, chunk, heard, forgone>>
      /\ exposed \subseteq exposed' /\ exposed' \subseteq exposed \cup InStore
      /\ \A u \in Users : track[u] = NoTrack
  BY DEF ResumeActive, IInv, Flushing, Quiet
<1>2. InMemory = {} /\ InMemory' = {}
  <2>1. Shapes /\ \A g \in heard : g[3] \in Nat
    BY FrameFields DEF IInv, Shapes
  <2> QED BY <1>1, <2>1 DEF InMemory, Leading, NoTrack
<1> QED BY <1>1, <1>2, StoreRests DEF Tape!Expose

LEMMA TapeStep ==
    ASSUME IInv, IInv', [Next]_vars
    PROVE  [Tape!Next]_<<heard, InMemory, InStore, forgone, exposed>>
<1> DEFINE Stutter == UNCHANGED <<heard, InMemory, InStore, forgone, exposed>>
<1>1. CASE UNCHANGED vars
  <2>1. UNCHANGED <<epoch, track, chunk, heard, forgone, exposed>>
    BY <1>1 DEF vars, history
  <2> QED BY <2>1, StoreRests, MemoryRests
<1>2. CASE Tick \/ Stop \/ LoopEnds
  <2>1. UNCHANGED <<epoch, track, chunk, heard, forgone, exposed>>
    BY <1>2 DEF Tick, Stop, LoopEnds, Recording, history
  <2> QED BY <2>1, StoreRests, MemoryRests
<1>3. CASE StopReturns
  <2>1. UNCHANGED <<epoch, track, chunk, heard, exposed>> /\ forgone \subseteq forgone'
    BY <1>3 DEF StopReturns, Recording
  <2>2. InStore' = InStore /\ InMemory' = InMemory
    BY <2>1, StoreRests, MemoryRests
  <2>3. Tape!GiveUp
    BY <2>1, <2>2 DEF Tape!GiveUp
  <2> QED BY <2>3 DEF Tape!Next
<1>4. CASE Checkpoint \/ LastFlush
  BY <1>4, TapeFlushes DEF Tape!Next
<1>5. CASE Exit \/ Crash
  BY <1>5, TapeEnds DEF Tape!Next
<1>6. CASE ResumeActive
  BY <1>6, TapeResumes DEF Tape!Next
<1>7. CASE \E u \in Users, when \in SendTimes : Receive(u, when)
  BY <1>7, TapeHears DEF Tape!Next
<1>8. CASE \E f \in Flushers : PutStarts(f) \/ PutFails(f)
  <2>1. UNCHANGED <<epoch, track, chunk, heard, forgone, exposed>>
    BY <1>8 DEF PutStarts, PutFails, Recording, history
  <2> QED BY <2>1, StoreRests, MemoryRests
<1>9. CASE \E f \in Flushers : PutLands(f)
  BY <1>9, TapeLands DEF Tape!Next
<1>10. CASE \E f \in Flushers : PutReturns(f)
  BY <1>10, TapeReturns DEF Tape!Next
<1> QED BY <1>1, <1>2, <1>3, <1>4, <1>5, <1>6, <1>7, <1>8, <1>9, <1>10 DEF Next

(* checkpointUpTo (voice.go:336-402), the flushes of stop and stopAll and   *)
(* resumeActive: a track lets its leading frames go only when the Put of    *)
(* exactly those frames succeeded, and an upload writes over nothing but    *)
(* what is still in memory or is exposed: the recorder does what Tape       *)
(* promises.                                                                *)
THEOREM KeepsItsTape == Spec => KeepsTape
<1>1. Init => Tape!Init
  <2>1. SUFFICES ASSUME Init PROVE Tape!Init
    OBVIOUS
  <2>2. /\ heard = {} /\ forgone = {} /\ exposed = {} /\ \A u \in Users : DOMAIN chunk[u] = {}
    BY <2>1 DEF Init
  <2>3. InMemory = {} /\ InStore = {}
    BY <2>2 DEF InMemory, Leading, InStore, Range
  <2> QED BY <2>2, <2>3 DEF Tape!Init
<1>2. IInv /\ IInv' /\ [Next]_vars => [Tape!Next]_<<heard, InMemory, InStore, forgone, exposed>>
  BY TapeStep
<1> QED BY <1>1, <1>2, Invariant, PTL DEF Spec, KeepsTape, Tape!Spec
-----------------------------------------------------------------------------
(* What TypeOK says beyond IInv. *)
Counters == forgone \subseteq Frame /\ faults \in 0..MaxFaults

LEMMA CountersStep ==
    ASSUME IInv, Counters, [Next]_vars
    PROVE  Counters'
<1>1. /\ MaxFaults \in Nat /\ heard \subseteq Frame /\ faults \in 0..MaxFaults
  BY RecorderBounds DEF IInv, Shapes, Counters
<1>2. InMemory \subseteq Frame
  BY <1>1 DEF InMemory, Leading
<1>3. forgone' \subseteq Frame
  <2>1. CASE UNCHANGED forgone
    BY <2>1 DEF Counters
  <2>2. CASE forgone' = forgone \cup InMemory
    BY <1>2, <2>2 DEF Counters
  <2>3. ASSUME NEW u \in Users, NEW when \in SendTimes, Receive(u, when)
        PROVE  forgone' \subseteq Frame
    <3>1. Tape!Hear \/ UNCHANGED forgone
      BY <2>3, TapeHears
    <3> QED BY <3>1 DEF Tape!Hear, Counters
  <2>4. CASE \E f \in Flushers : PutStarts(f) \/ PutLands(f) \/ PutReturns(f) \/ PutFails(f)
    BY <2>4 DEF PutStarts, PutLands, PutReturns, PutFails, Counters, history
  <2> QED BY <2>1, <2>2, <2>3, <2>4 DEF Next, Tick, Checkpoint, Stop, LoopEnds, LastFlush,
                                        StopReturns, Exit, Crash, ResumeActive, vars, history
<1>4. faults' \in 0..MaxFaults
  <2>1. CASE UNCHANGED faults
    BY <1>1, <2>1
  <2>2. CASE Disturb
    BY <1>1, <2>2 DEF Disturb
  <2>3. CASE \E u \in Users, when \in SendTimes : Receive(u, when)
    BY <1>1, <2>3 DEF Receive
  <2>4. CASE \E f \in Flushers : PutStarts(f) \/ PutLands(f) \/ PutReturns(f)
    BY <1>1, <2>4 DEF PutStarts, PutLands, PutReturns
  <2>5. CASE \E f \in Flushers : PutFails(f)
    BY <2>2, <2>5 DEF PutFails
  <2> QED BY <2>1, <2>2, <2>3, <2>4, <2>5 DEF Next, Tick, Checkpoint, Stop, LoopEnds, LastFlush,
                                        StopReturns, Exit, Crash, ResumeActive, vars
<1> QED BY <1>3, <1>4 DEF Counters

(* Tracks, chunks and what the flushers have in hand are well formed; a     *)
(* chunk's number is never 0, and a flusher has one upload under way at     *)
(* most.                                                                    *)
THEOREM TypesHold == Spec => []TypeOK
<1>1. ASSUME IInv, Counters PROVE TypeOK
  <2>1. /\ Shapes /\ MaxNow \in Nat /\ Lateness \in Nat /\ now \in Nat /\ now <= MaxNow
    BY <1>1, Numbers, NowFields DEF IInv
  <2>2. \A u \in Users : track[u] \in Track /\ anchor[u] \in Anchor
    BY <1>1, TrackBounds
  <2>3. track \in [Users -> Track] /\ anchor \in [Users -> Anchor]
    BY <2>1, <2>2 DEF Shapes
  <2>4. ASSUME NEW u \in Users
        PROVE  DOMAIN chunk[u] \subseteq Seqs /\ UNION Range(chunk[u]) \subseteq Frame
    <3>1. ChunksFit(u)
      BY <1>1 DEF IInv, Fits
    <3> QED BY <2>1, <3>1 DEF ChunksFit, Shapes, Seqs, Range
  <2>5. ASSUME NEW f \in Flushers, NEW j \in Jobs(f) PROVE j \in Upload
    <3>1. j \in Load /\ j.seq \in Seqs
      BY <1>1, JobFacts DEF Seqs
    <3> QED BY <3>1 DEF Load, Upload
  <2>6. ASSUME NEW f \in Flushers
        PROVE  /\ flush[f].todo \subseteq Upload /\ flush[f].put \subseteq Upload
               /\ Cardinality(flush[f].put) <= 1 /\ flush[f].landed \in BOOLEAN
    <3>1. flush[f].landed \in BOOLEAN
      BY <2>1 DEF Shapes, Work
    <3>2. ASSUME NEW j \in flush[f].put PROVE Cardinality(flush[f].put) <= 1
      <4>1. flush[f].put = {j}
        BY <1>1 DEF IInv, Flushing, Singles
      <4>2. Cardinality({j}) = 1
        BY FS_Singleton
      <4> QED BY <4>1, <4>2
    <3>3. Cardinality(flush[f].put) <= 1
      <4>1. CASE flush[f].put = {}
        <5>1. Cardinality(flush[f].put) = 0
          BY <4>1, FS_EmptySet
        <5> QED BY <5>1
      <4> QED BY <3>2, <4>1
    <3> QED BY <2>5, <3>1, <3>3 DEF Jobs
  <2> QED BY <1>1, <2>1, <2>3, <2>4, <2>6 DEF TypeOK, Shapes, Counters
<1>2. Init => Counters
  BY RecorderBounds DEF Init, Counters
<1>3. IInv /\ Counters /\ [Next]_vars => Counters'
  BY CountersStep
<1> QED BY <1>1, <1>2, <1>3, Invariant, PTL DEF Spec
-----------------------------------------------------------------------------
(* Where the n-th segment starts, a apart, and what transcribeUserTrack has  *)
(* in hand between its steps: the segments s it sent are whole windows of    *)
(* what was kept, k, and its buffer b is k from where the next one starts.   *)
From(a, n) == (n - 1) * a + 1
IsWindow(s, k, a, seg, n) ==
    /\ seg > 0 /\ From(a, n) + seg - 1 <= Len(k)
    /\ s[n] = SubSeq(k, From(a, n), From(a, n) + seg - 1)
InHand(s, k, b, a, seg) ==
    /\ \A n \in 1..Len(s) : IsWindow(s, k, a, seg, n)
    /\ From(a, Len(s) + 1) <= Len(k) + 1
    /\ b = SubSeq(k, From(a, Len(s) + 1), Len(k))

Samples ==
    /\ stage \in {"idle", "reading", "ended", "failed"} /\ segSamples \in Nat
    /\ overlapSamples \in Nat /\ untrimmed \in Seq(Int) /\ buf \in Seq(Int)
    /\ kept \in Seq(Int) /\ sent \in Seq(Seq(Int)) /\ taken \in Nat
    /\ stage = "idle" => sent = <<>>
    /\ stage # "reading" => untrimmed = <<>>
Gathered == stage # "ended" => InHand(sent, kept, buf, Advance, segSamples)
SegmentInv == Samples /\ Gathered /\ SegmentsAreWindows

LEMMA SliceStays ==
    ASSUME NEW S, NEW s \in Seq(S), NEW t \in Seq(S), NEW a \in Nat \ {0}, NEW b \in Nat,
           b <= Len(s)
    PROVE  SubSeq(s \o t, a, b) = SubSeq(s, a, b)
<1>1. /\ s \o t \in Seq(S) /\ Len(s) \in Nat /\ Len(t) \in Nat /\ Len(s \o t) = Len(s) + Len(t)
      /\ \A i \in 1..Len(s) : (s \o t)[i] = s[i]
  BY ConcatProperties, LenProperties
<1>2. \A i \in a..b : s[i] \in S /\ (s \o t)[i] = s[i]
  BY <1>1, ElementOfSeq
<1>3. /\ SubSeq(s, a, b) \in Seq(S) /\ SubSeq(s \o t, a, b) \in Seq(S)
      /\ Len(SubSeq(s, a, b)) = Len(SubSeq(s \o t, a, b))
      /\ Len(SubSeq(s, a, b)) \in 0..b
      /\ \A i \in 1..(b - a + 1) : /\ SubSeq(s, a, b)[i] = s[a + i - 1]
                                   /\ SubSeq(s \o t, a, b)[i] = (s \o t)[a + i - 1]
      /\ Len(SubSeq(s, a, b)) = IF a <= b THEN b - a + 1 ELSE 0
  BY <1>2, SubSeqProperties
<1>4. ASSUME NEW i \in 1..Len(SubSeq(s, a, b)) PROVE SubSeq(s, a, b)[i] = SubSeq(s \o t, a, b)[i]
  <2>1. i \in 1..(b - a + 1) /\ a + i - 1 \in a..b
    BY <1>3
  <2> QED BY <1>2, <1>3, <2>1
<1> QED BY <1>3, <1>4, SeqEqual

LEMMA SliceGrows ==
    ASSUME NEW S, NEW s \in Seq(S), NEW t \in Seq(S), NEW a \in Nat \ {0}, a <= Len(s) + 1
    PROVE  SubSeq(s, a, Len(s)) \o t = SubSeq(s \o t, a, Len(s \o t))
<1>1. /\ s \o t \in Seq(S) /\ Len(s) \in Nat /\ Len(t) \in Nat /\ Len(s \o t) = Len(s) + Len(t)
      /\ \A i \in 1..(Len(s) + Len(t)) : (s \o t)[i] = IF i <= Len(s) THEN s[i] ELSE t[i - Len(s)]
  BY ConcatProperties, LenProperties
<1>2. PICK r, w : r = SubSeq(s, a, Len(s)) /\ w = SubSeq(s \o t, a, Len(s \o t))
  OBVIOUS
<1>3. /\ r \in Seq(S) /\ Len(r) = Len(s) - a + 1
      /\ \A i \in 1..(Len(s) - a + 1) : r[i] = s[a + i - 1]
  <2>1. \A i \in a..Len(s) : s[i] \in S
    BY <1>1, ElementOfSeq
  <2> QED BY <1>1, <1>2, <2>1, SubSeqProperties
<1>4. /\ w \in Seq(S) /\ Len(w) = Len(s) + Len(t) - a + 1
      /\ \A i \in 1..(Len(s) + Len(t) - a + 1) : w[i] = (s \o t)[a + i - 1]
  <2>1. \A i \in a..Len(s \o t) : (s \o t)[i] \in S
    BY <1>1, ElementOfSeq
  <2> QED BY <1>1, <1>2, <2>1, SubSeqProperties, SMTT(20)
<1>5. /\ r \o t \in Seq(S) /\ Len(r \o t) = Len(r) + Len(t)
      /\ \A i \in 1..(Len(r) + Len(t)) : (r \o t)[i] = IF i <= Len(r) THEN r[i] ELSE t[i - Len(r)]
  BY <1>3, ConcatProperties
<1>6. Len(r \o t) = Len(w)
  BY <1>1, <1>3, <1>4, <1>5
<1>7. ASSUME NEW i \in 1..Len(w) PROVE (r \o t)[i] = w[i]
  <2>1. i \in 1..(Len(r) + Len(t)) /\ i \in 1..(Len(s) + Len(t) - a + 1)
    BY <1>1, <1>3, <1>4
  <2>2. a + i - 1 \in 1..(Len(s) + Len(t)) /\ i \in Nat
    BY <1>1, <2>1
  <2>3. w[i] = IF a + i - 1 <= Len(s) THEN s[a + i - 1] ELSE t[a + i - 1 - Len(s)]
    BY <1>1, <1>4, <2>1, <2>2
  <2>4. (r \o t)[i] = IF i <= Len(r) THEN r[i] ELSE t[i - Len(r)]
    BY <1>5, <2>1
  <2>5. CASE i <= Len(r)
    <3>1. i \in 1..(Len(s) - a + 1) /\ a + i - 1 <= Len(s)
      BY <1>1, <1>3, <2>1, <2>5
    <3> QED BY <1>3, <2>3, <2>4, <2>5, <3>1
  <2>6. CASE i > Len(r)
    <3>1. ~(i <= Len(r)) /\ ~(a + i - 1 <= Len(s)) /\ a + i - 1 - Len(s) = i - Len(r)
      BY <1>1, <1>3, <2>2, <2>6
    <3> QED BY <2>3, <2>4, <3>1
  <2> QED BY <1>1, <1>3, <2>2, <2>5, <2>6
<1>8. r \o t = w
  BY <1>4, <1>5, <1>6, <1>7, SeqEqual
<1> QED BY <1>2, <1>8

LEMMA SliceOfSlice ==
    ASSUME NEW S, NEW s \in Seq(S), NEW a \in Nat \ {0}, a <= Len(s) + 1,
           NEW r, r = SubSeq(s, a, Len(s)), NEW c \in Nat \ {0}, NEW d \in Nat, d <= Len(r)
    PROVE  /\ r \in Seq(S) /\ Len(r) = Len(s) - a + 1
           /\ SubSeq(r, c, d) = SubSeq(s, a + c - 1, a + d - 1)
<1>1. Len(s) \in Nat /\ \A i \in a..Len(s) : s[i] \in S
  BY LenProperties, ElementOfSeq
<1>2. /\ r \in Seq(S) /\ Len(r) = Len(s) - a + 1
      /\ \A i \in 1..(Len(s) - a + 1) : r[i] = s[a + i - 1]
  BY <1>1, SubSeqProperties
<1>3. PICK v, w : v = SubSeq(r, c, d) /\ w = SubSeq(s, a + c - 1, a + d - 1)
  OBVIOUS
<1>4. /\ v \in Seq(S) /\ Len(v) = IF c <= d THEN d - c + 1 ELSE 0
      /\ \A i \in 1..(d - c + 1) : v[i] = r[c + i - 1]
  <2>1. \A i \in c..d : r[i] \in S
    BY <1>2, ElementOfSeq
  <2> QED BY <1>3, <2>1, SubSeqProperties
<1>5. /\ w \in Seq(S) /\ Len(w) = IF c <= d THEN d - c + 1 ELSE 0
      /\ \A i \in 1..(d - c + 1) : w[i] = s[a + c - 1 + i - 1]
  <2>1. \A i \in (a + c - 1)..(a + d - 1) : s[i] \in S
    BY <1>1, <1>2
  <2>2. a + c - 1 \in Int /\ a + d - 1 \in Int
    OBVIOUS
  <2>3. /\ w \in Seq(S)
        /\ Len(w) = IF a + c - 1 <= a + d - 1 THEN (a + d - 1) - (a + c - 1) + 1 ELSE 0
        /\ \A i \in 1..((a + d - 1) - (a + c - 1) + 1) : w[i] = s[a + c - 1 + i - 1]
    BY <1>3, <2>1, <2>2, SubSeqProperties
  <2> QED BY <2>3
<1>6. ASSUME NEW i \in 1..Len(v) PROVE v[i] = w[i]
  <2>1. i \in 1..(d - c + 1) /\ c + i - 1 \in 1..(Len(s) - a + 1)
    BY <1>1, <1>2, <1>4, SMTT(20)
  <2>2. a + (c + i - 1) - 1 = a + c - 1 + i - 1
    OBVIOUS
  <2> QED BY <1>2, <1>4, <1>5, <2>1, <2>2
<1>7. v = w
  BY <1>4, <1>5, <1>6, SeqEqual
<1> QED BY <1>2, <1>3, <1>7

LEMMA FromIs ==
    ASSUME NEW a \in Nat, NEW n \in Nat
    PROVE  /\ From(a, n + 1) \in Nat \ {0} /\ From(a, 1) = 1
           /\ n > 0 => From(a, n) \in Nat \ {0} /\ From(a, n + 1) = From(a, n) + a
<1>1. n * a \in Nat /\ 0 * a = 0
  OBVIOUS
<1>2. From(a, n + 1) = n * a + 1 /\ From(a, 1) = 0 * a + 1
  BY <1>1 DEF From
<1>3. ASSUME n > 0 PROVE From(a, n) \in Nat \ {0} /\ From(a, n + 1) = From(a, n) + a
  <2>1. (n - 1) * a \in Nat /\ n * a = (n - 1) * a + a
    BY <1>3
  <2>2. From(a, n) = (n - 1) * a + 1
    BY DEF From
  <2> QED BY <1>2, <2>1, <2>2
<1> QED BY <1>1, <1>2, <1>3

LEMMA AdvanceIs ==
    ASSUME segSamples \in Nat, overlapSamples \in Nat
    PROVE  Advance \in Nat /\ (segSamples > 0 => Advance \in 1..segSamples)
BY DEF Advance

(* What is kept more leaves the windows where they are. *)
LEMMA HandGrows ==
    ASSUME NEW s \in Seq(Seq(Int)), NEW k \in Seq(Int), NEW b \in Seq(Int), NEW a \in Nat,
           NEW seg \in Nat, NEW l \in Seq(Int), InHand(s, k, b, a, seg)
    PROVE  InHand(s, k \o l, b \o l, a, seg)
<1>1. Len(s) \in Nat /\ Len(k) \in Nat /\ Len(l) \in Nat /\ k \o l \in Seq(Int)
      /\ Len(k \o l) = Len(k) + Len(l)
  BY ConcatProperties, LenProperties
<1>2. ASSUME NEW n \in 1..Len(s) PROVE IsWindow(s, k \o l, a, seg, n)
  <2>1. IsWindow(s, k, a, seg, n) /\ From(a, n) \in Nat \ {0}
    <3>1. n \in Nat /\ n > 0
      BY <1>1
    <3> QED BY <3>1, FromIs DEF InHand
  <2>2. PICK f \in Nat \ {0} : f = From(a, n)
    BY <2>1
  <2>3. seg > 0 /\ f + seg - 1 \in Nat /\ f + seg - 1 <= Len(k)
    <3>1. seg > 0 /\ f + seg - 1 <= Len(k)
      BY <2>1, <2>2 DEF IsWindow
    <3> QED BY <3>1
  <2>4. SubSeq(k \o l, f, f + seg - 1) = SubSeq(k, f, f + seg - 1)
    BY <2>3, SliceStays
  <2>5. s[n] = SubSeq(k, f, f + seg - 1)
    BY <2>1, <2>2 DEF IsWindow
  <2>6. f + seg - 1 <= Len(k \o l)
    BY <1>1, <2>3
  <2> QED BY <2>2, <2>3, <2>4, <2>5, <2>6 DEF IsWindow
<1>3. PICK f \in Nat \ {0} : f = From(a, Len(s) + 1)
  BY <1>1, FromIs
<1>4. f <= Len(k) + 1 /\ b = SubSeq(k, f, Len(k))
  BY <1>3 DEF InHand
<1>5. b \o l = SubSeq(k \o l, f, Len(k \o l))
  BY <1>4, SliceGrows
<1>6. f <= Len(k \o l) + 1
  BY <1>1, <1>4
<1> QED BY <1>2, <1>3, <1>5, <1>6 DEF InHand

(* A full segment is the next window, and the tail kept starts the one after. *)
LEMMA HandSends ==
    ASSUME NEW s \in Seq(Seq(Int)), NEW k \in Seq(Int), NEW b \in Seq(Int),
           NEW seg \in Nat \ {0}, NEW a \in 1..seg, seg <= Len(b), InHand(s, k, b, a, seg)
    PROVE  /\ Append(s, SubSeq(b, 1, seg)) \in Seq(Seq(Int))
           /\ SubSeq(b, a + 1, Len(b)) \in Seq(Int)
           /\ InHand(Append(s, SubSeq(b, 1, seg)), k, SubSeq(b, a + 1, Len(b)), a, seg)
<1>1. Len(s) \in Nat /\ Len(k) \in Nat /\ Len(b) \in Nat /\ a \in Nat
  BY LenProperties
<1>2. PICK f \in Nat \ {0} : f = From(a, Len(s) + 1)
  BY <1>1, FromIs
<1>3. f <= Len(k) + 1 /\ b = SubSeq(k, f, Len(k))
  BY <1>2 DEF InHand
<1>4. Len(b) = Len(k) - f + 1
  <2>1. 1 \in Nat \ {0} /\ 0 \in Nat /\ 0 <= Len(b)
    BY <1>1
  <2> QED BY <1>3, <2>1, SliceOfSlice
<1>5. SubSeq(b, 1, seg) = SubSeq(k, f, f + seg - 1)
  <2>1. 1 \in Nat \ {0} /\ seg \in Nat /\ f + 1 - 1 = f
    OBVIOUS
  <2>2. SubSeq(b, 1, seg) = SubSeq(k, f + 1 - 1, f + seg - 1)
    BY <1>3, <2>1, SliceOfSlice
  <2> QED BY <2>1, <2>2
<1>6. SubSeq(b, a + 1, Len(b)) = SubSeq(k, f + a, Len(k))
  <2>1. a + 1 \in Nat \ {0} /\ Len(b) <= Len(b)
    BY <1>1
  <2>2. SubSeq(b, a + 1, Len(b)) = SubSeq(k, f + (a + 1) - 1, f + Len(b) - 1)
    BY <1>1, <1>3, <2>1, SliceOfSlice, SMTT(20)
  <2>3. f + (a + 1) - 1 = f + a /\ f + Len(b) - 1 = Len(k)
    BY <1>1, <1>4
  <2> QED BY <2>2, <2>3
<1>7. \A i \in 1..Len(b) : b[i] \in Int
  BY <1>1, ElementOfSeq
<1>8. SubSeq(b, 1, seg) \in Seq(Int)
  <2>1. \A i \in 1..seg : b[i] \in Int
    BY <1>1, <1>7
  <2> QED BY <2>1, SubSeqProperties
<1>9. SubSeq(b, a + 1, Len(b)) \in Seq(Int)
  <2>1. \A i \in (a + 1)..Len(b) : b[i] \in Int
    BY <1>1, <1>7
  <2>2. a + 1 \in Int /\ Len(b) \in Int
    BY <1>1
  <2> QED BY <2>1, <2>2, SubSeqProperties
<1>10. PICK w \in Seq(Int) : w = SubSeq(b, 1, seg)
  BY <1>8
<1>11. PICK t : t = Append(s, w)
  OBVIOUS
<1>12. /\ t \in Seq(Seq(Int)) /\ Len(t) = Len(s) + 1 /\ t[Len(s) + 1] = w
       /\ \A n \in 1..Len(s) : t[n] = s[n]
  BY <1>10, <1>11, AppendProperties
<1>13. ASSUME NEW n \in 1..(Len(s) + 1) PROVE IsWindow(t, k, a, seg, n)
  <2>1. CASE n \in 1..Len(s)
    <3>1. IsWindow(s, k, a, seg, n) /\ t[n] = s[n]
      BY <1>12, <2>1 DEF InHand
    <3> QED BY <3>1 DEF IsWindow
  <2>2. CASE n = Len(s) + 1
    <3>1. f + seg - 1 <= Len(k)
      BY <1>1, <1>2, <1>4
    <3>2. t[n] = SubSeq(k, f, f + seg - 1) /\ From(a, n) = f
      BY <1>2, <1>5, <1>10, <1>12, <2>2
    <3> QED BY <3>1, <3>2 DEF IsWindow
  <2> QED BY <1>1, <2>1, <2>2
<1>14. From(a, Len(t) + 1) = f + a
  <2>1. Len(s) + 1 \in Nat /\ Len(s) + 1 > 0
    BY <1>1
  <2> QED BY <1>1, <1>2, <1>12, <2>1, FromIs
<1>15. f + a <= Len(k) + 1
  BY <1>1, <1>4
<1>16. InHand(t, k, SubSeq(b, a + 1, Len(b)), a, seg)
  BY <1>6, <1>12, <1>13, <1>14, <1>15 DEF InHand
<1> QED BY <1>9, <1>10, <1>11, <1>12, <1>16

(* The windows of the sent, of what is left at the end too. *)
Reached(s, k, a, seg) ==
    /\ \A n \in 1..Len(s) :
          \/ IsWindow(s, k, a, seg, n)
          \/ n = Len(s) /\ From(a, n) <= Len(k) /\ s[n] = SubSeq(k, From(a, n), Len(k))
    /\ k # <<>> => s # <<>> /\ s[Len(s)] = SubSeq(k, From(a, Len(s)), Len(k))

LEMMA HandEnds ==
    ASSUME NEW s \in Seq(Seq(Int)), NEW k \in Seq(Int), NEW b \in Seq(Int), NEW a \in Nat,
           NEW seg \in Nat, seg > 0 => a \in 1..seg, InHand(s, k, b, a, seg)
    PROVE  /\ b = <<>> => Reached(s, k, a, seg)
           /\ b # <<>> => Append(s, b) \in Seq(Seq(Int)) /\ Reached(Append(s, b), k, a, seg)
<1>1. Len(s) \in Nat /\ Len(k) \in Nat /\ Len(b) \in Nat
  BY LenProperties
<1>2. PICK f \in Nat \ {0} : f = From(a, Len(s) + 1)
  BY <1>1, FromIs
<1>3. f <= Len(k) + 1 /\ b = SubSeq(k, f, Len(k))
  BY <1>2 DEF InHand
<1>4. Len(b) = Len(k) - f + 1
  <2>1. 1 \in Nat \ {0} /\ 0 \in Nat /\ 0 <= Len(b)
    BY <1>1
  <2> QED BY <1>3, <2>1, SliceOfSlice
<1>5. ASSUME b = <<>> PROVE Reached(s, k, a, seg)
  <2>1. f = Len(k) + 1
    <3>1. Len(b) = 0
      BY <1>5
    <3> QED BY <1>1, <1>4, <3>1
  <2>2. ASSUME k # <<>> PROVE s # <<>> /\ s[Len(s)] = SubSeq(k, From(a, Len(s)), Len(k))
    <3>1. Len(k) > 0
      BY <1>1, <2>2, EmptySeq
    <3>2. Len(s) > 0
      <4>1. SUFFICES ASSUME Len(s) = 0 PROVE FALSE
        BY <1>1
      <4>2. f = 1
        BY <1>2, <4>1, <1>1, FromIs
      <4> QED BY <1>1, <2>1, <3>1, <4>2
    <3>3. PICK g \in Nat \ {0} : g = From(a, Len(s)) /\ f = g + a
      BY <1>1, <1>2, <3>2, FromIs
    <3>4. seg > 0 /\ g + seg - 1 <= Len(k) /\ s[Len(s)] = SubSeq(k, g, g + seg - 1)
      <4>1. Len(s) \in 1..Len(s)
        BY <1>1, <3>2
      <4>2. IsWindow(s, k, a, seg, Len(s))
        BY <4>1 DEF InHand
      <4> QED BY <3>3, <4>2 DEF IsWindow
    <3>5. a \in 1..seg
      BY <3>4
    <3>6. g + seg - 1 = Len(k)
      <4>1. g + a = Len(k) + 1 /\ g + seg <= Len(k) + 1 /\ a <= seg
        BY <1>1, <2>1, <3>3, <3>4, <3>5
      <4>2. g + seg <= g + a
        BY <1>1, <3>3, <4>1
      <4> QED BY <1>1, <3>3, <4>1, <4>2
    <3>7. s # <<>>
      BY <3>2
    <3> QED BY <3>3, <3>4, <3>6, <3>7
  <2>3. \A n \in 1..Len(s) : IsWindow(s, k, a, seg, n)
    BY DEF InHand
  <2> QED BY <2>2, <2>3 DEF Reached
<1>6. ASSUME b # <<>>
      PROVE  Append(s, b) \in Seq(Seq(Int)) /\ Reached(Append(s, b), k, a, seg)
  <2>1. PICK t : t = Append(s, b)
    OBVIOUS
  <2>2. /\ t \in Seq(Seq(Int)) /\ Len(t) = Len(s) + 1 /\ t[Len(s) + 1] = b
        /\ \A n \in 1..Len(s) : t[n] = s[n]
    BY <2>1, AppendProperties
  <2>3. t # <<>>
    BY <1>1, <2>2
  <2>4. f <= Len(k)
    <3>1. Len(b) > 0
      BY <1>1, <1>6, EmptySeq
    <3> QED BY <1>1, <1>4, <3>1
  <2>5. ASSUME NEW n \in 1..Len(s) PROVE IsWindow(t, k, a, seg, n)
    <3>1. IsWindow(s, k, a, seg, n) /\ t[n] = s[n]
      BY <2>2 DEF InHand
    <3> QED BY <3>1 DEF IsWindow
  <2>6. From(a, Len(t)) = f /\ t[Len(t)] = SubSeq(k, f, Len(k))
    BY <1>2, <1>3, <2>2
  <2>7. \A n \in 1..Len(t) : n \in 1..Len(s) \/ n = Len(t)
    BY <1>1, <2>2
  <2>8. Reached(t, k, a, seg)
    BY <2>3, <2>4, <2>5, <2>6, <2>7 DEF Reached
  <2> QED BY <2>1, <2>2, <2>8
<1> QED BY <1>5, <1>6

(* SegmentsAreWindows, of each stage. *)
LEMMA WindowsWere ==
    /\ (stage = "ended" /\ Reached(sent, kept, Advance, segSamples)) => SegmentsAreWindows
    /\ (stage # "ended" /\ InHand(sent, kept, buf, Advance, segSamples)) => SegmentsAreWindows
<1>1. \A n : Start(n) = From(Advance, n)
  BY DEF Start, From
<1>2. ASSUME stage = "ended", Reached(sent, kept, Advance, segSamples) PROVE SegmentsAreWindows
  BY <1>1, <1>2 DEF SegmentsAreWindows, Reached, IsWindow
<1>3. ASSUME stage # "ended", InHand(sent, kept, buf, Advance, segSamples)
      PROVE  SegmentsAreWindows
  BY <1>1, <1>3 DEF SegmentsAreWindows, InHand, IsWindow
<1> QED BY <1>2, <1>3

(* A step of the loop that has not ended keeps the windows it finds. *)
LEMMA SegmentGoesOn ==
    ASSUME Samples', stage' # "ended", InHand(sent, kept, buf, Advance, segSamples)'
    PROVE  SegmentInv'
<1>1. SegmentsAreWindows'
  <2>1. (stage # "ended" /\ InHand(sent, kept, buf, Advance, segSamples))' => SegmentsAreWindows'
    BY WindowsWere, PTL
  <2> QED BY <2>1
<1>2. Gathered'
  BY DEF Gathered
<1> QED BY <1>1, <1>2 DEF SegmentInv

LEMMA SegmentBegins ==
    ASSUME SegmentInv, Begin
    PROVE  SegmentInv'
<1>1. /\ sent = <<>> /\ stage = "idle" /\ stage' = "reading" /\ untrimmed = <<>>
      /\ UNCHANGED <<taken, untrimmed, buf, sent, kept>>
      /\ segSamples' \in Nat /\ overlapSamples' \in Nat
      /\ segSamples \in Nat /\ overlapSamples \in Nat
  BY TrackAssumption DEF Begin, SegmentInv, Samples
<1>2. Samples'
  BY <1>1 DEF SegmentInv, Samples
<1>3. PICK a \in Nat, c \in Nat : a = Advance /\ c = Advance'
  <2>1. Advance \in Nat
    BY <1>1, AdvanceIs
  <2>2. PICK s \in Nat, o \in Nat : s = segSamples' /\ o = overlapSamples'
    BY <1>1
  <2>3. Advance' = IF s > o THEN s - o ELSE s
    BY <2>2 DEF Advance
  <2>4. Advance' \in Nat
    BY <2>3
  <2> QED BY <2>1, <2>4
<1>4. InHand(sent, kept, buf, a, segSamples)
  BY <1>1, <1>3 DEF SegmentInv, Gathered
<1>5. From(a, Len(sent) + 1) = 1 /\ From(c, Len(sent) + 1) = 1 /\ Len(sent) = 0
  <2>1. Len(sent) = 0 /\ Len(sent) + 1 = 1
    BY <1>1
  <2>2. From(a, 1) = 1 /\ From(c, 1) = 1
    BY FromIs
  <2> QED BY <2>1, <2>2
<1>6. InHand(sent, kept, buf, c, segSamples')
  <2>1. 1 <= Len(kept) + 1 /\ buf = SubSeq(kept, 1, Len(kept))
    BY <1>4, <1>5 DEF InHand
  <2>2. 1..Len(sent) = {}
    BY <1>5
  <2> QED BY <1>5, <2>1, <2>2 DEF InHand
<1>7. InHand(sent, kept, buf, Advance, segSamples)'
  BY <1>1, <1>3, <1>6
<1> QED BY <1>1, <1>2, <1>7, SegmentGoesOn

LEMMA SegmentTrims ==
    ASSUME SegmentInv, TrimFrame
    PROVE  SegmentInv'
<1> DEFINE size == IF Len(untrimmed) < FrameSamples THEN Len(untrimmed) ELSE FrameSamples
           frame == SubSeq(untrimmed, 1, size)
<1>1. /\ Samples /\ Gathered /\ stage = "reading" /\ stage' = "reading"
      /\ UNCHANGED <<config, taken, sent>> /\ untrimmed \in Seq(Int)
      /\ Len(untrimmed) \in Nat /\ size \in Nat /\ size <= Len(untrimmed)
  BY TrackAssumption, LenProperties DEF SegmentInv, Samples, TrimFrame
<1>2. PICK l : /\ l \in {frame, <<>>} /\ buf' = buf \o l /\ kept' = kept \o l
               /\ untrimmed' = SubSeq(untrimmed, size + 1, Len(untrimmed))
  BY DEF TrimFrame
<1>3. l \in Seq(Int) /\ untrimmed' \in Seq(Int)
  <2>1. \A i \in 1..Len(untrimmed) : untrimmed[i] \in Int
    BY <1>1, ElementOfSeq
  <2> HIDE DEF size
  <2>2. \A i \in 1..size : untrimmed[i] \in Int
    BY <1>1, <2>1
  <2>3. \A i \in (size + 1)..Len(untrimmed) : untrimmed[i] \in Int
    BY <1>1, <2>1
  <2>4. frame \in Seq(Int)
    BY <1>1, <2>2, SubSeqProperties
  <2>5. SubSeq(untrimmed, size + 1, Len(untrimmed)) \in Seq(Int)
    <3>1. size + 1 \in Int /\ Len(untrimmed) \in Int
      BY <1>1
    <3> QED BY <2>3, <3>1, SubSeqProperties
  <2>6. <<>> \in Seq(Int)
    OBVIOUS
  <2> HIDE DEF frame
  <2> QED BY <1>2, <2>4, <2>5, <2>6
<1> HIDE DEF frame, size
<1>4. /\ sent \in Seq(Seq(Int)) /\ kept \in Seq(Int) /\ buf \in Seq(Int)
      /\ segSamples \in Nat /\ overlapSamples \in Nat
  BY <1>1 DEF Samples
<1>5. kept \o l \in Seq(Int) /\ buf \o l \in Seq(Int)
  BY <1>3, <1>4, ConcatProperties
<1>6. Samples'
  BY <1>1, <1>2, <1>3, <1>5 DEF Samples, config
<1>7. Advance' = Advance /\ segSamples' = segSamples /\ sent' = sent
  BY <1>1 DEF Advance, config
<1>8. PICK a \in Nat : a = Advance
  BY <1>4, AdvanceIs
<1>9. InHand(sent, kept, buf, a, segSamples)
  BY <1>1, <1>8 DEF Gathered
<1>10. InHand(sent, kept \o l, buf \o l, a, segSamples)
  BY <1>3, <1>4, <1>9, HandGrows
<1>11. InHand(sent, kept, buf, Advance, segSamples)'
  BY <1>2, <1>7, <1>8, <1>10
<1> QED BY <1>1, <1>6, <1>11, SegmentGoesOn

LEMMA SegmentSends ==
    ASSUME SegmentInv, SendSegment
    PROVE  SegmentInv'
<1>1. /\ Samples /\ Gathered /\ stage = "reading" /\ stage' = "reading" /\ untrimmed = <<>>
      /\ UNCHANGED <<config, taken, untrimmed, kept>> /\ segSamples \in Nat \ {0}
      /\ segSamples <= Len(buf) /\ sent' = Append(sent, SubSeq(buf, 1, segSamples))
      /\ buf' = SubSeq(buf, Advance + 1, Len(buf))
  BY DEF SegmentInv, Samples, SendSegment, Idle, Full
<1>2. /\ sent \in Seq(Seq(Int)) /\ kept \in Seq(Int) /\ buf \in Seq(Int)
      /\ overlapSamples \in Nat
  BY <1>1 DEF Samples
<1>3. PICK a \in 1..segSamples : a = Advance
  BY <1>1, <1>2, AdvanceIs
<1>4. InHand(sent, kept, buf, a, segSamples)
  BY <1>1, <1>3 DEF Gathered
<1>5. /\ sent' \in Seq(Seq(Int)) /\ buf' \in Seq(Int)
      /\ InHand(sent', kept, buf', a, segSamples)
  BY <1>1, <1>2, <1>3, <1>4, HandSends
<1>6. Samples'
  BY <1>1, <1>5 DEF Samples, config
<1>7. Advance' = Advance /\ segSamples' = segSamples /\ kept' = kept
  BY <1>1 DEF Advance, config
<1>8. InHand(sent, kept, buf, Advance, segSamples)'
  BY <1>3, <1>5, <1>7
<1> QED BY <1>1, <1>6, <1>8, SegmentGoesOn

LEMMA SegmentEnds ==
    ASSUME SegmentInv, SendRest
    PROVE  SegmentInv'
<1>1. /\ Samples /\ Gathered /\ stage = "reading" /\ stage' = "ended" /\ untrimmed = <<>>
      /\ UNCHANGED <<config, taken, untrimmed, buf, kept>>
      /\ sent' = IF buf = <<>> THEN sent ELSE Append(sent, buf)
  BY DEF SegmentInv, Samples, SendRest, Idle
<1>2. /\ sent \in Seq(Seq(Int)) /\ kept \in Seq(Int) /\ buf \in Seq(Int)
      /\ segSamples \in Nat /\ overlapSamples \in Nat
  BY <1>1 DEF Samples
<1>3. PICK a \in Nat : a = Advance /\ (segSamples > 0 => a \in 1..segSamples)
  BY <1>1, <1>2, AdvanceIs
<1>4. InHand(sent, kept, buf, a, segSamples)
  BY <1>1, <1>3 DEF Gathered
<1>5. sent' \in Seq(Seq(Int)) /\ Reached(sent', kept, a, segSamples)
  <2>1. CASE buf = <<>>
    BY <1>1, <1>2, <1>3, <1>4, <2>1, HandEnds
  <2>2. CASE buf # <<>>
    BY <1>1, <1>2, <1>3, <1>4, <2>2, HandEnds
  <2> QED BY <2>1, <2>2
<1>6. Samples'
  BY <1>1, <1>5 DEF Samples, config
<1>7. Advance' = Advance /\ segSamples' = segSamples /\ kept' = kept
  BY <1>1 DEF Advance, config
<1>8. Reached(sent, kept, Advance, segSamples)'
  BY <1>3, <1>5, <1>7
<1>9. SegmentsAreWindows'
  <2>1. (stage = "ended" /\ Reached(sent, kept, Advance, segSamples))' => SegmentsAreWindows'
    BY WindowsWere, PTL
  <2> QED BY <1>1, <1>8, <2>1
<1>10. Gathered'
  BY <1>1 DEF Gathered
<1> QED BY <1>6, <1>9, <1>10 DEF SegmentInv

LEMMA SegmentStep ==
    ASSUME SegmentInv, [TrackNext]_trackVars
    PROVE  SegmentInv'
<1>1. CASE UNCHANGED trackVars
  <2>1. UNCHANGED <<stage, segSamples, overlapSamples, taken, untrimmed, buf, sent, kept>>
    BY <1>1 DEF trackVars, config
  <2>2. Advance' = Advance
    BY <2>1 DEF Advance
  <2>3. Samples' /\ Gathered'
    BY <2>1, <2>2 DEF SegmentInv, Samples, Gathered
  <2>4. SegmentsAreWindows'
    BY <2>1 DEF SegmentInv, SegmentsAreWindows, Start, Advance
  <2> QED BY <2>3, <2>4 DEF SegmentInv
<1>2. CASE Get \/ SkipUnreadable \/ TranscribeFails
  <2>1. /\ stage = "reading" /\ stage' \in {"reading", "failed"} /\ untrimmed = <<>>
        /\ UNCHANGED <<config, buf, sent, kept>>
    BY <1>2 DEF Get, SkipUnreadable, TranscribeFails, NextKey, Idle
  <2>2. /\ taken \in Nat /\ taken' \in Nat /\ untrimmed' \in Seq(Int)
        /\ stage' = "failed" => untrimmed' = <<>>
    <3>1. CASE Get
      <4>1. taken \in Nat /\ taken' = taken + 1 /\ taken + 1 \in 1..MaxChunks
        BY <3>1, TrackAssumption DEF Get, NextKey, SegmentInv, Samples
      <4> QED BY <2>1, <3>1, <4>1, TrackAssumption DEF Get, Idle, NextKey
    <3>2. CASE SkipUnreadable
      BY <2>1, <3>2 DEF SkipUnreadable, NextKey, SegmentInv, Samples
    <3>3. CASE TranscribeFails
      BY <2>1, <3>3 DEF TranscribeFails, SegmentInv, Samples
    <3> QED BY <1>2, <3>1, <3>2, <3>3
  <2>3. Samples'
    BY <2>1, <2>2 DEF SegmentInv, Samples, config
  <2>4. Advance' = Advance /\ segSamples' = segSamples
    BY <2>1 DEF Advance, config
  <2>5. InHand(sent, kept, buf, Advance, segSamples)'
    BY <2>1, <2>4 DEF SegmentInv, Gathered
  <2> QED BY <2>1, <2>3, <2>5, SegmentGoesOn
<1> QED BY <1>1, <1>2, SegmentBegins, SegmentTrims, SegmentSends, SegmentEnds DEF TrackNext

LEMMA TrackStarts == TrackInit => SegmentInv
<1> SUFFICES ASSUME TrackInit PROVE SegmentInv
  OBVIOUS
<1>1. Samples
  BY EmptySeq DEF TrackInit, Samples
<1>2. PICK a \in Nat : a = Advance
  BY <1>1, AdvanceIs DEF Samples
<1>3. InHand(<<>>, <<>>, <<>>, a, 0)
  <2>1. Len(<<>>) = 0 /\ SubSeq(<<>>, 1, 0) = <<>> /\ From(a, 1) = 1
    BY SubSeqEmpty, FromIs
  <2> QED BY <2>1 DEF InHand
<1>4. InHand(sent, kept, buf, Advance, segSamples) /\ stage # "ended"
  BY <1>2, <1>3 DEF TrackInit
<1> QED BY <1>1, <1>4, WindowsWere DEF SegmentInv, Gathered

(* transcribeUserTrack (transcribe.go:252-338) keeps, after each segment,    *)
(* the context the next one repeats (lines 315-329) and sends the rest in    *)
(* the end: whatever the chunks hold and whichever of them Get fails on, the *)
(* segments are the windows of the trimmed track one advance apart, and once *)
(* it has ended the last of them reaches the end of the track.               *)
THEOREM WindowsOfTheTrack == TrackSpec => []SegmentsAreWindows
<1>1. TrackInit => SegmentInv
  BY TrackStarts
<1>2. SegmentInv /\ [TrackNext]_trackVars => SegmentInv'
  BY SegmentStep
<1>3. SegmentInv => SegmentsAreWindows
  BY DEF SegmentInv
<1> QED BY <1>1, <1>2, <1>3, PTL DEF TrackSpec
-----------------------------------------------------------------------------
(* A number of a set of naturals is the least. *)
LEMMA LeastNumber ==
    ASSUME NEW T \in SUBSET Nat, T # {}
    PROVE  \E m \in T : \A k \in T : m <= k
<1>1. IsWellFoundedOn(OpToRel(<, Nat), Nat)
  BY NatLessThanWellFounded
<1>2. PICK m \in T : \A k \in T : <<k, m>> \notin OpToRel(<, Nat)
  BY <1>1, WFMin
<1>3. \A k \in T : ~(k < m)
  BY <1>2 DEF OpToRel
<1> QED BY <1>3

LEMMA DivisionIs ==
    ASSUME NEW a \in Nat, NEW n \in Nat \ {0}
    PROVE  \E q \in Int, p \in Nat : q = a \div n /\ p = a % n /\ p < n /\ a = n * q + p
OBVIOUS

LEMMA MultipleIs ==
    ASSUME NEW a \in Nat, NEW n \in Nat \ {0}, a % n = 0
    PROVE  \E k \in Nat : a = k * n
<1>1. PICK q \in Int, p \in Nat : p = a % n /\ a = n * q + p
  BY DivisionIs
<1>2. a = q * n
  BY <1>1
<1>3. q \in Nat
  <2>1. CASE q < 0
    <3>1. q * n < 0
      BY <2>1
    <3> QED BY <1>2, <3>1
  <2> QED BY <2>1
<1> QED BY <1>2, <1>3

LEMMA ProductGrows ==
    ASSUME NEW n \in Nat, NEW a \in Int, NEW b \in Int, a <= b
    PROVE  a * n <= b * n
<1>1. (b - a) * n >= 0 /\ b * n = a * n + (b - a) * n
  OBVIOUS
<1>2. a * n \in Int /\ b * n \in Int /\ (b - a) * n \in Int
  OBVIOUS
<1> QED BY <1>1, <1>2

LEMMA QuotientIs ==
    ASSUME NEW n \in Nat \ {0}, NEW k \in Nat, NEW r \in 0..(n - 1)
    PROVE  (k * n + r) \div n = k
<1>1. PICK q \in Int, p \in Nat : /\ q = (k * n + r) \div n /\ p < n
                                  /\ k * n + r = n * q + p
  <2>1. PICK m \in Nat : m = k * n + r
    <3>1. k * n \in Nat
      OBVIOUS
    <3> QED BY <3>1
  <2>2. \E q \in Int, p \in Nat : q = m \div n /\ p < n /\ m = n * q + p
    BY DivisionIs
  <2> QED BY <2>1, <2>2, Zenon
<1>2. CASE q >= k + 1
  <2>1. (k + 1) * n <= q * n
    BY <1>2, ProductGrows
  <2>2. (k + 1) * n = k * n + n /\ q * n = n * q /\ k * n \in Nat /\ n * q \in Int
    OBVIOUS
  <2> QED BY <1>1, <2>1, <2>2
<1>3. CASE q + 1 <= k
  <2>1. (q + 1) * n <= k * n
    BY <1>3, ProductGrows
  <2>2. (q + 1) * n = n * q + n /\ k * n \in Nat /\ n * q \in Int
    OBVIOUS
  <2> QED BY <1>1, <2>1, <2>2
<1> QED BY <1>1, <1>2, <1>3

LEMMA LeastOfTwo ==
    ASSUME NEW a \in Int, NEW b \in Int, a <= b
    PROVE  Min({a, b}) = a
<1>1. a \in {a, b} /\ \A y \in {a, b} : a <= y
  OBVIOUS
<1>2. ASSUME NEW x \in {a, b}, \A y \in {a, b} : x <= y PROVE x = a
  BY <1>2
<1> HIDE DEF Min
<1>3. Min({a, b}) = CHOOSE x \in {a, b} : \A y \in {a, b} : x <= y
  BY DEF Min
<1> QED BY <1>1, <1>2, <1>3

(* s is k pieces of n. *)
Whole(s, n, k) == Len(s) = k * n

(* p is the n samples of s that come after the a-th. *)
IsPiece(p, s, n, a) ==
    /\ p \in Seq(Int) /\ Len(p) = n /\ a \in Nat /\ a + n <= Len(s)
    /\ \A j \in 1..n : p[j] = s[a + j]

LEMMA SamePiece ==
    ASSUME NEW p, NEW q, NEW s, NEW t, NEW n \in Nat, NEW a, NEW c,
           IsPiece(p, s, n, a), IsPiece(q, t, n, c), \A j \in 1..n : s[a + j] = t[c + j]
    PROVE  p = q
<1>1. /\ p \in Seq(Int) /\ q \in Seq(Int) /\ Len(p) = n /\ Len(q) = n
      /\ \A j \in 1..n : p[j] = q[j]
  BY DEF IsPiece
<1> QED BY <1>1, SeqEqual

(* The pieces of a whole number of them. *)
LEMMA PiecesAre ==
    ASSUME NEW s \in Seq(Int), NEW n \in Nat \ {0}, NEW k \in Nat, Whole(s, n, k)
    PROVE  /\ Pieces(s, n) \in Seq(Seq(Int)) /\ Len(Pieces(s, n)) = k
           /\ \A i \in 1..k : IsPiece(Pieces(s, n)[i], s, n, (i - 1) * n)
<1>0. Len(s) = k * n
  BY DEF Whole
<1>1. (Len(s) + n - 1) \div n = k
  <2>1. (k * n + (n - 1)) \div n = k
    BY QuotientIs, SMTT(20)
  <2>2. k * n + (n - 1) = Len(s) + n - 1
    <3>1. k * n \in Nat
      OBVIOUS
    <3> QED BY <1>0, <3>1
  <2> QED BY <2>1, <2>2
<1>2. Pieces(s, n) = [i \in 1..k |-> SubSeq(s, (i - 1) * n + 1, Min({i * n, Len(s)}))]
  BY <1>1 DEF Pieces
<1>3. ASSUME NEW i \in 1..k PROVE IsPiece(Pieces(s, n)[i], s, n, (i - 1) * n)
  <2>1. PICK a \in Nat, b \in Nat : a = (i - 1) * n /\ b = i * n
    <3>1. (i - 1) * n \in Nat /\ i * n \in Nat
      OBVIOUS
    <3> QED BY <3>1
  <2>2. b = a + n
    <3>1. i * n = (i - 1) * n + n
      OBVIOUS
    <3> QED BY <2>1, <3>1
  <2>3. b <= Len(s) /\ Len(s) \in Nat
    BY <1>0, <2>1, ProductGrows, LenProperties
  <2>4. Min({b, Len(s)}) = b
    BY <2>3, LeastOfTwo
  <2>5. Pieces(s, n)[i] = SubSeq(s, a + 1, b)
    BY <1>2, <2>1, <2>4
  <2>6. \A j \in (a + 1)..b : s[j] \in Int
    BY <2>3, ElementOfSeq
  <2>7. /\ SubSeq(s, a + 1, b) \in Seq(Int) /\ Len(SubSeq(s, a + 1, b)) = n
        /\ \A j \in 1..n : SubSeq(s, a + 1, b)[j] = s[a + j]
    <3>1. /\ SubSeq(s, a + 1, b) \in Seq(Int)
          /\ Len(SubSeq(s, a + 1, b)) = IF a + 1 <= b THEN b - (a + 1) + 1 ELSE 0
          /\ \A j \in 1..(b - (a + 1) + 1) : SubSeq(s, a + 1, b)[j] = s[a + 1 + j - 1]
      BY <2>6, SubSeqProperties
    <3>2. b - (a + 1) + 1 = n /\ a + 1 <= b /\ \A j \in 1..n : a + 1 + j - 1 = a + j
      BY <2>2
    <3> QED BY <3>1, <3>2
  <2>8. IsPiece(Pieces(s, n)[i], s, n, a)
    BY <2>2, <2>3, <2>5, <2>7 DEF IsPiece
  <2> QED BY <2>1, <2>8
<1>4. Pieces(s, n) \in Seq(Seq(Int)) /\ Len(Pieces(s, n)) = k
  <2> DEFINE e(i) == SubSeq(s, (i - 1) * n + 1, Min({i * n, Len(s)}))
  <2>1. \A i \in 1..k : e(i) \in Seq(Int)
    <3>1. ASSUME NEW i \in 1..k PROVE e(i) \in Seq(Int)
      <4>1. Pieces(s, n)[i] = e(i)
        BY <1>2
      <4>2. Pieces(s, n)[i] \in Seq(Int)
        BY <1>3 DEF IsPiece
      <4> HIDE DEF e
      <4> QED BY <4>1, <4>2
    <3> QED BY <3>1
  <2>2. Pieces(s, n) = [i \in 1..k |-> e(i)]
    BY <1>2
  <2> HIDE DEF e
  <2>3. [i \in 1..k |-> e(i)] \in Seq(Seq(Int))
    BY <2>1, IsASeq
  <2>4. Len([i \in 1..k |-> e(i)]) = k
    OBVIOUS
  <2> QED BY <2>2, <2>3, <2>4
<1> QED BY <1>3, <1>4

(* What TrimSilence has after n frames, and that it is the value of the     *)
(* recursive function: one exists for any number of frames.                 *)
LEMMA TrimmedIs ==
    ASSUME NEW frames, NEW rms, Len(frames) \in Nat
    PROVE  /\ Trimmed(frames, rms)[0] = <<>>
           /\ \A n \in 1..Len(frames) :
                 Trimmed(frames, rms)[n] =
                     IF Stays(frames[n], rms) THEN Trimmed(frames, rms)[n - 1] \o frames[n]
                     ELSE Trimmed(frames, rms)[n - 1]
<1> DEFINE good(g, m) ==
               g = [n \in 0..m |->
                       IF n = 0 THEN <<>>
                       ELSE IF Stays(frames[n], rms) THEN g[n - 1] \o frames[n] ELSE g[n - 1]]
           T == {m \in Nat : ~\E g : good(g, m)}
<1>1. T = {}
  <2>1. SUFFICES ASSUME T # {} PROVE FALSE
    OBVIOUS
  <2>2. PICK m \in T : \A k \in T : m <= k
    BY <2>1, LeastNumber
  <2>3. m # 0
    <3>1. good([n \in 0..0 |-> <<>>], 0)
      OBVIOUS
    <3> QED BY <2>2, <3>1
  <2>4. PICK g : good(g, m - 1)
    <3>1. m - 1 \in Nat /\ ~(m <= m - 1)
      BY <2>2, <2>3
    <3> QED BY <2>2, <3>1
  <2> DEFINE h == [n \in 0..m |->
                      IF n = 0 THEN <<>>
                      ELSE IF Stays(frames[n], rms) THEN g[n - 1] \o frames[n] ELSE g[n - 1]]
  <2>5. \A n \in 0..(m - 1) : h[n] = g[n]
    <3>1. ASSUME NEW n \in 0..(m - 1) PROVE h[n] = g[n]
      <4>1. n \in 0..m
        BY <2>2
      <4> QED BY <2>4, <4>1
    <3> QED BY <3>1
  <2>6. good(h, m)
    <3>1. \A n \in 1..m : h[n - 1] = g[n - 1]
      <4>1. \A n \in 1..m : n - 1 \in 0..(m - 1)
        BY <2>2
      <4> HIDE DEF h
      <4> QED BY <2>5, <4>1
    <3>2. \A n \in 0..m : n # 0 => n \in 1..m
      BY <2>2
    <3>3. ASSUME NEW n \in 0..m
          PROVE  (IF n = 0 THEN <<>>
                  ELSE IF Stays(frames[n], rms) THEN g[n - 1] \o frames[n] ELSE g[n - 1])
                 = (IF n = 0 THEN <<>>
                    ELSE IF Stays(frames[n], rms) THEN h[n - 1] \o frames[n] ELSE h[n - 1])
      <4>1. CASE n = 0
        BY <4>1
      <4>2. CASE n # 0
        <5>1. h[n - 1] = g[n - 1]
          BY <3>1, <3>2, <4>2
        <5> HIDE DEF h
        <5> QED BY <4>2, <5>1
      <4> QED BY <4>1, <4>2
    <3>4. h = [n \in 0..m |->
                  IF n = 0 THEN <<>>
                  ELSE IF Stays(frames[n], rms) THEN g[n - 1] \o frames[n] ELSE g[n - 1]]
      OBVIOUS
    <3> HIDE DEF h
    <3> QED BY <3>3, <3>4
  <2> QED BY <2>2, <2>6
<1>2. \E g : good(g, Len(frames))
  BY <1>1
<1>3. good(Trimmed(frames, rms), Len(frames))
  BY <1>2 DEF Trimmed
<1>4. PICK g : g = Trimmed(frames, rms) /\ good(g, Len(frames))
  BY <1>3
<1>5. g[0] = <<>>
  <2>1. 0 \in 0..Len(frames)
    OBVIOUS
  <2> QED BY <1>4, <2>1
<1>6. ASSUME NEW n \in 1..Len(frames)
      PROVE  g[n] = IF Stays(frames[n], rms) THEN g[n - 1] \o frames[n] ELSE g[n - 1]
  <2>1. n \in 0..Len(frames) /\ n # 0
    OBVIOUS
  <2> QED BY <1>4, <2>1
<1> QED BY <1>4, <1>5, <1>6

Begins(frames, longer) ==
    /\ Len(frames) \in Nat /\ Len(longer) \in Nat /\ Len(frames) <= Len(longer)
    /\ \A n \in 1..Len(frames) : frames[n] = longer[n]

(* What comes after them does not change it. *)
LEMMA TrimmedGrows ==
    ASSUME NEW frames, NEW longer, NEW rms, Begins(frames, longer), NEW few \in 0..Len(frames)
    PROVE  Trimmed(frames, rms)[few] = Trimmed(longer, rms)[few]
<1> DEFINE T == {n \in 0..Len(frames) : Trimmed(frames, rms)[n] # Trimmed(longer, rms)[n]}
<1>0. /\ Len(frames) \in Nat /\ Len(longer) \in Nat /\ Len(frames) <= Len(longer)
      /\ \A n \in 1..Len(frames) : frames[n] = longer[n]
  BY DEF Begins
<1>1. SUFFICES ASSUME T # {} PROVE FALSE
  OBVIOUS
<1>2. PICK n \in T : \A k \in T : n <= k
  <2>1. T \subseteq Nat
    BY <1>0
  <2> QED BY <1>1, <2>1, LeastNumber
<1>3. n # 0
  BY <1>0, <1>2, TrimmedIs
<1>4. n \in 1..Len(frames) /\ n \in 1..Len(longer) /\ n - 1 \in 0..Len(frames) /\ ~(n <= n - 1)
  BY <1>0, <1>2, <1>3
<1>5. Trimmed(frames, rms)[n - 1] = Trimmed(longer, rms)[n - 1]
  BY <1>2, <1>4
<1>6. frames[n] = longer[n]
  BY <1>0, <1>4
<1>7. Trimmed(frames, rms)[n] = Trimmed(longer, rms)[n]
  BY <1>0, <1>4, <1>5, <1>6, TrimmedIs
<1> QED BY <1>2, <1>7

(* all is the k frames done and one more.                                    *)
Joined(all, done, frame, k) ==
    all = done \o frame /\ Whole(done, FrameSamples, k) /\ Len(frame) = FrameSamples

(* Trimming per chunk matches trimming the concatenated track, a frame at a  *)
(* time: a frame after whole frames stays or goes by itself.                 *)
LEMMA SilenceTrims ==
    ASSUME NEW done \in Seq(Int), NEW frame \in Seq(Int), NEW k \in Nat, NEW rms,
           NEW all, Joined(all, done, frame, k)
    PROVE  TrimSilence(all, rms) = IF Stays(frame, rms) THEN TrimSilence(done, rms) \o frame
                                   ELSE TrimSilence(done, rms)
<1>0. all = done \o frame /\ Whole(done, FrameSamples, k) /\ Len(frame) = FrameSamples
  BY DEF Joined
<1>1. FrameSamples \in Nat \ {0}
  BY TrackAssumption
<1>2. all \in Seq(Int)
  BY <1>0, ConcatProperties
<1>3. /\ Len(all) = Len(done) + FrameSamples
      /\ \A i \in 1..Len(done) : all[i] = done[i]
      /\ \A i \in 1..FrameSamples : all[Len(done) + i] = frame[i]
  <2>1. /\ Len(all) = Len(done) + FrameSamples /\ Len(done) \in Nat
        /\ \A i \in 1..(Len(done) + FrameSamples) :
              all[i] = IF i <= Len(done) THEN done[i] ELSE frame[i - Len(done)]
    BY <1>0, ConcatProperties, LenProperties
  <2>2. ASSUME NEW i \in 1..FrameSamples PROVE all[Len(done) + i] = frame[i]
    <3>1. PICK j \in 1..(Len(done) + FrameSamples) :
             j = Len(done) + i /\ ~(j <= Len(done)) /\ j - Len(done) = i
      <4>1. Len(done) + i \in 1..(Len(done) + FrameSamples)
        BY <1>1, <2>1
      <4>2. ~(Len(done) + i <= Len(done)) /\ Len(done) + i - Len(done) = i
        BY <1>1, <2>1
      <4> QED BY <4>1, <4>2
    <3> QED BY <2>1, <3>1
  <2> QED BY <1>1, <2>1, <2>2
<1>4. Whole(all, FrameSamples, k + 1) /\ k + 1 \in Nat
  <2>1. (k + 1) * FrameSamples = k * FrameSamples + FrameSamples
    BY <1>1
  <2> QED BY <1>0, <1>3, <2>1 DEF Whole
<1>5. PICK few, more : few = Pieces(done, FrameSamples) /\ more = Pieces(all, FrameSamples)
  OBVIOUS
<1>6. Len(few) = k /\ \A i \in 1..k : IsPiece(few[i], done, FrameSamples, (i - 1) * FrameSamples)
  <2>1. /\ Len(Pieces(done, FrameSamples)) = k
        /\ \A i \in 1..k : IsPiece(Pieces(done, FrameSamples)[i], done, FrameSamples,
                                   (i - 1) * FrameSamples)
    BY <1>0, <1>1, PiecesAre
  <2> QED BY <1>5, <2>1
<1>7. /\ Len(more) = k + 1
      /\ \A i \in 1..(k + 1) : IsPiece(more[i], all, FrameSamples, (i - 1) * FrameSamples)
  <2>1. /\ Len(Pieces(all, FrameSamples)) = k + 1
        /\ \A i \in 1..(k + 1) : IsPiece(Pieces(all, FrameSamples)[i], all, FrameSamples,
                                         (i - 1) * FrameSamples)
    BY <1>1, <1>2, <1>4, PiecesAre
  <2> QED BY <1>5, <2>1
<1>8. ASSUME NEW i \in 1..k PROVE few[i] = more[i]
  <2>1. PICK a : a = (i - 1) * FrameSamples
    OBVIOUS
  <2>2. i \in 1..(k + 1)
    OBVIOUS
  <2>3. IsPiece(few[i], done, FrameSamples, a) /\ IsPiece(more[i], all, FrameSamples, a)
    BY <1>6, <1>7, <2>1, <2>2
  <2>4. ASSUME NEW j \in 1..FrameSamples PROVE done[a + j] = all[a + j]
    <3>1. a \in Nat /\ a + FrameSamples <= Len(done) /\ Len(done) \in Nat
      BY <2>3, LenProperties DEF IsPiece
    <3>2. a + j \in 1..Len(done)
      BY <1>1, <3>1
    <3> QED BY <1>3, <3>2
  <2>5. FrameSamples \in Nat
    BY <1>1
  <2> QED BY <2>3, <2>4, <2>5, SamePiece
<1>9. more[k + 1] = frame
  <2>1. k + 1 \in 1..(k + 1) /\ (k + 1) - 1 = k
    OBVIOUS
  <2>2. PICK a : a = k * FrameSamples
    OBVIOUS
  <2>3. IsPiece(more[k + 1], all, FrameSamples, a)
    BY <1>7, <2>1, <2>2
  <2>4. IsPiece(frame, frame, FrameSamples, 0)
    BY <1>0, <1>1 DEF IsPiece
  <2>5. \A j \in 1..FrameSamples : all[a + j] = frame[0 + j]
    BY <1>0, <1>3, <2>2 DEF Whole
  <2>6. FrameSamples \in Nat
    BY <1>1
  <2> QED BY <2>3, <2>4, <2>5, <2>6, SamePiece
<1>10. PICK before, after : before = Trimmed(few, rms) /\ after = Trimmed(more, rms)
  OBVIOUS
<1>11. before[k] = after[k]
  <2>1. k \in 0..k /\ k <= k + 1
    OBVIOUS
  <2>2. Len(few) \in Nat /\ Len(more) \in Nat /\ Len(few) <= Len(more)
    BY <1>6, <1>7
  <2>3. Begins(few, more)
    BY <1>6, <1>8, <2>2 DEF Begins
  <2>4. k \in 0..Len(few)
    BY <1>6, <2>1
  <2>5. Trimmed(few, rms)[k] = Trimmed(more, rms)[k]
    BY <2>3, <2>4, TrimmedGrows
  <2> QED BY <1>10, <2>5
<1>12. after[k + 1] = IF Stays(frame, rms) THEN after[k] \o frame ELSE after[k]
  <2>1. k + 1 \in 1..(k + 1) /\ (k + 1) - 1 = k /\ k + 1 \in Nat
    OBVIOUS
  <2>2. \A n \in 1..Len(more) :
           after[n] = IF Stays(more[n], rms) THEN after[n - 1] \o more[n] ELSE after[n - 1]
    <3>1. Len(more) \in Nat
      BY <1>7, <2>1
    <3>2. \A n \in 1..Len(more) :
             Trimmed(more, rms)[n] =
                 IF Stays(more[n], rms) THEN Trimmed(more, rms)[n - 1] \o more[n]
                 ELSE Trimmed(more, rms)[n - 1]
      BY <3>1, TrimmedIs
    <3> QED BY <1>10, <3>2
  <2>3. after[k + 1] = IF Stays(more[k + 1], rms) THEN after[(k + 1) - 1] \o more[k + 1]
                       ELSE after[(k + 1) - 1]
    BY <1>7, <2>1, <2>2
  <2> QED BY <1>9, <2>1, <2>3
<1>13. TrimSilence(done, rms) = before[k] /\ TrimSilence(all, rms) = after[k + 1]
  BY <1>5, <1>6, <1>7, <1>10 DEF TrimSilence
<1> QED BY <1>11, <1>12, <1>13

LEMMA NothingTrims ==
    ASSUME NEW rms
    PROVE  TrimSilence(<<>>, rms) = <<>>
<1>1. <<>> \in Seq(Int) /\ Whole(<<>>, FrameSamples, 0) /\ FrameSamples \in Nat \ {0}
  BY TrackAssumption DEF Whole
<1>2. PICK none : none = Pieces(<<>>, FrameSamples)
  OBVIOUS
<1>3. Len(none) = 0
  <2>1. Len(Pieces(<<>>, FrameSamples)) = 0
    BY <1>1, PiecesAre
  <2> QED BY <1>2, <2>1
<1>4. Trimmed(none, rms)[0] = <<>>
  BY <1>3, TrimmedIs
<1> QED BY <1>2, <1>3, <1>4 DEF TrimSilence

(* Downmixing a segment matches downmixing the recording.                    *)
LEMMA DownmixIs ==
    ASSUME NEW s \in Seq(Int), NEW k \in Nat, Whole(s, Channels, k)
    PROVE  /\ Len(DownmixToMono(s)) = k
           /\ DownmixToMono(s) = [i \in 1..k |-> Mean(Pieces(s, Channels)[i])]
<1>1. Channels \in Nat \ {0}
  BY TrackAssumption
<1>2. Len(Pieces(s, Channels)) = k
  BY <1>1, PiecesAre
<1>3. DownmixToMono(s) = [i \in 1..k |-> Mean(Pieces(s, Channels)[i])]
  BY <1>2 DEF DownmixToMono
<1> QED BY <1>3

LEMMA DownmixSlice ==
    ASSUME NEW s \in Seq(Int), NEW k \in Nat, Whole(s, Channels, k),
           NEW a \in 0..k, NEW b \in a..k
    PROVE  /\ DownmixToMono(SubSeq(s, a * Channels + 1, b * Channels)) =
                  SubSeq(DownmixToMono(s), a + 1, b)
           /\ Len(DownmixToMono(SubSeq(s, a * Channels + 1, b * Channels))) = b - a
<1>1. Channels \in Nat \ {0}
  BY TrackAssumption
<1>2. PICK x \in Nat, y \in Nat : x = a * Channels /\ y = b * Channels
  <2>1. a * Channels \in Nat /\ b * Channels \in Nat
    BY <1>1
  <2> QED BY <2>1
<1>3. x <= y /\ y <= Len(s) /\ Len(s) \in Nat
  BY <1>1, <1>2, ProductGrows, LenProperties DEF Whole
<1>4. y - x = (b - a) * Channels /\ b - a \in Nat
  <2>1. b * Channels = a * Channels + (b - a) * Channels /\ (b - a) * Channels \in Int
    BY <1>1
  <2> QED BY <1>2, <2>1
<1>5. PICK part \in Seq(Int) : /\ part = SubSeq(s, x + 1, y) /\ Len(part) = y - x
                               /\ \A i \in 1..(y - x) : part[i] = s[x + i]
  <2>1. \A i \in (x + 1)..y : s[i] \in Int
    BY <1>3, ElementOfSeq
  <2>2. /\ SubSeq(s, x + 1, y) \in Seq(Int)
        /\ Len(SubSeq(s, x + 1, y)) = IF x + 1 <= y THEN y - (x + 1) + 1 ELSE 0
        /\ \A i \in 1..(y - (x + 1) + 1) : SubSeq(s, x + 1, y)[i] = s[x + 1 + i - 1]
    <3>1. x + 1 \in Int /\ y \in Int
      OBVIOUS
    <3> QED BY <2>1, <3>1, SubSeqProperties
  <2>3. /\ y - (x + 1) + 1 = y - x /\ (x + 1 <= y \/ y - x = 0)
        /\ \A i \in 1..(y - x) : x + 1 + i - 1 = x + i
    BY <1>3
  <2>4. PICK p : p = SubSeq(s, x + 1, y)
    OBVIOUS
  <2>5. p \in Seq(Int) /\ Len(p) = y - x
    BY <1>3, <2>2, <2>3, <2>4
  <2>6. \A i \in 1..(y - x) : p[i] = s[x + i]
    BY <2>2, <2>3, <2>4
  <2> QED BY <2>4, <2>5, <2>6
<1>6. PICK all, mine : all = Pieces(s, Channels) /\ mine = Pieces(part, Channels)
  OBVIOUS
<1>7. \A i \in 1..k : IsPiece(all[i], s, Channels, (i - 1) * Channels)
  <2>1. \A i \in 1..k : IsPiece(Pieces(s, Channels)[i], s, Channels, (i - 1) * Channels)
    BY <1>1, PiecesAre
  <2> QED BY <1>6, <2>1
<1>8. \A i \in 1..(b - a) : IsPiece(mine[i], part, Channels, (i - 1) * Channels)
  <2>1. Whole(part, Channels, b - a)
    BY <1>4, <1>5 DEF Whole
  <2>2. \A i \in 1..(b - a) : IsPiece(Pieces(part, Channels)[i], part, Channels, (i - 1) * Channels)
    BY <1>1, <1>4, <2>1, PiecesAre
  <2> QED BY <1>6, <2>2
<1>9. ASSUME NEW i \in 1..(b - a) PROVE mine[i] = all[a + i] /\ a + i \in 1..k
  <2>1. a + i \in 1..k
    OBVIOUS
  <2>2. PICK z : z = (i - 1) * Channels
    OBVIOUS
  <2>3. IsPiece(mine[i], part, Channels, z)
    BY <1>8, <2>2
  <2>4. z \in Nat /\ z + Channels <= y - x
    BY <1>5, <2>3 DEF IsPiece
  <2>5. (a + i - 1) * Channels = x + z
    <3>1. (a + i - 1) * Channels = a * Channels + (i - 1) * Channels
      BY <1>1
    <3> QED BY <1>2, <2>2, <3>1
  <2>6. IsPiece(all[a + i], s, Channels, x + z)
    BY <1>7, <2>1, <2>5
  <2>7. ASSUME NEW j \in 1..Channels PROVE part[z + j] = s[(x + z) + j]
    <3>1. z + j \in 1..(y - x) /\ x + (z + j) = (x + z) + j
      BY <1>1, <1>3, <2>4
    <3> QED BY <1>5, <3>1
  <2>8. Channels \in Nat
    BY <1>1
  <2>9. mine[i] = all[a + i]
    BY <2>3, <2>6, <2>7, <2>8, SamePiece
  <2> QED BY <2>1, <2>9
<1>10. DownmixToMono(s) = [i \in 1..k |-> Mean(all[i])]
  BY <1>6, DownmixIs
<1>11. /\ DownmixToMono(part) = [i \in 1..(b - a) |-> Mean(mine[i])]
       /\ Len(DownmixToMono(part)) = b - a
  <2>1. Whole(part, Channels, b - a)
    BY <1>4, <1>5 DEF Whole
  <2> QED BY <1>4, <1>6, <2>1, DownmixIs
<1>12. SubSeq(DownmixToMono(s), a + 1, b) = [i \in 1..(b - a) |-> Mean(mine[i])]
  <2>1. SubSeq(DownmixToMono(s), a + 1, b) =
            [i \in 1..(b - (a + 1) + 1) |-> DownmixToMono(s)[a + 1 + i - 1]]
    BY DEF SubSeq
  <2>2. b - (a + 1) + 1 = b - a
    OBVIOUS
  <2>3. ASSUME NEW i \in 1..(b - a) PROVE DownmixToMono(s)[a + 1 + i - 1] = Mean(mine[i])
    <3>1. a + 1 + i - 1 = a + i /\ a + i \in 1..k /\ mine[i] = all[a + i]
      BY <1>9
    <3> QED BY <1>10, <3>1
  <2> QED BY <2>1, <2>2, <2>3
<1> QED BY <1>2, <1>5, <1>11, <1>12

(* Of the samples read, r, those before what is yet to be trimmed, u, are    *)
(* whole frames, and what was kept, k, is what TrimSilence makes of them.    *)
Seen(r, u, k, rms) ==
    \E seen \in Seq(Int), i, j, l \in Nat :
        /\ r = seen \o u /\ Whole(seen, FrameSamples, i) /\ Whole(u, FrameSamples, j)
        /\ k = TrimSilence(seen, rms) /\ Whole(k, FrameSamples, l)
HeardInv ==
    /\ SegmentInv /\ read \in Seq(Int)
    /\ Seen(read, untrimmed, kept, threshold)
    /\ segSamples % Channels = 0 /\ overlapSamples % Channels = 0
    /\ stage = "idle" => read = <<>> /\ kept = <<>>

LEMMA NothingSeen ==
    ASSUME NEW rms
    PROVE  Seen(<<>>, <<>>, <<>>, rms)
<1>1. Whole(<<>>, FrameSamples, 0) /\ <<>> \in Seq(Int) /\ <<>> \o <<>> = <<>> /\ 0 \in Nat
  <2>1. FrameSamples \in Nat
    BY TrackAssumption
  <2>2. <<>> \in Seq(Int) /\ Len(<<>>) = 0 /\ 0 * FrameSamples = 0
    BY <2>1, EmptySeq
  <2> QED BY <2>2, ConcatEmptySeq DEF Whole
<1>2. <<>> = TrimSilence(<<>>, rms)
  BY NothingTrims
<1> QED BY <1>1, <1>2 DEF Seen

LEMMA SeenGets ==
    ASSUME NEW r \in Seq(Int), NEW k \in Seq(Int), NEW pcm \in Seq(Int), NEW rms,
           Seen(r, <<>>, k, rms), Len(pcm) % FrameSamples = 0
    PROVE  Seen(r \o pcm, pcm, k, rms)
<1>1. PICK seen \in Seq(Int), i \in Nat, l \in Nat :
         /\ r = seen \o <<>> /\ Whole(seen, FrameSamples, i)
         /\ k = TrimSilence(seen, rms) /\ Whole(k, FrameSamples, l)
  BY DEF Seen
<1>2. r = seen
  BY <1>1, ConcatEmptySeq
<1>3. PICK j \in Nat : Whole(pcm, FrameSamples, j)
  <2>1. FrameSamples \in Nat \ {0} /\ Len(pcm) \in Nat
    BY TrackAssumption, LenProperties
  <2>2. \E j \in Nat : Len(pcm) = j * FrameSamples
    BY <2>1, MultipleIs
  <2> QED BY <2>2 DEF Whole
<1> QED BY <1>1, <1>2, <1>3 DEF Seen

LEMMA Regrouped ==
    ASSUME NEW s \in Seq(Int), NEW t \in Seq(Int), NEW v \in Seq(Int)
    PROVE  (s \o t) \o v = s \o (t \o v)
BY ConcatAssociative, SMTT(20)

(* A frame goes over from what is to be trimmed to what is seen.             *)
Moved(seen, u, n, frame, rest, done) ==
    /\ frame = SubSeq(u, 1, n) /\ rest = SubSeq(u, n + 1, Len(u))
    /\ Len(frame) = n /\ Len(rest) = Len(u) - n
    /\ done = seen \o frame /\ seen \o u = done \o rest

LEMMA FrameOff ==
    ASSUME NEW seen \in Seq(Int), NEW u \in Seq(Int), NEW n \in Nat \ {0}, n <= Len(u)
    PROVE  \E frame, rest, done \in Seq(Int) : Moved(seen, u, n, frame, rest, done)
<1>1. Len(u) \in Nat /\ \A m \in 1..Len(u) : u[m] \in Int
  BY LenProperties, ElementOfSeq
<1>2. PICK frame, rest : frame = SubSeq(u, 1, n) /\ rest = SubSeq(u, n + 1, Len(u))
  OBVIOUS
<1>3. frame \in Seq(Int) /\ Len(frame) = n
  <2>1. /\ SubSeq(u, 1, n) \in Seq(Int)
        /\ Len(SubSeq(u, 1, n)) = IF 1 <= n THEN n - 1 + 1 ELSE 0
    <3>1. \A m \in 1..n : u[m] \in Int
      BY <1>1
    <3> QED BY <3>1, SubSeqProperties
  <2> QED BY <1>2, <2>1
<1>4. rest \in Seq(Int) /\ Len(rest) = Len(u) - n
  <2>1. /\ SubSeq(u, n + 1, Len(u)) \in Seq(Int)
        /\ Len(SubSeq(u, n + 1, Len(u))) =
               IF n + 1 <= Len(u) THEN Len(u) - (n + 1) + 1 ELSE 0
    <3>1. (\A m \in (n + 1)..Len(u) : u[m] \in Int) /\ n + 1 \in Int /\ Len(u) \in Int
      BY <1>1
    <3> QED BY <3>1, SubSeqProperties
  <2> QED BY <1>1, <1>2, <2>1
<1>5. frame \o rest = u
  <2>1. 1 \in 1..(Len(u) + 1) /\ n \in (1 - 1)..Len(u) /\ Len(u) \in n..Len(u)
    BY <1>1
  <2>2. SubSeq(u, 1, n) \o SubSeq(u, n + 1, Len(u)) = SubSeq(u, 1, Len(u))
    BY <2>1, ConcatAdjacentSubSeq
  <2> QED BY <1>2, <2>2, SubSeqFull
<1>6. seen \o frame \in Seq(Int)
  BY <1>3, ConcatProperties
<1>7. (seen \o frame) \o rest = seen \o (frame \o rest)
  <2>1. frame \in Seq(Int) /\ rest \in Seq(Int)
    BY <1>3, <1>4
  <2> QED BY <2>1, Regrouped
<1> QED BY <1>2, <1>3, <1>4, <1>5, <1>6, <1>7 DEF Moved

Remains(frame, rms) == IF Stays(frame, rms) THEN frame ELSE <<>>

LEMMA SeenTrims ==
    ASSUME NEW r, NEW k \in Seq(Int), NEW u \in Seq(Int), NEW rms, Seen(r, u, k, rms), u # <<>>
    PROVE  /\ FrameSamples <= Len(u)
           /\ Seen(r, SubSeq(u, FrameSamples + 1, Len(u)),
                   k \o Remains(SubSeq(u, 1, FrameSamples), rms), rms)
<1>1. FrameSamples \in Nat \ {0} /\ Len(u) \in Nat \ {0}
  BY TrackAssumption, EmptySeq
<1>2. PICK seen \in Seq(Int), i \in Nat, j \in Nat, l \in Nat :
         /\ r = seen \o u /\ Whole(seen, FrameSamples, i) /\ Whole(u, FrameSamples, j)
         /\ k = TrimSilence(seen, rms) /\ Whole(k, FrameSamples, l)
  BY DEF Seen
<1>3. PICK w \in Nat : w = (j - 1) * FrameSamples /\ Len(u) = w + FrameSamples /\ j - 1 \in Nat
  <2>1. j # 0
    BY <1>1, <1>2 DEF Whole
  <2>2. j * FrameSamples = (j - 1) * FrameSamples + FrameSamples /\ (j - 1) * FrameSamples \in Nat
    BY <1>1, <2>1
  <2> QED BY <1>2, <2>1, <2>2 DEF Whole
<1>4. FrameSamples <= Len(u)
  BY <1>1, <1>3
<1>5. PICK frame \in Seq(Int), rest \in Seq(Int), done \in Seq(Int) :
         /\ frame = SubSeq(u, 1, FrameSamples) /\ rest = SubSeq(u, FrameSamples + 1, Len(u))
         /\ Len(frame) = FrameSamples /\ Len(rest) = Len(u) - FrameSamples
         /\ done = seen \o frame /\ seen \o u = done \o rest
  <2>1. PICK frame \in Seq(Int), rest \in Seq(Int), done \in Seq(Int) :
           Moved(seen, u, FrameSamples, frame, rest, done)
    BY <1>1, <1>4, FrameOff
  <2> QED BY <2>1 DEF Moved
<1>6. PICK loud : loud = Remains(frame, rms)
  OBVIOUS
<1>7. Len(frame) = FrameSamples /\ Len(rest) = w /\ done = seen \o frame /\ r = done \o rest
  <2>1. Len(rest) = w
    BY <1>1, <1>3, <1>5
  <2> QED BY <1>2, <1>5, <2>1
<1>8. Whole(done, FrameSamples, i + 1) /\ i + 1 \in Nat
  <2>1. (i + 1) * FrameSamples = i * FrameSamples + FrameSamples
    BY <1>1
  <2>2. Len(done) = Len(seen) + FrameSamples
    BY <1>7, ConcatProperties
  <2> QED BY <1>2, <2>1, <2>2 DEF Whole
<1>9. Whole(rest, FrameSamples, j - 1)
  BY <1>3, <1>7 DEF Whole
<1>10. k \o loud = TrimSilence(done, rms)
  <2>1. TrimSilence(done, rms) = IF Stays(frame, rms) THEN TrimSilence(seen, rms) \o frame
                                 ELSE TrimSilence(seen, rms)
    <3>1. Joined(done, seen, frame, i)
      BY <1>2, <1>7 DEF Joined
    <3> QED BY <3>1, SilenceTrims
  <2>2. k \o <<>> = k
    BY ConcatEmptySeq
  <2> QED BY <1>2, <1>6, <2>1, <2>2 DEF Remains
<1>11. \E m \in Nat : Whole(k \o loud, FrameSamples, m)
  <2>1. CASE loud = frame
    <3>1. Len(k \o loud) = Len(k) + FrameSamples
      BY <1>7, <2>1, ConcatProperties
    <3>2. (l + 1) * FrameSamples = l * FrameSamples + FrameSamples /\ l + 1 \in Nat
      BY <1>1
    <3>3. Whole(k \o loud, FrameSamples, l + 1)
      BY <1>2, <3>1, <3>2 DEF Whole
    <3> QED BY <3>2, <3>3
  <2>2. CASE loud = <<>>
    <3>1. k \o loud = k
      BY <2>2, ConcatEmptySeq
    <3> QED BY <1>2, <3>1
  <2>3. loud = frame \/ loud = <<>>
    BY <1>6 DEF Remains
  <2> QED BY <2>1, <2>2, <2>3
<1>12. Seen(r, rest, k \o loud, rms)
  BY <1>3, <1>7, <1>8, <1>9, <1>10, <1>11 DEF Seen
<1> QED BY <1>4, <1>5, <1>6, <1>12

LEMMA HeardStep ==
    ASSUME HeardInv, [TrackNext]_trackVars
    PROVE  HeardInv'
<1>1. SegmentInv /\ SegmentInv' /\ Samples
  BY SegmentStep DEF HeardInv, SegmentInv
<1>2. /\ read \in Seq(Int) /\ kept \in Seq(Int) /\ untrimmed \in Seq(Int)
      /\ Seen(read, untrimmed, kept, threshold)
      /\ segSamples % Channels = 0 /\ overlapSamples % Channels = 0
      /\ stage = "idle" => read = <<>> /\ kept = <<>>
      /\ stage # "reading" => untrimmed = <<>>
  BY <1>1 DEF HeardInv, Samples
<1>3. CASE Begin
  <2>1. /\ stage = "idle" /\ stage' = "reading" /\ UNCHANGED <<untrimmed, read, kept>>
        /\ segSamples' \in Segments /\ overlapSamples' \in Overlaps
    BY <1>3 DEF Begin
  <2>2. read' = <<>> /\ kept' = <<>> /\ untrimmed' = <<>>
    BY <1>2, <2>1
  <2>3. Seen(read', untrimmed', kept', threshold')
    BY <2>2, NothingSeen
  <2>4. segSamples' % Channels = 0 /\ overlapSamples' % Channels = 0
    BY <2>1, AlignmentAssumption
  <2>5. read' \in Seq(Int)
    BY <1>2, <2>1
  <2> QED BY <1>1, <2>1, <2>3, <2>4, <2>5 DEF HeardInv
<1>4. CASE Get
  <2>1. PICK pcm \in Chunks[taken + 1] : untrimmed' = pcm /\ read' = read \o pcm
    BY <1>4 DEF Get
  <2>2. /\ untrimmed = <<>> /\ stage' = "reading" /\ taken + 1 \in 1..MaxChunks
        /\ UNCHANGED <<segSamples, overlapSamples, threshold, kept>>
    BY <1>1, <1>4, TrackAssumption DEF Get, NextKey, Idle, config, Samples
  <2>3. pcm \in Seq(Int) /\ Len(pcm) % FrameSamples = 0
    BY <2>1, <2>2, TrackAssumption, AlignmentAssumption
  <2>4. Seen(read, <<>>, kept, threshold)
    BY <1>2, <2>2
  <2>5. Seen(read \o pcm, pcm, kept, threshold) /\ read \o pcm \in Seq(Int)
    BY <1>2, <2>3, <2>4, SeenGets, ConcatProperties
  <2> QED BY <1>1, <1>2, <2>1, <2>2, <2>5 DEF HeardInv
<1>5. CASE TrimFrame
  <2>1. untrimmed # <<>> /\ UNCHANGED <<stage, segSamples, overlapSamples, threshold, read>>
    BY <1>5 DEF TrimFrame, config
  <2>2. PICK frame, loud : /\ frame = SubSeq(untrimmed, 1, FrameSamples)
                           /\ loud = Remains(frame, threshold)
    OBVIOUS
  <2>3. /\ FrameSamples <= Len(untrimmed)
        /\ Seen(read, SubSeq(untrimmed, FrameSamples + 1, Len(untrimmed)), kept \o loud, threshold)
    BY <1>2, <2>1, <2>2, SeenTrims
  <2>4. ~(Len(untrimmed) < FrameSamples)
    <3>1. FrameSamples \in Nat /\ Len(untrimmed) \in Nat
      BY <1>2, TrackAssumption, LenProperties
    <3> QED BY <2>3, <3>1
  <2>5. /\ untrimmed' = SubSeq(untrimmed, FrameSamples + 1, Len(untrimmed))
        /\ kept' = kept \o loud
    BY <1>5, <2>2, <2>4 DEF TrimFrame, Remains
  <2>6. Seen(read', untrimmed', kept', threshold')
    BY <2>1, <2>3, <2>5
  <2>7. stage' # "idle"
    BY <1>2, <2>1
  <2> QED BY <1>1, <1>2, <2>1, <2>6, <2>7 DEF HeardInv
<1>6. CASE SkipUnreadable \/ SendSegment \/ SendRest \/ TranscribeFails
  <2>1. /\ stage' # "idle"
        /\ UNCHANGED <<untrimmed, read, kept, segSamples, overlapSamples, threshold>>
    BY <1>6 DEF SkipUnreadable, SendSegment, SendRest, TranscribeFails, NextKey, Idle, config
  <2> QED BY <1>1, <1>2, <2>1 DEF HeardInv
<1>7. CASE UNCHANGED trackVars
  <2>1. UNCHANGED <<stage, untrimmed, read, kept, segSamples, overlapSamples, threshold>>
    BY <1>7 DEF trackVars, config
  <2> QED BY <1>1, <1>2, <2>1 DEF HeardInv
<1> QED BY <1>3, <1>4, <1>5, <1>6, <1>7 DEF TrackNext

(* s is k from instant a + 1 to instant b. *)
Instants(s, k, a, b) ==
    s = SubSeq(k, a * Channels + 1, b * Channels) /\ b * Channels <= Len(k)

(* What a segment lets be heard of samples that are whole instants.         *)
LEMMA SegmentHeard ==
    ASSUME NEW k \in Seq(Int), NEW size \in Nat, Whole(k, Channels, size),
           NEW a \in Nat, NEW b \in Nat, a < b, NEW s, Instants(s, k, a, b)
    PROVE  /\ DownmixToMono(s) = SubSeq(DownmixToMono(k), a + 1, b)
           /\ Len(DownmixToMono(s)) = b - a /\ b <= size
<1>1. Channels \in Nat \ {0}
  BY TrackAssumption
<1>2. b <= size
  <2>1. CASE size + 1 <= b
    <3>1. (size + 1) * Channels <= b * Channels
      BY <1>1, <2>1, ProductGrows
    <3>2. (size + 1) * Channels = size * Channels + Channels /\ size * Channels \in Nat
          /\ b * Channels \in Nat
      BY <1>1
    <3>3. b * Channels <= size * Channels
      BY DEF Whole, Instants
    <3> QED BY <1>1, <3>1, <3>2, <3>3
  <2> QED BY <2>1
<1>3. a \in 0..size /\ b \in a..size
  BY <1>2
<1>4. s = SubSeq(k, a * Channels + 1, b * Channels)
  BY DEF Instants
<1>5. DownmixToMono(s) = SubSeq(DownmixToMono(k), a + 1, b) /\ Len(DownmixToMono(s)) = b - a
  BY <1>3, <1>4, DownmixSlice
<1> QED BY <1>2, <1>5

(* The recording of what could be read reaches the speech model whole,       *)
(* without its silence: TrimSilence is called per chunk and DownmixToMono    *)
(* per segment (transcribe.go:290-334), and what the model hears of the n-th *)
(* segment is the n-th window of the one trimmed and downmixed recording,    *)
(* the last of which reaches its end.                                        *)
THEOREM SpeechModelHearsAll == TrackSpec => []RecordingCovered
<1>1. ASSUME TrackInit PROVE HeardInv
  <2>1. Samples /\ stage # "ended" /\ SegmentInv
    BY <1>1, TrackStarts DEF TrackInit, SegmentInv
  <2>2. 0 % Channels = 0
    BY TrackAssumption
  <2> QED BY <1>1, <2>1, <2>2, NothingSeen DEF TrackInit, HeardInv
<1>2. HeardInv /\ [TrackNext]_trackVars => HeardInv'
  BY HeardStep
<1>3. ASSUME HeardInv, stage = "ended" PROVE RecordingCovered
  <2>1. Channels \in Nat \ {0} /\ FrameSamples \in Nat \ {0}
    BY TrackAssumption
  <2>2. /\ kept \in Seq(Int) /\ read \in Seq(Int) /\ segSamples \in Nat /\ overlapSamples \in Nat
        /\ untrimmed = <<>> /\ sent \in Seq(Seq(Int)) /\ SegmentsAreWindows
    BY <1>3 DEF HeardInv, SegmentInv, Samples
  <2>3. PICK l \in Nat : kept = TrimSilence(read, threshold) /\ Whole(kept, FrameSamples, l)
    <3>1. PICK seen \in Seq(Int), l \in Nat :
             /\ read = seen \o <<>> /\ kept = TrimSilence(seen, threshold)
             /\ Whole(kept, FrameSamples, l)
      BY <1>3, <2>2 DEF HeardInv, Seen
    <3> QED BY <3>1, ConcatEmptySeq
  <2>4. PICK size \in Nat : Whole(kept, Channels, size)
    <3>1. PICK f \in Nat : FrameSamples = f * Channels
      BY <2>1, AlignmentAssumption, MultipleIs
    <3>2. l * (f * Channels) = (l * f) * Channels /\ l * f \in Nat
      BY <2>1
    <3>3. Whole(kept, Channels, l * f)
      BY <2>3, <3>1, <3>2 DEF Whole
    <3> QED BY <3>2, <3>3
  <2>5. PICK g \in Nat, m \in Nat : segSamples = g * Channels /\ Advance = m * Channels
    <3>1. PICK g \in Nat, o \in Nat : segSamples = g * Channels /\ overlapSamples = o * Channels
      <4>1. \E g \in Nat : segSamples = g * Channels
        BY <1>3, <2>1, <2>2, MultipleIs DEF HeardInv
      <4>2. \E o \in Nat : overlapSamples = o * Channels
        BY <1>3, <2>1, <2>2, MultipleIs DEF HeardInv
      <4> QED BY <4>1, <4>2
    <3>2. CASE segSamples > overlapSamples
      <4>1. g * Channels - o * Channels = (g - o) * Channels
        BY <2>1
      <4>2. g - o \in Nat
        <5>1. CASE g <= o
          <6>1. g * Channels <= o * Channels
            BY <2>1, <5>1, ProductGrows
          <6>2. g * Channels \in Nat /\ o * Channels \in Nat
            BY <2>1
          <6> QED BY <3>1, <3>2, <6>1, <6>2
        <5> QED BY <5>1
      <4>3. Advance = (g - o) * Channels
        BY <3>1, <3>2, <4>1 DEF Advance
      <4> QED BY <3>1, <4>2, <4>3
    <3>3. CASE ~(segSamples > overlapSamples)
      BY <3>1, <3>3 DEF Advance
    <3> QED BY <3>2, <3>3
  <2>6. PICK mono : mono = DownmixToMono(kept)
    OBVIOUS
  <2>7. Len(mono) = size /\ (size = 0 => mono = <<>>) /\ Len(kept) = size * Channels
    <3>1. Len(mono) = size /\ mono = [i \in 1..size |-> Mean(Pieces(kept, Channels)[i])]
      BY <2>2, <2>4, <2>6, DownmixIs
    <3>2. size = 0 => mono = <<>>
      BY <3>1
    <3> QED BY <2>4, <3>1, <3>2 DEF Whole
  <2> DEFINE begins(n) == (Start(n) - 1) \div Channels + 1
             sounds(n) == DownmixToMono(sent[n])
             Window(n, a, b) ==
                 /\ a \in Nat /\ b \in Nat /\ a < b /\ b <= size /\ begins(n) = a + 1
                 /\ sounds(n) = SubSeq(mono, a + 1, b) /\ Len(sounds(n)) = b - a
  <2>8. ASSUME NEW n \in 1..Len(sent)
        PROVE  \E a, b : /\ Window(n, a, b)
                         /\ n < Len(sent) => b - a = g
                         /\ sent[n] = SubSeq(kept, Start(n), Len(kept)) => b = size
    <3>1. PICK a \in Nat : Start(n) = a * Channels + 1
      <4>1. n - 1 \in Nat /\ (n - 1) * m \in Nat
        BY <2>2, LenProperties
      <4>2. (n - 1) * (m * Channels) = ((n - 1) * m) * Channels
        BY <2>1, <4>1
      <4>3. Start(n) = ((n - 1) * m) * Channels + 1
        BY <2>5, <4>2 DEF Start
      <4> QED BY <4>1, <4>3
    <3>0. (Start(n) - 1) \div Channels = a
      <4>1. (a * Channels + 0) \div Channels = a
        BY <2>1, QuotientIs
      <4>2. a * Channels \in Nat /\ Start(n) - 1 = a * Channels + 0
        BY <2>1, <3>1
      <4> QED BY <4>1, <4>2
    <3>2. a * Channels \in Nat /\ g * Channels \in Nat /\ size * Channels \in Nat
      BY <2>1
    <3>3. CASE /\ segSamples > 0 /\ Start(n) + segSamples - 1 <= Len(kept)
               /\ sent[n] = SubSeq(kept, Start(n), Start(n) + segSamples - 1)
      <4>1. (a + g) * Channels = a * Channels + g * Channels
        BY <2>1
      <4>2. Start(n) + segSamples - 1 = (a + g) * Channels
        BY <2>5, <3>1, <3>2, <4>1
      <4>3. a < a + g /\ a + g \in Nat
        <5>1. g # 0
          BY <2>1, <2>5, <3>3
        <5> QED BY <5>1
      <4>4. Instants(sent[n], kept, a, a + g)
        BY <2>7, <3>1, <3>3, <4>2 DEF Instants
      <4>5. /\ DownmixToMono(sent[n]) = SubSeq(DownmixToMono(kept), a + 1, a + g)
            /\ Len(DownmixToMono(sent[n])) = (a + g) - a /\ a + g <= size
        BY <2>2, <2>4, <4>3, <4>4, SegmentHeard
      <4>6. Window(n, a, a + g)
        BY <2>6, <3>0, <4>3, <4>5
      <4>7. a + g - a = g
        OBVIOUS
      <4>8. sent[n] = SubSeq(kept, Start(n), Len(kept)) => a + g = size
        <5>1. ASSUME sent[n] = SubSeq(kept, Start(n), size * Channels) PROVE a + g = size
          <6>1. a < size
            BY <4>3, <4>5
          <6>2. Instants(sent[n], kept, a, size)
            BY <2>7, <3>1, <3>2, <5>1 DEF Instants
          <6>3. Len(DownmixToMono(sent[n])) = size - a
            BY <2>2, <2>4, <6>1, <6>2, SegmentHeard
          <6> QED BY <4>5, <6>3
        <5> QED BY <2>7, <5>1
      <4> HIDE DEF Window
      <4> QED BY <4>6, <4>7, <4>8
    <3>4. CASE n = Len(sent) /\ Start(n) <= Len(kept) /\ sent[n] = SubSeq(kept, Start(n), Len(kept))
      <4>1. a < size
        <5>1. CASE size <= a
          <6>1. size * Channels <= a * Channels
            BY <2>1, <5>1, ProductGrows
          <6> QED BY <2>7, <3>1, <3>2, <3>4, <6>1
        <5> QED BY <5>1
      <4>2. Instants(sent[n], kept, a, size)
        <5>1. size * Channels <= Len(kept)
          BY <2>7, <3>2
        <5>2. sent[n] = SubSeq(kept, a * Channels + 1, size * Channels)
          BY <2>7, <3>1, <3>4
        <5> QED BY <5>1, <5>2 DEF Instants
      <4>3. /\ DownmixToMono(sent[n]) = SubSeq(DownmixToMono(kept), a + 1, size)
            /\ Len(DownmixToMono(sent[n])) = size - a
        BY <2>2, <2>4, <4>1, <4>2, SegmentHeard
      <4>4. Window(n, a, size)
        BY <2>6, <3>0, <4>1, <4>3
      <4>5. ~(n < Len(sent))
        BY <3>4
      <4> HIDE DEF Window
      <4> QED BY <4>4, <4>5
    <3> QED BY <1>3, <2>2, <3>3, <3>4 DEF SegmentsAreWindows
  <2>9. ASSUME NEW n \in 1..Len(sent)
        PROVE  /\ sounds(n) # <<>>
               /\ sounds(n) = SubSeq(mono, begins(n), begins(n) + Len(sounds(n)) - 1)
               /\ n < Len(sent) => Len(sounds(n)) * Channels = segSamples
    <3>1. PICK a, b : Window(n, a, b) /\ (n < Len(sent) => b - a = g)
      BY <2>8
    <3>2. /\ a \in Nat /\ b \in Nat /\ a < b /\ begins(n) = a + 1
          /\ sounds(n) = SubSeq(mono, a + 1, b) /\ Len(sounds(n)) = b - a
      BY <3>1
    <3> HIDE DEF begins, sounds, Window
    <3>3. sounds(n) # <<>>
      <4>1. Len(sounds(n)) # 0
        BY <3>2
      <4> QED BY <4>1, EmptySeq
    <3>4. begins(n) + Len(sounds(n)) - 1 = b
      BY <3>2
    <3>5. n < Len(sent) => Len(sounds(n)) * Channels = segSamples
      BY <2>5, <3>1, <3>2
    <3> QED BY <3>2, <3>3, <3>4, <3>5
  <2>10. ASSUME mono # <<>>
         PROVE  sent # <<>> /\ begins(Len(sent)) + Len(sounds(Len(sent))) - 1 = Len(mono)
    <3>1. kept # <<>>
      <4>1. size # 0
        BY <2>7, <2>10
      <4>2. size * Channels # 0
        BY <2>1, <4>1
      <4> QED BY <2>7, <4>2
    <3>2. sent # <<>> /\ sent[Len(sent)] = SubSeq(kept, Start(Len(sent)), Len(kept))
      BY <1>3, <2>2, <3>1 DEF SegmentsAreWindows
    <3>3. Len(sent) \in 1..Len(sent)
      BY <2>2, <3>2, EmptySeq
    <3>4. PICK a, b : Window(Len(sent), a, b) /\ b = size
      <4> HIDE DEF begins, sounds, Window
      <4>1. \E a, b : /\ Window(Len(sent), a, b)
                      /\ sent[Len(sent)] = SubSeq(kept, Start(Len(sent)), Len(kept)) => b = size
        BY <2>8, <3>3
      <4> QED BY <3>2, <4>1
    <3>5. /\ a \in Nat /\ b = size /\ begins(Len(sent)) = a + 1
          /\ Len(sounds(Len(sent))) = b - a
      BY <3>4
    <3> HIDE DEF begins, sounds, Window
    <3> QED BY <2>7, <3>2, <3>5
  <2> HIDE DEF begins, sounds
  <2>11. mono = DownmixToMono(TrimSilence(read, threshold))
    BY <2>3, <2>6
  <2> USE DEF begins, sounds
  <2> QED BY <2>9, <2>10, <2>11 DEF RecordingCovered
<1>4. HeardInv => RecordingCovered
  <2>1. stage # "ended" => RecordingCovered
    BY DEF RecordingCovered
  <2> QED BY <1>3, <2>1
<1> QED BY <1>1, <1>2, <1>4, PTL DEF TrackSpec
=============================================================================
