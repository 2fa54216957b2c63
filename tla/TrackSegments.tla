---------------------------- MODULE TrackSegments -----------------------------
(***************************************************************************)
(* From the stored chunks of one speaker to the recordings the speech      *)
(* model is sent: transcribeUserTrack (internal/worker/transcribe.go) with *)
(* TrimSilence and DownmixToMono (internal/audio/wav.go).  A chunk is a    *)
(* sequence of interleaved samples, which Get may fail to read.            *)
(***************************************************************************)
EXTENDS Integers, Sequences, SequencesExt, FiniteSetsExt

CONSTANTS
    Channels,      \* samples of one instant
    FrameSamples,  \* samples of one 20 ms frame, all channels
    Segments, Overlaps, Thresholds,   \* as configured, in samples; 0 is off
    MaxChunks,     \* bound: chunks of the speaker
    Chunks         \* Chunks[n]: what the n-th of them may hold

ASSUME TrackAssumption ==
    /\ Channels \in Nat \ {0} /\ FrameSamples \in Nat \ {0} /\ MaxChunks \in Nat
    /\ Segments \subseteq Nat /\ Overlaps \subseteq Nat /\ Thresholds \subseteq Nat
    /\ DOMAIN Chunks = 1..MaxChunks /\ \A n \in 1..MaxChunks : Chunks[n] \subseteq Seq(Int)

(* Frames and segments hold every channel of an instant, "chunks are whole  *)
(* 20ms frames" (transcribe.go:301).                                        *)
ASSUME AlignmentAssumption ==
    /\ FrameSamples % Channels = 0
    /\ \A size \in Segments \cup Overlaps : size % Channels = 0
    /\ \A n \in 1..MaxChunks : \A pcm \in Chunks[n] : Len(pcm) % FrameSamples = 0

VARIABLES
    stage,         \* idle, reading, ended, or failed with no transcript
    segSamples, overlapSamples, threshold,
    taken,         \* keys the loop has passed
    untrimmed,     \* what TrimSilence has yet to see of the chunk in hand
    buf,           \* current segment being accumulated
    sent           \* what transcribeBuf was given

VARIABLES          \* history
    read,          \* the samples of all chunks that were read
    kept           \* those that were not silence

config == <<segSamples, overlapSamples, threshold>>
trackVars == <<stage, config, taken, untrimmed, buf, sent, read, kept>>
-----------------------------------------------------------------------------
(* The pieces of a sequence, each of size n but the last. *)
Pieces(s, n) == [i \in 1..((Len(s) + n - 1) \div n) |->
                    SubSeq(s, (i - 1) * n + 1, Min({i * n, Len(s)}))]
Total(s) == FoldLeft(LAMBDA sum, x : sum + x, 0, s)

(* TrimSilence: a whole frame stays if its mean square is at least the      *)
(* threshold's; frameRMS compares the roots.                                *)
Loud(frame, rms) ==
    Total([i \in 1..Len(frame) |-> frame[i] * frame[i]]) >= rms * rms * Len(frame)
Stays(frame, rms) == rms = 0 \/ Len(frame) < FrameSamples \/ Loud(frame, rms)
Trimmed(frames, rms) ==
    LET out[n \in 0..Len(frames)] ==
            IF n = 0 THEN <<>>
            ELSE IF Stays(frames[n], rms) THEN out[n - 1] \o frames[n] ELSE out[n - 1]
    IN  out
TrimSilence(pcm, rms) ==
    Trimmed(Pieces(pcm, FrameSamples), rms)[Len(Pieces(pcm, FrameSamples))]

(* DownmixToMono: the mean of the channels, of a last partial instant too,  *)
(* rounded towards 0.                                                       *)
Mean(s) == IF Total(s) >= 0 THEN Total(s) \div Len(s) ELSE -((-Total(s)) \div Len(s))
DownmixToMono(pcm) == [i \in 1..Len(Pieces(pcm, Channels)) |-> Mean(Pieces(pcm, Channels)[i])]
-----------------------------------------------------------------------------
TrackInit ==
    /\ stage = "idle" /\ segSamples = 0 /\ overlapSamples = 0 /\ threshold = 0
    /\ taken = 0 /\ untrimmed = <<>> /\ buf = <<>> /\ sent = <<>>
    /\ read = <<>> /\ kept = <<>>

Begin ==
    /\ stage = "idle" /\ stage' = "reading"
    /\ segSamples' \in Segments /\ overlapSamples' \in Overlaps /\ threshold' \in Thresholds
    /\ UNCHANGED <<taken, untrimmed, buf, sent, read, kept>>

(* What is sent when the buffer holds whole segments; the tail that is kept *)
(* repeats the overlap, so that a word at the boundary is heard whole.      *)
Full == segSamples > 0 /\ Len(buf) >= segSamples
Advance == IF segSamples > overlapSamples THEN segSamples - overlapSamples ELSE segSamples

(* The loop goes on to a key when the chunk before it is dealt with. *)
Idle == stage = "reading" /\ untrimmed = <<>>
NextKey == Idle /\ ~Full /\ taken < MaxChunks /\ taken' = taken + 1

Get ==
    /\ NextKey
    /\ \E pcm \in Chunks[taken + 1] : untrimmed' = pcm /\ read' = read \o pcm
    /\ UNCHANGED <<stage, config, buf, sent, kept>>

(* An unreadable chunk does not sink the recording. *)
SkipUnreadable ==
    /\ NextKey
    /\ UNCHANGED <<stage, config, untrimmed, buf, sent, read, kept>>

TrimFrame ==
    /\ untrimmed # <<>>
    /\ LET size == IF Len(untrimmed) < FrameSamples THEN Len(untrimmed) ELSE FrameSamples
           frame == SubSeq(untrimmed, 1, size)
           loud == IF Stays(frame, threshold) THEN frame ELSE <<>>
       IN  /\ untrimmed' = SubSeq(untrimmed, size + 1, Len(untrimmed))
           /\ buf' = buf \o loud /\ kept' = kept \o loud
    /\ UNCHANGED <<stage, config, taken, sent, read>>

(* Variant: the overlap is not kept. *)
SendSegmentOnly ==
    /\ Idle /\ Full
    /\ sent' = Append(sent, SubSeq(buf, 1, segSamples))
    /\ buf' = SubSeq(buf, segSamples + 1, Len(buf))
    /\ UNCHANGED <<stage, config, taken, untrimmed, read, kept>>

SendSegment ==
    /\ Idle /\ Full
    /\ sent' = Append(sent, SubSeq(buf, 1, segSamples))
    /\ buf' = SubSeq(buf, Advance + 1, Len(buf))
    /\ UNCHANGED <<stage, config, taken, untrimmed, read, kept>>

(* Variant: a rest no longer than the overlap passes for one heard before. *)
SendLongRest ==
    /\ Idle /\ ~Full
    /\ sent' = IF Len(buf) <= overlapSamples THEN sent ELSE Append(sent, buf)
    /\ stage' = "ended"
    /\ UNCHANGED <<config, taken, untrimmed, buf, read, kept>>

(* The keys are at their end. *)
SendRest ==
    /\ Idle /\ ~Full
    /\ sent' = IF buf = <<>> THEN sent ELSE Append(sent, buf)
    /\ stage' = "ended"
    /\ UNCHANGED <<config, taken, untrimmed, buf, read, kept>>

(* The speech model fails on a segment, and the track with it. *)
TranscribeFails ==
    /\ Idle /\ buf # <<>>
    /\ stage' = "failed"
    /\ UNCHANGED <<config, taken, untrimmed, buf, sent, read, kept>>

TrackNext ==
    Begin \/ Get \/ SkipUnreadable \/ TrimFrame \/ SendSegment \/ SendRest \/ TranscribeFails
TrackSpec == TrackInit /\ [][TrackNext]_trackVars
-----------------------------------------------------------------------------
(* The n-th segment sent is the n-th window of what was kept: a whole       *)
(* segment that begins one advance after the one before, or in the end what *)
(* is left; the last reaches the end, so that no sample is missed.          *)
Start(n) == (n - 1) * Advance + 1
SegmentsAreWindows ==
    /\ \A n \in 1..Len(sent) :
          \/ /\ segSamples > 0 /\ Start(n) + segSamples - 1 <= Len(kept)
             /\ sent[n] = SubSeq(kept, Start(n), Start(n) + segSamples - 1)
          \/ /\ stage = "ended" /\ n = Len(sent) /\ Start(n) <= Len(kept)
             /\ sent[n] = SubSeq(kept, Start(n), Len(kept))
    /\ stage = "ended" /\ kept # <<>> =>
          sent # <<>> /\ sent[Len(sent)] = SubSeq(kept, Start(Len(sent)), Len(kept))

(* What the code says of all of it: trimming "per chunk matches trimming    *)
(* the concatenated track" (transcribe.go:302), and downmixing a segment    *)
(* matches downmixing the recording: the speech model hears the recording   *)
(* of what could be read, without its silence, in windows that reach its    *)
(* end.                                                                     *)
RecordingCovered ==
    stage = "ended" =>
        LET mono == DownmixToMono(TrimSilence(read, threshold))
            heard(n) == DownmixToMono(sent[n])
            first(n) == (Start(n) - 1) \div Channels + 1
        IN  /\ \A n \in 1..Len(sent) :
                  /\ heard(n) # <<>>
                  /\ heard(n) = SubSeq(mono, first(n), first(n) + Len(heard(n)) - 1)
                  /\ n < Len(sent) => Len(heard(n)) * Channels = segSamples
            /\ mono # <<>> =>
                  sent # <<>> /\ first(Len(sent)) + Len(heard(Len(sent))) - 1 = Len(mono)
=============================================================================
