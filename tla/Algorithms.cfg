SPECIFICATION Spec
CONSTANTS
    MaxText = 6
    Sizes = {2, 3, 4}
    Chars <- Alphabet
    Bytes <- Utf8
    Contents <- Texts
    MaxChunks = 3
    Segments = {0, 4, 6, 10}
    Overlaps = {2, 6}
    Thresholds = {0, 5}
    Chunks <- TrackChunks
    Channels = 2
    FrameSamples = 4
    MaxWritten = 3
    MaxContinuationRounds = 3
    MaxProposals = 2
    MaxConfidence = 10
INVARIANTS MessagesWhole TextArrives SegmentsAreWindows RecordingCovered ExtractionKeeps
CHECK_DEADLOCK FALSE
