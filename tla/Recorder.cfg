\* A speaker, a resume, two faults.
SPECIFICATION Spec
CONSTANTS
    Users = {u1}
    Holdback = 2
    Lateness = 1
    MaxGap = 2
    Wrap = 5
    MaxNow = 3
    MaxHeard = 3
    MaxEpochs = 2
    MaxFaults = 2
INVARIANTS AudioKept Chronological EarlyIsHeard
PROPERTIES KeepsTape
CHECK_DEADLOCK FALSE
