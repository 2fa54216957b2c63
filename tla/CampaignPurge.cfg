\* Two sessions of two campaigns, two deletions at once, and two failures.
SPECIFICATION Spec
CONSTANTS
    Campaigns = {c1, c2}
    Sessions = {s1, s2}
    Deleters = {d1, d2}
    MaxChunks = 2
    MaxFaults = 2
    None = None
SYMMETRY Symmetry
INVARIANTS AudioNamed
CHECK_DEADLOCK FALSE
