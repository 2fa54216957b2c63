\* An entity, a character, two proposals, two reviewers and two extractions.
SPECIFICATION Spec
CONSTANTS
    Entities = {e1}
    Characters = {c1}
    ProposalIds = {p1, p2}
    Reviewers = {r1, r2}
    Members = {m1}
    Extractions = {x1, x2}
    MaxBusy = 2
    MaxRows = 2
SYMMETRY Symmetry
INVARIANTS TypeOK CanonIsApproved AppliedOnce KeptUnlessStale OneBatch
PROPERTIES DecisionFinal
CHECK_DEADLOCK FALSE
