\* Two commands, the reaper and the worker on two sessions of one guild.
SPECIFICATION Spec
CONSTANTS
    Sessions = {s1, s2}
    Handlers = {h1, h2}
    Tickets = {k1}
    MaxRetries = 0
    MaxFaults = 1
    None = None
    Resume = Resume
    Reaper = Reaper
INVARIANTS ProcessingHasJob LiveRowIsRecording
VIEW WithoutResults
CONSTRAINT FewBusy
SYMMETRY Symmetry
CHECK_DEADLOCK FALSE
