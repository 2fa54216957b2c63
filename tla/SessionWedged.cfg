\* A command during the voice handshake of another.
SPECIFICATION Spec
CONSTANTS
    Sessions = {s1}
    Handlers = {h1, h2}
    Tickets = {k1}
    MaxRetries = 1
    MaxFaults = 0
    None = None
    Resume = Resume
    Reaper = Reaper
INVARIANTS NeverWedged
CHECK_DEADLOCK FALSE
