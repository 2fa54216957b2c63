\* One session, with a worker that retries and two disturbances.
SPECIFICATION FairSpec
CONSTANTS
    Sessions = {s1}
    Handlers = {h1}
    Tickets = {k1}
    MaxRetries = 1
    MaxFaults = 2
    None = None
    Resume = Resume
    Reaper = Reaper
PROPERTIES ProcessingSettles RecordingAttended
CHECK_DEADLOCK FALSE
