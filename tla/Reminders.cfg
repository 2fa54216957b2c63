SPECIFICATION Spec
CONSTANTS
    Replicas = {g1, g2}
    Week = 2
    MaxNow = 3
    MaxSets = 2
    MaxFaults = 1
INVARIANTS ClaimedOnce OneReminder
PROPERTIES DueIsTaken
CHECK_DEADLOCK FALSE
