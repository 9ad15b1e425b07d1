CONSTANTS
    s1 = s1
    CardIds = {1}
    Nicknames = {"nu"}
    DueDays = {5}
    Calls <- MCCalls
    HttpSlots = {s1}
    MaxPosts = 2
CHECK_DEADLOCK FALSE
SPECIFICATION RequestsSpec
INVARIANTS
    RepeatedPostIsReplayed
