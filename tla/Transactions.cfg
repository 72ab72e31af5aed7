SPECIFICATION FairSpec
CONSTANTS
    a = a
    b = b
    s1 = s1
    s2 = s2
    Client = {a, b}
    Idempotent = {b}
    Session = {s1, s2}
    LateHooks = FALSE
    HookErrors = {"conditional", "fatal"}
    LostAs = {"conditional"}
    MaxFaults = 3
INVARIANTS Truthful
PROPERTIES Settles
CHECK_DEADLOCK FALSE
