SPECIFICATION Spec
CONSTANTS
    a = a
    b = b
    s1 = s1
    s2 = s2
    Client = {a, b}
    Idempotent = {b}
    Session = {s1, s2}
    LateHooks = TRUE
    HookErrors = {"conditional", "fatal"}
    LostAs = {"conditional"}
    MaxFaults = 3
INVARIANTS OwnHooks
CHECK_DEADLOCK FALSE
