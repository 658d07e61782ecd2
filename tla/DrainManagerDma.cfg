SPECIFICATION Spec
CONSTANTS
    Static = {s1, s2, s3}
    Callback = {c1, c2}
    Process = {p1, p2}
    CallbackIn = {"Running", "Draining"}
    Capacity = 8
    MaxDisturb = 5
INVARIANT NoPanic
CHECK_DEADLOCK FALSE
