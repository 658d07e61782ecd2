SPECIFICATION FairSpec
CONSTANTS
    Static = {s1, s2, s3}
    Callback = {c1, c2}
    Process = {p1, p2}
    CallbackIn = {"Running"}
    Capacity = 8
    MaxDisturb = 5
INVARIANT CountIsPending
INVARIANT DrainedIsIdle
INVARIANT NoPanic
INVARIANT OneFinish
INVARIANT ResumedAll
PROPERTY DrainCompletes
