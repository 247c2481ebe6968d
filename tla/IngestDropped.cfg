SPECIFICATION Spec
CONSTANTS
    e1 = e1
    e2 = e2
    w1 = w1
    w2 = w2
    Events = {e1, e2}
    Poison = {e2}
    Workers = {w1}
    Loops = {"bounded"}
    MaxRetries = 1
    MaxLog = 2
INVARIANTS
    NothingDropped
CHECK_DEADLOCK FALSE
