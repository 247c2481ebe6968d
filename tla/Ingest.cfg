SPECIFICATION LiveSpec
CONSTANTS
    e1 = e1
    e2 = e2
    w1 = w1
    w2 = w2
    Events = {e1, e2}
    Poison = {e2}
    Workers = {w1}
    Loops = {"ordered", "bounded", "dlq"}
    MaxRetries = 1
    MaxLog = 2
INVARIANTS
    TypeOK
    InOrder
PROPERTIES
    LogSpec
    Drains
CHECK_DEADLOCK FALSE
