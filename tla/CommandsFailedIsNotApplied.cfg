SPECIFICATION Spec
CONSTANTS
    c1 = c1
    c2 = c2
    Commands = {c1, c2}
    Sends = {1, 2}
    Firmware = {"acknowledged", "submitted", "applied", "ok", "failed"}
    NoCommand = NoCommand
SYMMETRY Swaps
CONSTRAINT Bound
INVARIANTS
    FailedIsNotApplied
CHECK_DEADLOCK FALSE
