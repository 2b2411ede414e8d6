\* The pre snapshot is replaced between the load of run.yml and the load of the
\* baseline by a post capture.
\* Every process ends, so the last state has no successor.
CHECK_DEADLOCK FALSE
SPECIFICATION DirSpec
CONSTANTS
    a = a  b = b  x = x  p = p  q = q
    c1 = c1  c2 = c2  c3 = c3  e1 = e1  e2 = e2
    Nodes = {a, b}
    Ports = {p}
    AllPorts = AllPorts
    NoSlot = NoSlot
    Captures = {c1, c2, c3}
    Job <- OverwriteJobs
    Editors = {}
    Edit = {}
    Stored = {}
    Start <- Begun
    Unsigned = {}
    DiskFails = FALSE
    MaxCrashes = 0
    NoFile = NoFile
    Torn = Torn
    ByHand = ByHand
    Given = Given
    Free = Free
INVARIANT
    RawRecordIsTrue
