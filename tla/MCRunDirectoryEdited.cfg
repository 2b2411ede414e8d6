\* Two captures of one box and two edits of its run, none of the four aware of
\* the others; raw records may fail to be removed or written.
\* Every process ends, so the last state has no successor.
CHECK_DEADLOCK FALSE
SPECIFICATION DirSpec
CONSTANTS
    a = a  b = b  x = x  p = p  q = q
    c1 = c1  c2 = c2  c3 = c3  e1 = e1  e2 = e2
    Nodes = {a, b}
    Ports = {p, q}
    AllPorts = AllPorts
    NoSlot = NoSlot
    Captures = {c1, c2, c3}
    Job <- EditedJobs
    Editors = {e1, e2}
    Edit <- Edits
    Stored = {}
    Start <- Begun
    Unsigned = {}
    DiskFails = TRUE
    MaxCrashes = 0
    NoFile = NoFile
    Torn = Torn
    ByHand = ByHand
    Given = Given
    Free = Free
INVARIANT
    ManifestConsistent
