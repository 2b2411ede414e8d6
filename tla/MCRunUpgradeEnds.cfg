\* One overwrite beside one upgrade: the disk may refuse a rename or a raw record
\* and one process may die, and still nobody waits for ever.
\* Every process ends, so the last state has no successor.
CHECK_DEADLOCK FALSE
SPECIFICATION FairUpSpec
CONSTANTS
    a = a  b = b  p = p
    c1 = c1  c2 = c2  c3 = c3  c4 = c4
    Nodes = {a, b}
    Ports = {p}
    AllPorts = AllPorts
    NoSlot = NoSlot
    Captures = {c1, c3}
    Job <- JobsOfOldBox
    Editors = {}
    Edit = {}
    Stored = {}
    Start <- Begun
    Unsigned = {}
    DiskFails = TRUE
    MaxCrashes = 1
    NoFile = NoFile
    Torn = Torn
    ByHand = ByHand
    Given = Given
    Free = Free
    Upgrades = {u1}
INVARIANT
    RecordedNotLost
PROPERTY
    ProcessesEnd
