\* A run whose old box is captured, and a port of the new one whose raw record has no
\* identities of its baselines: the overwrite, another post capture and one upgrade run
\* together, and one process may die.
\* Every process ends, so the last state has no successor.
CHECK_DEADLOCK FALSE
SPECIFICATION UpSpec
CONSTANTS
    a = a  b = b  p = p
    c1 = c1  c2 = c2  c3 = c3  c4 = c4
    Nodes = {a, b}
    Ports = {p}
    AllPorts = AllPorts
    NoSlot = NoSlot
    Captures = {c1, c2, c3, c4}
    Job <- Jobs
    Editors = {}
    Edit = {}
    Stored = {}
    Start <- Checked
    Unsigned = {c4}
    DiskFails = FALSE
    MaxCrashes = 1
    NoFile = NoFile
    Torn = Torn
    ByHand = ByHand
    Given = Given
    Free = Free
    Upgrades = {u1}
INVARIANTS
    UpTypeOK
    RecordedNotLost
    RegeneratedIsFaithful
PROPERTIES
    SwapKeepsRecorded
