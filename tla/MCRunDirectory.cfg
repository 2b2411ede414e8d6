\* Three captures of a run that does not exist yet: two boxes compete for the
\* role old, the third finds a baseline or not.  Each may die and the
\* raw records may fail to be removed or written.
\* Every process ends, so the last state has no successor.
CHECK_DEADLOCK FALSE
SPECIFICATION FairDirSpec
CONSTANTS
    a = a  b = b  x = x  p = p  q = q
    c1 = c1  c2 = c2  c3 = c3  e1 = e1  e2 = e2
    Nodes = {a, b, x}
    Ports = {p}
    AllPorts = AllPorts
    NoSlot = NoSlot
    Captures = {c1, c2, c3}
    Job <- CompetingJobs
    Editors = {}
    Edit = {}
    Stored <- Boxes
    Start = NoFile
    Unsigned = {}
    DiskFails = TRUE
    MaxCrashes = 3
    NoFile = NoFile
    Torn = Torn
    ByHand = ByHand
    Given = Given
    Free = Free
INVARIANTS
    DirTypeOK
    CapturesKept
    TornOnlyWhileSaving
    ManifestConsistent
    InventoryRawMatches
    RecordedIsMeasured
PROPERTIES
    CapturesEnd
    LedgerImplemented
