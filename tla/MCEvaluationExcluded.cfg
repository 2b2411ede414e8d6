\* Two services before, one after, and a rule of mapping.yml that hits both.
\* An evaluation ends.
CHECK_DEADLOCK FALSE
SPECIFICATION EvalSpec
CONSTANTS
    BaselineScopes = {b1, b2}
    SubjectScopes = {s1}
    Snapshots <- AllSnapshots
    Mappings <- OnlyHandwritten
    Absent = Absent
    Profiles <- TypeFilters
    NoRequest = NoRequest
INVARIANT
    ExcludedHasNoCandidate
