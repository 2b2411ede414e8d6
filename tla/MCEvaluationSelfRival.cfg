\* One service before and one after, which may list a network twice.
\* An evaluation ends.
CHECK_DEADLOCK FALSE
SPECIFICATION EvalSpec
CONSTANTS
    BaselineScopes = {b1}
    SubjectScopes = {s1}
    Snapshots <- AllSnapshots
    Mappings <- NoMapping
    Absent = Absent
    Profiles <- TypeFilters
    NoRequest = NoRequest
PROPERTY
    LoneCandidatesPaired
