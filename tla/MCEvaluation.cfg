\* Two services before, three after, of any kind, with and without a mapping.yml.
\* An evaluation ends.
CHECK_DEADLOCK FALSE
SPECIFICATION EvalSpec
SYMMETRY Interchangeable
CONSTANTS
    BaselineScopes = {b1, b2}
    SubjectScopes = {s1, s2, s3}
    Snapshots <- AllSnapshots
    Mappings <- BothMappings
    Absent = Absent
    Profiles <- TypeFilters
    NoRequest = NoRequest
INVARIANTS
    MatchTypeOK
    PairsAreMatching
    ScopesAccounted
    ReasonsAreExact
    ServicesAccounted
    ExcludedIsForeign
PROPERTY
    NeverGuesses
