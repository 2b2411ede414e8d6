\* The same server without the exception of CachedVerdictIsCurrent: a capture between the
\* load of run.yml and its stat leaves the old verdict under the new key.
SPECIFICATION ServerSpec
CONSTANTS
    r1 = r1
    r2 = r2
    Tasks = {}
    Runs = {r1, r2}
    Devices = {d1}
    Upgrades = {}
    Collectors = {}
    Pool = 1
    None = None
    Dirs = {}
    Archivers = {}
    Members <- MCMembers
    Creators = {}
    Readers = {q1}
    MaxWrites = 4
    Users = {"user"}
    Requests = {}
    Logins = {}
    MaxSaves = 1
INVARIANT
    CacheIsCurrent
CHECK_DEADLOCK FALSE
