\* Two captures of two devices that may run at once, a group of two runs that is archived
\* and created again (two directories), an upgrade beside them; a reader of a summary and
\* five writes after the first; one account with an outdated hash, a login, a request and
\* two saves.  The server may come to rest at the bounds.
SPECIFICATION ServerSpec
CONSTANTS
    r1 = r1
    r2 = r2
    Tasks = {t1, t2}
    Runs = {r1, r2}
    Devices = {d1, d2}
    Upgrades = {u1}
    Collectors = {}
    Pool = 2
    None = None
    Dirs = {x, y}
    Archivers = {a1}
    Members <- MCMembers
    Creators = {c1}
    Readers = {q1}
    MaxWrites = 6
    Users = {"user"}
    Requests = {"request"}
    Logins = {"login"}
    MaxSaves = 3
INVARIANTS
    ShelfIsWhole
    CachedVerdictIsCurrent
    ServedAsOfRequest
    LoginIsUsable
SYMMETRY MCSymmetry
CHECK_DEADLOCK FALSE
