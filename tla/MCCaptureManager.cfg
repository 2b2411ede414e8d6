\* Three tasks for one slot, so that tasks queue; two devices and two runs, so
\* that a device is shared by runs and a run by devices; one upgrade
\* thread that comes and goes.
SPECIFICATION FairSpec
CONSTANTS
    Tasks = {t1, t2, t3}
    Runs = {r1, r2}
    Devices = {d1, d2}
    Upgrades = {u1}
    Collectors = {c1}
    Pool = 1
    None = None
INVARIANTS
    TypeOK
    SlotsConserved
    OneActivePerDevice
    MaintenanceExcludesCaptures
    DoneShowsResult
PROPERTIES
    EveryTaskEnds
    LeasesImplemented
