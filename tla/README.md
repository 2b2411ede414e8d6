# A verification development of migration-validator

`migration-validator` captures the state of Juniper routers before and after a
migration (or an upgrade), keeps the snapshots of one migration in a *run*
directory, and compares them. It runs as a command line tool (`mig-validate`)
and as a web server with a small thread pool. The modules here model the parts
of it in which order matters: who may capture what and when, what several
processes do to one run directory, what an offline upgrade of a run may do
beside them, and what the server keeps in memory about files that others replace;
and the parts on which every verdict rests: which service after the migration is
compared with which service before it, and what each check makes of the two. TLC
checks them on small instances, TLAPS proves the core for every value of the
constants.

Paths below are relative to `src/migration_validator/` unless they start with
`tests/` or `docs/`.

## 1. Inventory of the system

| Component | State it keeps | Operations | What makes it correct |
|---|---|---|---|
| Capture registry (`gui/captures.py`) | tasks with state, steps, result, error; a semaphore; runs in maintenance; one mutex | `start`, worker thread, `on_progress`, `maintenance`, `busy_run` | a device is captured once at a time; upgrade and captures of a run exclude each other; the pool never leaks; every capture ends; a finished task is complete |
| Manifest (`runs/manifest.py`) and pairing (`runs/pairing.py`) | `run.yml`: kind, devices with roles, mapping, captures | load/save, `record_capture`, `add_mapping`, `check_kind_devices`, choice of baselines, plan of evaluations | roles and mapping stay consistent; a post capture gets the baseline of its port |
| Run directory (`runs/orchestrate.py`, `runs/store.py`, `raw/bundle.py`, `models/snapshot.py`) | `run.yml`, snapshots, inventories, raw records, `.lock` | `capture_into_run`, `_parse_services` | captures of one run do not lose each other; files that belong together match; a failure leaves the run readable |
| Upgrade (`raw/upgrade.py`) | staging and backup directories | `upgrade_run` | nothing measured is lost or overwritten by something older; a regenerated snapshot uses what the capture used |
| API (`api.py`) | none of its own | create, edit, archive and purge runs; groups; evaluate | edits respect locked mappings; archive is whole or not at all |
| CLI (`cli.py`) | none | `capture`, `evaluate`, `upgrade`, `user`, ... | `--maps-to` adds one pair of ports |
| Recording and replay (`raw/recorder.py`, `raw/replay.py`) | calls in order | record, answer | a replay answers what was recorded, in that order |
| Web routes (`gui/app.py`, ...) | the registry, the caches | one route per API call | archive does not move a run that is captured |
| Login (`gui/sessions.py`, `gui/auth_routes.py`, `users.py`) | sessions, failed logins, `users.yml` | login, logout, `user passwd/del` | a changed password ends the old sessions; a throttled name waits |
| Groups (`gui/groups.py`, `gui/group_routes.py`) | cache of verdicts | summary, capture and archive of a group | a cached verdict is the one a fresh evaluation would give |
| Profiles (`profiles/store.py`, `gui/profile_routes.py`) | `profiles/*.yml` | save, delete | a profile in use is not deleted; a save is atomic |
| Engine and checks (`engine.py`, `checks/*`) | none | evaluate one snapshot against another | the verdict is the worst of its parts, missing data is never a pass |
| Scoping (`scoping/*`) | none | match services between boxes by `mapping.yml` and five rules | a service is matched at most once and never by a guess; the reason of an unmatched one is true; nothing is lost |
| Collectors, parsers, probes | none | XML to records, choice of ping targets | translation; not behaviour |
| Reports, browser client | none / polling | rendering | the client stops polling when a task ends |

**How they interact.** A route starts a task in the registry; the task's worker
thread calls `capture_into_run`, which talks to the device for minutes and then
takes the lock of the run directory (`flock`, so that it also excludes other
processes) around its writes. The CLI calls the same function without the
registry. `upgrade_run` reads the whole directory without the lock, compares
modification times under it, and renames files. Edits of the mapping write
`run.yml` without the lock. The browser polls tasks while their worker writes
them.

**What is hard.** Interleavings of captures, edits and upgrades over one
directory; values that are read, then used minutes later (the manifest, the
baseline, the inventory); files that are truncated before they are written;
processes that die between two files that belong together; the order in which a
worker publishes its outcome. `PROJECT.json` lists these places one by one under
`hazards`, with the properties that watch them, or why none does.

## 2. Modules

```
CaptureLeases          <-- refined by --   CaptureManager        <- CaptureManager_proofs
(abstract: leases)                         (gui/captures.py)     <- MCCaptureManager

      ^ extended by
RunShelf                                                         <- RunShelf_proofs
(gui/app.py, group_routes, archive)                              <- MCServer
GroupSummary  (gui/groups.py)                                    <- ServerCaches_proofs
Accounts      (users.py, sessions, auth_routes)                  <- MCServer

RunManifest            <-- extended by --  RunDirectory          <- RunDirectory_proofs
(run.yml, pure)                            (orchestrate, store)  <- MCRunDirectory
RunLedger              <-- refined by --        ^
(abstract: ledger)                              |
                                           RunUpgrade            <- RunUpgrade_proofs
                                           (raw/upgrade.py)      <- MCRunUpgrade

ScopeMatcher           <-- extended by --  Evaluation            <- MCEvaluation
(scoping/matcher.py)                       (engine.py)
  ^ ScopeMatcher_proofs                      ^ Evaluation_proofs

Verdicts (base, baseline, deactivation, result)
  ^ PeerChecks CoreChecks PortChecks RouteChecks ReachabilityChecks
  | EvpnChecks MulticastChecks  (checks/*, pure)
MigrationVerdict  <- VerdictProperties <- MCMigrationVerdict
(capture_device, run_ping, _run_scope)  <- MigrationVerdict_proofs
```

### CaptureManager and CaptureLeases

`state`, `run`, `device`, `steps`, `result` and `error` are the fields of
`CaptureTask`, as functions of the task; `thread` is where the worker thread of
the task stands; `slots` is the value of the semaphore; `maintenance` is the set
of that name and `upgrading` remembers which request is inside the `with`
block. Every `with self._lock` block is one action. The worker's assignments
*outside* the mutex are one action each (`PublishResult`, `MarkDone`,
`MarkFailed`, `SetError`), because a poll may fall between them: one that falls between the
last two sees a failed capture without its error, until the next poll. `Progress` is
the callback. `result` stands for `failed_collectors` and `warnings`, `error`
for the text of the exception.

`CaptureLeases` says the same without threads, queues and a pool: a lease of a
device to one capture, a run shared by captures or held by one upgrade. The
refinement mapping is made of the two questions the code asks, "which active
tasks have this device" and "which active tasks have this run".

### RunManifest

Pure operators over one manifest. A capture record is an entry of the function
`captures` from slots `[phase, node, port]` to the identity of the capture that
took it. `AllPorts` is `None` in the code and `"all"` on disk. It holds the rules
for devices (`CheckKindDevices`, `WithDevice`), records (`RecordCapture`,
`FindCapture`), mapping (`CanAddMapping`, `MappingLocked`, `CanUpdateMapping`) and
the baselines of a post capture (`FindPreBaseline`, `BaselineSlots`).

### RunDirectory and RunLedger

The disk (`yml`, `snap`, `raw`, `inv`, `invRaw`, and `scratch`, the temporary file
of `--parse-services`), the `lock`, and the program
counter and local variables of every capture and every edit. One action per
statement of `capture_into_run` that reads or writes something shared, in the
order of the code: the manifest, then the inventory (with `--parse-services` a
session and a locked block of its own), the baselines one by one, the
measurement, the look for a raw inventory, and under the lock the reload, the
removal of the old raw record, truncation and writing of the snapshot, the raw
record, `record_capture`, truncation and writing of `run.yml`.

- A measurement is identified by the capture that took it. `taken` and
  `started_at` are this identity; the code has seconds, the model assumes two
  captures of one slot do not start in the same one.
- A snapshot file stands for its slot, a node for its host.
  `normalize_port` does not map two ports of a box to one file name in the names
  Junos uses.
- `snap[k]` remembers which baselines (`basis`) and whose inventory a
  measurement used; `raw[k]` what its raw record *says* it used: the `names` of the
  baselines, the identity of each (`bases`) and the inventory. A run may come with records
  that an older version wrote, which name their baselines without an identity
  (`Unsigned`).
- `scratch[e]` is `.tmp-<inventory>`, one file for all captures of the endpoint. It
  is written in one step: who reads it moves it as a whole.
- `write_text` is two steps, truncate and write. Two unlocked writers may leave a
  mixture of both (`Filled`).
- `Crash` is possible at every step of a capture; the kernel frees its lock and
  the disk stays as it is. The number of crashes is bounded by `MaxCrashes`.
- `DiskFails` lets the removal and the writing of raw records fail, as the code's
  handlers expect.
- Edits are `PUT /api/runs/{run}/mapping` (a whole list) and `capture --maps-to`
  (one pair). The model starts an edit only when `run.yml` exists: the first is
  refused without it, the second follows a capture that wrote it.

`RunLedger` is what this promises: a step records one new measurement and keeps
every other, or the ledger is destroyed as a whole (a process died between
truncation and writing of `run.yml`). The mapping looks through a `run.yml` that
is being rewritten at the manifest its writer holds.

### RunUpgrade

Extends `RunDirectory` with calls of `upgrade_run`: the fingerprint pattern by
pattern (a capture may fall between two patterns), the manifest, replay of
inventories and captures (post captures last), the comparison under the lock, and
the swap rename by rename. A baseline that the raw record names is used unless its
identity is recorded and is not that of the capture's baseline; where none is recorded
(`Unsigned`), today's measurement of the slot is used, as `_baselines` says.
A modification time is modelled by the content it
belongs to. That is weaker than the code (a rewrite with the same content also
moves the time and makes the code refuse), so every behaviour of the code's swap
is a behaviour of the model. Whether a regenerated inventory differs is free; a
regenerated snapshot differs if its content does, and `tool` is 2 in it, so it
always does the first time. Staged files are local to the upgrade. Not
modelled here: `dry_run`, which changes nothing, and `utime` of `run.yml`, which only
the cache of verdicts looks at; `GroupSummary` has it.

### ScopeMatcher and Evaluation

`ScopeMatcher` is `match_scopes`. `restB` and `restS` are the pools
`remaining_baseline` and `remaining_subject`, `pairs` is `result.pairs`, `reason`
stands for the two lists of unmatched services, and `rivals` for the dictionary
`ambiguity`: the code records every ambiguity on both of its ends, so what is kept
is a set of edges. One step is one rule of `mapping.yml` (`PairByHand`,
`RefuseByHand`) or one automatic rule with both its passes (`ApplyRule`), then the
reasons are given (`GiveReasons`). The five key functions return lists, as in the
code, and `Hits` is the list the index holds for a key, with repetitions: that is
what the lengths in the code count. Within a rule, `Contested` are the edges of
keys that more than one service lists, `Crowded` the one-to-one edges that meet
another one, `Blocked` those left after the second pass. The text of a reason is
reduced to its kind; the order of recorded ambiguities only chooses which text is
shown. A scope has at most one routing instance and one interface, as
`build_scopes` makes them.

`Evaluation` is the part of `evaluate_snapshots` that decides what becomes of a
service: checked against its baseline, checked alone, listed as unmatched,
excluded from a migration step, hidden by a profile. The link of an L2 part to
its L3 service is an input, constrained to what `link_scopes` can return.

### Verdicts, the check modules and MigrationVerdict

Seven modules hold the checks as pure operators, one per file or pair of files of
`checks/`; `Verdicts` has what they share: a row (`Finding`) with its outcome, the
gate of "unchanged" (`unchanged_or`), the frame around a check (`run_check`: not
applicable, disabled, no baseline, deactivated, collector failed; the severity of the
check or the one a profile gives it, `SeverityOf`), `derive_status`
and the worst of several statuses. A view is what one box shows in one *area*, the
part of the facts that a group of checks reads: BGP records, one IS-IS adjacency,
the tables of hosts, the circuits of an E-Line and so on. Numbers are reduced to the
few values the checks tell apart, addresses and streams are names.

`MigrationVerdict` is the life of one service: the old box is captured
(`CaptureBaseline`, or no baseline is there), then the new one, whose pings are aimed
at what the baseline's tables hold (`CaptureSubject`), then every applicable check
judges (`Judge`), under the profile that was chosen for this evaluation (`profile`: the
checks it turns off and the severities it sets). In each capture collectors may fail, at
most `MaxLost` of those the area needs; a failed collector leaves an empty part and its
name among the failed ones, as `capture_device` does.

`VerdictProperties` states what the verdict promises. It reads the conditions of a
box (`Conditions`: what is wrong with it, and which row is about it) off the *box*,
never off the capture, so that what a collector lost, a check overlooked or a
comparison took for the same shows. The conditions are written without the operators
of the checks, save for names and the markers of absent values.

### RunShelf

Extends `CaptureManager` with the directories its captures write. A directory is an
object of its own (an inode): `live` says which one has the name of a run now, so an
archived directory goes on existing while a capture has its `.lock` open (`handle`).
`yml` and `snap` are reduced to who recorded and who measured; `RunDirectory` has the
rest. A capture is found by the route (`FindRun`, the load of the manifest), accepted
by the registry (`StartCapture`), opens and takes the lock, reads `run.yml` again,
writes the snapshot and `run.yml`, and lets go; every write makes the directory
again if the name has none (`mkdir(exist_ok=True)`). `AskIdle` is `busy_run` of one
run or of all members of a group, `MoveRun` the rename of the next one. `Registry`
ties the worker's steps of `CaptureManager` to the end of `capture_into_run`. The
variable `overtaken` is auxiliary. It holds the captures that were accepted while an
archive of their run was under way, the window the docstring of `archive_run`
(`gui/app.py`) documents, or after it was over; and those whose record was written over
by somebody who does not hold the lock of that directory (`WritesOver`, `RecordedIn`):
the request that creates a run, or a capture whose run was moved since it opened its
lock.

### GroupSummary

`SummaryCache` for one member of a group. Contents and modification times are
identified by the write that made them. The readers take one step per file they read
or stat, in the order of `_member_row`; the writers are a capture (snapshot, then
truncation and writing of `run.yml`), the swap of an upgrade rename by rename with
the touch of `run.yml` at its end, and the save and the deletion of the profile.

### Accounts

The accounts file, `UserStore` with the cache that all threads share, the commands of
the command line (load, prompt, save), a login (get, verify, and for an outdated hash
load, hash, save), sessions, and the check of a session by each request. One step per
read or write of something shared. A hash is a number and the password it is of;
`during` and `alone` are auxiliary: the accounts a user has had since a thread began,
and the logins nobody else's save fell into.

## 3. Runs

| Run | Instance | What it shows |
|---|---|---|
| `manager` | 3 tasks, 2 runs, 2 devices, 1 upgrade, pool of 1 | all properties of the registry, and that it implements the leases |
| `rundir` | 3 captures of a new run, up to 3 crashes, failing raw records | nothing recorded is lost or replaced by a failed capture, files match, `run.yml` is readable, captures end, the run is a ledger |
| `rundir_edited` | a run with a past capture: its overwrite, a rollback capture of the same box, both with `--parse-services`, 2 edits of the mapping, failing raw records | whatever write wins, `run.yml` is consistent |
| `lost_update` | the same | *violated*: an edit removes a capture recorded meanwhile |
| `raw_record` | 3 captures, one an overwrite | *violated*: the raw record names a baseline that was not used |
| `upgrade` | a past pre capture, its overwrite, a post capture, and a past post capture whose raw record has no identities; 1 upgrade, 1 crash | the upgrade loses nothing, overwrites nothing newer, and is faithful |
| `upgrade_ends` | an overwrite and an upgrade, failing disk, 1 crash, fairness | the same when any rename may fail, and both end |
| `matching` | 2 services before, 3 after, each of 8 kinds; with and without a `mapping.yml` of two rules and an ignored service; 2 profiles, step or not, all links | the matching, its reasons and the accounting of the evaluation |
| `self_rival` | 1 service before, 1 after | *violated*: two services that have only each other are not paired |
| `checks` | 22 areas; every pair of the states of a box an area tells apart; with a baseline or without; at most one failed collector per capture; 2 profiles | every check: a pass by comparison has evidence, a fault is reported, a stable service is not blamed, a healthy change is a warning, a deactivation shows, a port is judged once, a host that no longer answers is found |
| `ping_skipped` | a service whose pings the profile leaves out | *violated*: its row says that the check failed |
| `server` | 2 captures, 2 runs archived as a group, 2 devices, 2 directories, an upgrade, a creation, a pool of 2; 1 reader and 5 writes after the first; 1 account, 1 login, 1 request, 2 saves | captures are kept where they were asked for, a cached verdict is current, a request is served as who its user is, a login leaves a usable session |

**Bounds and why they are enough.** In `manager` three tasks over one slot give a running,
a queued and a finished task at once; two runs and two devices give every combination of
shared run and shared device. Two upgrades at once are excluded by the same guard as one
upgrade twice, which one upgrade thread exercises by coming back. In `rundir` the three
captures are two that compete for the role `old` (one must be refused after it has written
its snapshot) and a post capture that finds a baseline, finds none, or finds it torn,
depending on the order. Every capture may die (`MaxCrashes = 3`): one alone, as a command
line process does, or all of them, as when the server is killed. Two ports appear only
where the mapping needs them. In `matching` the eight kinds differ in the rule that tells
them apart (subtype, description, instance, network, VLAN), and include two ends of a
point-to-point link, an address that does not parse, another service type and a service
with two addresses in one network. In `server` the three parts share no state, so a
behaviour is about one of them (`about`); two directories are one that is archived and one
that is made anew under its name, and differ in nothing, hence the symmetry. Two captures
that run at once (`Pool = 2`) are one that records beside another, or one of the moved and
one of the new directory. Five writes after the first are a capture and the truncation, or
a swap with its touch, and writes of the profile between them (`MaxWrites = 6`); two
readers share nothing but the one entry of the cache, which each of them replaces as a
whole, and the proof has any number of them. In `checks` an area is small enough to take
all pairs of states; two collectors that fail in different captures are covered, two in
one capture are not (`MaxLost = 1`): of the areas that matters only to those with several
collectors, where a check is skipped as soon as one of those it needs has failed. Of the two
profiles one sets nothing and one (`Reversed`) turns every check on, makes the advisory ones critical
and some critical ones advisory: what a profile sets concerns each check alone, and the
proofs have any set of profiles. In `upgrade` the past post capture was measured with the
past pre capture, so that its overwrite, or the missing identity, decides what it is
regenerated with. Two
against three is the least at which a service may have a lone candidate under one key and
a crowd under another, and a rival that finds another partner later. The services of a
side are interchangeable, hence the symmetry. Every run that sets `CHECK_DEADLOCK FALSE`
does so because its processes come to an end.

**Fairness.** Weak fairness of each process that has begun. A thread or process
that is runnable is scheduled; a session with a device ends because each RPC has a
timeout (`connection/junos.py`, `timeout`) and a capture makes finitely many; the
lock is only held around local writes, never around a session (`runs/store.py`,
the comment of `lock`). No fairness is assumed for starting anything, for crashes
or for errors. Weak fairness suffices for the lock and the semaphore because the
number of processes is finite and each takes them finitely often.

### Disagreements the runs show

1. `lost_update`: `api.update_mapping` and `capture --maps-to` read and write
   `run.yml` without the lock, which the capture path takes for exactly this
   reason (`runs/orchestrate.py:299-300`).
2. `raw_record`: the recorded identity of a baseline comes from the manifest loaded at
   the start of the capture, the baseline from the file read later. The second half
   of `RawRecordIsTrue` fails too: the inventory in the raw record is read a second
   time, after the measurement (`MCRunDirectoryInventory.cfg`).
3. `self_rival`: a service with two addresses in one network lists the key of that
   network twice, `_index` counts it twice, and it is reported as ambiguous with
   itself (`scoping/matcher.py:108-113, 207`). `LoneCandidatesWouldPair` shows that
   repeated keys are the only cause.
4. `ping_skipped`: `Scope.select` reduces `ping_skipped` to a boolean
   (`models/scope.py:454-457`) over which `ping_reachability` iterates
   (`checks/reachability.py:329-337`): the row says `check selhal` instead of the
   `ping neproveden - mimo profil` of `tests/checks/test_reachability.py:329`.

Three more have a configuration here whose check finds them, without being a run of
the project:

5. `MCRunDirectoryScratch.cfg`: `--parse-services` writes `.tmp-<inventory>` before it
   takes the lock, under one name for every capture of the endpoint
   (`runs/orchestrate.py:124`). The server excludes two captures of one box, two
   command line processes do not exclude each other.
6. `MCEvaluationExcluded.cfg`: when a rule of `mapping.yml` hits two services of one
   side and one of the other, only the two are refused. The third stays, finds no
   candidate, is called new and is dropped from the report of a step.
   `docs/en/reference.md:251-253` promises that all candidates are reported as
   ambiguous. For the services the automatic rules leave, `ExcludedIsForeign` shows
   that this cannot happen.
7. `MCServerStale.cfg`: the key of a cached verdict is made after `run.yml` was loaded
   (`gui/groups.py:113, 125`); a capture recorded in between leaves the old verdict
   under the new key until the next write. `CachedVerdictIsCurrent` excepts just these
   entries.

Met while modelling, visible in the models as the way they are, and promised otherwise
by nobody: `create_run` writes `run.yml` some time after it found the name free
(`WriteNewRun` may write over what a capture of an archived run has put there); a
capture whose route loaded the manifest before its run was archived makes the
directory anew, also when the archive was over before the registry accepted it; a
capture whose run was moved while it held the lock, and was made again since, writes
into the new directory without the lock of that one, and over the records it finds
there; a login that renews a hash saves the whole file and may undo what the command line
saved since the load (`SaveRehash`); an empty ARP or ND table is called unchanged also when
the old box had no address of that family, so that there was nothing to learn (`TableRows`;
`ReachConditions` counts it as a precedent); the archive of a group stops at the first member
that fails; a capture that dies between its snapshot and `run.yml` leaves a cached
verdict of the snapshot before.

## 4. Proofs

`CaptureManager_proofs` proves, for every finite or infinite set of tasks, runs,
devices and upgrades and every pool greater than zero:

- `Invariance`: `Spec => []IInv`;
- from it `TypesHold`, `PoolNeverLeaks`, `DeviceNeverShared`, `MaintenanceIsExclusive` and
  `DoneIsComplete`, the safety invariants of run `manager`;
- `ImplementsLeases`: `Spec => LeasesImplemented`, the refinement of run
  `manager`.

Assumptions: `PoolAssumption` (the pool is a positive number, as `auth.py` checks
when it reads `capture_pool`) and `NoneAssumption` (the value for "no run" and
"no device" is not a run or a device).

*The argument.* The properties are not inductive as they stand. `SlotsConserved`
counts threads that hold a slot, so the step of a worker needs to know that it is
one of them; `OneActivePerDevice` and `MaintenanceExcludesCaptures` speak of the
state of tasks, which the worker changes, so one has to know at which places of
the worker a task is active: `ThreadAgrees` ties the two together.
`MaintenanceAgrees` says that the upgrades inside the `with` block are exactly the
runs in maintenance, each held once, so that leaving the block frees nobody
else's run. `PoolInv` adds that the holders are finitely many, which
`Cardinality` needs. `IInv` is their conjunction with the safety properties; each
action has a lemma of its own. For the refinement, `TasksUntouched`,
`StartGrants`, `EndReturns`, `EnterSeizes`, `ExitReleases` and `QuietStep` map
each action to a step of the leases or a stutter.

`RunDirectory_proofs` proves, for any set of captures with any parameters, any
boxes and ports, and any number of crashes:

- `DirTypesHold`: `DirSpec => []DirTypeOK`;
- `EveryManifestLoads`: `DirSpec => []ManifestConsistent`, also beside edits that
  take no lock;
- `RecordedCapturesStay`, `TornByWritersOnly`, `RecordedAreMeasured` and
  `ImplementsLedger`: without edits (`Editors = {}`), `DirSpec` implies
  `[]CapturesKept`, `[]TornOnlyWhileSaving`, `[]RecordedIsMeasured` and, for a run that
  starts empty, `LedgerImplemented`. With edits the first two are false: that is what
  `lost_update` shows;
- `InventoriesMatch`: `DirSpec /\ []ParsersApart => []InventoryRawMatches`, where
  `ParsersApart` says that no two captures are in `_parse_services` for one endpoint at
  once. The server sees to that (a device has one active capture), two command line
  processes do not: disagreement 5.

Assumptions: those of the modules (`JobAssumption`, `FilesAssumption`, `EditAssumption`,
`CrashAssumption`; `SnapshotAssumption`: a snapshot is not a missing or torn file;
`StartAssumption`: the run to start with is consistent, its records are those of past
captures and of boxes it lists), and where records are compared `Recognisable`: a
missing or torn file is told from a manifest and from a function of slots.

*The argument.* `ManifestConsistent` is not inductive because a process writes
what it has read and changed some steps before. `WritersConsistent` says what every
writer holds: a capture between `LockRun` and the write holds a mapping without
double pairs, a capture that is saving and an edit hold a consistent manifest. The
21 actions that touch no manifest are one case (`QuietSteps`). For the records,
`LockInv` says that the lock is held by exactly the capture that is between its
two ends; so only one capture is past the reload (`LockExcludes`), the manifest it
holds has the records that are on disk, and what it writes has the records of every
capture that is done and its own (`RecordsInv`). The step that truncates `run.yml`
is the commit of the ledger, because from there the ledger is read from the
manifest the writer holds; `FinishSave` is a stutter, the crash of the writer
destroys the ledger.

`DirTypeOK` says of a file that it has the parts the code reads from it, so it needs to
know what a capture holds at each of its places (`LocalsTyped`): a baseline still to be
read is a record of the manifest at hand, a measurement knows its inventory.
For `InventoryRawMatches`, `ScratchInv` adds that the scratch file is the capture's own
from its writing to its move, and that the raw record of the old inventory is gone before
the new one is in place. `RecordedIsMeasured` fails if a refused capture leaves its
snapshot under a slot that is recorded. `HostsInv` shows that a capture is only refused
for a slot without a record: a recorded slot is of a box the run has, so it adds none.
`MeasuredInv` ties the records, and those of the manifest the writer holds, to what lies
in place. It is stated with a set of measurements that lie elsewhere, empty here, so that
the upgrade, which has backups, uses the same lemmas.

`RunUpgrade_proofs` proves, for any number of upgrades beside any captures:

- `UpgradeTypesHold`: `UpSpec => []UpTypeOK`;
- `NoRecordIsLost` and `SwapsKeepRecorded`: without edits, `UpSpec` implies
  `[]RecordedNotLost` and the action property `SwapKeepsRecorded`;
- `RegeneratedAreFaithful`: `UpSpec /\ []RawRecordIsTrue => []RegeneratedIsFaithful`.
  The hypothesis is needed: `raw_record` shows that a raw record may name a baseline
  that was not used, and a raw record that could neither be removed nor replaced tells
  of another capture. The upgrade adds no untruth of its own. Where the record of an older
  version names baselines without identities (`Unsigned`), the code takes what it finds
  today, and the property asks no more than that: each is a measurement of the slot of
  one the capture used.

Assumptions: those above, `UnsignedAssumption` (only captures of the run to start with
have records without identities: this version always writes them), and
`UpgradesAssumption` (an upgrade is not a capture and not the value for a free lock).

*The argument.* `UpTypeInv` says what an upgrade holds at each place, above all that what
it places it has made; `UpLockInv` that it holds the lock exactly while it swaps. With
`LockInv` of the captures nobody else writes a snapshot, a raw record or an inventory
meanwhile (`SwapAlone`), so `SwapInv` holds between the two renames: where a file is
missing its original is in the backup. `BackedUp` are the measurements in backups, and
`MeasuredInv(BackedUp)` is the invariant of the captures with these as the places
elsewhere. For `SwapKeepsRecorded` the upgrade compares under the lock what it noted
before the replay. `NotedInv` says that the records it noted are still those of the run or
some capture was recorded since (`Superseded`), which the comparison excludes; `MadeInv`
that it made only the recorded measurement of each slot; `SwapsRecorded` draws the
conclusion. `FaithInv` follows the identity of a measurement from the raw record to the
staged and to the placed snapshot. For a record without identities the slot must do:
`NamesTold` and `OriginInv` say that what such a record names is the slots of the
capture's baselines, and that a measurement, in place, in a backup or staged, is one of the
slot it lies under.

`ScopeMatcher_proofs` and `Evaluation_proofs` prove, for any sets of services, any
snapshots and any `mapping.yml`:

- `MatcherTypes`, `MatchingHolds`, `AccountedHolds`, `ReasonsHold`: the invariants
  of the matcher in run `matching`;
- `GuessesNever`: `MatchSpec => NeverGuesses`, the action property;
- `LoneCandidatesWouldPair`: `MatchSpec /\ []KeysListedOnce => LoneCandidatesPaired`;
- `EvaluationMatches`: `EvalSpec => MatchSpec`, which carries all of this to the
  evaluation, and from it `NothingDisappears` and `OnlyForeignExcluded`.

Assumption: `ScopesAssumption` (the two snapshots have different services, an
input describes all of them, and the rules of a `mapping.yml` are a sequence).

*The argument.* Within a rule, `PairedEdgesAreAlone`: an edge that the second pass
pairs meets no other edge of the rule, contested or not. That gives the matching and
`NeverGuesses`. `ReasonsAreExact` compares records made during the rules with the
pool at the end, so it needs to know that the records miss nothing
(`RivalsAreRecorded`: two services still in the pool that share a key of a rule already
applied are rivals, because an edge that is not recorded is paired and leaves) and
invent nothing (`RivalsAreReal`: rivals share a key, and each is in the pool or paired, as
mapping.yml takes services away only before the first rule; this is what `Stages` is for).
`PoolHasNoReasons` ties the reasons to the pool; with it, a service that is
excluded must have been left in the pool, where `ReasonsAreExact` speaks of it.

`RunShelf_proofs` proves, for any runs, directories, captures and archives:

- `ShelfUsesRegistry`: `ShelfSpec => Spec`, every behaviour of the server is one of
  the registry;
- from it `ShelfDeviceNeverShared` and `ShelfMaintenanceIsExclusive`: what
  `CaptureManager_proofs` shows of the registry holds of the server;
- `ShelfStaysWhole`: `ShelfSpec => []ShelfIsWhole`.

Assumptions: those of the registry, `DirAssumption` and `RecordAssumption` (the value for
"none" is not a directory, a capture, or a record of one) and `MembersAssumption` (a group
is a sequence of runs).

*The argument.* `CaptureManager` lets any task start for any run at any moment; the
server starts a capture only with the run and the device its route has found.
`AskedInv` says that these are real ones (not "none") from the moment a capture is asked for,
so that the acceptance is a `Start` of the registry. The worker's end is one of the
registry's steps because `Registry` ties it to the end of `capture_into_run`; every other
step leaves the registry's variables alone. For `ShelfIsWhole`, `ShelfInv` says where an
active capture that nobody overtook stands: its run still has the directory the route
found (`StaysHome`), its open lock is of that directory (`HandleHome`), the lock is held
between the reload and the end (`LockerAgrees`), and what it read back has every record
that is there (`KnownKeeps`). A directory has one name (`NamesApart`), and one that is new
was opened by nobody (`HomeIsOwn`); therefore a write into a directory by somebody else
is one of those that overtake.

`ServerCaches_proofs` proves of the two caches of the server, for any numbers of readers,
writes, accounts, logins, requests and commands:

- `CacheServesCurrent`: `SummarySpec => []CachedVerdictIsCurrent`;
- `RequestsServedAsOfThen`: `AccountsSpec => []ServedAsOfRequest`;
- `LoginStaysUsable`: `AccountsSpec => []LoginIsUsable`.

Assumption: `ThreadsAssumption` (a request is not a login).

*The argument.* A summary reads `run.yml`, the profile and the snapshots one after the
other and keeps its verdict under the modification times it took in between. `SummaryInv` says
for each place of a reader what its reads are worth if the times it has are still those
of the files: then they are the files, unless its read of `run.yml` and its time fell
apart, the exception the property names. The truncation of `run.yml` before and the touch
after a swap are what makes that hold of the snapshots, whose times are not in the key. For the
accounts, `ServeInv` says that an entry of the cache with today's time is today's file,
and that what a thread works with, or may still find in the cache, the user has had
since the thread began. `LoginInv` adds what a login without interference knows: the file
it loaded is the file it saves over, and its session has the hash it saved.

`MigrationVerdict_proofs` proves of the verdicts, for any set of areas among the 22, any
states of the boxes that `Shown` allows, any services, and any collectors that fail:

- `UnchangedEarned`: `Spec => []UnchangedIsEvidence`;
- `DeactivationsReported`: `Spec => []DeactivationIsReported`: a service that was active
  fails where the profile leaves `deactivation_state` critical, and is a warning where the
  profile makes it advisory;
- `PortsMeasuredOnce`: `Spec => []PortMeasuredOnce`, for active services of one block, and
  one more for the port where the scope says that its port has one (`OneBlockPerPort`);
- `FaultsReported`: `Spec => []FaultIsReported`, for services of one block as above, of the
  types that the checks of their area are about (`ServicesAreCovered`);
- `LostHostsReported`: `Spec => []LostHostIsReported`, for a service that
  `ping_reachability` applies to (`HostsArePinged`);
- `ChangesAreWarnings`: `Spec => []ChangeIsWarning`: only a check of `Raised`, an advisory one
  that the profile makes critical, fails a healthy move;
- `StableNeverBlamed`: `Spec => []StableServiceNeverBlamed`.

The profile is any of `Profiles`, with any severities. What a property asks of it is its own
premise: those that promise a row ask that the profile leaves the checks they rest on
enabled; `StableServiceNeverBlamed` asks that it leaves `traffic_ceased` off, as `config.py`
does by default: that check wants the port of the old box to be silent, which a service that
goes on as it was is not.

Assumptions: `ProfilesAssumption` (a profile gives a check one of the two severities,
as its validation sees to); `ViewsAssumption` (each view has the parts its collectors
deliver, with the states that `Shown` lists: what is not there has no parts, a record has a state that is
not one of the words the checks use for "none" and "several"); `BlocksAssumption` (a scope
has the fields `build_scopes` gives it; two prefixes are nested or disjoint);
`HostsAssumption` (no host is called "unknown", the word for a value that was not read).
They were written for the proofs and TLC evaluates them on the views of run `checks`, and
there with them the hypotheses on services (`ServicesAssumption` of `MCMigrationVerdict`).

*The argument.* `JudgeInv` says what a verdict is: the checks applied to two captures, each
of which is what its box shows except for the parts whose collector failed. From there on
nothing is temporal. For `UnchangedEarned` every area has a lemma, all with one plan. A
row that is "unchanged" is a finding of a check that was not skipped, so the collectors
the check needs did not fail now (`CollectedNow`); it went through `unchanged_or`, so the
baseline measured the area (`MeasuredBefore`). With that the two captures may be exchanged
for the two boxes (`SubjectSeen`, `BaselineSeen`), and the comparison the check made is one
of the boxes. It remains that each box is in the condition the row is about: this is where
a check may compare the wrong thing, and the reason why `VerdictProperties` says what a
condition *is* (the port and field, the stream, the identifiers of a circuit), not only
that there is one. Two lemmas are about algorithms: `PairedIsSame`, that the circuit
chosen for comparison shares an identifier with this one, and `LongestIsAssigned`, that
the prefix with the fewest addresses that has a source is the one inside all others. A
check that reads a part which its gate does not cover (the IGMP reports of an MVPN, the
configuration of a route) is covered by `SeenOrEmpty`: it sees the box or nothing.

The other two promises are about a healthy service. `Mild` is what a check may say of one:
nothing worse than "info", and, only where the two boxes differ, "degraded", or "broken" if the
check is advisory. Every area has a lemma (`BgpHealthy`, ..., `Inet2Healthy`) that its
checks say no more, in three steps: the new box has none of the conditions, so each state
has its good value (`SoundPeer`, `SoundPort`, `SoundEntry`, ...); the collectors a check needs
did not fail, so it has read that box (`RanAndRead`); and what it is given of the old one is that
box or what a failed collector leaves (`BeforeOrBlank`), which it must not take for a change.
The two theorems follow together (`ServiceHarmless`), since a service that is as it was has
the conditions it had.

`FaultIsReported` is the converse of these: not what a check may say, but what it must.
For every area a lemma (`PeersReported`, ..., `Inet2Reported`) takes a fault of the box apart
(`RouteFault`, `CircuitFault`, `EntryFault`, ...: which record, which field, which value), shows that
the check has a row about exactly that (`Answers`), and that its outcome is a fault or
went through `unchanged_or` from one (`UnchangedIsBlaming`). As no collector failed, what
the check was given is the box (`MeasuredNow`), and as the service is covered the row is in
the verdict (`AnsweredByCheck`); a port's row may stand in the other block. If the old box had
no condition at all, the row cannot be "unchanged" (`UnchangedHasEvidence`, the lemma behind
`UnchangedEarned`), so it is a warning or a failure; the service is no better, because every
row of every check has one of the six statuses (`VerdictRated`: no outcome is left
out of a CASE) and the worst of them counts (`WorstIsBad`).

The attempt to prove these showed that the conditions of a box had left out what
no view of the run had in it: an unknown number of errors, a circuit without
identifiers, an entry of the multicast table with a foreign upstream or without traffic. They are
conditions now and in the views. Others called a fault what the code does not mean to
report: a missing BFD session where the address has two BGP sessions, a host that does not
resolve where the service has no prefix of the family, a remote peer of a circuit with a partner
on the same box, a report without a source of which one of several entries has no tunnel.
These are precedents or notes now, and in the views. It also showed that the premise of `ChangeIsWarning`
need only be about the configuration (`SameConfiguration`): the records of the sessions may
differ.

Only model-checked: liveness (`EveryTaskEnds`, `CapturesEnd`, `ProcessesEnd`), as TLAPS does
not reason about fairness and `ENABLED`.

## 5. What is not modelled

- Parsers (`parsers/*`) and the collectors that call them: they translate XML into
  records and keep no state. The checks are modelled over what they deliver.
- The merge of the tables of several baselines (`_merged_baseline_entries`):
  `MigrationVerdict` has one baseline. Options of a profile other than `enabled` and
  `severity` (thresholds, tolerances) are fixed.
- How scopes come to be (`build_scopes`, `link_scopes`, the blocks of physical ports)
  and which evaluations a run needs (`plan_evaluations`). The matching takes any
  scopes, the checks any set of blocks a service may have.
- Recording and replay of RPCs: sequential, and `RunUpgrade` takes their result, the
  data of the capture or a failure, as given.
- Time as a number: the second in `taken` and in the name of a backup (two upgrades of
  one run in the same second share a backup directory), the window of the login
  throttle, the expiry of a session.
- A raw record that could neither be removed nor replaced, followed by a crash
  before `run.yml` is written, and then an upgrade: there the identity check of
  the upgrade compares two old values. Run `upgrade` therefore has
  `DiskFails = FALSE`; `upgrade_ends` has failing disks and checks that nothing is
  lost, but not that the regenerated snapshot is faithful. (With a failing disk there, TLC
  finds one that is not.)
- The whole of a verdict over many services: `MigrationVerdict` judges one service at a
  time, because no check looks at another one.
- Purge of archived runs, the catalogue of profiles, the inventory of devices and its
  hostname filter, the browser client.
- Wording, logging, layout, argument parsing, HTTP.

## 6. Plan

1. *(done)* Capture registry, its leases, and their proofs.
2. *(done)* Manifest, run directory, ledger, upgrade.
3. *(done)* Matching of services and what an evaluation does with them, with proofs.
4. *(done)* The checks and the life of one service.
5. *(done)* The server: registry with archive, `busy_run` and group capture, composed
   with the directories; the cache of verdicts; accounts, sessions and rehash.
6. *(done)* Proofs of the run directory, the upgrade, the server and its caches.
7. *(done)* Proofs about the verdicts: deactivation, ports, lost hosts, that "unchanged"
   is earned, that a healthy service is not blamed and that a fault is reported.
8. Models: `plan_evaluations`, the links and blocks of services, recording and replay.

## 7. Running it

```
tlc -workers 2 -config MCCaptureManager.cfg MCCaptureManager
tlc -workers 2 -config MCRunDirectory.cfg MCRunDirectory
tlc -workers 2 -config MCRunUpgrade.cfg MCRunUpgrade
tlc -workers 2 -config MCEvaluation.cfg MCEvaluation
tlc -workers 2 -config MCMigrationVerdict.cfg MCMigrationVerdict
tlc -workers 2 -config MCServer.cfg MCServer
tlapm CaptureManager_proofs.tla
tlapm RunDirectory_proofs.tla
tlapm RunUpgrade_proofs.tla
tlapm ScopeMatcher_proofs.tla
tlapm Evaluation_proofs.tla
tlapm RunShelf_proofs.tla
tlapm ServerCaches_proofs.tla
tlapm MigrationVerdict_proofs.tla
```

The other configurations of these modules are the variants section 3 names. Those of
the disagreements (`MCRunDirectoryLost`, `MCRunDirectoryBaseline`, `MCRunDirectoryScratch`,
`MCRunDirectoryInventory`, `MCEvaluationSelfRival`, `MCEvaluationExcluded`,
`MCMigrationVerdictPing`, `MCServerStale`) end with a counterexample.

Definitions whose comment starts with "Mutant of" are plausible bugs in the
definition they precede. No specification uses them; `PROJECT.json` pairs each
property with one that breaks it.
