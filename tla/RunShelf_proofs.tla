---------------------------- MODULE RunShelf_proofs ----------------------------
(***************************************************************************)
(* Proofs about the runs of the server: what they do with the registry is  *)
(* what the registry allows, so that its guarantees are theirs.            *)
(***************************************************************************)
EXTENDS RunShelf, CaptureManager_proofs

\* A capture that is about to be started has found a run and a device of it.
AskedInv ==
    /\ DOMAIN stage = Tasks /\ DOMAIN asked = Tasks
    /\ \A t \in Tasks : stage[t] = "asked" => asked[t].run \in Runs /\ asked[t].device \in Devices

LEMMA AskedInit == ShelfInit => AskedInv
  BY DEF ShelfInit, AskedInv

LEMMA AskedStep == AskedInv /\ [ShelfNext]_<<vars, shelfVars>> => AskedInv'
<1> SUFFICES ASSUME AskedInv, [ShelfNext]_<<vars, shelfVars>> PROVE AskedInv'
  OBVIOUS
<1> USE DEF AskedInv
<1>1. CASE UNCHANGED <<stage, asked>>
  BY <1>1
<1>2. ASSUME NEW t \in Tasks, NEW place, Step(t, place), place # "asked", UNCHANGED asked
      PROVE  AskedInv'
  BY <1>2 DEF Step
<1>3. ASSUME NEW t \in Tasks, NEW r \in Runs, NEW d \in Devices, FindRun(t, r, d)
      PROVE  AskedInv'
  BY <1>3 DEF FindRun, Step
<1>4. ASSUME NEW t \in Tasks, Capture(t)
      PROVE  AskedInv'
  <2>1. CASE StartCapture(t) \/ RefuseCapture(t)
    BY <1>2, <2>1 DEF StartCapture, RefuseCapture
  <2>2. CASE OpenLock(t) \/ LockAndReload(t) \/ SaveSnapshot(t) \/ SaveManifest(t) \/ Unlock(t) \/ Raise(t)
    BY <1>2, <2>2 DEF OpenLock, LockAndReload, SaveSnapshot, SaveManifest, Unlock, Raise
  <2>3. CASE Registry(t)
    BY <1>1, <2>3 DEF Registry, shelfVars
  <2>4. QED
    BY <1>3, <1>4, <2>1, <2>2, <2>3 DEF Capture
<1>5. ASSUME NEW c \in Creators, (\E r \in Runs : FindFree(c, r)) \/ WriteNewRun(c)
      PROVE  AskedInv'
  BY <1>1, <1>5 DEF FindFree, WriteNewRun
<1>6. ASSUME NEW a \in Archivers, (\E m \in Members : AskIdle(a, m)) \/ MoveRun(a) \/ StopArchiving(a)
      PROVE  AskedInv'
  BY <1>1, <1>6 DEF AskIdle, MoveRun, StopArchiving
<1>7. ASSUME NEW u \in Upgrades, Maintain(u)
      PROVE  AskedInv'
  BY <1>1, <1>7 DEF Maintain, shelfVars
<1>8. CASE UNCHANGED <<vars, shelfVars>>
  BY <1>1, <1>8 DEF shelfVars
<1>9. QED
  BY <1>4, <1>5, <1>6, <1>7, <1>8 DEF ShelfNext

-----------------------------------------------------------------------------
(* The registry behind the runs. *)

LEMMA RegistryStep == AskedInv /\ [ShelfNext]_<<vars, shelfVars>> => [Next]_vars
<1> SUFFICES ASSUME AskedInv, [ShelfNext]_<<vars, shelfVars>> PROVE [Next]_vars
  OBVIOUS
<1>1. ASSUME NEW t \in Tasks, Capture(t)
      PROVE  [Next]_vars
  <2>1. CASE StartCapture(t)
    BY <2>1 DEF StartCapture, AskedInv, Next
  <2>2. CASE Registry(t)
    BY <2>2 DEF Registry, Next, Worker
  <2>3. CASE \/ \E r \in Runs, d \in Devices : FindRun(t, r, d)
             \/ RefuseCapture(t) \/ OpenLock(t) \/ LockAndReload(t) \/ SaveSnapshot(t)
             \/ SaveManifest(t) \/ Unlock(t) \/ Raise(t)
    BY <2>3 DEF FindRun, RefuseCapture, OpenLock, LockAndReload, SaveSnapshot, SaveManifest, Unlock, Raise
  <2>4. QED
    BY <1>1, <2>1, <2>2, <2>3 DEF Capture
<1>2. ASSUME NEW c \in Creators, (\E r \in Runs : FindFree(c, r)) \/ WriteNewRun(c)
      PROVE  [Next]_vars
  BY <1>2 DEF FindFree, WriteNewRun
<1>3. ASSUME NEW a \in Archivers, (\E m \in Members : AskIdle(a, m)) \/ MoveRun(a) \/ StopArchiving(a)
      PROVE  [Next]_vars
  BY <1>3 DEF AskIdle, MoveRun, StopArchiving
<1>4. ASSUME NEW u \in Upgrades, Maintain(u)
      PROVE  [Next]_vars
  BY <1>4 DEF Maintain, Next
<1>5. CASE UNCHANGED <<vars, shelfVars>>
  BY <1>5 DEF vars
<1>6. QED
  BY <1>1, <1>2, <1>3, <1>4, <1>5 DEF ShelfNext

\* The routes and the workers use the registry only as it allows (gui/app.py,
\* gui/group_routes.py, gui/capture_launch.py): the server implements CaptureManager.
THEOREM ShelfUsesRegistry == ShelfSpec => Spec
<1>1. ShelfInit => Init
  BY DEF ShelfInit
<1>2. QED
  BY <1>1, AskedInit, AskedStep, RegistryStep, PTL DEF ShelfSpec, Spec

\* While runs are created, archived and captured, a device still has one capture at a time.
THEOREM ShelfDeviceNeverShared == ShelfSpec => []OneActivePerDevice
  BY ShelfUsesRegistry, DeviceNeverShared, PTL

\* And an upgrade still never meets a capture of its run.
THEOREM ShelfMaintenanceIsExclusive == ShelfSpec => []MaintenanceExcludesCaptures
  BY ShelfUsesRegistry, MaintenanceIsExclusive, PTL

-----------------------------------------------------------------------------
(* The shelf is whole.  A capture that is not overtaken has its run where  *)
(* the route found it as long as it is active (StaysHome), so it writes    *)
(* under the lock of the directory it writes; the records that count are   *)
(* in what the holder of that lock has read back (KnownKeeps).             *)

Stages == {"none", "asked", "refused", "accepted", "waiting", "locked", "saved", "written",
           "returned", "raised"}
Records == [Devices -> Tasks \cup {None}]

ShelfTypeOK ==
    /\ live \in [Runs -> Dirs \cup {None}]
    /\ yml \in [Dirs -> Records \cup {None}]
    /\ snap \in [Dirs -> Records]
    /\ locker \in [Dirs -> Tasks \cup {None}]
    /\ asked \in [Tasks -> [run : Runs, device : Devices, dir : Dirs] \cup {None}]
    /\ stage \in [Tasks -> Stages]
    /\ handle \in [Tasks -> Dirs \cup {None}]
    /\ known \in [Tasks -> Records]
    /\ archiving \in [Archivers -> Seq(Runs)]
    /\ creating \in [Creators -> Runs \cup {None}]

\* The stage of a capture, its task and its thread.
Placed ==
    \A t \in Tasks :
        /\ stage[t] \in {"none", "asked", "refused"} <=> state[t] = "none"
        /\ stage[t] \in {"waiting", "locked", "saved", "written"} => thread[t] = "working"
        /\ state[t] = "done" \/ thread[t] = "publishing" => stage[t] = "returned"
        /\ stage[t] # "none" => asked[t] # None
        /\ state[t] # "none" => run[t] = asked[t].run /\ device[t] = asked[t].device

\* A directory that a route has found has a run.yml, and keeps it.
FoundListed == \A t \in Tasks : asked[t] # None => yml[asked[t].dir] # None

\* A directory has one name.
NamesApart == \A r, s \in Runs : live[r] # None /\ live[r] = live[s] => r = s

\* No archive moves the run of an active capture, unless it overtakes it.
Queued(r) == \E a \in Archivers : \E i \in DOMAIN archiving[a] : archiving[a][i] = r
StaysHome ==
    \A t \in Tasks : state[t] \in ActiveStates /\ t \notin overtaken =>
        live[run[t]] = asked[t].dir /\ ~Queued(run[t])

HandleHome ==
    \A t \in Tasks :
        stage[t] \in {"waiting", "locked", "saved", "written"} =>
            handle[t] # None /\ (t \in overtaken \/ handle[t] = asked[t].dir)

LockerAgrees ==
    \A t \in Tasks : stage[t] \in {"locked", "saved", "written"} => locker[handle[t]] = t

\* Whoever writes run.yml under the lock has read the records that count.
KnownKeeps ==
    \A t \in Tasks : stage[t] \in {"locked", "saved"} /\ live[run[t]] = handle[t] =>
        \A u \in RecordedIn(handle[t]) \ overtaken : known[t][device[u]] # None

RecordsKept ==
    \A t \in Tasks \ overtaken :
        stage[t] \in {"written", "returned"} => yml[asked[t].dir][device[t]] # None

SnapshotsKept ==
    \A t \in Tasks \ overtaken :
        stage[t] \in {"saved", "written", "returned"} => snap[asked[t].dir][device[t]] # None

ShelfInv ==
    /\ ShelfTypeOK /\ Placed /\ FoundListed /\ NamesApart
    /\ StaysHome /\ HandleHome /\ LockerAgrees
    /\ KnownKeeps /\ RecordsKept /\ SnapshotsKept /\ NothingUnlisted

LEMMA ShelfInvInit == ShelfInit => ShelfInv
<1> SUFFICES ASSUME ShelfInit PROVE ShelfInv
  OBVIOUS
<1>1. NoCaptures \in Records
  BY DEF NoCaptures, Records
<1>2. ShelfTypeOK
  BY <1>1 DEF ShelfInit, ShelfTypeOK, Stages
<1>3. Placed /\ FoundListed
  BY DEF ShelfInit, Init, Placed, FoundListed
<1>4. NamesApart /\ StaysHome /\ HandleHome /\ LockerAgrees
  BY DEF ShelfInit, Init, NamesApart, StaysHome, HandleHome, LockerAgrees, ActiveStates
<1>5. KnownKeeps /\ RecordsKept /\ SnapshotsKept /\ NothingUnlisted
  BY DEF ShelfInit, KnownKeeps, RecordsKept, SnapshotsKept, NothingUnlisted
<1> QED
  BY <1>2, <1>3, <1>4, <1>5 DEF ShelfInv

\* A run is free to be found or named; requests that create or archive one and are not
\* moving it yet.
LEMMA RequestStep ==
  ASSUME ShelfInv, IInv,
         \/ \E c \in Creators, r \in Runs : FindFree(c, r)
         \/ \E a \in Archivers : (\E m \in Members : AskIdle(a, m)) \/ StopArchiving(a)
  PROVE  ShelfInv'
<1> USE DEF ShelfInv, FindFree, AskIdle, StopArchiving, vars, diskVars
<1> DEFINE Requested ==
      /\ UNCHANGED <<vars, diskVars, asked, stage, handle, known, overtaken>>
      /\ creating' \in [Creators -> Runs \cup {None}]
      /\ archiving' \in [Archivers -> Seq(Runs)]
<1>1. Requested
  <2>1. ASSUME NEW c \in Creators, NEW r \in Runs, FindFree(c, r) PROVE Requested
    BY <2>1 DEF ShelfTypeOK
  <2>2. ASSUME NEW a \in Archivers, NEW m \in Members, AskIdle(a, m) PROVE Requested
    BY <2>2, MembersAssumption DEF ShelfTypeOK
  <2>3. ASSUME NEW a \in Archivers, StopArchiving(a) PROVE Requested
    BY <2>3 DEF ShelfTypeOK
  <2> QED
    BY <2>1, <2>2, <2>3
<1>2. ShelfTypeOK'
  BY <1>1 DEF ShelfTypeOK
<1>3. StaysHome'
  <2> SUFFICES ASSUME NEW t \in Tasks, state[t] \in ActiveStates, t \notin overtaken,
                      NEW a \in Archivers, NEW i \in DOMAIN archiving'[a],
                      archiving'[a][i] = run[t], archiving' # archiving
               PROVE  FALSE
    BY <1>1 DEF StaysHome, Queued
  <2>1. ~Queued(run[t]) /\ t \in ActiveOf(run[t])
    BY DEF StaysHome, ActiveOf
  <2>2. PICK b \in Archivers : (\E m \in Members : AskIdle(b, m)) \/ StopArchiving(b)
    OBVIOUS
  <2>3. a = b
    BY <2>1, <2>2 DEF ShelfTypeOK, Queued
  <2>4. CASE StopArchiving(b)
    BY <2>2, <2>3, <2>4 DEF ShelfTypeOK
  <2>5. ASSUME NEW m \in Members, AskIdle(b, m) PROVE FALSE
    BY <2>1, <2>3, <2>5 DEF Idle, BusyRun, ShelfTypeOK
  <2> QED
    BY <2>2, <2>4, <2>5
<1>4. Placed' /\ FoundListed' /\ NamesApart' /\ HandleHome' /\ LockerAgrees'
  BY <1>1 DEF Placed, FoundListed, NamesApart, HandleHome, LockerAgrees
<1>5. KnownKeeps' /\ RecordsKept' /\ SnapshotsKept' /\ NothingUnlisted'
  BY <1>1 DEF KnownKeeps, RecordsKept, SnapshotsKept, NothingUnlisted, RecordedIn, Listed
<1> QED
  BY <1>2, <1>3, <1>4, <1>5

\* The directory a name leads to after a mkdir has no other name, and if it is new, nobody
\* has found or opened it.
LEMMA HomeIsOwn ==
  ASSUME ShelfInv, NEW r \in Runs, NEW dir \in Homes(r), Occupy(r, dir)
  PROVE  /\ dir \in Dirs /\ dir # None
         /\ live' \in [Runs -> Dirs \cup {None}]
         /\ live'[r] = dir /\ \A s \in Runs \ {r} : live'[s] = live[s] /\ live[s] # dir
         /\ live[r] # None => dir = live[r] /\ live' = live
         /\ live[r] = None => /\ yml[dir] = None
                              /\ \A t \in Tasks : handle[t] # dir
                              /\ \A t \in Tasks : asked[t] # None => asked[t].dir # dir
         /\ NamesApart'
<1> USE DEF ShelfInv, ShelfTypeOK, Homes, Occupy
<1>1. dir \in Dirs /\ dir # None
  BY DirAssumption
<1>2. /\ live' \in [Runs -> Dirs \cup {None}] /\ live'[r] = dir
      /\ \A s \in Runs \ {r} : live'[s] = live[s]
  BY <1>1
<1>3. CASE live[r] # None
  BY <1>1, <1>2, <1>3 DEF NamesApart
<1>4. CASE live[r] = None
  <2>1. dir \notin Used
    BY <1>4
  <2>2. \A s \in Runs : live[s] # dir
    BY <1>1, <2>1 DEF Used
  <2>3. yml[dir] = None /\ \A t \in Tasks : handle[t] # dir
    BY <1>1, <2>1 DEF Used
  <2>4. \A t \in Tasks : asked[t] # None => asked[t].dir # dir
    BY <2>3 DEF FoundListed
  <2> QED
    BY <1>1, <1>2, <1>4, <2>2, <2>3, <2>4 DEF NamesApart
<1> QED
  BY <1>1, <1>2, <1>3, <1>4

\* What an accepted capture knows about itself.
LEMMA AcceptedTypes ==
  ASSUME ShelfInv, IInv, NEW t \in Tasks, state[t] # "none"
  PROVE  /\ run[t] \in Runs /\ device[t] \in Devices
         /\ asked[t] # None /\ asked[t].dir \in Dirs
         /\ run[t] = asked[t].run /\ device[t] = asked[t].device
  BY DEF ShelfInv, ShelfTypeOK, Placed, IInv, ThreadAgrees

LEMMA StageStarted ==
  ASSUME ShelfInv, NEW t \in Tasks, stage[t] \notin {"none", "asked", "refused"}
  PROVE  state[t] # "none"
  BY DEF ShelfInv, Placed

\* A mkdir moves no run that an active capture counts on, and gives no run the directory
\* that a capture has open.
LEMMA OccupyMovesNobody ==
  ASSUME ShelfInv, IInv, NEW r \in Runs, NEW dir \in Homes(r), Occupy(r, dir),
         UNCHANGED <<vars, asked, handle, archiving>>, overtaken \subseteq overtaken'
  PROVE  /\ StaysHome'
         /\ \A t \in Tasks : /\ state[t] # "none" /\ handle[t] # None
                              /\ live'[run[t]] = handle[t]
                            => live[run[t]] = handle[t]
<1> USE DEF ShelfInv, vars
<1>1. /\ live'[r] = dir /\ \A s \in Runs \ {r} : live'[s] = live[s]
      /\ live[r] # None => live' = live
      /\ live[r] = None => \A t \in Tasks : handle[t] # dir
  BY HomeIsOwn
<1>2. ASSUME NEW t \in Tasks, state[t] \in ActiveStates, t \notin overtaken
      PROVE  live'[run[t]] = asked[t].dir /\ ~Queued(run[t])
  <2>1. /\ run[t] \in Runs /\ asked[t].dir \in Dirs
        /\ live[run[t]] = asked[t].dir /\ ~Queued(run[t])
    BY <1>2, AcceptedTypes DEF StaysHome, ActiveStates
  <2> QED
    BY <1>1, <2>1, DirAssumption
<1>3. StaysHome'
  BY <1>2 DEF StaysHome, Queued
<1>4. ASSUME NEW t \in Tasks, state[t] # "none", handle[t] # None, live'[run[t]] = handle[t]
      PROVE  live[run[t]] = handle[t]
  BY <1>1, <1>4, AcceptedTypes
<1> QED
  BY <1>3, <1>4

LEMMA CreateStep ==
  ASSUME ShelfInv, IInv, NEW c \in Creators, WriteNewRun(c)
  PROVE  ShelfInv'
<1> USE DEF ShelfInv, vars
<1> DEFINE r == creating[c]
<1>1. r \in Runs /\ NoCaptures \in Records
  BY DEF WriteNewRun, ShelfTypeOK, NoCaptures, Records
<1>2. PICK dir \in Homes(r) : Occupy(r, dir) /\ yml' = [yml EXCEPT ![dir] = NoCaptures] /\ WritesOver(dir)
  BY DEF WriteNewRun
<1> USE DEF WritesOver
<1>3. /\ UNCHANGED <<vars, snap, locker, asked, stage, handle, known, archiving>>
      /\ creating' = [creating EXCEPT ![c] = None]
  BY DEF WriteNewRun
<1> HIDE DEF r
<1>4. /\ dir \in Dirs /\ dir # None
      /\ live' \in [Runs -> Dirs \cup {None}]
      /\ live'[r] = dir /\ \A s \in Runs \ {r} : live'[s] = live[s] /\ live[s] # dir
      /\ live[r] # None => dir = live[r] /\ live' = live
      /\ live[r] = None => /\ yml[dir] = None
                           /\ \A t \in Tasks : handle[t] # dir
                           /\ \A t \in Tasks : asked[t] # None => asked[t].dir # dir
      /\ NamesApart'
  BY <1>1, <1>2, HomeIsOwn
<1>5. NoCaptures # None
  BY <1>1, RecordAssumption DEF Records
<1>6. ShelfTypeOK'
  BY <1>1, <1>2, <1>3, <1>4 DEF ShelfTypeOK
<1>7. \A d \in Dirs : yml'[d] = IF d = dir THEN NoCaptures ELSE yml[d]
  BY <1>2, <1>4 DEF ShelfTypeOK
<1>8. Placed' /\ FoundListed'
  BY <1>3, <1>5, <1>7 DEF Placed, FoundListed, ShelfTypeOK
<1>9. StaysHome'
  BY <1>1, <1>2, <1>3, OccupyMovesNobody
<1>10. HandleHome' /\ LockerAgrees' /\ SnapshotsKept'
  BY <1>2, <1>3 DEF HandleHome, LockerAgrees, SnapshotsKept
<1>11. KnownKeeps'
  <2> SUFFICES ASSUME NEW t \in Tasks, stage[t] \in {"locked", "saved"}, live'[run[t]] = handle[t],
                      NEW u \in RecordedIn(handle[t]) \ overtaken
               PROVE  known[t][device[u]] # None
    BY <1>2, <1>3 DEF KnownKeeps, RecordedIn
  <2>1. handle[t] # None /\ state[t] # "none"
    BY DEF HandleHome, Placed, IInv, ThreadAgrees
  <2>2. live[run[t]] = handle[t]
    BY <1>1, <1>2, <1>3, <2>1, OccupyMovesNobody
  <2> QED
    BY <2>2 DEF KnownKeeps
<1>12. RecordsKept'
  BY <1>2, <1>3, <1>7 DEF RecordsKept, RecordedIn, Placed, ShelfTypeOK
<1>13. NothingUnlisted'
  BY <1>2, <1>3, <1>4, <1>5, <1>7 DEF NothingUnlisted, Listed, ShelfTypeOK
<1> QED
  BY <1>4, <1>6, <1>8, <1>9, <1>10, <1>11, <1>12, <1>13

LEMMA MoveStep ==
  ASSUME ShelfInv, NEW a \in Archivers, MoveRun(a)
  PROVE  ShelfInv'
<1> USE DEF ShelfInv, vars
<1> DEFINE r == Head(archiving[a])
<1>1. archiving[a] \in Seq(Runs) /\ archiving[a] # <<>>
  BY DEF MoveRun, ShelfTypeOK
<1>2. r \in Runs /\ Tail(archiving[a]) \in Seq(Runs) /\ r = archiving[a][1] /\ 1 \in DOMAIN archiving[a]
  BY <1>1
<1>3. \A i \in DOMAIN Tail(archiving[a]) : \E j \in DOMAIN archiving[a] : archiving[a][j] = Tail(archiving[a])[i]
  BY <1>1
<1>4. /\ UNCHANGED <<vars, yml, snap, locker, asked, stage, handle, known, creating, overtaken>>
      /\ live' = [live EXCEPT ![r] = None]
      /\ archiving' = [archiving EXCEPT ![a] = Tail(archiving[a])]
  BY DEF MoveRun, Occupy
<1>5. Queued(r)
  BY <1>2 DEF Queued
<1> HIDE DEF r
<1>6. ShelfTypeOK'
  BY <1>2, <1>4 DEF ShelfTypeOK
<1>7. Placed' /\ FoundListed' /\ HandleHome' /\ LockerAgrees' /\ RecordsKept' /\ SnapshotsKept'
  BY <1>4 DEF Placed, FoundListed, HandleHome, LockerAgrees, RecordsKept, SnapshotsKept
<1>8. NamesApart'
  BY <1>2, <1>4 DEF NamesApart, ShelfTypeOK
<1>9. StaysHome'
  <2>1. \A s : Queued(s)' => Queued(s)
    BY <1>3, <1>4 DEF Queued, ShelfTypeOK
  <2> QED
    BY <1>2, <1>4, <1>5, <2>1 DEF StaysHome, ShelfTypeOK
<1>10. KnownKeeps'
  <2> SUFFICES ASSUME NEW t \in Tasks, stage[t] \in {"locked", "saved"}, live'[run[t]] = handle[t],
                      NEW u \in RecordedIn(handle[t]) \ overtaken
               PROVE  known[t][device[u]] # None
    BY <1>4 DEF KnownKeeps, RecordedIn
  <2>1. handle[t] # None
    BY DEF HandleHome
  <2>2. live[run[t]] = handle[t]
    BY <1>2, <1>4, <2>1 DEF ShelfTypeOK
  <2> QED
    BY <2>2 DEF KnownKeeps
<1>11. NothingUnlisted'
  BY <1>2, <1>4 DEF NothingUnlisted, Listed, ShelfTypeOK
<1> QED
  BY <1>6, <1>7, <1>8, <1>9, <1>10, <1>11

\* A route has found the run, or the registry refuses the capture.
LEMMA AskStep ==
  ASSUME ShelfInv, IInv, NEW t \in Tasks,
         (\E r \in Runs, d \in Devices : FindRun(t, r, d)) \/ RefuseCapture(t)
  PROVE  ShelfInv'
<1> USE DEF ShelfInv, vars, diskVars
<1>1. CASE RefuseCapture(t)
  <2>1. /\ UNCHANGED <<vars, diskVars, asked, handle, known, archiving, creating, overtaken>>
        /\ stage' = [stage EXCEPT ![t] = "refused"] /\ stage[t] = "asked"
    BY <1>1 DEF RefuseCapture, Step
  <2>2. ShelfTypeOK' /\ Placed' /\ FoundListed' /\ NamesApart' /\ HandleHome' /\ LockerAgrees'
    BY <2>1 DEF ShelfTypeOK, Placed, FoundListed, NamesApart, HandleHome, LockerAgrees, Stages
  <2>3. StaysHome' /\ RecordsKept' /\ SnapshotsKept' /\ NothingUnlisted'
    BY <2>1 DEF ShelfTypeOK, StaysHome, Queued, RecordsKept, SnapshotsKept, NothingUnlisted, Listed
  <2>4. KnownKeeps'
    BY <2>1 DEF ShelfTypeOK, KnownKeeps, RecordedIn
  <2> QED
    BY <2>2, <2>3, <2>4
<1>2. ASSUME NEW r \in Runs, NEW d \in Devices, FindRun(t, r, d) PROVE ShelfInv'
  <2> DEFINE found == [run |-> r, device |-> d, dir |-> live[r]]
  <2>1. /\ UNCHANGED <<vars, diskVars, handle, known, archiving, creating, overtaken>>
        /\ asked' = [asked EXCEPT ![t] = found]
        /\ stage' = [stage EXCEPT ![t] = "asked"] /\ stage[t] = "none" /\ state[t] = "none"
    BY <1>2 DEF FindRun, Step
  <2>2. /\ found \in [run : Runs, device : Devices, dir : Dirs] /\ found # None
        /\ yml[found.dir] # None
    BY <1>2, RecordAssumption DEF FindRun, Listed, ShelfTypeOK
  <2> HIDE DEF found
  <2>3. ShelfTypeOK' /\ Placed' /\ FoundListed' /\ NamesApart' /\ HandleHome' /\ LockerAgrees'
    BY <2>1, <2>2 DEF ShelfTypeOK, Placed, FoundListed, NamesApart, HandleHome, LockerAgrees, Stages
  <2>4. StaysHome'
    BY <2>1 DEF ShelfTypeOK, StaysHome, Queued, ActiveStates
  <2>5. RecordsKept' /\ SnapshotsKept' /\ NothingUnlisted'
    BY <2>1 DEF ShelfTypeOK, RecordsKept, SnapshotsKept, NothingUnlisted, Listed
  <2>6. KnownKeeps'
    BY <2>1 DEF ShelfTypeOK, KnownKeeps, RecordedIn
  <2> QED
    BY <2>3, <2>4, <2>5, <2>6
<1> QED
  BY <1>1, <1>2

\* The registry accepts the capture.
LEMMA AcceptStep ==
  ASSUME ShelfInv, IInv, NEW t \in Tasks, StartCapture(t)
  PROVE  ShelfInv'
<1> USE DEF ShelfInv, diskVars
<1>1. /\ UNCHANGED <<diskVars, asked, handle, known, archiving, creating>>
      /\ stage[t] = "asked" /\ stage' = [stage EXCEPT ![t] = "accepted"]
      /\ state[t] = "none" /\ state' = [state EXCEPT ![t] = "queued"]
      /\ run' = [run EXCEPT ![t] = asked[t].run]
      /\ device' = [device EXCEPT ![t] = asked[t].device]
      /\ thread' = [thread EXCEPT ![t] = "waiting"]
  BY DEF StartCapture, Step, Start, Register
<1>2. /\ overtaken \subseteq overtaken' /\ overtaken' \subseteq overtaken \cup {t}
      /\ t \notin overtaken' => live[asked[t].run] = asked[t].dir /\ ~Queued(asked[t].run)
  BY DEF StartCapture, Queued
<1>3. ShelfTypeOK'
  BY <1>1 DEF ShelfTypeOK, Stages
<1>4. Placed'
  BY <1>1 DEF Placed, ShelfTypeOK, IInv, TypeOK
<1>5. FoundListed' /\ NamesApart'
  BY <1>1 DEF FoundListed, NamesApart
<1>6. HandleHome' /\ LockerAgrees'
  BY <1>1, <1>2 DEF HandleHome, LockerAgrees, ShelfTypeOK
<1>7. StaysHome'
  BY <1>1, <1>2 DEF StaysHome, Queued, ShelfTypeOK, IInv, TypeOK
<1>8. KnownKeeps'
  BY <1>1, <1>2 DEF KnownKeeps, RecordedIn, ShelfTypeOK, IInv, TypeOK
<1>9. RecordsKept' /\ SnapshotsKept'
  BY <1>1, <1>2 DEF RecordsKept, SnapshotsKept, ShelfTypeOK, IInv, TypeOK
<1>10. NothingUnlisted'
  BY <1>1, <1>2 DEF NothingUnlisted, Listed
<1> QED
  BY <1>3, <1>4, <1>5, <1>6, <1>7, <1>8, <1>9, <1>10

\* The worker before the lock: it makes the directory of its run if there is none.
LEMMA OpenStep ==
  ASSUME ShelfInv, IInv, NEW t \in Tasks, OpenLock(t)
  PROVE  ShelfInv'
<1> USE DEF ShelfInv, vars
<1>1. PICK dir \in Homes(run[t]) : Occupy(run[t], dir) /\ handle' = [handle EXCEPT ![t] = dir]
  BY DEF OpenLock
<1>2. /\ UNCHANGED <<vars, yml, snap, locker, asked, known, archiving, creating, overtaken>>
      /\ stage[t] = "accepted" /\ stage' = [stage EXCEPT ![t] = "waiting"]
      /\ thread[t] = "working"
  BY DEF OpenLock, Step
<1>3. /\ state[t] = "running" /\ run[t] \in Runs /\ asked[t].dir \in Dirs
      /\ t \notin overtaken => live[run[t]] = asked[t].dir
  BY <1>2, AcceptedTypes DEF IInv, ThreadAgrees, StaysHome, ActiveStates
<1>4. /\ dir \in Dirs /\ dir # None /\ live' \in [Runs -> Dirs \cup {None}]
      /\ live'[run[t]] = dir /\ \A s \in Runs \ {run[t]} : live'[s] = live[s]
      /\ live[run[t]] # None => dir = live[run[t]] /\ live' = live
      /\ live[run[t]] = None => \A u \in Tasks : handle[u] # dir
      /\ NamesApart'
  BY <1>1, <1>3, HomeIsOwn
<1>5. t \notin overtaken => dir = asked[t].dir /\ live' = live
  BY <1>3, <1>4, DirAssumption
<1>6. ShelfTypeOK'
  BY <1>1, <1>2, <1>4 DEF ShelfTypeOK, Stages
<1>7. Placed' /\ FoundListed'
  BY <1>2 DEF Placed, FoundListed, ShelfTypeOK
<1>8. StaysHome'
  <2>1. ASSUME NEW u \in Tasks, state[u] \in ActiveStates, u \notin overtaken
        PROVE  live'[run[u]] = asked[u].dir /\ ~Queued(run[u])
    <3>1. /\ run[u] \in Runs /\ asked[u].dir \in Dirs
          /\ live[run[u]] = asked[u].dir /\ ~Queued(run[u])
      BY <2>1, AcceptedTypes DEF StaysHome, ActiveStates
    <3> QED
      BY <1>4, <3>1, DirAssumption
  <2> QED
    BY <1>2, <2>1 DEF StaysHome, Queued
<1>9. HandleHome' /\ LockerAgrees'
  BY <1>1, <1>2, <1>4, <1>5 DEF HandleHome, LockerAgrees, ShelfTypeOK
<1>10. KnownKeeps'
  <2> SUFFICES ASSUME NEW s \in Tasks, stage'[s] \in {"locked", "saved"}, live'[run[s]] = handle'[s],
                      NEW u \in RecordedIn(handle[s])' \ overtaken
               PROVE  known[s][device[u]] # None
    BY <1>2 DEF KnownKeeps
  <2>1. s # t /\ stage[s] \in {"locked", "saved"} /\ handle'[s] = handle[s]
    BY <1>1, <1>2 DEF ShelfTypeOK
  <2>2. handle[s] # None /\ run[s] \in Runs
    BY <2>1, AcceptedTypes DEF HandleHome, Placed, IInv, ThreadAgrees
  <2>3. live[run[s]] = handle[s]
    BY <1>4, <2>1, <2>2
  <2>4. u \in RecordedIn(handle[s])
    BY <1>2, <2>1 DEF RecordedIn, ShelfTypeOK
  <2> QED
    BY <2>1, <2>3, <2>4 DEF KnownKeeps
<1>11. RecordsKept' /\ SnapshotsKept'
  BY <1>2 DEF RecordsKept, SnapshotsKept, ShelfTypeOK
<1>12. NothingUnlisted'
  BY <1>2, <1>3, <1>5 DEF NothingUnlisted, Listed
<1> QED
  BY <1>4, <1>6, <1>7, <1>8, <1>9, <1>10, <1>11, <1>12

\* The worker has the lock and reads the records back.
LEMMA LockStep ==
  ASSUME ShelfInv, IInv, NEW t \in Tasks, LockAndReload(t)
  PROVE  ShelfInv'
<1> USE DEF ShelfInv, vars
<1>1. /\ UNCHANGED <<vars, live, yml, snap, asked, handle, archiving, creating, overtaken>>
      /\ stage[t] = "waiting" /\ stage' = [stage EXCEPT ![t] = "locked"]
      /\ locker[handle[t]] = None /\ locker' = [locker EXCEPT ![handle[t]] = t]
      /\ known' = [known EXCEPT ![t] = Loaded(run[t])]
  BY DEF LockAndReload, Step
<1>2. handle[t] \in Dirs /\ run[t] \in Runs
  BY <1>1, AcceptedTypes DEF HandleHome, ShelfTypeOK, Placed, IInv, ThreadAgrees
<1>3. Loaded(run[t]) \in Records
  BY <1>2 DEF Loaded, NoCaptures, Records, ShelfTypeOK
<1>4. ShelfTypeOK'
  BY <1>1, <1>2, <1>3 DEF ShelfTypeOK, Stages
<1>5. Placed' /\ FoundListed' /\ NamesApart' /\ HandleHome'
  BY <1>1 DEF Placed, FoundListed, NamesApart, HandleHome, ShelfTypeOK
<1>6. StaysHome' /\ RecordsKept' /\ SnapshotsKept' /\ NothingUnlisted'
  BY <1>1 DEF StaysHome, Queued, RecordsKept, SnapshotsKept, NothingUnlisted, Listed, ShelfTypeOK
<1>7. LockerAgrees'
  BY <1>1, <1>2, RecordAssumption DEF LockerAgrees, ShelfTypeOK
<1>8. KnownKeeps'
  <2> SUFFICES ASSUME NEW s \in Tasks, stage'[s] \in {"locked", "saved"}, live[run[s]] = handle[s],
                      NEW u \in RecordedIn(handle[s])' \ overtaken
               PROVE  known'[s][device[u]] # None
    BY <1>1 DEF KnownKeeps, RecordedIn
  <2>1. u \in RecordedIn(handle[s])
    BY <1>1 DEF RecordedIn, ShelfTypeOK
  <2>2. CASE s # t
    BY <1>1, <2>1, <2>2 DEF KnownKeeps, ShelfTypeOK
  <2>3. CASE s = t
    <3>1. u \in Tasks \ overtaken /\ asked[u] # None /\ asked[u].dir = handle[t]
          /\ stage[u] \in {"written", "returned"}
      BY <2>1, <2>3 DEF RecordedIn
    <3>2. yml[handle[t]] # None /\ yml[handle[t]][device[u]] # None
      BY <3>1 DEF FoundListed, RecordsKept
    <3>3. known'[t] = yml[handle[t]]
      BY <1>1, <1>2, <2>3, <3>2, DirAssumption DEF Loaded, ShelfTypeOK
    <3> QED
      BY <2>3, <3>2, <3>3
  <2> QED
    BY <2>2, <2>3
<1> QED
  BY <1>4, <1>5, <1>6, <1>7, <1>8

\* The snapshot file is written.
LEMMA SnapshotStep ==
  ASSUME ShelfInv, IInv, NEW t \in Tasks, SaveSnapshot(t)
  PROVE  ShelfInv'
<1> USE DEF ShelfInv, vars
<1>1. PICK dir \in Homes(run[t]) : Occupy(run[t], dir) /\ snap' = [snap EXCEPT ![dir][device[t]] = t]
  BY DEF SaveSnapshot
<1>2. /\ UNCHANGED <<vars, yml, locker, asked, handle, known, archiving, creating, overtaken>>
      /\ stage[t] = "locked" /\ stage' = [stage EXCEPT ![t] = "saved"]
  BY DEF SaveSnapshot, Step
<1>3. /\ state[t] = "running" /\ run[t] \in Runs /\ device[t] \in Devices /\ asked[t].dir \in Dirs
      /\ t \notin overtaken => live[run[t]] = asked[t].dir
  BY <1>2, AcceptedTypes DEF Placed, IInv, ThreadAgrees, StaysHome, ActiveStates
<1>4. /\ dir \in Dirs /\ dir # None /\ live' \in [Runs -> Dirs \cup {None}]
      /\ live[run[t]] # None => dir = live[run[t]] /\ live' = live
      /\ NamesApart'
  BY <1>1, <1>3, HomeIsOwn
<1>5. t \notin overtaken => dir = asked[t].dir /\ live' = live
  BY <1>3, <1>4, DirAssumption
<1>6. /\ snap' \in [Dirs -> Records] /\ snap'[dir][device[t]] = t
      /\ \A d \in Dirs, e \in Devices : snap[d][e] # None => snap'[d][e] # None
  BY <1>1, <1>3, <1>4, RecordAssumption DEF ShelfTypeOK, Records
<1>7. ShelfTypeOK'
  BY <1>2, <1>4, <1>6 DEF ShelfTypeOK, Stages
<1>8. Placed' /\ FoundListed' /\ HandleHome' /\ LockerAgrees'
  BY <1>2 DEF Placed, FoundListed, HandleHome, LockerAgrees, ShelfTypeOK
<1>9. StaysHome'
  BY <1>1, <1>2, <1>3, OccupyMovesNobody
<1>10. KnownKeeps'
  <2> SUFFICES ASSUME NEW s \in Tasks, stage'[s] \in {"locked", "saved"}, live'[run[s]] = handle[s],
                      NEW u \in RecordedIn(handle[s]) \ overtaken
               PROVE  known[s][device[u]] # None
    BY <1>2 DEF KnownKeeps, RecordedIn, ShelfTypeOK
  <2>1. stage[s] \in {"locked", "saved"} /\ handle[s] # None
    BY <1>2 DEF ShelfTypeOK, HandleHome
  <2>2. live[run[s]] = handle[s]
    BY <1>1, <1>2, <1>3, <2>1, OccupyMovesNobody, StageStarted
  <2> QED
    BY <2>1, <2>2 DEF KnownKeeps
<1>11. RecordsKept'
  BY <1>2 DEF RecordsKept, ShelfTypeOK
<1>12. SnapshotsKept'
  <2> SUFFICES ASSUME NEW u \in Tasks \ overtaken, stage'[u] \in {"saved", "written", "returned"}
               PROVE  snap'[asked[u].dir][device[u]] # None
    BY <1>2 DEF SnapshotsKept
  <2>1. CASE u = t
    BY <1>5, <1>6, <2>1, RecordAssumption
  <2>2. CASE u # t
    <3>1. stage[u] \in {"saved", "written", "returned"} /\ snap[asked[u].dir][device[u]] # None
      BY <1>2, <2>2 DEF SnapshotsKept, ShelfTypeOK
    <3>2. asked[u].dir \in Dirs /\ device[u] \in Devices
      BY <3>1, AcceptedTypes, StageStarted
    <3> QED
      BY <1>6, <3>1, <3>2
  <2> QED
    BY <2>1, <2>2
<1>13. NothingUnlisted'
  BY <1>2, <1>3, <1>5 DEF NothingUnlisted, Listed
<1> QED
  BY <1>4, <1>7, <1>8, <1>9, <1>10, <1>11, <1>12, <1>13

\* The records are written: under the lock of the directory they were read from, or over
\* captures that are overtaken by that.
LEMMA ManifestStep ==
  ASSUME ShelfInv, IInv, NEW t \in Tasks, SaveManifest(t)
  PROVE  ShelfInv'
<1> USE DEF ShelfInv, vars
<1>1. PICK dir \in Homes(run[t]) :
         /\ Occupy(run[t], dir)
         /\ yml' = [yml EXCEPT ![dir] = [known[t] EXCEPT ![device[t]] = t]]
         /\ IF dir = handle[t] THEN UNCHANGED overtaken ELSE WritesOver(dir)
  BY DEF SaveManifest
<1>2. /\ UNCHANGED <<vars, snap, locker, asked, handle, known, archiving, creating>>
      /\ stage[t] = "saved" /\ stage' = [stage EXCEPT ![t] = "written"]
  BY DEF SaveManifest, Step
<1>3. /\ state[t] = "running" /\ run[t] \in Runs /\ device[t] \in Devices /\ asked[t].dir \in Dirs
      /\ t \notin overtaken => live[run[t]] = asked[t].dir
  BY <1>2, AcceptedTypes DEF Placed, IInv, ThreadAgrees, StaysHome, ActiveStates
<1>4. /\ dir \in Dirs /\ dir # None /\ live' \in [Runs -> Dirs \cup {None}]
      /\ live'[run[t]] = dir /\ \A s \in Runs \ {run[t]} : live'[s] = live[s]
      /\ live[run[t]] # None => dir = live[run[t]] /\ live' = live
      /\ live[run[t]] = None => \A u \in Tasks : handle[u] # dir
      /\ NamesApart'
  BY <1>1, <1>3, HomeIsOwn
<1>5. t \notin overtaken => dir = asked[t].dir
  BY <1>3, <1>4, DirAssumption
<1>6. /\ overtaken \subseteq overtaken'
      /\ dir # handle[t] => RecordedIn(dir) \subseteq overtaken'
  BY <1>1 DEF WritesOver
<1> DEFINE written == [known[t] EXCEPT ![device[t]] = t]
<1>7. written \in Records
  BY <1>3 DEF ShelfTypeOK, Records
<1>8. /\ written \in Records /\ written # None /\ written[device[t]] # None
      /\ \A e \in Devices : known[t][e] # None => written[e] # None
  <2>1. written # None
    BY <1>7, RecordAssumption DEF Records
  <2>2. known[t] \in Records /\ t # None
    BY RecordAssumption DEF ShelfTypeOK
  <2> QED
    BY <1>3, <1>7, <2>1, <2>2 DEF Records
<1>9. \A d \in Dirs : yml'[d] = IF d = dir THEN written ELSE yml[d]
  BY <1>1, <1>4 DEF ShelfTypeOK
<1>10. yml' \in [Dirs -> Records \cup {None}]
  BY <1>1, <1>4, <1>8 DEF ShelfTypeOK
<1> HIDE DEF written
<1>11. overtaken' = overtaken \cup RecordedIn(dir) \/ overtaken' = overtaken
  BY <1>1 DEF WritesOver
<1>12. ShelfTypeOK'
  BY <1>2, <1>4, <1>10 DEF ShelfTypeOK, Stages
<1>13. Placed' /\ FoundListed'
  BY <1>2, <1>8, <1>9 DEF Placed, FoundListed, ShelfTypeOK
<1>14. HandleHome' /\ LockerAgrees' /\ SnapshotsKept'
  BY <1>2, <1>6 DEF HandleHome, LockerAgrees, SnapshotsKept, ShelfTypeOK
<1>15. StaysHome'
  BY <1>1, <1>2, <1>3, <1>6, OccupyMovesNobody
<1>16. KnownKeeps'
  <2> SUFFICES ASSUME NEW s \in Tasks, stage'[s] \in {"locked", "saved"}, live'[run[s]] = handle[s],
                      NEW u \in RecordedIn(handle[s])' \ overtaken'
               PROVE  known[s][device[u]] # None
    BY <1>2 DEF KnownKeeps, RecordedIn
  <2>1. s # t /\ stage[s] \in {"locked", "saved"} /\ handle[s] # None
    BY <1>2 DEF ShelfTypeOK, HandleHome
  <2>2. live[run[s]] = handle[s]
    BY <1>1, <1>2, <1>3, <1>6, <2>1, OccupyMovesNobody, StageStarted
  <2>3. CASE u = t
    <3>1. asked[t].dir = handle[s] /\ t \notin overtaken
      BY <1>2, <1>6, <2>3 DEF RecordedIn
    <3>2. handle[t] = handle[s]
      BY <1>2, <3>1 DEF HandleHome
    <3> QED
      BY <1>2, <2>1, <3>2 DEF LockerAgrees
  <2>4. CASE u # t
    <3>1. u \in RecordedIn(handle[s]) \ overtaken
      BY <1>2, <1>6, <2>4 DEF RecordedIn, ShelfTypeOK
    <3> QED
      BY <2>1, <2>2, <3>1 DEF KnownKeeps
  <2> QED
    BY <2>3, <2>4
<1>17. RecordsKept'
  <2> SUFFICES ASSUME NEW u \in Tasks \ overtaken', stage'[u] \in {"written", "returned"}
               PROVE  yml'[asked[u].dir][device[u]] # None
    BY <1>2 DEF RecordsKept
  <2>1. u \notin overtaken
    BY <1>6
  <2>2. CASE u = t
    BY <1>3, <1>5, <1>8, <1>9, <2>1, <2>2
  <2>3. CASE u # t
    <3>1. stage[u] \in {"written", "returned"} /\ yml[asked[u].dir][device[u]] # None
      BY <1>2, <2>1, <2>3 DEF RecordsKept, ShelfTypeOK
    <3>2. asked[u].dir \in Dirs /\ device[u] \in Devices /\ asked[u] # None
      BY <3>1, AcceptedTypes, StageStarted
    <3>3. CASE asked[u].dir = dir
      <4>1. u \in RecordedIn(dir) /\ dir = handle[t]
        BY <1>6, <3>1, <3>2, <3>3 DEF RecordedIn
      <4>2. live[run[t]] = handle[t]
        BY <1>4, <4>1
      <4>3. known[t][device[u]] # None
        BY <1>2, <2>1, <4>1, <4>2 DEF KnownKeeps
      <4> QED
        BY <1>8, <1>9, <3>2, <3>3, <4>3
    <3> QED
      BY <1>9, <3>1, <3>2, <3>3
  <2> QED
    BY <2>2, <2>3
<1>18. NothingUnlisted'
  BY <1>4, <1>6, <1>8, <1>9 DEF NothingUnlisted, Listed, ShelfTypeOK
<1> QED
  BY <1>4, <1>12, <1>13, <1>14, <1>15, <1>16, <1>17, <1>18

\* The lock is given back.
LEMMA UnlockStep ==
  ASSUME ShelfInv, IInv, NEW t \in Tasks, Unlock(t) \/ Raise(t)
  PROVE  ShelfInv'
<1> USE DEF ShelfInv, vars
<1>1. /\ UNCHANGED <<vars, live, yml, snap, asked, handle, known, archiving, creating, overtaken>>
      /\ \/ stage[t] = "written" /\ stage' = [stage EXCEPT ![t] = "returned"]
         \/ /\ thread[t] = "working" /\ stage[t] \in {"accepted", "locked", "saved"}
            /\ stage' = [stage EXCEPT ![t] = "raised"]
      /\ locker' \in [Dirs -> Tasks \cup {None}]
      /\ \A dir \in Dirs : locker[dir] # t /\ locker[dir] # None => locker'[dir] = locker[dir]
  <2>1. CASE Unlock(t)
    <3>1. locker[handle[t]] = t
      BY <2>1 DEF Unlock, LockerAgrees
    <3> QED
      BY <2>1, <3>1 DEF Unlock, Step, ShelfTypeOK
  <2>2. CASE Raise(t)
    BY <2>2 DEF Raise, Step, ShelfTypeOK
  <2> QED
    BY <2>1, <2>2
<1>2. ShelfTypeOK'
  BY <1>1 DEF ShelfTypeOK, Stages
<1>3. Placed'
  BY <1>1, StageStarted DEF Placed, ShelfTypeOK, IInv, ThreadAgrees
<1>4. FoundListed' /\ NamesApart' /\ HandleHome' /\ StaysHome' /\ NothingUnlisted'
  BY <1>1 DEF FoundListed, NamesApart, HandleHome, StaysHome, Queued, NothingUnlisted, Listed, ShelfTypeOK
<1>5. LockerAgrees'
  <2> SUFFICES ASSUME NEW s \in Tasks, stage'[s] \in {"locked", "saved", "written"}
               PROVE  locker'[handle[s]] = s
    BY <1>1 DEF LockerAgrees
  <2>1. s # t /\ stage[s] \in {"locked", "saved", "written"}
    BY <1>1 DEF ShelfTypeOK
  <2>2. locker[handle[s]] = s /\ handle[s] \in Dirs
    BY <2>1 DEF LockerAgrees, HandleHome, ShelfTypeOK
  <2> QED
    BY <1>1, <2>1, <2>2, RecordAssumption
<1>6. KnownKeeps'
  BY <1>1 DEF KnownKeeps, RecordedIn, ShelfTypeOK
<1>7. RecordsKept' /\ SnapshotsKept'
  BY <1>1 DEF RecordsKept, SnapshotsKept, ShelfTypeOK
<1> QED
  BY <1>2, <1>3, <1>4, <1>5, <1>6, <1>7

\* The worker around it, and the upgrades.
LEMMA RegistryKeepsShelf ==
  ASSUME ShelfInv, IInv,
         (\E t \in Tasks : Registry(t)) \/ (\E u \in Upgrades : Maintain(u)) \/ UNCHANGED <<vars, shelfVars>>
  PROVE  ShelfInv'
<1> USE DEF ShelfInv, shelfVars
<1>1. UNCHANGED shelfVars /\ UNCHANGED <<run, device>>
  BY DEF Registry, Maintain, vars, TakeSlot, SetRunning, MarkDone, SetError, LeaveSlot,
         Progress, PublishResult, MarkFailed, EnterMaintenance, ExitMaintenance, taskVars
<1>2. Placed' /\ \A t \in Tasks : state'[t] \in ActiveStates => state[t] \in ActiveStates
  <2>1. ASSUME NEW t \in Tasks, Registry(t)
        PROVE  Placed' /\ \A s \in Tasks : state'[s] \in ActiveStates => state[s] \in ActiveStates
    <3>1. \/ /\ TakeSlot(t) \/ LeaveSlot(t) \/ SetError(t) \/ \E c \in Collectors : Progress(t, c)
             /\ UNCHANGED state
          \/ /\ SetRunning(t) \/ MarkFailed(t) \/ MarkDone(t) \/ PublishResult(t)
             /\ UNCHANGED <<run, device>>
      BY <2>1 DEF Registry, TakeSlot, LeaveSlot, SetError, Progress, taskVars, SetRunning,
                  MarkFailed, MarkDone, PublishResult
    <3>2. CASE UNCHANGED state
      <4>1. \A s \in Tasks : thread[s] = "working" /\ thread'[s] # "working" => stage[s] = "returned"
        BY <2>1, <3>2 DEF Registry, TakeSlot, SetRunning, MarkDone, SetError, LeaveSlot, Progress,
                          PublishResult, MarkFailed, Goto, IInv, TypeOK, ThreadAgrees
      <4>2. \A s \in Tasks : thread'[s] = "publishing" => stage[s] = "returned"
        BY <2>1, <3>2 DEF Registry, TakeSlot, SetRunning, MarkDone, SetError, LeaveSlot, Progress,
                          PublishResult, MarkFailed, Goto, IInv, TypeOK, ThreadAgrees, Placed
      <4> QED
        BY <1>1, <3>2, <4>1, <4>2 DEF Placed
    <3>3. CASE SetRunning(t)
      BY <1>1, <3>3 DEF SetRunning, Goto, Placed, IInv, TypeOK, ThreadAgrees, ActiveStates
    <3>4. CASE MarkDone(t)
      BY <1>1, <3>4 DEF MarkDone, Goto, Placed, IInv, TypeOK, ThreadAgrees, ActiveStates
    <3>5. CASE stage[t] = "raised" /\ MarkFailed(t)
      BY <1>1, <3>5 DEF MarkFailed, Goto, Placed, IInv, TypeOK, ThreadAgrees, ActiveStates
    <3> QED
      BY <2>1, <3>2, <3>3, <3>4, <3>5 DEF Registry, TakeSlot, LeaveSlot, SetError, Progress,
                                          PublishResult, taskVars
  <2>2. ASSUME NEW u \in Upgrades, Maintain(u) PROVE UNCHANGED <<state, thread>>
    BY <2>2 DEF Maintain, EnterMaintenance, ExitMaintenance, taskVars
  <2>3. CASE UNCHANGED <<state, thread>>
    BY <1>1, <2>3 DEF Placed
  <2> QED
    BY <2>1, <2>2, <2>3 DEF vars
<1>3. ShelfTypeOK' /\ FoundListed' /\ NamesApart' /\ HandleHome' /\ LockerAgrees'
  BY <1>1 DEF ShelfTypeOK, FoundListed, NamesApart, HandleHome, LockerAgrees
<1>4. StaysHome' /\ KnownKeeps' /\ RecordsKept' /\ SnapshotsKept' /\ NothingUnlisted'
  BY <1>1, <1>2 DEF StaysHome, Queued, KnownKeeps, RecordedIn, RecordsKept, SnapshotsKept, NothingUnlisted, Listed
<1> QED
  BY <1>2, <1>3, <1>4

LEMMA ShelfStep == ShelfInv /\ IInv /\ [ShelfNext]_<<vars, shelfVars>> => ShelfInv'
<1> SUFFICES ASSUME ShelfInv, IInv, [ShelfNext]_<<vars, shelfVars>> PROVE ShelfInv'
  OBVIOUS
<1>1. ASSUME NEW t \in Tasks, Capture(t) PROVE ShelfInv'
  BY <1>1, AskStep, AcceptStep, OpenStep, LockStep, SnapshotStep, ManifestStep, UnlockStep,
     RegistryKeepsShelf DEF Capture
<1> QED
  BY <1>1, RequestStep, CreateStep, MoveStep, RegistryKeepsShelf DEF ShelfNext

\* A capture shown as done is recorded in the run it was asked for, with its file, wherever
\* that run has been moved since; and whatever has a name is in the list of runs: for every
\* number of captures, runs, archives and creations at once (gui/capture_launch.py,
\* gui/app.py archive_run, api.py capture_into_run).
THEOREM ShelfStaysWhole == ShelfSpec => []ShelfIsWhole
<1>1. ShelfInv => ShelfIsWhole
  BY DEF ShelfInv, ShelfIsWhole, DoneIsKept, Placed, FoundListed, RecordsKept, SnapshotsKept
<1>2. ShelfSpec => []IInv
  BY ShelfUsesRegistry, Invariance, PTL
<1> QED
  BY <1>1, <1>2, ShelfInvInit, ShelfStep, PTL DEF ShelfSpec
=============================================================================
