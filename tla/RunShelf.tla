------------------------------- MODULE RunShelf -------------------------------
(***************************************************************************)
(* The runs of the web server: the capture registry together with the      *)
(* directories that its captures write, while runs are created, archived   *)
(* alone or as a group, and captured again under the same name.            *)
(*                                                                         *)
(* A directory is an object of its own (an inode), since an archived run   *)
(* is renamed while a capture may hold its .lock open; a name leads to the *)
(* directory that has it now.  What a capture writes is reduced to a       *)
(* snapshot file per device and to the records of run.yml: RunDirectory    *)
(* has the rest.  An upgrade is only the maintenance it holds: RunUpgrade  *)
(* has its files.                                                          *)
(***************************************************************************)
EXTENDS CaptureManager, Sequences

CONSTANTS
    Dirs,       \* bound: directories there ever are
    Archivers,  \* requests that archive a run or a group
    Members,    \* runs archived together, in their order: <<run>> or a group
    Creators    \* requests that create a run

ASSUME DirAssumption == None \notin Dirs
ASSUME RecordAssumption ==
    /\ None \notin Tasks
    /\ None \notin [Devices -> Tasks \cup {None}]
    /\ None \notin [run : Runs, device : Devices, dir : Dirs]
ASSUME MembersAssumption == Members \subseteq Seq(Runs)

VARIABLES
    live,       \* run -> the directory runs/<run>, or None
    yml,        \* directory -> device -> capture recorded in its run.yml, or None
    snap,       \* directory -> device -> capture whose snapshot file is there, or None
    locker,     \* directory -> capture that holds its .lock, or None
    asked,      \* capture -> what the route found: run, device and directory; or None
    stage,      \* capture -> where it stands between the route and the end of fn
    handle,     \* capture -> directory whose .lock it opened
    known,      \* capture -> the records it read back under the lock
    archiving,  \* archive request -> runs still to be moved, after busy_run
    creating,   \* create request -> run that was found free, or None
    overtaken   \* captures whose run was moved or written over: StartCapture, WritesOver

diskVars == <<live, yml, snap, locker>>
shelfVars == <<live, yml, snap, locker, asked, stage, handle, known, archiving, creating, overtaken>>

NoCaptures == [d \in Devices |-> None]
Used == {dir \in Dirs : \E r \in Runs : live[r] = dir} \cup {dir \in Dirs : yml[dir] # None}
        \cup {dir \in Dirs : snap[dir] # NoCaptures}
        \cup {dir \in Dirs : \E t \in Tasks : handle[t] = dir}

ShelfInit ==
    /\ Init
    /\ live = [r \in Runs |-> None]
    /\ yml = [dir \in Dirs |-> None]
    /\ snap = [dir \in Dirs |-> NoCaptures]
    /\ locker = [dir \in Dirs |-> None]
    /\ asked = [t \in Tasks |-> None]
    /\ stage = [t \in Tasks |-> "none"]
    /\ handle = [t \in Tasks |-> None]
    /\ known = [t \in Tasks |-> NoCaptures]
    /\ archiving = [a \in Archivers |-> <<>>]
    /\ creating = [c \in Creators |-> None]
    /\ overtaken = {}

-----------------------------------------------------------------------------
(* Paths. *)

\* mkdir(parents=True, exist_ok=True): the directory of that name, a new one if none has it.
Homes(r) == IF live[r] # None THEN {live[r]} ELSE Dirs \ Used
Occupy(r, dir) == live' = [live EXCEPT ![r] = dir]

\* RunStore.load: no run.yml is an empty manifest.
Loaded(r) ==
    IF live[r] = None \/ yml[live[r]] = None THEN NoCaptures ELSE yml[live[r]]
Listed(r) == live[r] # None /\ yml[live[r]] # None

-----------------------------------------------------------------------------
(* Runs are created: the name is found free, then run.yml is written.      *)

FindFree(c, r) ==
    /\ creating[c] = None
    /\ live[r] = None
    /\ creating' = [creating EXCEPT ![c] = r]
    /\ UNCHANGED <<vars, diskVars, asked, stage, handle, known, archiving, overtaken>>

\* The captures that a write of run.yml by somebody without the lock of the directory
\* forgets.
RecordedIn(dir) ==
    {t \in Tasks : asked[t] # None /\ asked[t].dir = dir /\ stage[t] \in {"written", "returned"}}
WritesOver(dir) == overtaken' = overtaken \cup RecordedIn(dir)

\* Nothing keeps the name free in between: what a capture of a moved run has put there by
\* then is written over.
WriteNewRun(c) ==
    LET r == creating[c] IN
    /\ r # None
    /\ creating' = [creating EXCEPT ![c] = None]
    /\ \E dir \in Homes(r) :
          /\ Occupy(r, dir)
          /\ yml' = [yml EXCEPT ![dir] = NoCaptures]
          /\ WritesOver(dir)
    /\ UNCHANGED <<vars, snap, locker, asked, stage, handle, known, archiving>>

-----------------------------------------------------------------------------
(* Runs are archived.  A group asks busy_run for all members first, then   *)
(* they are moved one after the other.                                     *)

\* Mutant of Idle: a capture that waits for a slot does not keep the archive out.
IdleBesideQueue(r) == r \notin maintenance /\ \A t \in ActiveOf(r) : state[t] # "running"

Idle(r) == ~BusyRun(r)

\* busy_run of every member.
AskIdle(a, members) ==
    /\ archiving[a] = <<>>
    /\ \A i \in DOMAIN members : Idle(members[i])
    /\ archiving' = [archiving EXCEPT ![a] = members]
    /\ UNCHANGED <<vars, diskVars, asked, stage, handle, known, creating, overtaken>>

MoveRun(a) ==
    /\ archiving[a] # <<>>
    /\ Listed(Head(archiving[a]))
    /\ Occupy(Head(archiving[a]), None)
    /\ archiving' = [archiving EXCEPT ![a] = Tail(@)]
    /\ UNCHANGED <<vars, yml, snap, locker, asked, stage, handle, known, creating, overtaken>>

\* A member that is gone, or a rename that is refused: the members after it stay.
StopArchiving(a) ==
    /\ archiving[a] # <<>>
    /\ archiving' = [archiving EXCEPT ![a] = <<>>]
    /\ UNCHANGED <<vars, diskVars, asked, stage, handle, known, creating, overtaken>>

-----------------------------------------------------------------------------
(* A capture: the route (or the batch of a group) loads the manifest, then *)
(* asks the registry; the worker runs capture_into_run.                    *)

Step(t, place) == stage' = [stage EXCEPT ![t] = place]

FindRun(t, r, d) ==
    /\ stage[t] = "none"
    /\ state[t] = "none"
    /\ Listed(r)
    /\ asked' = [asked EXCEPT ![t] = [run |-> r, device |-> d, dir |-> live[r]]]
    /\ Step(t, "asked")
    /\ UNCHANGED <<vars, diskVars, handle, known, archiving, creating, overtaken>>

\* A capture is overtaken if it is accepted when an archive of its run has asked busy_run
\* already, or when the run has been moved since the route found it.
StartCapture(t) ==
    LET r == asked[t].run IN
    /\ stage[t] = "asked"
    /\ Start(t, r, asked[t].device)
    /\ Step(t, "accepted")
    /\ overtaken' = IF \/ live[r] # asked[t].dir
                       \/ \E a \in Archivers : \E i \in DOMAIN archiving[a] : archiving[a][i] = r
                    THEN overtaken \cup {t} ELSE overtaken
    /\ UNCHANGED <<diskVars, asked, handle, known, archiving, creating>>

\* RunBusy or DeviceBusy.
RefuseCapture(t) ==
    /\ stage[t] = "asked"
    /\ asked[t].run \in maintenance \/ ActiveOn(asked[t].device) # {}
    /\ Step(t, "refused")
    /\ UNCHANGED <<vars, diskVars, asked, handle, known, archiving, creating, overtaken>>

\* with store.lock(): the directory is made if need be, and its .lock opened.
OpenLock(t) ==
    /\ thread[t] = "working"
    /\ stage[t] = "accepted"
    /\ \E dir \in Homes(run[t]) :
          /\ Occupy(run[t], dir)
          /\ handle' = [handle EXCEPT ![t] = dir]
    /\ Step(t, "waiting")
    /\ UNCHANGED <<vars, yml, snap, locker, asked, known, archiving, creating, overtaken>>

\* flock, and the manifest once more.
LockAndReload(t) ==
    /\ stage[t] = "waiting"
    /\ locker[handle[t]] = None
    /\ locker' = [locker EXCEPT ![handle[t]] = t]
    /\ known' = [known EXCEPT ![t] = Loaded(run[t])]
    /\ Step(t, "locked")
    /\ UNCHANGED <<vars, live, yml, snap, asked, handle, archiving, creating, overtaken>>

SaveSnapshot(t) ==
    /\ stage[t] = "locked"
    /\ \E dir \in Homes(run[t]) :
          /\ Occupy(run[t], dir)
          /\ snap' = [snap EXCEPT ![dir][device[t]] = t]
    /\ Step(t, "saved")
    /\ UNCHANGED <<vars, yml, locker, asked, handle, known, archiving, creating, overtaken>>

\* Mutant of SaveManifest: the records are those the capture began with, not those read
\* back under the lock.
SaveManifestAlone(t) ==
    /\ stage[t] = "saved"
    /\ \E dir \in Homes(run[t]) :
          /\ Occupy(run[t], dir)
          /\ yml' = [yml EXCEPT ![dir] = [NoCaptures EXCEPT ![device[t]] = t]]
          /\ IF dir = handle[t] THEN UNCHANGED overtaken ELSE WritesOver(dir)
    /\ Step(t, "written")
    /\ UNCHANGED <<vars, snap, locker, asked, handle, known, archiving, creating>>

\* A capture whose run was moved since it opened the lock writes run.yml of whatever
\* directory has the name now, with the records of the old one.
SaveManifest(t) ==
    /\ stage[t] = "saved"
    /\ \E dir \in Homes(run[t]) :
          /\ Occupy(run[t], dir)
          /\ yml' = [yml EXCEPT ![dir] = [known[t] EXCEPT ![device[t]] = t]]
          /\ IF dir = handle[t] THEN UNCHANGED overtaken ELSE WritesOver(dir)
    /\ Step(t, "written")
    /\ UNCHANGED <<vars, snap, locker, asked, handle, known, archiving, creating>>

Unlock(t) ==
    /\ stage[t] = "written"
    /\ locker' = [locker EXCEPT ![handle[t]] = None]
    /\ Step(t, "returned")
    /\ UNCHANGED <<vars, live, yml, snap, asked, handle, known, archiving, creating, overtaken>>

\* fn raises: before the lock, or under it, which the with-block gives back.
Raise(t) ==
    /\ thread[t] = "working"
    /\ stage[t] \in {"accepted", "locked", "saved"}
    /\ locker' = [dir \in Dirs |-> IF locker[dir] = t THEN None ELSE locker[dir]]
    /\ Step(t, "raised")
    /\ UNCHANGED <<vars, live, yml, snap, asked, handle, known, archiving, creating, overtaken>>

\* The worker around it: it publishes a result when fn returned, a failure when it raised.
Registry(t) ==
    /\ \/ TakeSlot(t) \/ SetRunning(t) \/ MarkDone(t) \/ SetError(t) \/ LeaveSlot(t)
       \/ stage[t] = "accepted" /\ \E c \in Collectors : Progress(t, c)
       \/ stage[t] = "returned" /\ PublishResult(t)
       \/ stage[t] = "raised" /\ MarkFailed(t)
    /\ UNCHANGED shelfVars

Maintain(u) ==
    /\ \/ \E r \in Runs : Listed(r) /\ EnterMaintenance(u, r)
       \/ ExitMaintenance(u)
    /\ UNCHANGED shelfVars

Capture(t) ==
    \/ \E r \in Runs, d \in Devices : FindRun(t, r, d)
    \/ StartCapture(t)
    \/ RefuseCapture(t)
    \/ OpenLock(t)
    \/ LockAndReload(t)
    \/ SaveSnapshot(t)
    \/ SaveManifest(t)
    \/ Unlock(t)
    \/ Raise(t)
    \/ Registry(t)

ShelfNext ==
    \/ \E c \in Creators : (\E r \in Runs : FindFree(c, r)) \/ WriteNewRun(c)
    \/ \E a \in Archivers : (\E m \in Members : AskIdle(a, m)) \/ MoveRun(a) \/ StopArchiving(a)
    \/ \E t \in Tasks : Capture(t)
    \/ \E u \in Upgrades : Maintain(u)

ShelfSpec == ShelfInit /\ [][ShelfNext]_<<vars, shelfVars>>

-----------------------------------------------------------------------------
(* Properties. *)

\* A run keeps what it was told: a capture shown as done is recorded in the run it was
\* asked for, or replaced there by a later one, and its file lies beside the record,
\* wherever that run has been moved since.  Only a capture that was accepted while an
\* archive of its run was under way, or had moved it already, may end elsewhere (gui/app.py,
\* archive_run documents the window), and only a request that creates a run or such a
\* capture, which writes without the lock of the directory, may write over a record.
DoneIsKept ==
    \A t \in Tasks : state[t] = "done" /\ t \notin overtaken =>
        /\ yml[asked[t].dir] # None
        /\ yml[asked[t].dir][device[t]] # None
        /\ snap[asked[t].dir][device[t]] # None

\* What is not in the list of runs is not on the disk: the directory of a name has a
\* run.yml, or a capture was overtaken and left it there.
NothingUnlisted ==
    overtaken = {} => \A r \in Runs : live[r] # None => Listed(r)

ShelfIsWhole == DoneIsKept /\ NothingUnlisted
=============================================================================
