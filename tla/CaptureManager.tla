--------------------------- MODULE CaptureManager ---------------------------
(***************************************************************************)
(* The in-memory registry of captures that the web server keeps            *)
(* (gui/captures.py).  A request starts a capture as a task with a thread  *)
(* of its own; a semaphore bounds the captures that run at once; a task    *)
(* that has not got a slot yet is queued.  A device has at most one active *)
(* task over all runs, and a run under maintenance (an upgrade) accepts no *)
(* task.                                                                   *)
(*                                                                         *)
(* Every with-block of CaptureManager._lock is one action.  The worker     *)
(* writes the task's result, state and error without that lock, so each of *)
(* those assignments is an action of its own, which a poll of              *)
(* GET /api/captures/{id} can fall between.                                *)
(***************************************************************************)
EXTENDS Naturals, FiniteSets

CONSTANTS
    Tasks,       \* identities of the capture tasks, each used once (uuid4)
    Runs,        \* names of runs
    Devices,     \* nodes captured
    Upgrades,    \* request threads that upgrade a run
    Collectors,  \* steps a capture reports through on_progress
    Pool,        \* settings.yml connection.capture_pool
    None         \* no run, no device

ASSUME PoolAssumption == Pool \in Nat \ {0}
ASSUME NoneAssumption == None \notin Runs \cup Devices

VARIABLES
    state,        \* CaptureTask.state, "none" before the task exists
    run,          \* CaptureTask.run
    device,       \* CaptureTask.device
    steps,        \* CaptureTask.steps: status of every collector reported so far
    result,       \* failed_collectors and warnings have been copied to the task
    error,        \* CaptureTask.error has been set
    thread,       \* where the worker thread of the task stands
    slots,        \* value of the semaphore _slots
    maintenance,  \* _maintenance
    upgrading     \* run that the upgrade request holds in maintenance

taskVars == <<state, run, device, steps, result, error>>
vars == <<state, run, device, steps, result, error,
          thread, slots, maintenance, upgrading>>

ActiveStates == {"queued", "running"}
States == ActiveStates \cup {"none", "done", "failed"}
\* The states of a worker in which it holds a slot of the pool.
InSlot == {"slot", "working", "publishing", "failing", "leaving"}
Threads == InSlot \cup {"none", "waiting", "exited"}
StepStates == {"none", "running", "ended"}

TypeOK ==
    /\ state \in [Tasks -> States]
    /\ run \in [Tasks -> Runs \cup {None}]
    /\ device \in [Tasks -> Devices \cup {None}]
    /\ steps \in [Tasks -> [Collectors -> StepStates]]
    /\ result \in [Tasks -> BOOLEAN]
    /\ error \in [Tasks -> BOOLEAN]
    /\ thread \in [Tasks -> Threads]
    /\ slots \in 0..Pool
    /\ maintenance \subseteq Runs
    /\ upgrading \in [Upgrades -> Runs \cup {None}]

Init ==
    /\ state = [t \in Tasks |-> "none"]
    /\ run = [t \in Tasks |-> None]
    /\ device = [t \in Tasks |-> None]
    /\ steps = [t \in Tasks |-> [c \in Collectors |-> "none"]]
    /\ result = [t \in Tasks |-> FALSE]
    /\ error = [t \in Tasks |-> FALSE]
    /\ thread = [t \in Tasks |-> "none"]
    /\ slots = Pool
    /\ maintenance = {}
    /\ upgrading = [u \in Upgrades |-> None]

-----------------------------------------------------------------------------
(* Questions the routes ask under the lock. *)

ActiveOf(r) == {t \in Tasks : run[t] = r /\ state[t] \in ActiveStates}
ActiveOn(d) == {t \in Tasks : device[t] = d /\ state[t] \in ActiveStates}

\* CaptureManager.busy_run: what the archive routes ask.
BusyRun(r) == r \in maintenance \/ ActiveOf(r) # {}

-----------------------------------------------------------------------------
(* The request threads.  A definition named as a mutant is a plausible bug   *)
(* in the definition that follows it; the properties are tested on it.       *)

\* The task is registered as queued and its worker thread started.
Register(t, r, d) ==
    /\ state' = [state EXCEPT ![t] = "queued"]
    /\ run' = [run EXCEPT ![t] = r]
    /\ device' = [device EXCEPT ![t] = d]
    /\ thread' = [thread EXCEPT ![t] = "waiting"]
    /\ UNCHANGED <<steps, result, error, slots, maintenance, upgrading>>

\* Mutant of Start: the run is not checked for maintenance.
StartUnguarded(t, r, d) ==
    /\ state[t] = "none"
    /\ ActiveOn(d) = {}
    /\ Register(t, r, d)

\* Mutant of Start: the busy check forgets the tasks that wait for a slot.
StartBesideQueue(t, r, d) ==
    /\ state[t] = "none"
    /\ r \notin maintenance
    /\ \A s \in ActiveOn(d) : state[s] = "queued"
    /\ Register(t, r, d)

\* start: RunBusy for a run in maintenance, DeviceBusy while any active task
\* holds the device.
Start(t, r, d) ==
    /\ state[t] = "none"
    /\ r \notin maintenance
    /\ ActiveOn(d) = {}
    /\ Register(t, r, d)

\* Mutant of EnterMaintenance: only a running capture keeps the upgrade out.
EnterMaintenanceBesideQueue(u, r) ==
    /\ upgrading[u] = None
    /\ r \notin maintenance
    /\ \A t \in ActiveOf(r) : state[t] # "running"
    /\ maintenance' = maintenance \cup {r}
    /\ upgrading' = [upgrading EXCEPT ![u] = r]
    /\ UNCHANGED <<taskVars, thread, slots>>

\* maintenance, up to the yield: RunBusy when the run is in maintenance
\* already or has an active capture.
EnterMaintenance(u, r) ==
    /\ upgrading[u] = None
    /\ r \notin maintenance
    /\ ActiveOf(r) = {}
    /\ maintenance' = maintenance \cup {r}
    /\ upgrading' = [upgrading EXCEPT ![u] = r]
    /\ UNCHANGED <<taskVars, thread, slots>>

\* maintenance, the finally clause.
ExitMaintenance(u) ==
    /\ upgrading[u] # None
    /\ maintenance' = maintenance \ {upgrading[u]}
    /\ upgrading' = [upgrading EXCEPT ![u] = None]
    /\ UNCHANGED <<taskVars, thread, slots>>

-----------------------------------------------------------------------------
(* The worker thread of a task. *)

Goto(t, place) == thread' = [thread EXCEPT ![t] = place]

\* Mutant of TakeSlot: nobody waits for a slot.
TakeSlotUnbounded(t) ==
    /\ thread[t] = "waiting"
    /\ slots' = slots - 1
    /\ Goto(t, "slot")
    /\ UNCHANGED <<taskVars, maintenance, upgrading>>

\* with self._slots: blocks while the pool is exhausted.
TakeSlot(t) ==
    /\ thread[t] = "waiting"
    /\ slots > 0
    /\ slots' = slots - 1
    /\ Goto(t, "slot")
    /\ UNCHANGED <<taskVars, maintenance, upgrading>>

SetRunning(t) ==
    /\ thread[t] = "slot"
    /\ state' = [state EXCEPT ![t] = "running"]
    /\ Goto(t, "working")
    /\ UNCHANGED <<run, device, steps, result, error, slots, maintenance, upgrading>>

\* on_progress, called by fn: "start" appends a step, any other status closes
\* it.  A capture reports each collector once.
Progress(t, c) ==
    /\ thread[t] = "working"
    /\ steps[t][c] # "ended"
    /\ steps' = [steps EXCEPT ![t][c] = IF @ = "none" THEN "running" ELSE "ended"]
    /\ UNCHANGED <<state, run, device, result, error, thread, slots, maintenance, upgrading>>

\* Mutant of PublishResult: the state is set before the outcome is copied.
PublishStateFirst(t) ==
    /\ thread[t] = "working"
    /\ state' = [state EXCEPT ![t] = "done"]
    /\ Goto(t, "publishing")
    /\ UNCHANGED <<run, device, steps, result, error, slots, maintenance, upgrading>>

\* fn returned: failed_collectors and warnings of the outcome are copied.
PublishResult(t) ==
    /\ thread[t] = "working"
    /\ \A c \in Collectors : steps[t][c] # "running"
    /\ result' = [result EXCEPT ![t] = TRUE]
    /\ Goto(t, "publishing")
    /\ UNCHANGED <<state, run, device, steps, error, slots, maintenance, upgrading>>

MarkDone(t) ==
    /\ thread[t] = "publishing"
    /\ state' = [state EXCEPT ![t] = "done"]
    /\ Goto(t, "leaving")
    /\ UNCHANGED <<run, device, steps, result, error, slots, maintenance, upgrading>>

\* fn raised: the state is set first, the error after it.
MarkFailed(t) ==
    /\ thread[t] = "working"
    /\ state' = [state EXCEPT ![t] = "failed"]
    /\ Goto(t, "failing")
    /\ UNCHANGED <<run, device, steps, result, error, slots, maintenance, upgrading>>

SetError(t) ==
    /\ thread[t] = "failing"
    /\ error' = [error EXCEPT ![t] = TRUE]
    /\ Goto(t, "leaving")
    /\ UNCHANGED <<state, run, device, steps, result, slots, maintenance, upgrading>>

\* Mutant of LeaveSlot: the slot of a failed capture is never given back.
LeaveSlotOnSuccess(t) ==
    /\ thread[t] = "leaving"
    /\ slots' = IF state[t] = "done" THEN slots + 1 ELSE slots
    /\ Goto(t, "exited")
    /\ UNCHANGED <<taskVars, maintenance, upgrading>>

LeaveSlot(t) ==
    /\ thread[t] = "leaving"
    /\ slots' = slots + 1
    /\ Goto(t, "exited")
    /\ UNCHANGED <<taskVars, maintenance, upgrading>>

Worker(t) ==
    \/ TakeSlot(t)
    \/ SetRunning(t)
    \/ PublishResult(t)
    \/ MarkDone(t)
    \/ MarkFailed(t)
    \/ SetError(t)
    \/ LeaveSlot(t)
    \/ \E c \in Collectors : Progress(t, c)

Next ==
    \/ \E t \in Tasks, r \in Runs, d \in Devices : Start(t, r, d)
    \/ \E t \in Tasks : Worker(t)
    \/ \E u \in Upgrades, r \in Runs : EnterMaintenance(u, r)
    \/ \E u \in Upgrades : ExitMaintenance(u)

Spec == Init /\ [][Next]_vars

\* A worker thread is scheduled until it exits: a capture ends, because every
\* RPC has a timeout and a capture makes finitely many of them.  An upgrade
\* ends, because a replay reads finitely many files.
Fairness ==
    /\ \A t \in Tasks : WF_vars(Worker(t))
    /\ \A u \in Upgrades : WF_vars(ExitMaintenance(u))

FairSpec == Spec /\ Fairness

-----------------------------------------------------------------------------
(* Properties. *)

Holding == {t \in Tasks : thread[t] \in InSlot}

\* The pool: free slots and the threads that hold one always add up to the
\* configured pool, so no failure leaks a slot and never more than Pool
\* captures talk to devices at once (captures.py, _slots).
SlotsConserved == slots + Cardinality(Holding) = Pool

\* A device is never captured twice at once, over all runs, queued tasks
\* included (captures.py, DeviceBusy: a PyEZ session is not shared).
OneActivePerDevice ==
    \A t, s \in Tasks :
        /\ state[t] \in ActiveStates
        /\ state[s] \in ActiveStates
        /\ device[t] = device[s]
        => t = s

\* While a run is upgraded no capture of it waits or runs, whichever of the
\* two was asked for first (captures.py, maintenance and start).
MaintenanceExcludesCaptures ==
    \A t \in Tasks : state[t] \in ActiveStates => run[t] \notin maintenance

\* A finished capture shows its failed collectors and warnings: a poll that
\* sees "done" never misses them (captures.py, worker).
DoneShowsResult == \A t \in Tasks : state[t] = "done" => result[t]

\* Every capture accepted ends as done or failed: the pool is not exhausted
\* for ever and no task waits on another (captures.py, worker).
EveryTaskEnds == \A t \in Tasks : state[t] = "queued" ~> state[t] \in {"done", "failed"}
-----------------------------------------------------------------------------
(* Refinement: leases, seen through the registry's own questions. *)

Leases == INSTANCE CaptureLeases WITH
    leased  <- [d \in Devices |-> ActiveOn(d)],
    sharing <- [r \in Runs |-> ActiveOf(r)],
    held    <- [r \in Runs |-> {u \in Upgrades : upgrading[u] = r}],
    used    <- {t \in Tasks : state[t] # "none"}

\* The registry implements the leases: what a request may start depends on
\* nothing but who holds the device and the run at that moment
\* (captures.py, start, maintenance and worker).
LeasesImplemented == Leases!LeaseSpec
=============================================================================
