------------------------ MODULE CaptureManager_proofs ------------------------
(***************************************************************************)
(* Proofs about CaptureManager, for any number of tasks, runs, devices and *)
(* upgrades and any pool.  The worker of a task and the task's state move  *)
(* in step (ThreadAgrees); the upgrade requests and the set _maintenance   *)
(* name the same runs (MaintenanceAgrees); finitely many workers hold a    *)
(* slot (PoolInv).  With these the safety properties are inductive.        *)
(***************************************************************************)
EXTENDS CaptureManager, FiniteSetTheorems, TLAPS

\* The places of the worker at which its task has each state.
ThreadAgrees ==
    \A t \in Tasks :
        /\ state[t] = "none" <=> thread[t] = "none"
        /\ thread[t] \in {"waiting", "slot"} => state[t] = "queued"
        /\ thread[t] \in {"working", "publishing"} => state[t] = "running"
        /\ thread[t] = "failing" => state[t] = "failed"
        /\ thread[t] \in {"leaving", "exited"} => state[t] \in {"done", "failed"}
        /\ thread[t] = "publishing" => result[t]
        /\ state[t] # "none" => run[t] \in Runs /\ device[t] \in Devices

MaintenanceAgrees ==
    /\ \A u \in Upgrades : upgrading[u] # None => upgrading[u] \in maintenance
    /\ \A r \in maintenance : \E u \in Upgrades : upgrading[u] = r
    /\ \A u, v \in Upgrades : upgrading[u] # None /\ upgrading[u] = upgrading[v] => u = v

PoolInv == IsFiniteSet(Holding) /\ SlotsConserved

IInv ==
    /\ TypeOK
    /\ PoolInv
    /\ ThreadAgrees
    /\ MaintenanceAgrees
    /\ OneActivePerDevice
    /\ MaintenanceExcludesCaptures
    /\ DoneShowsResult

-----------------------------------------------------------------------------
(* The pool. *)

\* A worker that is about to give its slot back finds room in the semaphore.
LEMMA LeavingHasRoom ==
  ASSUME TypeOK, PoolInv, NEW t \in Tasks, thread[t] \in InSlot
  PROVE  slots < Pool /\ slots + 1 \in 0..Pool
<1>1. t \in Holding
  BY DEF Holding
<1>2. Cardinality(Holding) \in Nat /\ Cardinality(Holding) # 0
  BY <1>1, FS_CardinalityType, FS_EmptySet DEF PoolInv
<1> QED
  BY <1>2, PoolAssumption DEF PoolInv, SlotsConserved, TypeOK

\* A step that moves no worker in or out of the pool.
LEMMA PoolUntouched ==
  ASSUME PoolInv, UNCHANGED slots, Holding' = Holding
  PROVE  PoolInv'
  BY DEF PoolInv, SlotsConserved

\* Taking a slot.
LEMMA PoolTake ==
  ASSUME TypeOK, PoolInv, NEW t \in Tasks, TakeSlot(t)
  PROVE  PoolInv'
<1>1. Holding' = Holding \cup {t} /\ t \notin Holding
  BY DEF TakeSlot, Goto, Holding, InSlot, TypeOK
<1>2. /\ IsFiniteSet(Holding')
      /\ Cardinality(Holding') = Cardinality(Holding) + 1
      /\ Cardinality(Holding) \in Nat
  BY <1>1, FS_AddElement, FS_CardinalityType DEF PoolInv
<1>3. slots' = slots - 1 /\ slots \in Nat
  BY PoolAssumption DEF TakeSlot, TypeOK
<1> QED
  BY <1>2, <1>3, PoolAssumption DEF PoolInv, SlotsConserved

\* Giving a slot back.
LEMMA PoolLeave ==
  ASSUME TypeOK, PoolInv, NEW t \in Tasks, LeaveSlot(t)
  PROVE  PoolInv'
<1>1. Holding' = Holding \ {t} /\ t \in Holding
  BY DEF LeaveSlot, Goto, Holding, InSlot, TypeOK
<1>2. /\ IsFiniteSet(Holding')
      /\ Cardinality(Holding') = Cardinality(Holding) - 1
      /\ Cardinality(Holding) \in Nat
  BY <1>1, FS_RemoveElement, FS_CardinalityType DEF PoolInv
<1>3. slots' = slots + 1 /\ slots \in Nat
  BY PoolAssumption DEF LeaveSlot, TypeOK
<1> QED
  BY <1>2, <1>3, PoolAssumption DEF PoolInv, SlotsConserved

-----------------------------------------------------------------------------
(* The inductive invariant. *)

LEMMA InvInit == Init => IInv
<1> SUFFICES ASSUME Init PROVE IInv
  OBVIOUS
<1>1. TypeOK
  BY PoolAssumption DEF Init, TypeOK, States, ActiveStates, Threads, InSlot, StepStates
<1>2. Holding = {}
  BY DEF Init, Holding, InSlot
<1>3. PoolInv
  BY <1>2, FS_EmptySet, PoolAssumption DEF PoolInv, SlotsConserved, Init
<1>4. ThreadAgrees /\ MaintenanceAgrees
  BY DEF Init, ThreadAgrees, MaintenanceAgrees
<1>5. OneActivePerDevice /\ MaintenanceExcludesCaptures /\ DoneShowsResult
  BY DEF Init, OneActivePerDevice, MaintenanceExcludesCaptures, DoneShowsResult, ActiveStates
<1> QED
  BY <1>1, <1>3, <1>4, <1>5 DEF IInv

\* Every step keeps the types.
LEMMA TypeStep ==
  ASSUME TypeOK, PoolInv, [Next]_vars
  PROVE  TypeOK'
<1> USE PoolAssumption DEF TypeOK, States, ActiveStates, Threads, InSlot, StepStates
<1>1. ASSUME NEW t \in Tasks, NEW r \in Runs, NEW d \in Devices, Start(t, r, d)
      PROVE  TypeOK'
  BY <1>1 DEF Start, Register
<1>2. ASSUME NEW t \in Tasks, TakeSlot(t) PROVE TypeOK'
  BY <1>2 DEF TakeSlot, Goto, taskVars
<1>3. ASSUME NEW t \in Tasks, SetRunning(t) PROVE TypeOK'
  BY <1>3 DEF SetRunning, Goto
<1>4. ASSUME NEW t \in Tasks, PublishResult(t) PROVE TypeOK'
  BY <1>4 DEF PublishResult, Goto
<1>5. ASSUME NEW t \in Tasks, MarkDone(t) PROVE TypeOK'
  BY <1>5 DEF MarkDone, Goto
<1>6. ASSUME NEW t \in Tasks, MarkFailed(t) PROVE TypeOK'
  BY <1>6 DEF MarkFailed, Goto
<1>7. ASSUME NEW t \in Tasks, SetError(t) PROVE TypeOK'
  BY <1>7 DEF SetError, Goto
<1>8. ASSUME NEW t \in Tasks, LeaveSlot(t) PROVE TypeOK'
  <2>1. slots + 1 \in 0..Pool
    BY <1>8, LeavingHasRoom DEF LeaveSlot
  <2> QED
    BY <1>8, <2>1 DEF LeaveSlot, Goto, taskVars
<1>9. ASSUME NEW t \in Tasks, NEW c \in Collectors, Progress(t, c) PROVE TypeOK'
  <2>1. steps[t] \in [Collectors -> StepStates]
    OBVIOUS
  <2>2. steps' \in [Tasks -> [Collectors -> StepStates]]
    BY <1>9, <2>1 DEF Progress
  <2> QED
    BY <1>9, <2>2 DEF Progress
<1>10. ASSUME NEW u \in Upgrades, NEW r \in Runs, EnterMaintenance(u, r) PROVE TypeOK'
  BY <1>10 DEF EnterMaintenance, taskVars
<1>11. ASSUME NEW u \in Upgrades, ExitMaintenance(u) PROVE TypeOK'
  BY <1>11 DEF ExitMaintenance, taskVars
<1>12. CASE UNCHANGED vars
  BY <1>12 DEF vars
<1> QED
  BY <1>1, <1>2, <1>3, <1>4, <1>5, <1>6, <1>7, <1>8, <1>9, <1>10, <1>11, <1>12
     DEF Next, Worker

\* A worker enters and leaves the pool by TakeSlot and LeaveSlot only.
LEMMA PoolStep ==
  ASSUME TypeOK, PoolInv, ThreadAgrees, [Next]_vars
  PROVE  PoolInv'
<1> USE DEF TypeOK, Holding, InSlot, Goto
<1>1. ASSUME NEW t \in Tasks, NEW r \in Runs, NEW d \in Devices, Start(t, r, d)
      PROVE  PoolInv'
  BY <1>1, PoolUntouched DEF Start, Register, ThreadAgrees
<1>2. ASSUME NEW t \in Tasks, TakeSlot(t) PROVE PoolInv'
  BY <1>2, PoolTake
<1>3. ASSUME NEW t \in Tasks, SetRunning(t) PROVE PoolInv'
  BY <1>3, PoolUntouched DEF SetRunning
<1>4. ASSUME NEW t \in Tasks, PublishResult(t) PROVE PoolInv'
  BY <1>4, PoolUntouched DEF PublishResult
<1>5. ASSUME NEW t \in Tasks, MarkDone(t) PROVE PoolInv'
  BY <1>5, PoolUntouched DEF MarkDone
<1>6. ASSUME NEW t \in Tasks, MarkFailed(t) PROVE PoolInv'
  BY <1>6, PoolUntouched DEF MarkFailed
<1>7. ASSUME NEW t \in Tasks, SetError(t) PROVE PoolInv'
  BY <1>7, PoolUntouched DEF SetError
<1>8. ASSUME NEW t \in Tasks, LeaveSlot(t) PROVE PoolInv'
  BY <1>8, PoolLeave
<1>9. ASSUME NEW t \in Tasks, NEW c \in Collectors, Progress(t, c) PROVE PoolInv'
  BY <1>9, PoolUntouched DEF Progress
<1>10. ASSUME NEW u \in Upgrades, NEW r \in Runs, EnterMaintenance(u, r) PROVE PoolInv'
  BY <1>10, PoolUntouched DEF EnterMaintenance
<1>11. ASSUME NEW u \in Upgrades, ExitMaintenance(u) PROVE PoolInv'
  BY <1>11, PoolUntouched DEF ExitMaintenance
<1>12. CASE UNCHANGED vars
  BY <1>12, PoolUntouched DEF vars
<1> QED
  BY <1>1, <1>2, <1>3, <1>4, <1>5, <1>6, <1>7, <1>8, <1>9, <1>10, <1>11, <1>12
     DEF Next, Worker

\* The task and its worker move together.
LEMMA ThreadStep ==
  ASSUME TypeOK, ThreadAgrees, [Next]_vars
  PROVE  ThreadAgrees'
<1> USE DEF TypeOK, ThreadAgrees
<1>1. ASSUME NEW t \in Tasks, NEW r \in Runs, NEW d \in Devices, Start(t, r, d)
      PROVE  ThreadAgrees'
  BY <1>1 DEF Start, Register
<1>2. ASSUME NEW t \in Tasks, Worker(t) PROVE ThreadAgrees'
  <2>1. CASE TakeSlot(t)
    BY <2>1 DEF TakeSlot, Goto, taskVars
  <2>2. CASE SetRunning(t)
    BY <2>2 DEF SetRunning, Goto
  <2>3. CASE PublishResult(t)
    BY <2>3 DEF PublishResult, Goto
  <2>4. CASE MarkDone(t)
    BY <2>4 DEF MarkDone, Goto
  <2>5. CASE MarkFailed(t)
    BY <2>5 DEF MarkFailed, Goto
  <2>6. CASE SetError(t)
    BY <2>6 DEF SetError, Goto
  <2>7. CASE LeaveSlot(t)
    BY <2>7 DEF LeaveSlot, Goto, taskVars
  <2>8. ASSUME NEW c \in Collectors, Progress(t, c) PROVE ThreadAgrees'
    BY <2>8 DEF Progress
  <2> QED
    BY <1>2, <2>1, <2>2, <2>3, <2>4, <2>5, <2>6, <2>7, <2>8 DEF Worker
<1>3. ASSUME NEW u \in Upgrades, NEW r \in Runs, EnterMaintenance(u, r) PROVE ThreadAgrees'
  BY <1>3 DEF EnterMaintenance, taskVars
<1>4. ASSUME NEW u \in Upgrades, ExitMaintenance(u) PROVE ThreadAgrees'
  BY <1>4 DEF ExitMaintenance, taskVars
<1>5. CASE UNCHANGED vars
  BY <1>5 DEF vars
<1> QED
  BY <1>1, <1>2, <1>3, <1>4, <1>5 DEF Next

\* Which tasks are active, and on what, changes by Start, MarkDone and
\* MarkFailed only.
LEMMA ActiveStep ==
  ASSUME TypeOK, ThreadAgrees, NEW t \in Tasks, Worker(t)
  PROVE  /\ \A s \in Tasks : state'[s] \in ActiveStates => state[s] \in ActiveStates
         /\ UNCHANGED <<run, device, maintenance, upgrading>>
<1> USE DEF TypeOK, ThreadAgrees, ActiveStates, Goto, taskVars
<1>1. CASE TakeSlot(t)
  BY <1>1 DEF TakeSlot
<1>2. CASE SetRunning(t)
  BY <1>2 DEF SetRunning
<1>3. CASE PublishResult(t)
  BY <1>3 DEF PublishResult
<1>4. CASE MarkDone(t)
  BY <1>4 DEF MarkDone
<1>5. CASE MarkFailed(t)
  BY <1>5 DEF MarkFailed
<1>6. CASE SetError(t)
  BY <1>6 DEF SetError
<1>7. CASE LeaveSlot(t)
  BY <1>7 DEF LeaveSlot
<1>8. CASE \E c \in Collectors : Progress(t, c)
  BY <1>8 DEF Progress
<1> QED
  BY <1>1, <1>2, <1>3, <1>4, <1>5, <1>6, <1>7, <1>8 DEF Worker

LEMMA MaintenanceStep ==
  ASSUME TypeOK, ThreadAgrees, MaintenanceAgrees, [Next]_vars
  PROVE  MaintenanceAgrees'
<1> USE DEF MaintenanceAgrees
<1>1. ASSUME NEW t \in Tasks, NEW r \in Runs, NEW d \in Devices, Start(t, r, d)
      PROVE  MaintenanceAgrees'
  BY <1>1 DEF Start, Register
<1>2. ASSUME NEW t \in Tasks, Worker(t) PROVE MaintenanceAgrees'
  BY <1>2, ActiveStep
<1>3. ASSUME NEW u \in Upgrades, NEW r \in Runs, EnterMaintenance(u, r)
      PROVE  MaintenanceAgrees'
  BY <1>3, NoneAssumption DEF EnterMaintenance, TypeOK
<1>4. ASSUME NEW u \in Upgrades, ExitMaintenance(u) PROVE MaintenanceAgrees'
  BY <1>4, NoneAssumption DEF ExitMaintenance, TypeOK
<1>5. CASE UNCHANGED vars
  BY <1>5 DEF vars
<1> QED
  BY <1>1, <1>2, <1>3, <1>4, <1>5 DEF Next

LEMMA DeviceStep ==
  ASSUME TypeOK, ThreadAgrees, OneActivePerDevice, [Next]_vars
  PROVE  OneActivePerDevice'
<1> USE DEF OneActivePerDevice
<1>1. ASSUME NEW t \in Tasks, NEW r \in Runs, NEW d \in Devices, Start(t, r, d)
      PROVE  OneActivePerDevice'
  BY <1>1 DEF Start, Register, ActiveOn, TypeOK
<1>2. ASSUME NEW t \in Tasks, Worker(t) PROVE OneActivePerDevice'
  BY <1>2, ActiveStep
<1>3. ASSUME UNCHANGED taskVars PROVE OneActivePerDevice'
  BY <1>3 DEF taskVars
<1> QED
  BY <1>1, <1>2, <1>3 DEF Next, EnterMaintenance, ExitMaintenance, vars, taskVars

LEMMA ExclusionStep ==
  ASSUME TypeOK, ThreadAgrees, MaintenanceAgrees, MaintenanceExcludesCaptures, [Next]_vars
  PROVE  MaintenanceExcludesCaptures'
<1> USE DEF MaintenanceExcludesCaptures
<1>1. ASSUME NEW t \in Tasks, NEW r \in Runs, NEW d \in Devices, Start(t, r, d)
      PROVE  MaintenanceExcludesCaptures'
  BY <1>1 DEF Start, Register, TypeOK
<1>2. ASSUME NEW t \in Tasks, Worker(t) PROVE MaintenanceExcludesCaptures'
  BY <1>2, ActiveStep
<1>3. ASSUME NEW u \in Upgrades, NEW r \in Runs, EnterMaintenance(u, r)
      PROVE  MaintenanceExcludesCaptures'
  BY <1>3 DEF EnterMaintenance, ActiveOf, taskVars
<1>4. ASSUME NEW u \in Upgrades, ExitMaintenance(u) PROVE MaintenanceExcludesCaptures'
  BY <1>4 DEF ExitMaintenance, taskVars
<1>5. CASE UNCHANGED vars
  BY <1>5 DEF vars
<1> QED
  BY <1>1, <1>2, <1>3, <1>4, <1>5 DEF Next

LEMMA DoneStep ==
  ASSUME TypeOK, ThreadAgrees, DoneShowsResult, [Next]_vars
  PROVE  DoneShowsResult'
<1> USE DEF DoneShowsResult, TypeOK
<1>1. ASSUME NEW t \in Tasks, NEW r \in Runs, NEW d \in Devices, Start(t, r, d)
      PROVE  DoneShowsResult'
  BY <1>1 DEF Start, Register
<1>2. ASSUME NEW t \in Tasks, MarkDone(t) PROVE DoneShowsResult'
  BY <1>2 DEF MarkDone, ThreadAgrees
<1>3. ASSUME NEW t \in Tasks, PublishResult(t) PROVE DoneShowsResult'
  BY <1>3 DEF PublishResult
<1>4. ASSUME NEW t \in Tasks,
             SetRunning(t) \/ MarkFailed(t)
      PROVE  DoneShowsResult'
  BY <1>4 DEF SetRunning, MarkFailed
<1>5. ASSUME UNCHANGED <<state, result>> PROVE DoneShowsResult'
  BY <1>5
<1>6. ASSUME NEW t \in Tasks,
             TakeSlot(t) \/ SetError(t) \/ LeaveSlot(t) \/ \E c \in Collectors : Progress(t, c)
      PROVE  UNCHANGED <<state, result>>
  BY <1>6 DEF TakeSlot, SetError, LeaveSlot, Progress, taskVars
<1> QED
  BY <1>1, <1>2, <1>3, <1>4, <1>5, <1>6
     DEF Next, Worker, EnterMaintenance, ExitMaintenance, vars, taskVars

THEOREM Invariance == Spec => []IInv
<1>1. Init => IInv
  BY InvInit
<1>2. IInv /\ [Next]_vars => IInv'
  BY TypeStep, PoolStep, ThreadStep, MaintenanceStep, DeviceStep, ExclusionStep, DoneStep
     DEF IInv
<1> QED
  BY <1>1, <1>2, PTL DEF Spec

\* Every variable keeps its type; in particular the semaphore stays between
\* zero and the pool (captures.py, CaptureManager).
THEOREM TypesHold == Spec => []TypeOK
  BY Invariance, PTL DEF IInv

\* No slot of the pool is ever lost or invented (captures.py, _slots).
THEOREM PoolNeverLeaks == Spec => []SlotsConserved
  BY Invariance, PTL DEF IInv, PoolInv

\* At most one queued or running capture per device over all runs
\* (captures.py, start).
THEOREM DeviceNeverShared == Spec => []OneActivePerDevice
  BY Invariance, PTL DEF IInv

\* Captures of a run and its maintenance never overlap, whichever came first
\* (captures.py, start and maintenance).
THEOREM MaintenanceIsExclusive == Spec => []MaintenanceExcludesCaptures
  BY Invariance, PTL DEF IInv

\* A capture shown as done shows its result (captures.py, worker).
THEOREM DoneIsComplete == Spec => []DoneShowsResult
  BY Invariance, PTL DEF IInv

-----------------------------------------------------------------------------
(* The registry implements the leases. *)

\* What the leases see of the tasks is their state, run and device.
LEMMA TasksUntouched ==
  ASSUME UNCHANGED <<state, run, device>>
  PROVE  /\ [d \in Devices |-> ActiveOn(d)]' = [d \in Devices |-> ActiveOn(d)]
         /\ [r \in Runs |-> ActiveOf(r)]' = [r \in Runs |-> ActiveOf(r)]
         /\ {t \in Tasks : state[t] # "none"}' = {t \in Tasks : state[t] # "none"}
<1>1. \A d \in Devices : ActiveOn(d)' = ActiveOn(d)
  BY DEF ActiveOn
<1>2. \A r \in Runs : ActiveOf(r)' = ActiveOf(r)
  BY DEF ActiveOf
<1>3. {t \in Tasks : state[t] # "none"}' = {t \in Tasks : state[t] # "none"}
  OBVIOUS
<1> QED
  BY <1>1, <1>2, <1>3

\* A capture accepted is a lease of its device and a share of its run.
LEMMA StartGrants ==
  ASSUME IInv, NEW t \in Tasks, NEW r \in Runs, NEW d \in Devices, Start(t, r, d)
  PROVE  Leases!Grant(t, r, d)
<1> USE DEF IInv, TypeOK, Start, Register, ActiveStates
<1>1. ActiveOn(d)' = {t} /\ \A e \in Devices \ {d} : ActiveOn(e)' = ActiveOn(e)
  BY DEF ActiveOn
<1>2. ActiveOf(r)' = ActiveOf(r) \cup {t} /\ \A q \in Runs \ {r} : ActiveOf(q)' = ActiveOf(q)
  BY DEF ActiveOf
<1>3. {u \in Upgrades : upgrading[u] = r} = {}
  BY NoneAssumption DEF MaintenanceAgrees
<1>4. {s \in Tasks : state'[s] # "none"} = {s \in Tasks : state[s] # "none"} \cup {t}
  OBVIOUS
<1>5. /\ ActiveOn(d) = {} /\ state[t] = "none" /\ UNCHANGED upgrading
  OBVIOUS
<1> HIDE DEF IInv, TypeOK, Start, Register, ActiveStates
<1> QED
  BY <1>1, <1>2, <1>3, <1>4, <1>5 DEF Leases!Grant

\* A capture that ends gives both back.
LEMMA EndReturns ==
  ASSUME IInv, NEW t \in Tasks, MarkDone(t) \/ MarkFailed(t)
  PROVE  Leases!Return(t, run[t], device[t])
<1> USE DEF IInv, TypeOK, ActiveStates
<1>1. /\ state[t] = "running"
      /\ run[t] \in Runs
      /\ device[t] \in Devices
      /\ state' \in {[state EXCEPT ![t] = "done"], [state EXCEPT ![t] = "failed"]}
      /\ UNCHANGED <<run, device, upgrading>>
  BY DEF MarkDone, MarkFailed, ThreadAgrees
<1>2. ActiveOn(device[t]) = {t}
  BY <1>1 DEF ActiveOn, OneActivePerDevice
<1>3. /\ ActiveOn(device[t])' = {}
      /\ \A e \in Devices \ {device[t]} : ActiveOn(e)' = ActiveOn(e)
  BY <1>1, <1>2 DEF ActiveOn
<1>4. /\ t \in ActiveOf(run[t])
      /\ ActiveOf(run[t])' = ActiveOf(run[t]) \ {t}
      /\ \A q \in Runs \ {run[t]} : ActiveOf(q)' = ActiveOf(q)
  BY <1>1 DEF ActiveOf
<1>5. {s \in Tasks : state'[s] # "none"} = {s \in Tasks : state[s] # "none"}
  BY <1>1
<1> HIDE DEF IInv, TypeOK, ActiveStates
<1> QED
  BY <1>1, <1>2, <1>3, <1>4, <1>5 DEF Leases!Return

\* An upgrade that enters maintenance seizes the run.
LEMMA EnterSeizes ==
  ASSUME IInv, NEW u \in Upgrades, NEW r \in Runs, EnterMaintenance(u, r)
  PROVE  Leases!Seize(u, r)
<1> USE DEF IInv, TypeOK, EnterMaintenance, taskVars
<1>1. {v \in Upgrades : upgrading[v] = r} = {} /\ {v \in Upgrades : upgrading'[v] = r} = {u}
  BY NoneAssumption DEF MaintenanceAgrees
<1>2. \A q \in Runs \ {r} :
        {v \in Upgrades : upgrading'[v] = q} = {v \in Upgrades : upgrading[v] = q}
  BY NoneAssumption
<1>3. \A q \in Runs : u \notin {v \in Upgrades : upgrading[v] = q}
  BY NoneAssumption
<1>4. UNCHANGED <<state, run, device>>
  OBVIOUS
<1>5. [q \in Runs |-> {v \in Upgrades : upgrading[v] = q}]'
        = [[q \in Runs |-> {v \in Upgrades : upgrading[v] = q}] EXCEPT ![r] = {u}]
  <2> HIDE DEF IInv, TypeOK, EnterMaintenance, taskVars
  <2>1. \A q \in Runs : {v \in Upgrades : upgrading'[v] = q}
           = IF q = r THEN {u} ELSE {v \in Upgrades : upgrading[v] = q}
    BY <1>1, <1>2
  <2> QED
    BY <2>1
<1>6. ActiveOf(r) = {}
  OBVIOUS
<1> HIDE DEF IInv, TypeOK, EnterMaintenance, taskVars
<1> QED
  BY <1>1, <1>3, <1>4, <1>5, <1>6, TasksUntouched DEF Leases!Seize

\* An upgrade that leaves maintenance releases the run.
LEMMA ExitReleases ==
  ASSUME IInv, NEW u \in Upgrades, NEW r \in Runs, upgrading[u] = r, ExitMaintenance(u)
  PROVE  Leases!Release(u, r)
<1> USE DEF IInv, TypeOK, ExitMaintenance, taskVars
<1>1. /\ {v \in Upgrades : upgrading[v] = r} = {u}
      /\ {v \in Upgrades : upgrading'[v] = r} = {}
  BY NoneAssumption DEF MaintenanceAgrees
<1>2. \A q \in Runs \ {r} :
        {v \in Upgrades : upgrading'[v] = q} = {v \in Upgrades : upgrading[v] = q}
  BY NoneAssumption
<1>3. UNCHANGED <<state, run, device>>
  OBVIOUS
<1>4. [q \in Runs |-> {v \in Upgrades : upgrading[v] = q}]'
        = [[q \in Runs |-> {v \in Upgrades : upgrading[v] = q}] EXCEPT ![r] = {}]
  <2> HIDE DEF IInv, TypeOK, ExitMaintenance, taskVars
  <2>1. \A q \in Runs : {v \in Upgrades : upgrading'[v] = q}
           = IF q = r THEN {} ELSE {v \in Upgrades : upgrading[v] = q}
    BY <1>1, <1>2
  <2> QED
    BY <2>1
<1> HIDE DEF IInv, TypeOK, ExitMaintenance, taskVars
<1> QED
  BY <1>1, <1>3, <1>4, TasksUntouched DEF Leases!Release

\* Every other step of a worker is invisible.
LEMMA QuietStep ==
  ASSUME IInv, NEW t \in Tasks,
         \/ TakeSlot(t) \/ SetRunning(t) \/ PublishResult(t) \/ SetError(t) \/ LeaveSlot(t)
         \/ \E c \in Collectors : Progress(t, c)
  PROVE  UNCHANGED Leases!leaseVars
<1>1. ASSUME UNCHANGED <<state, run, device, upgrading>>
      PROVE  UNCHANGED Leases!leaseVars
  <2>1. [r \in Runs |-> {u \in Upgrades : upgrading[u] = r}]'
          = [r \in Runs |-> {u \in Upgrades : upgrading[u] = r}]
    BY <1>1
  <2> QED
    BY <1>1, <2>1, TasksUntouched DEF Leases!leaseVars
<1>2. CASE SetRunning(t)
  <2> USE <1>2 DEF IInv, TypeOK, ActiveStates, SetRunning
  <2>1. state[t] = "queued" /\ state' = [state EXCEPT ![t] = "running"]
    BY DEF ThreadAgrees
  <2>2. \A d \in Devices : ActiveOn(d)' = ActiveOn(d)
    BY <2>1 DEF ActiveOn
  <2>3. \A r \in Runs : ActiveOf(r)' = ActiveOf(r)
    BY <2>1 DEF ActiveOf
  <2>4. {s \in Tasks : state[s] # "none"}' = {s \in Tasks : state[s] # "none"}
    BY <2>1
  <2>5. upgrading' = upgrading
    OBVIOUS
  <2> HIDE <1>2 DEF IInv, TypeOK, ActiveStates, SetRunning
  <2> QED
    BY <2>2, <2>3, <2>4, <2>5 DEF Leases!leaseVars
<1>3. CASE ~SetRunning(t)
  BY <1>1, <1>3 DEF TakeSlot, PublishResult, SetError, LeaveSlot, Progress, taskVars
<1> QED
  BY <1>2, <1>3

\* Seen from the leases, a stuttering step is one.
LEMMA StutterStep ==
  ASSUME UNCHANGED vars
  PROVE  UNCHANGED Leases!leaseVars
<1>1. [r \in Runs |-> {u \in Upgrades : upgrading[u] = r}]'
        = [r \in Runs |-> {u \in Upgrades : upgrading[u] = r}]
  BY DEF vars
<1>2. UNCHANGED <<state, run, device>>
  BY DEF vars
<1> QED
  BY <1>1, <1>2, TasksUntouched DEF Leases!leaseVars

\* The registry implements the leases: LeasesImplemented, for any instance.
THEOREM ImplementsLeases == Spec => LeasesImplemented
<1>1. Init => Leases!LeaseInit
  BY NoneAssumption DEF Init, Leases!LeaseInit, ActiveOn, ActiveOf, ActiveStates
<1>2. IInv /\ [Next]_vars => [Leases!LeaseNext]_(Leases!leaseVars)
  <2> SUFFICES ASSUME IInv, [Next]_vars PROVE [Leases!LeaseNext]_(Leases!leaseVars)
    OBVIOUS
  <2>1. ASSUME NEW t \in Tasks, NEW r \in Runs, NEW d \in Devices, Start(t, r, d)
        PROVE  Leases!LeaseNext
    BY <2>1, StartGrants DEF Leases!LeaseNext
  <2>2. ASSUME NEW t \in Tasks, MarkDone(t) \/ MarkFailed(t) PROVE Leases!LeaseNext
    <3>1. run[t] \in Runs /\ device[t] \in Devices
      BY <2>2 DEF IInv, ThreadAgrees, MarkDone, MarkFailed, TypeOK
    <3> QED
      BY <2>2, <3>1, EndReturns DEF Leases!LeaseNext
  <2>3. ASSUME NEW t \in Tasks, Worker(t), ~(MarkDone(t) \/ MarkFailed(t))
        PROVE  UNCHANGED Leases!leaseVars
    BY <2>3, QuietStep DEF Worker
  <2>4. ASSUME NEW u \in Upgrades, NEW r \in Runs, EnterMaintenance(u, r)
        PROVE  Leases!LeaseNext
    BY <2>4, EnterSeizes DEF Leases!LeaseNext
  <2>5. ASSUME NEW u \in Upgrades, ExitMaintenance(u) PROVE Leases!LeaseNext
    <3>1. PICK r \in Runs : upgrading[u] = r
      BY <2>5 DEF IInv, TypeOK, ExitMaintenance
    <3>2. Leases!Release(u, r)
      BY <2>5, <3>1, ExitReleases
    <3> QED
      BY <3>2 DEF Leases!LeaseNext
  <2>6. CASE UNCHANGED vars
    BY <2>6, StutterStep
  <2> QED
    BY <2>1, <2>2, <2>3, <2>4, <2>5, <2>6 DEF Next
<1> QED
  BY <1>1, <1>2, Invariance, PTL DEF Spec, LeasesImplemented, Leases!LeaseSpec
=============================================================================
