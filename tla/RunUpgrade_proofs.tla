------------------------- MODULE RunUpgrade_proofs -------------------------
(***************************************************************************)
(* Proofs about RunUpgrade, for any captures, upgrades, boxes and ports,   *)
(* any run to start with, and any number of crashes.  Steps of captures    *)
(* preserve what RunDirectory_proofs shows; an upgrade touches nothing of  *)
(* it but snapshots and inventories, and those only under the lock.        *)
(***************************************************************************)
EXTENDS RunUpgrade, RunDirectory_proofs

Swapping == {"swap", "place"}
UpgradeStep(u) == BeginUpgrade(u) \/ UpContinue(u) \/ UpCrash(u)

\* Everything an upgrade does not write.
runVars == <<yml, raw, invRaw, scratch, pc, loc, editVars>>

\* Steps that read, and those that end the swap.
ReadStep(u) ==
    \/ BeginUpgrade(u)
    \/ StatFiles(u)
    \/ LoadRun(u)
    \/ ListInventories(u)
    \/ \E f \in up[u].todo :
         RegenerateInventory(u, f) \/ RefuseFile(u, f) \/ RegenerateCapture(u, f)
    \/ ListRecords(u)
    \/ ReplayFails(u)
    \/ NothingChanged(u)
    \/ RunChanged(u)

LEMMA UpgradeSteps ==
  ASSUME NEW u \in Upgrades, UpgradeStep(u)
  PROVE  \/ ReadStep(u) \/ LockForSwap(u) \/ MoveToBackup(u) \/ PlaceStaged(u)
         \/ SwapFails(u) \/ FinishSwap(u) \/ UpCrash(u)
  BY DEF UpgradeStep, UpContinue, ReadStep

LEMMA ReadSteps ==
  ASSUME NEW u \in Upgrades, ReadStep(u)
  PROVE  /\ UNCHANGED <<vars, backup>>
         /\ upc[u] \in {"idle", "stat", "load", "list", "inventories", "records"}
         /\ \/ upc' = upc
            \/ \E place \in {"stat", "load", "list", "inventories", "records", "done", "refused"} :
                 UpGoto(u, place)
         /\ \A v \in Upgrades \ {u} : DOMAIN up = Upgrades => up'[v] = up[v]
<1> USE DEF UpGoto
<1>1. CASE BeginUpgrade(u) \/ StatFiles(u) \/ LoadRun(u) \/ ListInventories(u)
  BY <1>1 DEF BeginUpgrade, StatFiles, LoadRun, ListInventories
<1>2. CASE \E f \in up[u].todo :
             RegenerateInventory(u, f) \/ RefuseFile(u, f) \/ RegenerateCapture(u, f)
  BY <1>2 DEF RegenerateInventory, RefuseFile, RegenerateCapture
<1>3. CASE ListRecords(u) \/ ReplayFails(u) \/ NothingChanged(u) \/ RunChanged(u)
  BY <1>3 DEF ListRecords, ReplayFails, NothingChanged, RunChanged
<1> QED
  BY <1>1, <1>2, <1>3 DEF ReadStep

\* What an upgrade leaves alone.
LEMMA UpgradeFrame ==
  ASSUME NEW u \in Upgrades, UpgradeStep(u)
  PROVE  /\ UNCHANGED runVars
         /\ crashes' = crashes \/ (crashes < MaxCrashes /\ crashes' = crashes + 1)
<1> USE DEF runVars, vars, disk
<1>1. CASE ReadStep(u)
  BY <1>1, ReadSteps
<1>2. CASE LockForSwap(u) \/ SwapFails(u) \/ FinishSwap(u) \/ UpCrash(u)
  BY <1>2 DEF LockForSwap, SwapFails, FinishSwap, UpCrash
<1>3. CASE MoveToBackup(u) \/ PlaceStaged(u)
  BY <1>3 DEF MoveToBackup, PlaceStaged
<1> QED
  BY <1>1, <1>2, <1>3, UpgradeSteps

-----------------------------------------------------------------------------
(* Types. *)

UpLocalFields == {"mark", "man", "todo", "made", "staged", "renamed"}

IsMark(mark) == \E S : mark \in Seq(S)

\* What an upgrade holds at each place: it replays inventories, then the captures
\* its manifest records, and places only what it has made.
UpLocalsTyped(u) ==
    /\ DOMAIN up[u] = UpLocalFields
    /\ IsMark(up[u].mark)
    /\ Len(up[u].mark) <= 4
    /\ upc[u] \in {"idle", "stat"} => Len(up[u].mark) <= 3
    /\ IsManifest(up[u].man)
    /\ up[u].todo \subseteq Files
    /\ upc[u] = "inventories" => up[u].todo \subseteq Endpoints
    /\ upc[u] = "records" => up[u].todo \subseteq DOMAIN up[u].man.captures
    /\ upc[u] = "place" => up[u].todo \subseteq up[u].staged
    /\ DOMAIN up[u].made \subseteq Files
    /\ \A f \in DOMAIN up[u].made :
         /\ f \in Slots => up[u].made[f] \in Snapshots
         /\ f \in Endpoints => up[u].made[f] \in Captures
    /\ up[u].staged \subseteq DOMAIN up[u].made
    /\ up[u].renamed \in BOOLEAN
    /\ DOMAIN backup[u] \subseteq Files

UpTypeInv ==
    /\ DirTypeInv
    /\ lock \in Captures \cup Upgrades \cup {Free}
    /\ upc \in [Upgrades -> UpRunning \cup UpEnded \cup {"idle"}]
    /\ DOMAIN up = Upgrades
    /\ DOMAIN backup = Upgrades
    /\ \A u \in Upgrades : UpLocalsTyped(u)

LEMMA FilesApart == Slots \cap Endpoints = {}
  BY DEF Slots, Endpoints

\* The state of captures keeps its types when an upgrade has moved a typed file.
LEMMA FilesStayTyped ==
  ASSUME DirTypeInv, NEW u \in Upgrades, UpgradeStep(u),
         DOMAIN snap' = Slots, \A k \in Slots : snap'[k] \in {NoFile, Torn} \/ snap'[k] \in Snapshots,
         inv' \in [Endpoints -> Captures \cup {NoFile, ByHand}]
  PROVE  DirTypeInv'
<1> USE UpgradeFrame DEF runVars
<1>1. FilesTyped'
  BY CrashAssumption DEF DirTypeInv, FilesTyped
<1>2. \A c \in Captures : LocalsTyped(c)'
  BY DEF DirTypeInv, LocalsTyped
<1> QED
  BY <1>1, <1>2 DEF DirTypeInv, editVars

\* A step of one upgrade.
LEMMA OneUpgradeTyped ==
  ASSUME UpTypeInv, NEW u \in Upgrades, DirTypeInv',
         lock' \in {lock, Free, u},
         NEW place \in UpRunning \cup UpEnded \cup {"idle"}, UpGoto(u, place),
         DOMAIN up' = Upgrades, \A v \in Upgrades \ {u} : up'[v] = up[v],
         DOMAIN backup' = Upgrades, \A v \in Upgrades \ {u} : backup'[v] = backup[v],
         UpLocalsTyped(u)'
  PROVE  UpTypeInv'
<1>1. \A v \in Upgrades : UpLocalsTyped(v)'
  BY DEF UpTypeInv, UpLocalsTyped, UpGoto
<1> QED
  BY <1>1 DEF UpTypeInv, UpGoto

LEMMA UpTypeInit == UpInit => UpTypeInv
<1> SUFFICES ASSUME UpInit PROVE UpTypeInv
  OBVIOUS
<1>1. DirTypeInv /\ lock = Free
  BY TypeInit DEF UpInit, DirInit
<1>2. \A u \in Upgrades : UpLocalsTyped(u)
  <2> SUFFICES ASSUME NEW u \in Upgrades PROVE UpLocalsTyped(u)
    OBVIOUS
  <2>1. /\ upc[u] = "idle" /\ backup[u] = <<>>
        /\ up[u] = [mark |-> <<>>, man |-> EmptyManifest, todo |-> {}, made |-> <<>>,
                    staged |-> {}, renamed |-> FALSE]
    BY DEF UpInit
  <2>2. IsMark(up[u].mark) /\ Len(up[u].mark) = 0
    <3>1. up[u].mark \in Seq({}) /\ Len(up[u].mark) = 0
      BY <2>1
    <3> QED
      BY <3>1 DEF IsMark
  <2>3. DOMAIN up[u] = UpLocalFields /\ DOMAIN up[u].made = {} /\ DOMAIN backup[u] = {}
    BY <2>1 DEF UpLocalFields
  <2> QED
    BY <2>1, <2>2, <2>3, ManifestTypes DEF UpLocalsTyped
<1> QED
  BY <1>1, <1>2 DEF UpTypeInv, UpInit

\* A content that is put in the place of a file has the type of that file.
LEMMA PutTyped ==
  ASSUME UpTypeInv, NEW f \in Files, NEW content, Put(f, content),
         content = NoFile \/ (f \in Slots => content \in Snapshots),
         content = NoFile \/ (f \in Endpoints => content \in Captures)
  PROVE  /\ DOMAIN snap' = Slots
         /\ \A k \in Slots : snap'[k] \in {NoFile, Torn} \/ snap'[k] \in Snapshots
         /\ inv' \in [Endpoints -> Captures \cup {NoFile, ByHand}]
<1>1. CASE f \in Slots
  BY <1>1 DEF Put, UpTypeInv, DirTypeInv, FilesTyped
<1>2. CASE f \in Endpoints /\ f \notin Slots
  BY <1>2 DEF Put, UpTypeInv, DirTypeInv, FilesTyped
<1> QED
  BY <1>1, <1>2 DEF Files

\* A snapshot that is regenerated has the type of a snapshot.
LEMMA RegeneratedTyped ==
  ASSUME UpTypeInv, NEW u \in Upgrades, NEW k \in Slots, raw[k] # NoFile
  PROVE  Regenerated(u, raw[k]) \in Snapshots
<1>1. IsBundle(raw[k])
  BY DEF UpTypeInv, DirTypeInv, FilesTyped
<1>2. ASSUME NEW b \in raw[k].names, Loadable(u, b)
      PROVE  Resolved(u, b).taken \in Captures
  <2>1. b \in Slots
    BY <1>1 DEF IsBundle
  <2>2. Resolved(u, b) \in Snapshots
    BY <1>2, <2>1 DEF Loadable, Resolved, UpTypeInv, UpLocalsTyped, DirTypeInv, FilesTyped
  <2> QED
    BY <2>2 DEF Snapshots
<1>3. UpgradeBaselines(u, raw[k]) \subseteq Captures
  BY <1>2 DEF UpgradeBaselines
<1> QED
  BY <1>1, <1>3 DEF Regenerated, IsBundle, Snapshots

LEMMA ReadTyped ==
  ASSUME UpTypeInv, NEW u \in Upgrades, ReadStep(u)
  PROVE  UpTypeInv'
<1>1. /\ DirTypeInv' /\ lock' = lock /\ backup' = backup
  BY ReadSteps DEF UpTypeInv, DirTypeInv, FilesTyped, LocalsTyped, vars, disk, editVars
<1>2. \E place \in UpRunning \cup UpEnded \cup {"idle"} :
         UpGoto(u, place) /\ upc'[u] = place
  <2>1. CASE upc' = upc
    BY <2>1 DEF UpTypeInv, UpGoto
  <2> QED
    BY <2>1, ReadSteps DEF UpTypeInv, UpGoto, UpRunning, UpEnded
<1>3. upc' = [upc EXCEPT ![u] = upc'[u]]
  BY <1>2 DEF UpGoto
<1>4. UpLocalsTyped(u)
  BY DEF UpTypeInv
<1>5. DOMAIN up = Upgrades
  BY DEF UpTypeInv
<1> DEFINE Goal == DOMAIN up' = Upgrades /\ (\A v \in Upgrades \ {u} : up'[v] = up[v]) /\ UpLocalsTyped(u)'
<1>6. ASSUME BeginUpgrade(u) PROVE Goal
  BY <1>1, <1>3, <1>4, <1>5, <1>6 DEF BeginUpgrade, UpGoto, UpTypeInv, UpLocalsTyped
<1>7. ASSUME StatFiles(u) PROVE Goal
  <2> DEFINE mark == Append(up[u].mark, Fingerprint[Len(up[u].mark) + 1])
  <2>1. up' = [up EXCEPT ![u].mark = mark] /\ upc[u] = "stat"
        /\ upc'[u] = IF Len(up[u].mark) = 3 THEN "load" ELSE "stat"
    BY <1>7, <1>4 DEF StatFiles, UpLocalsTyped, UpLocalFields, UpGoto, UpTypeInv
  <2>2. PICK S : up[u].mark \in Seq(S)
    BY <1>4 DEF UpLocalsTyped, IsMark
  <2>3. mark \in Seq(S \cup {Fingerprint[Len(up[u].mark) + 1]}) /\ Len(mark) = Len(up[u].mark) + 1
        /\ Len(up[u].mark) \in Nat
    BY <2>2
  <2>4. Len(up[u].mark) <= 3
    BY <1>4, <2>1 DEF UpLocalsTyped
  <2>5. IsMark(mark)
    BY <2>3 DEF IsMark
  <2> HIDE DEF mark
  <2>6. /\ up'[u].mark = mark /\ DOMAIN up'[u] = UpLocalFields
        /\ \A field \in UpLocalFields \ {"mark"} : up'[u][field] = up[u][field]
    BY <1>4, <1>5, <2>1 DEF UpLocalsTyped, UpLocalFields
  <2>7. Len(mark) <= 4 /\ (upc'[u] \in {"idle", "stat"} => Len(mark) <= 3)
    <3>1. PICK n \in Nat : n = Len(up[u].mark)
      BY <2>3
    <3>2. n <= 3 /\ Len(mark) = n + 1
      BY <2>3, <2>4, <3>1
    <3>3. n = 3 \/ n + 1 <= 3
      BY <3>2
    <3>4. upc'[u] = IF n = 3 THEN "load" ELSE "stat"
      BY <2>1, <3>1
    <3> QED
      BY <3>2, <3>3, <3>4
  <2>8. upc'[u] \in {"load", "stat"}
    BY <2>1
  <2>9. UpLocalsTyped(u)'
    BY <1>1, <1>4, <2>5, <2>6, <2>7, <2>8 DEF UpLocalsTyped, UpLocalFields
  <2> QED
    BY <1>5, <2>1, <2>9
<1>8. ASSUME LoadRun(u) PROVE Goal
  <2> DEFINE m == IF Readable THEN Manifest ELSE up[u].man
  <2>1. IsManifest(m)
    BY <1>4, ManifestTypes
       DEF Readable, Manifest, UpTypeInv, DirTypeInv, FilesTyped, UpLocalsTyped
  <2>2. up' = [up EXCEPT ![u].man = m] /\ upc'[u] \in {"list", "refused"}
    BY <1>8, <1>4 DEF LoadRun, UpLocalsTyped, UpLocalFields, UpGoto, UpTypeInv
  <2> HIDE DEF m
  <2> QED
    BY <1>1, <1>4, <1>5, <2>1, <2>2 DEF UpLocalsTyped, UpLocalFields
<1>9. ASSUME ListInventories(u) PROVE Goal
  BY <1>1, <1>3, <1>4, <1>5, <1>9 DEF ListInventories, UpGoto, UpTypeInv, UpLocalsTyped, UpLocalFields, Files
<1>10. ASSUME NEW e \in up[u].todo, RegenerateInventory(u, e) PROVE Goal
  <2>1. PICK changed \in SUBSET {e} :
          up' = [up EXCEPT ![u].todo = @ \ {e}, ![u].made = Assign(@, e, invRaw[e]),
                           ![u].staged = @ \cup changed]
    BY <1>10 DEF RegenerateInventory
  <2> DEFINE made == Assign(up[u].made, e, invRaw[e])
  <2>2. e \in Endpoints /\ upc[u] = "inventories" /\ upc' = upc /\ invRaw[e] \in Captures
    BY <1>4, <1>10 DEF RegenerateInventory, UpLocalsTyped, UpTypeInv, DirTypeInv, FilesTyped
  <2>3. /\ DOMAIN made = DOMAIN up[u].made \cup {e}
        /\ \A f \in DOMAIN made : made[f] = IF f = e THEN invRaw[e] ELSE up[u].made[f]
    BY DEF Assign
  <2>4. up' = [up EXCEPT ![u].todo = @ \ {e}, ![u].made = made, ![u].staged = @ \cup changed]
    BY <2>1, <1>4, <1>5 DEF UpLocalsTyped, UpLocalFields
  <2> HIDE DEF made
  <2> QED
    BY <1>1, <1>4, <1>5, <2>2, <2>3, <2>4, FilesApart DEF UpLocalsTyped, UpLocalFields, Files
<1>11. ASSUME NEW f \in up[u].todo, RefuseFile(u, f) PROVE Goal
  BY <1>1, <1>4, <1>5, <1>11 DEF RefuseFile, UpLocalsTyped, UpLocalFields
<1>12. ASSUME NEW k \in up[u].todo, RegenerateCapture(u, k) PROVE Goal
  <2> DEFINE new == Regenerated(u, raw[k])
             made == Assign(up[u].made, k, new)
             staged == IF snap[k] = new THEN up[u].staged ELSE up[u].staged \cup {k}
  <2>1. up' = [up EXCEPT ![u].todo = @ \ {k}, ![u].made = made, ![u].staged = staged]
    BY <1>12, <1>4, <1>5 DEF RegenerateCapture, UpLocalsTyped, UpLocalFields
  <2>2. k \in Slots /\ upc[u] = "records" /\ upc' = upc /\ raw[k] # NoFile
    BY <1>4, <1>12 DEF RegenerateCapture, BelongsTo, UpLocalsTyped, IsManifest
  <2>3. new \in Snapshots
    BY <2>2, RegeneratedTyped
  <2>4. /\ DOMAIN made = DOMAIN up[u].made \cup {k}
        /\ \A f \in DOMAIN made : made[f] = IF f = k THEN new ELSE up[u].made[f]
    BY DEF Assign
  <2>5. staged \subseteq up[u].staged \cup {k}
    OBVIOUS
  <2> HIDE DEF made, staged, new
  <2> QED
    BY <1>1, <1>4, <1>5, <2>1, <2>2, <2>3, <2>4, <2>5, FilesApart DEF UpLocalsTyped, UpLocalFields, Files
<1>13. ASSUME ListRecords(u) PROVE Goal
  BY <1>1, <1>3, <1>4, <1>5, <1>13
     DEF ListRecords, UpGoto, UpTypeInv, UpLocalsTyped, UpLocalFields, Files, IsManifest
<1>14. ASSUME ReplayFails(u) \/ NothingChanged(u) \/ RunChanged(u) PROVE Goal
  <2>1. up' = up /\ upc'[u] \in {"refused", "done"}
    BY <1>14 DEF ReplayFails, NothingChanged, RunChanged, UpGoto, UpTypeInv
  <2> QED
    BY <1>1, <1>4, <1>5, <2>1 DEF UpLocalsTyped
<1>15. Goal
  BY <1>6, <1>7, <1>8, <1>9, <1>10, <1>11, <1>12, <1>13, <1>14 DEF ReadStep
<1> QED
  BY <1>1, <1>2, <1>15, OneUpgradeTyped DEF UpTypeInv

\* The steps under the lock.
LEMMA SwapTyped ==
  ASSUME UpTypeInv, NEW u \in Upgrades, UpgradeStep(u), ~ReadStep(u)
  PROVE  UpTypeInv'
<1>1. UpLocalsTyped(u) /\ DOMAIN up = Upgrades /\ DOMAIN backup = Upgrades
  BY DEF UpTypeInv
<1>2. CASE LockForSwap(u) \/ SwapFails(u) \/ FinishSwap(u) \/ UpCrash(u)
  <2>1. /\ snap' = snap /\ inv' = inv /\ up' = up /\ backup' = backup
        /\ lock' \in {lock, Free, u}
    BY <1>2 DEF LockForSwap, SwapFails, FinishSwap, UpCrash, Unlock, disk
  <2>2. \E place \in {"swap", "partial", "refused", "done", "crashed"} : UpGoto(u, place)
    BY <1>2 DEF LockForSwap, SwapFails, FinishSwap, UpCrash
  <2>3. DirTypeInv'
    BY <2>1, FilesStayTyped DEF UpTypeInv, DirTypeInv, FilesTyped
  <2>4. PICK place \in {"swap", "partial", "refused", "done", "crashed"} : UpGoto(u, place)
    BY <2>2
  <2>5. UpLocalsTyped(u)'
    BY <1>1, <2>1, <2>4 DEF UpLocalsTyped, UpGoto, UpTypeInv
  <2> QED
    BY <1>1, <2>1, <2>3, <2>4, <2>5, OneUpgradeTyped DEF UpRunning, UpEnded
<1>3. CASE MoveToBackup(u)
  <2>1. PICK f \in up[u].staged :
          /\ IF OnDisk(f) = NoFile
             THEN UNCHANGED <<snap, inv, backup>>
             ELSE /\ Put(f, NoFile)
                  /\ backup' = [backup EXCEPT ![u] = Assign(@, f, OnDisk(f))]
          /\ up' = [up EXCEPT ![u].todo = {f}, ![u].renamed = @ \/ OnDisk(f) # NoFile]
    BY <1>3 DEF MoveToBackup
  <2>2. f \in Files
    BY <1>1 DEF UpLocalsTyped
  <2>3. DirTypeInv'
    BY <2>1, <2>2, PutTyped, FilesStayTyped DEF UpTypeInv, DirTypeInv, FilesTyped
  <2>4. upc' = [upc EXCEPT ![u] = "place"] /\ lock' = lock
    BY <1>3 DEF MoveToBackup, UpGoto
  <2>5. /\ DOMAIN backup' = Upgrades /\ \A v \in Upgrades \ {u} : backup'[v] = backup[v]
        /\ DOMAIN backup'[u] \subseteq Files
    BY <1>1, <2>1, <2>2 DEF Assign, UpLocalsTyped
  <2>6. UpLocalsTyped(u)'
    BY <1>1, <2>1, <2>2, <2>4, <2>5 DEF UpLocalsTyped, UpLocalFields, UpTypeInv
  <2> QED
    BY <1>1, <2>1, <2>3, <2>4, <2>5, <2>6, OneUpgradeTyped DEF UpRunning, UpGoto
<1>4. CASE PlaceStaged(u)
  <2>1. PICK f \in up[u].todo :
          /\ Put(f, up[u].made[f])
          /\ up' = [up EXCEPT ![u].todo = {}, ![u].staged = @ \ {f}, ![u].renamed = TRUE]
    BY <1>4 DEF PlaceStaged
  <2>2. f \in Files /\ f \in DOMAIN up[u].made
    BY <1>1, <1>4 DEF PlaceStaged, UpLocalsTyped
  <2>3. DirTypeInv'
    BY <1>1, <2>1, <2>2, PutTyped, FilesStayTyped DEF UpTypeInv, UpLocalsTyped
  <2>4. upc' = [upc EXCEPT ![u] = "swap"] /\ lock' = lock /\ backup' = backup
    BY <1>4 DEF PlaceStaged, UpGoto
  <2>5. UpLocalsTyped(u)'
    BY <1>1, <2>1, <2>4 DEF UpLocalsTyped, UpLocalFields, UpTypeInv
  <2> QED
    BY <1>1, <2>1, <2>3, <2>4, <2>5, OneUpgradeTyped DEF UpRunning, UpGoto
<1> QED
  BY <1>2, <1>3, <1>4, UpgradeSteps

-----------------------------------------------------------------------------
(* The lock, which an upgrade holds while it swaps.                        *)

UpLockInv == \A u \in Upgrades : upc[u] \in Swapping <=> lock = u

LEMMA TypesShape == DirTypeInv => Shapes
  BY DEF DirTypeInv, FilesTyped, LocalsTyped, Shapes, IsManifest, Fields, LocalFields

\* A capture that takes or returns the lock does not take it from an upgrade.
LEMMA CaptureLock ==
  ASSUME UpTypeInv, LockInv, UpLockInv, [DirNext]_vars, UNCHANGED upVars
  PROVE  LockInv' /\ UpLockInv' /\ lock' \in Captures \cup Upgrades \cup {Free}
<1>1. LockInv'
  BY TypesShape, LockStep DEF UpTypeInv
<1>2. ASSUME NEW c \in Captures, Begin(c) \/ Continue(c) \/ Crash(c)
      PROVE  UpLockInv' /\ lock' \in Captures \cup Upgrades \cup {Free}
  <2>1. Acquires(c) \/ Releases(c) \/ KeepsLock(c)
    BY <1>2, TypesShape, LockSteps DEF UpTypeInv
  <2>2. \/ lock' = lock
        \/ lock = Free /\ lock' = c
        \/ lock = c /\ lock' = Free
    BY <2>1 DEF Acquires, Releases, KeepsLock, LockInv
  <2> QED
    BY <2>2, UpgradesAssumption DEF UpLockInv, upVars, UpTypeInv
<1>3. ASSUME NEW e \in Editors, EditStep(e)
      PROVE  lock' = lock
  BY <1>3 DEF EditStep, LoadForEdit, RefuseEdit, SaveEdit, FinishEdit
<1> QED
  BY <1>1, <1>2, <1>3 DEF DirNext, vars, UpLockInv, upVars, UpTypeInv

LEMMA UpgradeLock ==
  ASSUME UpTypeInv, LockInv, UpLockInv, NEW u \in Upgrades, UpgradeStep(u)
  PROVE  LockInv' /\ UpLockInv'
<1>1. pc' = pc
  BY UpgradeFrame DEF runVars
<1>2. upc' = [upc EXCEPT ![u] = upc'[u]]
  <2>1. ASSUME NEW place, UpGoto(u, place)
        PROVE  upc' = [upc EXCEPT ![u] = upc'[u]]
    BY <2>1 DEF UpTypeInv, UpGoto
  <2>2. CASE ReadStep(u)
    <3>1. CASE upc' = upc
      BY <3>1 DEF UpTypeInv
    <3> QED
      BY <2>1, <2>2, <3>1, ReadSteps
  <2>3. CASE ~ReadStep(u)
    <3>1. CASE upc' = upc
      BY <3>1 DEF UpTypeInv
    <3>2. CASE upc' # upc
      <4>1. \E place : UpGoto(u, place)
        BY <2>3, <3>2, UpgradeSteps
           DEF LockForSwap, MoveToBackup, PlaceStaged, SwapFails, FinishSwap, UpCrash
      <4> QED
        BY <2>1, <4>1
    <3> QED
      BY <3>1, <3>2
  <2> QED
    BY <2>2, <2>3
<1>3. \/ lock' = lock /\ (upc'[u] \in Swapping <=> upc[u] \in Swapping)
      \/ lock = Free /\ lock' = u /\ upc'[u] \in Swapping
      \/ lock = u /\ lock' = Free /\ upc'[u] \notin Swapping
  <2> USE DEF UpTypeInv, UpGoto, Swapping
  <2>1. CASE ReadStep(u)
    BY <2>1, ReadSteps DEF vars
  <2>2. CASE LockForSwap(u)
    BY <2>2 DEF LockForSwap
  <2>3. CASE MoveToBackup(u) \/ PlaceStaged(u)
    BY <2>3 DEF MoveToBackup, PlaceStaged
  <2>4. CASE SwapFails(u) \/ FinishSwap(u)
    BY <2>4 DEF SwapFails, FinishSwap, Unlock, UpLockInv
  <2>5. CASE UpCrash(u)
    BY <2>5 DEF UpCrash, UpLockInv
  <2> QED
    BY <2>1, <2>2, <2>3, <2>4, <2>5, UpgradeSteps
<1>4. LockInv'
  BY <1>1, <1>3, UpgradesAssumption, FilesAssumption DEF LockInv
<1>5. UpLockInv'
  BY <1>2, <1>3, UpgradesAssumption DEF UpLockInv, UpTypeInv
<1> QED
  BY <1>4, <1>5

UpBase == UpTypeInv /\ LockInv /\ UpLockInv

LEMMA UpBaseInit == UpInit => UpBase
<1> SUFFICES ASSUME UpInit PROVE UpBase
  OBVIOUS
<1>1. LockInv
  BY FilesAssumption DEF UpInit, DirInit, LockInv, Locked
<1>2. UpLockInv
  BY UpgradesAssumption DEF UpInit, DirInit, UpLockInv, Swapping
<1> QED
  BY <1>1, <1>2, UpTypeInit DEF UpBase

LEMMA UpBaseStep ==
  ASSUME UpBase, [UpNext]_allVars
  PROVE  UpBase'
<1>1. ASSUME [DirNext]_vars, UNCHANGED upVars PROVE UpBase'
  <2>1. DirTypeInv'
    BY <1>1, TypeStep DEF UpBase, UpTypeInv
  <2>2. \A u \in Upgrades : UpLocalsTyped(u)'
    BY <1>1 DEF upVars, UpBase, UpTypeInv, UpLocalsTyped
  <2> QED
    BY <1>1, <2>1, <2>2, CaptureLock DEF UpBase, UpTypeInv, upVars
<1>2. ASSUME NEW u \in Upgrades, UpgradeStep(u) PROVE UpBase'
  BY <1>2, ReadTyped, SwapTyped, UpgradeLock DEF UpBase
<1> QED
  BY <1>1, <1>2 DEF UpNext, UpgradeStep, allVars

\* An upgrade keeps the types of the files it replaces, and replaces only what it
\* has made (upgrade.py, upgrade_run and _swap).
THEOREM UpgradeTypesHold == UpSpec => []UpTypeOK
<1>1. UpBase => UpTypeOK
  BY DEF UpBase, UpTypeInv, UpLocalsTyped, UpTypeOK, DirTypeInv, DirTypeOK, FilesTyped,
         LocalsTyped, EditPlaces
<1> QED
  BY <1>1, UpBaseInit, UpBaseStep, PTL DEF UpSpec

-----------------------------------------------------------------------------
(* No recorded measurement is lost.                                        *)

\* While a file is being replaced there is nothing in its place, and its original,
\* if there was one, is in the backup; what is still staged has not been moved.
SwapInv ==
    \A u \in Upgrades :
        /\ upc[u] \notin Swapping \cup UpEnded => DOMAIN backup[u] = {}
        /\ upc[u] = "swap" => DOMAIN backup[u] \cap up[u].staged = {}
        /\ upc[u] = "place" =>
             /\ \A f, g \in up[u].todo : f = g
             /\ DOMAIN backup[u] \cap up[u].staged \subseteq up[u].todo
             /\ \A f \in up[u].todo : OnDisk(f) = NoFile

\* The steps of a capture that write snapshots, raw records and inventories.
LEMMA CaptureWrites ==
  ASSUME NEW c \in Captures, Begin(c) \/ Continue(c) \/ Crash(c)
  PROVE  /\ snap' = snap \/ TruncateSnapshot(c) \/ SaveSnapshot(c)
         /\ raw' = raw \/ DropRaw(c) \/ WriteRaw(c)
         /\ inv' = inv \/ ReplaceInventory(c)
<1> USE DEF disk, Fail
<1>1. CASE LoadManifest(c) \/ RefuseCapture(c) \/ FindInventory(c) \/ ParseServices(c) \/ ParseFails(c)
  BY <1>1 DEF LoadManifest, RefuseCapture, FindInventory, ParseServices, ParseFails
<1>2. CASE ParseLock(c) \/ DropInventoryRaw(c) \/ DropInventoryRawFails(c) \/ ReplaceInventory(c)
           \/ ScratchMissing(c) \/ WriteInventoryRaw(c)
  BY <1>2 DEF ParseLock, DropInventoryRaw, DropInventoryRawFails, ReplaceInventory,
              ScratchMissing, WriteInventoryRaw
<1>3. CASE LoadBaseline(c) \/ Measure(c) \/ SessionFails(c) \/ WrapSession(c) \/ LockRun(c) \/ ReloadFails(c)
  BY <1>3 DEF LoadBaseline, Measure, SessionFails, WrapSession, LockRun, ReloadFails
<1>4. CASE DropRaw(c) \/ TruncateSnapshot(c) \/ SaveSnapshot(c) \/ WriteRaw(c) \/ RecordAndSave(c)
           \/ SaveRefused(c) \/ FinishSave(c) \/ Crash(c)
  BY <1>4 DEF DropRaw, TruncateSnapshot, SaveSnapshot, WriteRaw, RecordAndSave, SaveRefused,
              FinishSave, Crash
<1> QED
  BY <1>1, <1>2, <1>3, <1>4 DEF Begin, Continue

LEMMA EditWrites ==
  ASSUME NEW e \in Editors, EditStep(e)
  PROVE  UNCHANGED <<snap, raw, inv, pc, loc>>
  BY DEF EditStep, LoadForEdit, RefuseEdit, SaveEdit, FinishEdit, disk

\* So nothing is written beside an upgrade that swaps.
LEMMA SwapAlone ==
  ASSUME UpBase, [DirNext]_vars, NEW u \in Upgrades, upc[u] \in Swapping
  PROVE  snap' = snap /\ inv' = inv
<1>1. lock = u /\ \A c \in Captures : pc[c] \notin Locked
  BY UpgradesAssumption DEF UpBase, UpLockInv, LockInv
<1>2. ASSUME NEW c \in Captures, Begin(c) \/ Continue(c) \/ Crash(c) PROVE snap' = snap /\ inv' = inv
  BY <1>1, <1>2, CaptureWrites DEF TruncateSnapshot, SaveSnapshot, ReplaceInventory, Locked
<1> QED
  BY <1>2, EditWrites DEF DirNext, vars, disk

LEMMA UpgradesSwapLocked ==
  ASSUME NEW u \in Upgrades, UpgradeStep(u), upc[u] \notin Swapping
  PROVE  snap' = snap /\ inv' = inv /\ backup' = backup
<1>1. CASE ReadStep(u)
  BY <1>1, ReadSteps DEF vars, disk
<1>2. CASE LockForSwap(u) \/ SwapFails(u) \/ FinishSwap(u) \/ UpCrash(u)
  BY <1>2 DEF LockForSwap, SwapFails, FinishSwap, UpCrash, disk
<1>3. CASE MoveToBackup(u) \/ PlaceStaged(u)
  BY <1>3 DEF MoveToBackup, PlaceStaged, Swapping
<1> QED
  BY <1>1, <1>2, <1>3, UpgradeSteps

\* A step of an upgrade leaves the locals of the others alone.
LEMMA OthersStand ==
  ASSUME UpTypeInv, NEW u \in Upgrades, UpgradeStep(u), NEW v \in Upgrades, v # u
  PROVE  upc'[v] = upc[v] /\ up'[v] = up[v] /\ backup'[v] = backup[v]
<1> USE DEF UpTypeInv, UpGoto
<1>1. CASE ReadStep(u)
  BY <1>1, ReadSteps
<1>2. CASE LockForSwap(u) \/ SwapFails(u) \/ FinishSwap(u) \/ UpCrash(u)
  BY <1>2 DEF LockForSwap, SwapFails, FinishSwap, UpCrash
<1>3. CASE MoveToBackup(u) \/ PlaceStaged(u)
  BY <1>3 DEF MoveToBackup, PlaceStaged
<1> QED
  BY <1>1, <1>2, <1>3, UpgradeSteps

\* The two renames.
LEMMA MoveSteps ==
  ASSUME UpTypeInv, NEW u \in Upgrades, MoveToBackup(u)
  PROVE  \E f \in up[u].staged :
           /\ f \in Files
           /\ up'[u].todo = {f} /\ up'[u].staged = up[u].staged /\ upc'[u] = "place"
           /\ \A g \in Files : OnDisk(g)' = IF g = f THEN NoFile ELSE OnDisk(g)
           /\ OnDisk(f) = NoFile => backup' = backup
           /\ OnDisk(f) # NoFile =>
                /\ DOMAIN backup'[u] = DOMAIN backup[u] \cup {f}
                /\ \A g \in DOMAIN backup'[u] :
                     backup'[u][g] = IF g = f THEN OnDisk(f) ELSE backup[u][g]
<1>1. UpLocalsTyped(u) /\ DOMAIN up = Upgrades /\ DOMAIN backup = Upgrades
  BY DEF UpTypeInv
<1>2. PICK f \in up[u].staged :
        /\ IF OnDisk(f) = NoFile
           THEN UNCHANGED <<snap, inv, backup>>
           ELSE /\ Put(f, NoFile)
                /\ backup' = [backup EXCEPT ![u] = Assign(@, f, OnDisk(f))]
        /\ up' = [up EXCEPT ![u].todo = {f}, ![u].renamed = @ \/ OnDisk(f) # NoFile]
  BY DEF MoveToBackup
<1>3. f \in Files
  BY <1>1 DEF UpLocalsTyped
<1>4. up'[u].todo = {f} /\ up'[u].staged = up[u].staged /\ upc'[u] = "place"
  BY <1>1, <1>2 DEF UpLocalsTyped, UpLocalFields, MoveToBackup, UpGoto, UpTypeInv
<1>5. \A g \in Files : OnDisk(g)' = IF g = f THEN NoFile ELSE OnDisk(g)
  BY <1>2, <1>3, FilesApart DEF OnDisk, Put, Files, UpTypeInv, DirTypeInv, FilesTyped
<1>6. OnDisk(f) # NoFile =>
        /\ DOMAIN backup'[u] = DOMAIN backup[u] \cup {f}
        /\ \A g \in DOMAIN backup'[u] :
             backup'[u][g] = IF g = f THEN OnDisk(f) ELSE backup[u][g]
  BY <1>1, <1>2 DEF Assign
<1> QED
  BY <1>2, <1>3, <1>4, <1>5, <1>6

LEMMA PlaceSteps ==
  ASSUME UpTypeInv, NEW u \in Upgrades, PlaceStaged(u)
  PROVE  \E f \in up[u].todo :
           /\ f \in Files /\ f \in DOMAIN up[u].made
           /\ up'[u].staged = up[u].staged \ {f} /\ upc'[u] = "swap"
           /\ backup' = backup
           /\ \A g \in Files : OnDisk(g)' = IF g = f THEN up[u].made[f] ELSE OnDisk(g)
<1>1. UpLocalsTyped(u) /\ DOMAIN up = Upgrades
  BY DEF UpTypeInv
<1>2. PICK f \in up[u].todo :
        /\ Put(f, up[u].made[f])
        /\ up' = [up EXCEPT ![u].todo = {}, ![u].staged = @ \ {f}, ![u].renamed = TRUE]
  BY DEF PlaceStaged
<1>3. f \in Files /\ f \in DOMAIN up[u].made
  BY <1>1 DEF PlaceStaged, UpLocalsTyped
<1>4. up'[u].staged = up[u].staged \ {f} /\ upc'[u] = "swap" /\ backup' = backup
  BY <1>1, <1>2 DEF UpLocalsTyped, UpLocalFields, PlaceStaged, UpGoto, UpTypeInv
<1>5. \A g \in Files : OnDisk(g)' = IF g = f THEN up[u].made[f] ELSE OnDisk(g)
  BY <1>2, <1>3, FilesApart DEF OnDisk, Put, Files, UpTypeInv, DirTypeInv, FilesTyped
<1> QED
  BY <1>2, <1>3, <1>4, <1>5

LEMMA SwapInvStep ==
  ASSUME UpBase, SwapInv, [UpNext]_allVars
  PROVE  SwapInv'
<1>1. ASSUME [DirNext]_vars, UNCHANGED upVars PROVE SwapInv'
  <2> SUFFICES ASSUME NEW u \in Upgrades, upc[u] = "place", NEW f \in up[u].todo
               PROVE  OnDisk(f)' = OnDisk(f)
    BY <1>1 DEF SwapInv, upVars
  <2> QED
    BY <1>1, SwapAlone DEF OnDisk, Swapping
<1>2. ASSUME NEW u \in Upgrades, UpgradeStep(u), NEW v \in Upgrades, v # u
      PROVE  /\ upc'[v] = upc[v] /\ up'[v] = up[v] /\ backup'[v] = backup[v]
             /\ upc[v] = "place" => snap' = snap /\ inv' = inv
  <2>1. upc[v] = "place" => upc[u] \notin Swapping
    BY <1>2 DEF UpBase, UpLockInv, Swapping
  <2> QED
    BY <1>2, <2>1, OthersStand, UpgradesSwapLocked DEF UpBase
<1>3. ASSUME NEW u \in Upgrades, UpgradeStep(u)
      PROVE  /\ upc'[u] \notin Swapping \cup UpEnded => DOMAIN backup'[u] = {}
             /\ upc'[u] = "swap" => DOMAIN backup'[u] \cap up'[u].staged = {}
             /\ upc'[u] = "place" =>
                  /\ \A f, g \in up'[u].todo : f = g
                  /\ DOMAIN backup'[u] \cap up'[u].staged \subseteq up'[u].todo
                  /\ \A f \in up'[u].todo : OnDisk(f)' = NoFile
  <2> USE DEF UpBase
  <2>1. CASE ReadStep(u)
    <3>1. backup' = backup /\ DOMAIN backup[u] = {}
      BY <2>1, ReadSteps DEF SwapInv, Swapping, UpEnded
    <3>2. upc'[u] \notin Swapping
      BY <2>1, ReadSteps DEF UpGoto, UpTypeInv, Swapping
    <3> QED
      BY <3>1, <3>2 DEF Swapping
  <2>2. CASE LockForSwap(u)
    <3>1. upc[u] = "records" /\ upc'[u] = "swap" /\ backup' = backup /\ up' = up
      BY <2>2 DEF LockForSwap, UpGoto, UpTypeInv
    <3>2. DOMAIN backup[u] = {}
      BY <3>1 DEF SwapInv, Swapping, UpEnded
    <3> QED
      BY <3>1, <3>2 DEF Swapping
  <2>3. CASE MoveToBackup(u)
    <3>1. PICK f \in up[u].staged :
            /\ f \in Files
            /\ up'[u].todo = {f} /\ up'[u].staged = up[u].staged /\ upc'[u] = "place"
            /\ OnDisk(f)' = NoFile
            /\ DOMAIN backup'[u] \subseteq DOMAIN backup[u] \cup {f}
      BY <2>3, MoveSteps
    <3>2. DOMAIN backup[u] \cap up[u].staged = {}
      BY <2>3 DEF MoveToBackup, SwapInv
    <3> QED
      BY <3>1, <3>2 DEF Swapping
  <2>4. CASE PlaceStaged(u)
    <3>1. PICK f \in up[u].todo :
            up'[u].staged = up[u].staged \ {f} /\ upc'[u] = "swap" /\ backup' = backup
      BY <2>4, PlaceSteps
    <3>2. DOMAIN backup[u] \cap up[u].staged \subseteq {f}
      BY <2>4 DEF PlaceStaged, SwapInv
    <3> QED
      BY <3>1, <3>2 DEF Swapping
  <2>5. CASE SwapFails(u) \/ FinishSwap(u) \/ UpCrash(u)
    BY <2>5 DEF SwapFails, FinishSwap, UpCrash, UpGoto, UpTypeInv, UpEnded
  <2> QED
    BY <1>3, <2>1, <2>2, <2>3, <2>4, <2>5, UpgradeSteps
<1>4. ASSUME NEW u \in Upgrades, UpgradeStep(u) PROVE SwapInv'
  BY <1>2, <1>3, <1>4 DEF SwapInv, OnDisk
<1> QED
  BY <1>1, <1>4 DEF UpNext, UpgradeStep, allVars

\* What lies in a backup: the slot and the measurement.
BackedUp ==
    {kt \in Slots \X Captures :
        \E u \in Upgrades : kt[1] \in DOMAIN backup[u] /\ backup[u][kt[1]].taken = kt[2]}

LEMMA MoreKept ==
  ASSUME NEW A, NEW B, A \subseteq B, MeasuredInv(A)
  PROVE  MeasuredInv(B)
  BY DEF MeasuredInv, Kept

\* A measurement goes from its place to a backup, and what is placed covers none.
LEMMA UpgradeKeeps ==
  ASSUME UpBase, SwapInv, NEW u \in Upgrades, UpgradeStep(u),
         NEW k \in Slots, NEW t \in Captures,
         LiesMeasured(k, t) \/ Replacing(k) \/ <<k, t>> \in BackedUp
  PROVE  LiesMeasured(k, t)' \/ Replacing(k)' \/ <<k, t>> \in BackedUp'
<1> USE DEF UpBase
<1>1. Replacing(k) => Replacing(k)'
  BY UpgradeFrame DEF Replacing, runVars
<1>2. ASSUME backup' = backup PROVE BackedUp' = BackedUp
  BY <1>2 DEF BackedUp
<1>3. k \in Files /\ OnDisk(k) = snap[k] /\ OnDisk(k)' = snap'[k]
  BY DEF Files, OnDisk
<1>4. CASE MoveToBackup(u)
  <2>1. PICK f \in up[u].staged :
           /\ f \in Files
           /\ \A g \in Files : OnDisk(g)' = IF g = f THEN NoFile ELSE OnDisk(g)
           /\ OnDisk(f) = NoFile => backup' = backup
           /\ OnDisk(f) # NoFile =>
                /\ DOMAIN backup'[u] = DOMAIN backup[u] \cup {f}
                /\ \A g \in DOMAIN backup'[u] :
                     backup'[u][g] = IF g = f THEN OnDisk(f) ELSE backup[u][g]
    BY <1>4, MoveSteps
  <2>2. f \notin DOMAIN backup[u]
    BY <1>4 DEF MoveToBackup, SwapInv
  <2>3. <<k, t>> \in BackedUp => <<k, t>> \in BackedUp'
    <3>1. CASE OnDisk(f) = NoFile
      BY <1>2, <2>1, <3>1
    <3>2. CASE OnDisk(f) # NoFile
      <4> SUFFICES ASSUME NEW v \in Upgrades, k \in DOMAIN backup[v], backup[v][k].taken = t
                   PROVE  k \in DOMAIN backup'[v] /\ backup'[v][k].taken = t
        BY DEF BackedUp
      <4>1. CASE v = u
        BY <2>1, <2>2, <3>2, <4>1
      <4>2. CASE v # u
        BY <4>2, OthersStand
      <4> QED
        BY <4>1, <4>2
    <3> QED
      BY <3>1, <3>2
  <2>4. ASSUME LiesMeasured(k, t) PROVE LiesMeasured(k, t)' \/ <<k, t>> \in BackedUp'
    <3>1. CASE k = f
      <4>1. OnDisk(f) # NoFile /\ OnDisk(f).taken = t
        BY <1>3, <2>4, <3>1, SnapshotAssumption DEF LiesMeasured
      <4>2. k \in DOMAIN backup'[u] /\ backup'[u][k].taken = t
        BY <2>1, <3>1, <4>1
      <4> QED
        BY <4>2 DEF BackedUp
    <3>2. CASE k # f
      BY <1>3, <2>1, <2>4, <3>2 DEF LiesMeasured
    <3> QED
      BY <3>1, <3>2
  <2> QED
    BY <1>1, <2>3, <2>4
<1>5. CASE PlaceStaged(u)
  <2>1. PICK f \in up[u].todo :
           /\ f \in Files /\ backup' = backup
           /\ \A g \in Files : OnDisk(g)' = IF g = f THEN up[u].made[f] ELSE OnDisk(g)
    BY <1>5, PlaceSteps
  <2>2. OnDisk(f) = NoFile
    BY <1>5 DEF PlaceStaged, SwapInv
  <2>3. LiesMeasured(k, t) => LiesMeasured(k, t)'
    BY <1>3, <2>1, <2>2, SnapshotAssumption DEF LiesMeasured
  <2> QED
    BY <1>1, <1>2, <2>1, <2>3
<1>6. CASE ReadStep(u)
  BY <1>1, <1>2, <1>6, ReadSteps DEF vars, disk, LiesMeasured
<1>7. CASE LockForSwap(u) \/ SwapFails(u) \/ FinishSwap(u) \/ UpCrash(u)
  BY <1>1, <1>2, <1>7 DEF LockForSwap, SwapFails, FinishSwap, UpCrash, disk, LiesMeasured
<1> QED
  BY <1>4, <1>5, <1>6, <1>7, UpgradeSteps

LEMMA UpgradeMeasured ==
  ASSUME UpBase, SwapInv, LedgerInv, MeasuredInv(BackedUp), NEW u \in Upgrades, UpgradeStep(u)
  PROVE  MeasuredInv(BackedUp)'
<1>1. yml' = yml /\ Manifest' = Manifest /\ pc' = pc /\ loc' = loc
  BY UpgradeFrame DEF runVars, Manifest
<1>2. \A k \in Slots, t \in Captures :
        LiesMeasured(k, t) \/ Replacing(k) \/ <<k, t>> \in BackedUp
          => LiesMeasured(k, t)' \/ Replacing(k)' \/ <<k, t>> \in BackedUp'
  BY UpgradeKeeps
<1>3. ASSUME NEW f, Kept(f, BackedUp), DOMAIN f \subseteq Slots, \A k \in DOMAIN f : f[k] \in Captures
      PROVE  \A k \in DOMAIN f : LiesMeasured(k, f[k])' \/ Replacing(k)' \/ <<k, f[k]>> \in BackedUp'
  BY <1>2, <1>3 DEF Kept
<1>4. yml # Torn => Kept(Manifest.captures, BackedUp)'
  BY <1>1, <1>3 DEF MeasuredInv, LedgerInv, RecordsInv, Records, Kept
<1>5. ASSUME NEW c \in Captures, pc[c] = "saving"
      PROVE  Kept(loc[c].man.captures, BackedUp)' /\ loc'[c].man.captures[SlotOf(c)] = c
  BY <1>1, <1>3, <1>5 DEF MeasuredInv, LedgerInv, RecordsInv, Records, Kept
<1>6. ASSUME NEW c \in Captures, pc[c] \in {"bundle", "record", "saving"}
      PROVE  LiesMeasured(SlotOf(c), c)'
  <2>1. upc[u] \notin Swapping
    BY <1>6, UpgradesAssumption DEF UpBase, UpLockInv, LockInv, Locked
  <2> QED
    BY <1>6, <2>1, UpgradesSwapLocked DEF MeasuredInv, LiesMeasured
<1> QED
  BY <1>1, <1>4, <1>5, <1>6 DEF MeasuredInv

\* The run as captures leave it, under steps of upgrades.
RunInv == LedgerInv /\ ConsistencyInv /\ HostsInv

LEMMA RunInvStep ==
  ASSUME Recognisable, Editors = {}, UpBase, RunInv, [UpNext]_allVars, UpBase'
  PROVE  RunInv'
<1>1. ASSUME [DirNext]_vars PROVE RunInv'
  BY <1>1, LedgerInvStep, ConsistencyStep, HostsStep DEF RunInv
<1>2. ASSUME NEW u \in Upgrades, UpgradeStep(u) PROVE RunInv'
  <2>1. UNCHANGED runVars /\ crashes' \in Nat /\ (crashes > 0 => crashes' > 0)
    BY <1>2, UpgradeFrame, CrashAssumption DEF UpBase, UpTypeInv, DirTypeInv, FilesTyped
  <2>2. Shapes' /\ LockInv' /\ Manifest' = Manifest
    BY <2>1 DEF RunInv, LedgerInv, Shapes, LockInv, UpBase, Manifest, runVars, editVars
  <2>3. RecordsInv'
    <3>1. TornOnlyWhileSaving'
      BY <2>1 DEF runVars, RunInv, LedgerInv, RecordsInv, TornOnlyWhileSaving
    <3>2. \A f, more : Records(f, more) => Records(f, more)'
      BY <2>1 DEF runVars, Records
    <3> QED
      BY <2>1, <2>2, <3>1, <3>2 DEF runVars, RunInv, LedgerInv, RecordsInv
  <2>4. ConsistencyInv'
    BY <2>1, <2>2 DEF runVars, RunInv, ConsistencyInv, WritersConsistent, ManifestConsistent, editVars
  <2>5. HostsInv'
    BY <2>1, <2>2 DEF runVars, RunInv, HostsInv, HostsKnown
  <2> QED
    BY <2>2, <2>3, <2>4, <2>5 DEF RunInv, LedgerInv
<1> QED
  BY <1>1, <1>2 DEF UpNext, UpgradeStep, allVars

KeptInv == UpBase /\ SwapInv /\ RunInv /\ MeasuredInv(BackedUp)

LEMMA KeptInvInit ==
  ASSUME Recognisable, UpInit
  PROVE  KeptInv
<1>1. DirInit /\ SwapInv
  BY DEF UpInit, SwapInv, Swapping
<1>2. MeasuredInv(BackedUp)
  BY <1>1, MeasuredInit, MoreKept
<1> QED
  BY <1>1, <1>2, UpBaseInit, LedgerInvInit, ConsistencyInit, HostsInit DEF KeptInv, RunInv

LEMMA KeptInvStep ==
  ASSUME Recognisable, Editors = {}, KeptInv, [UpNext]_allVars
  PROVE  KeptInv'
<1>1. UpBase' /\ SwapInv'
  BY UpBaseStep, SwapInvStep DEF KeptInv
<1>2. RunInv'
  BY <1>1, RunInvStep DEF KeptInv
<1>3. ASSUME [DirNext]_vars, UNCHANGED upVars PROVE MeasuredInv(BackedUp)'
  <2>1. PICK B : B = BackedUp
    OBVIOUS
  <2>2. MeasuredInv(B)'
    BY <1>3, <2>1, MeasuredStep DEF KeptInv, RunInv, UpBase, UpTypeInv
  <2>3. BackedUp' = B
    BY <1>3, <2>1 DEF BackedUp, upVars
  <2> QED
    BY <2>2, <2>3 DEF MeasuredInv, Kept
<1>4. ASSUME NEW u \in Upgrades, UpgradeStep(u) PROVE MeasuredInv(BackedUp)'
  BY <1>4, UpgradeMeasured DEF KeptInv, RunInv
<1> QED
  BY <1>1, <1>2, <1>3, <1>4 DEF KeptInv, UpNext, UpgradeStep, allVars

\* However a swap fails or dies between its renames, and whatever is captured
\* before and after it, a recorded measurement lies in its place or in a backup
\* (upgrade.py, _swap; orchestrate.py, the block under the lock).
THEOREM NoRecordIsLost ==
  ASSUME Recognisable, Editors = {}
  PROVE  UpSpec => []RecordedNotLost
<1>1. UpInit => KeptInv
  BY KeptInvInit
<1>2. KeptInv /\ [UpNext]_allVars => KeptInv'
  BY KeptInvStep
<1>3. KeptInv => RecordedNotLost
  BY DEF KeptInv, MeasuredInv, Kept, LiesMeasured, BackedUp, RecordedNotLost
<1> QED
  BY <1>1, <1>2, <1>3, PTL DEF UpSpec

-----------------------------------------------------------------------------
(* A swap puts in place what run.yml records.                              *)

\* What a step does to the ledger of recorded measurements, and who does it.
LEMMA RecsSteps ==
  ASSUME Recognisable, Editors = {}, LedgerInv, [DirNext]_vars
  PROVE  /\ \/ Recs' = Recs
            \/ Recs' = Torn
            \/ \E c \in Captures : pc[c] = "record" /\ Recs' = Assign(Recs, SlotOf(c), c)
         /\ Recs = Torn => Recs' = Torn
         /\ \A c \in Captures : pc[c] = "done" => pc'[c] = "done"
<1>1. Recs = Torn => Recs' = Torn
  BY LedgerStep DEF Ledger!LedgerNext, Ledger!Commit, Ledger!Destroy
<1>2. CASE UNCHANGED vars
  BY <1>2 DEF vars, disk, Recs, Saving, Manifest
<1>3. ASSUME NEW c \in Captures, QuietStep(c)
      PROVE  (Recs' = Recs \/ Recs' = Torn) /\ pc[c] # "done" /\ pc' = [pc EXCEPT ![c] = pc'[c]]
  <2>1. Recs' = Recs \/ Recs' = Torn
    BY <1>3, QuietLedger DEF Ledger!Destroy
  <2>2. pc[c] # "done" /\ pc' = [pc EXCEPT ![c] = pc'[c]]
    BY <1>3, QuietSteps DEF LedgerInv
  <2> QED
    BY <2>1, <2>2
<1>4. ASSUME NEW c \in Captures, LoadManifest(c) \/ LockRun(c)
      PROVE  Recs' = Recs /\ pc[c] # "done" /\ pc' = [pc EXCEPT ![c] = pc'[c]]
  <2>1. Recs' = Recs
    BY <1>4 DEF LoadManifest, LockRun, Readable, disk, Recs, Manifest
  <2>2. pc[c] # "done" /\ pc' = [pc EXCEPT ![c] = pc'[c]]
    BY <1>4 DEF LoadManifest, LockRun, Goto, LedgerInv, Shapes
  <2> QED
    BY <2>1, <2>2
<1>5. ASSUME NEW c \in Captures, RecordAndSave(c)
      PROVE  /\ pc[c] = "record" /\ Recs' = Assign(Recs, SlotOf(c), c)
             /\ pc' = [pc EXCEPT ![c] = pc'[c]]
  <2>1. Recs' = Assign(Recs, SlotOf(c), c)
    BY <1>5, RecordCommits DEF Ledger!Commit, Assign
  <2>2. pc[c] = "record" /\ pc' = [pc EXCEPT ![c] = pc'[c]]
    BY <1>5 DEF RecordAndSave, Goto, LedgerInv, Shapes
  <2> QED
    BY <2>1, <2>2
<1>6. ASSUME NEW c \in Captures, FinishSave(c)
      PROVE  Recs' = Recs /\ pc[c] # "done" /\ pc' = [pc EXCEPT ![c] = pc'[c]]
  BY <1>6, SavingRecs, FinishRecords DEF FinishSave, Recs, Goto, LedgerInv, Shapes
<1>7. ASSUME NEW c \in Captures, Begin(c) \/ Continue(c) \/ Crash(c)
      PROVE  \/ QuietStep(c) \/ LoadManifest(c) \/ LockRun(c)
             \/ RecordAndSave(c) \/ FinishSave(c)
  BY <1>7 DEF Begin, Continue, QuietStep
<1>8. ASSUME NEW c \in Captures, Begin(c) \/ Continue(c) \/ Crash(c)
      PROVE  /\ \/ Recs' = Recs
                \/ Recs' = Torn
                \/ pc[c] = "record" /\ Recs' = Assign(Recs, SlotOf(c), c)
             /\ pc[c] # "done" /\ pc' = [pc EXCEPT ![c] = pc'[c]]
  BY <1>3, <1>4, <1>5, <1>6, <1>7, <1>8
<1>9. ASSUME NEW c \in Captures, Begin(c) \/ Continue(c) \/ Crash(c)
      PROVE  \A d \in Captures : pc[d] = "done" => pc'[d] = "done"
  <2> SUFFICES ASSUME NEW d \in Captures, pc[d] = "done" PROVE pc'[d] = pc[d]
    OBVIOUS
  <2>1. c # d /\ pc' = [pc EXCEPT ![c] = pc'[c]]
    BY <1>8, <1>9
  <2>2. PICK place : pc' = [pc EXCEPT ![c] = place]
    BY <2>1
  <2> QED
    BY <2>1, <2>2
<1> QED
  BY <1>1, <1>2, <1>8, <1>9 DEF DirNext, vars

\* The records an upgrade noted when it read the time of run.yml, and a record
\* of a capture that is not among them.
Noted(u) == Len(up[u].mark) > 0 /\ up[u].mark[1] # Torn
NotedCaps(u) ==
    IF up[u].mark[1] = NoFile THEN EmptyManifest.captures ELSE up[u].mark[1].captures
Superseded(u) ==
    \E k \in DOMAIN Recs : \A j \in DOMAIN NotedCaps(u) : NotedCaps(u)[j] # Recs[k]

Replaying == {"list", "inventories", "records"}

\* What was noted is what is recorded, or some capture has been recorded since;
\* and so is what was loaded.
NotedInv(u) ==
    Noted(u) =>
        /\ \A j \in DOMAIN NotedCaps(u) :
             NotedCaps(u)[j] \in Captures /\ pc[NotedCaps(u)[j]] = "done"
        /\ Recs # Torn =>
             /\ NotedCaps(u) = Recs \/ Superseded(u)
             /\ upc[u] \in Replaying => up[u].man.captures = NotedCaps(u) \/ Superseded(u)

\* What was made is of the manifest that was loaded.
MadeInv(u) ==
    /\ upc[u] \in {"idle", "stat", "load"} => DOMAIN up[u].made = {}
    /\ \A k \in DOMAIN up[u].made \cap Slots :
         k \in DOMAIN up[u].man.captures /\ up[u].made[k].taken = up[u].man.captures[k]

\* While files are swapped that manifest is the one on disk.
SwapsRecorded(u) ==
    upc[u] \in Swapping => yml # Torn /\ Manifest.captures = up[u].man.captures

MarkInv == \A u \in Upgrades : NotedInv(u) /\ MadeInv(u) /\ SwapsRecorded(u)

LEMMA MarkInvDir ==
  ASSUME Recognisable, Editors = {}, UpBase, LedgerInv, MarkInv, [DirNext]_vars, UNCHANGED upVars
  PROVE  MarkInv'
<1> SUFFICES ASSUME NEW u \in Upgrades PROVE (NotedInv(u) /\ MadeInv(u) /\ SwapsRecorded(u))'
  BY DEF MarkInv
<1>1. up' = up /\ upc' = upc /\ NotedInv(u) /\ MadeInv(u) /\ SwapsRecorded(u)
  BY DEF upVars, MarkInv
<1>2. MadeInv(u)'
  BY <1>1 DEF MadeInv
<1>3. SwapsRecorded(u)'
  <2> SUFFICES ASSUME upc[u] \in Swapping PROVE yml' = yml
    BY <1>1 DEF SwapsRecorded, Manifest
  <2>1. \A c \in Captures : pc[c] \notin Locked
    BY UpgradesAssumption DEF UpBase, UpLockInv, LockInv
  <2>2. ASSUME NEW c \in Captures, Begin(c) \/ Continue(c) \/ Crash(c) PROVE yml' = yml
    <3>1. \/ QuietStep(c) \/ LoadManifest(c) \/ LockRun(c)
          \/ RecordAndSave(c) \/ FinishSave(c)
      BY <2>2 DEF Begin, Continue, QuietStep
    <3>2. ~RecordAndSave(c) /\ ~FinishSave(c)
      BY <2>1 DEF RecordAndSave, FinishSave, Locked
    <3>3. CASE QuietStep(c)
      BY <3>3, QuietSteps DEF LedgerInv
    <3> QED
      BY <3>1, <3>2, <3>3 DEF LoadManifest, LockRun, disk
  <2> QED
    BY <2>2 DEF DirNext, vars, disk
<1>4. NotedInv(u)'
  <2> SUFFICES ASSUME Noted(u) PROVE NotedInv(u)'
    BY <1>1 DEF NotedInv, Noted
  <2>1. NotedCaps(u)' = NotedCaps(u)
    BY <1>1 DEF NotedCaps
  <2>2. \A j \in DOMAIN NotedCaps(u) :
          NotedCaps(u)[j] \in Captures /\ pc[NotedCaps(u)[j]] = "done" /\ pc'[NotedCaps(u)[j]] = "done"
    BY <1>1, RecsSteps DEF NotedInv
  <2>3. CASE Recs' = Recs
    BY <1>1, <2>1, <2>2, <2>3 DEF NotedInv, Noted, Superseded
  <2>4. CASE Recs' = Torn
    BY <1>1, <2>1, <2>2, <2>4 DEF NotedInv, Noted
  <2>5. ASSUME NEW c \in Captures, pc[c] = "record", Recs' = Assign(Recs, SlotOf(c), c)
        PROVE  NotedInv(u)'
    <3>1. SlotOf(c) \in DOMAIN Recs' /\ Recs'[SlotOf(c)] = c
      BY <2>5 DEF Assign
    <3>2. Superseded(u)'
      BY <2>1, <2>2, <2>5, <3>1 DEF Superseded
    <3> QED
      BY <1>1, <2>1, <2>2, <3>2 DEF NotedInv, Noted
  <2> QED
    BY <2>3, <2>4, <2>5, RecsSteps
<1> QED
  BY <1>2, <1>3, <1>4

\* Which step of an upgrade changes which of its locals.
LEMMA UpgradeLocals ==
  ASSUME UpTypeInv, NEW u \in Upgrades, UpgradeStep(u)
  PROVE  /\ up'[u].mark = up[u].mark \/ StatFiles(u)
         /\ up'[u].man = up[u].man \/ LoadRun(u)
         /\ \/ up'[u].made = up[u].made
            \/ \E f \in up[u].todo : RegenerateInventory(u, f) \/ RegenerateCapture(u, f)
         /\ upc'[u] \in Replaying => upc[u] \in Replaying \/ LoadRun(u)
         /\ upc'[u] \in {"idle", "stat", "load"} => upc[u] \in {"idle", "stat", "load"}
         /\ upc'[u] \in Swapping => upc[u] \in Swapping \/ LockForSwap(u)
<1> USE DEF UpTypeInv, UpLocalsTyped, UpLocalFields, UpGoto, Replaying, Swapping
<1>1. CASE BeginUpgrade(u) \/ StatFiles(u) \/ LoadRun(u) \/ ListInventories(u)
  BY <1>1 DEF BeginUpgrade, StatFiles, LoadRun, ListInventories
<1>2. CASE \E f \in up[u].todo : RegenerateInventory(u, f) \/ RegenerateCapture(u, f)
  <2>1. PICK f \in up[u].todo : RegenerateInventory(u, f) \/ RegenerateCapture(u, f)
    BY <1>2
  <2>2. upc' = upc
    BY <2>1 DEF RegenerateInventory, RegenerateCapture
  <2>3. ASSUME RegenerateInventory(u, f) PROVE up'[u].mark = up[u].mark /\ up'[u].man = up[u].man
    BY <2>3 DEF RegenerateInventory
  <2>4. ASSUME RegenerateCapture(u, f) PROVE up'[u].mark = up[u].mark /\ up'[u].man = up[u].man
    BY <2>4 DEF RegenerateCapture
  <2> QED
    BY <1>2, <2>1, <2>2, <2>3, <2>4
<1>3. CASE \E f \in up[u].todo : RefuseFile(u, f)
  BY <1>3 DEF RefuseFile
<1>4. CASE ListRecords(u) \/ ReplayFails(u) \/ NothingChanged(u) \/ RunChanged(u)
  BY <1>4 DEF ListRecords, ReplayFails, NothingChanged, RunChanged
<1>5. CASE LockForSwap(u) \/ SwapFails(u) \/ FinishSwap(u) \/ UpCrash(u)
  BY <1>5 DEF LockForSwap, SwapFails, FinishSwap, UpCrash
<1>6. CASE MoveToBackup(u) \/ PlaceStaged(u)
  <2>1. upc[u] \in Swapping /\ upc'[u] \in Swapping
    BY <1>6 DEF MoveToBackup, PlaceStaged
  <2> DEFINE SameReplay == up'[u].mark = up[u].mark /\ up'[u].man = up[u].man /\ up'[u].made = up[u].made
  <2>2. ASSUME MoveToBackup(u) PROVE SameReplay
    BY <2>2 DEF MoveToBackup
  <2>3. ASSUME PlaceStaged(u) PROVE SameReplay
    BY <2>3 DEF PlaceStaged
  <2> QED
    BY <1>6, <2>1, <2>2, <2>3
<1> QED
  BY <1>1, <1>2, <1>3, <1>4, <1>5, <1>6, UpgradeSteps DEF ReadStep

LEMMA UpgradeRecs ==
  ASSUME NEW u \in Upgrades, UpgradeStep(u)
  PROVE  yml' = yml /\ Manifest' = Manifest /\ pc' = pc /\ loc' = loc /\ Recs' = Recs
<1>1. yml' = yml /\ pc' = pc /\ loc' = loc
  BY UpgradeFrame DEF runVars
<1>2. Manifest' = Manifest /\ Saving' = Saving
  BY <1>1 DEF Manifest, Saving
<1> QED
  BY <1>1, <1>2 DEF Recs

\* Steps of an upgrade: its own notes.
LEMMA NotedStep ==
  ASSUME Recognisable, UpTypeInv, LedgerInv, NEW u \in Upgrades, NotedInv(u), UpgradeStep(u)
  PROVE  NotedInv(u)'
<1>1. yml' = yml /\ Manifest' = Manifest /\ pc' = pc /\ loc' = loc /\ Recs' = Recs
  BY UpgradeRecs
<1>2. UpLocalsTyped(u) /\ DOMAIN up = Upgrades
  BY DEF UpTypeInv
<1>3. CASE StatFiles(u)
  <2>1. upc[u] = "stat" /\ upc'[u] \in {"load", "stat"} /\ Recs' = Recs
    BY <1>1, <1>3 DEF StatFiles, UpGoto, UpTypeInv
  <2>2. PICK S : up[u].mark \in Seq(S)
    BY <1>2 DEF UpLocalsTyped, IsMark
  <2>3. up'[u].mark = Append(up[u].mark, Fingerprint[Len(up[u].mark) + 1])
    BY <1>2, <1>3 DEF StatFiles, UpLocalsTyped, UpLocalFields
  <2>4. CASE Len(up[u].mark) = 0
    <3>1. up'[u].mark[1] = yml
      BY <2>2, <2>3, <2>4 DEF Fingerprint
    <3>2. Noted(u)' => yml # Torn /\ NotedCaps(u)' = Manifest.captures
      BY <1>1, <3>1 DEF Noted, NotedCaps, Manifest
    <3>3. yml # Torn => /\ Recs' = Manifest.captures
                        /\ \A j \in DOMAIN Manifest.captures :
                             Manifest.captures[j] \in Captures /\ pc[Manifest.captures[j]] = "done"
      BY <1>1 DEF Recs, LedgerInv, RecordsInv, Records
    <3> QED
      BY <1>1, <2>1, <3>2, <3>3 DEF NotedInv, Replaying
  <2>5. CASE Len(up[u].mark) # 0
    <3>1. Len(up[u].mark) > 0 /\ up'[u].mark[1] = up[u].mark[1]
      BY <2>2, <2>3, <2>5
    <3>2. NotedCaps(u)' = NotedCaps(u) /\ (Noted(u)' => Noted(u))
      BY <3>1 DEF Noted, NotedCaps
    <3> QED
      BY <1>1, <2>1, <3>2 DEF NotedInv, Replaying, Superseded
  <2> QED
    BY <2>4, <2>5
<1>4. CASE ~StatFiles(u)
  <2>1. up'[u].mark = up[u].mark
    BY <1>4, UpgradeLocals
  <2>2. NotedCaps(u)' = NotedCaps(u) /\ (Noted(u)' <=> Noted(u)) /\ (Superseded(u)' <=> Superseded(u))
    BY <1>1, <2>1 DEF Noted, NotedCaps, Superseded
  <2>3. CASE LoadRun(u)
    <3>1. upc'[u] \in Replaying => yml # Torn /\ up'[u].man = Manifest
      BY <1>2, <2>3 DEF LoadRun, UpLocalsTyped, UpLocalFields, UpGoto, UpTypeInv, Readable, Replaying
    <3>2. yml # Torn => Recs = Manifest.captures
      BY DEF Recs
    <3> QED
      BY <1>1, <2>2, <3>1, <3>2 DEF NotedInv
  <2>4. CASE ~LoadRun(u)
    <3>1. up'[u].man = up[u].man /\ (upc'[u] \in Replaying => upc[u] \in Replaying)
      BY <2>4, UpgradeLocals
    <3> QED
      BY <1>1, <2>2, <3>1 DEF NotedInv
  <2> QED
    BY <2>3, <2>4
<1> QED
  BY <1>3, <1>4

\* What it makes: only captures whose raw record is of the recorded measurement.
LEMMA MadeStep ==
  ASSUME UpTypeInv, NEW u \in Upgrades, MadeInv(u), UpgradeStep(u)
  PROVE  MadeInv(u)'
<1>1. UpLocalsTyped(u) /\ DOMAIN up = Upgrades
  BY DEF UpTypeInv
<1>2. ASSUME NEW e \in up[u].todo, RegenerateInventory(u, e) PROVE MadeInv(u)'
  <2>1. upc[u] = "inventories" /\ upc' = upc /\ e \in Endpoints
    BY <1>1, <1>2 DEF RegenerateInventory, UpLocalsTyped
  <2>2. up'[u].made = Assign(up[u].made, e, invRaw[e]) /\ up'[u].man = up[u].man
    BY <1>1, <1>2 DEF RegenerateInventory, UpLocalsTyped, UpLocalFields
  <2> QED
    BY <2>1, <2>2, FilesApart DEF MadeInv, Assign
<1>3. ASSUME NEW k \in up[u].todo, RegenerateCapture(u, k) PROVE MadeInv(u)'
  <2> DEFINE new == Regenerated(u, raw[k])
  <2>1. upc[u] = "records" /\ upc' = upc /\ k \in DOMAIN up[u].man.captures
    BY <1>1, <1>3 DEF RegenerateCapture, UpLocalsTyped
  <2>2. new.taken = up[u].man.captures[k]
    BY <1>3 DEF RegenerateCapture, BelongsTo, Regenerated
  <2> HIDE DEF new
  <2>3. up'[u].made = Assign(up[u].made, k, new) /\ up'[u].man = up[u].man
    BY <1>1, <1>3 DEF RegenerateCapture, UpLocalsTyped, UpLocalFields, new
  <2> QED
    BY <2>1, <2>2, <2>3 DEF MadeInv, Assign
<1>4. CASE LoadRun(u)
  <2>1. upc[u] = "load" /\ up'[u].made = up[u].made
    BY <1>1, <1>4 DEF LoadRun, UpLocalsTyped, UpLocalFields
  <2> QED
    BY <2>1 DEF MadeInv
<1>5. CASE up'[u].made = up[u].made /\ ~LoadRun(u)
  BY <1>5, UpgradeLocals DEF MadeInv
<1> QED
  BY <1>2, <1>3, <1>4, <1>5, UpgradeLocals

\* It takes the lock with the manifest it noted and loaded, or not at all.
LEMMA SwapsRecordedStep ==
  ASSUME Recognisable, UpTypeInv, LedgerInv, NEW u \in Upgrades,
         NotedInv(u), SwapsRecorded(u), UpgradeStep(u)
  PROVE  SwapsRecorded(u)'
<1>1. yml' = yml /\ Manifest' = Manifest
  BY UpgradeFrame DEF runVars, Manifest
<1>2. CASE LockForSwap(u)
  <2>1. up' = up /\ upc[u] = "records" /\ Unmoved(u)
    BY <1>2 DEF LockForSwap
  <2>2. up[u].mark = <<yml, snap, inv, <<raw, invRaw>>>>
    BY <2>1 DEF Unmoved, Fingerprint
  <2>3. up[u].mark[1] = yml /\ Len(up[u].mark) = 4 /\ yml # Torn
    BY <2>1, <2>2 DEF Unmoved
  <2>4. Noted(u) /\ NotedCaps(u) = Manifest.captures
    BY <2>3 DEF Noted, NotedCaps, Manifest
  <2>5. Recs = Manifest.captures /\ Recs # Torn
    BY <2>3 DEF Recs, LedgerInv, RecordsInv, Records, Recognisable
  <2>6. ~Superseded(u)
    BY <2>4, <2>5 DEF Superseded
  <2>7. up[u].man.captures = Manifest.captures
    BY <2>1, <2>4, <2>5, <2>6 DEF NotedInv, Replaying
  <2> QED
    BY <1>1, <2>1, <2>3, <2>7 DEF SwapsRecorded
<1>3. CASE ~LockForSwap(u) /\ ~LoadRun(u)
  BY <1>1, <1>3, UpgradeLocals DEF SwapsRecorded
<1>4. CASE LoadRun(u)
  BY <1>4 DEF LoadRun, UpGoto, UpTypeInv, SwapsRecorded, Swapping
<1> QED
  BY <1>2, <1>3, <1>4

LEMMA MarkInvStep ==
  ASSUME Recognisable, Editors = {}, UpBase, LedgerInv, MarkInv, [UpNext]_allVars
  PROVE  MarkInv'
<1>1. ASSUME NEW u \in Upgrades, UpgradeStep(u), NEW v \in Upgrades, v # u
      PROVE  (NotedInv(v) /\ MadeInv(v) /\ SwapsRecorded(v))'
  <2>1. yml' = yml /\ Manifest' = Manifest /\ pc' = pc /\ Recs' = Recs
    BY <1>1, UpgradeRecs
  <2>2. upc'[v] = upc[v] /\ up'[v] = up[v]
    BY <1>1, OthersStand DEF UpBase
  <2>3. NotedInv(v) /\ MadeInv(v) /\ SwapsRecorded(v)
    BY DEF MarkInv
  <2> QED
    BY <2>1, <2>2, <2>3 DEF NotedInv, MadeInv, SwapsRecorded, Noted, NotedCaps, Superseded
<1>2. ASSUME NEW u \in Upgrades, UpgradeStep(u) PROVE MarkInv'
  <2>1. (NotedInv(u) /\ MadeInv(u) /\ SwapsRecorded(u))'
    BY <1>2, NotedStep, MadeStep, SwapsRecordedStep DEF MarkInv, UpBase
  <2> QED
    BY <1>1, <1>2, <2>1 DEF MarkInv
<1> QED
  BY <1>2, MarkInvDir DEF UpNext, UpgradeStep, allVars

LEMMA MarkInvInit == UpInit => MarkInv
<1> SUFFICES ASSUME UpInit, NEW u \in Upgrades PROVE NotedInv(u) /\ MadeInv(u) /\ SwapsRecorded(u)
  BY DEF MarkInv
<1>1. upc[u] = "idle" /\ up[u].mark = <<>> /\ up[u].made = <<>>
  BY DEF UpInit
<1> QED
  BY <1>1 DEF NotedInv, Noted, MadeInv, SwapsRecorded, Swapping

\* Only a swap puts a regenerated snapshot in place, and it is then the measurement
\* that run.yml records: one that was recorded during the replay, without a lock,
\* is never overwritten by an older one (upgrade.py, _fingerprint and _swap).
THEOREM SwapsKeepRecorded ==
  ASSUME Recognisable, Editors = {}
  PROVE  UpSpec => SwapKeepsRecorded
<1> DEFINE Inv == UpBase /\ RunInv /\ MarkInv
           Keeps == \A k \in Slots :
             snap'[k] # snap[k] /\ snap'[k] \in Snapshots /\ snap'[k].tool = 2
               => /\ yml # Torn
                  /\ k \in DOMAIN Manifest.captures
                  /\ Manifest.captures[k] = snap'[k].taken
<1>1. UpInit => Inv
  BY UpBaseInit, MarkInvInit, LedgerInvInit, ConsistencyInit, HostsInit DEF UpInit, RunInv
<1>2. Inv /\ [UpNext]_allVars => Inv'
  BY UpBaseStep, RunInvStep, MarkInvStep DEF RunInv
<1>3. ASSUME Inv, [DirNext]_vars PROVE Keeps
  <2> SUFFICES ASSUME NEW k \in Slots, snap'[k] # snap[k], snap'[k] \in Snapshots, snap'[k].tool = 2
               PROVE  FALSE
    OBVIOUS
  <2>1. PICK c \in Captures : TruncateSnapshot(c) \/ SaveSnapshot(c)
    BY <1>3, CaptureWrites, EditWrites DEF DirNext, vars, disk
  <2>2. DOMAIN snap = Slots
    BY <1>3 DEF UpBase, UpTypeInv, DirTypeInv, FilesTyped
  <2>3. CASE TruncateSnapshot(c)
    BY <2>2, <2>3, SnapshotAssumption DEF TruncateSnapshot
  <2>4. CASE SaveSnapshot(c)
    BY <2>2, <2>4 DEF SaveSnapshot
  <2> QED
    BY <2>1, <2>3, <2>4
<1>4. ASSUME Inv, NEW u \in Upgrades, UpgradeStep(u) PROVE Keeps
  <2> SUFFICES ASSUME NEW k \in Slots, snap'[k] # snap[k], snap'[k] \in Snapshots
               PROVE  /\ yml # Torn
                      /\ k \in DOMAIN Manifest.captures
                      /\ Manifest.captures[k] = snap'[k].taken
    OBVIOUS
  <2>1. k \in Files /\ OnDisk(k) = snap[k] /\ OnDisk(k)' = snap'[k]
    BY DEF Files, OnDisk
  <2>2. MoveToBackup(u) \/ PlaceStaged(u)
    BY <1>4, UpgradeSteps, ReadSteps
       DEF LockForSwap, SwapFails, FinishSwap, UpCrash, vars, disk
  <2>3. ~MoveToBackup(u)
    BY <1>4, <2>1, MoveSteps, SnapshotAssumption DEF UpBase
  <2>4. k \in DOMAIN up[u].made /\ snap'[k] = up[u].made[k]
    BY <1>4, <2>1, <2>2, <2>3, PlaceSteps DEF UpBase
  <2>5. upc[u] \in Swapping
    BY <2>2 DEF MoveToBackup, PlaceStaged, Swapping
  <2> QED
    BY <1>4, <2>4, <2>5 DEF MarkInv, MadeInv, SwapsRecorded
<1>5. Inv /\ [UpNext]_allVars => [Keeps]_allVars
  BY <1>3, <1>4 DEF UpNext, UpgradeStep
<1>6. SwapKeepsRecorded <=> [][Keeps]_allVars
  BY DEF SwapKeepsRecorded
<1> HIDE DEF Inv, Keeps
<1> QED
  BY <1>1, <1>2, <1>5, <1>6, PTL DEF UpSpec

-----------------------------------------------------------------------------
(* What is regenerated is judged as the raw record tells.                  *)

\* A capture that has measured keeps its baselines and its inventory, and one that
\* is done does nothing more.
LEMMA MeasurementStays ==
  ASSUME DirTypeInv, [DirNext]_vars, NEW c \in Captures, pc[c] \notin NotMeasured
  PROVE  /\ pc'[c] \notin NotMeasured /\ loc'[c].basis = loc[c].basis /\ loc'[c].used = loc[c].used
         /\ pc[c] = "done" => pc'[c] = "done"
<1> DEFINE Stays == /\ pc'[c] \notin NotMeasured /\ loc'[c].basis = loc[c].basis
                    /\ loc'[c].used = loc[c].used
                    /\ pc[c] = "done" => pc'[c] = "done"
<1>1. ASSUME NEW d \in Captures, Begin(d) \/ Continue(d) \/ Crash(d) PROVE Stays
  <2> USE DEF DirTypeInv, Goto, Fail, NotMeasured
  <2>1. CASE LoadManifest(d) \/ RefuseCapture(d) \/ FindInventory(d) \/ ParseServices(d) \/ ParseFails(d)
    BY <2>1 DEF LoadManifest, RefuseCapture, FindInventory, ParseServices, ParseFails
  <2>2. CASE ParseLock(d) \/ DropInventoryRaw(d) \/ DropInventoryRawFails(d) \/ ReplaceInventory(d)
             \/ ScratchMissing(d) \/ WriteInventoryRaw(d)
    BY <2>2 DEF ParseLock, DropInventoryRaw, DropInventoryRawFails, ReplaceInventory,
                ScratchMissing, WriteInventoryRaw
  <2>3. CASE LoadBaseline(d)
    BY <2>3 DEF LoadBaseline
  <2>4. CASE Measure(d) \/ SessionFails(d)
    BY <2>4 DEF Measure, SessionFails
  <2>5. CASE WrapSession(d) \/ LockRun(d) \/ ReloadFails(d) \/ RecordAndSave(d)
    BY <2>5 DEF WrapSession, LockRun, ReloadFails, RecordAndSave, LocalsTyped, LocalFields
  <2>6. CASE DropRaw(d) \/ TruncateSnapshot(d) \/ SaveSnapshot(d) \/ WriteRaw(d)
             \/ SaveRefused(d) \/ FinishSave(d) \/ Crash(d)
    BY <2>6 DEF DropRaw, TruncateSnapshot, SaveSnapshot, WriteRaw, SaveRefused, FinishSave, Crash,
                Running
  <2> QED
    BY <1>1, <2>1, <2>2, <2>3, <2>4, <2>5, <2>6 DEF Begin, Continue
<1> QED
  BY <1>1, EditWrites DEF DirNext, vars

\* A snapshot that is judged with nothing its capture did not measure with.
Faithful(s) ==
    /\ pc[s.taken] \notin NotMeasured
    /\ \A base \in s.basis :
         \E measured \in loc[s.taken].basis : StandsFor(base, measured, s.taken)
    /\ s.inventory = loc[s.taken].used

\* Raw records are of captures that have measured; what is regenerated from them
\* is faithful, before it is placed and after.
FaithInv ==
    /\ \A k \in Slots : raw[k] # NoFile => pc[raw[k].taken] \notin NotMeasured
    /\ \A u \in Upgrades : \A k \in DOMAIN up[u].made \cap Slots : Faithful(up[u].made[k])
    /\ \A k \in Slots : snap[k] \in Snapshots /\ snap[k].tool = 2 => Faithful(snap[k])

LEMMA FaithInit ==
  ASSUME UpInit
  PROVE  FaithInv
<1>1. \A k \in Slots : raw[k] # NoFile => pc[raw[k].taken] \notin NotMeasured
  <2> SUFFICES ASSUME NEW k \in Slots, raw[k] # NoFile PROVE pc[raw[k].taken] = "done"
    BY DEF NotMeasured
  <2>1. k \in DOMAIN Past /\ raw[k].taken = Past[k]
    BY DEF UpInit, DirInit
  <2>2. Past[k] \in Captures
    BY <2>1, StartAssumption DEF Past, IsManifest
  <2> QED
    BY <2>1, <2>2 DEF UpInit, DirInit, IsPast
<1>2. \A k \in Slots : ~(snap[k] \in Snapshots /\ snap[k].tool = 2)
  BY SnapshotAssumption DEF UpInit, DirInit
<1>3. \A u \in Upgrades : DOMAIN up[u].made = {}
  BY DEF UpInit
<1> QED
  BY <1>1, <1>2, <1>3 DEF FaithInv

LEMMA FaithDir ==
  ASSUME UpTypeInv, FaithInv, [DirNext]_vars, UNCHANGED upVars
  PROVE  FaithInv'
<1>1. ASSUME NEW s \in Snapshots, Faithful(s) PROVE Faithful(s)'
  BY <1>1, MeasurementStays DEF UpTypeInv, Snapshots, Faithful
<1>2. ASSUME NEW k \in Slots, raw'[k] # NoFile
      PROVE  pc'[raw'[k].taken] \notin NotMeasured
  <2>1. CASE raw'[k] = raw[k]
    <3>1. raw[k].taken \in Captures /\ pc[raw[k].taken] \notin NotMeasured
      BY <1>2, <2>1 DEF UpTypeInv, DirTypeInv, FilesTyped, IsBundle, FaithInv
    <3> QED
      BY <2>1, <3>1, MeasurementStays DEF UpTypeInv
  <2>2. CASE raw'[k] # raw[k]
    <3>1. PICK c \in Captures : DropRaw(c) \/ WriteRaw(c)
      BY <2>2, CaptureWrites, EditWrites DEF DirNext, vars, disk
    <3>2. DOMAIN raw = Slots
      BY DEF UpTypeInv, DirTypeInv, FilesTyped
    <3>3. pc'[c] \in {"truncate", "record"}
      BY <3>1 DEF DropRaw, WriteRaw, Goto, UpTypeInv, DirTypeInv
    <3>4. raw'[k].taken = c
      BY <1>2, <2>2, <3>1, <3>2 DEF DropRaw, WriteRaw
    <3> QED
      BY <3>3, <3>4 DEF NotMeasured
  <2> QED
    BY <2>1, <2>2
<1>3. ASSUME NEW u \in Upgrades, NEW k \in DOMAIN up'[u].made \cap Slots
      PROVE  Faithful(up[u].made[k])'
  <2>1. up' = up
    BY DEF upVars
  <2>2. PICK s : s = up[u].made[k]
    OBVIOUS
  <2>3. s \in Snapshots /\ Faithful(s)
    BY <1>3, <2>1, <2>2 DEF UpTypeInv, UpLocalsTyped, FaithInv
  <2>4. Faithful(s)'
    BY <1>1, <2>3
  <2> QED
    BY <2>1, <2>2, <2>4 DEF Faithful
<1>4. ASSUME NEW k \in Slots, snap'[k] \in Snapshots, snap'[k].tool = 2
      PROVE  Faithful(snap[k])'
  <2>1. snap'[k] = snap[k]
    <3> SUFFICES ASSUME snap'[k] # snap[k] PROVE FALSE
      OBVIOUS
    <3>1. PICK c \in Captures : TruncateSnapshot(c) \/ SaveSnapshot(c)
      BY CaptureWrites, EditWrites DEF DirNext, vars, disk
    <3>2. DOMAIN snap = Slots
      BY DEF UpTypeInv, DirTypeInv, FilesTyped
    <3> QED
      BY <1>4, <3>1, <3>2, SnapshotAssumption DEF TruncateSnapshot, SaveSnapshot
  <2>2. PICK s : s = snap[k]
    OBVIOUS
  <2>3. s \in Snapshots /\ Faithful(s)
    BY <1>4, <2>1, <2>2 DEF FaithInv
  <2>4. Faithful(s)'
    BY <1>1, <2>3
  <2> QED
    BY <2>1, <2>2, <2>4 DEF Faithful
<1> QED
  BY <1>2, <1>3, <1>4 DEF FaithInv

-----------------------------------------------------------------------------
(* Measurements lie under their own slots.  A raw record without identities  *)
(* needs it: it vouches for a slot and not for a measurement.                *)

\* A raw record names the slots its capture was measured with.
NamesTold(bundle) ==
    IF bundle.taken \in Unsigned
    THEN bundle.names \subseteq {SlotOf(m) : m \in loc[bundle.taken].basis}
    ELSE bundle.names = DOMAIN bundle.bases

OriginInv ==
    /\ \A k \in Slots : snap[k] \in Snapshots => SlotOf(snap[k].taken) = k
    /\ \A k \in Slots : raw[k] # NoFile => SlotOf(raw[k].taken) = k /\ NamesTold(raw[k])
    /\ \A u \in Upgrades : \A k \in DOMAIN up[u].made \cap Slots : SlotOf(up[u].made[k].taken) = k
    /\ \A c \in Unsigned : pc[c] = "done"

LEMMA OriginInit ==
  ASSUME UpInit
  PROVE  OriginInv
<1> DEFINE Record(k) == [taken |-> Past[k], names |-> PastBaselines(Past[k]),
                         bases |-> PastIdentities(Past[k]),
                         inventory |-> PastInventory(Past[k])]
<1>1. \A k \in DOMAIN Past : Past[k] \in Captures /\ SlotOf(Past[k]) = k
  BY StartAssumption DEF Past, IsManifest
<1>2. \A k \in Slots : snap[k] \in Snapshots => SlotOf(snap[k].taken) = k
  BY <1>1, SnapshotAssumption DEF UpInit, DirInit
<1>3. \A k \in Slots : raw[k] # NoFile => k \in DOMAIN Past /\ raw[k] = Record(k)
  BY DEF UpInit, DirInit
<1>4. ASSUME NEW k \in DOMAIN Past PROVE NamesTold(Record(k))
  <2>1. loc[Past[k]].basis = PastBasis(Past[k])
    BY <1>1 DEF UpInit, DirInit
  <2>2. CASE Past[k] \in Unsigned
    <3>1. PastBaselines(Past[k]) \subseteq {SlotOf(m) : m \in PastBasis(Past[k])}
      BY <1>1, PastTypes DEF PastBasis
    <3> QED
      BY <2>1, <2>2, <3>1 DEF NamesTold
  <2>3. CASE Past[k] \notin Unsigned
    <3>1. DOMAIN PastIdentities(Past[k]) = PastBaselines(Past[k])
      BY <2>3 DEF PastIdentities
    <3> QED
      BY <2>3, <3>1 DEF NamesTold
  <2> QED
    BY <2>2, <2>3
<1>5. \A k \in Slots : raw[k] # NoFile => SlotOf(raw[k].taken) = k /\ NamesTold(raw[k])
  <2> SUFFICES ASSUME NEW k \in Slots, raw[k] # NoFile
               PROVE  SlotOf(raw[k].taken) = k /\ NamesTold(raw[k])
    OBVIOUS
  <2>1. k \in DOMAIN Past /\ raw[k] = Record(k) /\ NamesTold(Record(k))
    BY <1>3, <1>4
  <2>2. raw[k].taken = Past[k]
    BY <2>1
  <2> HIDE DEF Record
  <2> QED
    BY <1>1, <2>1, <2>2
<1>6. \A u \in Upgrades : DOMAIN up[u].made = {}
  BY DEF UpInit
<1>7. \A c \in Unsigned : pc[c] = "done"
  BY UnsignedAssumption DEF UpInit, DirInit
<1> QED
  BY <1>2, <1>5, <1>6, <1>7 DEF OriginInv

LEMMA OriginDir ==
  ASSUME UpTypeInv, OriginInv, FaithInv, [DirNext]_vars, UNCHANGED upVars
  PROVE  OriginInv'
<1>1. \A c \in Unsigned : pc'[c] = "done"
  BY MeasurementStays, UnsignedAssumption DEF UpTypeInv, OriginInv, NotMeasured
<1>2. ASSUME NEW k \in Slots, snap'[k] \in Snapshots PROVE SlotOf(snap'[k].taken) = k
  <2>1. CASE snap'[k] = snap[k]
    BY <1>2, <2>1 DEF OriginInv
  <2>2. CASE snap'[k] # snap[k]
    <3>1. PICK c \in Captures : TruncateSnapshot(c) \/ SaveSnapshot(c)
      BY <2>2, CaptureWrites, EditWrites DEF DirNext, vars, disk
    <3>2. DOMAIN snap = Slots
      BY DEF UpTypeInv, DirTypeInv, FilesTyped
    <3>3. k = SlotOf(c) /\ snap'[k].taken = c
      BY <1>2, <2>2, <3>1, <3>2, SnapshotAssumption DEF TruncateSnapshot, SaveSnapshot
    <3> QED
      BY <3>3
  <2> QED
    BY <2>1, <2>2
<1>3. ASSUME NEW k \in Slots, raw'[k] # NoFile
      PROVE  SlotOf(raw'[k].taken) = k /\ NamesTold(raw[k])'
  <2>1. CASE raw'[k] = raw[k]
    <3>1. SlotOf(raw[k].taken) = k /\ NamesTold(raw[k])
      BY <1>3, <2>1 DEF OriginInv
    <3>2. raw[k].taken \in Captures /\ pc[raw[k].taken] \notin NotMeasured
      BY <1>3, <2>1 DEF UpTypeInv, DirTypeInv, FilesTyped, IsBundle, FaithInv
    <3>3. loc'[raw[k].taken].basis = loc[raw[k].taken].basis
      BY <3>2, MeasurementStays DEF UpTypeInv
    <3> QED
      BY <2>1, <3>1, <3>3 DEF NamesTold
  <2>2. CASE raw'[k] # raw[k]
    <3>1. PICK c \in Captures : DropRaw(c) \/ WriteRaw(c)
      BY <2>2, CaptureWrites, EditWrites DEF DirNext, vars, disk
    <3>2. DOMAIN raw = Slots
      BY DEF UpTypeInv, DirTypeInv, FilesTyped
    <3>3. k = SlotOf(c) /\ WriteRaw(c)
          /\ raw'[k] = [taken |-> c, names |-> DOMAIN loc[c].bases, bases |-> loc[c].bases,
                        inventory |-> Copied(c)]
      BY <1>3, <2>2, <3>1, <3>2 DEF DropRaw, WriteRaw
    <3>4. c \notin Unsigned
      BY <3>3 DEF WriteRaw, OriginInv
    <3>5. /\ raw'[k].taken = c
          /\ raw'[k].names = DOMAIN raw'[k].bases
      BY <3>3
    <3> QED
      BY <3>3, <3>4, <3>5 DEF NamesTold
  <2> QED
    BY <2>1, <2>2
<1>4. up' = up
  BY DEF upVars
<1> QED
  BY <1>1, <1>2, <1>3, <1>4 DEF OriginInv

-----------------------------------------------------------------------------
(* Steps of an upgrade: what is made comes from a raw record, what is placed *)
(* has been made.                                                            *)

LEMMA MadeFromRaw ==
  ASSUME UpTypeInv, NEW u \in Upgrades, UpgradeStep(u),
         NEW v \in Upgrades, NEW k \in DOMAIN up'[v].made \cap Slots
  PROVE  \/ k \in DOMAIN up[v].made \cap Slots /\ up'[v].made[k] = up[v].made[k]
         \/ raw[k] # NoFile /\ up'[v].made[k] = Regenerated(u, raw[k])
<1>1. CASE up'[v].made = up[v].made
  BY <1>1
<1>2. CASE up'[v].made # up[v].made
  <2>1. v = u
    BY <1>2, OthersStand
  <2>2. UpLocalsTyped(u) /\ DOMAIN up = Upgrades
    BY DEF UpTypeInv
  <2>3. PICK f \in up[u].todo : RegenerateInventory(u, f) \/ RegenerateCapture(u, f)
    BY <1>2, <2>1, UpgradeLocals
  <2>4. CASE RegenerateInventory(u, f)
    <3>1. f \in Endpoints
      BY <2>2, <2>4 DEF RegenerateInventory, UpLocalsTyped
    <3>2. up'[u].made = Assign(up[u].made, f, invRaw[f])
      BY <2>2, <2>4 DEF RegenerateInventory, UpLocalsTyped, UpLocalFields
    <3> QED
      BY <2>1, <3>1, <3>2, FilesApart DEF Assign
  <2>5. CASE RegenerateCapture(u, f)
    <3> DEFINE new == Regenerated(u, raw[f])
    <3>1. f \in Slots /\ raw[f] # NoFile
      BY <2>2, <2>5 DEF RegenerateCapture, BelongsTo, UpLocalsTyped, IsManifest
    <3> HIDE DEF new
    <3>2. up'[u].made = Assign(up[u].made, f, new)
      BY <2>2, <2>5 DEF RegenerateCapture, UpLocalsTyped, UpLocalFields, new
    <3>3. \/ k = f /\ up'[u].made[k] = new
          \/ k \in DOMAIN up[u].made \cap Slots /\ up'[u].made[k] = up[u].made[k]
      BY <2>1, <3>2 DEF Assign
    <3> QED
      BY <2>1, <3>1, <3>3 DEF new
  <2> QED
    BY <2>3, <2>4, <2>5
<1> QED
  BY <1>1, <1>2

LEMMA PlacedFromMade ==
  ASSUME UpTypeInv, NEW u \in Upgrades, UpgradeStep(u),
         NEW k \in Slots, snap'[k] # snap[k], snap'[k] \in Snapshots
  PROVE  k \in DOMAIN up[u].made \cap Slots /\ snap'[k] = up[u].made[k]
<1>1. k \in Files /\ OnDisk(k) = snap[k] /\ OnDisk(k)' = snap'[k]
  BY DEF Files, OnDisk
<1>2. MoveToBackup(u) \/ PlaceStaged(u)
  BY UpgradeSteps, ReadSteps DEF LockForSwap, SwapFails, FinishSwap, UpCrash, vars, disk
<1>3. ~MoveToBackup(u)
  BY <1>1, MoveSteps, SnapshotAssumption
<1> QED
  BY <1>1, <1>2, <1>3, PlaceSteps

LEMMA OriginUpgrade ==
  ASSUME UpTypeInv, OriginInv, NEW u \in Upgrades, UpgradeStep(u)
  PROVE  OriginInv'
<1>1. raw' = raw /\ pc' = pc /\ loc' = loc
  BY UpgradeFrame DEF runVars
<1>2. \A b : NamesTold(b) => NamesTold(b)'
  BY <1>1 DEF NamesTold
<1>3. ASSUME NEW v \in Upgrades, NEW k \in DOMAIN up'[v].made \cap Slots
      PROVE  SlotOf(up'[v].made[k].taken) = k
  <2>1. CASE k \in DOMAIN up[v].made \cap Slots /\ up'[v].made[k] = up[v].made[k]
    BY <2>1 DEF OriginInv
  <2>2. CASE raw[k] # NoFile /\ up'[v].made[k] = Regenerated(u, raw[k])
    BY <1>3, <2>2 DEF OriginInv, Regenerated
  <2> QED
    BY <1>3, <2>1, <2>2, MadeFromRaw
<1>4. \A k \in Slots : snap'[k] \in Snapshots => SlotOf(snap'[k].taken) = k
  BY PlacedFromMade DEF OriginInv
<1> QED
  BY <1>1, <1>2, <1>3, <1>4 DEF OriginInv, NamesTold

-----------------------------------------------------------------------------
(* What is regenerated is faithful.                                          *)

\* What an upgrade takes for a baseline stands for one of the capture's.
LEMMA RegeneratedFaithful ==
  ASSUME UpTypeInv, OriginInv, FaithInv, RawRecordIsTrue,
         NEW u \in Upgrades, NEW k \in Slots, raw[k] # NoFile
  PROVE  Faithful(Regenerated(u, raw[k]))
<1> DEFINE new == Regenerated(u, raw[k])
           c == raw[k].taken
<1>1. new.taken = c /\ new.inventory = raw[k].inventory
      /\ new.basis = UpgradeBaselines(u, raw[k])
  BY DEF Regenerated
<1>2. IsBundle(raw[k]) /\ NamesTold(raw[k]) /\ pc[c] \notin NotMeasured
  BY DEF UpTypeInv, DirTypeInv, FilesTyped, OriginInv, FaithInv
<1>3. raw[k].inventory = loc[c].used
  BY DEF RawRecordIsTrue, BundleInventoryIsMeasured
<1>4. ASSUME NEW base \in UpgradeBaselines(u, raw[k])
      PROVE  \E measured \in loc[c].basis : StandsFor(base, measured, c)
  <2>1. PICK b \in raw[k].names :
          /\ Loadable(u, b)
          /\ b \in DOMAIN raw[k].bases => Resolved(u, b).taken = raw[k].bases[b]
          /\ base = Resolved(u, b).taken
    BY <1>4 DEF UpgradeBaselines
  <2>2. CASE c \in Unsigned
    <3>1. b \in Slots
      BY <1>2 DEF IsBundle
    <3>2. SlotOf(base) = b
      BY <2>1, <3>1 DEF Loadable, Resolved, OriginInv, UpTypeInv, DirTypeInv, FilesTyped
    <3>3. PICK measured \in loc[c].basis : SlotOf(measured) = b
      BY <1>2, <2>2 DEF NamesTold
    <3> QED
      BY <2>2, <3>2, <3>3 DEF StandsFor
  <2>3. CASE c \notin Unsigned
    <3>1. b \in DOMAIN raw[k].bases
      BY <1>2, <2>3 DEF NamesTold
    <3>2. {raw[k].bases[d] : d \in DOMAIN raw[k].bases} = loc[c].basis
      BY <2>3 DEF RawRecordIsTrue, BaselineIdentityIsUsed
    <3> QED
      BY <2>1, <2>3, <3>1, <3>2 DEF StandsFor
  <2> QED
    BY <2>2, <2>3
<1> HIDE DEF new, c
<1>5. Faithful(new)
  BY <1>1, <1>2, <1>3, <1>4 DEF Faithful
<1> QED
  BY <1>5 DEF new

LEMMA FaithUpgrade ==
  ASSUME UpTypeInv, OriginInv, FaithInv, RawRecordIsTrue, NEW u \in Upgrades, UpgradeStep(u)
  PROVE  FaithInv'
<1>1. raw' = raw /\ pc' = pc /\ loc' = loc
  BY UpgradeFrame DEF runVars
<1>2. \A s : Faithful(s) => Faithful(s)'
  BY <1>1 DEF Faithful
<1>3. ASSUME NEW v \in Upgrades, NEW k \in DOMAIN up'[v].made \cap Slots
      PROVE  Faithful(up'[v].made[k])
  <2>1. CASE k \in DOMAIN up[v].made \cap Slots /\ up'[v].made[k] = up[v].made[k]
    BY <2>1 DEF FaithInv
  <2>2. CASE raw[k] # NoFile /\ up'[v].made[k] = Regenerated(u, raw[k])
    BY <1>3, <2>2, RegeneratedFaithful
  <2> QED
    BY <1>3, <2>1, <2>2, MadeFromRaw
<1>4. ASSUME NEW k \in Slots, snap'[k] \in Snapshots, snap'[k].tool = 2
      PROVE  Faithful(snap'[k])
  BY <1>4, PlacedFromMade DEF FaithInv
<1> QED
  BY <1>1, <1>2, <1>3, <1>4 DEF FaithInv, Faithful

\* Where raw records tell with what was measured, an upgrade judges nothing with
\* another inventory or baseline; where one holds no identities of its baselines,
\* it judges with measurements of no other slots (upgrade.py, _baselines and
\* _capture_inventory).
THEOREM RegeneratedAreFaithful ==
  UpSpec /\ []RawRecordIsTrue => []RegeneratedIsFaithful
<1>1. UpInit => OriginInv /\ FaithInv
  BY OriginInit, FaithInit
<1>2. UpBase /\ OriginInv /\ FaithInv /\ RawRecordIsTrue /\ [UpNext]_allVars
      => OriginInv' /\ FaithInv'
  BY OriginDir, OriginUpgrade, FaithDir, FaithUpgrade DEF UpBase, UpNext, UpgradeStep, allVars
<1>3. FaithInv => RegeneratedIsFaithful
  BY DEF FaithInv, Faithful, RegeneratedIsFaithful
<1> QED
  BY <1>1, <1>2, <1>3, UpBaseInit, UpBaseStep, PTL DEF UpSpec
=============================================================================
