----------------------------- MODULE RunUpgrade -----------------------------
(***************************************************************************)
(* mig-validate upgrade (raw/upgrade.py) beside the processes of           *)
(* RunDirectory.  An upgrade notes the modification times of a run, loads  *)
(* its manifest, regenerates inventories and snapshots from the raw        *)
(* records without a lock, and swaps in what changed under the lock, file  *)
(* by file, if no modification time has moved meanwhile.                   *)
(*                                                                         *)
(* A modification time is modelled by the content it belongs to: rewriting *)
(* a file with the same content moves the time, and the code then refuses  *)
(* a swap that this model may make.  A torn run.yml has no content: one    *)
(* that was torn when it was noted has been written since, or the load     *)
(* would have failed.  Staged files live in a directory of the upgrade's   *)
(* own and are part of its local state.                                    *)
(***************************************************************************)
EXTENDS RunDirectory, Sequences

CONSTANT Upgrades    \* calls of upgrade_run

ASSUME UpgradesAssumption == Upgrades \cap (Captures \cup {Free}) = {}

VARIABLES
    upc,      \* where each upgrade stands
    up,       \* local variables of each upgrade
    backup    \* backup/upgrade-<time>/ of each upgrade: file to content

upVars == <<upc, up, backup>>
allVars == <<vars, upVars>>

UpRunning == {"stat", "load", "list", "inventories", "records", "swap", "place"}
UpEnded == {"done", "refused", "partial", "crashed"}

\* Files an upgrade may replace: snapshots by slot, inventories by endpoint.
Files == Slots \cup Endpoints
OnDisk(f) == IF f \in Slots THEN snap[f] ELSE inv[f]

UpTypeOK ==
    /\ DirTypeOK
    /\ lock \in Captures \cup Upgrades \cup {Free}
    /\ upc \in [Upgrades -> UpRunning \cup UpEnded \cup {"idle"}]
    /\ \A u \in Upgrades :
         /\ Len(up[u].mark) <= 4
         /\ IsManifest(up[u].man)
         /\ up[u].todo \subseteq Files
         /\ DOMAIN up[u].made \subseteq Files
         /\ up[u].staged \subseteq DOMAIN up[u].made
         /\ up[u].renamed \in BOOLEAN
         /\ DOMAIN backup[u] \subseteq Files

UpInit ==
    /\ DirInit
    /\ upc = [u \in Upgrades |-> "idle"]
    /\ up = [u \in Upgrades |->
               [mark |-> <<>>, man |-> EmptyManifest, todo |-> {}, made |-> <<>>,
                staged |-> {}, renamed |-> FALSE]]
    /\ backup = [u \in Upgrades |-> <<>>]

UpGoto(u, place) == upc' = [upc EXCEPT ![u] = place]

-----------------------------------------------------------------------------
(* Replay, without the lock. *)

\* The four patterns of _fingerprint, in the order they are read.
Fingerprint == <<yml, snap, inv, <<raw, invRaw>>>>

BeginUpgrade(u) ==
    /\ upc[u] = "idle"
    /\ UpGoto(u, IF yml = NoFile THEN "refused" ELSE "stat")
    /\ UNCHANGED <<vars, up, backup>>

StatFiles(u) ==
    /\ upc[u] = "stat"
    /\ up' = [up EXCEPT ![u].mark = Append(@, Fingerprint[Len(@) + 1])]
    /\ UpGoto(u, IF Len(up[u].mark) = 3 THEN "load" ELSE "stat")
    /\ UNCHANGED <<vars, backup>>

LoadRun(u) ==
    /\ upc[u] = "load"
    /\ up' = [up EXCEPT ![u].man = IF Readable THEN Manifest ELSE @]
    /\ UpGoto(u, IF Readable THEN "list" ELSE "refused")
    /\ UNCHANGED <<vars, backup>>

ListInventories(u) ==
    /\ upc[u] = "list"
    /\ up' = [up EXCEPT ![u].todo = {e \in Endpoints : inv[e] # NoFile}]
    /\ UpGoto(u, "inventories")
    /\ UNCHANGED <<vars, backup>>

\* An inventory is regenerated from its raw record; whether the result differs
\* is up to the parsers.
RegenerateInventory(u, e) ==
    /\ upc[u] = "inventories"
    /\ invRaw[e] # NoFile
    /\ \E changed \in SUBSET {e} :
         up' = [up EXCEPT ![u].todo = @ \ {e},
                          ![u].made = Assign(@, e, invRaw[e]),
                          ![u].staged = @ \cup changed]
    /\ UNCHANGED <<vars, upc, backup>>

\* Mutant of RefuseFile: a refused file is staged all the same.
RefuseFileStaged(u, f) ==
    /\ upc[u] \in {"inventories", "records"}
    /\ up' = [up EXCEPT ![u].todo = @ \ {f}, ![u].staged = @ \cup {f}]
    /\ UNCHANGED <<vars, upc, backup>>

\* No raw record, or one that cannot be read or replayed.
RefuseFile(u, f) ==
    /\ upc[u] \in {"inventories", "records"}
    /\ up' = [up EXCEPT ![u].todo = @ \ {f}]
    /\ UNCHANGED <<vars, upc, backup>>

ListRecords(u) ==
    /\ upc[u] = "inventories"
    /\ up[u].todo = {}
    /\ up' = [up EXCEPT ![u].todo = DOMAIN up[u].man.captures]
    /\ UpGoto(u, "records")
    /\ UNCHANGED <<vars, backup>>

\* A baseline is the snapshot regenerated just now, else the one on disk.
Resolved(u, k) == IF k \in DOMAIN up[u].made THEN up[u].made[k] ELSE snap[k]
Loadable(u, k) == Resolved(u, k) \notin {NoFile, Torn}

\* Mutant of UpgradeBaselines: whatever is the baseline today is used.
UpgradeBaselinesAny(u, bundle) ==
    {Resolved(u, k).taken : k \in {b \in bundle.names : Loadable(u, b)}}

\* _baselines: those the capture names and whose identity is the one it recorded.
\* Of a baseline without a recorded identity, today's measurement is used.
UpgradeBaselines(u, bundle) ==
    {Resolved(u, k).taken : k \in {b \in bundle.names :
        /\ Loadable(u, b)
        /\ b \in DOMAIN bundle.bases => Resolved(u, b).taken = bundle.bases[b]}}

Regenerated(u, bundle) ==
    [taken |-> bundle.taken, tool |-> 2, basis |-> UpgradeBaselines(u, bundle),
     inventory |-> bundle.inventory]

\* Post captures come last.
Due(u, k) == k.phase = "post" => \A other \in up[u].todo : other.phase = "post"

\* Mutant of BelongsTo: a raw record of another measurement is accepted.
AnyRaw(u, k) == raw[k] # NoFile

\* The raw record is of the recorded measurement (RAW_MISMATCH otherwise).
BelongsTo(u, k) == raw[k] # NoFile /\ raw[k].taken = up[u].man.captures[k]

RegenerateCapture(u, k) ==
    /\ upc[u] = "records"
    /\ Due(u, k)
    /\ BelongsTo(u, k)
    /\ LET new == Regenerated(u, raw[k])
       IN  up' = [up EXCEPT ![u].todo = @ \ {k},
                            ![u].made = Assign(@, k, new),
                            ![u].staged = IF snap[k] = new THEN @ ELSE @ \cup {k}]
    /\ UNCHANGED <<vars, upc, backup>>

\* A fault of the tool itself ends the upgrade and changes nothing.
ReplayFails(u) ==
    /\ upc[u] \in {"inventories", "records"}
    /\ up[u].todo # {}
    /\ UpGoto(u, "refused")
    /\ UNCHANGED <<vars, up, backup>>

NothingChanged(u) ==
    /\ upc[u] = "records"
    /\ up[u].todo = {}
    /\ up[u].staged = {}
    /\ UpGoto(u, "done")
    /\ UNCHANGED <<vars, up, backup>>

-----------------------------------------------------------------------------
(* The swap, under the lock. *)

Unmoved(u) == up[u].mark[1] # Torn /\ Fingerprint = up[u].mark

\* Mutant of LockForSwap: the run is not compared with what was read.
LockForSwapUnchecked(u) ==
    /\ upc[u] = "records"
    /\ up[u].todo = {}
    /\ up[u].staged # {}
    /\ lock = Free
    /\ lock' = u
    /\ UpGoto(u, "swap")
    /\ UNCHANGED <<disk, pc, loc, scratch, editVars, crashes, up, backup>>

LockForSwap(u) ==
    /\ upc[u] = "records"
    /\ up[u].todo = {}
    /\ up[u].staged # {}
    /\ lock = Free
    /\ Unmoved(u)
    /\ lock' = u
    /\ UpGoto(u, "swap")
    /\ UNCHANGED <<disk, pc, loc, scratch, editVars, crashes, up, backup>>

\* RUN_CHANGED.
RunChanged(u) ==
    /\ upc[u] = "records"
    /\ up[u].todo = {}
    /\ up[u].staged # {}
    /\ lock = Free
    /\ ~Unmoved(u)
    /\ UpGoto(u, "refused")
    /\ UNCHANGED <<vars, up, backup>>

Put(f, content) ==
    IF f \in Slots
    THEN snap' = [snap EXCEPT ![f] = content] /\ UNCHANGED inv
    ELSE inv' = [inv EXCEPT ![f] = content] /\ UNCHANGED snap

\* Mutant of MoveToBackup: the original is not kept.
Discard(u) ==
    /\ upc[u] = "swap"
    /\ \E f \in up[u].staged :
         /\ Put(f, NoFile)
         /\ up' = [up EXCEPT ![u].todo = {f}]
    /\ UpGoto(u, "place")
    /\ UNCHANGED <<yml, raw, invRaw, lock, pc, loc, scratch, editVars, crashes, backup>>

\* os.replace of the original into the backup directory, if there is one.
MoveToBackup(u) ==
    /\ upc[u] = "swap"
    /\ \E f \in up[u].staged :
         /\ IF OnDisk(f) = NoFile
            THEN UNCHANGED <<snap, inv, backup>>
            ELSE /\ Put(f, NoFile)
                 /\ backup' = [backup EXCEPT ![u] = Assign(@, f, OnDisk(f))]
         /\ up' = [up EXCEPT ![u].todo = {f}, ![u].renamed = @ \/ OnDisk(f) # NoFile]
    /\ UpGoto(u, "place")
    /\ UNCHANGED <<yml, raw, invRaw, lock, pc, loc, scratch, editVars, crashes>>

\* os.replace of the staged file into its place.
PlaceStaged(u) ==
    /\ upc[u] = "place"
    /\ \E f \in up[u].todo :
         /\ Put(f, up[u].made[f])
         /\ up' = [up EXCEPT ![u].todo = {}, ![u].staged = @ \ {f}, ![u].renamed = TRUE]
    /\ UpGoto(u, "swap")
    /\ UNCHANGED <<yml, raw, invRaw, lock, pc, loc, scratch, editVars, crashes, backup>>

\* Mutant of SwapFails: the lock outlives the failure.
SwapFailsLocked(u) ==
    /\ upc[u] \in {"swap", "place"}
    /\ up[u].staged # {}
    /\ UpGoto(u, IF up[u].renamed THEN "partial" ELSE "refused")
    /\ UNCHANGED <<vars, up, backup>>

\* An OSError ends the swap where it is.
SwapFails(u) ==
    /\ DiskFails
    /\ upc[u] \in {"swap", "place"}
    /\ up[u].staged # {}
    /\ UpGoto(u, IF up[u].renamed THEN "partial" ELSE "refused")
    /\ Unlock
    /\ UNCHANGED <<disk, pc, loc, scratch, editVars, crashes, up, backup>>

\* The modification time of run.yml is moved for the caches of the GUI.
FinishSwap(u) ==
    /\ upc[u] = "swap"
    /\ up[u].staged = {}
    /\ Unlock
    /\ UpGoto(u, "done")
    /\ UNCHANGED <<disk, pc, loc, scratch, editVars, crashes, up, backup>>

UpContinue(u) ==
    \/ StatFiles(u)
    \/ LoadRun(u)
    \/ ListInventories(u)
    \/ \E f \in up[u].todo :
         RegenerateInventory(u, f) \/ RefuseFile(u, f) \/ RegenerateCapture(u, f)
    \/ ListRecords(u)
    \/ ReplayFails(u)
    \/ NothingChanged(u)
    \/ LockForSwap(u)
    \/ RunChanged(u)
    \/ MoveToBackup(u)
    \/ PlaceStaged(u)
    \/ SwapFails(u)
    \/ FinishSwap(u)

UpCrash(u) ==
    /\ upc[u] \in UpRunning
    /\ crashes < MaxCrashes
    /\ crashes' = crashes + 1
    /\ UpGoto(u, "crashed")
    /\ lock' = IF lock = u THEN Free ELSE lock
    /\ UNCHANGED <<disk, pc, loc, scratch, editVars, up, backup>>

UpNext ==
    \/ DirNext /\ UNCHANGED upVars
    \/ \E u \in Upgrades : BeginUpgrade(u) \/ UpContinue(u) \/ UpCrash(u)

UpSpec == UpInit /\ [][UpNext]_allVars

\* Replay reads finitely many files and the lock is held around a few renames.
UpFairness ==
    /\ \A c \in Captures : WF_allVars(Continue(c) /\ UNCHANGED upVars)
    /\ \A u \in Upgrades : WF_allVars(UpContinue(u))

FairUpSpec == UpSpec /\ UpFairness

-----------------------------------------------------------------------------
(* Properties. *)

\* A recorded measurement lies in its place or in a backup, however the swap
\* fails or dies and whatever is captured meanwhile (upgrade.py, _swap).
RecordedNotLost ==
    yml # Torn =>
        \A k \in DOMAIN Manifest.captures :
            \/ snap[k] \in Snapshots /\ snap[k].taken = Manifest.captures[k]
            \/ Replacing(k)
            \/ \E u \in Upgrades :
                 k \in DOMAIN backup[u] /\ backup[u][k].taken = Manifest.captures[k]

\* A swap puts in place nothing but the measurement that run.yml records at
\* that moment: a capture that was recorded during the replay is never
\* overwritten by an older one (upgrade.py, the fingerprint).
SwapKeepsRecorded ==
    [][\A k \in Slots :
         snap'[k] # snap[k] /\ snap'[k] \in Snapshots /\ snap'[k].tool = 2
            => /\ yml # Torn
               /\ k \in DOMAIN Manifest.captures
               /\ Manifest.captures[k] = snap'[k].taken]_allVars

\* A baseline of a capture, or what stands for it in a regenerated snapshot: the
\* measurement itself, or any of its slot where no identity was recorded.
StandsFor(base, measured, c) ==
    IF c \in Unsigned THEN SlotOf(base) = SlotOf(measured) ELSE base = measured

\* A regenerated snapshot is judged with nothing the capture did not measure
\* with: its inventory is the capture's, and each of its baselines is one of the
\* capture's, or, for a raw record without identities, today's measurement of one
\* of the same slots (upgrade.py, _baselines and _capture_inventory).
RegeneratedIsFaithful ==
    \A k \in Slots :
        snap[k] \in Snapshots /\ snap[k].tool = 2 =>
            /\ \A base \in snap[k].basis :
                 \E measured \in loc[snap[k].taken].basis :
                     StandsFor(base, measured, snap[k].taken)
            /\ snap[k].inventory = loc[snap[k].taken].used

\* Every upgrade that has begun ends, and so does every capture that waits for
\* the lock it holds (store.py, lock).
ProcessesEnd ==
    /\ \A u \in Upgrades : upc[u] \in UpRunning ~> upc[u] \in UpEnded
    /\ \A c \in Captures : pc[c] \in Running ~> pc[c] \in Ended
=============================================================================
