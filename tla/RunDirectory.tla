---------------------------- MODULE RunDirectory ----------------------------
(***************************************************************************)
(* The directory of one run and the processes that write it                *)
(* (runs/orchestrate.py, runs/store.py, raw/bundle.py, api.update_mapping  *)
(* and `capture --maps-to` of cli.py).                                     *)
(*                                                                         *)
(* A capture reads run.yml and the baselines without a lock, talks to the  *)
(* device for minutes, and then, under the lock of the run, reloads        *)
(* run.yml, replaces the snapshot and its raw record and writes run.yml    *)
(* back.  An edit of the mapping loads and writes run.yml without any      *)
(* lock.  Files are truncated and then written, so a reader may find them  *)
(* torn; a process may die between two steps and the kernel then frees its *)
(* lock.                                                                   *)
(*                                                                         *)
(* A measurement is identified by the capture that took it: `taken` and    *)
(* started_at are that identity.                                           *)
(***************************************************************************)
EXTENDS RunManifest

CONSTANTS
    Captures,        \* calls of capture_into_run
    Job,             \* parameters of each: phase, node, port, overwrite, inventory
    Editors,         \* calls that edit the mapping
    Edit,            \* what each asks for
    Stored,          \* endpoints with an inventory written by hand
    Start,           \* run.yml at the start, or NoFile
    Unsigned,        \* past captures whose raw record holds no identity of its baselines
    DiskFails,       \* TRUE: removing and writing raw records may fail
    MaxCrashes,      \* bound on processes that die
    NoFile, Torn,    \* no such file; a file that is truncated or garbled
    ByHand,          \* author of an inventory no capture made
    Given,           \* an inventory outside the run (--inventory)
    Free             \* nobody holds the lock

ASSUME JobAssumption ==
    Job \in [Captures -> [phase : Phases, node : Nodes, port : Ports \cup {AllPorts},
                          overwrite : BOOLEAN, inventory : {"parse", "stored", "given"}]]

ASSUME FilesAssumption ==
    /\ {NoFile, Torn, Free, ByHand, Given} \cap (Captures \cup Endpoints) = {}
    /\ NoFile # Torn /\ ByHand # NoFile
ASSUME EditAssumption ==
    LET AnyPort == Ports \cup {AllPorts}
    IN  \A e \in Editors :
          \/ Edit[e].kind = "set" /\ Edit[e].ports \subseteq [old : AnyPort, new : AnyPort]
          \/ Edit[e].kind = "add" /\ Edit[e].pair \in Pairs

SlotOf(c) == Slot(Job[c].phase, Job[c].node, Job[c].port)

Baselines(m, c) ==
    IF Job[c].phase = "post" THEN BaselineSlots(m, Job[c].node, Job[c].port) ELSE {}

IsManifest(m) ==
    /\ DOMAIN m = {"kind", "devices", "mapping", "captures"}
    /\ m.kind \in Kinds
    /\ DOMAIN m.devices \subseteq Nodes
    /\ \A n \in DOMAIN m.devices : m.devices[n] \in Roles
    /\ m.mapping \subseteq Pairs
    /\ DOMAIN m.captures \subseteq Slots
    /\ \A k \in DOMAIN m.captures : m.captures[k] \in Captures

\* What load_manifest and add_mapping ask of it.
Consistent(m) == CheckKindDevices(m.kind, m.devices) /\ PairsOnce(m.mapping)

ASSUME StartAssumption ==
    Start # NoFile =>
        /\ IsManifest(Start)
        /\ Consistent(Start)
        /\ \A k \in DOMAIN Start.captures :
             SlotOf(Start.captures[k]) = k /\ k.node \in DOMAIN Start.devices

ASSUME CrashAssumption == MaxCrashes \in Nat

VARIABLES
    yml,      \* run.yml: a manifest, NoFile or Torn
    snap,     \* snapshot file of every slot
    raw,      \* raw record of every slot's snapshot
    inv,      \* inventory file of every endpoint: who wrote it
    invRaw,   \* raw record of every inventory
    scratch,  \* .tmp-<inventory> of every endpoint: who wrote it
    lock,     \* holder of runs/<run>/.lock
    pc,       \* where each capture stands
    loc,      \* local variables of each capture
    epc,      \* where each edit stands
    eman,     \* manifest each edit holds
    crashes   \* processes that have died

disk == <<yml, snap, raw, inv, invRaw>>
editVars == <<epc, eman>>
vars == <<disk, scratch, lock, pc, loc, editVars, crashes>>

Running == {"connect", "parsed", "dropInvRaw", "replaceInv", "writeInvRaw", "inventory",
            "baselines", "measured", "wrapped", "locked", "truncate", "write", "bundle",
            "record", "saving"}
Ended == {"done", "failed", "crashed"}
\* Steps of a capture made under the lock.
Locked == {"dropInvRaw", "replaceInv", "writeInvRaw",
           "locked", "truncate", "write", "bundle", "record", "saving"}

Snapshots == [taken : Captures, tool : {1, 2}, basis : SUBSET Captures,
              inventory : Captures \cup {ByHand, Given}]

ASSUME SnapshotAssumption == {NoFile, Torn} \cap Snapshots = {}

\* A raw record: the measurement, the baselines it names, the identity of each
\* (none in a record that an older version wrote) and the inventory.
IsBundle(b) ==
    /\ DOMAIN b = {"taken", "names", "bases", "inventory"}
    /\ b.taken \in Captures
    /\ b.names \subseteq Slots
    /\ DOMAIN b.bases \subseteq b.names
    /\ \A k \in DOMAIN b.bases : b.bases[k] \in Captures
    /\ b.inventory \in Captures \cup {ByHand, Given}

DirTypeOK ==
    /\ yml \in {NoFile, Torn} \/ IsManifest(yml)
    /\ DOMAIN snap = Slots
    /\ \A k \in Slots : snap[k] \in {NoFile, Torn} \/ snap[k] \in Snapshots
    /\ DOMAIN raw = Slots
    /\ \A k \in Slots : raw[k] = NoFile \/ IsBundle(raw[k])
    /\ inv \in [Endpoints -> Captures \cup {NoFile, ByHand}]
    /\ invRaw \in [Endpoints -> Captures \cup {NoFile}]
    /\ scratch \in [Endpoints -> Captures \cup {NoFile}]
    /\ pc \in [Captures -> Running \cup Ended \cup {"idle"}]
    /\ \A c \in Captures :
         /\ IsManifest(loc[c].man)
         /\ loc[c].key \in Endpoints \cup {Given}
         /\ loc[c].used \in Captures \cup {ByHand, Given, NoFile}
         /\ loc[c].hasRaw \in BOOLEAN
         /\ loc[c].todo \subseteq Slots
         /\ loc[c].basis \subseteq Captures
    /\ epc \in [Editors -> {"idle", "loaded", "saving", "done", "refused"}]
    /\ \A e \in Editors : IsManifest(eman[e])
    /\ crashes \in 0..MaxCrashes

OwnEndpoint(c) == [node |-> Job[c].node, port |-> Job[c].port]
BoxEndpoint(c) == [node |-> Job[c].node, port |-> AllPorts]

\* Captures that run.yml records at the start; the inventory each used and left,
\* its own with --parse-services, else one from outside the run; its baselines.
Past == IF Start = NoFile THEN <<>> ELSE Start.captures
IsPast(c) == \E k \in DOMAIN Past : Past[k] = c
PastInventory(c) == IF Job[c].inventory = "parse" THEN c ELSE Given
PastParsers(e) ==
    {c \in Captures : IsPast(c) /\ Job[c].inventory = "parse" /\ OwnEndpoint(c) = e}
PastBaselines(c) == IF IsPast(c) THEN Baselines(Start, c) ELSE {}
PastBasis(c) == {Past[b] : b \in PastBaselines(c)}
PastIdentities(c) == IF c \in Unsigned THEN <<>> ELSE [b \in PastBaselines(c) |-> Past[b]]

ASSUME UnsignedAssumption == \A c \in Unsigned : c \in Captures /\ IsPast(c)

DirInit ==
    /\ yml = Start
    /\ snap = [k \in Slots |->
                 IF k \in DOMAIN Past
                 THEN [taken |-> Past[k], tool |-> 1, basis |-> PastBasis(Past[k]),
                       inventory |-> PastInventory(Past[k])]
                 ELSE NoFile]
    /\ raw = [k \in Slots |->
                IF k \in DOMAIN Past
                THEN [taken |-> Past[k], names |-> PastBaselines(Past[k]),
                      bases |-> PastIdentities(Past[k]),
                      inventory |-> PastInventory(Past[k])]
                ELSE NoFile]
    /\ inv = [e \in Endpoints |->
                IF PastParsers(e) # {} THEN CHOOSE c \in PastParsers(e) : TRUE
                ELSE IF e \in Stored THEN ByHand ELSE NoFile]
    /\ invRaw = [e \in Endpoints |-> IF PastParsers(e) # {} THEN inv[e] ELSE NoFile]
    /\ scratch = [e \in Endpoints |-> NoFile]
    /\ lock = Free
    /\ pc = [c \in Captures |-> IF IsPast(c) THEN "done" ELSE "idle"]
    /\ loc = [c \in Captures |->
                [man |-> EmptyManifest, key |-> OwnEndpoint(c),
                 used |-> IF IsPast(c) THEN PastInventory(c) ELSE NoFile,
                 hasRaw |-> FALSE, todo |-> {}, bases |-> <<>>, basis |-> PastBasis(c)]]
    /\ epc = [e \in Editors |-> "idle"]
    /\ eman = [e \in Editors |-> EmptyManifest]
    /\ crashes = 0

-----------------------------------------------------------------------------
(* Steps every capture is made of. *)

\* RunStore.load, of a run.yml that can be read.
Readable == yml # Torn
Manifest == IF yml = NoFile THEN EmptyManifest ELSE yml

Goto(c, place) == pc' = [pc EXCEPT ![c] = place]
Unlock == lock' = Free
Fail(c) == Goto(c, "failed") /\ UNCHANGED <<disk, loc, scratch, editVars, crashes>>

\* What write_text leaves when the file was truncated, unless another writer
\* has filled it since: then the shorter text leaves the tail of the longer.
Filled(m) == IF yml = Torn THEN {m} ELSE {m, Torn}

-----------------------------------------------------------------------------
(* Before the measurement: run.yml, inventory and baselines. *)

\* The checks made on the manifest a capture starts from.
Accepts(m, c) ==
    /\ m.kind = "single" => Job[c].node \in DOMAIN m.devices
    /\ Job[c].phase = "pre" /\ ~Job[c].overwrite => SlotOf(c) \notin DOMAIN m.captures

LoadManifest(c) ==
    /\ pc[c] = "idle"
    /\ Readable
    /\ Accepts(Manifest, c)
    /\ loc' = [loc EXCEPT ![c].man = Manifest, ![c].todo = Baselines(Manifest, c)]
    /\ Goto(c, IF Job[c].inventory = "parse" THEN "connect" ELSE "inventory")
    /\ UNCHANGED <<disk, lock, scratch, editVars, crashes>>

RefuseCapture(c) ==
    /\ pc[c] = "idle"
    /\ Readable => ~Accepts(Manifest, c)
    /\ Fail(c)
    /\ UNCHANGED lock

\* --inventory, else the inventory of the port, else the one of the box.
FindInventory(c) ==
    /\ pc[c] = "inventory"
    /\ LET found == {e \in {OwnEndpoint(c), BoxEndpoint(c)} : inv[e] # NoFile}
           key   == IF OwnEndpoint(c) \in found THEN OwnEndpoint(c) ELSE BoxEndpoint(c)
       IN  IF Job[c].inventory = "given" \/ found # {}
           THEN /\ loc' = [loc EXCEPT ![c].key =
                             IF Job[c].inventory = "given" THEN Given ELSE key]
                /\ Goto(c, "baselines")
                /\ UNCHANGED <<disk, scratch, editVars, crashes>>
           ELSE Fail(c)
    /\ UNCHANGED lock

\* --parse-services reads the configuration in a session of its own into a
\* scratch file that all captures of the endpoint share.
ParseServices(c) ==
    /\ pc[c] = "connect"
    /\ scratch' = [scratch EXCEPT ![OwnEndpoint(c)] = c]
    /\ Goto(c, "parsed")
    /\ UNCHANGED <<disk, lock, loc, editVars, crashes>>

\* Every way out of _parse_services removes the scratch file, whoever wrote it.
DropScratch(c) == scratch' = [scratch EXCEPT ![OwnEndpoint(c)] = NoFile]

ParseFails(c) ==
    /\ pc[c] = "connect"
    /\ DropScratch(c)
    /\ Goto(c, "failed")
    /\ UNCHANGED <<disk, lock, loc, editVars, crashes>>

ParseLock(c) ==
    /\ pc[c] = "parsed"
    /\ lock = Free
    /\ lock' = c
    /\ Goto(c, "dropInvRaw")
    /\ UNCHANGED <<disk, loc, scratch, editVars, crashes>>

\* Mutant of DropInventoryRaw: the new raw record is written first.
WriteInventoryRawFirst(c) ==
    /\ pc[c] = "dropInvRaw"
    /\ invRaw' = [invRaw EXCEPT ![OwnEndpoint(c)] = c]
    /\ Goto(c, "replaceInv")
    /\ UNCHANGED <<yml, snap, raw, inv, lock, loc, scratch, editVars, crashes>>

\* The raw record of the old inventory goes before the inventory does.
DropInventoryRaw(c) ==
    /\ pc[c] = "dropInvRaw"
    /\ invRaw' = [invRaw EXCEPT ![OwnEndpoint(c)] = NoFile]
    /\ Goto(c, "replaceInv")
    /\ UNCHANGED <<yml, snap, raw, inv, lock, loc, scratch, editVars, crashes>>

\* An error of that removal propagates.
DropInventoryRawFails(c) ==
    /\ pc[c] = "dropInvRaw"
    /\ DiskFails
    /\ invRaw[OwnEndpoint(c)] # NoFile
    /\ \E left \in {NoFile, invRaw[OwnEndpoint(c)]} :
         invRaw' = [invRaw EXCEPT ![OwnEndpoint(c)] = left]
    /\ DropScratch(c)
    /\ Goto(c, "failed")
    /\ Unlock
    /\ UNCHANGED <<yml, snap, raw, inv, loc, editVars, crashes>>

\* os.replace of the scratch file, whose content may be another capture's.
ReplaceInventory(c) ==
    /\ pc[c] = "replaceInv"
    /\ scratch[OwnEndpoint(c)] # NoFile
    /\ inv' = [inv EXCEPT ![OwnEndpoint(c)] = scratch[OwnEndpoint(c)]]
    /\ DropScratch(c)
    /\ Goto(c, "writeInvRaw")
    /\ UNCHANGED <<yml, snap, raw, invRaw, lock, loc, editVars, crashes>>

\* Another capture has replaced or removed it.
ScratchMissing(c) ==
    /\ pc[c] = "replaceInv"
    /\ scratch[OwnEndpoint(c)] = NoFile
    /\ Fail(c)
    /\ Unlock

\* Best effort: a failure leaves the inventory without a raw record.
WriteInventoryRaw(c) ==
    /\ pc[c] = "writeInvRaw"
    /\ \E written \in {c} \cup (IF DiskFails THEN {NoFile} ELSE {}) :
         invRaw' = [invRaw EXCEPT ![OwnEndpoint(c)] = written]
    /\ DropScratch(c)
    /\ Unlock
    /\ Goto(c, "baselines")
    /\ UNCHANGED <<yml, snap, raw, inv, loc, editVars, crashes>>

\* A baseline is what its file holds now; its recorded identity is what
\* run.yml said when the capture began.
LoadBaseline(c) ==
    /\ pc[c] = "baselines"
    /\ \E k \in loc[c].todo :
         IF snap[k] \in {NoFile, Torn}
         THEN Fail(c)
         ELSE /\ loc' = [loc EXCEPT ![c].todo = @ \ {k},
                                    ![c].basis = @ \cup {snap[k].taken},
                                    ![c].bases = Assign(@, k, loc[c].man.captures[k])]
              /\ UNCHANGED <<disk, pc, scratch, editVars, crashes>>
    /\ UNCHANGED lock

-----------------------------------------------------------------------------
(* The measurement. *)

\* Author of the inventory file a capture uses, as it is now.
Author(c) == IF loc[c].key = Given THEN Given ELSE inv[loc[c].key]

Measure(c) ==
    /\ pc[c] = "baselines"
    /\ loc[c].todo = {}
    /\ IF Author(c) = NoFile
       THEN Fail(c)
       ELSE /\ loc' = [loc EXCEPT ![c].used = Author(c)]
            /\ Goto(c, "measured")
            /\ UNCHANGED <<disk, scratch, editVars, crashes>>
    /\ UNCHANGED lock

\* The session with the device fails.
SessionFails(c) ==
    /\ pc[c] = "baselines"
    /\ loc[c].todo = {}
    /\ Fail(c)
    /\ UNCHANGED lock

\* Whether the inventory has a raw record is read before the lock is taken.
WrapSession(c) ==
    /\ pc[c] = "measured"
    /\ loc' = [loc EXCEPT ![c].hasRaw = loc[c].key # Given /\ invRaw[loc[c].key] # NoFile]
    /\ Goto(c, "wrapped")
    /\ UNCHANGED <<disk, lock, scratch, editVars, crashes>>

-----------------------------------------------------------------------------
(* Under the lock. *)

\* Mutant of LockRun: the manifest loaded before the measurement is kept.
LockRunStale(c) ==
    /\ pc[c] = "wrapped"
    /\ lock = Free
    /\ Readable
    /\ lock' = c
    /\ loc' = [loc EXCEPT ![c].man = WithDevice(@, Job[c].node, Job[c].phase)]
    /\ Goto(c, "locked")
    /\ UNCHANGED <<disk, scratch, editVars, crashes>>

LockRun(c) ==
    /\ pc[c] = "wrapped"
    /\ lock = Free
    /\ Readable
    /\ lock' = c
    /\ loc' = [loc EXCEPT ![c].man = WithDevice(Manifest, Job[c].node, Job[c].phase)]
    /\ Goto(c, "locked")
    /\ UNCHANGED <<disk, scratch, editVars, crashes>>

\* run.yml cannot be read when the lock is held: the measurement is lost.
ReloadFails(c) ==
    /\ pc[c] = "wrapped"
    /\ lock = Free
    /\ ~Readable
    /\ Fail(c)
    /\ UNCHANGED lock

\* A raw record that cannot be removed stays; the measurement goes on.
DropRaw(c) ==
    /\ pc[c] = "locked"
    /\ \E left \in {NoFile} \cup (IF DiskFails THEN {raw[SlotOf(c)]} ELSE {}) :
         raw' = [raw EXCEPT ![SlotOf(c)] = left]
    /\ Goto(c, "truncate")
    /\ UNCHANGED <<yml, snap, inv, invRaw, lock, loc, scratch, editVars, crashes>>

TruncateSnapshot(c) ==
    /\ pc[c] = "truncate"
    /\ snap' = [snap EXCEPT ![SlotOf(c)] = Torn]
    /\ Goto(c, "write")
    /\ UNCHANGED <<yml, raw, inv, invRaw, lock, loc, scratch, editVars, crashes>>

\* Mutant of SaveSnapshot: the port is left out of the file name.
SaveSnapshotOfBox(c) ==
    /\ pc[c] = "write"
    /\ snap' = [snap EXCEPT ![Slot(Job[c].phase, Job[c].node, AllPorts)] =
                  [taken |-> c, tool |-> 1, basis |-> loc[c].basis,
                   inventory |-> loc[c].used]]
    /\ Goto(c, "bundle")
    /\ UNCHANGED <<yml, raw, inv, invRaw, lock, loc, scratch, editVars, crashes>>

SaveSnapshot(c) ==
    /\ pc[c] = "write"
    /\ snap' = [snap EXCEPT ![SlotOf(c)] =
                  [taken |-> c, tool |-> 1, basis |-> loc[c].basis,
                   inventory |-> loc[c].used]]
    /\ Goto(c, "bundle")
    /\ UNCHANGED <<yml, raw, inv, invRaw, lock, loc, scratch, editVars, crashes>>

\* The inventory that goes into the raw record is the one on disk now: its raw
\* record if it had one before the lock, else its YAML.
Copied(c) == IF loc[c].hasRaw THEN invRaw[loc[c].key] ELSE Author(c)

WriteRaw(c) ==
    /\ pc[c] = "bundle"
    /\ \/ /\ Copied(c) # NoFile
          /\ raw' = [raw EXCEPT ![SlotOf(c)] =
                       [taken |-> c, names |-> DOMAIN loc[c].bases, bases |-> loc[c].bases,
                        inventory |-> Copied(c)]]
       \/ /\ DiskFails \/ Copied(c) = NoFile
          /\ \E left \in {NoFile} \cup (IF DiskFails THEN {raw[SlotOf(c)]} ELSE {}) :
               raw' = [raw EXCEPT ![SlotOf(c)] = left]
    /\ Goto(c, "record")
    /\ UNCHANGED <<yml, snap, inv, invRaw, lock, loc, scratch, editVars, crashes>>

\* Mutant of RecordAndSave: the devices are not checked again.
RecordUnchecked(c) ==
    /\ pc[c] = "record"
    /\ loc' = [loc EXCEPT ![c].man = RecordCapture(@, SlotOf(c), c)]
    /\ yml' = Torn
    /\ Goto(c, "saving")
    /\ UNCHANGED <<snap, raw, inv, invRaw, lock, scratch, editVars, crashes>>

\* record_capture and save_manifest up to the truncation of run.yml.
RecordAndSave(c) ==
    /\ pc[c] = "record"
    /\ CheckKindDevices(loc[c].man.kind, loc[c].man.devices)
    /\ loc' = [loc EXCEPT ![c].man = RecordCapture(@, SlotOf(c), c)]
    /\ yml' = Torn
    /\ Goto(c, "saving")
    /\ UNCHANGED <<snap, raw, inv, invRaw, lock, scratch, editVars, crashes>>

\* Mutant of SaveRefused: the lock is not released on the way out.
SaveRefusedLocked(c) ==
    /\ pc[c] = "record"
    /\ ~CheckKindDevices(loc[c].man.kind, loc[c].man.devices)
    /\ Fail(c)
    /\ UNCHANGED lock

\* Mutant of SaveRefused: run.yml is opened before the devices are checked.
SaveRefusedTorn(c) ==
    /\ pc[c] = "record"
    /\ ~CheckKindDevices(loc[c].man.kind, loc[c].man.devices)
    /\ yml' = Torn
    /\ Unlock
    /\ Goto(c, "failed")
    /\ UNCHANGED <<snap, raw, inv, invRaw, loc, scratch, editVars, crashes>>

\* save_manifest raises: the box does not fit the run.  The snapshot stays.
SaveRefused(c) ==
    /\ pc[c] = "record"
    /\ ~CheckKindDevices(loc[c].man.kind, loc[c].man.devices)
    /\ Fail(c)
    /\ Unlock

FinishSave(c) ==
    /\ pc[c] = "saving"
    /\ yml' \in Filled(loc[c].man)
    /\ Unlock
    /\ Goto(c, "done")
    /\ UNCHANGED <<snap, raw, inv, invRaw, loc, scratch, editVars, crashes>>

Begin(c) == LoadManifest(c) \/ RefuseCapture(c)

Continue(c) ==
    \/ FindInventory(c)
    \/ ParseServices(c)
    \/ ParseFails(c)
    \/ ParseLock(c)
    \/ DropInventoryRaw(c)
    \/ DropInventoryRawFails(c)
    \/ ReplaceInventory(c)
    \/ ScratchMissing(c)
    \/ WriteInventoryRaw(c)
    \/ LoadBaseline(c)
    \/ Measure(c)
    \/ SessionFails(c)
    \/ WrapSession(c)
    \/ LockRun(c)
    \/ ReloadFails(c)
    \/ DropRaw(c)
    \/ TruncateSnapshot(c)
    \/ SaveSnapshot(c)
    \/ WriteRaw(c)
    \/ RecordAndSave(c)
    \/ SaveRefused(c)
    \/ FinishSave(c)

\* The process dies; the kernel frees its lock.
Crash(c) ==
    /\ pc[c] \in Running
    /\ crashes < MaxCrashes
    /\ crashes' = crashes + 1
    /\ Goto(c, "crashed")
    /\ lock' = IF lock = c THEN Free ELSE lock
    /\ UNCHANGED <<disk, scratch, loc, editVars>>

-----------------------------------------------------------------------------
(* An edit of the mapping: PUT .../mapping asks for a whole list of port     *)
(* pairs ("set"), capture --maps-to for one pair more ("add").               *)

CanEdit(e, m) ==
    IF Edit[e].kind = "set"
    THEN CanUpdateMapping(m, Edit[e].ports)
    ELSE CanAddMapping(m.mapping, Edit[e].pair)

Edited(e, m) ==
    [m EXCEPT !.mapping = IF Edit[e].kind = "set"
                          THEN RolesMapped(m, Edit[e].ports)
                          ELSE @ \cup {Edit[e].pair}]

\* Mutant of LoadForEdit: an old port may be paired twice.
LoadForEditUnchecked(e) ==
    /\ epc[e] = "idle"
    /\ Readable
    /\ yml # NoFile
    /\ eman' = [eman EXCEPT ![e] = Edited(e, Manifest)]
    /\ epc' = [epc EXCEPT ![e] = "loaded"]
    /\ UNCHANGED <<disk, scratch, lock, pc, loc, crashes>>

LoadForEdit(e) ==
    /\ epc[e] = "idle"
    /\ Readable
    /\ yml # NoFile
    /\ CanEdit(e, Manifest)
    /\ eman' = [eman EXCEPT ![e] = Edited(e, Manifest)]
    /\ epc' = [epc EXCEPT ![e] = "loaded"]
    /\ UNCHANGED <<disk, scratch, lock, pc, loc, crashes>>

RefuseEdit(e) ==
    /\ epc[e] = "idle"
    /\ Readable /\ yml # NoFile => ~CanEdit(e, Manifest)
    /\ epc' = [epc EXCEPT ![e] = "refused"]
    /\ UNCHANGED <<disk, scratch, lock, pc, loc, eman, crashes>>

\* save_manifest, up to the truncation of run.yml.
SaveEdit(e) ==
    /\ epc[e] = "loaded"
    /\ yml' = Torn
    /\ epc' = [epc EXCEPT ![e] = "saving"]
    /\ UNCHANGED <<snap, raw, inv, invRaw, scratch, lock, pc, loc, eman, crashes>>

FinishEdit(e) ==
    /\ epc[e] = "saving"
    /\ yml' \in Filled(eman[e])
    /\ epc' = [epc EXCEPT ![e] = "done"]
    /\ UNCHANGED <<snap, raw, inv, invRaw, scratch, lock, pc, loc, eman, crashes>>

EditStep(e) == LoadForEdit(e) \/ RefuseEdit(e) \/ SaveEdit(e) \/ FinishEdit(e)

-----------------------------------------------------------------------------

DirNext ==
    \/ \E c \in Captures : Begin(c) \/ Continue(c) \/ Crash(c)
    \/ \E e \in Editors : EditStep(e)

DirSpec == DirInit /\ [][DirNext]_vars

\* A process that has begun keeps running: its RPCs have timeouts, and the
\* lock is only ever held around a few writes.
DirFairness ==
    /\ \A c \in Captures : WF_vars(Continue(c))
    /\ \A e \in Editors : WF_vars(SaveEdit(e) \/ FinishEdit(e))

FairDirSpec == DirSpec /\ DirFairness

-----------------------------------------------------------------------------
(* Properties. *)

\* A capture that was reported as saved is in run.yml, whatever was captured
\* meanwhile (orchestrate.py, the reload under the lock).
CapturesKept ==
    \A c \in Captures :
        pc[c] = "done" /\ yml # Torn => SlotOf(c) \in DOMAIN Manifest.captures

\* run.yml can be read whenever no process is writing it and none has died:
\* no refused capture leaves it truncated (manifest.py, save_manifest).
TornOnlyWhileSaving ==
    yml = Torn => crashes > 0 \/ \E c \in Captures : pc[c] = "saving"

\* Every run.yml on disk loads again and pairs no old port twice, although
\* each writer checked a copy of its own (manifest.py, check_kind_devices and
\* add_mapping).
ManifestConsistent ==
    yml \notin {NoFile, Torn} => Consistent(yml)

\* An inventory never lies beside the raw record of another one: an upgrade
\* would regenerate the wrong inventory (orchestrate.py, _parse_services).
InventoryRawMatches ==
    \A e \in Endpoints : invRaw[e] # NoFile => inv[e] \in {invRaw[e], NoFile}

\* A recorded measurement lies on disk, unless a capture of the same slot is
\* replacing it or has died doing so; no failed capture destroys one
\* (orchestrate.py, the block under the lock).
Replacing(k) ==
    \E c \in Captures :
        /\ SlotOf(c) = k
        /\ pc[c] \in {"write", "bundle", "record", "saving", "crashed"}

RecordedIsMeasured ==
    yml # Torn =>
        \A k \in DOMAIN Manifest.captures :
            \/ snap[k] \in Snapshots /\ snap[k].taken = Manifest.captures[k]
            \/ Replacing(k)

\* The raw record of a snapshot names the baselines it was measured with, unless
\* an older version wrote it (orchestrate.py, baseline_taken).
BaselineIdentityIsUsed ==
    \A k \in Slots : raw[k] # NoFile /\ raw[k].taken \notin Unsigned =>
        {raw[k].bases[b] : b \in DOMAIN raw[k].bases} = loc[raw[k].taken].basis

\* The raw record of a snapshot holds the inventory it was measured with
\* (upgrade.py, _capture_inventory).
BundleInventoryIsMeasured ==
    \A k \in Slots : raw[k] # NoFile => raw[k].inventory = loc[raw[k].taken].used

\* A raw record tells with what its snapshot was measured.
RawRecordIsTrue == BaselineIdentityIsUsed /\ BundleInventoryIsMeasured

\* Every capture that has begun ends, whoever held the lock meanwhile
\* (store.py, lock).
CapturesEnd == \A c \in Captures : pc[c] \in Running ~> pc[c] \in Ended

-----------------------------------------------------------------------------
(* Refinement: the ledger, seen through run.yml or through the manifest that *)
(* is being written over it.                                                 *)

Saving == {c \in Captures : pc[c] = "saving"}
Recs ==
    IF yml # Torn THEN Manifest.captures
    ELSE IF Saving # {} THEN loc[CHOOSE c \in Saving : TRUE].man.captures
    ELSE Torn

Ledger == INSTANCE RunLedger WITH
    LedgerSlots <- Slots, Measurements <- Captures, Destroyed <- Torn, recs <- Recs

\* Captures of one run, however they interleave and die, add up to a ledger:
\* each keeps what the others recorded (orchestrate.py, store.py).
LedgerImplemented == Ledger!LedgerSpec
=============================================================================
