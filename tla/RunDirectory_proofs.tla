------------------------ MODULE RunDirectory_proofs ------------------------
(***************************************************************************)
(* Proofs about RunDirectory, for any captures, edits, boxes and ports, any *)
(* run to start with, and any number of crashes.                           *)
(*                                                                         *)
(* ManifestConsistent holds because everything a process may write over    *)
(* run.yml is consistent (WritersConsistent): a capture checks the devices *)
(* again before it opens the file, and keeps the mapping it has read.      *)
(***************************************************************************)
EXTENDS RunDirectory, TLAPS

Fields == {"kind", "devices", "mapping", "captures"}
EditPlaces == {"idle", "loaded", "saving", "done", "refused"}

\* Steps at which a capture holds the manifest it has reloaded under the lock.
Reloaded == {"locked", "truncate", "write", "bundle", "record"}

Shapes ==
    /\ pc \in [Captures -> Running \cup Ended \cup {"idle"}]
    /\ epc \in [Editors -> EditPlaces]
    /\ DOMAIN loc = Captures
    /\ \A c \in Captures : "man" \in DOMAIN loc[c] /\ DOMAIN loc[c].man = Fields
    /\ DOMAIN eman = Editors
    /\ \A e \in Editors : DOMAIN eman[e] = Fields
    /\ yml \in {NoFile, Torn} \/ DOMAIN yml = Fields

WritersConsistent ==
    /\ \A c \in Captures : pc[c] \in Reloaded => PairsOnce(loc[c].man.mapping)
    /\ \A c \in Captures : pc[c] = "saving" => Consistent(loc[c].man)
    /\ \A e \in Editors : epc[e] \in {"loaded", "saving"} => Consistent(eman[e])

ConsistencyInv == Shapes /\ WritersConsistent /\ ManifestConsistent

-----------------------------------------------------------------------------
(* Manifests. *)

LEMMA EmptyShape ==
  /\ DOMAIN EmptyManifest = Fields
  /\ EmptyManifest.mapping = {}
  /\ DOMAIN EmptyManifest.captures = {}
  BY DEF EmptyManifest, Fields

\* Adding a box keeps the mapping and the records.
LEMMA WithDeviceKeeps ==
  ASSUME NEW m, DOMAIN m = Fields, NEW node, NEW phase
  PROVE  /\ DOMAIN WithDevice(m, node, phase) = Fields
         /\ WithDevice(m, node, phase).mapping = m.mapping
         /\ WithDevice(m, node, phase).captures = m.captures
  BY DEF WithDevice, Fields

\* Recording a capture keeps everything but the records.
LEMMA RecordKeeps ==
  ASSUME NEW m, DOMAIN m = Fields, NEW slot, NEW taken
  PROVE  /\ DOMAIN RecordCapture(m, slot, taken) = Fields
         /\ RecordCapture(m, slot, taken).kind = m.kind
         /\ RecordCapture(m, slot, taken).devices = m.devices
         /\ RecordCapture(m, slot, taken).mapping = m.mapping
         /\ RecordCapture(m, slot, taken).captures = Assign(m.captures, slot, taken)
  BY DEF RecordCapture, Fields

\* A pair that add_mapping accepts keeps the old ports paired once.
LEMMA AddingPairsOnce ==
  ASSUME NEW mapping, NEW pair, PairsOnce(mapping), CanAddMapping(mapping, pair)
  PROVE  PairsOnce(mapping \cup {pair})
  BY DEF PairsOnce, CanAddMapping

\* An accepted edit of a consistent manifest is consistent.
LEMMA EditedConsistent ==
  ASSUME NEW e \in Editors, NEW m, DOMAIN m = Fields, Consistent(m), CanEdit(e, m)
  PROVE  DOMAIN Edited(e, m) = Fields /\ Consistent(Edited(e, m))
<1>1. /\ DOMAIN Edited(e, m) = Fields
      /\ Edited(e, m).kind = m.kind
      /\ Edited(e, m).devices = m.devices
      /\ Edited(e, m).mapping = IF Edit[e].kind = "set"
                                THEN RolesMapped(m, Edit[e].ports)
                                ELSE m.mapping \cup {Edit[e].pair}
  BY DEF Edited, Fields
<1>2. CASE Edit[e].kind = "set"
  BY <1>1, <1>2 DEF CanEdit, CanUpdateMapping, Consistent
<1>3. CASE Edit[e].kind # "set"
  BY <1>1, <1>3, AddingPairsOnce DEF CanEdit, Consistent
<1> QED
  BY <1>2, <1>3

-----------------------------------------------------------------------------
(* Consistency of run.yml. *)

LEMMA ConsistencyInit == DirInit => ConsistencyInv
<1> SUFFICES ASSUME DirInit PROVE ConsistencyInv
  OBVIOUS
<1>1. Shapes
  BY StartAssumption, EmptyShape
     DEF DirInit, Shapes, IsManifest, Fields, EditPlaces, Ended
<1>2. WritersConsistent
  BY DEF DirInit, WritersConsistent, Reloaded
<1>3. ManifestConsistent
  BY StartAssumption DEF DirInit, ManifestConsistent
<1> QED
  BY <1>1, <1>2, <1>3 DEF ConsistencyInv

\* Steps of a capture that touch no manifest.
QuietStep(c) ==
    \/ RefuseCapture(c)
    \/ FindInventory(c)
    \/ ParseServices(c)
    \/ ParseFails(c)
    \/ ParseLock(c)
    \/ DropInventoryRaw(c)
    \/ DropInventoryRawFails(c)
    \/ ReplaceInventory(c)
    \/ ScratchMissing(c)
    \/ WriteInventoryRaw(c)
    \/ LoadBaseline(c)
    \/ Measure(c)
    \/ SessionFails(c)
    \/ WrapSession(c)
    \/ ReloadFails(c)
    \/ DropRaw(c)
    \/ TruncateSnapshot(c)
    \/ SaveSnapshot(c)
    \/ WriteRaw(c)
    \/ SaveRefused(c)
    \/ Crash(c)

\* Such a step moves the capture to another place and keeps every manifest.
LEMMA QuietSteps ==
  ASSUME Shapes, NEW c \in Captures, QuietStep(c)
  PROVE  /\ UNCHANGED <<yml, editVars>>
         /\ DOMAIN loc' = Captures
         /\ \A d \in Captures : "man" \in DOMAIN loc'[d] /\ loc'[d].man = loc[d].man
         /\ pc' = [pc EXCEPT ![c] = pc'[c]]
         /\ pc'[c] \in (Running \cup Ended) \ {"saving"}
         /\ pc'[c] \in Reloaded => pc[c] \in Reloaded
         /\ pc[c] # "done" /\ pc'[c] # "done"
         /\ \/ crashes' = crashes /\ pc[c] # "saving"
            \/ crashes' = crashes + 1
<1> USE DEF Shapes, disk, Goto, Fail, Reloaded, Running, Ended
<1>1. CASE RefuseCapture(c)
  BY <1>1 DEF RefuseCapture
<1>2. CASE FindInventory(c)
  BY <1>2 DEF FindInventory
<1>3. CASE ParseServices(c)
  BY <1>3 DEF ParseServices
<1>4. CASE ParseFails(c)
  BY <1>4 DEF ParseFails
<1>5. CASE ParseLock(c)
  BY <1>5 DEF ParseLock
<1>6. CASE DropInventoryRaw(c)
  BY <1>6 DEF DropInventoryRaw
<1>7. CASE DropInventoryRawFails(c)
  BY <1>7 DEF DropInventoryRawFails
<1>8. CASE ReplaceInventory(c)
  BY <1>8 DEF ReplaceInventory
<1>9. CASE ScratchMissing(c)
  BY <1>9 DEF ScratchMissing
<1>10. CASE WriteInventoryRaw(c)
  BY <1>10 DEF WriteInventoryRaw
<1>11. CASE LoadBaseline(c)
  BY <1>11 DEF LoadBaseline
<1>12. CASE Measure(c)
  BY <1>12 DEF Measure
<1>13. CASE SessionFails(c)
  BY <1>13 DEF SessionFails
<1>14. CASE WrapSession(c)
  BY <1>14 DEF WrapSession
<1>15. CASE ReloadFails(c)
  BY <1>15 DEF ReloadFails
<1>16. CASE DropRaw(c)
  BY <1>16 DEF DropRaw
<1>17. CASE TruncateSnapshot(c)
  BY <1>17 DEF TruncateSnapshot
<1>18. CASE SaveSnapshot(c)
  BY <1>18 DEF SaveSnapshot
<1>19. CASE WriteRaw(c)
  BY <1>19 DEF WriteRaw
<1>20. CASE SaveRefused(c)
  BY <1>20 DEF SaveRefused
<1>21. CASE Crash(c)
  BY <1>21 DEF Crash
<1> QED
  BY <1>1, <1>2, <1>3, <1>4, <1>5, <1>6, <1>7, <1>8, <1>9, <1>10, <1>11, <1>12, <1>13, <1>14, <1>15, <1>16, <1>17, <1>18, <1>19, <1>20, <1>21
     DEF QuietStep

LEMMA QuietConsistency ==
  ASSUME ConsistencyInv, NEW c \in Captures, QuietStep(c)
  PROVE  ConsistencyInv'
<1> USE DEF ConsistencyInv, editVars
<1>1. Shapes'
  BY QuietSteps DEF Shapes
<1>2. WritersConsistent'
  BY QuietSteps DEF Shapes, WritersConsistent
<1>3. ManifestConsistent'
  BY QuietSteps DEF ManifestConsistent
<1> QED
  BY <1>1, <1>2, <1>3

\* A manifest that has been read pairs every old port once.
LEMMA ReadManifest ==
  ASSUME Shapes, ManifestConsistent, Readable
  PROVE  DOMAIN Manifest = Fields /\ PairsOnce(Manifest.mapping)
<1>1. CASE yml = NoFile
  BY <1>1, EmptyShape DEF Manifest, PairsOnce
<1>2. CASE yml # NoFile
  BY <1>2 DEF Shapes, ManifestConsistent, Readable, Manifest, Consistent
<1> QED
  BY <1>1, <1>2

\* The steps that load, change and write manifests.
LEMMA LoadConsistency ==
  ASSUME ConsistencyInv, NEW c \in Captures, LoadManifest(c)
  PROVE  ConsistencyInv'
<1> USE DEF ConsistencyInv, LoadManifest, disk, editVars, Goto
<1>1. DOMAIN Manifest = Fields
  BY ReadManifest
<1>2. Shapes'
  BY <1>1 DEF Shapes, Running
<1>3. WritersConsistent'
  BY DEF Shapes, WritersConsistent, Reloaded
<1>4. ManifestConsistent'
  BY DEF ManifestConsistent
<1> QED
  BY <1>2, <1>3, <1>4

LEMMA LockConsistency ==
  ASSUME ConsistencyInv, NEW c \in Captures, LockRun(c)
  PROVE  ConsistencyInv'
<1> USE DEF ConsistencyInv, LockRun, disk, editVars, Goto
<1> DEFINE m == WithDevice(Manifest, Job[c].node, Job[c].phase)
<1>1. DOMAIN m = Fields /\ PairsOnce(m.mapping)
  BY ReadManifest, WithDeviceKeeps
<1> HIDE DEF m
<1>2. loc' = [loc EXCEPT ![c].man = m]
  BY DEF m
<1>3. Shapes'
  BY <1>1, <1>2 DEF Shapes, Running
<1>4. WritersConsistent'
  BY <1>1, <1>2 DEF Shapes, WritersConsistent, Reloaded
<1>5. ManifestConsistent'
  BY DEF ManifestConsistent
<1> QED
  BY <1>3, <1>4, <1>5

LEMMA RecordConsistency ==
  ASSUME ConsistencyInv, NEW c \in Captures, RecordAndSave(c)
  PROVE  ConsistencyInv'
<1> USE DEF ConsistencyInv, RecordAndSave, editVars, Goto
<1> DEFINE m == RecordCapture(loc[c].man, SlotOf(c), c)
<1>1. PairsOnce(loc[c].man.mapping) /\ DOMAIN loc[c].man = Fields
  BY DEF Shapes, WritersConsistent, Reloaded
<1>2. DOMAIN m = Fields /\ Consistent(m)
  BY <1>1, RecordKeeps DEF Consistent
<1> HIDE DEF m
<1>3. loc' = [loc EXCEPT ![c].man = m]
  BY DEF m, Shapes
<1>4. Shapes'
  BY <1>2, <1>3 DEF Shapes, Running
<1>5. WritersConsistent'
  BY <1>2, <1>3 DEF Shapes, WritersConsistent, Reloaded
<1>6. ManifestConsistent'
  BY DEF ManifestConsistent
<1> QED
  BY <1>4, <1>5, <1>6

LEMMA FinishConsistency ==
  ASSUME ConsistencyInv, NEW c \in Captures, FinishSave(c)
  PROVE  ConsistencyInv'
<1> USE DEF ConsistencyInv, FinishSave, editVars, Goto
<1>1. Consistent(loc[c].man) /\ DOMAIN loc[c].man = Fields
  BY DEF Shapes, WritersConsistent
<1>2. yml' \in {loc[c].man, Torn}
  BY DEF Filled
<1>3. Shapes'
  BY <1>1, <1>2 DEF Shapes, Ended
<1>4. WritersConsistent'
  BY DEF Shapes, WritersConsistent, Reloaded
<1>5. ManifestConsistent'
  BY <1>1, <1>2 DEF ManifestConsistent
<1> QED
  BY <1>3, <1>4, <1>5

LEMMA EditConsistency ==
  ASSUME ConsistencyInv, NEW e \in Editors, EditStep(e)
  PROVE  ConsistencyInv'
<1> USE DEF ConsistencyInv, disk
<1>1. CASE LoadForEdit(e)
  <2> DEFINE m == Edited(e, Manifest)
  <2>1. DOMAIN Manifest = Fields /\ Consistent(Manifest) /\ CanEdit(e, Manifest)
    BY <1>1 DEF LoadForEdit, Shapes, ManifestConsistent, Readable, Manifest
  <2>2. DOMAIN m = Fields /\ Consistent(m)
    BY <2>1, EditedConsistent
  <2> HIDE DEF m
  <2>3. eman' = [eman EXCEPT ![e] = m] /\ epc' = [epc EXCEPT ![e] = "loaded"]
        /\ UNCHANGED <<yml, pc, loc>>
    BY <1>1 DEF LoadForEdit, m
  <2> QED
    BY <2>2, <2>3 DEF Shapes, WritersConsistent, ManifestConsistent, EditPlaces
<1>2. CASE RefuseEdit(e)
  BY <1>2 DEF RefuseEdit, Shapes, WritersConsistent, ManifestConsistent, EditPlaces
<1>3. CASE SaveEdit(e)
  BY <1>3 DEF SaveEdit, Shapes, WritersConsistent, ManifestConsistent, EditPlaces
<1>4. CASE FinishEdit(e)
  <2>1. Consistent(eman[e]) /\ DOMAIN eman[e] = Fields
    BY <1>4 DEF FinishEdit, Shapes, WritersConsistent
  <2>2. yml' \in {eman[e], Torn}
    BY <1>4 DEF FinishEdit, Filled
  <2> QED
    BY <1>4, <2>1, <2>2
       DEF FinishEdit, Shapes, WritersConsistent, ManifestConsistent, EditPlaces
<1> QED
  BY <1>1, <1>2, <1>3, <1>4 DEF EditStep

LEMMA ConsistencyStep ==
  ASSUME ConsistencyInv, [DirNext]_vars
  PROVE  ConsistencyInv'
<1>1. ASSUME NEW c \in Captures, Begin(c) \/ Continue(c) \/ Crash(c)
      PROVE  ConsistencyInv'
  <2>1. \/ QuietStep(c) \/ LoadManifest(c) \/ LockRun(c)
        \/ RecordAndSave(c) \/ FinishSave(c)
    BY <1>1 DEF Begin, Continue, QuietStep
  <2> QED
    BY <2>1, QuietConsistency, LoadConsistency, LockConsistency, RecordConsistency,
       FinishConsistency
<1>2. ASSUME NEW e \in Editors, EditStep(e) PROVE ConsistencyInv'
  BY <1>2, EditConsistency
<1>3. CASE UNCHANGED vars
  BY <1>3 DEF vars, disk, editVars, ConsistencyInv, Shapes, WritersConsistent,
     ManifestConsistent
<1> QED
  BY <1>1, <1>2, <1>3 DEF DirNext

\* Every run.yml on disk loads again and pairs no old port twice, although the
\* edits of the mapping take no lock (manifest.py, check_kind_devices and
\* add_mapping).
THEOREM EveryManifestLoads == DirSpec => []ManifestConsistent
<1>1. DirInit => ConsistencyInv
  BY ConsistencyInit
<1>2. ConsistencyInv /\ [DirNext]_vars => ConsistencyInv'
  BY ConsistencyStep
<1>3. ConsistencyInv => ManifestConsistent
  BY DEF ConsistencyInv
<1> QED
  BY <1>1, <1>2, <1>3, PTL DEF DirSpec

-----------------------------------------------------------------------------
(* The lock of the run.                                                    *)

\* The lock is held by the capture that is between its two ends.
LockInv == \A c \in Captures : pc[c] \in Locked <=> lock = c

Acquires(c) == pc[c] \notin Locked /\ pc'[c] \in Locked /\ lock = Free /\ lock' = c
Releases(c) == pc[c] \in Locked /\ pc'[c] \notin Locked /\ lock' = Free
KeepsLock(c) == (pc'[c] \in Locked <=> pc[c] \in Locked) /\ lock' = lock

LEMMA LockSteps ==
  ASSUME Shapes, LockInv, NEW c \in Captures, Begin(c) \/ Continue(c) \/ Crash(c)
  PROVE  /\ pc' = [pc EXCEPT ![c] = pc'[c]]
         /\ Acquires(c) \/ Releases(c) \/ KeepsLock(c)
<1> USE DEF Shapes, Goto, Fail, Unlock, Locked, Acquires, Releases, KeepsLock
<1>1. CASE LoadManifest(c)
  BY <1>1 DEF LoadManifest
<1>2. CASE RefuseCapture(c)
  BY <1>2 DEF RefuseCapture
<1>3. CASE FindInventory(c)
  BY <1>3 DEF FindInventory
<1>4. CASE ParseServices(c)
  BY <1>4 DEF ParseServices
<1>5. CASE ParseFails(c)
  BY <1>5 DEF ParseFails
<1>6. CASE ParseLock(c)
  BY <1>6 DEF ParseLock
<1>7. CASE DropInventoryRaw(c)
  BY <1>7 DEF DropInventoryRaw
<1>8. CASE DropInventoryRawFails(c)
  BY <1>8 DEF DropInventoryRawFails
<1>9. CASE ReplaceInventory(c)
  BY <1>9 DEF ReplaceInventory
<1>10. CASE ScratchMissing(c)
  BY <1>10 DEF ScratchMissing
<1>11. CASE WriteInventoryRaw(c)
  BY <1>11 DEF WriteInventoryRaw
<1>12. CASE LoadBaseline(c)
  BY <1>12 DEF LoadBaseline
<1>13. CASE Measure(c)
  BY <1>13 DEF Measure
<1>14. CASE SessionFails(c)
  BY <1>14 DEF SessionFails
<1>15. CASE WrapSession(c)
  BY <1>15 DEF WrapSession
<1>16. CASE LockRun(c)
  BY <1>16 DEF LockRun
<1>17. CASE ReloadFails(c)
  BY <1>17 DEF ReloadFails
<1>18. CASE DropRaw(c)
  BY <1>18 DEF DropRaw
<1>19. CASE TruncateSnapshot(c)
  BY <1>19 DEF TruncateSnapshot
<1>20. CASE SaveSnapshot(c)
  BY <1>20 DEF SaveSnapshot
<1>21. CASE WriteRaw(c)
  BY <1>21 DEF WriteRaw
<1>22. CASE RecordAndSave(c)
  BY <1>22 DEF RecordAndSave
<1>23. CASE SaveRefused(c)
  BY <1>23 DEF SaveRefused
<1>24. CASE FinishSave(c)
  BY <1>24 DEF FinishSave
<1>25. CASE Crash(c)
  BY <1>25 DEF Crash, LockInv
<1> QED
  BY <1>1, <1>2, <1>3, <1>4, <1>5, <1>6, <1>7, <1>8, <1>9,
     <1>10, <1>11, <1>12, <1>13, <1>14, <1>15, <1>16, <1>17, <1>18,
     <1>19, <1>20, <1>21, <1>22, <1>23, <1>24, <1>25
     DEF Begin, Continue

LEMMA LockStep ==
  ASSUME Shapes, LockInv, [DirNext]_vars
  PROVE  LockInv'
<1>1. ASSUME NEW c \in Captures, Begin(c) \/ Continue(c) \/ Crash(c)
      PROVE  LockInv'
  BY <1>1, LockSteps, FilesAssumption
     DEF Shapes, LockInv, Acquires, Releases, KeepsLock
<1>2. ASSUME NEW e \in Editors, EditStep(e) PROVE LockInv'
  BY <1>2 DEF EditStep, LoadForEdit, RefuseEdit, SaveEdit, FinishEdit, LockInv
<1>3. CASE UNCHANGED vars
  BY <1>3 DEF vars, LockInv
<1> QED
  BY <1>1, <1>2, <1>3 DEF DirNext

-----------------------------------------------------------------------------
(* Captures of a run whose mapping nobody edits meanwhile: what they add to *)
(* run.yml stays in it.                                                    *)

\* A manifest, and the captures it records, can be told from a file that is
\* missing or torn.
Recognisable ==
    /\ \A m : DOMAIN m = Fields => m \notin {NoFile, Torn}
    /\ \A f : DOMAIN f \subseteq Slots => f # Torn

\* The records of a manifest: every capture that is done, and none but these
\* and those in `more`.
Records(f, more) ==
    /\ DOMAIN f \subseteq Slots
    /\ \A c \in Captures : pc[c] = "done" => SlotOf(c) \in DOMAIN f
    /\ \A k \in DOMAIN f : f[k] \in Captures /\ (pc[f[k]] = "done" \/ f[k] \in more)

RecordsInv ==
    /\ yml # Torn => Records(Manifest.captures, {})
    /\ \A c \in Captures : pc[c] \in Reloaded =>
         yml # Torn /\ loc[c].man.captures = Manifest.captures
    /\ \A c \in Captures : pc[c] = "saving" =>
         /\ yml = Torn
         /\ SlotOf(c) \in DOMAIN loc[c].man.captures
         /\ Records(loc[c].man.captures, {c})
    /\ TornOnlyWhileSaving
    /\ crashes \in Nat

LedgerInv == Shapes /\ LockInv /\ RecordsInv

LEMMA LedgerInvInit ==
  ASSUME Recognisable, DirInit
  PROVE  LedgerInv
<1>1. Shapes
  BY ConsistencyInit DEF ConsistencyInv
<1>2. LockInv
  BY FilesAssumption DEF DirInit, LockInv, Locked
<1>3. Records(Manifest.captures, {})
  <2>1. CASE Start = NoFile
    <3>1. \A c \in Captures : pc[c] = "idle"
      BY <2>1 DEF DirInit, IsPast, Past
    <3>2. Manifest = EmptyManifest
      BY <2>1 DEF DirInit, Manifest
    <3> QED
      BY <3>1, <3>2, EmptyShape DEF Records
  <2>2. CASE Start # NoFile
    <3>1. /\ DOMAIN Start.captures \subseteq Slots
          /\ \A k \in DOMAIN Start.captures :
               Start.captures[k] \in Captures /\ SlotOf(Start.captures[k]) = k
      BY <2>2, StartAssumption DEF IsManifest
    <3>2. Manifest.captures = Start.captures /\ Past = Start.captures
      BY <2>2 DEF DirInit, Manifest, Past
    <3>3. \A c \in Captures : pc[c] = IF IsPast(c) THEN "done" ELSE "idle"
      BY DEF DirInit
    <3>4. \A c \in Captures :
            pc[c] = "done" <=> \E k \in DOMAIN Start.captures : Start.captures[k] = c
      BY <3>2, <3>3 DEF IsPast
    <3> QED
      BY <3>1, <3>2, <3>4 DEF Records
  <2> QED
    BY <2>1, <2>2
<1>4. yml # Torn
  BY StartAssumption, FilesAssumption DEF DirInit, Recognisable, IsManifest, Fields
<1>5. \A c \in Captures : pc[c] \in {"idle", "done"}
  BY DEF DirInit
<1>6. crashes \in Nat
  BY DEF DirInit
<1> QED
  BY <1>1, <1>2, <1>3, <1>4, <1>5, <1>6
     DEF LedgerInv, RecordsInv, Reloaded, TornOnlyWhileSaving

\* Only one capture is under the lock.
LEMMA LockExcludes ==
  ASSUME LockInv, NEW c \in Captures, NEW d \in Captures,
         pc[c] \in Reloaded \cup {"saving"}, pc[d] \in Reloaded \cup {"saving"}
  PROVE  c = d
  BY DEF LockInv, Reloaded, Locked

LEMMA QuietRecords ==
  ASSUME LedgerInv, NEW c \in Captures, QuietStep(c)
  PROVE  RecordsInv'
<1> USE DEF LedgerInv, RecordsInv, Shapes
<1>1. /\ yml' = yml
      /\ \A d \in Captures : loc'[d].man = loc[d].man
      /\ \A d \in Captures : pc'[d] = "done" <=> pc[d] = "done"
      /\ \A d \in Captures : pc'[d] \in Reloaded => pc[d] \in Reloaded
      /\ \A d \in Captures : pc'[d] = "saving" => pc[d] = "saving"
  BY QuietSteps
<1>2. \A f, more : Records(f, more) => Records(f, more)'
  BY <1>1 DEF Records
<1>3. Manifest' = Manifest
  BY <1>1 DEF Manifest
<1>4. TornOnlyWhileSaving' /\ crashes' \in Nat
  BY <1>1, QuietSteps DEF TornOnlyWhileSaving
<1> QED
  BY <1>1, <1>2, <1>3, <1>4

\* Loading run.yml, with or without the lock.
LEMMA LoadRecords ==
  ASSUME LedgerInv, NEW c \in Captures, LoadManifest(c) \/ LockRun(c)
  PROVE  RecordsInv'
<1> USE DEF LedgerInv, RecordsInv, Shapes
<1>1. /\ UNCHANGED <<yml, crashes>>
      /\ yml # Torn
      /\ \A d \in Captures \ {c} : loc'[d] = loc[d] /\ pc'[d] = pc[d]
      /\ pc[c] # "done" /\ pc'[c] \notin {"done", "saving"}
  BY DEF LoadManifest, LockRun, Goto, disk, Readable
<1>2. \A f, more : Records(f, more) => Records(f, more)'
  BY <1>1 DEF Records
<1>3. Manifest' = Manifest
  BY <1>1 DEF Manifest
<1>4. ASSUME pc'[c] \in Reloaded PROVE loc'[c].man.captures = Manifest.captures
  <2>1. LockRun(c)
    BY <1>4 DEF LoadManifest, Goto, Reloaded
  <2> DEFINE m == WithDevice(Manifest, Job[c].node, Job[c].phase)
  <2>2. DOMAIN Manifest = Fields
    BY <1>1, EmptyShape DEF Manifest
  <2>3. m.captures = Manifest.captures
    BY <2>2, WithDeviceKeeps
  <2> HIDE DEF m
  <2>4. loc' = [loc EXCEPT ![c].man = m]
    BY <2>1 DEF LockRun, m
  <2> QED
    BY <2>3, <2>4
<1>5. TornOnlyWhileSaving'
  BY <1>1 DEF TornOnlyWhileSaving
<1> QED
  BY <1>1, <1>2, <1>3, <1>4, <1>5

\* The records of the manifest that is about to be written.
LEMMA RecordRecords ==
  ASSUME LedgerInv, NEW c \in Captures, RecordAndSave(c)
  PROVE  /\ RecordsInv'
         /\ loc'[c].man.captures = Assign(Manifest.captures, SlotOf(c), c)
<1> USE DEF LedgerInv, RecordsInv, Shapes
<1>1. /\ yml # Torn
      /\ loc[c].man.captures = Manifest.captures
      /\ Records(Manifest.captures, {})
  BY DEF RecordAndSave, Reloaded
<1> DEFINE m == RecordCapture(loc[c].man, SlotOf(c), c)
<1>2. m.captures = Assign(Manifest.captures, SlotOf(c), c)
  BY <1>1, RecordKeeps
<1> HIDE DEF m
<1>3. loc' = [loc EXCEPT ![c].man = m] /\ pc' = [pc EXCEPT ![c] = "saving"]
      /\ yml' = Torn /\ crashes' = crashes /\ pc[c] = "record"
  BY DEF RecordAndSave, Goto, editVars, m
<1>4. loc'[c].man.captures = Assign(Manifest.captures, SlotOf(c), c)
  BY <1>2, <1>3
<1>5. SlotOf(c) \in Slots
  BY JobAssumption DEF SlotOf, Slot, Slots
<1>6. /\ SlotOf(c) \in DOMAIN loc'[c].man.captures
      /\ Records(loc[c].man.captures, {c})'
  BY <1>1, <1>3, <1>4, <1>5 DEF Records, Assign
<1>7. \A d \in Captures : pc'[d] \in Reloaded \cup {"saving"} => d = c
  BY <1>3, LockExcludes DEF Reloaded
<1>8. TornOnlyWhileSaving'
  BY <1>3 DEF TornOnlyWhileSaving
<1>9. RecordsInv'
  BY <1>3, <1>6, <1>7, <1>8 DEF Reloaded
<1> QED
  BY <1>4, <1>9

\* run.yml is what the capture has written.
LEMMA FinishRecords ==
  ASSUME Recognisable, LedgerInv, NEW c \in Captures, FinishSave(c)
  PROVE  RecordsInv' /\ yml' # Torn /\ Manifest' = loc[c].man
<1> USE DEF LedgerInv, RecordsInv, Shapes
<1>1. /\ yml = Torn
      /\ SlotOf(c) \in DOMAIN loc[c].man.captures
      /\ Records(loc[c].man.captures, {c})
  BY DEF FinishSave
<1>2. yml' = loc[c].man /\ pc' = [pc EXCEPT ![c] = "done"] /\ UNCHANGED <<loc, crashes>>
  BY <1>1 DEF FinishSave, Filled, Goto
<1>3. yml' \notin {NoFile, Torn}
  BY <1>2 DEF Recognisable
<1>4. Manifest' = loc[c].man
  BY <1>2, <1>3 DEF Manifest
<1>5. Records(Manifest.captures, {})'
  BY <1>1, <1>2, <1>4 DEF Records
<1>6. \A d \in Captures : pc'[d] \notin Reloaded \cup {"saving"}
  BY <1>2, LockExcludes DEF FinishSave, Reloaded
<1>7. TornOnlyWhileSaving'
  BY <1>3 DEF TornOnlyWhileSaving
<1>8. RecordsInv'
  BY <1>2, <1>3, <1>5, <1>6, <1>7
<1> QED
  BY <1>3, <1>4, <1>8

LEMMA CaptureRecords ==
  ASSUME Recognisable, LedgerInv, NEW c \in Captures, Begin(c) \/ Continue(c) \/ Crash(c)
  PROVE  RecordsInv'
<1>1. \/ QuietStep(c) \/ LoadManifest(c) \/ LockRun(c)
      \/ RecordAndSave(c) \/ FinishSave(c)
  BY DEF Begin, Continue, QuietStep
<1> QED
  BY <1>1, QuietRecords, LoadRecords, RecordRecords, FinishRecords

LEMMA StutterRecords ==
  ASSUME RecordsInv, UNCHANGED vars
  PROVE  RecordsInv'
<1> USE DEF RecordsInv
<1>1. yml' = yml /\ pc' = pc /\ loc' = loc /\ crashes' = crashes
  BY DEF vars, disk
<1>2. \A f, more : Records(f, more) => Records(f, more)'
  BY <1>1 DEF Records
<1>3. Manifest' = Manifest /\ TornOnlyWhileSaving'
  BY <1>1 DEF Manifest, TornOnlyWhileSaving
<1> QED
  BY <1>1, <1>2, <1>3

LEMMA LedgerInvStep ==
  ASSUME Recognisable, Editors = {}, LedgerInv, ConsistencyInv, [DirNext]_vars
  PROVE  LedgerInv'
<1>1. Shapes'
  BY ConsistencyStep DEF ConsistencyInv
<1>2. LockInv'
  BY LockStep DEF LedgerInv
<1>3. RecordsInv'
  BY CaptureRecords, StutterRecords DEF DirNext, LedgerInv
<1> QED
  BY <1>1, <1>2, <1>3 DEF LedgerInv

LEMMA LedgerInvariance ==
  ASSUME Recognisable, Editors = {}
  PROVE  DirSpec => [](LedgerInv /\ ConsistencyInv)
<1>1. DirInit => LedgerInv /\ ConsistencyInv
  BY LedgerInvInit, ConsistencyInit
<1>2. LedgerInv /\ ConsistencyInv /\ [DirNext]_vars => (LedgerInv /\ ConsistencyInv)'
  BY LedgerInvStep, ConsistencyStep
<1> QED
  BY <1>1, <1>2, PTL DEF DirSpec

\* A capture that was reported as saved is in run.yml, whatever other captures
\* of the run did meanwhile: run.yml is read again under the lock
\* (orchestrate.py, capture_into_run).
THEOREM RecordedCapturesStay ==
  ASSUME Recognisable, Editors = {}
  PROVE  DirSpec => []CapturesKept
<1>1. LedgerInv => CapturesKept
  BY DEF LedgerInv, RecordsInv, Records, CapturesKept
<1> QED
  BY <1>1, LedgerInvariance, PTL

\* Nothing but a capture that is writing, or a dead one, leaves run.yml
\* unreadable (manifest.py, save_manifest: the devices are checked before the
\* file is opened).
THEOREM TornByWritersOnly ==
  ASSUME Recognisable, Editors = {}
  PROVE  DirSpec => []TornOnlyWhileSaving
<1>1. LedgerInv => TornOnlyWhileSaving
  BY DEF LedgerInv, RecordsInv
<1> QED
  BY <1>1, LedgerInvariance, PTL

-----------------------------------------------------------------------------
(* Captures of a new run add up to a ledger.                               *)

\* The ledger is what run.yml records, else what the capture that is writing
\* it will have recorded.
LEMMA SavingRecs ==
  ASSUME LedgerInv, NEW c \in Captures, pc[c] = "saving"
  PROVE  Saving = {c} /\ Recs = loc[c].man.captures
<1>1. yml = Torn
  BY DEF LedgerInv, RecordsInv
<1>2. \A d \in Captures : pc[d] = "saving" => d = c
  BY LockExcludes DEF LedgerInv
<1>3. Saving = {c}
  BY <1>2 DEF Saving
<1> QED
  BY <1>1, <1>3 DEF Recs

\* A quiet step is none of the ledger, unless the writer dies.
LEMMA QuietLedger ==
  ASSUME Recognisable, LedgerInv, NEW c \in Captures, QuietStep(c)
  PROVE  UNCHANGED Recs \/ Ledger!Destroy
<1> USE DEF LedgerInv, Shapes
<1>1. /\ yml' = yml
      /\ \A d \in Captures : loc'[d].man = loc[d].man
      /\ pc' = [pc EXCEPT ![c] = pc'[c]]
      /\ pc'[c] # "saving"
  BY QuietSteps
<1>2. CASE yml # Torn
  BY <1>1, <1>2 DEF Recs, Manifest
<1>3. CASE yml = Torn /\ pc[c] # "saving"
  <2>1. Saving' = Saving
    BY <1>1, <1>3 DEF Saving
  <2>2. CASE Saving = {}
    BY <1>1, <1>3, <2>1, <2>2 DEF Recs
  <2>3. CASE Saving # {}
    <3> DEFINE d == CHOOSE d \in Saving : TRUE
    <3>1. d \in Captures /\ loc'[d].man = loc[d].man
      BY <1>1, <2>3 DEF Saving
    <3> QED
      BY <1>1, <1>3, <2>1, <2>3, <3>1 DEF Recs
  <2> QED
    BY <2>2, <2>3
<1>4. CASE yml = Torn /\ pc[c] = "saving"
  <2>1. Saving = {c} /\ Recs = loc[c].man.captures
    BY <1>4, SavingRecs
  <2>2. Records(loc[c].man.captures, {c})
    BY <1>4 DEF RecordsInv
  <2>3. Recs # Torn
    BY <2>1, <2>2 DEF Records, Recognisable
  <2>4. Saving' = {}
    BY <1>1, <2>1 DEF Saving
  <2>5. Recs' = Torn
    BY <1>1, <1>4, <2>4 DEF Recs
  <2> QED
    BY <2>3, <2>5 DEF Ledger!Destroy
<1> QED
  BY <1>2, <1>3, <1>4

\* Recording a capture commits it.
LEMMA RecordCommits ==
  ASSUME Recognisable, LedgerInv, NEW c \in Captures, RecordAndSave(c)
  PROVE  Ledger!Commit(SlotOf(c), c)
<1>1. yml # Torn /\ Recs = Manifest.captures /\ Records(Manifest.captures, {})
  BY DEF RecordAndSave, LedgerInv, RecordsInv, Reloaded, Recs
<1>2. pc'[c] = "saving" /\ pc[c] = "record"
  BY DEF RecordAndSave, Goto, LedgerInv, Shapes
<1>3. Recs' = loc'[c].man.captures
  <2>1. \A d \in Captures : pc'[d] = "saving" => d = c
    BY <1>2, LockExcludes DEF RecordAndSave, Goto, LedgerInv, Shapes, Reloaded
  <2>2. Saving' = {c}
    BY <1>2, <2>1 DEF Saving
  <2> QED
    BY <2>2 DEF RecordAndSave, Recs
<1>4. Recs' = Assign(Recs, SlotOf(c), c)
  BY <1>1, <1>3, RecordRecords
<1>5. Recs # Torn
  BY <1>1 DEF Records, Recognisable
<1>6. c \notin {Recs[k] : k \in DOMAIN Recs}
  BY <1>1, <1>2 DEF Records
<1> QED
  BY <1>4, <1>5, <1>6 DEF Ledger!Commit, Assign

LEMMA LedgerStep ==
  ASSUME Recognisable, Editors = {}, LedgerInv, [DirNext]_vars
  PROVE  [Ledger!LedgerNext]_Recs
<1>1. ASSUME NEW c \in Captures, QuietStep(c)
      PROVE  [Ledger!LedgerNext]_Recs
  BY <1>1, QuietLedger DEF Ledger!LedgerNext
<1>2. ASSUME NEW c \in Captures, LoadManifest(c) \/ LockRun(c)
      PROVE  [Ledger!LedgerNext]_Recs
  BY <1>2 DEF LoadManifest, LockRun, Readable, disk, Recs, Manifest
<1>3. ASSUME NEW c \in Captures, RecordAndSave(c)
      PROVE  [Ledger!LedgerNext]_Recs
  <2>1. SlotOf(c) \in Slots
    BY JobAssumption DEF SlotOf, Slot, Slots
  <2> QED
    BY <1>3, <2>1, RecordCommits DEF Ledger!LedgerNext
<1>4. ASSUME NEW c \in Captures, FinishSave(c)
      PROVE  [Ledger!LedgerNext]_Recs
  <2>1. Recs = loc[c].man.captures
    BY <1>4, SavingRecs DEF FinishSave
  <2>2. Recs' = loc[c].man.captures
    BY <1>4, FinishRecords DEF Recs
  <2> QED
    BY <2>1, <2>2
<1>5. CASE UNCHANGED vars
  BY <1>5 DEF vars, disk, Recs, Saving, Manifest
<1>6. ASSUME NEW c \in Captures, Begin(c) \/ Continue(c) \/ Crash(c)
      PROVE  [Ledger!LedgerNext]_Recs
  <2>1. \/ QuietStep(c) \/ LoadManifest(c) \/ LockRun(c)
        \/ RecordAndSave(c) \/ FinishSave(c)
    BY <1>6 DEF Begin, Continue, QuietStep
  <2> QED
    BY <2>1, <1>1, <1>2, <1>3, <1>4
<1> QED
  BY <1>5, <1>6 DEF DirNext

\* Captures of a new run implement the ledger, however they interleave and die:
\* each adds its record to those of the others (orchestrate.py, the reload under
\* the lock; store.py, lock).
THEOREM ImplementsLedger ==
  ASSUME Recognisable, Editors = {}, Start = NoFile
  PROVE  DirSpec => LedgerImplemented
<1>1. DirInit => Ledger!LedgerInit
  BY FilesAssumption DEF DirInit, Ledger!LedgerInit, Recs, Manifest, EmptyManifest
<1>2. LedgerInv /\ [DirNext]_vars => [Ledger!LedgerNext]_Recs
  BY LedgerStep
<1> QED
  BY <1>1, <1>2, LedgerInvariance, PTL
     DEF DirSpec, LedgerImplemented, Ledger!LedgerSpec

-----------------------------------------------------------------------------
(* Types. *)

LocalFields == {"man", "key", "used", "hasRaw", "todo", "bases", "basis"}

\* Places before the baselines are read, and those from the measurement to the
\* snapshot.
NotMeasured == {"idle", "connect", "parsed", "dropInvRaw", "replaceInv", "writeInvRaw",
                "inventory", "baselines"}
WithMeasurement == {"measured", "wrapped", "locked", "truncate", "write"}

\* What the types of the next step need: a baseline that is still to be read is
\* recorded in the manifest at hand, a measurement knows its inventory, and only
\* an inventory of the run has a raw record.
LocalsTyped(c) ==
    /\ IsManifest(loc[c].man)
    /\ loc[c].key \in Endpoints \cup {Given}
    /\ loc[c].used \in Captures \cup {ByHand, Given, NoFile}
    /\ loc[c].hasRaw \in BOOLEAN
    /\ loc[c].todo \subseteq Slots
    /\ loc[c].basis \subseteq Captures
    /\ DOMAIN loc[c] = LocalFields
    /\ DOMAIN loc[c].bases \subseteq Slots
    /\ \A k \in DOMAIN loc[c].bases : loc[c].bases[k] \in Captures
    /\ pc[c] \in NotMeasured =>
         loc[c].todo \subseteq DOMAIN loc[c].man.captures /\ ~loc[c].hasRaw
    /\ pc[c] \in WithMeasurement => loc[c].used # NoFile
    /\ loc[c].hasRaw => loc[c].key # Given

FilesTyped ==
    /\ yml \in {NoFile, Torn} \/ IsManifest(yml)
    /\ DOMAIN snap = Slots
    /\ \A k \in Slots : snap[k] \in {NoFile, Torn} \/ snap[k] \in Snapshots
    /\ DOMAIN raw = Slots
    /\ \A k \in Slots : raw[k] = NoFile \/ IsBundle(raw[k])
    /\ inv \in [Endpoints -> Captures \cup {NoFile, ByHand}]
    /\ invRaw \in [Endpoints -> Captures \cup {NoFile}]
    /\ scratch \in [Endpoints -> Captures \cup {NoFile}]
    /\ crashes \in 0..MaxCrashes

DirTypeInv ==
    /\ FilesTyped
    /\ pc \in [Captures -> Running \cup Ended \cup {"idle"}]
    /\ DOMAIN loc = Captures
    /\ \A c \in Captures : LocalsTyped(c)
    /\ epc \in [Editors -> EditPlaces]
    /\ DOMAIN eman = Editors
    /\ \A e \in Editors : IsManifest(eman[e])

LEMMA ManifestTypes ==
  /\ IsManifest(EmptyManifest)
  /\ \A node \in Nodes, phase \in Phases : \A m :
       IsManifest(m) => IsManifest(WithDevice(m, node, phase))
  /\ \A slot \in Slots, taken \in Captures : \A m :
       IsManifest(m) => IsManifest(RecordCapture(m, slot, taken))
<1>1. IsManifest(EmptyManifest)
  BY DEF IsManifest, EmptyManifest, Kinds
<1>2. ASSUME NEW m, NEW node \in Nodes, NEW phase \in Phases, IsManifest(m)
      PROVE  IsManifest(WithDevice(m, node, phase))
  BY <1>2 DEF IsManifest, WithDevice, Assign, PhaseToRole, Roles
<1>3. ASSUME NEW m, NEW slot \in Slots, NEW taken \in Captures, IsManifest(m)
      PROVE  IsManifest(RecordCapture(m, slot, taken))
  BY <1>3 DEF IsManifest, RecordCapture, Assign
<1> QED
  BY <1>1, <1>2, <1>3

LEMMA EditedTyped ==
  ASSUME NEW e \in Editors, NEW m, IsManifest(m)
  PROVE  IsManifest(Edited(e, m))
<1>1. CASE Edit[e].kind = "set" /\ Edit[e].ports \subseteq [old : Ports \cup {AllPorts}, new : Ports \cup {AllPorts}]
  <2>1. RolesMapped(m, Edit[e].ports) \subseteq Pairs
    BY <1>1 DEF RolesMapped, WithRole, Pairs, Endpoints, IsManifest
  <2> QED
    BY <1>1, <2>1 DEF Edited, IsManifest
<1>2. CASE Edit[e].kind = "add" /\ Edit[e].pair \in Pairs
  BY <1>2 DEF Edited, IsManifest
<1> QED
  BY <1>1, <1>2, EditAssumption

\* The baselines of a capture are records of the manifest it has read.
LEMMA BaselinesRecorded ==
  ASSUME NEW m, NEW c \in Captures
  PROVE  Baselines(m, c) \subseteq DOMAIN m.captures
<1>1. \A slot : FindCapture(m, slot) \in DOMAIN m.captures \cup {NoSlot}
  BY DEF FindCapture
<1>2. \A node, port : OwnPre(m, node, port) \in DOMAIN m.captures \cup {NoSlot}
  BY <1>1 DEF OwnPre, FirstFound
<1>3. \A node, port : FindPreBaseline(m, node, port) \in DOMAIN m.captures \cup {NoSlot}
  BY <1>1, <1>2 DEF FindPreBaseline
<1> QED
  BY <1>2, <1>3 DEF Baselines, BaselineSlots

LEMMA JobTypes ==
  ASSUME NEW c \in Captures
  PROVE  /\ Job[c].node \in Nodes /\ Job[c].phase \in Phases
         /\ OwnEndpoint(c) \in Endpoints /\ BoxEndpoint(c) \in Endpoints
         /\ SlotOf(c) \in Slots
  BY JobAssumption DEF OwnEndpoint, BoxEndpoint, Endpoints, SlotOf, Slot, Slots

\* The baselines of a past capture are past captures.
LEMMA PastTypes ==
  ASSUME NEW c
  PROVE  /\ DOMAIN Past \subseteq Slots
         /\ \A k \in DOMAIN Past : Past[k] \in Captures
         /\ PastBaselines(c) \subseteq DOMAIN Past
         /\ PastBasis(c) \subseteq Captures
         /\ DOMAIN PastIdentities(c) \subseteq PastBaselines(c)
         /\ \A b \in DOMAIN PastIdentities(c) : PastIdentities(c)[b] \in Captures
<1>1. /\ DOMAIN Past \subseteq Slots
      /\ \A k \in DOMAIN Past : Past[k] \in Captures
  BY StartAssumption DEF Past, IsManifest
<1>2. PastBaselines(c) \subseteq DOMAIN Past
  <2>1. CASE IsPast(c)
    <3>1. c \in Captures /\ Past = Start.captures
      BY <1>1, <2>1 DEF IsPast, Past
    <3> QED
      BY <2>1, <3>1, BaselinesRecorded DEF PastBaselines
  <2>2. CASE ~IsPast(c)
    BY <2>2 DEF PastBaselines
  <2> QED
    BY <2>1, <2>2
<1>3. PastBasis(c) \subseteq Captures
  BY <1>1, <1>2 DEF PastBasis
<1>4. /\ DOMAIN PastIdentities(c) \subseteq PastBaselines(c)
      /\ \A b \in DOMAIN PastIdentities(c) : PastIdentities(c)[b] \in Captures
  <2>1. CASE c \in Unsigned
    <3>1. PastIdentities(c) = <<>>
      BY <2>1 DEF PastIdentities
    <3>2. DOMAIN PastIdentities(c) = {}
      BY <3>1
    <3> QED
      BY <3>2
  <2>2. CASE c \notin Unsigned
    BY <1>1, <1>2, <2>2 DEF PastIdentities
  <2> QED
    BY <2>1, <2>2
<1> QED
  BY <1>1, <1>2, <1>3, <1>4

LEMMA TypeInit == DirInit => DirTypeInv
<1> SUFFICES ASSUME DirInit PROVE DirTypeInv
  OBVIOUS
<1>1. /\ DOMAIN Past \subseteq Slots
      /\ \A k \in DOMAIN Past : Past[k] \in Captures
  BY StartAssumption DEF Past, IsManifest
<1>2. \A c \in Captures : PastInventory(c) \in Captures \cup {ByHand, Given}
  BY DEF PastInventory
<1>3. /\ yml \in {NoFile, Torn} \/ IsManifest(yml)
      /\ crashes \in 0..MaxCrashes
  BY StartAssumption, CrashAssumption DEF DirInit
<1>4. /\ DOMAIN snap = Slots
      /\ \A k \in Slots : snap[k] \in {NoFile, Torn} \/ snap[k] \in Snapshots
  BY <1>1, <1>2, PastTypes DEF DirInit, Snapshots
<1>5. /\ DOMAIN raw = Slots
      /\ \A k \in Slots : raw[k] = NoFile \/ IsBundle(raw[k])
  <2>1. ASSUME NEW k \in DOMAIN Past
        PROVE  IsBundle([taken |-> Past[k], names |-> PastBaselines(Past[k]),
                         bases |-> PastIdentities(Past[k]),
                         inventory |-> PastInventory(Past[k])])
    <3> DEFINE names == PastBaselines(Past[k])
               identities == PastIdentities(Past[k])
    <3>1. /\ names \subseteq Slots
          /\ DOMAIN identities \subseteq names
          /\ \A b \in DOMAIN identities : identities[b] \in Captures
      BY PastTypes
    <3>2. Past[k] \in Captures /\ PastInventory(Past[k]) \in Captures \cup {ByHand, Given}
      BY <1>1, <1>2
    <3> HIDE DEF names, identities
    <3>3. IsBundle([taken |-> Past[k], names |-> names, bases |-> identities,
                    inventory |-> PastInventory(Past[k])])
      BY <3>1, <3>2 DEF IsBundle
    <3> QED
      BY <3>3 DEF names, identities
  <2> QED
    BY <1>1, <2>1 DEF DirInit
<1>6. /\ inv \in [Endpoints -> Captures \cup {NoFile, ByHand}]
      /\ invRaw \in [Endpoints -> Captures \cup {NoFile}]
      /\ scratch \in [Endpoints -> Captures \cup {NoFile}]
  <2>1. \A e : PastParsers(e) # {} => (CHOOSE c \in PastParsers(e) : TRUE) \in Captures
    BY DEF PastParsers
  <2> QED
    BY <2>1 DEF DirInit
<1>7. /\ pc \in [Captures -> Running \cup Ended \cup {"idle"}]
      /\ epc \in [Editors -> EditPlaces]
      /\ DOMAIN eman = Editors
      /\ \A e \in Editors : IsManifest(eman[e])
  BY ManifestTypes DEF DirInit, Ended, EditPlaces
<1>8. /\ DOMAIN loc = Captures
      /\ \A c \in Captures : loc[c] =
           [man |-> EmptyManifest, key |-> OwnEndpoint(c),
            used |-> IF IsPast(c) THEN PastInventory(c) ELSE NoFile,
            hasRaw |-> FALSE, todo |-> {}, bases |-> <<>>, basis |-> PastBasis(c)]
  BY DEF DirInit
<1>9. \A c \in Captures : pc[c] \in {"idle", "done"}
  BY DEF DirInit
<1>10. \A c \in Captures : LocalsTyped(c)
  <2> SUFFICES ASSUME NEW c \in Captures PROVE LocalsTyped(c)
    OBVIOUS
  <2>1. /\ DOMAIN loc[c] = LocalFields
        /\ loc[c].man = EmptyManifest /\ loc[c].key = OwnEndpoint(c)
        /\ loc[c].used \in Captures \cup {ByHand, Given, NoFile}
        /\ loc[c].hasRaw = FALSE /\ loc[c].todo = {} /\ loc[c].basis = PastBasis(c)
        /\ loc[c].bases = <<>>
    BY <1>2, <1>8 DEF LocalFields
  <2>2. pc[c] \notin WithMeasurement
    BY <1>9 DEF WithMeasurement
  <2>3. DOMAIN loc[c].bases = {}
    BY <2>1
  <2> QED
    BY <2>1, <2>2, <2>3, ManifestTypes, JobTypes, PastTypes DEF LocalsTyped
<1> QED
  BY <1>3, <1>4, <1>5, <1>6, <1>7, <1>8, <1>10 DEF DirTypeInv, FilesTyped


\* A step of one capture.
LEMMA OneCaptureTyped ==
  ASSUME DirTypeInv, NEW c \in Captures, UNCHANGED editVars, FilesTyped',
         pc' = [pc EXCEPT ![c] = pc'[c]], pc'[c] \in Running \cup Ended,
         DOMAIN loc' = Captures, \A d \in Captures \ {c} : loc'[d] = loc[d],
         LocalsTyped(c)'
  PROVE  DirTypeInv'
<1>1. \A d \in Captures : LocalsTyped(d)'
  BY DEF DirTypeInv, LocalsTyped
<1> QED
  BY <1>1 DEF DirTypeInv, editVars

\* A step that leaves the files and the variables of the capture as they are.
LEMMA QuietTyped ==
  ASSUME DirTypeInv, NEW c \in Captures, NEW place \in Ended \cup Running,
         UNCHANGED <<editVars, loc>>, Goto(c, place), FilesTyped',
         place \in NotMeasured => pc[c] \in NotMeasured,
         place \in WithMeasurement => pc[c] \in WithMeasurement
  PROVE  DirTypeInv'
<1>1. pc' = [pc EXCEPT ![c] = pc'[c]] /\ pc'[c] = place
  BY DEF Goto, DirTypeInv
<1>2. LocalsTyped(c)'
  BY <1>1 DEF LocalsTyped, DirTypeInv
<1> QED
  BY <1>1, <1>2, OneCaptureTyped DEF DirTypeInv

\* A step that fails the capture changes no file.
LEMMA FailTyped ==
  ASSUME DirTypeInv, NEW c \in Captures, Fail(c)
  PROVE  DirTypeInv'
<1>1. FilesTyped'
  BY DEF Fail, disk, DirTypeInv, FilesTyped
<1> QED
  BY <1>1, QuietTyped DEF Fail, Ended, NotMeasured, WithMeasurement

LEMMA CaptureTypes ==
  ASSUME DirTypeInv, NEW c \in Captures, Begin(c) \/ Continue(c) \/ Crash(c)
  PROVE  DirTypeInv'
<1> USE JobTypes
<1>1. CASE LoadManifest(c)
  <2> DEFINE m == Manifest
  <2>1. FilesTyped' /\ UNCHANGED editVars
    BY <1>1 DEF LoadManifest, disk, DirTypeInv, FilesTyped
  <2>2. IsManifest(m) /\ Baselines(m, c) \subseteq DOMAIN m.captures /\ DOMAIN m.captures \subseteq Slots
    BY <1>1, ManifestTypes, BaselinesRecorded
       DEF LoadManifest, Readable, Manifest, DirTypeInv, FilesTyped, IsManifest
  <2>3. \E place \in {"connect", "inventory"} : pc' = [pc EXCEPT ![c] = place]
    BY <1>1 DEF LoadManifest, Goto
  <2>4. loc' = [loc EXCEPT ![c].man = m, ![c].todo = Baselines(m, c)] /\ pc[c] = "idle"
    BY <1>1 DEF LoadManifest
  <2> HIDE DEF m
  <2>5. pc' = [pc EXCEPT ![c] = pc'[c]] /\ pc'[c] \in {"connect", "inventory"}
    BY <2>3 DEF DirTypeInv
  <2>6. LocalsTyped(c)'
    BY <2>2, <2>4, <2>5 DEF LocalsTyped, LocalFields, DirTypeInv, NotMeasured, WithMeasurement
  <2> QED
    BY <2>1, <2>4, <2>5, <2>6, OneCaptureTyped DEF DirTypeInv, Running
<1>2. CASE RefuseCapture(c)
  BY <1>2, FailTyped DEF RefuseCapture
<1>3. CASE FindInventory(c)
  <2>1. CASE Fail(c)
    BY <2>1, FailTyped
  <2>2. ASSUME NEW key \in Endpoints \cup {Given}, Goto(c, "baselines"),
               loc' = [loc EXCEPT ![c].key = key], UNCHANGED <<disk, scratch, editVars, crashes>>
        PROVE  DirTypeInv'
    <3>1. FilesTyped'
      BY <2>2 DEF disk, DirTypeInv, FilesTyped
    <3>2. pc' = [pc EXCEPT ![c] = pc'[c]] /\ pc'[c] = "baselines" /\ pc[c] = "inventory"
      BY <1>3, <2>2 DEF FindInventory, Goto, DirTypeInv
    <3>3. LocalsTyped(c)'
      BY <2>2, <3>2 DEF LocalsTyped, LocalFields, DirTypeInv, NotMeasured, WithMeasurement
    <3> QED
      BY <2>2, <3>1, <3>2, <3>3, OneCaptureTyped DEF DirTypeInv, Running
  <2> QED
    BY <1>3, <2>1, <2>2 DEF FindInventory
<1>4. CASE ParseServices(c)
  <2>1. FilesTyped'
    BY <1>4 DEF ParseServices, disk, DirTypeInv, FilesTyped
  <2> QED
    BY <1>4, <2>1, QuietTyped
       DEF ParseServices, disk, NotMeasured, WithMeasurement, Running, Ended
<1>5. CASE ParseFails(c)
  <2>1. FilesTyped'
    BY <1>5 DEF ParseFails, disk, DirTypeInv, FilesTyped, DropScratch
  <2> QED
    BY <1>5, <2>1, QuietTyped
       DEF ParseFails, disk, NotMeasured, WithMeasurement, Running, Ended
<1>6. CASE ParseLock(c)
  <2>1. FilesTyped'
    BY <1>6 DEF ParseLock, disk, DirTypeInv, FilesTyped
  <2> QED
    BY <1>6, <2>1, QuietTyped
       DEF ParseLock, disk, NotMeasured, WithMeasurement, Running, Ended
<1>7. CASE DropInventoryRaw(c)
  <2>1. FilesTyped'
    BY <1>7 DEF DropInventoryRaw, disk, DirTypeInv, FilesTyped
  <2> QED
    BY <1>7, <2>1, QuietTyped
       DEF DropInventoryRaw, disk, NotMeasured, WithMeasurement, Running, Ended
<1>8. CASE DropInventoryRawFails(c)
  <2>1. FilesTyped'
    BY <1>8 DEF DropInventoryRawFails, disk, DirTypeInv, FilesTyped, DropScratch
  <2> QED
    BY <1>8, <2>1, QuietTyped
       DEF DropInventoryRawFails, disk, NotMeasured, WithMeasurement, Running, Ended
<1>9. CASE ReplaceInventory(c)
  <2>1. FilesTyped'
    BY <1>9 DEF ReplaceInventory, disk, DirTypeInv, FilesTyped, DropScratch
  <2> QED
    BY <1>9, <2>1, QuietTyped
       DEF ReplaceInventory, disk, NotMeasured, WithMeasurement, Running, Ended
<1>10. CASE ScratchMissing(c)
  BY <1>10, FailTyped DEF ScratchMissing
<1>11. CASE WriteInventoryRaw(c)
  <2>1. FilesTyped'
    BY <1>11 DEF WriteInventoryRaw, disk, DirTypeInv, FilesTyped, DropScratch
  <2> QED
    BY <1>11, <2>1, QuietTyped
       DEF WriteInventoryRaw, disk, NotMeasured, WithMeasurement, Running, Ended
<1>12. CASE LoadBaseline(c)
  <2>1. CASE Fail(c)
    BY <2>1, FailTyped
  <2>2. CASE ~Fail(c)
    <3>1. PICK k \in loc[c].todo :
            /\ snap[k] \notin {NoFile, Torn}
            /\ loc' = [loc EXCEPT ![c].todo = @ \ {k},
                                  ![c].basis = @ \cup {snap[k].taken},
                                  ![c].bases = Assign(@, k, loc[c].man.captures[k])]
            /\ UNCHANGED <<disk, pc, scratch, editVars, crashes>>
      BY <1>12, <2>2 DEF LoadBaseline
    <3>2. FilesTyped' /\ pc[c] = "baselines"
      BY <1>12, <3>1 DEF LoadBaseline, disk, DirTypeInv, FilesTyped
    <3>3. /\ k \in Slots /\ k \in DOMAIN loc[c].man.captures
          /\ snap[k].taken \in Captures
          /\ loc[c].man.captures[k] \in Captures
      BY <3>1, <3>2 DEF DirTypeInv, FilesTyped, LocalsTyped, NotMeasured, IsManifest, Snapshots
    <3>4. LocalsTyped(c)'
      <4> DEFINE bases == Assign(loc[c].bases, k, loc[c].man.captures[k])
      <4>1. DOMAIN bases \subseteq Slots /\ \A b \in DOMAIN bases : bases[b] \in Captures
        BY <3>3 DEF Assign, DirTypeInv, LocalsTyped
      <4>2. loc' = [loc EXCEPT ![c].todo = @ \ {k}, ![c].basis = @ \cup {snap[k].taken},
                               ![c].bases = bases]
        BY <3>1 DEF DirTypeInv, LocalsTyped, LocalFields
      <4> HIDE DEF bases
      <4> QED
        BY <3>1, <3>2, <3>3, <4>1, <4>2
           DEF DirTypeInv, LocalsTyped, LocalFields, NotMeasured, WithMeasurement
    <3> QED
      BY <3>1, <3>2, <3>4, OneCaptureTyped DEF DirTypeInv, Running
  <2> QED
    BY <2>1, <2>2
<1>13. CASE Measure(c)
  <2>1. CASE Fail(c)
    BY <2>1, FailTyped
  <2>2. CASE ~Fail(c)
    <3>1. /\ loc' = [loc EXCEPT ![c].used = Author(c)] /\ Author(c) # NoFile
          /\ Goto(c, "measured") /\ UNCHANGED <<disk, scratch, editVars, crashes>>
          /\ pc[c] = "baselines"
      BY <1>13, <2>2 DEF Measure
    <3>2. FilesTyped'
      BY <3>1 DEF disk, DirTypeInv, FilesTyped
    <3>3. Author(c) \in Captures \cup {ByHand, Given}
      BY <3>1 DEF Author, DirTypeInv, LocalsTyped, FilesTyped
    <3>4. pc' = [pc EXCEPT ![c] = pc'[c]] /\ pc'[c] = "measured"
      BY <3>1 DEF Goto, DirTypeInv
    <3>5. LocalsTyped(c)'
      BY <3>1, <3>3, <3>4 DEF DirTypeInv, LocalsTyped, LocalFields, NotMeasured, WithMeasurement
    <3> QED
      BY <3>1, <3>2, <3>4, <3>5, OneCaptureTyped DEF DirTypeInv, Running
  <2> QED
    BY <2>1, <2>2
<1>14. CASE SessionFails(c)
  BY <1>14, FailTyped DEF SessionFails
<1>15. CASE WrapSession(c)
  <2>1. FilesTyped' /\ UNCHANGED editVars
    BY <1>15 DEF WrapSession, disk, DirTypeInv, FilesTyped
  <2>2. pc' = [pc EXCEPT ![c] = pc'[c]] /\ pc'[c] = "wrapped" /\ pc[c] = "measured"
    BY <1>15 DEF WrapSession, Goto, DirTypeInv
  <2>3. PICK has \in BOOLEAN : loc' = [loc EXCEPT ![c].hasRaw = has] /\ (has => loc[c].key # Given)
    BY <1>15 DEF WrapSession
  <2>4. LocalsTyped(c)'
    BY <2>2, <2>3 DEF DirTypeInv, LocalsTyped, LocalFields, NotMeasured, WithMeasurement
  <2> QED
    BY <2>1, <2>2, <2>3, <2>4, OneCaptureTyped DEF DirTypeInv, Running
<1>16. CASE LockRun(c)
  <2> DEFINE m == WithDevice(Manifest, Job[c].node, Job[c].phase)
  <2>1. FilesTyped' /\ UNCHANGED editVars
    BY <1>16 DEF LockRun, disk, DirTypeInv, FilesTyped
  <2>2. pc' = [pc EXCEPT ![c] = pc'[c]] /\ pc'[c] = "locked" /\ pc[c] = "wrapped"
    BY <1>16 DEF LockRun, Goto, DirTypeInv
  <2>3. IsManifest(m)
    BY <1>16, ManifestTypes DEF LockRun, Readable, Manifest, DirTypeInv, FilesTyped
  <2>4. loc' = [loc EXCEPT ![c].man = m]
    BY <1>16 DEF LockRun
  <2> HIDE DEF m
  <2>5. LocalsTyped(c)'
    BY <2>2, <2>3, <2>4 DEF DirTypeInv, LocalsTyped, LocalFields, NotMeasured, WithMeasurement
  <2> QED
    BY <2>1, <2>2, <2>4, <2>5, OneCaptureTyped DEF DirTypeInv, Running
<1>17. CASE ReloadFails(c)
  BY <1>17, FailTyped DEF ReloadFails
<1>18. CASE DropRaw(c)
  <2>1. FilesTyped'
    BY <1>18 DEF DropRaw, disk, DirTypeInv, FilesTyped
  <2> QED
    BY <1>18, <2>1, QuietTyped
       DEF DropRaw, disk, NotMeasured, WithMeasurement, Running, Ended
<1>19. CASE TruncateSnapshot(c)
  <2>1. FilesTyped'
    BY <1>19 DEF TruncateSnapshot, disk, DirTypeInv, FilesTyped
  <2> QED
    BY <1>19, <2>1, QuietTyped
       DEF TruncateSnapshot, disk, NotMeasured, WithMeasurement, Running, Ended
<1>20. CASE SaveSnapshot(c)
  <2>1. FilesTyped'
    BY <1>20 DEF SaveSnapshot, disk, DirTypeInv, FilesTyped, LocalsTyped, WithMeasurement, Snapshots
  <2> QED
    BY <1>20, <2>1, QuietTyped
       DEF SaveSnapshot, disk, NotMeasured, WithMeasurement, Running, Ended
<1>21. CASE WriteRaw(c)
  <2>1. FilesTyped'
    BY <1>21 DEF WriteRaw, disk, DirTypeInv, FilesTyped, LocalsTyped, IsBundle, Copied, Author
  <2> QED
    BY <1>21, <2>1, QuietTyped
       DEF WriteRaw, disk, NotMeasured, WithMeasurement, Running, Ended
<1>22. CASE RecordAndSave(c)
  <2> DEFINE m == RecordCapture(loc[c].man, SlotOf(c), c)
  <2>1. FilesTyped' /\ UNCHANGED editVars
    BY <1>22 DEF RecordAndSave, DirTypeInv, FilesTyped
  <2>2. pc' = [pc EXCEPT ![c] = pc'[c]] /\ pc'[c] = "saving" /\ pc[c] = "record"
    BY <1>22 DEF RecordAndSave, Goto, DirTypeInv
  <2>3. IsManifest(m)
    BY ManifestTypes DEF DirTypeInv, LocalsTyped
  <2>4. loc' = [loc EXCEPT ![c].man = m]
    BY <1>22 DEF RecordAndSave, DirTypeInv, LocalsTyped, LocalFields
  <2> HIDE DEF m
  <2>5. LocalsTyped(c)'
    BY <2>2, <2>3, <2>4 DEF DirTypeInv, LocalsTyped, LocalFields, NotMeasured, WithMeasurement
  <2> QED
    BY <2>1, <2>2, <2>4, <2>5, OneCaptureTyped DEF DirTypeInv, Running
<1>23. CASE SaveRefused(c)
  BY <1>23, FailTyped DEF SaveRefused
<1>24. CASE FinishSave(c)
  <2>1. FilesTyped'
    BY <1>24 DEF FinishSave, disk, DirTypeInv, FilesTyped, Filled, LocalsTyped
  <2> QED
    BY <1>24, <2>1, QuietTyped
       DEF FinishSave, disk, NotMeasured, WithMeasurement, Running, Ended
<1>25. CASE Crash(c)
  <2>1. FilesTyped'
    BY <1>25, CrashAssumption DEF Crash, disk, DirTypeInv, FilesTyped
  <2> QED
    BY <1>25, <2>1, QuietTyped
       DEF Crash, disk, NotMeasured, WithMeasurement, Running, Ended
<1> QED
  BY <1>1, <1>2, <1>3, <1>4, <1>5, <1>6, <1>7, <1>8, <1>9, <1>10, <1>11, <1>12, <1>13, <1>14, <1>15, <1>16, <1>17, <1>18, <1>19, <1>20, <1>21, <1>22, <1>23, <1>24, <1>25
     DEF Begin, Continue

LEMMA EditTypes ==
  ASSUME DirTypeInv, NEW e \in Editors, EditStep(e)
  PROVE  DirTypeInv'
<1>1. \A c \in Captures : LocalsTyped(c)'
  BY DEF EditStep, LoadForEdit, RefuseEdit, SaveEdit, FinishEdit, DirTypeInv, LocalsTyped
<1>2. FilesTyped'
  BY DEF EditStep, LoadForEdit, RefuseEdit, SaveEdit, FinishEdit, DirTypeInv, FilesTyped, disk, Filled
<1>3. /\ epc' \in [Editors -> EditPlaces]
      /\ DOMAIN eman' = Editors
      /\ \A d \in Editors : IsManifest(eman'[d])
  <2>1. CASE LoadForEdit(e)
    <3> DEFINE m == Edited(e, Manifest)
    <3>1. IsManifest(m)
      BY <2>1, ManifestTypes, EditedTyped
         DEF LoadForEdit, Readable, Manifest, DirTypeInv, FilesTyped
    <3>2. eman' = [eman EXCEPT ![e] = m] /\ epc' = [epc EXCEPT ![e] = "loaded"]
      BY <2>1 DEF LoadForEdit
    <3> HIDE DEF m
    <3> QED
      BY <3>1, <3>2 DEF DirTypeInv, EditPlaces
  <2> QED
    BY <2>1 DEF EditStep, RefuseEdit, SaveEdit, FinishEdit, DirTypeInv, EditPlaces
<1> QED
  BY <1>1, <1>2, <1>3
     DEF EditStep, LoadForEdit, RefuseEdit, SaveEdit, FinishEdit, DirTypeInv

LEMMA TypeStep ==
  ASSUME DirTypeInv, [DirNext]_vars
  PROVE  DirTypeInv'
<1>1. CASE UNCHANGED vars
  BY <1>1 DEF vars, disk, editVars, DirTypeInv, FilesTyped, LocalsTyped
<1> QED
  BY <1>1, CaptureTypes, EditTypes DEF DirNext

\* Files, places and variables keep their types, for any captures and edits: what
\* a capture writes is always complete (orchestrate.py, capture_into_run).
THEOREM DirTypesHold == DirSpec => []DirTypeOK
<1>1. DirTypeInv => DirTypeOK
  BY DEF DirTypeInv, DirTypeOK, FilesTyped, LocalsTyped, EditPlaces
<1> QED
  BY <1>1, TypeInit, TypeStep, PTL DEF DirSpec

-----------------------------------------------------------------------------
(* An inventory and its raw record, when no two captures parse the services  *)
(* of one endpoint at once.  The server keeps them apart (CaptureManager,    *)
(* OneActivePerDevice); two command lines may do it, and run                 *)
(* MCRunDirectoryScratch shows what happens then.                            *)

ParserPlaces == {"connect", "parsed", "dropInvRaw", "replaceInv", "writeInvRaw"}

ParsersApart ==
    \A c, d \in Captures :
        /\ pc[c] \in ParserPlaces /\ pc[d] \in ParserPlaces
        /\ OwnEndpoint(c) = OwnEndpoint(d)
        => c = d

\* The scratch file is the capture's own until it is moved, and the raw record of the
\* old inventory is gone before that.
ScratchInv ==
    \A c \in Captures :
        /\ pc[c] \in {"parsed", "dropInvRaw", "replaceInv"} => scratch[OwnEndpoint(c)] = c
        /\ pc[c] \in {"replaceInv", "writeInvRaw"} => invRaw[OwnEndpoint(c)] = NoFile
        /\ pc[c] = "writeInvRaw" => inv[OwnEndpoint(c)] = c

\* A step outside _parse_services touches no inventory.
LEMMA ElsewhereMatches ==
  ASSUME DirTypeInv, InventoryRawMatches, ScratchInv, NEW c \in Captures,
         NEW place \in (Running \cup Ended) \ {"parsed", "dropInvRaw", "replaceInv", "writeInvRaw"},
         Goto(c, place), UNCHANGED <<inv, invRaw, scratch>>
  PROVE  (InventoryRawMatches /\ ScratchInv)'
  BY DEF DirTypeInv, InventoryRawMatches, ScratchInv, Goto

\* A step of _parse_services touches the files of its own endpoint.
LEMMA ParserMatches ==
  ASSUME DirTypeInv, ParsersApart, InventoryRawMatches, ScratchInv, NEW c \in Captures,
         pc[c] \in ParserPlaces, pc' = [pc EXCEPT ![c] = pc'[c]],
         \A e \in Endpoints \ {OwnEndpoint(c)} :
            inv'[e] = inv[e] /\ invRaw'[e] = invRaw[e] /\ scratch'[e] = scratch[e],
         LET e == OwnEndpoint(c)
         IN  /\ invRaw'[e] # NoFile => inv'[e] \in {invRaw'[e], NoFile}
             /\ pc'[c] \in {"parsed", "dropInvRaw", "replaceInv"} => scratch'[e] = c
             /\ pc'[c] \in {"replaceInv", "writeInvRaw"} => invRaw'[e] = NoFile
             /\ pc'[c] = "writeInvRaw" => inv'[e] = c
  PROVE  (InventoryRawMatches /\ ScratchInv)'
<1>1. InventoryRawMatches'
  BY DEF InventoryRawMatches
<1>2. ASSUME NEW d \in Captures, d # c, pc[d] \in ParserPlaces
      PROVE  OwnEndpoint(d) \in Endpoints \ {OwnEndpoint(c)}
  BY <1>2, JobTypes DEF ParsersApart
<1>3. \A d \in Captures \ {c} : pc'[d] = pc[d]
  BY DEF DirTypeInv
<1>4. ScratchInv'
  BY <1>2, <1>3 DEF ScratchInv, ParserPlaces
<1> QED
  BY <1>1, <1>4

LEMMA MatchesStep ==
  ASSUME DirTypeInv, ParsersApart, InventoryRawMatches, ScratchInv, [DirNext]_vars
  PROVE  (InventoryRawMatches /\ ScratchInv)'
<1>1. ASSUME NEW c \in Captures, Begin(c) \/ Continue(c) \/ Crash(c)
      PROVE  (InventoryRawMatches /\ ScratchInv)'
  <2> USE JobTypes DEF Goto, Fail, disk, Running, Ended, ParserPlaces, DropScratch
  <2>1. CASE ParseServices(c)
    BY <2>1, ParserMatches DEF ParseServices, DirTypeInv, FilesTyped, InventoryRawMatches
  <2>2. CASE ParseFails(c)
    BY <2>2, ParserMatches DEF ParseFails, DirTypeInv, FilesTyped, InventoryRawMatches
  <2>3. CASE ParseLock(c)
    BY <2>3, ParserMatches DEF ParseLock, DirTypeInv, FilesTyped, InventoryRawMatches, ScratchInv
  <2>4. CASE DropInventoryRaw(c)
    BY <2>4, ParserMatches DEF DropInventoryRaw, DirTypeInv, FilesTyped, ScratchInv
  <2>5. CASE DropInventoryRawFails(c)
    BY <2>5, ParserMatches DEF DropInventoryRawFails, DirTypeInv, FilesTyped, InventoryRawMatches
  <2>6. CASE ReplaceInventory(c)
    BY <2>6, ParserMatches DEF ReplaceInventory, DirTypeInv, FilesTyped, ScratchInv
  <2>7. CASE WriteInventoryRaw(c)
    <3>1. /\ pc[c] \in ParserPlaces /\ pc' = [pc EXCEPT ![c] = "baselines"] /\ pc'[c] = "baselines"
          /\ inv' = inv /\ inv[OwnEndpoint(c)] = c
      BY <2>7 DEF WriteInventoryRaw, DirTypeInv, ScratchInv
    <3>2. PICK written \in {c, NoFile} : invRaw' = [invRaw EXCEPT ![OwnEndpoint(c)] = written]
      BY <2>7 DEF WriteInventoryRaw
    <3>3. /\ invRaw'[OwnEndpoint(c)] = written
          /\ \A e \in Endpoints \ {OwnEndpoint(c)} : invRaw'[e] = invRaw[e] /\ scratch'[e] = scratch[e]
      BY <2>7, <3>2 DEF WriteInventoryRaw, DirTypeInv, FilesTyped
    <3> HIDE DEF Goto, Fail, disk, Running, Ended, DropScratch
    <3> QED
      BY <3>1, <3>2, <3>3, ParserMatches
  <2>8. CASE \E place \in (Running \cup Ended) \ {"parsed", "dropInvRaw", "replaceInv", "writeInvRaw"} :
               Goto(c, place) /\ UNCHANGED <<inv, invRaw, scratch>>
    BY <2>8, ElsewhereMatches
  <2>9. CASE LoadManifest(c)
    <3>1. Goto(c, "connect") \/ Goto(c, "inventory")
      BY <2>9 DEF LoadManifest
    <3> QED
      BY <2>9, <3>1, ElsewhereMatches DEF LoadManifest
  <2>10. CASE RefuseCapture(c) \/ ScratchMissing(c) \/ SessionFails(c) \/ ReloadFails(c) \/ SaveRefused(c)
    BY <2>10, <2>8 DEF RefuseCapture, ScratchMissing, SessionFails, ReloadFails, SaveRefused
  <2>11. CASE FindInventory(c) \/ Measure(c) \/ WrapSession(c) \/ LockRun(c)
    BY <2>11, <2>8 DEF FindInventory, Measure, WrapSession, LockRun
  <2>12. CASE DropRaw(c) \/ TruncateSnapshot(c) \/ SaveSnapshot(c) \/ WriteRaw(c)
    BY <2>12, <2>8 DEF DropRaw, TruncateSnapshot, SaveSnapshot, WriteRaw
  <2>13. CASE RecordAndSave(c) \/ FinishSave(c) \/ Crash(c)
    BY <2>13, <2>8 DEF RecordAndSave, FinishSave, Crash
  <2>14. CASE LoadBaseline(c)
    <3>1. CASE Fail(c)
      BY <3>1, <2>8
    <3>2. CASE ~Fail(c)
      BY <2>14, <3>2 DEF LoadBaseline, InventoryRawMatches, ScratchInv
    <3> QED
      BY <3>1, <3>2
  <2> HIDE DEF Goto, Fail, disk, Running, Ended, ParserPlaces, DropScratch
  <2> QED
    BY <1>1, <2>1, <2>2, <2>3, <2>4, <2>5, <2>6, <2>7, <2>9, <2>10, <2>11, <2>12, <2>13, <2>14
       DEF Begin, Continue
<1>2. ASSUME NEW e \in Editors, EditStep(e)
      PROVE  (InventoryRawMatches /\ ScratchInv)'
  BY <1>2 DEF EditStep, LoadForEdit, RefuseEdit, SaveEdit, FinishEdit, disk, InventoryRawMatches, ScratchInv
<1>3. CASE UNCHANGED vars
  BY <1>3 DEF vars, disk, InventoryRawMatches, ScratchInv
<1> QED
  BY <1>1, <1>2, <1>3 DEF DirNext

\* An inventory never lies beside the raw record of another one, wherever a capture
\* fails or dies in _parse_services, when no two captures parse the services of one
\* endpoint at once (orchestrate.py, _parse_services).
THEOREM InventoriesMatch ==
  DirSpec /\ []ParsersApart => []InventoryRawMatches
<1>1. DirInit => InventoryRawMatches /\ ScratchInv
  BY DEF DirInit, InventoryRawMatches, ScratchInv
<1>2. DirTypeInv /\ ParsersApart /\ InventoryRawMatches /\ ScratchInv /\ [DirNext]_vars
      => DirTypeInv' /\ (InventoryRawMatches /\ ScratchInv)'
  BY MatchesStep, TypeStep
<1> QED
  BY <1>1, <1>2, TypeInit, PTL DEF DirSpec

-----------------------------------------------------------------------------
(* Recorded measurements lie on disk.                                      *)

\* Boxes of the records of a manifest are boxes of the run.
HostsKnown(m) == \A k \in DOMAIN m.captures : k.node \in DOMAIN m.devices

\* A capture of a slot that is recorded already adds no box to the run, so that
\* save_manifest does not refuse it: only a slot without a record may be left
\* with the snapshot of a refused capture.
HostsInv ==
    /\ yml # Torn => HostsKnown(Manifest)
    /\ \A c \in Captures : pc[c] \in Reloaded \cup {"saving"} =>
         HostsKnown(loc[c].man) /\ Job[c].node \in DOMAIN loc[c].man.devices
    /\ \A c \in Captures :
         pc[c] \in Reloaded /\ SlotOf(c) \in DOMAIN loc[c].man.captures =>
            CheckKindDevices(loc[c].man.kind, loc[c].man.devices)

LEMMA WithDeviceHosts ==
  ASSUME NEW m, DOMAIN m = Fields, HostsKnown(m), NEW c \in Captures
  PROVE  LET w == WithDevice(m, Job[c].node, Job[c].phase)
         IN  /\ HostsKnown(w) /\ Job[c].node \in DOMAIN w.devices
             /\ SlotOf(c) \in DOMAIN w.captures => w = m
<1>1. CASE Job[c].node \in DOMAIN m.devices
  BY <1>1 DEF WithDevice
<1>2. CASE Job[c].node \notin DOMAIN m.devices
  <2>1. SlotOf(c) \notin DOMAIN m.captures
    BY <1>2 DEF HostsKnown, SlotOf, Slot
  <2>2. WithDevice(m, Job[c].node, Job[c].phase).devices
          = Assign(m.devices, Job[c].node, PhaseToRole(Job[c].phase))
    BY <1>2 DEF WithDevice, Fields
  <2> QED
    BY <2>1, <2>2, WithDeviceKeeps DEF HostsKnown, Assign
<1> QED
  BY <1>1, <1>2

LEMMA HostsInit == DirInit => HostsInv
<1> SUFFICES ASSUME DirInit PROVE HostsInv
  OBVIOUS
<1>1. HostsKnown(Manifest)
  BY StartAssumption, EmptyShape DEF DirInit, Manifest, HostsKnown
<1>2. \A c \in Captures : pc[c] \notin Reloaded \cup {"saving"}
  BY DEF DirInit, Reloaded
<1> QED
  BY <1>1, <1>2 DEF HostsInv

LEMMA HostsStep ==
  ASSUME Recognisable, Editors = {}, LedgerInv, ConsistencyInv, HostsInv, [DirNext]_vars
  PROVE  HostsInv'
<1> USE DEF LedgerInv, Shapes
<1>1. ASSUME NEW c \in Captures, QuietStep(c)
      PROVE  HostsInv'
  <2>1. /\ yml' = yml
        /\ \A d \in Captures : loc'[d].man = loc[d].man
        /\ \A d \in Captures : pc'[d] \in Reloaded => pc[d] \in Reloaded
        /\ \A d \in Captures : pc'[d] = "saving" => pc[d] = "saving"
    BY <1>1, QuietSteps
  <2> QED
    BY <2>1 DEF HostsInv, Manifest
<1>2. ASSUME NEW c \in Captures, LoadManifest(c)
      PROVE  HostsInv'
  BY <1>2 DEF LoadManifest, disk, Goto, Reloaded, HostsInv, Manifest
<1>3. ASSUME NEW c \in Captures, LockRun(c)
      PROVE  HostsInv'
  <2> DEFINE m == WithDevice(Manifest, Job[c].node, Job[c].phase)
  <2>1. DOMAIN Manifest = Fields
    BY <1>3, ReadManifest DEF LockRun, ConsistencyInv
  <2>2. HostsKnown(m) /\ Job[c].node \in DOMAIN m.devices
    BY <1>3, <2>1, WithDeviceHosts DEF LockRun, Readable, HostsInv
  <2>3. SlotOf(c) \in DOMAIN m.captures => CheckKindDevices(m.kind, m.devices)
    <3> SUFFICES ASSUME SlotOf(c) \in DOMAIN m.captures
                 PROVE  CheckKindDevices(m.kind, m.devices)
      OBVIOUS
    <3>1. m = Manifest
      BY <1>3, <2>1, WithDeviceHosts DEF LockRun, Readable, HostsInv
    <3>2. yml # NoFile
      BY <3>1, EmptyShape DEF Manifest
    <3> QED
      BY <1>3, <3>1, <3>2
         DEF LockRun, Readable, Manifest, ConsistencyInv, ManifestConsistent, Consistent
  <2>4. loc' = [loc EXCEPT ![c].man = m] /\ UNCHANGED yml /\ pc' = [pc EXCEPT ![c] = "locked"]
    BY <1>3 DEF LockRun, disk, Goto
  <2> HIDE DEF m
  <2> QED
    BY <2>2, <2>3, <2>4 DEF HostsInv, Manifest, Reloaded
<1>4. ASSUME NEW c \in Captures, RecordAndSave(c)
      PROVE  HostsInv'
  <2> DEFINE m == RecordCapture(loc[c].man, SlotOf(c), c)
  <2>1. DOMAIN m.captures = DOMAIN loc[c].man.captures \cup {SlotOf(c)} /\ m.devices = loc[c].man.devices
    <3>1. DOMAIN loc[c].man = Fields
      OBVIOUS
    <3>2. /\ m.captures = Assign(loc[c].man.captures, SlotOf(c), c)
          /\ m.devices = loc[c].man.devices
      BY <3>1, RecordKeeps
    <3> QED
      BY <3>2 DEF Assign
  <2>2. HostsKnown(m) /\ Job[c].node \in DOMAIN m.devices
    <3>1. HostsKnown(loc[c].man) /\ Job[c].node \in DOMAIN loc[c].man.devices
      BY <1>4 DEF RecordAndSave, HostsInv, Reloaded
    <3>2. SlotOf(c).node = Job[c].node
      BY DEF SlotOf, Slot
    <3> HIDE DEF m
    <3> QED
      BY <2>1, <3>1, <3>2 DEF HostsKnown
  <2>3. loc' = [loc EXCEPT ![c].man = m] /\ yml' = Torn /\ pc' = [pc EXCEPT ![c] = "saving"]
    BY <1>4 DEF RecordAndSave, Goto
  <2> HIDE DEF m
  <2> QED
    BY <2>2, <2>3 DEF HostsInv, Reloaded
<1>5. ASSUME NEW c \in Captures, FinishSave(c)
      PROVE  HostsInv'
  <2>1. Manifest' = loc[c].man /\ loc' = loc /\ pc' = [pc EXCEPT ![c] = "done"]
    BY <1>5, FinishRecords DEF FinishSave, Goto
  <2> QED
    BY <1>5, <2>1 DEF FinishSave, HostsInv, Reloaded
<1>6. CASE UNCHANGED vars
  BY <1>6 DEF vars, disk, HostsInv, Manifest
<1>7. ASSUME NEW c \in Captures, Begin(c) \/ Continue(c) \/ Crash(c)
      PROVE  HostsInv'
  <2>1. \/ QuietStep(c) \/ LoadManifest(c) \/ LockRun(c)
        \/ RecordAndSave(c) \/ FinishSave(c)
    BY <1>7 DEF Begin, Continue, QuietStep
  <2> QED
    BY <2>1, <1>1, <1>2, <1>3, <1>4, <1>5
<1> QED
  BY <1>6, <1>7 DEF DirNext

LiesMeasured(k, taken) == snap[k] \in Snapshots /\ snap[k].taken = taken

\* Every record of f is measured or being replaced, or is a pair of B: a slot and a
\* measurement that lies elsewhere (RunUpgrade has backups, here B is empty).
Kept(f, B) ==
    \A k \in DOMAIN f : LiesMeasured(k, f[k]) \/ Replacing(k) \/ <<k, f[k]>> \in B

MeasuredInv(B) ==
    /\ yml # Torn => Kept(Manifest.captures, B)
    /\ \A c \in Captures : pc[c] \in {"bundle", "record", "saving"} => LiesMeasured(SlotOf(c), c)
    /\ \A c \in Captures : pc[c] = "saving" =>
         /\ Kept(loc[c].man.captures, B)
         /\ loc[c].man.captures[SlotOf(c)] = c

ReplacePlaces == {"write", "bundle", "record", "saving", "crashed"}

\* What a step of a capture does to snapshots.
LEMMA SnapshotSteps ==
  ASSUME DirTypeInv, NEW c \in Captures, Begin(c) \/ Continue(c) \/ Crash(c)
  PROVE  /\ pc' = [pc EXCEPT ![c] = pc'[c]]
         /\ \/ /\ snap' = snap
               /\ pc[c] \in ReplacePlaces =>
                    pc'[c] \in ReplacePlaces \/ SaveRefused(c) \/ FinishSave(c)
               /\ pc'[c] \in {"bundle", "record", "saving"} =>
                    pc[c] \in {"bundle", "record", "saving"}
            \/ /\ snap' = [snap EXCEPT ![SlotOf(c)] = Torn]
               /\ pc[c] = "truncate" /\ pc'[c] = "write"
            \/ /\ snap' = [snap EXCEPT ![SlotOf(c)] = snap'[SlotOf(c)]]
               /\ LiesMeasured(SlotOf(c), c)'
               /\ pc[c] = "write" /\ pc'[c] = "bundle"
<1> USE DEF DirTypeInv, disk, Goto, Fail, ReplacePlaces
<1>1. CASE LoadManifest(c) \/ RefuseCapture(c) \/ FindInventory(c) \/ ParseServices(c) \/ ParseFails(c)
  BY <1>1 DEF LoadManifest, RefuseCapture, FindInventory, ParseServices, ParseFails
<1>2. CASE ParseLock(c) \/ DropInventoryRaw(c) \/ DropInventoryRawFails(c) \/ ReplaceInventory(c)
           \/ ScratchMissing(c) \/ WriteInventoryRaw(c)
  BY <1>2 DEF ParseLock, DropInventoryRaw, DropInventoryRawFails, ReplaceInventory,
              ScratchMissing, WriteInventoryRaw
<1>3. CASE LoadBaseline(c)
  BY <1>3 DEF LoadBaseline
<1>4. CASE Measure(c) \/ SessionFails(c) \/ WrapSession(c) \/ LockRun(c) \/ ReloadFails(c)
  BY <1>4 DEF Measure, SessionFails, WrapSession, LockRun, ReloadFails
<1>5. CASE DropRaw(c) \/ WriteRaw(c) \/ RecordAndSave(c) \/ SaveRefused(c) \/ FinishSave(c) \/ Crash(c)
  BY <1>5 DEF DropRaw, WriteRaw, RecordAndSave, SaveRefused, FinishSave, Crash
<1>6. CASE TruncateSnapshot(c)
  BY <1>6 DEF TruncateSnapshot
<1>7. CASE SaveSnapshot(c)
  <2> DEFINE s == [taken |-> c, tool |-> 1, basis |-> loc[c].basis, inventory |-> loc[c].used]
  <2>1. s \in Snapshots
    BY <1>7 DEF SaveSnapshot, LocalsTyped, WithMeasurement, Snapshots
  <2>2. SlotOf(c) \in DOMAIN snap
    BY JobTypes DEF FilesTyped
  <2>3. snap' = [snap EXCEPT ![SlotOf(c)] = s] /\ s.taken = c
    BY <1>7 DEF SaveSnapshot
  <2> HIDE DEF s
  <2> QED
    BY <1>7, <2>1, <2>2, <2>3 DEF SaveSnapshot, LiesMeasured
<1> QED
  BY <1>1, <1>2, <1>3, <1>4, <1>5, <1>6, <1>7 DEF Begin, Continue

\* No step loses a measurement, except that a capture that ends stops replacing its own slot.
LEMMA KeptSteps ==
  ASSUME DirTypeInv, NEW c \in Captures, Begin(c) \/ Continue(c) \/ Crash(c),
         NEW f, NEW B, Kept(f, B), DOMAIN f \subseteq Slots,
         SaveRefused(c) => SlotOf(c) \notin DOMAIN f,
         FinishSave(c) /\ SlotOf(c) \in DOMAIN f => LiesMeasured(SlotOf(c), f[SlotOf(c)])
  PROVE  Kept(f, B)'
<1> SUFFICES ASSUME NEW k \in DOMAIN f, <<k, f[k]>> \notin B
             PROVE  (LiesMeasured(k, f[k]) \/ Replacing(k))'
  BY DEF Kept
<1> USE DEF DirTypeInv, ReplacePlaces
<1>1. LiesMeasured(k, f[k]) \/ Replacing(k)
  BY DEF Kept
<1>2. pc' = [pc EXCEPT ![c] = pc'[c]]
  BY SnapshotSteps
<1>3. CASE SlotOf(c) = k /\ pc'[c] \in ReplacePlaces
  BY <1>3 DEF Replacing
<1>4. CASE SlotOf(c) = k /\ pc'[c] \notin ReplacePlaces
  <2>1. snap' = snap /\ (pc[c] \in ReplacePlaces => SaveRefused(c) \/ FinishSave(c))
    BY <1>4, SnapshotSteps
  <2>2. CASE FinishSave(c)
    BY <1>4, <2>1, <2>2 DEF LiesMeasured
  <2>3. CASE pc[c] \notin ReplacePlaces
    BY <1>1, <1>2, <1>4, <2>1, <2>3 DEF LiesMeasured, Replacing
  <2> QED
    BY <1>4, <2>1, <2>2, <2>3
<1>5. CASE SlotOf(c) # k
  <2>1. snap'[k] = snap[k]
    BY <1>5, SnapshotSteps DEF FilesTyped
  <2> QED
    BY <1>1, <1>2, <1>5, <2>1 DEF LiesMeasured, Replacing
<1> QED
  BY <1>3, <1>4, <1>5

\* What a capture has measured stays until it ends: it holds the lock.
LEMMA OwnSnapshotStays ==
  ASSUME DirTypeInv, LockInv, NEW B, MeasuredInv(B),
         NEW c \in Captures, Begin(c) \/ Continue(c) \/ Crash(c),
         NEW d \in Captures, pc'[d] \in {"bundle", "record", "saving"}
  PROVE  LiesMeasured(SlotOf(d), d)'
<1> USE DEF DirTypeInv
<1>1. pc' = [pc EXCEPT ![c] = pc'[c]]
  BY SnapshotSteps
<1>2. CASE d = c
  BY <1>2, SnapshotSteps DEF MeasuredInv, LiesMeasured
<1>3. CASE d # c
  <2>1. pc[d] \in {"bundle", "record", "saving"}
    BY <1>1, <1>3
  <2>2. pc[c] \notin {"truncate", "write"}
    BY <1>3, <2>1 DEF LockInv, Locked
  <2>3. snap' = snap
    BY <2>2, SnapshotSteps
  <2> QED
    BY <2>1, <2>3 DEF MeasuredInv, LiesMeasured
<1> QED
  BY <1>2, <1>3

LEMMA MeasuredStep ==
  ASSUME Recognisable, Editors = {}, LedgerInv, HostsInv, DirTypeInv,
         NEW B, MeasuredInv(B), [DirNext]_vars
  PROVE  MeasuredInv(B)'
<1> USE DEF LedgerInv, Shapes
<1>1. ASSUME NEW c \in Captures, Begin(c) \/ Continue(c) \/ Crash(c)
      PROVE  MeasuredInv(B)'
  <2>1. \A d \in Captures : pc'[d] \in {"bundle", "record", "saving"} => LiesMeasured(SlotOf(d), d)'
    BY <1>1, OwnSnapshotStays
  <2>2. ASSUME QuietStep(c) PROVE MeasuredInv(B)'
    <3>1. /\ yml' = yml
          /\ \A d \in Captures : loc'[d].man = loc[d].man
          /\ \A d \in Captures : pc'[d] = "saving" => pc[d] = "saving"
      BY <2>2, QuietSteps
    <3>2. SaveRefused(c) => yml # Torn /\ SlotOf(c) \notin DOMAIN Manifest.captures
      BY DEF SaveRefused, HostsInv, RecordsInv, Reloaded
    <3>3. SaveRefused(c) => \A d \in Captures : pc[d] # "saving"
      BY <3>2 DEF RecordsInv
    <3>4. ~FinishSave(c)
      BY <2>2, QuietSteps DEF FinishSave, Goto
    <3>5. yml # Torn => DOMAIN Manifest.captures \subseteq Slots
      BY DEF RecordsInv, Records
    <3>6. yml' # Torn => Kept(Manifest.captures, B)'
      <4> SUFFICES ASSUME yml # Torn PROVE Kept(Manifest.captures, B)'
        BY <3>1
      <4> DEFINE f == Manifest.captures
      <4>1. f' = f
        BY <3>1 DEF Manifest
      <4>2. Kept(f, B)
        BY DEF MeasuredInv
      <4>3. PICK g : g = f
        OBVIOUS
      <4> HIDE DEF f
      <4>4. Kept(g, B)'
        BY <1>1, <4>2, <4>3, <3>2, <3>4, <3>5, KeptSteps DEF f
      <4> QED
        BY <4>1, <4>3, <4>4 DEF Kept, f
    <3>7. ASSUME NEW d \in Captures, pc'[d] = "saving"
          PROVE  Kept(loc[d].man.captures, B)' /\ loc'[d].man.captures[SlotOf(d)] = d
      <4>1. pc[d] = "saving" /\ loc'[d].man = loc[d].man
        BY <3>1, <3>7
      <4>2. Kept(loc[d].man.captures, B) /\ DOMAIN loc[d].man.captures \subseteq Slots
            /\ loc[d].man.captures[SlotOf(d)] = d
        BY <4>1 DEF MeasuredInv, RecordsInv, Records
      <4>3. PICK g : g = loc[d].man.captures
        OBVIOUS
      <4>4. Kept(g, B)'
        BY <1>1, <4>1, <4>2, <4>3, <3>3, <3>4, KeptSteps
      <4> QED
        BY <4>1, <4>2, <4>3, <4>4 DEF Kept
    <3> QED
      BY <2>1, <3>6, <3>7 DEF MeasuredInv
  <2>3. ASSUME LoadManifest(c) \/ LockRun(c) PROVE MeasuredInv(B)'
    <3>1. /\ yml' = yml /\ snap' = snap
          /\ \A d \in Captures \ {c} : loc'[d] = loc[d] /\ pc'[d] = pc[d]
          /\ pc'[c] # "saving" /\ pc[c] \notin ReplacePlaces
      BY <2>3 DEF LoadManifest, LockRun, disk, Goto, ReplacePlaces
    <3>2. \A k : Replacing(k) => Replacing(k)'
      BY <3>1 DEF Replacing, ReplacePlaces
    <3>3. \A f : Kept(f, B) => Kept(f, B)'
      BY <3>1, <3>2 DEF Kept, LiesMeasured
    <3> QED
      BY <2>1, <3>1, <3>3 DEF MeasuredInv, Manifest
  <2>4. ASSUME RecordAndSave(c) PROVE MeasuredInv(B)'
    <3>1. /\ yml # Torn /\ yml' = Torn /\ snap' = snap /\ pc[c] = "record"
          /\ pc' = [pc EXCEPT ![c] = "saving"]
          /\ loc'[c].man.captures = Assign(Manifest.captures, SlotOf(c), c)
      BY <2>4, RecordRecords DEF RecordAndSave, Goto, RecordsInv, Reloaded
    <3>2. \A d \in Captures : pc'[d] = "saving" => d = c
      BY <3>1 DEF RecordsInv
    <3>3. LiesMeasured(SlotOf(c), c)'
      BY <2>1, <3>1
    <3>4. Kept(Manifest.captures, B)
      BY <3>1 DEF MeasuredInv
    <3>5. \A k : Replacing(k) => Replacing(k)'
      BY <3>1 DEF Replacing
    <3>6. Kept(loc[c].man.captures, B)'
      BY <3>1, <3>3, <3>4, <3>5 DEF Kept, LiesMeasured, Assign
    <3>7. loc'[c].man.captures[SlotOf(c)] = c
      BY <3>1 DEF Assign
    <3> QED
      BY <2>1, <3>1, <3>2, <3>6, <3>7 DEF MeasuredInv
  <2>5. ASSUME FinishSave(c) PROVE MeasuredInv(B)'
    <3>1. /\ pc[c] = "saving" /\ pc' = [pc EXCEPT ![c] = "done"] /\ snap' = snap
          /\ Manifest' = loc[c].man
      BY <2>5, FinishRecords DEF FinishSave, Goto
    <3>2. \A d \in Captures : pc'[d] # "saving"
      BY <3>1, LockExcludes
    <3>3. PICK g : g = loc[c].man.captures
      OBVIOUS
    <3>4. /\ Kept(g, B) /\ DOMAIN g \subseteq Slots
          /\ LiesMeasured(SlotOf(c), g[SlotOf(c)])
      BY <3>1, <3>3 DEF MeasuredInv, RecordsInv, Records
    <3>5. Kept(g, B)'
      BY <1>1, <2>5, <3>1, <3>4, KeptSteps DEF SaveRefused
    <3> QED
      BY <2>1, <3>1, <3>2, <3>3, <3>5 DEF MeasuredInv, Kept
  <2> QED
    BY <1>1, <2>2, <2>3, <2>4, <2>5 DEF Begin, Continue, QuietStep
<1>2. CASE UNCHANGED vars
  BY <1>2 DEF vars, disk, MeasuredInv, Kept, LiesMeasured, Replacing, Manifest
<1> QED
  BY <1>1, <1>2 DEF DirNext

LEMMA MeasuredInit ==
  ASSUME Recognisable, DirInit
  PROVE  MeasuredInv({})
<1>1. \A c \in Captures : pc[c] \notin {"bundle", "record", "saving"}
  BY DEF DirInit
<1>2. Kept(Manifest.captures, {})
  <2>1. CASE Start = NoFile
    BY <2>1, EmptyShape DEF DirInit, Manifest, Kept
  <2>2. CASE Start # NoFile
    <3>1. Manifest = Start /\ Past = Start.captures
      BY <2>2 DEF DirInit, Manifest, Past
    <3>2. ASSUME NEW k \in DOMAIN Start.captures
          PROVE  LiesMeasured(k, Start.captures[k])
      <4>1. k \in Slots /\ Start.captures[k] \in Captures
        BY <2>2, <3>2, StartAssumption DEF IsManifest
      <4>2. snap[k] = [taken |-> Past[k], tool |-> 1, basis |-> PastBasis(Past[k]),
                       inventory |-> PastInventory(Past[k])]
        BY <3>1, <4>1 DEF DirInit
      <4>3. PastInventory(Past[k]) \in Captures \cup {ByHand, Given}
        BY <3>1, <4>1 DEF PastInventory
      <4> QED
        BY <3>1, <4>1, <4>2, <4>3, PastTypes DEF LiesMeasured, Snapshots
    <3> QED
      BY <3>1, <3>2 DEF Kept
  <2> QED
    BY <2>1, <2>2
<1> QED
  BY <1>1, <1>2 DEF MeasuredInv

\* A recorded measurement lies on disk, unless a capture of its slot is replacing it
\* or has died doing so; a capture that fails destroys none (orchestrate.py, the
\* block under the lock; manifest.py, save_manifest).
THEOREM RecordedAreMeasured ==
  ASSUME Recognisable, Editors = {}
  PROVE  DirSpec => []RecordedIsMeasured
<1>1. DirInit => MeasuredInv({})
  BY MeasuredInit
<1>2. LedgerInv /\ ConsistencyInv /\ HostsInv /\ DirTypeInv /\ MeasuredInv({}) /\ [DirNext]_vars
      => HostsInv' /\ DirTypeInv' /\ MeasuredInv({})'
  BY HostsStep, TypeStep, MeasuredStep
<1>3. MeasuredInv({}) => RecordedIsMeasured
  BY DEF MeasuredInv, Kept, LiesMeasured, RecordedIsMeasured
<1> QED
  BY <1>1, <1>2, <1>3, HostsInit, TypeInit, LedgerInvariance, PTL DEF DirSpec
=============================================================================
