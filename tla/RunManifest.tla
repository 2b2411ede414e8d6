----------------------------- MODULE RunManifest -----------------------------
(***************************************************************************)
(* run.yml, the one source of truth about a migration (runs/manifest.py),  *)
(* and the questions asked of it when baselines are chosen                 *)
(* (runs/pairing.py), when a capture is recorded and when the mapping is   *)
(* edited (api.py).  All of it is a function of one manifest, a record     *)
(*   kind      "migration" or "single"                                     *)
(*   devices   role of every node of the run                               *)
(*   mapping   pairs [old, new] of endpoints [node, port]                  *)
(*   captures  taken of every recorded slot [phase, node, port].           *)
(* A node stands for the host it is reached at; a recorded snapshot file   *)
(* stands for its slot.                                                    *)
(***************************************************************************)
EXTENDS Naturals, FiniteSets

CONSTANTS
    Nodes,      \* nodes a run may hold
    Ports,      \* ports captured one by one
    AllPorts,   \* the port of a whole-box capture (None in the code, "all" on disk)
    NoSlot      \* no record found

ASSUME AllPortsAssumption == AllPorts \notin Ports

Phases == {"pre", "post", "rollback"}
Roles == {"old", "new", "l2-switch", "single"}
Kinds == {"single", "migration"}
Slots == [phase : Phases, node : Nodes, port : Ports \cup {AllPorts}]
Endpoints == [node : Nodes, port : Ports \cup {AllPorts}]
Pairs == [old : Endpoints, new : Endpoints]

ASSUME NoSlotAssumption == NoSlot \notin Slots

\* The entry of a key, new or replaced.
Assign(f, key, value) ==
    [k \in DOMAIN f \cup {key} |-> IF k = key THEN value ELSE f[k]]

Slot(phase, node, port) == [phase |-> phase, node |-> node, port |-> port]

\* RunManifest(): what load() returns when there is no run.yml.
EmptyManifest ==
    [kind |-> "migration", devices |-> <<>>, mapping |-> {}, captures |-> <<>>]

\* _PHASE_TO_ROLE: the role a box gets when a capture adds it to the run.
PhaseToRole(phase) == IF phase = "post" THEN "new" ELSE "old"

-----------------------------------------------------------------------------
(* Devices. *)

WithRole(devices, role) == {n \in DOMAIN devices : devices[n] = role}

\* check_kind_devices accepts the devices.
CheckKindDevices(kind, devices) ==
    IF kind = "single"
    THEN \E n \in DOMAIN devices : DOMAIN devices = {n} /\ devices[n] = "single"
    ELSE /\ WithRole(devices, "single") = {}
         /\ \A role \in {"old", "new"} : Cardinality(WithRole(devices, role)) <= 1

\* Mutant of WithDevice: the phase is taken for the role.
WithDeviceOfPhase(m, node, phase) ==
    IF node \in DOMAIN m.devices THEN m ELSE [m EXCEPT !.devices = Assign(@, node, phase)]

\* The device entry a capture adds for a box the run does not know.
WithDevice(m, node, phase) ==
    IF node \in DOMAIN m.devices
    THEN m
    ELSE [m EXCEPT !.devices = Assign(@, node, PhaseToRole(phase))]

-----------------------------------------------------------------------------
(* Captures. *)

RecordCapture(m, slot, taken) == [m EXCEPT !.captures = Assign(@, slot, taken)]

FindCapture(m, slot) == IF slot \in DOMAIN m.captures THEN slot ELSE NoSlot

\* `find_capture(...) or find_capture(...)`.
FirstFound(m, slot, otherwise) ==
    IF slot \in DOMAIN m.captures THEN slot ELSE FindCapture(m, otherwise)

-----------------------------------------------------------------------------
(* Mapping of old endpoints to new ones. *)

MappedOlds(m, node, port) ==
    {p.old : p \in {q \in m.mapping : q.new = [node |-> node, port |-> port]}}

\* paired_old finds exactly one.
IsPaired(m, node, port) == Cardinality(MappedOlds(m, node, port)) = 1
PairedOld(m, node, port) == CHOOSE old \in MappedOlds(m, node, port) : TRUE

\* add_mapping raises unless the old endpoint is free or paired the same way.
CanAddMapping(mapping, pair) == \A p \in mapping : p.old = pair.old => p.new = pair.new

\* A list built with add_mapping: no old endpoint is paired twice.
PairsOnce(mapping) == \A pair \in mapping : CanAddMapping(mapping, pair)

\* _mapping_locked: an end of the pair has a snapshot; a whole-box snapshot
\* locks every pair of its box.
MappingLocked(m, pair) ==
    \E slot \in DOMAIN m.captures, end \in {pair.old, pair.new} :
        /\ slot.node = end.node
        /\ slot.port \in {end.port, AllPorts}

\* update_mapping accepts the list of port pairs: the run has its two roles,
\* no locked pair disappears and no old port is paired twice.
RolesMapped(m, ports) ==
    {[old |-> [node |-> o, port |-> pp.old], new |-> [node |-> n, port |-> pp.new]] :
        pp \in ports, o \in WithRole(m.devices, "old"), n \in WithRole(m.devices, "new")}

CanUpdateMapping(m, ports) ==
    /\ m.kind # "single"
    /\ WithRole(m.devices, "old") # {}
    /\ WithRole(m.devices, "new") # {}
    /\ \A pair \in m.mapping :
         MappingLocked(m, pair) => [old |-> pair.old.port, new |-> pair.new.port] \in ports
    /\ PairsOnce(RolesMapped(m, ports))

-----------------------------------------------------------------------------
(* Baselines of a post capture. *)

OwnPre(m, node, port) == FirstFound(m, Slot("pre", node, port), Slot("pre", node, AllPorts))

\* find_pre_baseline: the paired old port, else the whole old box.
FindPreBaseline(m, node, port) ==
    IF m.kind = "single"
    THEN OwnPre(m, node, port)
    ELSE LET paired == IF port # AllPorts /\ IsPaired(m, node, port)
                       THEN FindCapture(m, Slot("pre", PairedOld(m, node, port).node,
                                                       PairedOld(m, node, port).port))
                       ELSE NoSlot
             boxes  == {Slot("pre", n, AllPorts) : n \in WithRole(m.devices, "old")}
         IN  IF paired # NoSlot \/ boxes = {}
             THEN paired
             ELSE FindCapture(m, CHOOSE box \in boxes : TRUE)

\* The records whose snapshots a post capture takes its ping targets from:
\* one per mapped old endpoint, else the single fallback.
BaselineSlots(m, node, port) ==
    LET olds   == IF port = AllPorts THEN {} ELSE MappedOlds(m, node, port)
        mapped == {OwnPre(m, old.node, old.port) : old \in olds} \ {NoSlot}
    IN  IF mapped # {} THEN mapped ELSE {FindPreBaseline(m, node, port)} \ {NoSlot}
=============================================================================
