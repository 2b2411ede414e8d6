------------------------------ MODULE EvpnChecks ------------------------------
(***************************************************************************)
(* The checks of EVPN (checks/evpn.py) for a service in one instance.      *)
(*                                                                         *)
(*   VPWS    [there, acs]: the circuits of the service in the instance, a  *)
(*           set of [name, sid, status, pw, local, remote, partner]; sid   *)
(*           is the pair of service identifiers or NoSid, local and remote *)
(*           are sets of peers [ip, resolved], partner is the state of the *)
(*           other circuit of a local switch or Nothing                    *)
(*   ESI     [there, resolved, status, df]                                 *)
(*   EVPN    the instance: [there, neighbors, unit, irb]: the state of the *)
(*           unit of the service and [status, context] of its IRB          *)
(*   MAC     [vlan, port]: learned addresses, NotListed if the table of    *)
(*           the device does not name the domain or the interface          *)
(***************************************************************************)
EXTENDS Verdicts

Nothing == "nothing"
UNKNOWN == "unknown"
UP == "Up"

Evpn(id, area, types, excluded, severity) ==
    CheckClass(id, "both", {area}, types, {}, excluded, severity, FALSE)

EvpnVpwsStatus == Evpn("evpn_vpws_status", "evpn_vpws", {"E-Line"}, {}, "critical")
EvpnEsiStatus == Evpn("evpn_esi_status", "evpn_esi", {"E-LAN"}, {"local"}, "critical")
EvpnInstanceStatus == Evpn("evpn_instance_status", "evpn_instance", {"E-LAN"}, {"local"}, "critical")
EvpnMacCount == Evpn("evpn_mac_count", "evpn_mac", {"E-LAN"}, {}, "advisory")

\* Up, or the same reading of down as before; what was not read is not the same.
StatusOutcome(now, was, captures, area) ==
    IF now = UP THEN "ok" ELSE UnchangedOr("broken", captures, area, now # UNKNOWN /\ was = now)

-----------------------------------------------------------------------------
NoSid == "no sid"
NoAc == [name |-> Nothing, sid |-> NoSid, status |-> Nothing, pw |-> Nothing,
         local |-> {}, remote |-> {}, partner |-> Nothing]

\* _pair_baseline_acs: by the identifiers, which a migration keeps; a lone circuit with a
\* lone one whatever they are.
PairedAc(ac, acs, before) ==
    LET hits == {b \in before : b.sid = ac.sid /\ ac.sid # NoSid} IN
    IF Cardinality(hits) = 1 THEN CHOOSE b \in hits : TRUE
    ELSE IF Cardinality(acs) = 1 /\ Cardinality(before) = 1 THEN CHOOSE b \in before : TRUE
    ELSE NoAc

PeerOutcome(peer, before, captures) ==
    IF peer.resolved THEN "ok"
    ELSE UnchangedOr("broken", captures, "evpn_vpws",
                     \E b \in before : b.ip = peer.ip /\ ~b.resolved)

\* _pw_finding: only a platform that prints the state has the row.
PwRows(ac, was, captures) ==
    IF ac.pw = Nothing THEN {}
    ELSE {Row("evpn_vpws_status", <<ac.name, "pw">>,
              IF ac.pw = UP THEN "ok"
              ELSE UnchangedOr("broken", captures, "evpn_vpws", was.pw = ac.pw))}

\* _local_switch_finding: the state of the other circuit, compared with a switch only.
SwitchRow(ac, was, captures) ==
    Row("evpn_vpws_status", <<ac.name, "switch">>,
        StatusOutcome(ac.partner, was.partner, captures, "evpn_vpws"))

\* The remote side must have a peer; it may be missing as before if before was a circuit
\* without a peer, not a local switch.
NoRemoteRow(ac, was, captures) ==
    Row("evpn_vpws_status", <<ac.name, "remote">>,
        UnchangedOr("broken", captures, "evpn_vpws",
                    was # NoAc /\ was.remote = {} /\ was.partner = Nothing))

\* _sid_findings: local peers exist only where the circuit is multihomed.
SidRows(ac, was, captures) ==
    LET peers(side, all, before) ==
            {Row("evpn_vpws_status", <<ac.name, side, p.ip>>, PeerOutcome(p, before, captures)) : p \in all}
    IN  peers("local", ac.local, was.local)
        \cup (IF ac.partner # Nothing THEN {SwitchRow(ac, was, captures)}
              ELSE IF ac.remote = {} THEN {NoRemoteRow(ac, was, captures)}
              ELSE peers("remote", ac.remote, was.remote))

AcRows(ac, was, captures) ==
    {Row("evpn_vpws_status", <<ac.name, "status">>,
         StatusOutcome(ac.status, was.status, captures, "evpn_vpws"))}
    \cup PwRows(ac, was, captures) \cup SidRows(ac, was, captures)

\* A service whose circuit is not in the instance has a broken row, not a skipped one.
VpwsRows(view, old, captures) ==
    IF ~view.there THEN {Row("evpn_vpws_status", <<"all">>, "skip")}
    ELSE IF view.acs = {}
    THEN {Row("evpn_vpws_status", <<"missing">>,
              UnchangedOr("broken", captures, "evpn_vpws", old.there /\ old.acs = {}))}
    ELSE UNION {AcRows(ac, PairedAc(ac, view.acs, old.acs), captures) : ac \in view.acs}

-----------------------------------------------------------------------------
\* The text of ESI Status names an interface, so only "resolved" is read out of it.
EsiRows(view, old, captures) ==
    LET same(fault) == UnchangedOr("broken", captures, "evpn_esi", fault) IN
    IF ~view.there THEN {Row("evpn_esi_status", <<"all">>, "skip")}
    ELSE {Row("evpn_esi_status", <<"interface">>,
              StatusOutcome(view.status, old.status, captures, "evpn_esi")),
          Row("evpn_esi_status", <<"df">>,
              CASE view.df = Nothing -> "info"
                [] view.df = "elected" -> "ok"
                [] view.df = "not elected" -> same(old.df = "not elected"))}
         \cup (IF view.resolved = Nothing THEN {}
               ELSE {Row("evpn_esi_status", <<"resolved">>,
                         IF view.resolved = "yes" THEN "ok" ELSE same(old.resolved = "no"))})

-----------------------------------------------------------------------------
\* Neighbours: at least one; fewer than before is a warning.
NeighborsOutcome(view, old, captures) ==
    IF view.neighbors = {}
    THEN UnchangedOr("broken", captures, "evpn_instance", old.there /\ old.neighbors = {})
    ELSE IF old.there /\ Cardinality(view.neighbors) < Cardinality(old.neighbors)
    THEN "degraded" ELSE "ok"

\* The unit of the service must be in the instance.
UnitOutcome(view, old, captures) ==
    IF view.unit # Nothing THEN StatusOutcome(view.unit, old.unit, captures, "evpn_instance")
    ELSE UnchangedOr("broken", captures, "evpn_instance", old.there /\ old.unit = Nothing)

NoIrb == [status |-> Nothing, context |-> Nothing]

\* The linked IRB: the same state in the same context.
IrbOutcome(view, old, captures) ==
    IF view.irb = NoIrb
    THEN UnchangedOr("broken", captures, "evpn_instance", old.there /\ old.irb = NoIrb)
    ELSE IF view.irb.status = UP THEN "ok"
    ELSE UnchangedOr("broken", captures, "evpn_instance",
                     view.irb.status # UNKNOWN /\ old.irb = view.irb)

InstanceRows(scope, view, old, captures) ==
    IF ~view.there THEN {Row("evpn_instance_status", <<"all">>, "skip")}
    ELSE {Row("evpn_instance_status", <<"neighbors">>, NeighborsOutcome(view, old, captures)),
          Row("evpn_instance_status", <<"unit">>, UnitOutcome(view, old, captures))}
         \cup {Row("evpn_instance_status", <<"neighbor", n>>, "info") : n \in view.neighbors}
         \cup (IF scope.linked THEN {Row("evpn_instance_status", <<"irb">>, IrbOutcome(view, old, captures))}
               ELSE {})

-----------------------------------------------------------------------------
(* Learned MAC addresses.  DEFAULTS: tolerance_percent is -60.             *)

NotListed == -1

MacState(count) == IF count = 0 THEN "broken" ELSE "ok"

MacCompare(before, now, captures) ==
    IF before # 0 /\ 100 * (now - before) < -60 * before THEN "broken"
    ELSE IF now = 0 THEN UnchangedOr("broken", captures, "evpn_mac", before = 0)
    ELSE "ok"

\* Mutant of VlanOutcome: a domain that the table does not name has no addresses to lose.
VlanOutcomeListed(now, before, captures) ==
    IF now = NotListed THEN "ok"
    ELSE IF before = NotListed THEN MacState(now) ELSE MacCompare(before, now, captures)

\* The table leaves an empty domain out: on both sides that is a measured zero.
VlanOutcome(now, before, captures) ==
    CASE now = NotListed /\ before = NotListed ->
            IF captures.baseline THEN MacCompare(0, 0, captures) ELSE MacState(0)
      [] now = NotListed /\ before # NotListed -> MacCompare(before, 0, captures)
      [] now # NotListed /\ before = NotListed -> MacState(now)
      [] now # NotListed /\ before # NotListed -> MacCompare(before, now, captures)

\* An interface has a row if either side lists it.
MacPortRows(now, before, captures) ==
    IF now = NotListed
    THEN IF before = NotListed THEN {} ELSE {Row("evpn_mac_count", <<"port">>, "broken")}
    ELSE {Row("evpn_mac_count", <<"port">>,
              IF before = NotListed THEN MacState(now) ELSE MacCompare(before, now, captures))}

\* Whatever either side lists of the VLAN of the service, and the VLAN itself.
MacRows(view, old, captures) ==
    IF ~view.there THEN {Row("evpn_mac_count", <<"all">>, "skip")}
    ELSE {Row("evpn_mac_count", <<"vlan">>, VlanOutcome(view.vlan, old.vlan, captures))}
         \cup MacPortRows(view.port, old.port, captures)
=============================================================================
