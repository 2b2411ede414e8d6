--------------------------- MODULE VerdictProperties ---------------------------
(***************************************************************************)
(* What the verdict of a migration promises, stated about the boxes: the   *)
(* conditions of a box are read off the box itself (old, new), never off a *)
(* capture, so what a collector lost or a check overlooked shows.          *)
(***************************************************************************)
EXTENDS MigrationVerdict, Sequences

Judgement == verdict # NoVerdict
Rows == UNION {verdict[scope] : scope \in DOMAIN verdict}
Faulty == {"broken", "degraded"}

-----------------------------------------------------------------------------
(* A condition is something about a box: the check and the row that are    *)
(* about it, what it is, and its kind: a fault must be reported, a note    *)
(* matters in comparison only, and a precedent is no fault of this box but *)
(* what a fault of the other one may be "unchanged" from.                  *)

Condition(check, about, what, isFault) ==
    [check |-> check, about |-> about, what |-> what, kind |-> IF isFault THEN "fault" ELSE "precedent"]
Fault(check, about, what) == Condition(check, about, what, TRUE)
Note(check, about, what) == [check |-> check, about |-> about, what |-> what, kind |-> "note"]
If(test, conditions) == IF test THEN conditions ELSE {}

Faults(conditions) == {c \in conditions : c.kind = "fault"}
Sound(conditions) == \A c \in conditions : c.kind = "precedent"

\* A state that is not the one wanted.
NotIn(good, check, about, state) == If(state # good, {Fault(check, about, <<state>>)})

NeighborConditions(check, peer) ==
    If(~peer.there \/ peer.uptime = "zero", {Fault(check, <<"status">>, <<"down">>)})
    \cup If(peer.there /\ peer.uptime = Core!Nothing, {Fault(check, <<"status">>, <<"unknown">>)})
    \cup If(peer.there /\ peer.address = Core!Nothing, {Fault(check, <<"address">>, <<"none">>)})

\* The records that are the service's: of its instance; on its port, or else multihop, if
\* it has a peer.
OursBgp(view) == {r \in view.bgp : r.instance = "ours"}
OursBfd(view) ==
    LET own == {r \in view.bfd : r.port = "ours"}
    IN  IF view.intent # "active" THEN {} ELSE IF own # {} THEN own ELSE view.bfd

BgpConditions(view) ==
    LET missing == view.intent = "none" \/ OursBgp(view) = {}
    IN  If(missing, {Condition("bgp_session_state", <<"peer">>, <<"absent">>, view.intent # "none")})
        \cup If(Cardinality(OursBgp(view)) = 1 /\ view.intent # "none",
                UNION {NotIn("Established", "bgp_session_state", <<"peer">>, r.state) : r \in OursBgp(view)})

BfdConditions(view) ==
    LET up == /\ view.intent # "none" /\ Cardinality(OursBgp(view)) = 1
              /\ \E r \in OursBgp(view) : r.state = "Established"
        is(what, isFault) == {Condition("bfd_session_state", <<"peer">>, <<what>>, isFault)}
    IN  If(OursBfd(view) = {}, is("absent", view.bfdIntent /\ up))
        \cup If(Cardinality(OursBfd(view)) = 1,
                UNION {If(~view.bfdIntent \/ r.state # "Up", is(r.state, TRUE)) : r \in OursBfd(view)})

PortConditions(view) ==
    LET is(n, f) == If(view[n][f] # "up", {Fault("interface_state", <<n, f>>, <<n, f, view[n][f]>>)}) IN
    UNION {is(n, "admin") \cup is(n, "oper")
           \cup If(view[n].errors # 0, {Note("interface_errors", <<n>>, <<"errors">>)})
           \cup If(view[n].pps = 0 /\ n # "irb", {Note("interface_traffic", <<n>>, <<"silent">>)}) :
              n \in Port!Listed(view)}

OpticsConditions(optics) ==
    If(Port!There(optics),
       If(Port!DarkSides(optics) # {},
          {Fault("interface_optics_levels", <<"port">>, <<"dark", s>>) : s \in Port!DarkSides(optics)})
       \cup {Fault("interface_optics_alarms", <<tag>>, <<tag>>) : tag \in optics.alarms})

\* A route that is off, or all of whose next hops are, is missing too.
RouteConditions(check, view) ==
    LET there == view.conf # "none" /\ view.table.there IN
    If(~there, {Condition(check, <<"route">>, <<"absent">>, view.conf # "none")})
    \cup If(there /\ view.table.active = "no", {Note(check, <<"route">>, <<"inactive">>)})
    \cup If(there /\ view.table.active = "yes" /\ check = "static_route_status"
                /\ \E h \in NextHops : view.hops[h] = "off",
            {Fault(check, <<"route">>, <<"hop off">>)})

\* A host that does not answer; the router itself is not a host.  Without the family of
\* addresses the table is none of the service's.
ReachConditions(check, view) ==
    If(view.entries = {}, {Condition(check, <<"table">>, <<"empty">>, view.nets # {})})
    \cup {Condition(check, <<e.ip>>, <<e.ip, "incomplete">>, view.nets # {}) :
            e \in {e \in view.entries : e.state # "resolved"}}
    \cup {Note("ping_reachability", <<h>>, <<h, "no answer">>) : h \in Hosts \ (Own \cup view.alive \cup view.refused)}

\* A circuit is known by its identifiers, or by being the only one of the service; one with
\* a partner on the same box needs no remote peer.
CircuitIds(view, ac) ==
    {IF ac.sid = Evpn!NoSid THEN "unknown" ELSE ac.sid} \cup (IF Cardinality(view.acs) = 1 THEN {"lone"} ELSE {})

CircuitConditions(ac, id) ==
    LET fault(about, what, value) == {Fault("evpn_vpws_status", about, <<id, what, value>>)}
        peers(side, all, isFault) ==
            {Condition("evpn_vpws_status", <<ac.name, side, p.ip>>, <<id, side, p.ip>>, isFault) :
                p \in {q \in all : ~q.resolved}}
    IN  If(ac.status # "Up", fault(<<ac.name, "status">>, "status", ac.status))
        \cup If(ac.pw \notin {Evpn!Nothing, "Up"}, fault(<<ac.name, "pw">>, "pw", ac.pw))
        \cup If(ac.partner \notin {Evpn!Nothing, "Up"}, fault(<<ac.name, "switch">>, "switch", ac.partner))
        \cup If(ac.partner = Evpn!Nothing /\ ac.remote = {}, fault(<<ac.name, "remote">>, "remote", "no peer"))
        \cup peers("local", ac.local, TRUE) \cup peers("remote", ac.remote, ac.partner = Evpn!Nothing)

VpwsConditions(view) ==
    If(view.there,
       If(view.acs = {}, {Fault("evpn_vpws_status", <<"missing">>, <<"missing">>)})
       \cup UNION {UNION {CircuitConditions(ac, id) : id \in CircuitIds(view, ac)} : ac \in view.acs})

EsiConditions(view) ==
    If(view.there, NotIn("Up", "evpn_esi_status", <<"interface">>, view.status)
                   \cup If(view.df = "not elected", {Fault("evpn_esi_status", <<"df">>, <<view.df>>)})
                   \cup If(view.resolved = "no", {Fault("evpn_esi_status", <<"resolved">>, <<"no">>)}))

EvpnConditions(scope, view) ==
    If(view.there,
       If(view.neighbors = {}, {Fault("evpn_instance_status", <<"neighbors">>, <<"none">>)})
       \cup NotIn("Up", "evpn_instance_status", <<"unit">>, view.unit)
       \cup If(scope.linked /\ view.irb.status # "Up",
               {Fault("evpn_instance_status", <<"irb">>, <<view.irb.status, view.irb.context>>)}))

\* A domain, or an instance, that the table leaves out is empty; an interface it leaves
\* out is not there.
MacConditions(view) ==
    If(view.vlan \in {0, Evpn!NotListed}, {Condition("evpn_mac_count", <<"vlan">>, <<"vlan", "empty">>, view.there)})
    \cup If(view.there /\ view.port = 0, {Fault("evpn_mac_count", <<"port">>, <<"port", "empty">>)})

-----------------------------------------------------------------------------
(* Multicast: the streams anybody asks for on either box, and what the     *)
(* table of a box does with them.                                          *)

\* A join in which the service has no role is of another service.
Joined(view) == {j.stream : j \in {j \in view.pim : j.roles # {}}}
Asked(view) == view.igmp \cup Joined(view)
Carries(route, stream) ==
    route.stream = stream \/ (stream[1] = "any" /\ route.stream[2] = stream[2])

\* A stream in the table of a box that carries it, and one that no entry carries.  Where the
\* service both sends and receives a stream, the role that works counts.
CarriedConditions(view, r, s) ==
    LET roles == (IF s \in view.igmp THEN {"receiver"} ELSE {})
                 \cup UNION {j.roles : j \in {j \in view.pim : j.stream = s}}
        received == "receiver" \in roles /\ "service" \in r.down
        sent == "sender" \in roles /\ r.down # {}
        wanted == IF roles = {"sender"} \/ (sent /\ ~received) THEN {"service"} ELSE {"service", "allowed"}
        is(about, what, isFault) ==
            {Condition("multicast_forwarding_status", Append(r.stream, about),
                       <<r.stream[1], r.stream[2], what>>, isFault)}
    IN  If("service" \notin r.down, is("stream", "not received", "receiver" \in roles /\ ~sent))
        \cup If(r.down = {}, is("stream", "not sent", roles = {"sender"}))
        \cup If(r.up \notin wanted /\ roles # {}, is("upstream", "upstream", TRUE))
        \cup If(r.pps = 0 /\ roles # {}, is("rate", "no traffic", TRUE))

AbsentCondition(view, s) ==
    Condition("multicast_forwarding_status", Append(s, "table"), <<s[1], s[2], "absent">>, s \in Asked(view))

ForwardingConditions(view, asked) ==
    UNION {LET carrying == {r \in view.routes : Carries(r, s)}
           IN  IF carrying = {} THEN {AbsentCondition(view, s)}
               ELSE UNION {CarriedConditions(view, r, s) : r \in carrying} : s \in asked}

StreamConditions(scope, view, asked) ==
    LET igmpSilent == scope.igmp /\ view.igmp = {}
        pimSilent == scope.pim /\ Joined(view) = {}
    IN  ForwardingConditions(view, asked)
        \cup If(ForwardingConditions(view, asked) # {},
                {Condition("multicast_forwarding_status", <<"summary">>, <<"impaired">>, FALSE)})
        \cup If(igmpSilent, {Condition("igmp_membership_report", <<"report">>, <<"silent">>, Joined(view) = {})})
        \cup If(pimSilent, {Condition("pim_join", <<"join">>, <<"silent">>, view.igmp = {})})

\* For a report without a source one entry of the group is enough (_cmulticast_entry): if
\* some have a tunnel and some have none, it depends on which is taken.
MvpnConditions(view, asked) ==
    LET covered(s) == {e \in view.mvpn.entries : Carries(e, s)}
        tunnel(s) == IF s \in Asked(view) /\ \E e \in covered(s) : e.pe # "none"
                     THEN Note("mvpn_cmulticast_status", Append(s, "tunnel"), s)
                     ELSE Condition("mvpn_cmulticast_status", Append(s, "tunnel"), s, s \in Asked(view))
    IN
    If(~view.mvpn.there /\ Asked(view) # {}, {Fault("mvpn_cmulticast_status", <<"instance">>, <<"instance">>)})
    \cup If(view.mvpn.there,
            UNION {If(covered(s) = {}, {Condition("mvpn_cmulticast_status", Append(s, "entry"), s, s \in Asked(view))})
                   \cup If(\E e \in covered(s) : e.pe = "none", {tunnel(s)}) : s \in asked})

\* The most specific prefix of a source, and the routes whose source it is.
Longest(prefixes, source) ==
    {p \in prefixes : source \in p.sources /\
        \A q \in prefixes : source \in q.sources => p.sources \subseteq q.sources}
RoutesOf(p, prefixes, view) == {r \in view.routes : p \in Longest(prefixes, r.stream[1])}

Inet2Conditions(scope, view) ==
    LET check == "core_multicast_forwarding"
        routes(p) == RoutesOf(p, scope.prefixes, view)
        is(r, about) == {Fault(check, Append(r.stream, about), r.stream)}
        carried(p, r) == If(view.vias[p.name] # Mcast!NoRoute /\ r.up \notin view.vias[p.name], is(r, "upstream"))
                         \cup If(r.down = {}, is(r, "downstream")) \cup If(r.pps = 0, is(r, "rate"))
    IN  UNION {IF routes(p) = {}
               THEN {Fault(check, <<p.name>>, <<p.name>>), Fault(check, <<"summary">>, <<p.name>>)}
               ELSE UNION {carried(p, r) : r \in routes(p)} : p \in scope.prefixes}

-----------------------------------------------------------------------------
Conditions(scope, view, asked) ==
    CASE area = "bgp" -> BgpConditions(view)
      [] area = "bfd" -> BfdConditions(view)
      [] area = "isis" ->
            IF view.adj.there
            THEN NotIn("Up", "isis_adjacency_state", <<"state">>, view.adj.state)
                 \cup If(view.adj.ip = Core!Nothing, {Fault("isis_adjacency_state", <<"address">>, <<"none">>)})
            ELSE {Fault("isis_adjacency_state", <<"state">>, <<"absent">>)}
      [] area = "isisport" ->
            LET is(what) == {Fault("isis_interface_info", <<what>>, <<what>>)} IN
            IF ~view.port.there THEN is("interface")
            ELSE If(2 \notin view.port.levels, is("level 2")) \cup If(1 \in view.port.levels, is("level 1"))
                 \cup If(2 \in view.port.levels /\ view.port.passive # (scope.subtype = "loopback"), is("passive"))
      [] area = "overload" -> NotIn("normal", "isis_overview", <<"overload">>, view.state)
      [] area = "ldp" -> NeighborConditions("ldp_neighbor_state", view.peer)
      [] area = "pim" -> If(scope.pim, NeighborConditions("pim_neighbor_state", view.peer))
      [] area = "mpls" -> NotIn("Up", "mpls_interface_state", <<"status">>,
                                IF view.state \in {"Dn", "Dnn"} THEN "down" ELSE view.state)
      [] area = "transit" ->
            LET running == {p \in DOMAIN view.peers : view.peers[p] # Core!Nothing} IN
            IF running = {} THEN {Fault("bfd_transit_state", <<"any">>, <<"absent">>)}
            ELSE {Fault("bfd_transit_state", <<p>>, <<p, view.peers[p]>>) :
                    p \in {q \in running : view.peers[q] # "Up"}}
      [] area = "ports" -> PortConditions(view)
      [] area = "optics" -> OpticsConditions(view.optics)
      [] area = "static" -> RouteConditions("static_route_status", view)
      [] area = "aggregate" -> RouteConditions("aggregate_route_status", view)
      [] area = "reach4" -> ReachConditions("arp_present", view)
      [] area = "reach6" -> ReachConditions("nd_present", view)
      [] area = "vpws" -> VpwsConditions(view)
      [] area = "esi" -> If(scope.subtype # "local", EsiConditions(view))
      [] area = "evpn" -> EvpnConditions(scope, view)
      [] area = "mac" -> MacConditions(view)
      [] area = "streams" -> StreamConditions(scope, view, asked)
      [] area = "mvpn" -> MvpnConditions(view, asked)
      [] area = "inet2" -> Inet2Conditions(scope, view)

AskedOf(view) == IF area \in {"streams", "mvpn"} THEN Asked(view) ELSE {}
Before(scope) == Conditions(scope, old, AskedOf(old) \cup AskedOf(new))
After(scope) == Conditions(scope, new, AskedOf(old) \cup AskedOf(new))
\* What no collector could read is no evidence of anything.
Known(condition) == "unknown" \notin {condition.what[i] : i \in DOMAIN condition.what}

-----------------------------------------------------------------------------
(* What the theorems suppose of the services of an area.                   *)

\* The checks that report the faults of an area, and whether the service is one of those that
\* they are about; a local ESI has no conditions.
ChecksOf == [
    bgp |-> {Peer!BgpSessionState}, bfd |-> {Peer!BfdSessionState}, isis |-> {Core!IsisAdjacencyState},
    isisport |-> {Core!IsisInterfaceInfo}, overload |-> {Core!IsisOverview}, ldp |-> {Core!LdpNeighborState},
    pim |-> {Core!PimNeighborState}, mpls |-> {Core!MplsInterfaceState}, transit |-> {Core!BfdTransitState},
    ports |-> {Port!InterfaceState}, optics |-> {Port!OpticalLevels, Port!OpticalAlarms},
    static |-> {Route!StaticRouteStatus}, aggregate |-> {Route!AggregateRouteStatus},
    reach4 |-> {Reach!ArpPresent}, reach6 |-> {Reach!NdPresent}, vpws |-> {Evpn!EvpnVpwsStatus},
    esi |-> {Evpn!EvpnEsiStatus}, evpn |-> {Evpn!EvpnInstanceStatus}, mac |-> {Evpn!EvpnMacCount},
    streams |-> {Mcast!IgmpMembershipReport, Mcast!PimJoin, Mcast!MulticastForwardingStatus},
    mvpn |-> {Mcast!MvpnCmulticastStatus}, inet2 |-> {Mcast!CoreMulticastForwarding}]

Covered(a, scope) ==
    CASE a = "bgp" -> Peer!BgpApplies(scope)
      [] a = "bfd" -> Peer!BfdApplies(scope)
      [] a = "esi" /\ scope.subtype = "local" -> TRUE
      [] OTHER -> \A check \in ChecksOf[a] : AppliesTo(check, scope)

\* The services of every area are covered by its checks.
ServicesAreCovered ==
    \A a \in Areas : \A service \in Blocks[a] : \A scope \in service : Covered(a, scope)

\* The profile leaves the checks of the area on.
AreaIsChecked == \A check \in ChecksOf[area] : check.id \notin profile.disabled

\* The checks whose faults do not fail a service, and those of them that a profile has made
\* critical.
AdvisoryChecks ==
    {Peer!BgpPrefixCounts, Core!IsisOverview, Port!InterfaceErrors, Port!InterfaceTraffic,
     Port!TrafficCeased, Evpn!EvpnMacCount, Reach!PingReachability}
Raised == {check.id : check \in {c \in AdvisoryChecks : SeverityOf(c, profile) = "critical"}}

\* A service has one block, and one more for its port if it says so.
OneBlockPerPort ==
    "ports" \in Areas => \A services \in Blocks["ports"] : \E service \in services :
        /\ service.kind # "layer1"
        /\ \E port \in services :
              /\ services = {service, port}
              /\ IF service.parent THEN port.kind = "layer1" ELSE port = service
        /\ \A scope \in services : ~scope.off

ReachAreas == {"reach4", "reach6"}

\* The service is one whose hosts are pinged.
HostsArePinged ==
    \A a \in Areas \cap ReachAreas : \A services \in Blocks[a] : \E scope \in services :
        ~scope.off /\ AppliesTo(Reach!PingReachability, scope)

-----------------------------------------------------------------------------
(* "Unchanged" is a pass, so it must be earned: whenever a row says that a *)
(* fault is as it was before the migration, the old box really had that    *)
(* very fault, and a baseline was taken.  An empty part of a capture, a    *)
(* value that was not read or a fault of something else is no evidence     *)
(* (checks/baseline.py, unchanged_or and the "same" of every check).       *)
UnchangedIsEvidence ==
    Judgement => \A scope \in blocks : \A row \in verdict[scope] :
        row.outcome = "unchanged" =>
            /\ baseline # NoCapture
            /\ \E now \in After(scope), was \in Before(scope) :
                  /\ now.check = row.check /\ now.about = row.about
                  /\ was.check = row.check /\ was.what = now.what
                  /\ Known(now)

(* A fault of the new box that was captured is in the report, as a fault   *)
(* or as one that the baseline had; and if the old box had none, the       *)
(* service is not called healthy.  A check that looks for the records of   *)
(* one capture only would lose what is missing from it.  Whatever          *)
(* severities the profile sets, if it leaves the checks of the area on.    *)
FaultIsReported ==
    Judgement /\ AreaIsChecked /\ subject.lost = {} => \A scope \in {s \in blocks : ~s.off} :
        /\ \A fault \in Faults(After(scope)) :
              \E row \in Rows : /\ row.check = fault.check /\ row.about = fault.about
                                /\ row.outcome \in Faulty \cup {"unchanged"}
        /\ Faults(After(scope)) # {} /\ Before(scope) = {} =>
              ScopeStatus({row.status : row \in Rows}) \in {"WARN", "FAIL"}

(* A service that runs on the new box as it ran on the old one, without a  *)
(* fault, is not blamed, whichever collectors of either capture failed:    *)
(* what was lost is skipped, it is neither broken nor changed.  (The check *)
(* that a port has traffic at all is off unless a profile turns it on.)    *)
StableServiceNeverBlamed ==
    Judgement /\ "traffic_ceased" \in profile.disabled /\ old = new => \A scope \in {s \in blocks : ~s.off} :
        Sound(After(scope)) => \A row \in verdict[scope] : row.outcome \notin Faulty

(* The move of a healthy service to a healthy state of the new box is at   *)
(* most a warning, however different the two states are: only a fault of   *)
(* the new box, a change of its configuration, or a count or a rate that   *)
(* the profile itself calls critical fails a service.                      *)
ConfigurationFields == (IF "config" \in DOMAIN Empty[area] THEN DOMAIN Empty[area]["config"] ELSE {}) \ {"pings"}
SameConfiguration == \A f \in ConfigurationFields : old[f] = new[f]

ChangeIsWarning ==
    Judgement /\ SameConfiguration => \A scope \in {s \in blocks : ~s.off} :
        Sound(Before(scope)) /\ Sound(After(scope)) => \A row \in verdict[scope] :
            row.status = "FAIL" => row.check \in Raised

(* A service that is deactivated in the new configuration has no other     *)
(* rows, so the one that says it must be there, whatever collectors failed *)
(* and whatever was compared; it fails a service that was active before,   *)
(* unless the profile makes the check advisory or turns it off.            *)
DeactivationIsReported ==
    Judgement /\ "deactivation_state" \notin profile.disabled => \A scope \in {s \in blocks : s.off} :
        ScopeStatus({row.status : row \in verdict[scope]}) =
            IF /\ baseline # NoCapture /\ scope.wasOff = "no"
               /\ SeverityOf(DeactivationState, profile) = "critical" THEN "FAIL" ELSE "WARN"

(* Every listed interface is judged in exactly one block: a customer port  *)
(* in its own block, its units in the services on it.                      *)
PortMeasuredOnce ==
    Judgement /\ area = "ports" /\ AreaIsChecked /\ subject.lost = {} =>
        \A name \in Port!Listed(new), field \in {"admin", "oper"} :
            Cardinality({scope \in blocks : \E row \in verdict[scope] :
                            row.check = "interface_state" /\ row.about = <<name, field>>}) = 1

(* A host that the old box resolved itself and that answered before the    *)
(* migration is pinged on the new box and, if it no longer answers, is     *)
(* reported, although the new box never learned its address.  (Where the   *)
(* service has BGP neighbours these are pinged instead.)                   *)
LostHosts ==
    {h \in old.alive \ Own :
                       /\ [ip |-> h, state |-> "resolved", remote |-> FALSE] \in old.entries
                       /\ h \notin new.alive \cup new.refused /\ NetOf[h] \in new.nets}

LostHostIsReported ==
    Judgement /\ area \in {"reach4", "reach6"} /\ "ping_reachability" \notin profile.disabled
              /\ baseline # NoCapture =>
        (new.bgp = {} /\ ~new.skipped /\ "arp" \notin baseline.lost /\ "nd" \notin baseline.lost =>
            \A h \in LostHosts : \E row \in Rows :
                row.check = "ping_reachability" /\ row.about = <<h>> /\ row.outcome = "broken")

(* The row of a service whose pings the profile of the capture left out    *)
(* says so: "ping neproveden - mimo profil" (tests/checks/                 *)
(* test_reachability.py).                                                  *)
PingSkipIsNamed ==
    Judgement /\ area \in {"reach4", "reach6"} => (new.skipped /\ subject.data.pings = {} =>
        \A row \in Rows : row.check = "ping_reachability" => row.about # <<"check failed">>)
=============================================================================
