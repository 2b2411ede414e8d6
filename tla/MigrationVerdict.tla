--------------------------- MODULE MigrationVerdict ---------------------------
(***************************************************************************)
(* From two captures to a verdict.  A service runs on the old box, which   *)
(* is captured (the baseline) or not; the service moves to the new box,    *)
(* which is captured (the subject); the engine judges every block of the   *)
(* service.  A collector of either capture may fail, which leaves its part *)
(* of the capture empty (capture.py); a baseline may also hold data nobody *)
(* recorded as measured (an old snapshot).                                 *)
(*                                                                         *)
(* One behaviour is about one area: the part of a service that a family of *)
(* checks looks at.  old and new are what the boxes really do, baseline    *)
(* and subject what the captures hold of it: the properties compare the    *)
(* verdict with the former, the checks see only the latter.                *)
(***************************************************************************)
EXTENDS Verdicts

CONSTANTS
    NextHops, Hosts, Own, Nets, SmallNets, NetOf,
    Profiles,     \* the profiles a migration may be evaluated with
    MaxLost,      \* bound: collectors of one capture that fail
    Views,        \* area |-> what a box may do there
    Blocks        \* area |-> sets of blocks (scopes) that a service may have

Areas == DOMAIN Views

Peer == INSTANCE PeerChecks
Core == INSTANCE CoreChecks
Port == INSTANCE PortChecks
Route == INSTANCE RouteChecks
Reach == INSTANCE ReachabilityChecks
Evpn == INSTANCE EvpnChecks
Mcast == INSTANCE MulticastChecks

VARIABLES
    area, blocks, \* what the behaviour is about
    old, new,     \* the service on the old and on the new box, Unknown before the move
    baseline,     \* NoCapture or [data, lost, recorded]
    subject,      \* NoCapture or [data, lost]
    profile,      \* NoProfile or the profile of the evaluation
    verdict       \* NoVerdict or block |-> its rows

vars == <<area, blocks, old, new, baseline, subject, profile, verdict>>

Unknown == [unknown |-> TRUE]
NoCapture == [captured |-> FALSE]
NoVerdict == <<>>
NoProfile == [chosen |-> FALSE]

\* A scope, as build_scopes makes it; prefixes are the inet.2 routes of a loopback.
Scopes == [kind : STRING, type : STRING, subtype : STRING, off : BOOLEAN, wasOff : {"yes", "no", "unknown"},
           parent : BOOLEAN, link : BOOLEAN, linked : BOOLEAN, pim : BOOLEAN, igmp : BOOLEAN,
           senderOnly : BOOLEAN, prefixes : SUBSET [name : STRING, sources : SUBSET STRING]]

\* Prefixes are nested or disjoint.
ASSUME BlocksAssumption == \A a \in Areas : \A service \in Blocks[a] : \A scope \in service :
    /\ scope \in Scopes
    /\ \A p \in scope.prefixes : IsFiniteSet(p.sources) /\ p.name # "unknown"
    /\ \A p, q \in scope.prefixes :
          \/ p.sources \subseteq q.sources \/ q.sources \subseteq p.sources
          \/ p.sources \cap q.sources = {}

\* validate_checks: a profile gives a check no severity but these.
ASSUME ProfilesAssumption == \A chosen \in Profiles :
    \A id \in DOMAIN chosen.severity : chosen.severity[id] \in Severities

\* No host, peer or source is called unknown.
ASSUME HostsAssumption == "unknown" \notin Hosts

-----------------------------------------------------------------------------
(* What a collector that failed leaves of a view; "config" is not          *)
(* collected: a service without a counterpart has no configuration there.  *)

Empty == [
    bgp      |-> [config |-> [intent |-> "none"], bgp |-> [bgp |-> {}, rib |-> Peer!NoRib]],
    bfd      |-> [config |-> [intent |-> "none", bfdIntent |-> FALSE],
                  bgp |-> [bgp |-> {}], bfd |-> [bfd |-> {}]],
    isis     |-> [isis_adjacency |-> [adj |-> Core!NoAdjacency]],
    isisport |-> [isis_interface |-> [port |-> [there |-> FALSE]]],
    overload |-> [isis_overview |-> [state |-> Core!Nothing]],
    ldp      |-> [ldp_neighbor |-> [peer |-> Core!NoNeighbor]],
    pim      |-> [pim_neighbor |-> [peer |-> Core!NoNeighbor]],
    mpls     |-> [mpls_interface |-> [state |-> Core!Nothing]],
    transit  |-> [bfd |-> [peers |-> [p \in {"p1", "p2"} |-> Core!Nothing]]],
    ports    |-> [interfaces |-> [port |-> Port!Nothing, unit |-> Port!Nothing, irb |-> Port!Nothing]],
    optics   |-> [optics |-> [optics |-> Port!Nothing]],
    static   |-> [config |-> [conf |-> "none", hops |-> [h \in NextHops |-> "none"]],
                  routes |-> [table |-> Route!NoEntry]],
    aggregate |-> [config |-> [conf |-> "none"], routes |-> [table |-> Route!NoEntry]],
    reach4   |-> [config |-> [nets |-> {}, bgp |-> {}, pings |-> {}], arp |-> [entries |-> {}]],
    reach6   |-> [config |-> [nets |-> {}, bgp |-> {}, pings |-> {}], nd |-> [entries |-> {}]],
    vpws     |-> [evpn_vpws |-> [there |-> FALSE, acs |-> {}]],
    esi      |-> [evpn_esi |-> [there |-> FALSE, status |-> Evpn!Nothing, df |-> Evpn!Nothing,
                                resolved |-> Evpn!Nothing]],
    evpn     |-> [evpn_instance |-> [there |-> FALSE, neighbors |-> {}, unit |-> Evpn!Nothing,
                                     irb |-> Evpn!NoIrb]],
    mac      |-> [evpn_mac |-> [there |-> FALSE, vlan |-> Evpn!NotListed, port |-> Evpn!NotListed]],
    streams  |-> [igmp_group |-> [igmp |-> {}], pim_join |-> [pim |-> {}],
                  multicast_route |-> [routes |-> {}]],
    mvpn     |-> [igmp_group |-> [igmp |-> {}], pim_join |-> [pim |-> {}],
                  mvpn_instance |-> [mvpn |-> [there |-> FALSE, entries |-> {}]]],
    inet2    |-> [multicast_route |-> [routes |-> {}], routes |-> [vias |-> "none"]]
  ]

\* A stream is a pair of a source and a group.
Stream(s) == s = <<s[1], s[2]>> /\ "unknown" \notin {s[1], s[2]}

\* A counter, or -1 where the box shows none (NoRib, NotMeasured, NotListed, Unread).
Counter(n) == n \in Nat \cup {-1}

\* What a box can show: the states that its records can have, and that what is not
\* there has no parts.
Shown(a, view) ==
    CASE a \in {"bgp", "bfd"} ->
            /\ view.intent \in {"active", "inactive", "none"}
            /\ IsFiniteSet(view.bgp) /\ \A r \in view.bgp : r.state \notin {"absent", "ambiguous"}
            /\ a = "bgp" => Counter(view.rib)
            /\ a = "bfd" => /\ IsFiniteSet(view.bfd)
                            /\ \A r \in view.bfd : /\ r.port \in {"ours", "multihop"}
                                                   /\ r.state \notin {"absent", "ambiguous"}
      [] a = "isis" -> IF view.adj.there THEN view.adj.state # Core!Nothing ELSE view.adj = Core!NoAdjacency
      [] a = "isisport" -> /\ view.port.there \in BOOLEAN
                           /\ view.port.there => view.port.passive \in BOOLEAN
      [] a = "overload" -> view.state \in {Core!Nothing, "overload", "normal"}
      [] a \in {"ldp", "pim"} ->
            IF view.peer.there THEN view.peer.uptime \in {Core!Nothing, "some", "zero"}
            ELSE view.peer = Core!NoNeighbor
      [] a = "mpls" -> view.state \in {Core!Nothing, "Up", "Dn", "Dnn", "unknown"}
      [] a = "transit" -> DOMAIN view.peers = {"p1", "p2"}
      [] a = "ports" -> \A n \in Port!Listed(view) :
            /\ view[n].admin # "none" /\ view[n].oper # "none"
            /\ Counter(view[n].errors) /\ view[n].pps \in Nat
      [] a = "optics" -> Port!There(view.optics) =>
            /\ view.optics.alarms \subseteq {"alarm", "warning"}
            /\ view.optics.rx \in Int /\ view.optics.tx \in Int
      [] a \in {"static", "aggregate"} ->
            view.conf \in {"none", "on", "off"} /\ view.table.active \in {"yes", "no", "unread"}
      [] a \in {"reach4", "reach6"} ->
            /\ "skipped" \in DOMAIN view
            /\ view.alive \cup view.refused \cup view.bgp \cup {e.ip : e \in view.entries} \subseteq Hosts
      [] a = "vpws" ->
            /\ ~view.there => view.acs = {}
            /\ \A ac \in view.acs :
                /\ ac.status # Evpn!Nothing
                /\ "unknown" \notin {ac.sid, ac.pw} \cup {p.ip : p \in ac.local \cup ac.remote}
      [] a = "esi" ->
            IF view.there THEN /\ view.status # Evpn!Nothing
                               /\ view.df \in {Evpn!Nothing, "elected", "not elected"}
                               /\ view.resolved \in {Evpn!Nothing, "yes", "no"}
            ELSE Evpn!Nothing = view.status /\ Evpn!Nothing = view.df /\ Evpn!Nothing = view.resolved
      [] a = "evpn" ->
            IF view.there THEN view.irb.context # "unknown" /\ IsFiniteSet(view.neighbors)
            ELSE view.neighbors = {} /\ view.unit = Evpn!Nothing /\ view.irb = Evpn!NoIrb
      [] a = "mac" ->
            /\ Counter(view.vlan) /\ Counter(view.port)
            /\ ~view.there => view.vlan = Evpn!NotListed /\ view.port = Evpn!NotListed
      [] a \in {"streams", "mvpn"} ->
            /\ \A s \in view.igmp \cup {j.stream : j \in view.pim} : Stream(s)
            /\ \A j \in view.pim : j.roles \subseteq {"receiver", "sender"}
            /\ a = "streams" => \A r \in view.routes : Stream(r.stream) /\ Counter(r.pps)
            /\ a = "mvpn" => Mcast!NoEntry \notin view.mvpn.entries
      [] a = "inet2" -> \A r \in view.routes : Stream(r.stream) /\ Counter(r.pps)

ASSUME ViewsAssumption == \A a \in Areas :
    /\ a \in DOMAIN Empty
    /\ Unknown \notin Views[a]
    /\ \A view \in Views[a] :
          /\ \A c \in DOMAIN Empty[a] : DOMAIN Empty[a][c] \subseteq DOMAIN view
          /\ Shown(a, view)

Collectors(a) == DOMAIN Empty[a] \ {"config"}
Losses(a) == {lost \in SUBSET Collectors(a) : Cardinality(lost) <= MaxLost}

\* capture_device: the part of a collector that failed stays empty.
Seen(a, view, lost) ==
    [f \in DOMAIN view |->
        LET empty == {c \in lost : f \in DOMAIN Empty[a][c]}
        IN  IF empty = {} THEN view[f] ELSE Empty[a][CHOOSE c \in empty : TRUE][f]]

\* The pings come last, at targets taken from what the capture and the baseline hold.
Family(a) == IF a = "reach4" THEN 4 ELSE 6

Fate(view) ==
    [h \in Hosts |-> IF h \in view.refused THEN "refused" ELSE IF h \in view.alive THEN "answer" ELSE "no answer"]

Captured(a, view, lost, before) ==
    LET data == Seen(a, view, lost) IN
    IF a \notin {"reach4", "reach6"} THEN data
    ELSE [data EXCEPT !.pings = Reach!Pings(data, Family(a), before, Fate(view))]

-----------------------------------------------------------------------------
(* The findings of every check that looks at the area.                     *)

Judged(a, scope, now, was, captures, chosen) ==
    LET run(check, rows) == RunCheck(check, AppliesTo(check, scope), scope, captures, chosen, rows)
        session(check, rows) == RunCheck(check, Peer!BgpApplies(scope), scope, captures, chosen, rows)
    IN  run(DeactivationState, DeactivationRows(scope)) \cup
        CASE a = "bgp" -> session(Peer!BgpSessionState, Peer!BgpRows(now, was, captures))
                          \cup session(Peer!BgpPrefixCounts, Peer!PrefixRows(now, was, -10))
          [] a = "bfd" -> RunCheck(Peer!BfdSessionState, Peer!BfdApplies(scope), scope, captures, chosen,
                                   Peer!BfdRows(now, was, captures))
          [] a = "isis" -> run(Core!IsisAdjacencyState, Core!IsisAdjacencyRows(now.adj, was.adj, captures))
          [] a = "isisport" -> run(Core!IsisInterfaceInfo, Core!IsisInterfaceRows(now.port, scope.subtype))
          [] a = "overload" -> run(Core!IsisOverview, Core!IsisOverviewRows(now.state))
          [] a = "ldp" -> run(Core!LdpNeighborState, Core!LdpNeighborRows(now.peer, was.peer, captures))
          [] a = "pim" -> run(Core!PimNeighborState,
                              Core!PimNeighborRows(scope.pim, now.peer, was.peer, captures))
          [] a = "mpls" -> run(Core!MplsInterfaceState, Core!MplsInterfaceRows(now.state, was.state, captures))
          [] a = "transit" -> run(Core!BfdTransitState, Core!BfdTransitRows(now.peers, was.peers, captures))
          [] a = "ports" -> run(Port!InterfaceState, Port!InterfaceStateRows(scope, now, was, captures))
                            \cup run(Port!InterfaceErrors, Port!InterfaceErrorsRows(scope, now, was))
                            \cup run(Port!InterfaceTraffic, Port!InterfaceTrafficRows(scope, now, was))
                            \cup run(Port!TrafficCeased, Port!TrafficCeasedRows(scope, now, was))
          [] a = "optics" -> run(Port!OpticalLevels, Port!OpticalLevelsRows(now.optics, was.optics, captures))
                             \cup run(Port!OpticalAlarms, Port!OpticalAlarmsRows(now.optics, was.optics, captures))
          [] a = "static" -> run(Route!StaticRouteStatus, Route!StaticRouteRows(now, was, captures))
          [] a = "aggregate" -> run(Route!AggregateRouteStatus, Route!AggregateRouteRows(now, was, captures))
          [] a = "reach4" -> run(Reach!ArpPresent, Reach!TableRows("arp_present", "arp", now, was, captures))
                             \cup run(Reach!PingReachability, Reach!PingRows(now, was, captures))
          [] a = "reach6" -> run(Reach!NdPresent, Reach!TableRows("nd_present", "nd", now, was, captures))
                             \cup run(Reach!PingReachability, Reach!PingRows(now, was, captures))
          [] a = "vpws" -> run(Evpn!EvpnVpwsStatus, Evpn!VpwsRows(now, was, captures))
          [] a = "esi" -> run(Evpn!EvpnEsiStatus, Evpn!EsiRows(now, was, captures))
          [] a = "evpn" -> run(Evpn!EvpnInstanceStatus, Evpn!InstanceRows(scope, now, was, captures))
          [] a = "mac" -> run(Evpn!EvpnMacCount, Evpn!MacRows(now, was, captures))
          [] a = "streams" -> run(Mcast!IgmpMembershipReport, Mcast!IgmpRows(scope, now, was, captures))
                              \cup run(Mcast!PimJoin, Mcast!PimRows(scope, now, was, captures))
                              \cup run(Mcast!MulticastForwardingStatus, Mcast!ForwardingRows(now, was, captures))
          [] a = "mvpn" -> run(Mcast!MvpnCmulticastStatus, Mcast!MvpnRows(now, was, captures))
          [] a = "inet2" -> run(Mcast!CoreMulticastForwarding,
                                Mcast!CoreForwardingRows(scope, now, was, captures))

-----------------------------------------------------------------------------
Init ==
    /\ area \in Areas
    /\ blocks \in Blocks[area]
    /\ old \in Views[area]
    /\ new = Unknown
    /\ baseline = NoCapture
    /\ subject = NoCapture
    /\ profile = NoProfile
    /\ verdict = NoVerdict

\* recorded: the snapshot says of its collectors whether they measured; if it does not, a
\* part that is missing looks like one that was lost.
CaptureBaseline(lost, recorded) ==
    /\ baseline = NoCapture
    /\ recorded \/ lost = {}
    /\ new = Unknown
    /\ baseline' = [data |-> Captured(area, old, lost, {}), lost |-> lost, recorded |-> recorded]
    /\ UNCHANGED <<area, blocks, old, new, subject, profile, verdict>>

\* The service moves, and the new box is captured.
CaptureSubject(view, lost) ==
    LET before == IF baseline = NoCapture \/ area \notin {"reach4", "reach6"} THEN {}
                  ELSE baseline.data.entries
    IN  /\ subject = NoCapture
        /\ new' = view
        /\ subject' = [data |-> Captured(area, view, lost, before), lost |-> lost]
        /\ UNCHANGED <<area, blocks, old, baseline, profile, verdict>>

\* Ping has no collector: the results of a baseline are its evidence.
Captures ==
    IF baseline = NoCapture
    THEN [baseline |-> FALSE, measured |-> {}, failed |-> subject.lost]
    ELSE [baseline |-> TRUE,
          measured |-> (IF baseline.recorded THEN Collectors(area) \ baseline.lost ELSE {})
                       \cup (IF area \in {"reach4", "reach6"} /\ baseline.data.pings # {}
                             THEN {"ping"} ELSE {}),
          failed |-> subject.lost]

\* Without a baseline every check is given an empty one.
BaselineData ==
    IF baseline = NoCapture THEN Seen(area, old, DOMAIN Empty[area]) ELSE baseline.data

\* _run_scope, for every block, with the profile of this evaluation.
Judge(chosen) ==
    LET counterpart(scope) ==
            IF baseline = NoCapture THEN [scope EXCEPT !.wasOff = "unknown"] ELSE scope
    IN  /\ subject # NoCapture
        /\ verdict = NoVerdict
        /\ profile' = chosen
        /\ verdict' = [scope \in blocks |->
                          Judged(area, counterpart(scope), subject.data, BaselineData, Captures, chosen)]
        /\ UNCHANGED <<area, blocks, old, new, baseline, subject>>

Next ==
    \/ \E lost \in Losses(area), recorded \in BOOLEAN : CaptureBaseline(lost, recorded)
    \/ \E view \in Views[area], lost \in Losses(area) : CaptureSubject(view, lost)
    \/ \E chosen \in Profiles : Judge(chosen)

Spec == Init /\ [][Next]_vars
=============================================================================
