-------------------------- MODULE MCMigrationVerdict --------------------------
(***************************************************************************)
(* Instances of MigrationVerdict: for every area the states of a box that  *)
(* its checks tell apart, and the blocks of the service there.             *)
(***************************************************************************)
EXTENDS VerdictProperties

MCNextHops == {"nh1", "nh2"}
MCHosts == {"h1", "h2", "h3", "me"}
MCNets == {"wide", "narrow"}
MCNetOf == [h \in MCHosts |-> IF h \in {"h1", "h2"} THEN "wide" ELSE "narrow"]

\* The profile of an operator who has set nothing, and one that turns everything on, calls
\* the advisory checks critical, and of the critical ones some advisory.
Unset == [disabled |-> {"traffic_ceased"}, severity |-> <<>>]
Lenient == {"deactivation_state", "bgp_session_state", "interface_state", "multicast_forwarding_status"}
Strict == {check.id : check \in AdvisoryChecks}
Reversed ==
    [disabled |-> {}, severity |-> [id \in Strict \cup Lenient |->
                                       IF id \in Strict THEN "critical" ELSE "advisory"]]
MCProfiles == {Unset, Reversed}

-----------------------------------------------------------------------------
BgpViews ==
    LET ours == {{}} \cup {{[instance |-> "ours", session |-> 1, state |-> s]} :
                            s \in {"Established", "Active", "Idle", "unknown"}}
                \cup {{[instance |-> "ours", session |-> i, state |-> "Established"] : i \in {1, 2}}}
        foreign == {{}, {[instance |-> "other", session |-> 3, state |-> "Established"]}}
        ribs(s) == IF \E r \in s : r.state = "Established" THEN {Peer!NoRib, 50, 100} ELSE {Peer!NoRib}
    IN  UNION {{[intent |-> i, bgp |-> o \cup f, rib |-> n] : n \in ribs(o)} :
                  i \in {"active"}, o \in ours, f \in foreign}
        \cup UNION {{[intent |-> "inactive", bgp |-> o, rib |-> n] : n \in ribs(o) \ {0}} : o \in ours}
        \cup {[intent |-> "none", bgp |-> f, rib |-> Peer!NoRib] : f \in foreign}

BfdViews ==
    LET bgp == {{}} \cup {{[instance |-> "ours", session |-> 1, state |-> s]} : s \in {"Established", "Active"}}
               \cup {{[instance |-> "ours", session |-> i, state |-> "Established"] : i \in {1, 2}}}
        states(port) == {{}} \cup {{[port |-> port, session |-> 1, state |-> s]} : s \in {"Up", "Down"}}
    IN  {[intent |-> "active", bfdIntent |-> c, bgp |-> b, bfd |-> o \cup m] :
            c \in {TRUE}, b \in bgp, o \in states("ours"), m \in states("multihop")}
        \cup {[intent |-> "active", bfdIntent |-> FALSE, bgp |-> {}, bfd |-> o] : o \in states("ours")}

IsisViews ==
    {[adj |-> Core!NoAdjacency]} \cup
    {[adj |-> [there |-> TRUE, system |-> n, state |-> s, ip |-> i]] :
        n \in {"pe1", "pe2"}, s \in {"Up", "Down", "unknown"}, i \in {Core!Nothing, "addr"}}

IsisPortViews ==
    {[port |-> [there |-> FALSE]]} \cup
    {[port |-> [there |-> TRUE, levels |-> l, passive |-> p]] : l \in SUBSET {1, 2}, p \in BOOLEAN}

NeighborViews ==
    {[peer |-> Core!NoNeighbor]} \cup
    {[peer |-> [there |-> TRUE, uptime |-> u, address |-> a]] :
        u \in {Core!Nothing, "some", "zero"}, a \in {Core!Nothing, "a1", "a2"}}

TransitViews ==
    {[peers |-> [p1 |-> s, p2 |-> t]] : s \in {Core!Nothing, "Up", "Down", "unknown"}, t \in {Core!Nothing, "Up"}}

PortViews ==
    LET interface(errors) == {Port!Nothing, [there |-> TRUE, admin |-> "up", oper |-> "up", errors |-> 0, pps |-> 100],
                              [there |-> TRUE, admin |-> "up", oper |-> "down", errors |-> errors, pps |-> 0],
                              [there |-> TRUE, admin |-> "unknown", oper |-> "up", errors |-> 0, pps |-> 30]}
        uncounted == [there |-> TRUE, admin |-> "up", oper |-> "up", errors |-> Port!NotMeasured, pps |-> 100]
    IN  {[port |-> p, unit |-> u, irb |-> i] : p \in interface(7) \cup {uncounted}, u \in interface(0),
            i \in {Port!Nothing, [there |-> TRUE, admin |-> "up", oper |-> "up", errors |-> 0, pps |-> 0]}}

OpticsViews ==
    {[optics |-> Port!Nothing]} \cup
    {[optics |-> [there |-> TRUE, rx |-> r, tx |-> t, alarms |-> a]] :
        r \in {Port!Dark, -12, -3}, t \in {Port!Dark, -2}, a \in SUBSET {"alarm", "warning"}}

RouteViews(hops) ==
    LET tables == {Route!NoEntry} \cup
                  {[there |-> TRUE, active |-> a, hops |-> h] : a \in {"yes", "no", "unread"}, h \in {{"nh1"}, {"nh2"}}}
    IN  {[conf |-> c, hops |-> h, table |-> t] : c \in {"on", "off"}, h \in hops, t \in tables}
        \cup {[conf |-> "none", hops |-> [h \in MCNextHops |-> "none"], table |-> Route!NoEntry]}

StaticViews ==
    RouteViews({[nh1 |-> "on", nh2 |-> "none"], [nh1 |-> "off", nh2 |-> "none"], [nh1 |-> "off", nh2 |-> "on"]})
AggregateViews == RouteViews({[h \in MCNextHops |-> "none"]})

\* What becomes of each host: answers and in the table or not, gone with or without a
\* trace, behind another router, or not to be pinged.
ReachViews ==
    LET entry(h, fate) ==
            CASE fate = "listed"  -> {[ip |-> h, state |-> "resolved", remote |-> FALSE]}
              [] fate = "remote"  -> {[ip |-> h, state |-> "resolved", remote |-> TRUE]}
              [] fate = "trace"   -> {[ip |-> h, state |-> "incomplete", remote |-> FALSE]}
              [] OTHER -> {}
        view(f1, f2, f3, bgp, skipped) ==
            LET fate == [h1 |-> f1, h2 |-> f2, h3 |-> f3] IN
            [nets |-> MCNets, bgp |-> bgp, pings |-> {}, skipped |-> skipped,
             entries |-> UNION {entry(h, fate[h]) : h \in DOMAIN fate},
             alive |-> {h \in DOMAIN fate : fate[h] \in {"listed", "remote", "silent"}},
             refused |-> {h \in DOMAIN fate : fate[h] = "refused"}]
    IN  {view(f1, f2, f3, bgp, FALSE) :
            f1 \in {"listed", "trace", "gone", "silent"}, f2 \in {"listed", "remote", "gone"},
            f3 \in {"gone", "silent", "refused"}, bgp \in {{}, {"h2"}}}
        \cup {[view(f, "gone", "gone", {}, FALSE) EXCEPT !.nets = {}] : f \in {"trace", "gone"}}

Circuit(name, sid, status, pw, remote, partner) ==
    [name |-> name, sid |-> sid, status |-> status, pw |-> pw, local |-> {}, remote |-> remote, partner |-> partner]

VpwsViews ==
    LET remotes == {{}, {[ip |-> "pe1", resolved |-> TRUE]}, {[ip |-> "pe1", resolved |-> FALSE]}}
        first == {Circuit("first", s, t, Evpn!Nothing, r, Evpn!Nothing) :
                      s \in {"s1", "s2"}, t \in {"Up", "Down", "unknown"}, r \in remotes}
                 \cup {[Circuit("first", "s1", "Up", Evpn!Nothing, {[ip |-> "pe1", resolved |-> TRUE]}, Evpn!Nothing)
                            EXCEPT !.local = {[ip |-> "pe3", resolved |-> b]}] : b \in BOOLEAN}
                 \cup {Circuit("first", "s1", "Up", Evpn!Nothing, r, p) : p \in {"Up", "Down"}, r \in remotes}
                 \cup {Circuit("first", Evpn!NoSid, "Up", pw, {[ip |-> "pe1", resolved |-> TRUE]}, Evpn!Nothing) :
                          pw \in {"Up", "Down"}}
        second == {Circuit("second", "s2", t, Evpn!Nothing, {[ip |-> "pe2", resolved |-> TRUE]}, Evpn!Nothing) :
                      t \in {"Up", "Down"}}
    IN  {[there |-> FALSE, acs |-> {}], [there |-> TRUE, acs |-> {}]}
        \cup {[there |-> TRUE, acs |-> {a}] : a \in first}
        \cup {[there |-> TRUE, acs |-> {a, b}] : a \in {x \in first : x.sid # "s2" /\ x.status = "Up"}, b \in second}

EsiViews ==
    {[there |-> FALSE, resolved |-> Evpn!Nothing, status |-> Evpn!Nothing, df |-> Evpn!Nothing]} \cup
    {[there |-> TRUE, resolved |-> r, status |-> s, df |-> d] :
        r \in {Evpn!Nothing, "yes", "no"}, s \in {"Up", "Down", "unknown"},
        d \in {Evpn!Nothing, "elected", "not elected"}}

EvpnViews ==
    {[there |-> FALSE, neighbors |-> {}, unit |-> Evpn!Nothing, irb |-> Evpn!NoIrb]} \cup
    {[there |-> TRUE, neighbors |-> n, unit |-> u, irb |-> i] :
        n \in {{}, {"pe1"}, {"pe1", "pe2"}}, u \in {Evpn!Nothing, "Up", "Down"},
        i \in {Evpn!NoIrb} \cup {[status |-> s, context |-> c] : s \in {"Up", "Down"}, c \in {"vrf1", "vrf2"}}}

MacViews ==
    {[there |-> FALSE, vlan |-> Evpn!NotListed, port |-> Evpn!NotListed]} \cup
    {[there |-> TRUE, vlan |-> v, port |-> p] : v, p \in {Evpn!NotListed, 0, 3, 10}}

S1 == <<"s1", "g">>
S2 == <<"s2", "g">>
AnyG == <<"any", "g">>
StreamsViews ==
    LET route(up, down, pps) == [stream |-> S1, up |-> up, down |-> down, pps |-> pps]
        routes == {{}, {route("allowed", {"service"}, 10)}, {route("allowed", {"other"}, Mcast!Unread)},
                   {route("service", {"other"}, 10)}, {route("service", {}, 0)}, {route("other", {"service"}, 10)}}
        joins == {{}} \cup {{[stream |-> S1, roles |-> r]} : r \in {{}, {"receiver"}, {"sender"}, {"receiver", "sender"}}}
    IN  {[igmp |-> i, pim |-> p, routes |-> r] : i \in {{}, {AnyG}}, p \in joins, r \in routes}

MvpnViews ==
    LET join == [stream |-> S1, roles |-> {"receiver"}]
        mvpns == {[there |-> FALSE, entries |-> {}], [there |-> TRUE, entries |-> {}]} \cup
                 {[there |-> TRUE, entries |-> {[stream |-> S1, pe |-> pe]}] : pe \in {"pe1", "pe2", "none"}}
                 \cup {[there |-> TRUE, entries |-> {[stream |-> S1, pe |-> "none"], [stream |-> S2, pe |-> "pe1"]}]}
    IN  {[igmp |-> i, pim |-> p, mvpn |-> m] : i \in {{}, {AnyG}}, p \in {{}, {join}}, m \in mvpns}

Wide == [name |-> "wide", sources |-> {"s1", "s2"}]
Narrow == [name |-> "narrow", sources |-> {"s1"}]
Inet2Views ==
    LET route(s, up, down) == [stream |-> <<s, "g">>, up |-> up, down |-> down, pps |-> 10]
        still == [route("s2", "if1", {"x"}) EXCEPT !.pps = 0]
    IN
    {[routes |-> a \cup b, vias |-> [wide |-> {"if1"}, narrow |-> v]] :
        a \in {{}, {route("s1", "if1", {"x"})}, {route("s1", "if2", {})}}, b \in {{}, {route("s2", "if1", {"x"})}, {still}},
        v \in {Mcast!NoRoute, {"if1"}}}

-----------------------------------------------------------------------------
MCViews == [
    bgp |-> BgpViews, bfd |-> BfdViews, isis |-> IsisViews, isisport |-> IsisPortViews,
    overload |-> {[state |-> s] : s \in {"normal", "overload", Core!Nothing}},
    ldp |-> NeighborViews, pim |-> NeighborViews,
    mpls |-> {[state |-> s] : s \in {"Up", "Dn", "Dnn", "unknown", Core!Nothing}},
    transit |-> TransitViews, ports |-> PortViews, optics |-> OpticsViews, static |-> StaticViews,
    aggregate |-> AggregateViews, reach4 |-> ReachViews, reach6 |-> ReachViews, vpws |-> VpwsViews,
    esi |-> EsiViews, evpn |-> EvpnViews, mac |-> MacViews,
    streams |-> StreamsViews, mvpn |-> MvpnViews, inet2 |-> Inet2Views]

Service(type, subtype) ==
    [kind |-> "service", type |-> type, subtype |-> subtype, off |-> FALSE, wasOff |-> "no", parent |-> FALSE,
     link |-> FALSE, linked |-> FALSE, pim |-> TRUE, igmp |-> TRUE, senderOnly |-> FALSE, prefixes |-> {}]

Deactivatable(scope) == {{[scope EXCEPT !.off = o, !.wasOff = w]} : o \in BOOLEAN, w \in {"yes", "no"}}

Vpn == Service("IPVPN", "plain")
Transit == Service("Core", "transit")
Loopback == Service("Core", "loopback")
Lan == Service("E-LAN", "vlan-aware")

MCBlocks == [
    bgp |-> {{Vpn}, {Loopback}}, bfd |-> {{Vpn}}, isis |-> {{Transit}}, isisport |-> {{Transit}, {Loopback}},
    overload |-> {{Loopback}}, ldp |-> {{Transit}}, pim |-> {{Transit}, {[Transit EXCEPT !.pim = FALSE]}},
    mpls |-> Deactivatable(Transit), transit |-> {{Transit}},
    ports |-> {{[Vpn EXCEPT !.parent = TRUE], [Service("Layer1", "port") EXCEPT !.kind = "layer1"]},
               {Transit}, {[Vpn EXCEPT !.link = TRUE]}},
    optics |-> {{[Service("Layer1", "port") EXCEPT !.kind = "layer1"]}},
    static |-> {{Vpn}}, aggregate |-> Deactivatable(Vpn), reach4 |-> {{Vpn}}, reach6 |-> {{Vpn}},
    vpws |-> {{Service("E-Line", "vpws")}}, esi |-> {{Lan}, {Service("E-LAN", "local")}},
    evpn |-> {{Lan}, {[Lan EXCEPT !.linked = TRUE]}}, mac |-> {{Lan}},
    streams |-> {{Service("IPVPN", "mvpn")}, {[Service("Internet", "multicast") EXCEPT !.pim = FALSE]},
                 {[Service("IPVPN", "mvpn") EXCEPT !.igmp = FALSE, !.senderOnly = TRUE]}},
    mvpn |-> {{Service("IPVPN", "mvpn")}},
    inet2 |-> {{[Loopback EXCEPT !.prefixes = p]} : p \in {{}, {Wide}, {Wide, Narrow}}}]

\* The hypotheses of the theorems hold of these services.
ASSUME ServicesAssumption == ServicesAreCovered /\ OneBlockPerPort /\ HostsArePinged

\* The pings of a service that the profile of the capture leaves out.
PingViews == [reach4 |-> ReachViews \cup {[v EXCEPT !.skipped = TRUE] : v \in ReachViews}]
PingBlocks == [reach4 |-> {{Vpn}}]
=============================================================================
