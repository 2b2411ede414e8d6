--------------------------- MODULE MulticastChecks ---------------------------
(***************************************************************************)
(* The checks of multicast (checks/multicast.py).  A stream is a pair of a *)
(* source and a group, the source AnySource in a report for (STAR, G).     *)
(* A snapshot holds                                                        *)
(*   igmp     the streams reported on the interface of the service         *)
(*   pim      the PIM joins of its instance, a set of [stream, roles]:     *)
(*            what the interface of the service is in it                   *)
(*   routes   the multicast table, a set of [stream, up, down, pps]: up is *)
(*            "service", "allowed", "other" or "none", pps may be Unread   *)
(*   mvpn     [there, entries], entries a set of [stream, pe]              *)
(*   vias     the interfaces of the inet.2 route of each prefix, NoRoute   *)
(*            if the table does not have it                                *)
(* and a scope adds igmp, pim (configured), senderOnly, prefixes (inet.2   *)
(* routes of the configuration, each [name, sources]).                     *)
(***************************************************************************)
EXTENDS Verdicts, Sequences

AnySource == "any"
RECEIVER == "receiver"
SENDER == "sender"
MULTICAST_TYPES == {"Internet", "IPVPN"}
MULTICAST_SUBTYPES == {"multicast", "mvpn"}

Multicast(id, requires, types, subtypes) ==
    CheckClass(id, "both", requires, types, subtypes, {}, "critical", FALSE)

IgmpMembershipReport == Multicast("igmp_membership_report", {"igmp_group"}, MULTICAST_TYPES, MULTICAST_SUBTYPES)
PimJoin == Multicast("pim_join", {"pim_join"}, MULTICAST_TYPES, MULTICAST_SUBTYPES)
MulticastForwardingStatus ==
    Multicast("multicast_forwarding_status", {"igmp_group", "multicast_route", "pim_join"},
              MULTICAST_TYPES, MULTICAST_SUBTYPES)
CoreMulticastForwarding ==
    Multicast("core_multicast_forwarding", {"multicast_route", "routes"}, {"Core"}, {"loopback"})
MvpnCmulticastStatus ==
    Multicast("mvpn_cmulticast_status", {"mvpn_instance", "pim_join"}, {"IPVPN"}, {"mvpn"})

-----------------------------------------------------------------------------
\* pim_pairs: joins that touch the interface of the service.
PimPairs(view) == {j.stream : j \in {j \in view.pim : j.roles # {}}}

\* expected_pairs: what IGMP reports and what PIM joins, with the union of the roles.
ExpectedPairs(view) == view.igmp \cup PimPairs(view)
Roles(view, stream) ==
    (IF stream \in view.igmp THEN {RECEIVER} ELSE {})
    \cup UNION {j.roles : j \in {j \in view.pim : j.stream = stream}}

\* routes_for: a report without a source stands for every stream of the group.
RoutesFor(routes, stream) ==
    {r \in routes : r.stream = stream \/ (stream[1] = AnySource /\ r.stream[2] = stream[2])}

-----------------------------------------------------------------------------
(* igmp_membership_report and pim_join say the same of their own streams.  *)

\* Mutant of ReportOutcome: without its own streams the check asks nobody else.
ReportOutcomeAlone(now, was, other, otherFailed, scope, captures, area) ==
    IF now # {} THEN IF was # {} /\ was # now THEN "degraded" ELSE "ok"
    ELSE UnchangedOr("broken", captures, area, captures.baseline /\ was = {})

\* No stream of its own is no fault if the other protocol carries them, or may: its
\* collector failed; nor at the site of a sender.
ReportOutcome(now, was, other, otherFailed, scope, captures, area) ==
    IF now # {} THEN IF was # {} /\ was # now THEN "degraded" ELSE "ok"
    ELSE IF other # {} THEN "info"
    ELSE IF otherFailed THEN "skip"
    ELSE IF scope.senderOnly THEN "degraded"
    ELSE UnchangedOr("broken", captures, area, captures.baseline /\ was = {})

IgmpRows(scope, view, old, captures) ==
    IF ~scope.igmp THEN {}
    ELSE {Row("igmp_membership_report", <<"report">>,
              ReportOutcome(view.igmp, old.igmp, PimPairs(view), "pim_join" \in captures.failed,
                            scope, captures, "igmp_group"))}

PimRows(scope, view, old, captures) ==
    IF ~scope.pim THEN {}
    ELSE {Row("pim_join", <<"join">>,
              ReportOutcome(PimPairs(view), PimPairs(old), view.igmp, "igmp_group" \in captures.failed,
                            scope, captures, "pim_join"))}

-----------------------------------------------------------------------------
Unread == -1
RateOutcome(route) == IF route.pps = Unread THEN "skip" ELSE IF route.pps > 0 THEN "ok" ELSE "broken"

NoStream == [stream |-> <<AnySource, AnySource>>, up |-> "none", down |-> {}, pps |-> Unread]

\* The entry of the same stream in the baseline.
BaselineRoute(old, route) ==
    LET same == {r \in old.routes : r.stream = route.stream}
    IN  IF same = {} THEN NoStream ELSE CHOOSE r \in same : TRUE

\* A sender's stream without a downstream is soft, a receiver's that does not reach it is
\* hard.  With both roles the one that works counts, the receiver if neither does.
StreamRows(route, roles, old, captures) ==
    LET was == BaselineRoute(old, route)
        receives == RECEIVER \in roles /\ "service" \in route.down
        sends == SENDER \in roles /\ route.down # {}
        same(outcome, fault) == UnchangedOr(outcome, captures, "multicast_route", was # NoStream /\ fault)
        row(about, outcome) == Row("multicast_forwarding_status", Append(route.stream, about), outcome)
    IN  {row("rate", RateOutcome(route))}
        \cup IF (sends /\ ~receives) \/ roles = {SENDER}
             THEN {row("stream", IF sends THEN "ok" ELSE same("degraded", was.down = {})),
                   row("upstream", IF route.up = "service" THEN "ok" ELSE "broken")}
             ELSE {row("stream", IF receives THEN "ok" ELSE same("broken", "service" \notin was.down)),
                   row("upstream", IF route.up \in {"service", "allowed"} THEN "ok" ELSE "broken")}

\* The rows of one expected stream.
PairRows(view, old, captures, stream) ==
    LET found == RoutesFor(view.routes, stream) IN
    IF found = {}
    THEN {Row("multicast_forwarding_status", Append(stream, "table"),
              UnchangedOr("degraded", captures, "multicast_route", RoutesFor(old.routes, stream) = {}))}
    ELSE UNION {StreamRows(r, Roles(view, stream), old, captures) : r \in found}

\* _summary: hard faults break it, soft ones degrade it, unless all are as they were.
PairKind(rows) ==
    LET outcomes == {r.outcome : r \in rows} IN
    IF "broken" \in outcomes THEN "hard"
    ELSE IF "degraded" \in outcomes THEN "soft"
    ELSE IF "unchanged" \in outcomes THEN "as before" ELSE "fine"

ForwardingSummary(kinds, captures) ==
    IF "hard" \in kinds THEN "broken"
    ELSE IF kinds \subseteq {"fine"} THEN "ok"
    ELSE UnchangedOr("degraded", captures, "multicast_route", "soft" \notin kinds)

ForwardingRows(view, old, captures) ==
    LET pairs == ExpectedPairs(view)
        kinds == {PairKind(PairRows(view, old, captures, s)) : s \in pairs}
    IN  IF pairs = {} THEN {Row("multicast_forwarding_status", <<"all">>, "skip")}
        ELSE {Row("multicast_forwarding_status", <<"summary">>, ForwardingSummary(kinds, captures))}
             \cup UNION {PairRows(view, old, captures, s) : s \in pairs}

-----------------------------------------------------------------------------
NoRoute == {"no route"}

\* assign_sources: the longest prefix, the one with the fewest addresses, takes the source.
AssignedTo(prefixes, source) ==
    {p \in prefixes : /\ source \in p.sources
                      /\ \A q \in prefixes :
                            source \in q.sources => Cardinality(p.sources) <= Cardinality(q.sources)}

StreamsOf(prefix, prefixes, routes) == {r \in routes : prefix \in AssignedTo(prefixes, r.stream[1])}

CoreStreamRows(route, vias) ==
    LET row(about, outcome) == Row("core_multicast_forwarding", Append(route.stream, about), outcome) IN
    {row("upstream", IF vias = NoRoute THEN "skip"
                     ELSE IF route.up \in vias THEN "ok" ELSE "broken"),
     row("downstream", IF route.down # {} THEN "ok" ELSE "broken"),
     row("rate", RateOutcome(route))}

CorePrefixRows(prefix, scope, view, old, captures) ==
    LET now == StreamsOf(prefix, scope.prefixes, view.routes)
        was == StreamsOf(prefix, scope.prefixes, old.routes)
        streams(routes) == {r.stream : r \in routes}
    IN  IF now = {}
        THEN {Row("core_multicast_forwarding", <<prefix.name>>,
                  UnchangedOr("broken", captures, "multicast_route", captures.baseline /\ was = {}))}
        ELSE {Row("core_multicast_forwarding", <<prefix.name>>,
                  IF was # {} /\ streams(was) # streams(now) THEN "degraded" ELSE "ok")}
             \cup UNION {CoreStreamRows(r, view.vias[prefix.name]) : r \in now}

CoreForwardingRows(scope, view, old, captures) ==
    LET missing(v) == {p \in scope.prefixes : StreamsOf(p, scope.prefixes, v.routes) = {}} IN
    IF scope.prefixes = {} THEN {}
    ELSE {Row("core_multicast_forwarding", <<"summary">>,
              IF missing(view) = {} THEN "ok"
              ELSE UnchangedOr("broken", captures, "multicast_route",
                               captures.baseline /\ missing(view) \subseteq missing(old)))}
         \cup UNION {CorePrefixRows(p, scope, view, old, captures) : p \in scope.prefixes}

-----------------------------------------------------------------------------
NoEntry == [stream |-> <<AnySource, AnySource>>, pe |-> "none"]

\* _cmulticast_entry: the first entry that covers the stream.
CmulticastEntry(mvpn, stream) ==
    LET covers == RoutesFor(mvpn.entries, stream)
    IN  IF covers = {} THEN NoEntry ELSE CHOOSE e \in covers : TRUE

\* _tunnel_row: only the PE of the sender is compared.
TunnelOutcome(entry, was) ==
    IF entry.pe = "none" THEN "broken"
    ELSE IF was.pe # "none" /\ was.pe # entry.pe THEN "degraded" ELSE "ok"

CmulticastRows(view, old, captures, stream) ==
    LET entry == CmulticastEntry(view.mvpn, stream)
        was == CmulticastEntry(old.mvpn, stream)
        row(about, outcome) == Row("mvpn_cmulticast_status", Append(stream, about), outcome)
    IN  IF entry = NoEntry
        THEN {row("entry", UnchangedOr("broken", captures, "mvpn_instance", was = NoEntry /\ old.mvpn.there))}
        ELSE {row("entry", "ok"), row("tunnel", TunnelOutcome(entry, was))}

MvpnRows(view, old, captures) ==
    LET pairs == ExpectedPairs(view) IN
    IF pairs = {} THEN {Row("mvpn_cmulticast_status", <<"all">>, "skip")}
    ELSE IF ~view.mvpn.there THEN {Row("mvpn_cmulticast_status", <<"instance">>, "broken")}
    ELSE UNION {CmulticastRows(view, old, captures, s) : s \in pairs}
=============================================================================
