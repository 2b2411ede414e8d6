----------------------------- MODULE CoreChecks -----------------------------
(***************************************************************************)
(* The checks of a core port, of one transit unit or of the loopback       *)
(* (checks/core_protocols.py).  A port missing from the output of a        *)
(* protocol is a measurement: the check reports it.                        *)
(*                                                                         *)
(* What a snapshot holds of the unit, each area read by its own collector: *)
(*   isis_adjacency  [there, system, state, ip]                            *)
(*   isis_interface  [there, levels, passive], levels a set of 1 and 2     *)
(*   ldp_neighbor    [there, uptime, address], pim_neighbor likewise       *)
(*   mpls_interface  the state, Nothing if the port is not listed          *)
(*   isis_overview   Nothing, "overload" or "normal"                       *)
(*   bfd             the state of the session to each peer, or Nothing     *)
(* pim             PIM is configured on the service                        *)
(***************************************************************************)
EXTENDS Verdicts

Nothing == "nothing"
UNKNOWN == "unknown"

Core(id, mode, area, subtypes, severity) ==
    CheckClass(id, mode, {area}, {"Core"}, subtypes, {}, severity, FALSE)

IsisAdjacencyState == Core("isis_adjacency_state", "both", "isis_adjacency", {"transit"}, "critical")
IsisInterfaceInfo == Core("isis_interface_info", "state", "isis_interface", {"transit", "loopback"}, "critical")
LdpNeighborState == Core("ldp_neighbor_state", "both", "ldp_neighbor", {"transit"}, "critical")
PimNeighborState == Core("pim_neighbor_state", "both", "pim_neighbor", {"transit"}, "critical")
MplsInterfaceState == Core("mpls_interface_state", "both", "mpls_interface", {"transit"}, "critical")
IsisOverview == Core("isis_overview", "state", "isis_overview", {"loopback"}, "advisory")
BfdTransitState == Core("bfd_transit_state", "both", "bfd", {"transit"}, "critical")

\* Adjacency and BFD: Up again is a recovery, down as before is unchanged, and what the
\* collector could not read is never evidence.
UpOrSame(now, was, captures, area) ==
    IF now = "Up" THEN IF was \in {"Up", UNKNOWN, Nothing} THEN "ok" ELSE "recovered"
    ELSE UnchangedOr("broken", captures, area, now # UNKNOWN /\ was = now)

-----------------------------------------------------------------------------
NoAdjacency == [there |-> FALSE, system |-> Nothing, state |-> Nothing, ip |-> Nothing]

\* The address of the neighbour, one row per family.
IsisAddress(now, was, captures) ==
    IF was.there /\ now.ip # was.ip THEN "degraded"
    ELSE IF now.ip # Nothing THEN "ok"
    ELSE UnchangedOr("broken", captures, "isis_adjacency", was.there /\ was.ip = Nothing)

IsisNeighbor(now, was) ==
    IF ~was.there THEN "info" ELSE IF now.system # was.system THEN "degraded" ELSE "ok"

IsisAdjacencyRows(now, was, captures) ==
    IF ~now.there
    THEN {Row("isis_adjacency_state", <<"state">>,
              UnchangedOr("broken", captures, "isis_adjacency", ~was.there))}
    ELSE {Row("isis_adjacency_state", <<"name">>, IsisNeighbor(now, was)),
          Row("isis_adjacency_state", <<"state">>,
              UpOrSame(now.state, was.state, captures, "isis_adjacency")),
          Row("isis_adjacency_state", <<"address">>, IsisAddress(now, was, captures))}

-----------------------------------------------------------------------------
\* The configuration of IS-IS on a port: level 2 only, passive exactly on the loopback.
IsisInterfaceRows(now, subtype) ==
    LET row(about, ok) == Row("isis_interface_info", <<about>>, IF ok THEN "ok" ELSE "broken")
    IN  IF ~now.there THEN {row("interface", FALSE)}
        ELSE {row("level 2", 2 \in now.levels)}
             \cup (IF 1 \in now.levels THEN {row("level 1", FALSE)} ELSE {})
             \cup (IF 2 \in now.levels THEN {row("passive", now.passive <=> subtype = "loopback")}
                   ELSE {})

IsisOverviewRows(now) ==
    {Row("isis_overview", <<"overload">>, IF now = "normal" THEN "ok" ELSE "degraded")}

-----------------------------------------------------------------------------
(* LDP and PIM neighbours.  The uptime is Nothing if it could not be read. *)

NoNeighbor == [there |-> FALSE, uptime |-> Nothing, address |-> Nothing]

\* _neighbor_state: a neighbour that is not listed is down.
NeighborState(n) ==
    IF ~n.there THEN "Down"
    ELSE IF n.uptime = Nothing THEN Nothing
    ELSE IF n.uptime = "some" THEN "Up" ELSE "Down"

NeighborStatus(area, now, was, captures) ==
    IF ~now.there THEN UnchangedOr("broken", captures, area, NeighborState(was) = "Down")
    ELSE IF now.uptime = Nothing THEN "degraded"
    ELSE IF NeighborState(now) = "Up" THEN "ok"
    ELSE UnchangedOr("broken", captures, area, was.there /\ NeighborState(was) = "Down")

NeighborAddress(area, now, was, captures) ==
    IF was.there /\ now.address # was.address THEN "degraded"
    ELSE IF now.address = Nothing
    THEN UnchangedOr("broken", captures, area, was.there /\ was.address = Nothing)
    ELSE "info"

NeighborRows(check, area, now, was, captures) ==
    {Row(check, <<"status">>, NeighborStatus(area, now, was, captures))}
    \cup (IF now.there THEN {Row(check, <<"address">>, NeighborAddress(area, now, was, captures))}
          ELSE {})

LdpNeighborRows(now, was, captures) ==
    NeighborRows("ldp_neighbor_state", "ldp_neighbor", now, was, captures)

\* Only where PIM is configured.
PimNeighborRows(pim, now, was, captures) ==
    IF pim THEN NeighborRows("pim_neighbor_state", "pim_neighbor", now, was, captures) ELSE {}

-----------------------------------------------------------------------------
\* Any state but Up counts as down, on both sides; an unread one is not a state.
MplsOutcome(now, was, captures) ==
    IF now = Nothing THEN UnchangedOr("broken", captures, "mpls_interface", was = Nothing)
    ELSE IF now = "Up" THEN IF was \in {Nothing, "Up", UNKNOWN} THEN "ok" ELSE "recovered"
    ELSE UnchangedOr("broken", captures, "mpls_interface",
                     now # UNKNOWN /\ was \notin {Nothing, UNKNOWN, "Up"})

MplsInterfaceRows(now, was, captures) ==
    {Row("mpls_interface_state", <<"status">>, MplsOutcome(now, was, captures))}

-----------------------------------------------------------------------------
\* Only the sessions that are there now have a row of their own.
BfdTransitRows(now, was, captures) ==
    LET running(view) == {p \in DOMAIN view : view[p] # Nothing}
    IN  IF running(now) = {}
        THEN {Row("bfd_transit_state", <<"any">>,
                  UnchangedOr("broken", captures, "bfd", running(was) = {}))}
        ELSE {Row("bfd_transit_state", <<p>>, UpOrSame(now[p], was[p], captures, "bfd")) :
                p \in running(now)}
=============================================================================
