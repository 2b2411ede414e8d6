----------------------------- MODULE PortChecks -----------------------------
(***************************************************************************)
(* The checks of interfaces (checks/ifaces.py) and of their optics         *)
(* (checks/optics.py).  A customer port has a block of its own, of kind    *)
(* "layer1"; the services on it are about their units only.                *)
(*                                                                         *)
(* A scope adds to that of Verdicts: parent, there is a transit port in    *)
(* its selectors, and link, it is the L3 part of a service whose transit   *)
(* is in another block.  A snapshot holds, for the port "port", its unit   *)
(* "unit" and the internal interface "irb" of the scope, Nothing or        *)
(*   [admin, oper, errors, pps]                                            *)
(* and of the optics of the port Nothing or [rx, tx, alarms]: a level in   *)
(* dB, Dark (-inf) or Unread; alarms is a set of "alarm" and "warning".    *)
(***************************************************************************)
EXTENDS Verdicts

UNKNOWN == "unknown"
Nothing == [there |-> FALSE]
There(data) == data.there

Port(id, mode, area, types, severity) ==
    CheckClass(id, mode, {area}, types, {}, {}, severity, TRUE)

NoService == {"no service type"}     \* service_types = frozenset(): no service matches
InterfaceState == Port("interface_state", "both", "interfaces", {}, "critical")
InterfaceErrors == Port("interface_errors", "both", "interfaces", {}, "advisory")
InterfaceTraffic == Port("interface_traffic", "both", "interfaces", {}, "advisory")
TrafficCeased == Port("traffic_ceased", "compare", "interfaces", {}, "advisory")
OpticalLevels == Port("interface_optics_levels", "both", "optics", NoService, "critical")
OpticalAlarms == Port("interface_optics_alarms", "both", "optics", NoService, "critical")

-----------------------------------------------------------------------------
Interfaces == {"port", "unit", "irb"}
IsTransit(name) == name \in {"port", "unit"}
IsPhysical(name) == name = "port"

Listed(view) == {name \in Interfaces : There(view[name])}
Transit(view) == {name \in Listed(view) : IsTransit(name)}

\* Mutant of ScopeInterfaces: a service has rows of its port as well.
ScopeInterfacesAll(scope, view) ==
    IF scope.kind = "layer1" THEN {name \in Listed(view) : IsPhysical(name)} ELSE Listed(view)

\* Whose rows the block has: its port, or its units if the port has a block.
ScopeInterfaces(scope, view) ==
    IF scope.kind = "layer1" THEN {name \in Listed(view) : IsPhysical(name)}
    ELSE IF scope.parent THEN {name \in Listed(view) : ~IsPhysical(name)}
    ELSE Listed(view)

\* The transit of an L3 part is measured in its L2 block.
MeasuredElsewhere(scope, view) == scope.link /\ Transit(view) = {}

-----------------------------------------------------------------------------
\* The baseline value of an interface that is not in the baseline matches nothing.
Was(old, name, field) == IF There(old[name]) THEN old[name][field] ELSE "none"

StateOutcome(now, was, captures) ==
    IF now = "up" THEN "ok"
    ELSE UnchangedOr("broken", captures, "interfaces", now # UNKNOWN /\ was = now)

InterfaceStateRows(scope, view, old, captures) ==
    IF Listed(view) = {} THEN {Row("interface_state", <<"all">>, "skip")}
    ELSE UNION {{Row("interface_state", <<name, field>>,
                     StateOutcome(view[name][field], Was(old, name, field), captures)) :
                    field \in {"admin", "oper"}} : name \in ScopeInterfaces(scope, view)}

-----------------------------------------------------------------------------
(* Error counters are cumulative: a box that reports none has errors = -1. *)

NotMeasured == -1

\* Without a baseline any error counts, with one only what was added.
ErrorsOutcome(now, was) ==
    IF now = NotMeasured THEN "degraded"
    ELSE IF now = 0 THEN "ok"
    ELSE IF was # NotMeasured /\ now <= was THEN "ok"
    ELSE "broken"

InterfaceErrorsRows(scope, view, old) ==
    LET names == {n \in ScopeInterfaces(scope, view) : IsTransit(n) /\ IsPhysical(n)}
        was(name) == IF There(old[name]) THEN old[name].errors ELSE NotMeasured
    IN  IF MeasuredElsewhere(scope, view) THEN {Row("interface_errors", <<"link">>, "info")}
        ELSE IF scope.kind # "layer1" /\ scope.parent THEN {}
        ELSE IF names = {} THEN {Row("interface_errors", <<"all">>, "skip")}
        ELSE {Row("interface_errors", <<name>>, ErrorsOutcome(view[name].errors, was(name))) :
                name \in names}

-----------------------------------------------------------------------------
(* Traffic, in packets per second, one direction standing for both.        *)

\* DEFAULTS: tolerance_percent -60, require_nonzero; a baseline of zero allows anything.
TrafficOutcome(now, was, known) ==
    IF ~known THEN IF now = 0 THEN "broken" ELSE "ok"
    ELSE IF was # 0 /\ 100 * (now - was) < -60 * was THEN "broken"
    ELSE "ok"

\* A scope without transit has one row that says so.
TrafficNames(scope, view) == {n \in ScopeInterfaces(scope, view) : IsTransit(n)}

InterfaceTrafficRows(scope, view, old) ==
    LET was(name) == IF There(old[name]) THEN old[name].pps ELSE 0
    IN  IF MeasuredElsewhere(scope, view) THEN {}
        ELSE IF TrafficNames(scope, view) = {} THEN {Row("interface_traffic", <<"all">>, "skip")}
        ELSE {Row("interface_traffic", <<name>>,
                  TrafficOutcome(view[name].pps, was(name), There(old[name]))) :
                name \in TrafficNames(scope, view)}

\* traffic_ceased, off by default: the old port must be silent after the migration.
CeasedOutcome(now, old) ==
    IF ~There(old) \/ old.pps = 0 THEN "skip"
    ELSE IF now.pps > 1 THEN "broken" ELSE "ok"

TrafficCeasedRows(scope, view, old) ==
    IF MeasuredElsewhere(scope, view) THEN {}
    ELSE IF TrafficNames(scope, view) = {} THEN {Row("traffic_ceased", <<"all">>, "skip")}
    ELSE {Row("traffic_ceased", <<name>>, CeasedOutcome(view[name], old[name])) :
            name \in TrafficNames(scope, view)}

-----------------------------------------------------------------------------
Dark == -100       \* -inf dBm: no light
Unread == -200
Finite(level) == level \notin {Dark, Unread}
TOLERANCE_DB == 2

Sides == {"rx", "tx"}
DarkSides(lane) == {s \in Sides : lane[s] = Dark}

\* A lane that is dark as before is unchanged, whatever its other side does.
LevelOutcome(lane, was, captures) ==
    LET moved == {s \in Sides : Finite(lane[s]) /\ Finite(was[s]) /\
                    (lane[s] - was[s] > TOLERANCE_DB \/ was[s] - lane[s] > TOLERANCE_DB)}
    IN  IF DarkSides(lane) # {}
        THEN UnchangedOr("broken", captures, "optics", DarkSides(was) = DarkSides(lane))
        ELSE IF moved # {} THEN "degraded" ELSE "ok"

OpticalLevelsRows(optics, was, captures) ==
    {Row("interface_optics_levels", <<"port">>,
         IF ~There(optics) THEN "skip"
         ELSE IF There(was) THEN LevelOutcome(optics, was, captures)
         ELSE IF DarkSides(optics) # {} THEN "broken" ELSE "ok")}

\* One row per raised flag, unchanged if the very same flag was raised before.
OpticalAlarmsRows(optics, was, captures) ==
    LET before == IF There(was) THEN was.alarms ELSE {}
    IN  IF ~There(optics) THEN {Row("interface_optics_alarms", <<"port">>, "skip")}
        ELSE IF optics.alarms = {} THEN {Row("interface_optics_alarms", <<"port">>, "ok")}
        ELSE {Row("interface_optics_alarms", <<tag>>,
                  UnchangedOr(IF tag = "alarm" THEN "broken" ELSE "degraded", captures, "optics",
                              tag \in before)) : tag \in optics.alarms}
=============================================================================
