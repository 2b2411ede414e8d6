---------------------------- MODULE RouteChecks ----------------------------
(***************************************************************************)
(* The checks of static and aggregate routes (checks/routes.py), for one   *)
(* prefix of one table.  A snapshot holds                                  *)
(*   conf    "none" | "on" | "off": the route in the configuration of the  *)
(*           service, deactivated or not                                   *)
(*   hops    the state of each configured next hop: "none" | "on" | "off"  *)
(*   table   the entry of the device: [there, active, hops], active is     *)
(*           "yes" | "no" | "unread", hops the set of its next hops        *)
(***************************************************************************)
EXTENDS Verdicts

CONSTANT NextHops

RouteCheck(id) == CheckClass(id, "both", {"routes"}, {}, {}, {}, "critical", FALSE)
StaticRouteStatus == RouteCheck("static_route_status")
AggregateRouteStatus == RouteCheck("aggregate_route_status")

NoEntry == [there |-> FALSE, active |-> "unread", hops |-> {}]

\* Scope.select takes from the device what the configuration of the service names.
Entry(view) == IF view.conf = "none" THEN NoEntry ELSE view.table

Configured(view) == {h \in NextHops : view.hops[h] # "none"}
Inactive(view) == {h \in NextHops : view.hops[h] = "off"}

\* Was it off?  "unknown" where the baseline does not configure it.
WasOff(conf) == CASE conf = "off" -> "yes" [] conf = "on" -> "no" [] conf = "none" -> "unknown"

\* _presence_finding, of static routes and aggregates.
Presence(view, old, captures) ==
    LET now == Entry(view)  was == Entry(old) IN
    IF ~now.there
    THEN IF view.conf = "off" THEN DeactivationOutcome(TRUE, WasOff(old.conf))
         ELSE IF was.there THEN "broken"
         ELSE UnchangedOr("broken", captures, "routes", TRUE)
    ELSE CASE now.active = "unread" -> "skip"
           [] now.active = "no"  /\ was.active = "no"     -> "ok"
           [] now.active = "no"  /\ was.active = "yes"    -> "broken"
           [] now.active = "no"  /\ was.active = "unread" -> "degraded"
           [] now.active = "yes" /\ was.active = "no"     -> "recovered"
           [] now.active = "yes" /\ was.active # "no"     -> "ok"

\* A deactivated next hop makes the row as bad as itself, never better than it was.
AnnotateInactiveHops(outcome, view, old) ==
    LET found == {DeactivationOutcome(TRUE, WasOff(old.hops[h])) : h \in Inactive(view)} IN
    IF "broken" \in found THEN "broken"
    ELSE IF found # {} THEN "degraded"
    ELSE outcome

AllHopsOff(view) == Configured(view) # {} /\ Configured(view) = Inactive(view)

\* A route all of whose next hops are off is in no table; a changed next hop is a warning.
StaticOutcome(view, old, captures) ==
    LET now == Entry(view)
        was == Entry(old)
        reached == now.there /\ now.active = "yes"
    IN  IF AllHopsOff(view) /\ ~now.there /\ view.conf # "off"
        THEN DeactivationOutcome(TRUE, IF Configured(old) = {} THEN "unknown"
                                       ELSE IF AllHopsOff(old) THEN "yes" ELSE "no")
        ELSE IF ~reached THEN Presence(view, old, captures)
        ELSE AnnotateInactiveHops(
                IF was.there /\ was.hops # now.hops THEN "degraded" ELSE Presence(view, old, captures),
                view, old)

\* A route has a row if it is configured now or was in the table of the baseline.
RouteKnown(view, old) == view.conf # "none" \/ Entry(view).there \/ Entry(old).there

StaticRouteRows(view, old, captures) ==
    IF RouteKnown(view, old)
    THEN {Row("static_route_status", <<"route">>, StaticOutcome(view, old, captures))} ELSE {}

\* An aggregate has no next hop to compare.
AggregateRouteRows(view, old, captures) ==
    IF RouteKnown(view, old)
    THEN {Row("aggregate_route_status", <<"route">>, Presence(view, old, captures))} ELSE {}
=============================================================================
