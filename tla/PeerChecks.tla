----------------------------- MODULE PeerChecks -----------------------------
(***************************************************************************)
(* The sessions of a service to one neighbour: which records of the device *)
(* are the service's (Scope.owns_bgp_peer, owns_bfd_session and _by_key of *)
(* models/scope.py) and what the checks of BGP (checks/bgp.py) and BFD     *)
(* (checks/bfd.py) say of them.  Another service of the device may have a  *)
(* neighbour of the same address in another routing instance.              *)
(*                                                                         *)
(* A snapshot holds the intent of the service and the records of the       *)
(* device for the address:                                                 *)
(*   intent      "active" | "inactive" | "none": the neighbour in the      *)
(*               configuration of the service                              *)
(*   bfdIntent   BFD is configured for it                                  *)
(*   bgp         set of [instance, session, state]                         *)
(*   bfd         set of [port, session, state], port "multihop" for none   *)
(***************************************************************************)
EXTENDS Verdicts

ESTABLISHED == "Established"
UNKNOWN == "unknown"     \* the collector found no state in the record
CUSTOMER_SERVICE_TYPES == {"Internet", "IPVPN"}

\* _by_key: no record, the only one's state, or more than the address tells apart.
ByKey(records) ==
    IF records = {} THEN "absent"
    ELSE IF Cardinality(records) > 1 THEN "ambiguous"
    ELSE (CHOOSE r \in records : TRUE).state

\* A deactivated peer is owned like an active one; the instance must be the service's.
OwnsBgpPeer(view, r) == view.intent \in {"active", "inactive"} /\ r.instance = "ours"

\* A multihop record has no port and no VRF: it is ours unless we have a session of our own.
OwnsBfdSession(view, r) ==
    /\ view.intent = "active"
    /\ \/ r.port = "ours"
       \/ r.port = "multihop" /\ \A other \in view.bfd : other.port # "ours"

BgpOf(view) == ByKey({r \in view.bgp : OwnsBgpPeer(view, r)})
BfdOf(view) == ByKey({r \in view.bfd : OwnsBfdSession(view, r)})

IsSession(state) == state \notin {"absent", "ambiguous"}

-----------------------------------------------------------------------------
(* checks/bgp.py.                                                          *)

BgpSessionState ==
    CheckClass("bgp_session_state", "both", {"bgp"}, CUSTOMER_SERVICE_TYPES, {}, {}, "critical", FALSE)

\* _AppliesToCoreLoopback: of the core only the loopback has BGP peers.
BgpApplies(scope) ==
    IF scope.type = "Core" THEN scope.subtype = "loopback" ELSE AppliesTo(BgpSessionState, scope)

\* A session that is there.
BgpSession(now, was, captures) ==
    IF now # ESTABLISHED
    THEN UnchangedOr("broken", captures, "bgp", now # UNKNOWN /\ was = now)
    ELSE IF IsSession(was) /\ was # now THEN "recovered" ELSE "ok"

\* A deactivated peer without one.
BgpInactive(old) ==
    DeactivationOutcome(TRUE, CASE old.intent = "inactive" -> "yes"
                                [] old.intent = "active"   -> "no"
                                [] OTHER                   -> "unknown")

\* A peer that should have one, or the baseline saw: an ambiguous baseline proves nothing.
BgpMissing(was, captures) == UnchangedOr("broken", captures, "bgp", was = "absent")

\* The identity of a peer is the intent, its session now and its session in the baseline.
BgpUniverse(view, now, was) == view.intent # "none" \/ IsSession(now) \/ IsSession(was)

BgpOutcome(view, old, captures) ==
    LET now == BgpOf(view)  was == BgpOf(old) IN
    IF ~BgpUniverse(view, now, was) THEN "skip"
    ELSE IF IsSession(now) THEN BgpSession(now, was, captures)
    ELSE IF now = "ambiguous" THEN "skip"
    ELSE IF view.intent = "inactive" THEN BgpInactive(old)
    ELSE BgpMissing(was, captures)

BgpRows(view, old, captures) ==
    {Row("bgp_session_state", <<"peer">>, BgpOutcome(view, old, captures))}

-----------------------------------------------------------------------------
(* Prefix counts of a session: a RIB is a counter, or -1 for no such RIB.  *)

NoRib == -1
BgpPrefixCounts ==
    CheckClass("bgp_prefix_counts", "compare", {"bgp"}, CUSTOMER_SERVICE_TYPES, {}, {}, "advisory", FALSE)

\* In percent of the baseline; nothing can be said of a baseline of zero.
PrefixChange(before, after, tolerance) ==
    LET change == 100 * (after - before) IN
    IF before = 0 THEN "ok"
    ELSE IF change < tolerance * before THEN "broken"
    ELSE IF change > (-tolerance) * before THEN "degraded"
    ELSE "ok"

\* view.rib: the counter of a RIB of our session; DEFAULTS: tolerance_percent is -10.
PrefixOutcomes(view, old, tolerance) ==
    LET now == BgpOf(view)  was == BgpOf(old) IN
    IF ~IsSession(now) THEN {"skip"}                     \* no session, or ambiguous
    ELSE IF ~IsSession(was) THEN {"skip"}                \* nothing to compare with
    ELSE CASE view.rib # NoRib /\ old.rib = NoRib -> {"skip"}
           [] view.rib # NoRib /\ old.rib # NoRib -> {PrefixChange(old.rib, view.rib, tolerance)}
           [] view.rib = NoRib /\ old.rib # NoRib -> {"broken"}
           [] OTHER -> {}

PrefixRows(view, old, tolerance) ==
    {Row("bgp_prefix_counts", <<"rib">>, o) : o \in PrefixOutcomes(view, old, tolerance)}

-----------------------------------------------------------------------------
(* checks/bfd.py.                                                          *)

BfdSessionState ==
    CheckClass("bfd_session_state", "both", {"bfd", "bgp"}, {}, {}, {}, "critical", FALSE)

\* On the core, transit ports have a check of their own and loopbacks have none.
BfdApplies(scope) == scope.type # "Core" /\ AppliesTo(BfdSessionState, scope)

\* The order of the tests is the code's: a session that is there is judged before BGP
\* is looked at, an address with several sessions before the intent is.
BfdOutcome(view, old, captures) ==
    LET now == BfdOf(view)  was == BfdOf(old) IN
    CASE IsSession(now) /\ ~view.bfdIntent -> "degraded"
      [] IsSession(now) /\ view.bfdIntent ->
            IF now = "Up" THEN "ok"
            ELSE UnchangedOr("broken", captures, "bfd", now # UNKNOWN /\ was = now)
      [] now = "ambiguous" -> "skip"
      [] now = "absent" /\ ~view.bfdIntent -> "broken"
      [] now = "absent" /\ view.bfdIntent /\ BgpOf(view) # ESTABLISHED -> "skip"
      [] OTHER -> UnchangedOr("broken", captures, "bfd", was = "absent")

\* A peer has a row if BFD is meant for it, runs, or ran in the baseline.
BfdRows(view, old, captures) ==
    IF view.bfdIntent \/ IsSession(BfdOf(view)) \/ IsSession(BfdOf(old))
    THEN {Row("bfd_session_state", <<"peer">>, BfdOutcome(view, old, captures))}
    ELSE {}
=============================================================================
