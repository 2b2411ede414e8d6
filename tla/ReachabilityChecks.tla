------------------------- MODULE ReachabilityChecks -------------------------
(***************************************************************************)
(* The customer hosts of a service in one address family: which addresses  *)
(* a capture pings (probes/ping.py) and what the checks of ARP, ND and     *)
(* ping say of them (checks/reachability.py).  Link-local addresses are    *)
(* left out.  A snapshot holds                                             *)
(*   nets     the prefixes of the service, {} if the family is not         *)
(*            configured; those of SmallNets are guessable (/30, /126)     *)
(*   bgp      its configured BGP neighbours                                *)
(*   entries  the ARP or ND table of its interfaces, a set of              *)
(*            [ip, state, remote]: "resolved" or "incomplete", learned by  *)
(*            EVPN from another router                                     *)
(*   pings    the results, a set of [target, sent, received]               *)
(*   skipped  the profile of the capture leaves the service out            *)
(***************************************************************************)
EXTENDS Verdicts

CONSTANTS
    Hosts,        \* addresses
    Own,          \* those of the router itself
    Nets,         \* prefixes
    SmallNets,    \* those with so few addresses that a host can be guessed
    NetOf         \* the prefix of an address

MULTICAST_SUBTYPES == {"multicast", "mvpn"}
CUSTOMER_SERVICE_TYPES == {"Internet", "IPVPN"}

Reach(id, area, severity) ==
    CheckClass(id, "both", {area}, CUSTOMER_SERVICE_TYPES, {}, MULTICAST_SUBTYPES, severity, FALSE)

ArpPresent == Reach("arp_present", "arp", "critical")
NdPresent == Reach("nd_present", "nd", "critical")
PingReachability == Reach("ping_reachability", "ping", "advisory")

-----------------------------------------------------------------------------
(* resolve_targets: the first tier that has an address wins.               *)

\* An entry that is not resolved is no target in ND; in ARP it is.
Usable(family, e) == family = 4 \/ e.state = "resolved"

BgpTargets(view) == view.bgp \ Own

\* What the old box saw, taken by subnet: its port names mean nothing here.
BaselineTargets(view, family, baseline) ==
    {e.ip : e \in {e \in baseline :
        NetOf[e.ip] \in view.nets /\ ~e.remote /\ Usable(family, e) /\ e.ip \notin Own}}

OwnTableTargets(view, family) ==
    {e.ip : e \in {e \in view.entries : ~e.remote /\ Usable(family, e) /\ e.ip \notin Own}}

\* Hosts behind another router: their subnet is not empty, so nothing is guessed in it.
RemoteLearned(view, baseline) ==
    {e.ip : e \in {e \in baseline : NetOf[e.ip] \in view.nets /\ e.remote}}
    \cup {e.ip : e \in {e \in view.entries : e.remote}}

\* subnet_fallback: the first address of a small prefix that is not the router's.
Guessed(net) ==
    LET free == {h \in Hosts \ Own : NetOf[h] = net}
    IN  IF net \in SmallNets /\ free # {} THEN {CHOOSE h \in free : TRUE} ELSE {}

Fallback(view, family, baseline) ==
    LET seen == OwnTableTargets(view, family) \cup RemoteLearned(view, baseline) IN
    UNION {Guessed(net) : net \in {n \in view.nets : \A h \in seen : NetOf[h] # n}}

\* Mutant of Targets: the own table of the new box is asked before the old one's.
TargetsOwnFirst(view, family, baseline) ==
    IF BgpTargets(view) # {} THEN BgpTargets(view)
    ELSE IF OwnTableTargets(view, family) # {} THEN OwnTableTargets(view, family)
    ELSE BaselineTargets(view, family, baseline)

Targets(view, family, baseline) ==
    IF BgpTargets(view) # {} THEN BgpTargets(view)
    ELSE IF BaselineTargets(view, family, baseline) # {}
    THEN BaselineTargets(view, family, baseline)
    ELSE OwnTableTargets(view, family) \cup Fallback(view, family, baseline)

\* run_ping: an answer, no answer, not sent (the device refused), or an exception of the
\* call, which is recorded like no answer.
PingResult(target, fate) ==
    [target |-> target,
     sent |-> IF fate = "refused" THEN 0 ELSE 1,
     received |-> IF fate = "answer" THEN 1 ELSE 0]

\* capture_device: the services the profile lets through, at their resolved targets.
Pings(view, family, baseline, fate) ==
    IF view.skipped THEN {} ELSE {PingResult(t, fate[t]) : t \in Targets(view, family, baseline)}

-----------------------------------------------------------------------------
EntryOutcome(e, before, captures, area) ==
    IF e.state = "resolved" THEN "ok"
    ELSE UnchangedOr("broken", captures, area, \E b \in before : b.ip = e.ip /\ b.state # "resolved")

\* arp_present and nd_present: a row per entry; what left the table has none.
TableRows(check, area, view, old, captures) ==
    IF view.nets = {} THEN {}
    ELSE IF view.entries = {}
    THEN {Row(check, <<"table">>, UnchangedOr("broken", captures, area, captures.baseline /\ old.entries = {}))}
    ELSE {Row(check, <<e.ip>>, EntryOutcome(e, old.entries, captures, area)) : e \in view.entries}

-----------------------------------------------------------------------------
\* Prefixes too large to guess in, into which no target fell.
Oversized(view) ==
    {n \in view.nets \ SmallNets : \A p \in view.pings : NetOf[p.target] # n}

PingOutcome(p, before, captures) ==
    IF p.sent = 0 THEN "skip"
    ELSE IF p.received > 0 THEN "ok"
    ELSE UnchangedOr("broken", captures, "ping",
            \E b \in before : b.target = p.target /\ b.sent > 0 /\ b.received = 0)

\* Scope.select has reduced the markers of the capture to a truth value; the check looks
\* for the name of the profile in them, and run_check reports the exception.
PingSkippedRows(skipped) ==
    {Row("ping_reachability", <<IF skipped \in BOOLEAN THEN "check failed" ELSE "outside the profile">>, "skip")}

PingRows(view, old, captures) ==
    IF view.pings = {} /\ view.skipped THEN PingSkippedRows(view.skipped)
    ELSE IF view.pings = {} /\ Oversized(view) = {} THEN {Row("ping_reachability", <<"no target">>, "skip")}
    ELSE {Row("ping_reachability", <<n>>, "skip") : n \in Oversized(view)}
         \cup {Row("ping_reachability", <<p.target>>, PingOutcome(p, old.pings, captures)) : p \in view.pings}
=============================================================================
