------------------------------ MODULE Verdicts ------------------------------
(***************************************************************************)
(* How a measurement becomes a verdict: a check returns findings, each     *)
(* with an outcome; run_check (checks/base.py) decides whether the check   *)
(* runs at all and derives the status of every row from the outcome and    *)
(* the severity (models/result.py); the service has the worst status of    *)
(* its rows (engine.py).                                                   *)
(***************************************************************************)
EXTENDS Integers, FiniteSets

Outcomes == {"ok", "info", "recovered", "unchanged", "degraded", "broken", "skip"}
Severities == {"critical", "advisory"}

\* _STATUS_RANK.
Rank == [INFO |-> -1, PASS |-> 0, RECV |-> 1, SKIP |-> 2, WARN |-> 3, FAIL |-> 4]
Statuses == DOMAIN Rank

\* The worst of no statuses is SKIP: nothing was measured.
Worst(S) == IF S = {} THEN "SKIP" ELSE CHOOSE s \in S : \A t \in S : Rank[t] <= Rank[s]

\* Mutant of DeriveStatus: a partial success is a failure of a critical check.
DeriveStatusHard(outcome, severity) ==
    CASE outcome \in {"ok", "unchanged"} -> "PASS"
      [] outcome = "info"      -> "INFO"
      [] outcome = "recovered" -> "RECV"
      [] outcome = "skip"      -> "SKIP"
      [] outcome \in {"degraded", "broken"} -> IF severity = "critical" THEN "FAIL" ELSE "WARN"

\* A partial success (degraded) is a warning whatever the severity.
DeriveStatus(outcome, severity) ==
    CASE outcome \in {"ok", "unchanged"} -> "PASS"
      [] outcome = "info"      -> "INFO"
      [] outcome = "recovered" -> "RECV"
      [] outcome = "skip"      -> "SKIP"
      [] outcome = "degraded"  -> "WARN"
      [] outcome = "broken"    -> IF severity = "critical" THEN "FAIL" ELSE "WARN"

-----------------------------------------------------------------------------
(* A check sees the scope it is about and what is known of the captures:   *)
(*   scope     kind, type, subtype of the service, off (deactivated) and   *)
(*             wasOff: "yes" | "no" | "unknown" (no counterpart)           *)
(*   captures  baseline (there is one), measured (areas its collectors     *)
(*             measured) and failed (areas whose collector failed in the   *)
(*             subject)                                                    *)
(* A row is the finding of a check about something.                        *)

Row(check, about, outcome) == [check |-> check, about |-> about, outcome |-> outcome]

\* Positive evidence only: a baseline without a record of the collector did not measure.
BaselineMeasured(captures, area) == captures.baseline /\ area \in captures.measured

\* Mutant of UnchangedOr: two equal faults are unchanged, whoever measured the first.
UnchangedOrBlind(outcome, captures, area, same) ==
    IF outcome \in {"broken", "degraded"} /\ same THEN "unchanged" ELSE outcome

\* The only way to "unchanged": the same fault in a baseline that measured the area.
UnchangedOr(outcome, captures, area, same) ==
    IF outcome \in {"broken", "degraded"} /\ same /\ BaselineMeasured(captures, area)
    THEN "unchanged" ELSE outcome

\* A check class: what it needs and which services it is about; types, subtypes: {} is any.
CheckClass(id, mode, requires, types, subtypes, excluded, severity, layer1) ==
    [id |-> id, mode |-> mode, requires |-> requires, types |-> types, subtypes |-> subtypes,
     excluded |-> excluded, severity |-> severity, layer1 |-> layer1]

AppliesTo(check, scope) ==
    IF scope.kind = "layer1" THEN check.layer1
    ELSE /\ check.types = {} \/ scope.type \in check.types
         /\ check.subtypes = {} \/ scope.subtype \in check.subtypes
         /\ scope.subtype \notin check.excluded

\* Mutant of SkippedByFrame: the check of deactivation is skipped like the others.
SkippedByFrameAll(check, scope, captures) ==
    \/ check.mode = "compare" /\ ~captures.baseline
    \/ scope.off
    \/ check.requires \cap captures.failed # {}

\* The reasons for which run_check answers one SKIP row instead of running the check.
SkippedByFrame(check, scope, captures) ==
    \/ check.mode = "compare" /\ ~captures.baseline
    \/ scope.off /\ check.id # "deactivation_state"
    \/ check.requires \cap captures.failed # {}

\* A profile is [disabled: ids it turns off, severity: ids |-> the severity it gives them];
\* other checks keep the severity of their class.
SeverityOf(check, profile) ==
    IF check.id \in DOMAIN profile.severity THEN profile.severity[check.id] ELSE check.severity

\* run_check: findings are those of check.run.  A result is a row with its status.
RunCheck(check, applies, scope, captures, profile, findings) ==
    LET rows == IF SkippedByFrame(check, scope, captures) THEN {Row(check.id, <<"all">>, "skip")}
                ELSE findings
    IN  IF check.id \in profile.disabled \/ ~applies THEN {}
        ELSE {[check |-> r.check, about |-> r.about, outcome |-> r.outcome,
               status |-> DeriveStatus(r.outcome, SeverityOf(check, profile))] : r \in rows}

-----------------------------------------------------------------------------
(* Deactivation: of the service, of a static route, of a BGP peer.         *)

\* off now; wasOff is "unknown" when there is nothing to compare with.
DeactivationOutcome(off, wasOff) ==
    IF ~off /\ wasOff # "yes" THEN "none"
    ELSE IF off /\ wasOff = "no" THEN "broken"
    ELSE "degraded"

DeactivationState == CheckClass("deactivation_state", "both", {}, {}, {}, {}, "critical", TRUE)

\* A service that is active again has recovered.
DeactivationRows(scope) ==
    LET outcome == DeactivationOutcome(scope.off, scope.wasOff)
    IN  IF outcome = "none" THEN {}
        ELSE {Row("deactivation_state", <<"service">>, IF scope.off THEN outcome ELSE "recovered")}

-----------------------------------------------------------------------------
\* The status of a service: SKIP only if no row says anything better.
ScopeStatus(statuses) == Worst(statuses \ {"SKIP"})
=============================================================================
