------------------------ MODULE MigrationVerdict_proofs ------------------------
(***************************************************************************)
(* What the verdicts promise, for any boxes, services and failures of      *)
(* collectors.                                                             *)
(***************************************************************************)
EXTENDS VerdictProperties, FiniteSetTheorems, TLAPS

-----------------------------------------------------------------------------
(* A verdict is what the checks say of the two captures, and a capture is  *)
(* what the collectors that did not fail say of its box.                   *)

Counterpart(scope) == IF baseline = NoCapture THEN [scope EXCEPT !.wasOff = "unknown"] ELSE scope
Before4 == IF baseline = NoCapture \/ area \notin {"reach4", "reach6"} THEN {} ELSE baseline.data.entries
JudgedOf(scope) == Judged(area, Counterpart(scope), subject.data, BaselineData, Captures, profile)

BaselineIsOfOld ==
    /\ baseline.lost \in Losses(area)
    /\ baseline.data = Captured(area, old, baseline.lost, {})
SubjectIsOfNew ==
    /\ new \in Views[area]
    /\ subject.lost \in Losses(area)
    /\ subject.data = Captured(area, new, subject.lost, Before4)

JudgeInv ==
    /\ area \in Areas /\ blocks \in Blocks[area] /\ old \in Views[area]
    /\ baseline # NoCapture => BaselineIsOfOld
    /\ IF subject = NoCapture THEN new = Unknown /\ verdict = NoVerdict ELSE SubjectIsOfNew
    /\ Judgement => verdict = [scope \in blocks |-> JudgedOf(scope)]

LEMMA CapturesDiffer ==
  ASSUME NEW data, NEW lost, NEW recorded
  PROVE  /\ [data |-> data, lost |-> lost, recorded |-> recorded] # NoCapture
         /\ [data |-> data, lost |-> lost] # NoCapture
<1>1. DOMAIN NoCapture = {"captured"}
  BY DEF NoCapture
<1> QED
  BY <1>1

LEMMA JudgeInvStep == JudgeInv /\ [Next]_vars => JudgeInv'
<1> SUFFICES ASSUME JudgeInv, [Next]_vars PROVE JudgeInv'
  OBVIOUS
<1> USE DEF JudgeInv
<1>1. ASSUME NEW lost \in Losses(area), NEW recorded \in BOOLEAN, CaptureBaseline(lost, recorded)
      PROVE  JudgeInv'
  <2>1. subject = NoCapture /\ verdict = NoVerdict
    BY <1>1, ViewsAssumption DEF CaptureBaseline, SubjectIsOfNew
  <2>2. BaselineIsOfOld'
    BY <1>1 DEF CaptureBaseline, BaselineIsOfOld, Losses, Captured
  <2> QED
    BY <1>1, <2>1, <2>2 DEF CaptureBaseline, Judgement
<1>2. ASSUME NEW view \in Views[area], NEW lost \in Losses(area), CaptureSubject(view, lost)
      PROVE  JudgeInv'
  <2>1. subject' # NoCapture /\ verdict' = NoVerdict
    BY <1>2, CapturesDiffer DEF CaptureSubject
  <2>2. SubjectIsOfNew'
    BY <1>2 DEF CaptureSubject, SubjectIsOfNew, Losses, Captured, Before4
  <2>3. baseline # NoCapture => BaselineIsOfOld'
    BY <1>2 DEF CaptureSubject, BaselineIsOfOld
  <2> QED
    BY <1>2, <2>1, <2>2, <2>3 DEF CaptureSubject, Judgement
<1>3. ASSUME NEW chosen \in Profiles, Judge(chosen)
      PROVE  JudgeInv'
  <2> DEFINE judged(scope) == Judged(area, Counterpart(scope), subject.data, BaselineData, Captures, chosen)
  <2>1. verdict' = [scope \in blocks |-> judged(scope)]
    BY <1>3 DEF Judge, Counterpart
  <2>2. /\ UNCHANGED <<area, blocks, old, new, baseline, subject>> /\ subject # NoCapture
        /\ profile' = chosen
    BY <1>3 DEF Judge
  <2>3. \A scope : JudgedOf(scope)' = judged(scope)
    BY <2>2 DEF JudgedOf, Counterpart, BaselineData, Captures
  <2> QED
    BY <2>1, <2>2, <2>3 DEF BaselineIsOfOld, SubjectIsOfNew, Before4
<1>4. CASE UNCHANGED vars
  <2>1. UNCHANGED <<area, blocks, old, new, baseline, subject, profile, verdict>>
    BY <1>4 DEF vars
  <2>2. \A scope : JudgedOf(scope)' = JudgedOf(scope)
    BY <2>1 DEF JudgedOf, Counterpart, BaselineData, Captures
  <2>3. BaselineIsOfOld' = BaselineIsOfOld /\ SubjectIsOfNew' = SubjectIsOfNew
    BY <2>1 DEF BaselineIsOfOld, SubjectIsOfNew, Before4
  <2> QED
    BY <2>1, <2>2, <2>3 DEF Judgement
<1> QED
  BY <1>1, <1>2, <1>3, <1>4 DEF Next

LEMMA JudgeInvariance == Spec => []JudgeInv
<1>1. Init => JudgeInv
  BY DEF Init, JudgeInv, Judgement
<1> QED
  BY <1>1, JudgeInvStep, PTL DEF Spec

-----------------------------------------------------------------------------
(* The frame around a check.                                               *)

\* A check that the frame skips has no other row.
LEMMA SkippedRows ==
  ASSUME NEW check, NEW applies, NEW scope, NEW captures, NEW findings,
         SkippedByFrame(check, scope, captures),
         NEW row \in RunCheck(check, applies, scope, captures, profile, findings)
  PROVE  row.outcome = "skip" /\ row.status = "SKIP"
  BY DEF RunCheck, Row, DeriveStatus

\* Row and finding say the same.
Reports(row, finding) ==
    row.check = finding.check /\ row.about = finding.about /\ row.outcome = finding.outcome

\* What a check finds is in its rows, if the check runs.
LEMMA FindingsAreRows ==
  ASSUME NEW check, NEW applies, NEW scope, NEW captures, NEW findings,
         applies, check.id \notin profile.disabled, ~SkippedByFrame(check, scope, captures)
  PROVE  \A finding \in findings :
            \E row \in RunCheck(check, applies, scope, captures, profile, findings) : Reports(row, finding)
<1> SUFFICES ASSUME NEW finding \in findings
             PROVE  \E row \in RunCheck(check, applies, scope, captures, profile, findings) : Reports(row, finding)
  OBVIOUS
<1> DEFINE row == [check |-> finding.check, about |-> finding.about, outcome |-> finding.outcome,
                   status |-> DeriveStatus(finding.outcome, SeverityOf(check, profile))]
<1>1. row \in RunCheck(check, applies, scope, captures, profile, findings)
  BY DEF RunCheck
<1>2. Reports(row, finding)
  BY DEF Reports
<1> QED
  BY <1>1, <1>2

\* A row that says something is a finding of a check that ran.
LEMMA RowsAreFindings ==
  ASSUME NEW check, NEW applies, NEW scope, NEW captures, NEW findings,
         NEW row \in RunCheck(check, applies, scope, captures, profile, findings),
         row.outcome # "skip"
  PROVE  /\ applies /\ ~SkippedByFrame(check, scope, captures)
         /\ row.status = DeriveStatus(row.outcome, SeverityOf(check, profile))
         /\ \E finding \in findings : Reports(row, finding)
<1>1. CASE SkippedByFrame(check, scope, captures)
  BY <1>1, SkippedRows
<1>2. CASE ~SkippedByFrame(check, scope, captures)
  BY <1>2 DEF RunCheck, Reports
<1> QED
  BY <1>1, <1>2

\* The rows of an area are those of the deactivation and of other checks.
RowOfCheck(row, scope, captures) ==
    \E check, applies, findings :
        /\ check.id # "deactivation_state"
        /\ row \in RunCheck(check, applies, scope, captures, profile, findings)

Deactivations(scope, captures) ==
    RunCheck(DeactivationState, AppliesTo(DeactivationState, scope), scope, captures, profile,
             DeactivationRows(scope))

LEMMA RunRows ==
  ASSUME NEW check, NEW applies, NEW findings, NEW scope, NEW captures,
         check.id # "deactivation_state"
  PROVE  \A row \in RunCheck(check, applies, scope, captures, profile, findings) :
            RowOfCheck(row, scope, captures)
  BY DEF RowOfCheck

LEMMA JudgedRows ==
  ASSUME NEW a \in DOMAIN Empty, NEW scope, NEW now, NEW was, NEW captures
  PROVE  /\ Deactivations(scope, captures) \subseteq Judged(a, scope, now, was, captures, profile)
         /\ \A row \in Judged(a, scope, now, was, captures, profile) :
               row \in Deactivations(scope, captures) \/ RowOfCheck(row, scope, captures)
<1>1. Deactivations(scope, captures) \subseteq Judged(a, scope, now, was, captures, profile)
  BY DEF Judged, Deactivations
<1> SUFFICES ASSUME NEW row \in Judged(a, scope, now, was, captures, profile),
                    row \notin Deactivations(scope, captures)
             PROVE  RowOfCheck(row, scope, captures)
  BY <1>1
<1>2. CASE a = "bgp"
  BY <1>2, RunRows
     DEF Judged, Deactivations, Peer!BgpSessionState, Peer!BgpPrefixCounts, Peer!CheckClass
<1>3. CASE a = "bfd"
  BY <1>3, RunRows
     DEF Judged, Deactivations, Peer!BfdSessionState, Peer!CheckClass
<1>4. CASE a = "isis"
  BY <1>4, RunRows
     DEF Judged, Deactivations, Core!IsisAdjacencyState, Core!Core, Core!CheckClass
<1>5. CASE a = "isisport"
  BY <1>5, RunRows
     DEF Judged, Deactivations, Core!IsisInterfaceInfo, Core!Core, Core!CheckClass
<1>6. CASE a = "overload"
  BY <1>6, RunRows
     DEF Judged, Deactivations, Core!IsisOverview, Core!Core, Core!CheckClass
<1>7. CASE a = "ldp"
  BY <1>7, RunRows
     DEF Judged, Deactivations, Core!LdpNeighborState, Core!Core, Core!CheckClass
<1>8. CASE a = "pim"
  BY <1>8, RunRows
     DEF Judged, Deactivations, Core!PimNeighborState, Core!Core, Core!CheckClass
<1>9. CASE a = "mpls"
  BY <1>9, RunRows
     DEF Judged, Deactivations, Core!MplsInterfaceState, Core!Core, Core!CheckClass
<1>10. CASE a = "transit"
  BY <1>10, RunRows
     DEF Judged, Deactivations, Core!BfdTransitState, Core!Core, Core!CheckClass
<1>11. CASE a = "ports"
  BY <1>11, RunRows
     DEF Judged, Deactivations, Port!InterfaceState, Port!InterfaceErrors, Port!InterfaceTraffic, Port!TrafficCeased,
         Port!Port, Port!CheckClass
<1>12. CASE a = "optics"
  BY <1>12, RunRows
     DEF Judged, Deactivations, Port!OpticalLevels, Port!OpticalAlarms, Port!Port, Port!CheckClass
<1>13. CASE a = "static"
  BY <1>13, RunRows
     DEF Judged, Deactivations, Route!StaticRouteStatus, Route!RouteCheck, Route!CheckClass
<1>14. CASE a = "aggregate"
  BY <1>14, RunRows
     DEF Judged, Deactivations, Route!AggregateRouteStatus, Route!RouteCheck, Route!CheckClass
<1>15. CASE a = "reach4"
  BY <1>15, RunRows
     DEF Judged, Deactivations, Reach!ArpPresent, Reach!PingReachability, Reach!Reach, Reach!CheckClass
<1>16. CASE a = "reach6"
  BY <1>16, RunRows
     DEF Judged, Deactivations, Reach!NdPresent, Reach!PingReachability, Reach!Reach, Reach!CheckClass
<1>17. CASE a = "vpws"
  BY <1>17, RunRows
     DEF Judged, Deactivations, Evpn!EvpnVpwsStatus, Evpn!Evpn, Evpn!CheckClass
<1>18. CASE a = "esi"
  BY <1>18, RunRows
     DEF Judged, Deactivations, Evpn!EvpnEsiStatus, Evpn!Evpn, Evpn!CheckClass
<1>19. CASE a = "evpn"
  BY <1>19, RunRows
     DEF Judged, Deactivations, Evpn!EvpnInstanceStatus, Evpn!Evpn, Evpn!CheckClass
<1>20. CASE a = "mac"
  BY <1>20, RunRows
     DEF Judged, Deactivations, Evpn!EvpnMacCount, Evpn!Evpn, Evpn!CheckClass
<1>21. CASE a = "streams"
  BY <1>21, RunRows
     DEF Judged, Deactivations, Mcast!IgmpMembershipReport, Mcast!PimJoin, Mcast!MulticastForwardingStatus,
         Mcast!Multicast, Mcast!CheckClass
<1>22. CASE a = "mvpn"
  BY <1>22, RunRows
     DEF Judged, Deactivations, Mcast!MvpnCmulticastStatus, Mcast!Multicast, Mcast!CheckClass
<1>23. CASE a = "inet2"
  BY <1>23, RunRows
     DEF Judged, Deactivations, Mcast!CoreMulticastForwarding, Mcast!Multicast, Mcast!CheckClass
<1> QED
  BY <1>2, <1>3, <1>4, <1>5, <1>6, <1>7, <1>8, <1>9, <1>10, <1>11, <1>12,
     <1>13, <1>14, <1>15, <1>16, <1>17, <1>18, <1>19, <1>20, <1>21, <1>22, <1>23 DEF Empty

\* Of a deactivated service the only row that says anything is the one of the deactivation.
LEMMA DeactivatedRows ==
  ASSUME NEW scope \in Scopes, NEW captures, scope.off, "deactivation_state" \notin profile.disabled
  PROVE  {row.status : row \in Deactivations(scope, captures)} =
            {IF scope.wasOff = "no" /\ SeverityOf(DeactivationState, profile) = "critical" THEN "FAIL" ELSE "WARN"}
<1> DEFINE severity == SeverityOf(DeactivationState, profile)
           outcome == IF scope.wasOff = "no" THEN "broken" ELSE "degraded"
           row == [check |-> "deactivation_state", about |-> <<"service">>, outcome |-> outcome,
                   status |-> DeriveStatus(outcome, severity)]
<1>1. AppliesTo(DeactivationState, scope)
  BY DEF AppliesTo, DeactivationState, CheckClass
<1>2. ~SkippedByFrame(DeactivationState, scope, captures)
  BY DEF SkippedByFrame, DeactivationState, CheckClass
<1>3. DeactivationRows(scope) = {Row("deactivation_state", <<"service">>, outcome)}
  BY DEF DeactivationRows, DeactivationOutcome
<1>4. DeactivationState.id = "deactivation_state"
  BY DEF DeactivationState, CheckClass
<1>5. Deactivations(scope, captures) = {row}
  BY <1>1, <1>2, <1>3, <1>4 DEF Deactivations, RunCheck, Row
<1>6. row.status = IF scope.wasOff = "no" /\ severity = "critical" THEN "FAIL" ELSE "WARN"
  BY DEF DeriveStatus
<1> QED
  BY <1>5, <1>6

\* The worst of one status and skipped rows is that status.
LEMMA WorstOfOne ==
  ASSUME NEW status \in Statuses \ {"SKIP"}, NEW S, status \in S, S \subseteq {status, "SKIP"}
  PROVE  ScopeStatus(S) = status
<1>1. S \ {"SKIP"} = {status}
  OBVIOUS
<1>2. Rank[status] \in Int
  BY DEF Statuses, Rank
<1> QED
  BY <1>1, <1>2 DEF ScopeStatus, Worst

\* A service deactivated in the new configuration is reported by any profile that leaves
\* the check on: it fails if it was active before and the profile does not make the check
\* advisory, and is a warning otherwise, whatever the checks are and whichever collectors
\* failed (checks/base.py, run_check; config.py, severity; checks/deactivation.py).
THEOREM DeactivationsReported == Spec => []DeactivationIsReported
<1>1. ASSUME JudgeInv, Judgement, "deactivation_state" \notin profile.disabled, NEW scope \in blocks, scope.off
      PROVE  ScopeStatus({row.status : row \in verdict[scope]}) =
                IF /\ baseline # NoCapture /\ scope.wasOff = "no"
                   /\ SeverityOf(DeactivationState, profile) = "critical" THEN "FAIL" ELSE "WARN"
  <2> DEFINE cp == Counterpart(scope)
             status == IF cp.wasOff = "no" /\ SeverityOf(DeactivationState, profile) = "critical"
                       THEN "FAIL" ELSE "WARN"
  <2>1. scope \in Scopes
    BY <1>1, BlocksAssumption DEF JudgeInv
  <2>2. cp \in Scopes /\ cp.off /\ cp.wasOff = IF baseline = NoCapture THEN "unknown" ELSE scope.wasOff
    BY <1>1, <2>1 DEF Counterpart, Scopes
  <2>3. verdict[scope] = Judged(area, cp, subject.data, BaselineData, Captures, profile) /\ area \in DOMAIN Empty
    BY <1>1, ViewsAssumption DEF JudgeInv, JudgedOf
  <2>4. {row.status : row \in Deactivations(cp, Captures)} = {status}
    BY <1>1, <2>2, DeactivatedRows
  <2>5. status \in {row.status : row \in verdict[scope]}
    BY <2>3, <2>4, JudgedRows
  <2>6. ASSUME NEW row \in verdict[scope], row \notin Deactivations(cp, Captures)
        PROVE  row.status = "SKIP"
    BY <2>2, <2>3, <2>6, JudgedRows, SkippedRows DEF RowOfCheck, SkippedByFrame
  <2>7. {row.status : row \in verdict[scope]} \subseteq {status, "SKIP"}
    BY <2>4, <2>6
  <2>8. status \in Statuses \ {"SKIP"}
    BY DEF Statuses, Rank
  <2>9. ScopeStatus({row.status : row \in verdict[scope]}) = status
    BY <2>5, <2>7, <2>8, WorstOfOne
  <2> QED
    BY <2>2, <2>9
<1>2. JudgeInv => DeactivationIsReported
  BY <1>1 DEF DeactivationIsReported
<1> QED
  BY <1>2, JudgeInvariance, PTL

-----------------------------------------------------------------------------
(* The ports of a service.                                                 *)

\* A field that no failed collector holds is as it is on the box.
LEMMA SeenField ==
  ASSUME NEW a \in Areas, NEW view \in Views[a], NEW lost, NEW f \in DOMAIN view,
         \A c \in lost : f \notin DOMAIN Empty[a][c]
  PROVE  Seen(a, view, lost)[f] = view[f]
  BY DEF Seen

\* The rows of a check carry its name.
LEMMA RowsNamed ==
  ASSUME NEW check, NEW applies, NEW scope, NEW captures, NEW findings,
         \A r \in findings : r.check = check.id,
         NEW row \in RunCheck(check, applies, scope, captures, profile, findings)
  PROVE  row.check = check.id
  BY DEF RunCheck, Row

LEMMA OtherPortRows ==
  ASSUME NEW scope, NEW now, NEW was, NEW captures,
         NEW row \in Judged("ports", scope, now, was, captures, profile), row.check = "interface_state"
  PROVE  row \in RunCheck(Port!InterfaceState, AppliesTo(Port!InterfaceState, scope), scope, captures, profile,
                          Port!InterfaceStateRows(scope, now, was, captures))
<1>1. ASSUME row \in Deactivations(scope, captures) PROVE FALSE
  BY <1>1, RowsNamed DEF Deactivations, DeactivationRows, DeactivationState, CheckClass, Row
<1>2. \A r \in Port!InterfaceErrorsRows(scope, now, was) : r.check = Port!InterfaceErrors.id
  BY DEF Port!InterfaceErrorsRows, Port!Row, Port!InterfaceErrors, Port!Port, Port!CheckClass
<1>3. \A r \in Port!InterfaceTrafficRows(scope, now, was) : r.check = Port!InterfaceTraffic.id
  BY DEF Port!InterfaceTrafficRows, Port!Row, Port!InterfaceTraffic, Port!Port, Port!CheckClass
<1>4. \A r \in Port!TrafficCeasedRows(scope, now, was) : r.check = Port!TrafficCeased.id
  BY DEF Port!TrafficCeasedRows, Port!Row, Port!TrafficCeased,
         Port!Port, Port!CheckClass
<1>5. /\ Port!InterfaceErrors.id = "interface_errors"
      /\ Port!InterfaceTraffic.id = "interface_traffic"
      /\ Port!TrafficCeased.id = "traffic_ceased"
  BY DEF Port!InterfaceErrors, Port!InterfaceTraffic, Port!TrafficCeased,
         Port!Port, Port!CheckClass
<1> QED
  BY <1>1, <1>2, <1>3, <1>4, <1>5, RowsNamed DEF Judged, Deactivations

Measures(rows, name, field) ==
    \E row \in rows : row.check = "interface_state" /\ row.about = <<name, field>>

\* The rows of interface_state in a block that is judged.
LEMMA StateRows ==
  ASSUME NEW scope, NEW now, NEW was, NEW captures, NEW name \in Port!Listed(now), NEW field \in {"admin", "oper"},
         "interface_state" \notin profile.disabled, ~scope.off, captures.failed = {}
  PROVE  Measures(Judged("ports", scope, now, was, captures, profile), name, field)
         <=> name \in Port!ScopeInterfaces(scope, now)
<1> DEFINE rows == Port!InterfaceStateRows(scope, now, was, captures)
           run == RunCheck(Port!InterfaceState, AppliesTo(Port!InterfaceState, scope), scope, captures, profile, rows)
<1>1. AppliesTo(Port!InterfaceState, scope)
  BY DEF AppliesTo, Port!InterfaceState, Port!Port, Port!CheckClass
<1>2. ~SkippedByFrame(Port!InterfaceState, scope, captures)
  BY DEF SkippedByFrame, Port!InterfaceState, Port!Port, Port!CheckClass
<1>3. Port!InterfaceState.id = "interface_state"
  BY DEF Port!InterfaceState, Port!Port, Port!CheckClass
<1>5. rows = UNION {{Row("interface_state", <<n, f>>, Port!StateOutcome(now[n][f], Port!Was(was, n, f), captures)) :
                        f \in {"admin", "oper"}} : n \in Port!ScopeInterfaces(scope, now)}
  BY DEF Port!InterfaceStateRows, Port!Row, Row
<1>6. ASSUME NEW row \in Judged("ports", scope, now, was, captures, profile), row.check = "interface_state",
             row.about = <<name, field>>
      PROVE  name \in Port!ScopeInterfaces(scope, now)
  <2>1. PICK r \in rows : row.about = r.about
    BY <1>2, <1>6, OtherPortRows DEF RunCheck
  <2>2. PICK n \in Port!ScopeInterfaces(scope, now), f \in {"admin", "oper"} : r.about = <<n, f>>
    BY <1>5 DEF Row
  <2> QED
    BY <1>6, <2>1, <2>2
<1>7. ASSUME name \in Port!ScopeInterfaces(scope, now)
      PROVE  \E row \in run : row.check = "interface_state" /\ row.about = <<name, field>>
  <2> DEFINE r == Row("interface_state", <<name, field>>,
                      Port!StateOutcome(now[name][field], Port!Was(was, name, field), captures))
  <2>1. r \in rows
    BY <1>5, <1>7
  <2>2. r.check = "interface_state" /\ r.about = <<name, field>>
    BY DEF Row
  <2>3. \E row \in run : Reports(row, r)
    BY <1>1, <1>2, <1>3, <2>1, FindingsAreRows
  <2> QED
    BY <2>2, <2>3 DEF Reports
<1>8. run \subseteq Judged("ports", scope, now, was, captures, profile)
  BY DEF Judged
<1> QED
  BY <1>6, <1>7, <1>8 DEF Measures

\* Without a baseline the services are the same, but nothing is known of their past.
LEMMA CounterpartOf ==
  ASSUME NEW scope \in Scopes
  PROVE  /\ Counterpart(scope) \in Scopes
         /\ \A f \in DOMAIN scope \ {"wasOff"} : Counterpart(scope)[f] = scope[f]
         /\ Counterpart(scope).wasOff = IF baseline = NoCapture THEN "unknown" ELSE scope.wasOff
  BY DEF Counterpart, Scopes

\* What nobody failed to collect is in the capture as it is on the box.
LEMMA PortsSeen ==
  ASSUME NEW view \in Views["ports"], "ports" \in Areas
  PROVE  LET data == Captured("ports", view, {}, {}) IN
            /\ Port!Listed(data) = Port!Listed(view)
            /\ \A n \in Port!Interfaces : data[n] = view[n]
<1> DEFINE data == Captured("ports", view, {}, {})
<1>1. \A n \in Port!Interfaces : n \in DOMAIN view
  <2>1. "interfaces" \in DOMAIN Empty["ports"] /\ Port!Interfaces = DOMAIN Empty["ports"]["interfaces"]
    BY DEF Empty, Port!Interfaces
  <2> QED
    BY <2>1, ViewsAssumption
<1>2. \A n \in Port!Interfaces : data[n] = view[n]
  BY <1>1, SeenField DEF Captured
<1> QED
  BY <1>2 DEF Port!Listed, Port!There

\* Every listed interface of a service is judged in exactly one of its blocks: a customer
\* port in its own block, its units in the service (checks/ifaces.py, _scope_interfaces).
THEOREM PortsMeasuredOnce ==
  ASSUME OneBlockPerPort
  PROVE  Spec => []PortMeasuredOnce
<1>1. ASSUME JudgeInv, Judgement, area = "ports", "interface_state" \notin profile.disabled, subject.lost = {},
             NEW name \in Port!Listed(new), NEW field \in {"admin", "oper"}
      PROVE  Cardinality({scope \in blocks : \E row \in verdict[scope] :
                            row.check = "interface_state" /\ row.about = <<name, field>>}) = 1
  <2> DEFINE data == Captured("ports", new, {}, {})
  <2>1. subject.data = data /\ new \in Views["ports"] /\ "ports" \in Areas /\ blocks \in Blocks["ports"]
    BY <1>1, ViewsAssumption DEF JudgeInv, SubjectIsOfNew, Captured, Judgement
  <2>2. Port!Listed(data) = Port!Listed(new) /\ name \in Port!Listed(data)
    BY <2>1, PortsSeen
  <2>3. PICK service \in blocks :
            /\ service.kind # "layer1"
            /\ \E port \in blocks :
                  /\ blocks = {service, port}
                  /\ IF service.parent THEN port.kind = "layer1" ELSE port = service
            /\ \A scope \in blocks : ~scope.off
    BY <2>1 DEF OneBlockPerPort
  <2>4. PICK port \in blocks : /\ blocks = {service, port}
                               /\ IF service.parent THEN port.kind = "layer1" ELSE port = service
    BY <2>3
  <2>5. \A scope \in blocks : Measures(verdict[scope], name, field) <=> name \in Port!ScopeInterfaces(scope, data)
    <3> SUFFICES ASSUME NEW scope \in blocks
                 PROVE  Measures(verdict[scope], name, field) <=> name \in Port!ScopeInterfaces(scope, data)
      OBVIOUS
    <3> DEFINE cp == Counterpart(scope)
    <3>1. scope \in Scopes
      BY <2>1, BlocksAssumption
    <3>2. cp.off = scope.off /\ cp.kind = scope.kind /\ cp.parent = scope.parent
      BY <3>1, CounterpartOf DEF Scopes
    <3>3. verdict[scope] = Judged("ports", cp, data, BaselineData, Captures, profile)
      BY <1>1, <2>1 DEF JudgeInv, JudgedOf
    <3>4. Captures.failed = {}
      BY <1>1 DEF Captures
    <3>5. ~cp.off
      BY <2>3, <3>2
    <3> HIDE DEF cp, data
    <3>6. Measures(Judged("ports", cp, data, BaselineData, Captures, profile), name, field)
          <=> name \in Port!ScopeInterfaces(cp, data)
      BY <1>1, <2>2, <3>4, <3>5, StateRows
    <3>7. Port!ScopeInterfaces(cp, data) = Port!ScopeInterfaces(scope, data)
      BY <3>2 DEF Port!ScopeInterfaces
    <3> QED
      BY <3>3, <3>6, <3>7
  <2>6. \E one \in blocks : {scope \in blocks : Measures(verdict[scope], name, field)} = {one}
    <3>1. CASE service.parent /\ name = "port"
      <4>1. name \in Port!ScopeInterfaces(port, data) /\ name \notin Port!ScopeInterfaces(service, data)
        BY <2>2, <2>3, <2>4, <3>1 DEF Port!ScopeInterfaces, Port!IsPhysical
      <4> QED
        BY <2>4, <2>5, <4>1
    <3>2. CASE ~service.parent \/ name # "port"
      <4>1. name \in Port!ScopeInterfaces(service, data)
        BY <2>2, <2>3, <3>2 DEF Port!ScopeInterfaces, Port!IsPhysical
      <4>2. port = service \/ name \notin Port!ScopeInterfaces(port, data)
        BY <2>4, <3>2 DEF Port!ScopeInterfaces, Port!IsPhysical
      <4> QED
        BY <2>4, <2>5, <4>1, <4>2
    <3> QED
      BY <3>1, <3>2
  <2> QED
    BY <2>6, FS_Singleton DEF Measures
<1>2. area = "ports" /\ AreaIsChecked => "interface_state" \notin profile.disabled
  <2>1. ChecksOf["ports"] = {Port!InterfaceState}
    BY DEF ChecksOf
  <2>2. Port!InterfaceState.id = "interface_state"
    BY DEF Port!InterfaceState, Port!Port, Port!CheckClass
  <2> QED
    BY <2>1, <2>2 DEF AreaIsChecked
<1>3. JudgeInv => PortMeasuredOnce
  BY <1>1, <1>2 DEF PortMeasuredOnce
<1> QED
  BY <1>3, JudgeInvariance, PTL

-----------------------------------------------------------------------------
(* The hosts of a service.                                                 *)

\* A capture of the hosts has the pings; what its collector lost is the table.
LEMMA HostsSeen ==
  ASSUME NEW a \in Areas \cap ReachAreas, NEW view \in Views[a], NEW lost \in Losses(a), NEW before
  PROVE  LET data == Captured(a, view, lost, before)
             seen == Seen(a, view, lost) IN
            /\ data.pings = Reach!Pings(seen, Family(a), before, Fate(view))
            /\ seen.nets = view.nets /\ seen.bgp = view.bgp /\ seen.skipped = view.skipped
            /\ lost = {} => data.entries = view.entries
            /\ data.entries = seen.entries /\ seen.entries \subseteq view.entries
<1> DEFINE seen == Seen(a, view, lost)
           table == IF a = "reach4" THEN "arp" ELSE "nd"
           pings == Reach!Pings(seen, Family(a), before, Fate(view))
<1>1. /\ Collectors(a) = {table} /\ DOMAIN Empty[a] = {"config", table}
      /\ DOMAIN Empty[a]["config"] = {"nets", "bgp", "pings"} /\ DOMAIN Empty[a][table] = {"entries"}
  <2>1. CASE a = "reach4"
    <3>1. /\ DOMAIN Empty[a] = {"config", "arp"}
          /\ DOMAIN Empty[a]["config"] = {"nets", "bgp", "pings"} /\ DOMAIN Empty[a]["arp"] = {"entries"}
      BY <2>1 DEF Empty
    <3> QED
      BY <2>1, <3>1 DEF Collectors
  <2>2. CASE a = "reach6"
    <3>1. /\ DOMAIN Empty[a] = {"config", "nd"}
          /\ DOMAIN Empty[a]["config"] = {"nets", "bgp", "pings"} /\ DOMAIN Empty[a]["nd"] = {"entries"}
      BY <2>2 DEF Empty
    <3> QED
      BY <2>2, <3>1 DEF Collectors
  <2> QED
    BY <2>1, <2>2 DEF ReachAreas
<1>2. {"nets", "bgp", "pings", "entries"} \subseteq DOMAIN view
  BY <1>1, ViewsAssumption
<1>3. lost \subseteq {table}
  BY <1>1 DEF Losses
<1>4. \A f \in {"nets", "bgp", "skipped"} : f \in DOMAIN view => seen[f] = view[f]
  <2> SUFFICES ASSUME NEW f \in {"nets", "bgp", "skipped"}, f \in DOMAIN view PROVE seen[f] = view[f]
    OBVIOUS
  <2>1. \A c \in lost : f \notin DOMAIN Empty[a][c]
    BY <1>1, <1>3
  <2> QED
    BY <2>1, SeenField
<1>5. "skipped" \in DOMAIN view
  BY ViewsAssumption DEF ReachAreas, Shown
<1>6. Captured(a, view, lost, before) = [seen EXCEPT !.pings = pings]
  BY DEF Captured, ReachAreas
<1>7. seen = [f \in DOMAIN seen |-> seen[f]] /\ DOMAIN seen = DOMAIN view
  BY DEF Seen
<1>8. lost = {} => seen.entries = view.entries
  BY <1>2, SeenField
<1>9. seen.entries \subseteq view.entries
  <2>1. CASE lost = {}
    BY <1>8, <2>1
  <2>2. CASE lost = {table}
    <3>1. Empty[a][table].entries = {}
      <4>1. Empty["reach4"]["arp"].entries = {} /\ Empty["reach6"]["nd"].entries = {}
        BY DEF Empty
      <4> QED
        BY <4>1 DEF ReachAreas
    <3>2. {c \in lost : "entries" \in DOMAIN Empty[a][c]} = {table}
      BY <1>1, <2>2
    <3> HIDE DEF table
    <3>3. seen.entries = Empty[a][table].entries
      BY <1>2, <3>2 DEF Seen
    <3> QED
      BY <3>1, <3>3
  <2> QED
    BY <1>3, <2>1, <2>2
<1> QED
  BY <1>2, <1>4, <1>5, <1>6, <1>7, <1>8, <1>9

\* A ping of the baseline that got no answer was one of a host that did not answer.
LEMMA AnsweredBefore ==
  ASSUME NEW view, NEW seen, NEW family, NEW before, NEW h \in view.alive, view.alive \subseteq Hosts,
         NEW b \in Reach!Pings(seen, family, before, Fate(view)), b.target = h
  PROVE  ~(b.sent > 0 /\ b.received = 0)
<1>1. b = Reach!PingResult(h, Fate(view)[h])
  BY DEF Reach!Pings, Reach!PingResult
<1>2. Fate(view)[h] \in {"refused", "answer"}
  BY DEF Fate
<1> QED
  BY <1>1, <1>2 DEF Reach!PingResult

\* The hosts of the old box are the targets of the new one.
LEMMA LostHostIsPinged ==
  ASSUME NEW view, NEW seen, NEW family, NEW before, NEW h \in Hosts \ Own,
         h \notin view.alive \cup view.refused,
         [ip |-> h, state |-> "resolved", remote |-> FALSE] \in before,
         NetOf[h] \in seen.nets, seen.bgp = {}, ~seen.skipped
  PROVE  [target |-> h, sent |-> 1, received |-> 0] \in Reach!Pings(seen, family, before, Fate(view))
<1> DEFINE entry == [ip |-> h, state |-> "resolved", remote |-> FALSE]
<1>1. h \in Reach!BaselineTargets(seen, family, before)
  <2>1. entry \in {e \in before : NetOf[e.ip] \in seen.nets /\ ~e.remote /\ Reach!Usable(family, e) /\ e.ip \notin Own}
    BY DEF Reach!Usable
  <2> QED
    BY <2>1 DEF Reach!BaselineTargets
<1>2. h \in Reach!Targets(seen, family, before)
  BY <1>1 DEF Reach!Targets, Reach!BgpTargets
<1>3. Fate(view)[h] = "no answer"
  BY DEF Fate
<1>4. Reach!PingResult(h, Fate(view)[h]) = [target |-> h, sent |-> 1, received |-> 0]
  BY <1>3 DEF Reach!PingResult
<1> QED
  BY <1>2, <1>4 DEF Reach!Pings

\* A host that the old box knew and that answered before the migration is reported when it
\* no longer answers, although the new box never learned its address (probes/ping.py,
\* resolve_targets; checks/reachability.py).
THEOREM LostHostsReported ==
  ASSUME HostsArePinged
  PROVE  Spec => []LostHostIsReported
<1>1. ASSUME JudgeInv, Judgement, area \in ReachAreas, "ping_reachability" \notin profile.disabled,
             baseline # NoCapture,
             new.bgp = {}, ~new.skipped, "arp" \notin baseline.lost, "nd" \notin baseline.lost, NEW h \in LostHosts
      PROVE  \E row \in Rows : row.check = "ping_reachability" /\ row.about = <<h>> /\ row.outcome = "broken"
  <2> DEFINE now == Seen(area, new, subject.lost)
             was == Seen(area, old, baseline.lost)
             p == [target |-> h, sent |-> 1, received |-> 0]
             finding == Row("ping_reachability", <<h>>, "broken")
  <2>1. /\ area \in Areas \cap ReachAreas /\ old \in Views[area] /\ new \in Views[area] /\ blocks \in Blocks[area]
        /\ baseline.lost \in Losses(area) /\ baseline.data = Captured(area, old, baseline.lost, {})
        /\ subject.lost \in Losses(area) /\ subject.data = Captured(area, new, subject.lost, Before4)
        /\ verdict = [scope \in blocks |-> JudgedOf(scope)]
    BY <1>1, ViewsAssumption DEF JudgeInv, BaselineIsOfOld, SubjectIsOfNew, Judgement
  <2>2. baseline.lost = {} /\ "ping" \notin subject.lost
    <3>1. Collectors(area) \subseteq {"arp", "nd"}
      <4>1. DOMAIN Empty["reach4"] = {"config", "arp"} /\ DOMAIN Empty["reach6"] = {"config", "nd"}
        BY DEF Empty
      <4> QED
        BY <2>1, <4>1 DEF Collectors, ReachAreas
    <3> QED
      BY <1>1, <2>1, <3>1 DEF Losses
  <2>3. Before4 = old.entries
    BY <1>1, <2>1, <2>2, HostsSeen DEF Before4, ReachAreas
  <2>4. /\ subject.data.pings = Reach!Pings(now, Family(area), old.entries, Fate(new))
        /\ now.nets = new.nets /\ now.bgp = new.bgp /\ now.skipped = new.skipped
    BY <2>1, <2>3, HostsSeen
  <2>5. BaselineData.pings = Reach!Pings(was, Family(area), {}, Fate(old))
    BY <1>1, <2>1, HostsSeen DEF BaselineData
  <2>6. /\ h \in old.alive /\ h \in Hosts \ Own /\ h \notin new.alive \cup new.refused /\ NetOf[h] \in new.nets
        /\ [ip |-> h, state |-> "resolved", remote |-> FALSE] \in old.entries /\ old.alive \subseteq Hosts
    BY <2>1, ViewsAssumption DEF LostHosts, ReachAreas, Shown
  <2>7. p \in subject.data.pings
    BY <1>1, <2>4, <2>6, LostHostIsPinged
  <2>8. \A b \in BaselineData.pings : b.target = h => ~(b.sent > 0 /\ b.received = 0)
    BY <2>5, <2>6, AnsweredBefore
  <2>9. finding \in Reach!PingRows(subject.data, BaselineData, Captures)
    <3>1. Reach!PingOutcome(p, BaselineData.pings, Captures) = "broken"
      BY <2>8 DEF Reach!PingOutcome, Reach!UnchangedOr
    <3>2. finding = Reach!Row("ping_reachability", <<p.target>>, Reach!PingOutcome(p, BaselineData.pings, Captures))
      BY <3>1 DEF Reach!Row, Row
    <3>3. finding \in {Reach!Row("ping_reachability", <<q.target>>, Reach!PingOutcome(q, BaselineData.pings, Captures)) :
                         q \in subject.data.pings}
      BY <2>7, <3>2
    <3> HIDE DEF finding, p
    <3> QED
      BY <2>7, <3>3 DEF Reach!PingRows
  <2>10. PICK scope \in blocks : ~scope.off /\ AppliesTo(Reach!PingReachability, scope)
    BY <2>1 DEF HostsArePinged
  <2> DEFINE cp == Counterpart(scope)
             run == RunCheck(Reach!PingReachability, AppliesTo(Reach!PingReachability, cp), cp, Captures, profile,
                             Reach!PingRows(subject.data, BaselineData, Captures))
  <2>11. scope \in Scopes /\ ~cp.off /\ AppliesTo(Reach!PingReachability, cp)
    <3>1. scope \in Scopes
      BY <2>1, BlocksAssumption
    <3>2. cp.off = scope.off /\ cp.kind = scope.kind /\ cp.type = scope.type /\ cp.subtype = scope.subtype
      BY <3>1, CounterpartOf DEF Scopes
    <3> QED
      BY <2>10, <3>1, <3>2 DEF AppliesTo
  <2>12. /\ Reach!PingReachability.id = "ping_reachability" /\ Reach!PingReachability.mode = "both"
         /\ Reach!PingReachability.requires = {"ping"}
    BY DEF Reach!PingReachability, Reach!Reach, Reach!CheckClass
  <2>13. ~SkippedByFrame(Reach!PingReachability, cp, Captures)
    BY <2>2, <2>11, <2>12 DEF SkippedByFrame, Captures
  <2>14. run \subseteq Judged(area, cp, subject.data, BaselineData, Captures, profile)
    BY <2>1 DEF Judged, ReachAreas
  <2>15. \E row \in run : Reports(row, finding)
    BY <1>1, <2>9, <2>11, <2>12, <2>13, FindingsAreRows
  <2>16. \E row \in verdict[scope] : Reports(row, finding)
    BY <2>1, <2>14, <2>15 DEF JudgedOf
  <2> QED
    BY <2>1, <2>16 DEF Rows, Reports, Row
<1>2. JudgeInv => LostHostIsReported
  BY <1>1 DEF LostHostIsReported, ReachAreas
<1> QED
  BY <1>2, JudgeInvariance, PTL

-----------------------------------------------------------------------------
(* "Unchanged" is earned.                                                  *)

\* What a check reads is what the boxes show, where no collector lost it.
Judging == JudgeInv /\ Judgement
Kept(f, lost) == \A c \in lost : f \notin DOMAIN Empty[area][c]

LEMMA SubjectSeen ==
  ASSUME Judging, NEW f \in DOMAIN new, Kept(f, subject.lost), f # "pings"
  PROVE  subject.data[f] = new[f]
<1>1. area \in Areas /\ new \in Views[area] /\ subject.data = Captured(area, new, subject.lost, Before4)
  BY ViewsAssumption DEF Judging, JudgeInv, Judgement, SubjectIsOfNew
<1>2. Seen(area, new, subject.lost)[f] = new[f]
  BY <1>1, SeenField DEF Kept
<1>3. f \in DOMAIN Seen(area, new, subject.lost)
  BY DEF Seen
<1> QED
  BY <1>1, <1>2, <1>3 DEF Captured

LEMMA BaselineSeen ==
  ASSUME Judging, baseline # NoCapture, NEW f \in DOMAIN old, Kept(f, baseline.lost), f # "pings"
  PROVE  BaselineData[f] = old[f]
<1>1. area \in Areas /\ old \in Views[area] /\ BaselineData = Captured(area, old, baseline.lost, {})
  BY DEF Judging, JudgeInv, BaselineIsOfOld, BaselineData
<1>2. Seen(area, old, baseline.lost)[f] = old[f]
  BY <1>1, SeenField DEF Kept
<1>3. f \in DOMAIN Seen(area, old, baseline.lost)
  BY DEF Seen
<1> QED
  BY <1>1, <1>2, <1>3 DEF Captured

\* A check that ran had its collectors, and one that compares successfully had them in
\* the baseline.
LEMMA MeasuredBefore ==
  ASSUME Judging, NEW c, c # "ping", BaselineMeasured(Captures, c)
  PROVE  baseline # NoCapture /\ c \notin baseline.lost
  BY DEF BaselineMeasured, Captures

LEMMA CollectedNow ==
  ASSUME Judging, NEW check, NEW scope, ~SkippedByFrame(check, scope, Captures)
  PROVE  check.requires \cap subject.lost = {}
  BY DEF SkippedByFrame, Captures

LEMMA LostAreCollectors ==
  ASSUME Judging
  PROVE  /\ subject.lost \subseteq Collectors(area)
         /\ baseline # NoCapture => baseline.lost \subseteq Collectors(area)
  BY ViewsAssumption DEF Judging, JudgeInv, Judgement, SubjectIsOfNew, BaselineIsOfOld, Losses

LEMMA BothShown ==
  ASSUME Judging
  PROVE  /\ area \in Areas /\ area \in DOMAIN Empty
         /\ Shown(area, old) /\ Shown(area, new)
         /\ \A c \in DOMAIN Empty[area] : DOMAIN Empty[area][c] \subseteq DOMAIN old \cap DOMAIN new
  BY ViewsAssumption DEF Judging, JudgeInv, Judgement, SubjectIsOfNew

LEMMA BlockJudged ==
  ASSUME Judging, NEW scope \in blocks
  PROVE  /\ verdict[scope] = Judged(area, Counterpart(scope), subject.data, BaselineData, Captures, profile)
         /\ scope \in Scopes
         /\ \A f \in DOMAIN scope \ {"wasOff"} : Counterpart(scope)[f] = scope[f]
  BY BlocksAssumption, CounterpartOf DEF Judging, JudgeInv, JudgedOf

Evidence(scope, row) ==
    /\ baseline # NoCapture
    /\ \E now \in After(scope), was \in Before(scope) :
          /\ now.check = row.check /\ now.about = row.about
          /\ was.check = row.check /\ was.what = now.what
          /\ Known(now)

\* The row of a deactivation is never unchanged.
LEMMA DeactivationNotUnchanged ==
  ASSUME NEW scope, NEW captures, NEW row \in Deactivations(scope, captures)
  PROVE  row.outcome # "unchanged"
  BY DEF Deactivations, RunCheck, Row, DeactivationRows, DeactivationOutcome

\* A finding behind an unchanged row, of a check that ran.
Behind(check, scope, findings, row) ==
    /\ ~SkippedByFrame(check, scope, Captures)
    /\ \E finding \in findings : Reports(row, finding)

LEMMA UnchangedIsFinding ==
  ASSUME NEW check, NEW applies, NEW scope, NEW findings,
         NEW row \in RunCheck(check, applies, scope, Captures, profile, findings), row.outcome = "unchanged"
  PROVE  applies /\ Behind(check, scope, findings, row)
  BY RowsAreFindings DEF Behind

\* Where an area has one collector, all that is read is what the box shows.
LEMMA AloneNow ==
  ASSUME Judging, NEW c, Collectors(area) = {c}, c \notin subject.lost
  PROVE  \A f \in DOMAIN new \ {"pings"} : subject.data[f] = new[f]
<1>1. subject.lost = {}
  BY LostAreCollectors
<1> QED
  BY <1>1, SubjectSeen DEF Kept

LEMMA AloneBefore ==
  ASSUME Judging, NEW c, Collectors(area) = {c}, c # "ping", BaselineMeasured(Captures, c)
  PROVE  baseline # NoCapture /\ \A f \in DOMAIN old \ {"pings"} : BaselineData[f] = old[f]
<1>1. baseline # NoCapture /\ baseline.lost = {}
  BY LostAreCollectors, MeasuredBefore
<1> QED
  BY <1>1, BaselineSeen DEF Kept

LEMMA CardinalityIsOne ==
  \A S : Peer!Cardinality(S) = Cardinality(S) /\ Evpn!Cardinality(S) = Cardinality(S)
         /\ Mcast!Cardinality(S) = Cardinality(S)
  BY DEF Peer!Cardinality, Evpn!Cardinality, Mcast!Cardinality, Cardinality

\* One record, or none.
LEMMA ByKeyOfRecords ==
  ASSUME NEW records, IsFiniteSet(records), \A r \in records : r.state \notin {"absent", "ambiguous"}
  PROVE  /\ Peer!ByKey(records) = "absent" => records = {}
         /\ Peer!IsSession(Peer!ByKey(records)) =>
               Cardinality(records) = 1 /\ \A r \in records : r.state = Peer!ByKey(records)
<1>1. CASE records = {}
  BY <1>1 DEF Peer!ByKey, Peer!IsSession
<1>2. CASE Cardinality(records) > 1
  <2>1. records # {}
    BY <1>2, FS_EmptySet
  <2> QED
    BY <1>2, <2>1, CardinalityIsOne DEF Peer!ByKey, Peer!IsSession
<1>3. CASE records # {} /\ ~(Cardinality(records) > 1)
  <2>1. Cardinality(records) = 1
    BY <1>3, FS_CardinalityType, FS_EmptySet
  <2>2. PICK r : records = {r}
    BY <2>1, FS_Singleton
  <2>3. Peer!ByKey(records) = r.state
    BY <1>3, <2>2, CardinalityIsOne DEF Peer!ByKey
  <2> QED
    BY <2>1, <2>2, <2>3 DEF Peer!IsSession
<1> QED
  BY <1>1, <1>2, <1>3

\* The conditions of a peer.
LEMMA BgpConditionsOf ==
  ASSUME NEW view, Shown("bgp", view)
  PROVE  /\ Peer!BgpOf(view) = "absent" =>
               \E c \in BgpConditions(view) :
                  c.check = "bgp_session_state" /\ c.about = <<"peer">> /\ c.what = <<"absent">>
         /\ Peer!IsSession(Peer!BgpOf(view)) /\ Peer!BgpOf(view) # "Established" =>
               \E c \in BgpConditions(view) :
                  c.check = "bgp_session_state" /\ c.about = <<"peer">> /\ c.what = <<Peer!BgpOf(view)>>
<1> DEFINE records == {r \in view.bgp : Peer!OwnsBgpPeer(view, r)}
           state == Peer!BgpOf(view)
<1>1. IsFiniteSet(records) /\ \A r \in records : r.state \notin {"absent", "ambiguous"}
  BY FS_Subset DEF Shown
<1>2. records = IF view.intent = "none" THEN {} ELSE OursBgp(view)
  BY DEF Shown, OursBgp, Peer!OwnsBgpPeer
<1>3. state = Peer!ByKey(records)
  BY DEF Peer!BgpOf
<1>4. ASSUME state = "absent"
      PROVE  Condition("bgp_session_state", <<"peer">>, <<"absent">>, view.intent # "none") \in BgpConditions(view)
  <2>1. records = {}
    BY <1>1, <1>3, <1>4, ByKeyOfRecords
  <2> QED
    BY <1>2, <2>1 DEF BgpConditions, If
<1>5. ASSUME Peer!IsSession(state), state # "Established"
      PROVE  Fault("bgp_session_state", <<"peer">>, <<state>>) \in BgpConditions(view)
  <2>1. Cardinality(records) = 1 /\ \A r \in records : r.state = state
    BY <1>1, <1>3, <1>5, ByKeyOfRecords
  <2>2. PICK r : records = {r}
    BY <1>1, <2>1, FS_Singleton
  <2>3. view.intent # "none" /\ OursBgp(view) = {r} /\ Cardinality(OursBgp(view)) = 1 /\ r.state = state
    BY <1>2, <2>1, <2>2
  <2>4. Fault("bgp_session_state", <<"peer">>, <<state>>) \in
            UNION {NotIn("Established", "bgp_session_state", <<"peer">>, q.state) : q \in OursBgp(view)}
    BY <1>5, <2>3 DEF NotIn, If
  <2> QED
    BY <2>3, <2>4 DEF BgpConditions, If
<1> QED
  BY <1>4, <1>5 DEF Condition, Fault

\* What holds of both boxes is evidence, if it is known.
SameFault(scope, row, what) ==
    /\ \E c \in After(scope) : c.check = row.check /\ c.about = row.about /\ c.what = what
    /\ \E c \in Before(scope) : c.check = row.check /\ c.what = what
    /\ "unknown" \notin {what[i] : i \in DOMAIN what}

LEMMA SameIsEvidence ==
  ASSUME NEW scope, NEW row, NEW what, baseline # NoCapture, SameFault(scope, row, what)
  PROVE  Evidence(scope, row)
  BY DEF Evidence, Known, SameFault

\* A condition of both boxes.
LEMMA ConditionOfBoth ==
  ASSUME NEW scope, NEW row, NEW about, NEW what, NEW fault, NEW before, baseline # NoCapture,
         Condition(row.check, row.about, what, fault) \in After(scope),
         Condition(row.check, about, what, before) \in Before(scope),
         "unknown" \notin {what[i] : i \in DOMAIN what}
  PROVE  Evidence(scope, row)
<1>1. SameFault(scope, row, what)
  BY DEF SameFault, Condition
<1> QED
  BY <1>1, SameIsEvidence

LEMMA FaultOfBoth ==
  ASSUME NEW scope, NEW row, NEW about, NEW what, baseline # NoCapture,
         Fault(row.check, row.about, what) \in After(scope),
         Fault(row.check, about, what) \in Before(scope),
         "unknown" \notin {what[i] : i \in DOMAIN what}
  PROVE  Evidence(scope, row)
  BY ConditionOfBoth DEF Fault

LEMMA KnownParts ==
  /\ \A x : x # "unknown" => "unknown" \notin {<<x>>[i] : i \in DOMAIN <<x>>}
  /\ \A x, y : "unknown" \notin {x, y} => "unknown" \notin {<<x, y>>[i] : i \in DOMAIN <<x, y>>}
  /\ \A x, y, z : "unknown" \notin {x, y, z} => "unknown" \notin {<<x, y, z>>[i] : i \in DOMAIN <<x, y, z>>}
  OBVIOUS

LEMMA BgpUnchanged ==
  ASSUME Judging, area = "bgp", NEW scope \in blocks, NEW row \in verdict[scope], row.outcome = "unchanged"
  PROVE  Evidence(scope, row)
<1> DEFINE check == Peer!BgpSessionState
           state == Peer!BgpOf(new)
           findings == Peer!BgpRows(subject.data, BaselineData, Captures)
<1>1. Behind(check, Counterpart(scope), findings, row)
  <2>1. \A r \in Peer!PrefixRows(subject.data, BaselineData, -10) : r.outcome # "unchanged"
    BY DEF Peer!PrefixRows, Peer!PrefixOutcomes, Peer!PrefixChange, Peer!Row
  <2> QED
    BY <2>1, BlockJudged, DeactivationNotUnchanged, UnchangedIsFinding DEF Judged, Deactivations, Behind, Reports
<1>2. /\ row.check = "bgp_session_state" /\ row.about = <<"peer">>
      /\ Peer!BgpOutcome(subject.data, BaselineData, Captures) = "unchanged"
  BY <1>1 DEF Behind, Reports, Peer!BgpRows, Peer!Row
<1>3. Collectors(area) = {"bgp"} /\ {"intent", "bgp"} \subseteq DOMAIN old \cap DOMAIN new
  <2>1. /\ DOMAIN Empty["bgp"] = {"config", "bgp"} /\ "bgp" \in DOMAIN Empty["bgp"]["bgp"]
        /\ "intent" \in DOMAIN Empty["bgp"]["config"]
    BY DEF Empty
  <2> QED
    BY <2>1, BothShown DEF Collectors
<1>4. subject.data.intent = new.intent /\ subject.data.bgp = new.bgp
  <2>1. "bgp" \notin subject.lost
    BY <1>1, CollectedNow DEF Behind, Peer!BgpSessionState, Peer!CheckClass
  <2> QED
    BY <1>3, <2>1, AloneNow
<1>5. state = Peer!BgpOf(subject.data)
  BY <1>4 DEF Peer!BgpOf, Peer!OwnsBgpPeer
<1>6. BaselineMeasured(Captures, "bgp")
  BY <1>2 DEF Peer!BgpOutcome, Peer!BgpSession, Peer!BgpInactive, Peer!BgpMissing, Peer!DeactivationOutcome,
              Peer!UnchangedOr, Peer!BaselineMeasured, BaselineMeasured
<1>7. baseline # NoCapture /\ BaselineData.intent = old.intent /\ BaselineData.bgp = old.bgp
  BY <1>3, <1>6, AloneBefore
<1>8. Peer!BgpOf(BaselineData) = Peer!BgpOf(old)
  BY <1>7 DEF Peer!BgpOf, Peer!OwnsBgpPeer
<1>9. Peer!BgpOf(old) = state /\ \/ state = "absent"
                                 \/ Peer!IsSession(state) /\ state # "Established" /\ state # "unknown"
  BY <1>2, <1>5, <1>8
     DEF Peer!BgpOutcome, Peer!BgpSession, Peer!BgpInactive, Peer!BgpMissing, Peer!DeactivationOutcome,
         Peer!UnchangedOr, Peer!IsSession, Peer!ESTABLISHED, Peer!UNKNOWN
<1>10. Shown("bgp", old) /\ Shown("bgp", new)
  BY BothShown
<1>11. After(scope) = BgpConditions(new) /\ Before(scope) = BgpConditions(old)
  BY DEF After, Before, Conditions
<1>12. CASE state = "absent"
  <2>1. SameFault(scope, row, <<"absent">>)
    BY <1>2, <1>9, <1>10, <1>11, <1>12, BgpConditionsOf DEF SameFault
  <2> QED
    BY <1>7, <2>1, SameIsEvidence
<1>13. CASE Peer!IsSession(state) /\ state # "Established" /\ state # "unknown"
  <2>1. SameFault(scope, row, <<state>>)
    BY <1>2, <1>9, <1>10, <1>11, <1>13, BgpConditionsOf DEF SameFault
  <2> HIDE DEF state
  <2> QED
    BY <1>7, <2>1, SameIsEvidence
<1> QED
  BY <1>9, <1>12, <1>13

\* The conditions of a BFD session.
LEMMA BfdConditionsOf ==
  ASSUME NEW view, Shown("bfd", view)
  PROVE  /\ Peer!BfdOf(view) = "absent" =>
               \E c \in BfdConditions(view) :
                  c.check = "bfd_session_state" /\ c.about = <<"peer">> /\ c.what = <<"absent">>
         /\ Peer!IsSession(Peer!BfdOf(view)) /\ Peer!BfdOf(view) # "Up" =>
               \E c \in BfdConditions(view) :
                  c.check = "bfd_session_state" /\ c.about = <<"peer">> /\ c.what = <<Peer!BfdOf(view)>>
<1> DEFINE records == {r \in view.bfd : Peer!OwnsBfdSession(view, r)}
           state == Peer!BfdOf(view)
           up == /\ view.intent # "none" /\ Cardinality(OursBgp(view)) = 1
                 /\ \E r \in OursBgp(view) : r.state = "Established"
<1>1. IsFiniteSet(records) /\ \A r \in records : r.state \notin {"absent", "ambiguous"}
  BY FS_Subset DEF Shown
<1>2. records = OursBfd(view)
  <2>1. CASE view.intent # "active"
    BY <2>1 DEF OursBfd, Peer!OwnsBfdSession
  <2>2. CASE view.intent = "active" /\ {r \in view.bfd : r.port = "ours"} # {}
    BY <2>2 DEF OursBfd, Peer!OwnsBfdSession
  <2>3. CASE view.intent = "active" /\ {r \in view.bfd : r.port = "ours"} = {}
    BY <2>3 DEF OursBfd, Peer!OwnsBfdSession, Shown
  <2> QED
    BY <2>1, <2>2, <2>3
<1>3. state = Peer!ByKey(records)
  BY DEF Peer!BfdOf
<1>4. ASSUME state = "absent"
      PROVE  Condition("bfd_session_state", <<"peer">>, <<"absent">>, view.bfdIntent /\ up) \in BfdConditions(view)
  BY <1>1, <1>2, <1>3, <1>4, ByKeyOfRecords DEF BfdConditions, If
<1>5. ASSUME Peer!IsSession(state), state # "Up"
      PROVE  Condition("bfd_session_state", <<"peer">>, <<state>>, TRUE) \in BfdConditions(view)
  <2>1. Cardinality(records) = 1 /\ \A r \in records : r.state = state
    BY <1>1, <1>3, <1>5, ByKeyOfRecords
  <2>2. PICK r : records = {r}
    BY <1>1, <2>1, FS_Singleton
  <2>3. Condition("bfd_session_state", <<"peer">>, <<state>>, TRUE) \in
            UNION {If(~view.bfdIntent \/ q.state # "Up",
                      {Condition("bfd_session_state", <<"peer">>, <<q.state>>, TRUE)}) : q \in OursBfd(view)}
    BY <1>2, <1>5, <2>1, <2>2 DEF If
  <2> QED
    BY <1>2, <2>1, <2>3 DEF BfdConditions, If
<1> QED
  BY <1>4, <1>5 DEF Condition

LEMMA BfdUnchanged ==
  ASSUME Judging, area = "bfd", NEW scope \in blocks, NEW row \in verdict[scope], row.outcome = "unchanged"
  PROVE  Evidence(scope, row)
<1> DEFINE check == Peer!BfdSessionState
           state == Peer!BfdOf(new)
           findings == Peer!BfdRows(subject.data, BaselineData, Captures)
<1>1. Behind(check, Counterpart(scope), findings, row)
  BY BlockJudged, DeactivationNotUnchanged, UnchangedIsFinding DEF Judged, Deactivations, Behind
<1>2. /\ row.check = "bfd_session_state" /\ row.about = <<"peer">>
      /\ Peer!BfdOutcome(subject.data, BaselineData, Captures) = "unchanged"
  BY <1>1 DEF Behind, Reports, Peer!BfdRows, Peer!Row
<1>3. /\ Collectors(area) = {"bgp", "bfd"} /\ {"intent", "bfdIntent", "bgp", "bfd"} \subseteq DOMAIN old \cap DOMAIN new
      /\ \A f \in {"intent", "bfdIntent", "bfd"} : f \notin DOMAIN Empty[area]["bgp"]
  <2>1. /\ DOMAIN Empty["bfd"] = {"config", "bgp", "bfd"} /\ DOMAIN Empty["bfd"]["bgp"] = {"bgp"}
        /\ DOMAIN Empty["bfd"]["config"] = {"intent", "bfdIntent"} /\ DOMAIN Empty["bfd"]["bfd"] = {"bfd"}
    BY DEF Empty
  <2> QED
    BY <2>1, BothShown DEF Collectors
<1>4. \A f \in {"intent", "bfdIntent", "bgp", "bfd"} : subject.data[f] = new[f]
  <2>1. subject.lost = {}
    BY <1>1, <1>3, CollectedNow, LostAreCollectors DEF Behind, Peer!BfdSessionState, Peer!CheckClass
  <2> QED
    BY <1>3, <2>1, SubjectSeen DEF Kept
<1>5. state = Peer!BfdOf(subject.data)
  BY <1>4 DEF Peer!BfdOf, Peer!OwnsBfdSession
<1>6. BaselineMeasured(Captures, "bfd")
  BY <1>2 DEF Peer!BfdOutcome, Peer!UnchangedOr, Peer!BaselineMeasured, BaselineMeasured
<1>7. baseline # NoCapture /\ BaselineData.intent = old.intent /\ BaselineData.bfd = old.bfd
  <2>1. baseline # NoCapture /\ baseline.lost \subseteq {"bgp"}
    BY <1>3, <1>6, MeasuredBefore, LostAreCollectors
  <2> QED
    BY <1>3, <2>1, BaselineSeen DEF Kept
<1>8. Peer!BfdOf(BaselineData) = Peer!BfdOf(old)
  BY <1>7 DEF Peer!BfdOf, Peer!OwnsBfdSession
<1>9. Peer!BfdOf(old) = state /\ \/ state = "absent"
                                 \/ Peer!IsSession(state) /\ state # "Up" /\ state # "unknown"
  BY <1>2, <1>5, <1>8 DEF Peer!BfdOutcome, Peer!UnchangedOr, Peer!IsSession, Peer!UNKNOWN
<1>10. Shown("bfd", old) /\ Shown("bfd", new)
  BY BothShown
<1>11. After(scope) = BfdConditions(new) /\ Before(scope) = BfdConditions(old)
  BY DEF After, Before, Conditions
<1>12. CASE state = "absent"
  <2>1. SameFault(scope, row, <<"absent">>)
    BY <1>2, <1>9, <1>10, <1>11, <1>12, BfdConditionsOf DEF SameFault
  <2> QED
    BY <1>7, <2>1, SameIsEvidence
<1>13. CASE Peer!IsSession(state) /\ state # "Up" /\ state # "unknown"
  <2>1. SameFault(scope, row, <<state>>)
    BY <1>2, <1>9, <1>10, <1>11, <1>13, BfdConditionsOf DEF SameFault
  <2> HIDE DEF state
  <2> QED
    BY <1>7, <2>1, SameIsEvidence
<1> QED
  BY <1>9, <1>12, <1>13

\* A check that ran has read the box.
LEMMA ReadNow ==
  ASSUME Judging, NEW c, Collectors(area) = {c}, NEW check, c \in check.requires,
         NEW cp, NEW findings, NEW row, Behind(check, cp, findings, row)
  PROVE  \A f \in DOMAIN new \ {"pings"} : subject.data[f] = new[f]
  BY CollectedNow, AloneNow DEF Behind

\* Nothing below Up is as it was but what has the same name.
LEMMA UpOrSameUnchanged ==
  ASSUME NEW now, NEW was, NEW captures, NEW c, Core!UpOrSame(now, was, captures, c) = "unchanged"
  PROVE  now # "Up" /\ now # "unknown" /\ was = now /\ BaselineMeasured(captures, c)
  BY DEF Core!UpOrSame, Core!UnchangedOr, Core!UNKNOWN, Core!BaselineMeasured, BaselineMeasured

LEMMA IsisUnchanged ==
  ASSUME Judging, area = "isis", NEW scope \in blocks, NEW row \in verdict[scope], row.outcome = "unchanged"
  PROVE  Evidence(scope, row)
<1> DEFINE check == Core!IsisAdjacencyState
           now == new.adj
           was == BaselineData.adj
           findings == Core!IsisAdjacencyRows(subject.data.adj, was, Captures)
<1>1. Behind(check, Counterpart(scope), findings, row)
  BY BlockJudged, DeactivationNotUnchanged, UnchangedIsFinding DEF Judged, Deactivations, Behind
<1>2. Collectors(area) = {"isis_adjacency"} /\ "adj" \in DOMAIN old \cap DOMAIN new
  <2>1. DOMAIN Empty["isis"] = {"isis_adjacency"} /\ DOMAIN Empty["isis"]["isis_adjacency"] = {"adj"}
    BY DEF Empty
  <2> QED
    BY <2>1, BothShown DEF Collectors
<1>3. subject.data.adj = now
  BY <1>1, <1>2, ReadNow DEF Core!IsisAdjacencyState, Core!Core, Core!CheckClass
<1>4. /\ row.check = "isis_adjacency_state"
      /\ \/ /\ ~now.there /\ ~was.there /\ row.about = <<"state">>
            /\ BaselineMeasured(Captures, "isis_adjacency")
         \/ /\ now.there /\ row.about = <<"state">>
            /\ Core!UpOrSame(now.state, was.state, Captures, "isis_adjacency") = "unchanged"
         \/ /\ now.there /\ row.about = <<"address">>
            /\ Core!IsisAddress(now, was, Captures) = "unchanged"
  BY <1>1, <1>3
     DEF Behind, Reports, Core!IsisAdjacencyRows, Core!Row, Core!IsisNeighbor, Core!UnchangedOr,
         Core!BaselineMeasured, BaselineMeasured
<1>5. /\ BaselineMeasured(Captures, "isis_adjacency")
      /\ Core!IsisAddress(now, was, Captures) = "unchanged" => was.there /\ now.ip = was.ip /\ now.ip = Core!Nothing
  BY <1>4, UpOrSameUnchanged DEF Core!IsisAddress, Core!UnchangedOr, Core!BaselineMeasured, BaselineMeasured
<1>6. baseline # NoCapture /\ was = old.adj
  BY <1>2, <1>5, AloneBefore
<1>7. Shown("isis", old) /\ Shown("isis", new)
  BY BothShown
<1> DEFINE conditions(adj) ==
        IF adj.there
        THEN NotIn("Up", "isis_adjacency_state", <<"state">>, adj.state)
             \cup If(adj.ip = Core!Nothing, {Fault("isis_adjacency_state", <<"address">>, <<"none">>)})
        ELSE {Fault("isis_adjacency_state", <<"state">>, <<"absent">>)}
<1>8. After(scope) = conditions(now) /\ Before(scope) = conditions(old.adj)
  BY DEF After, Before, Conditions
<1> HIDE DEF now
<1>9. CASE ~now.there /\ ~was.there /\ row.about = <<"state">>
  <2>1. /\ Fault("isis_adjacency_state", <<"state">>, <<"absent">>) \in After(scope)
        /\ Fault("isis_adjacency_state", <<"state">>, <<"absent">>) \in Before(scope)
    BY <1>6, <1>8, <1>9
  <2> QED
    BY <1>4, <1>6, <1>9, <2>1, FaultOfBoth, KnownParts
<1>10. CASE /\ now.there /\ row.about = <<"state">>
            /\ Core!UpOrSame(now.state, was.state, Captures, "isis_adjacency") = "unchanged"
  <2>1. now.state \notin {"Up", "unknown"} /\ was.state = now.state
    BY <1>10, UpOrSameUnchanged
  <2>2. was.there
    BY <1>6, <1>7, <1>10, <2>1 DEF Shown, Core!NoAdjacency, now
  <2>3. /\ Fault("isis_adjacency_state", <<"state">>, <<now.state>>) \in After(scope)
        /\ Fault("isis_adjacency_state", <<"state">>, <<now.state>>) \in Before(scope)
    BY <1>6, <1>8, <1>10, <2>1, <2>2 DEF NotIn, If
  <2>4. "unknown" \notin {<<now.state>>[i] : i \in DOMAIN <<now.state>>}
    BY <2>1, KnownParts
  <2> QED
    BY <1>4, <1>6, <1>10, <2>3, <2>4, FaultOfBoth
<1>11. CASE /\ now.there /\ row.about = <<"address">>
            /\ Core!IsisAddress(now, was, Captures) = "unchanged"
  <2>1. /\ Fault("isis_adjacency_state", <<"address">>, <<"none">>) \in After(scope)
        /\ Fault("isis_adjacency_state", <<"address">>, <<"none">>) \in Before(scope)
    BY <1>5, <1>6, <1>8, <1>11 DEF If
  <2> QED
    BY <1>4, <1>6, <1>11, <2>1, FaultOfBoth, KnownParts
<1> QED
  BY <1>4, <1>9, <1>10, <1>11 DEF now

LEMMA NeighborUnchanged ==
  ASSUME NEW check, NEW c, NEW now, NEW was,
         NEW finding \in Core!NeighborRows(check, c, now, was, Captures), finding.outcome = "unchanged",
         IF was.there THEN was.uptime \in {Core!Nothing, "some", "zero"} ELSE was = Core!NoNeighbor,
         IF now.there THEN now.uptime \in {Core!Nothing, "some", "zero"} ELSE now = Core!NoNeighbor
  PROVE  /\ BaselineMeasured(Captures, c)
         /\ finding.check = check
         /\ \E what \in {<<"down">>, <<"none">>} :
               /\ Fault(check, finding.about, what) \in NeighborConditions(check, now)
               /\ Fault(check, finding.about, what) \in NeighborConditions(check, was)
<1>1. CASE finding = Core!Row(check, <<"status">>, Core!NeighborStatus(c, now, was, Captures))
  <2>1. finding.check = check /\ finding.about = <<"status">>
        /\ Core!NeighborStatus(c, now, was, Captures) = "unchanged"
    BY <1>1 DEF Core!Row
  <2>2. /\ BaselineMeasured(Captures, c)
        /\ (~now.there \/ now.uptime = "zero") /\ (~was.there \/ was.uptime = "zero")
    BY <2>1 DEF Core!NeighborStatus, Core!NeighborState, Core!UnchangedOr, Core!BaselineMeasured, BaselineMeasured,
                Core!Nothing
  <2> QED
    BY <2>1, <2>2 DEF NeighborConditions, If
<1>2. CASE finding = Core!Row(check, <<"address">>, Core!NeighborAddress(c, now, was, Captures)) /\ now.there
  <2>1. finding.check = check /\ finding.about = <<"address">>
        /\ Core!NeighborAddress(c, now, was, Captures) = "unchanged"
    BY <1>2 DEF Core!Row
  <2>2. BaselineMeasured(Captures, c) /\ was.there /\ was.address = Core!Nothing /\ now.address = Core!Nothing
    BY <2>1 DEF Core!NeighborAddress, Core!UnchangedOr, Core!BaselineMeasured, BaselineMeasured
  <2> QED
    BY <1>2, <2>1, <2>2 DEF NeighborConditions, If
<1> QED
  BY <1>1, <1>2 DEF Core!NeighborRows

\* LDP and PIM: the same rows of different collectors.
LEMMA NeighborsUnchanged ==
  ASSUME Judging, area \in {"ldp", "pim"}, NEW scope \in blocks, NEW row \in verdict[scope], row.outcome = "unchanged"
  PROVE  Evidence(scope, row)
<1> DEFINE c == IF area = "ldp" THEN "ldp_neighbor" ELSE "pim_neighbor"
           id == IF area = "ldp" THEN "ldp_neighbor_state" ELSE "pim_neighbor_state"
           check == IF area = "ldp" THEN Core!LdpNeighborState ELSE Core!PimNeighborState
           findings == Core!NeighborRows(id, c, subject.data.peer, BaselineData.peer, Captures)
<1>1. (area = "pim" => scope.pim) /\ Behind(check, Counterpart(scope), findings, row)
  <2>1. CASE area = "ldp"
    BY <2>1, BlockJudged, DeactivationNotUnchanged, UnchangedIsFinding
       DEF Judged, Deactivations, Behind, Core!LdpNeighborRows
  <2>2. CASE area = "pim"
    <3>1. Counterpart(scope).pim = scope.pim
      BY BlockJudged DEF Scopes
    <3>2. Behind(check, Counterpart(scope),
                 Core!PimNeighborRows(scope.pim, subject.data.peer, BaselineData.peer, Captures), row)
      BY <2>2, <3>1, BlockJudged, DeactivationNotUnchanged, UnchangedIsFinding DEF Judged, Deactivations
    <3> QED
      BY <2>2, <3>2 DEF Behind, Core!PimNeighborRows
  <2> QED
    BY <2>1, <2>2
<1>2. Collectors(area) = {c} /\ "peer" \in DOMAIN old \cap DOMAIN new
  <2>1. /\ DOMAIN Empty["ldp"] = {"ldp_neighbor"} /\ DOMAIN Empty["ldp"]["ldp_neighbor"] = {"peer"}
        /\ DOMAIN Empty["pim"] = {"pim_neighbor"} /\ DOMAIN Empty["pim"]["pim_neighbor"] = {"peer"}
    BY DEF Empty
  <2> QED
    BY <2>1, BothShown DEF Collectors
<1>3. subject.data.peer = new.peer
  <2>1. c \in check.requires
    BY DEF Core!LdpNeighborState, Core!PimNeighborState, Core!Core, Core!CheckClass
  <2> QED
    BY <1>1, <1>2, <2>1, ReadNow
<1>4. PICK finding \in findings : Reports(row, finding)
  BY <1>1 DEF Behind
<1>5. finding.outcome = "unchanged"
  BY <1>4 DEF Reports
<1>6. BaselineMeasured(Captures, c)
  <2> DEFINE now == subject.data.peer
             was == BaselineData.peer
  <2>1. CASE finding = Core!Row(id, <<"status">>, Core!NeighborStatus(c, now, was, Captures))
    BY <1>5, <2>1
       DEF Core!Row, Core!NeighborStatus, Core!UnchangedOr, Core!BaselineMeasured, BaselineMeasured
  <2>2. CASE finding = Core!Row(id, <<"address">>, Core!NeighborAddress(c, now, was, Captures))
    BY <1>5, <2>2
       DEF Core!Row, Core!NeighborAddress, Core!UnchangedOr, Core!BaselineMeasured, BaselineMeasured
  <2> QED
    BY <2>1, <2>2 DEF Core!NeighborRows
<1>7. baseline # NoCapture /\ BaselineData.peer = old.peer
  BY <1>2, <1>6, AloneBefore
<1>8. /\ After(scope) = NeighborConditions(id, new.peer)
      /\ Before(scope) = NeighborConditions(id, old.peer)
  BY <1>1 DEF After, Before, Conditions, If
<1>9. /\ IF new.peer.there THEN new.peer.uptime \in {Core!Nothing, "some", "zero"} ELSE new.peer = Core!NoNeighbor
      /\ IF old.peer.there THEN old.peer.uptime \in {Core!Nothing, "some", "zero"} ELSE old.peer = Core!NoNeighbor
  BY BothShown DEF Shown
<1>10. PICK what \in {<<"down">>, <<"none">>} :
         /\ finding.check = id
         /\ Fault(id, finding.about, what) \in NeighborConditions(id, new.peer)
         /\ Fault(id, finding.about, what) \in NeighborConditions(id, old.peer)
  <2> HIDE DEF id, c
  <2> QED
    BY <1>3, <1>5, <1>7, <1>9, NeighborUnchanged
<1>11. row.check = id /\ row.about = finding.about
  BY <1>4, <1>10 DEF Reports
<1>12. "unknown" \notin {what[i] : i \in DOMAIN what}
  BY KnownParts
<1> QED
  BY <1>7, <1>8, <1>10, <1>11, <1>12, FaultOfBoth

\* IS-IS on a port and the overload are not compared with a baseline.
LEMMA StatesNotUnchanged ==
  ASSUME Judging, area \in {"isisport", "overload"}, NEW scope \in blocks, NEW row \in verdict[scope]
  PROVE  row.outcome # "unchanged"
<1> SUFFICES ASSUME row.outcome = "unchanged" PROVE FALSE
  OBVIOUS
<1>1. CASE area = "isisport"
  <2>1. Behind(Core!IsisInterfaceInfo, Counterpart(scope),
               Core!IsisInterfaceRows(subject.data.port, Counterpart(scope).subtype), row)
    BY <1>1, BlockJudged, DeactivationNotUnchanged, UnchangedIsFinding DEF Judged, Deactivations
  <2>2. \A r \in Core!IsisInterfaceRows(subject.data.port, Counterpart(scope).subtype) : r.outcome \in {"ok", "broken"}
    <3> DEFINE port == subject.data.port
               passive == port.passive <=> Counterpart(scope).subtype = "loopback"
               finding(about, ok) == Core!Row("isis_interface_info", <<about>>, IF ok THEN "ok" ELSE "broken")
    <3>1. \A about, ok : finding(about, ok).outcome \in {"ok", "broken"}
      BY DEF Core!Row
    <3> HIDE DEF finding, passive
    <3>2. Core!IsisInterfaceRows(port, Counterpart(scope).subtype) \subseteq
              {finding("interface", FALSE), finding("level 2", 2 \in port.levels),
               finding("level 1", FALSE), finding("passive", passive)}
      BY DEF Core!IsisInterfaceRows, finding, passive
    <3> QED
      BY <3>1, <3>2
  <2> QED
    BY <2>1, <2>2 DEF Behind, Reports
<1>2. CASE area = "overload"
  <2>1. Behind(Core!IsisOverview, Counterpart(scope), Core!IsisOverviewRows(subject.data.state), row)
    BY <1>2, BlockJudged, DeactivationNotUnchanged, UnchangedIsFinding DEF Judged, Deactivations
  <2> QED
    BY <2>1 DEF Behind, Reports, Core!IsisOverviewRows, Core!Row
<1> QED
  BY <1>1, <1>2

LEMMA MplsUnchanged ==
  ASSUME Judging, area = "mpls", NEW scope \in blocks, NEW row \in verdict[scope], row.outcome = "unchanged"
  PROVE  Evidence(scope, row)
<1> DEFINE now == new.state
           was == BaselineData.state
           down(state) == IF state \in {"Dn", "Dnn"} THEN "down" ELSE state
<1>1. Behind(Core!MplsInterfaceState, Counterpart(scope),
             Core!MplsInterfaceRows(subject.data.state, was, Captures), row)
  BY BlockJudged, DeactivationNotUnchanged, UnchangedIsFinding DEF Judged, Deactivations, Behind
<1>2. Collectors(area) = {"mpls_interface"} /\ "state" \in DOMAIN old \cap DOMAIN new
  <2>1. DOMAIN Empty["mpls"] = {"mpls_interface"} /\ DOMAIN Empty["mpls"]["mpls_interface"] = {"state"}
    BY DEF Empty
  <2> QED
    BY <2>1, BothShown DEF Collectors
<1>3. subject.data.state = now
  BY <1>1, <1>2, ReadNow DEF Core!MplsInterfaceState, Core!Core, Core!CheckClass
<1>4. /\ row.check = "mpls_interface_state" /\ row.about = <<"status">>
      /\ Core!MplsOutcome(now, was, Captures) = "unchanged"
  BY <1>1, <1>3 DEF Behind, Reports, Core!MplsInterfaceRows, Core!Row
<1>5. /\ BaselineMeasured(Captures, "mpls_interface")
      /\ \/ now = Core!Nothing /\ was = Core!Nothing
         \/ /\ now \notin {Core!Nothing, "Up", "unknown"}
            /\ was \notin {Core!Nothing, "Up", "unknown"}
  BY <1>4 DEF Core!MplsOutcome, Core!UnchangedOr, Core!BaselineMeasured, BaselineMeasured, Core!UNKNOWN
<1>6. baseline # NoCapture /\ was = old.state
  BY <1>2, <1>5, AloneBefore
<1>7. {now, was} \subseteq {Core!Nothing, "Up", "Dn", "Dnn", "unknown"}
  BY <1>6, BothShown DEF Shown
<1>8. /\ After(scope) = NotIn("Up", "mpls_interface_state", <<"status">>, down(now))
      /\ Before(scope) = NotIn("Up", "mpls_interface_state", <<"status">>, down(old.state))
  BY DEF After, Before, Conditions
<1>9. down(now) \notin {"Up", "unknown"} /\ down(was) = down(now)
  BY <1>5, <1>7 DEF Core!Nothing
<1> HIDE DEF now, was, down
<1>10. /\ Fault("mpls_interface_state", <<"status">>, <<down(now)>>) \in After(scope)
       /\ Fault("mpls_interface_state", <<"status">>, <<down(now)>>) \in Before(scope)
  BY <1>6, <1>8, <1>9 DEF NotIn, If
<1>11. "unknown" \notin {<<down(now)>>[i] : i \in DOMAIN <<down(now)>>}
  BY <1>9, KnownParts
<1> QED
  BY <1>4, <1>6, <1>10, <1>11, FaultOfBoth

LEMMA TransitUnchanged ==
  ASSUME Judging, area = "transit", NEW scope \in blocks, NEW row \in verdict[scope], row.outcome = "unchanged"
  PROVE  Evidence(scope, row)
<1> DEFINE now == new.peers
           was == BaselineData.peers
           running(peers) == {p \in DOMAIN peers : peers[p] # Core!Nothing}
           conditions(peers) ==
              IF running(peers) = {} THEN {Fault("bfd_transit_state", <<"any">>, <<"absent">>)}
              ELSE {Fault("bfd_transit_state", <<p>>, <<p, peers[p]>>) : p \in {q \in running(peers) : peers[q] # "Up"}}
<1>1. Behind(Core!BfdTransitState, Counterpart(scope),
             Core!BfdTransitRows(subject.data.peers, was, Captures), row)
  BY BlockJudged, DeactivationNotUnchanged, UnchangedIsFinding DEF Judged, Deactivations, Behind
<1>2. Collectors(area) = {"bfd"} /\ "peers" \in DOMAIN old \cap DOMAIN new
  <2>1. DOMAIN Empty["transit"] = {"bfd"} /\ DOMAIN Empty["transit"]["bfd"] = {"peers"}
    BY DEF Empty
  <2> QED
    BY <2>1, BothShown DEF Collectors
<1>3. subject.data.peers = now
  BY <1>1, <1>2, ReadNow DEF Core!BfdTransitState, Core!Core, Core!CheckClass
<1>4. /\ row.check = "bfd_transit_state"
      /\ BaselineMeasured(Captures, "bfd")
      /\ \/ running(now) = {} /\ running(was) = {} /\ row.about = <<"any">>
         \/ \E p \in running(now) : /\ row.about = <<p>>
                                    /\ now[p] \notin {"Up", "unknown"} /\ was[p] = now[p]
  <2>1. CASE running(now) = {}
    BY <1>1, <1>3, <2>1
       DEF Behind, Reports, Core!BfdTransitRows, Core!Row, Core!UnchangedOr, Core!BaselineMeasured, BaselineMeasured
  <2>2. CASE running(now) # {}
    <3>1. PICK p \in running(now) :
              Reports(row, Core!Row("bfd_transit_state", <<p>>, Core!UpOrSame(now[p], was[p], Captures, "bfd")))
      BY <1>1, <1>3, <2>2 DEF Behind, Core!BfdTransitRows
    <3>2. /\ row.check = "bfd_transit_state" /\ row.about = <<p>>
          /\ Core!UpOrSame(now[p], was[p], Captures, "bfd") = "unchanged"
      BY <3>1 DEF Reports, Core!Row
    <3> QED
      BY <3>2, UpOrSameUnchanged
  <2> QED
    BY <2>1, <2>2
<1>5. baseline # NoCapture /\ was = old.peers
  BY <1>2, <1>4, AloneBefore
<1>6. DOMAIN now = {"p1", "p2"} /\ DOMAIN was = {"p1", "p2"}
  BY <1>5, BothShown DEF Shown
<1>7. After(scope) = conditions(now) /\ Before(scope) = conditions(old.peers)
  BY DEF After, Before, Conditions
<1> HIDE DEF now
<1>8. CASE running(now) = {} /\ running(was) = {} /\ row.about = <<"any">>
  <2>1. /\ Fault("bfd_transit_state", <<"any">>, <<"absent">>) \in After(scope)
        /\ Fault("bfd_transit_state", <<"any">>, <<"absent">>) \in Before(scope)
    BY <1>5, <1>7, <1>8
  <2> QED
    BY <1>4, <1>5, <1>8, <2>1, FaultOfBoth, KnownParts
<1>9. ASSUME NEW p \in running(now), row.about = <<p>>, now[p] \notin {"Up", "unknown"}, was[p] = now[p]
      PROVE  Evidence(scope, row)
  <2>1. p \in running(was)
    BY <1>6, <1>9
  <2>2. /\ Fault("bfd_transit_state", <<p>>, <<p, now[p]>>) \in After(scope)
        /\ Fault("bfd_transit_state", <<p>>, <<p, now[p]>>) \in Before(scope)
    <3> HIDE DEF running
    <3> QED
      BY <1>5, <1>7, <1>9, <2>1
  <2>3. "unknown" \notin {<<p, now[p]>>[i] : i \in DOMAIN <<p, now[p]>>}
    BY <1>6, <1>9, KnownParts
  <2> QED
    BY <1>4, <1>5, <1>9, <2>2, <2>3, FaultOfBoth
<1> QED
  BY <1>4, <1>8, <1>9

\* The other rows of a port are not compared with a faulty baseline.
LEMMA OnlyStatesUnchanged ==
  ASSUME NEW scope, NEW now, NEW was
  PROVE  \A r \in Port!InterfaceErrorsRows(scope, now, was) \cup Port!InterfaceTrafficRows(scope, now, was)
                  \cup Port!TrafficCeasedRows(scope, now, was) : r.outcome # "unchanged"
<1>1. \A r \in Port!InterfaceErrorsRows(scope, now, was) : r.outcome # "unchanged"
  BY DEF Port!InterfaceErrorsRows, Port!ErrorsOutcome, Port!Row
<1>2. \A r \in Port!InterfaceTrafficRows(scope, now, was) : r.outcome # "unchanged"
  BY DEF Port!InterfaceTrafficRows, Port!TrafficOutcome, Port!Row
<1>3. \A r \in Port!TrafficCeasedRows(scope, now, was) : r.outcome # "unchanged"
  BY DEF Port!TrafficCeasedRows, Port!CeasedOutcome, Port!Row
<1> QED
  BY <1>1, <1>2, <1>3

LEMMA PortsUnchanged ==
  ASSUME Judging, area = "ports", NEW scope \in blocks, NEW row \in verdict[scope], row.outcome = "unchanged"
  PROVE  Evidence(scope, row)
<1> DEFINE cp == Counterpart(scope)
           now == subject.data
           was == BaselineData
<1>1. Behind(Port!InterfaceState, cp, Port!InterfaceStateRows(cp, now, was, Captures), row)
  <2>1. \/ row \in RunCheck(Port!InterfaceState, AppliesTo(Port!InterfaceState, cp), cp, Captures, profile,
                            Port!InterfaceStateRows(cp, now, was, Captures))
        \/ \E check, applies, findings :
              /\ row \in RunCheck(check, applies, cp, Captures, profile, findings)
              /\ findings \subseteq Port!InterfaceErrorsRows(cp, now, was) \cup Port!InterfaceTrafficRows(cp, now, was)
                                    \cup Port!TrafficCeasedRows(cp, now, was)
    BY BlockJudged, DeactivationNotUnchanged DEF Judged, Deactivations
  <2> QED
    BY <2>1, UnchangedIsFinding, OnlyStatesUnchanged DEF Behind, Reports
<1>2. Collectors(area) = {"interfaces"} /\ Port!Interfaces \subseteq DOMAIN old \cap DOMAIN new
      /\ "pings" \notin Port!Interfaces
  <2>1. DOMAIN Empty["ports"] = {"interfaces"} /\ DOMAIN Empty["ports"]["interfaces"] = {"port", "unit", "irb"}
    BY DEF Empty
  <2> QED
    BY <2>1, BothShown DEF Collectors, Port!Interfaces
<1>3. \A n \in Port!Interfaces : now[n] = new[n]
  <2>1. "interfaces" \in Port!InterfaceState.requires
    BY DEF Port!InterfaceState, Port!Port, Port!CheckClass
  <2> QED
    BY <1>1, <1>2, <2>1, ReadNow
<1>4. PICK n \in Port!Listed(now), f \in {"admin", "oper"} :
         Reports(row, Port!Row("interface_state", <<n, f>>,
                               Port!StateOutcome(now[n][f], Port!Was(was, n, f), Captures)))
  <2>1. Port!ScopeInterfaces(cp, now) \subseteq Port!Listed(now)
    BY DEF Port!ScopeInterfaces
  <2>2. Port!Listed(now) # {}
    BY <1>1 DEF Behind, Reports, Port!InterfaceStateRows, Port!Row
  <2> HIDE DEF now, was, cp
  <2> QED
    BY <1>1, <2>1, <2>2 DEF Behind, Port!InterfaceStateRows
<1> DEFINE state == now[n][f]
<1>5. /\ row.check = "interface_state" /\ row.about = <<n, f>>
      /\ state \notin {"up", "unknown"} /\ Port!Was(was, n, f) = state
      /\ BaselineMeasured(Captures, "interfaces")
  BY <1>4 DEF Reports, Port!Row, Port!StateOutcome, Port!UnchangedOr, Port!UNKNOWN, Port!BaselineMeasured, BaselineMeasured
<1>6. baseline # NoCapture /\ \A m \in Port!Interfaces : was[m] = old[m]
  BY <1>2, <1>5, AloneBefore
<1>7. n \in Port!Interfaces /\ n \in Port!Listed(new) /\ new[n][f] = state
  BY <1>3 DEF Port!Listed
<1>8. n \in Port!Listed(old) /\ old[n][f] = state
  <2>1. state # "none"
    BY <1>7, BothShown DEF Shown
  <2> QED
    BY <1>5, <1>6, <1>7, <2>1 DEF Port!Was, Port!Listed
<1>9. After(scope) = PortConditions(new) /\ Before(scope) = PortConditions(old)
  BY DEF After, Before, Conditions
<1>10. ASSUME NEW view, n \in Port!Listed(view), view[n][f] = state
       PROVE  Fault("interface_state", <<n, f>>, <<n, f, state>>) \in PortConditions(view)
  <2> DEFINE is(m, g) == If(view[m][g] # "up", {Fault("interface_state", <<m, g>>, <<m, g, view[m][g]>>)})
             of(m) == is(m, "admin") \cup is(m, "oper")
                      \cup If(view[m].errors # 0, {Note("interface_errors", <<m>>, <<"errors">>)})
                      \cup If(view[m].pps = 0 /\ m # "irb", {Note("interface_traffic", <<m>>, <<"silent">>)})
  <2>1. state # "up"
    BY <1>5
  <2> HIDE DEF state
  <2>2. Fault("interface_state", <<n, f>>, <<n, f, state>>) \in is(n, f)
    BY <1>10, <2>1 DEF If
  <2>3. PortConditions(view) = UNION {of(m) : m \in Port!Listed(view)}
    BY DEF PortConditions
  <2> HIDE DEF is
  <2>4. Fault("interface_state", <<n, f>>, <<n, f, state>>) \in of(n)
    BY <2>2
  <2> HIDE DEF of
  <2> QED
    BY <1>10, <2>3, <2>4
<1>11. "unknown" \notin {<<n, f, state>>[i] : i \in DOMAIN <<n, f, state>>}
  <2>1. n # "unknown" /\ f # "unknown" /\ state # "unknown"
    BY <1>5, <1>7 DEF Port!Interfaces
  <2> HIDE DEF state
  <2> QED
    BY <2>1, KnownParts
<1> HIDE DEF state
<1>12. /\ Fault("interface_state", <<n, f>>, <<n, f, state>>) \in After(scope)
       /\ Fault("interface_state", <<n, f>>, <<n, f, state>>) \in Before(scope)
  BY <1>7, <1>8, <1>9, <1>10
<1> QED
  BY <1>5, <1>6, <1>11, <1>12, FaultOfBoth

LEMMA OpticsUnchanged ==
  ASSUME Judging, area = "optics", NEW scope \in blocks, NEW row \in verdict[scope], row.outcome = "unchanged"
  PROVE  Evidence(scope, row)
<1> DEFINE cp == Counterpart(scope)
           now == new.optics
           was == BaselineData.optics
<1>1. \/ Behind(Port!OpticalLevels, cp, Port!OpticalLevelsRows(subject.data.optics, was, Captures), row)
      \/ Behind(Port!OpticalAlarms, cp, Port!OpticalAlarmsRows(subject.data.optics, was, Captures), row)
  BY BlockJudged, DeactivationNotUnchanged, UnchangedIsFinding DEF Judged, Deactivations
<1>2. Collectors(area) = {"optics"} /\ "optics" \in DOMAIN old \cap DOMAIN new
  <2>1. DOMAIN Empty["optics"] = {"optics"} /\ DOMAIN Empty["optics"]["optics"] = {"optics"}
    BY DEF Empty
  <2> QED
    BY <2>1, BothShown DEF Collectors
<1>3. subject.data.optics = now
  <2>1. "optics" \in Port!OpticalLevels.requires /\ "optics" \in Port!OpticalAlarms.requires
    BY DEF Port!OpticalLevels, Port!OpticalAlarms, Port!Port, Port!CheckClass
  <2> QED
    BY <1>1, <1>2, <2>1, ReadNow
<1>4. After(scope) = OpticsConditions(now) /\ Before(scope) = OpticsConditions(old.optics)
  BY DEF After, Before, Conditions
<1>5. CASE Behind(Port!OpticalLevels, cp, Port!OpticalLevelsRows(subject.data.optics, was, Captures), row)
  <2>1. /\ row.check = "interface_optics_levels" /\ row.about = <<"port">>
        /\ Port!There(now) /\ Port!There(was) /\ Port!LevelOutcome(now, was, Captures) = "unchanged"
    BY <1>3, <1>5 DEF Behind, Reports, Port!OpticalLevelsRows, Port!Row
  <2>2. /\ Port!DarkSides(now) # {} /\ Port!DarkSides(was) = Port!DarkSides(now)
        /\ BaselineMeasured(Captures, "optics")
    BY <2>1 DEF Port!LevelOutcome, Port!UnchangedOr, Port!BaselineMeasured, BaselineMeasured
  <2>3. baseline # NoCapture /\ was = old.optics
    BY <1>2, <2>2, AloneBefore
  <2>4. PICK side \in Port!DarkSides(now) : TRUE
    BY <2>2
  <2>5. side # "unknown"
    BY DEF Port!DarkSides, Port!Sides
  <2>6. ASSUME NEW optics, Port!There(optics), Port!DarkSides(optics) = Port!DarkSides(now)
        PROVE  Fault("interface_optics_levels", <<"port">>, <<"dark", side>>) \in OpticsConditions(optics)
    BY <2>4, <2>6 DEF OpticsConditions, If
  <2>7. /\ Fault("interface_optics_levels", <<"port">>, <<"dark", side>>) \in After(scope)
        /\ Fault("interface_optics_levels", <<"port">>, <<"dark", side>>) \in Before(scope)
    BY <1>4, <2>1, <2>2, <2>3, <2>6
  <2>8. "unknown" \notin {<<"dark", side>>[i] : i \in DOMAIN <<"dark", side>>}
    BY <2>5, KnownParts
  <2> QED
    BY <2>1, <2>3, <2>7, <2>8, FaultOfBoth
<1>6. CASE Behind(Port!OpticalAlarms, cp, Port!OpticalAlarmsRows(subject.data.optics, was, Captures), row)
  <2>1. PICK tag \in now.alarms :
           /\ Port!There(now) /\ row.check = "interface_optics_alarms" /\ row.about = <<tag>>
           /\ Port!There(was) /\ tag \in was.alarms /\ BaselineMeasured(Captures, "optics")
    <3>1. Port!There(now)
      BY <1>3, <1>6 DEF Behind, Reports, Port!OpticalAlarmsRows, Port!Row
    <3> QED
      BY <1>3, <1>6, <3>1
         DEF Behind, Reports, Port!OpticalAlarmsRows, Port!Row, Port!UnchangedOr, Port!BaselineMeasured, BaselineMeasured
  <2>2. baseline # NoCapture /\ was = old.optics
    BY <1>2, <2>1, AloneBefore
  <2>3. tag # "unknown"
    BY <2>1, BothShown DEF Shown
  <2>4. ASSUME NEW optics, Port!There(optics), tag \in optics.alarms
        PROVE  Fault("interface_optics_alarms", <<tag>>, <<tag>>) \in OpticsConditions(optics)
    BY <2>4 DEF OpticsConditions, If
  <2>5. /\ Fault("interface_optics_alarms", <<tag>>, <<tag>>) \in After(scope)
        /\ Fault("interface_optics_alarms", <<tag>>, <<tag>>) \in Before(scope)
    BY <1>4, <2>1, <2>2, <2>4
  <2>6. "unknown" \notin {<<tag>>[i] : i \in DOMAIN <<tag>>}
    BY <2>3, KnownParts
  <2> QED
    BY <2>1, <2>2, <2>5, <2>6, FaultOfBoth
<1> QED
  BY <1>1, <1>5, <1>6

\* What a check is given of the baseline is what the old box shows or what a collector
\* that failed leaves.
LEMMA SeenOrEmpty ==
  ASSUME Judging, NEW f \in DOMAIN old, f # "pings"
  PROVE  \/ BaselineData[f] = old[f]
         \/ \E c \in DOMAIN Empty[area] : f \in DOMAIN Empty[area][c] /\ BaselineData[f] = Empty[area][c][f]
<1>1. PICK lost : /\ lost \subseteq DOMAIN Empty[area]
                  /\ f \in DOMAIN Seen(area, old, lost) /\ BaselineData[f] = Seen(area, old, lost)[f]
  <2>1. \A lost : f \in DOMAIN Seen(area, old, lost)
    BY DEF Seen
  <2>2. CASE baseline = NoCapture
    BY <2>1, <2>2 DEF BaselineData
  <2>3. CASE baseline # NoCapture
    <3>1. BaselineData = Captured(area, old, baseline.lost, {}) /\ baseline.lost \subseteq DOMAIN Empty[area]
      BY <2>3, LostAreCollectors DEF Judging, JudgeInv, BaselineIsOfOld, BaselineData, Collectors
    <3> QED
      BY <2>1, <3>1 DEF Captured
  <2> QED
    BY <2>2, <2>3
<1> QED
  BY <1>1 DEF Seen

\* Only a route that is in neither table is unchanged.
LEMMA PresenceUnchanged ==
  ASSUME NEW view, NEW was, Route!Presence(view, was, Captures) = "unchanged",
         Route!Entry(view).active \in {"yes", "no", "unread"}, Route!Entry(was).active \in {"yes", "no", "unread"}
  PROVE  ~Route!Entry(view).there /\ ~Route!Entry(was).there /\ BaselineMeasured(Captures, "routes")
<1>1. \A off, before : Route!DeactivationOutcome(off, before) # "unchanged"
  BY DEF Route!DeactivationOutcome
<1>2. CASE Route!Entry(view).there
  BY <1>2 DEF Route!Presence
<1>3. CASE ~Route!Entry(view).there
  BY <1>1, <1>3 DEF Route!Presence, Route!UnchangedOr, Route!BaselineMeasured, BaselineMeasured
<1> QED
  BY <1>2, <1>3

\* A next hop that is off makes no row unchanged.
LEMMA StaticOutcomeUnchanged ==
  ASSUME NEW view, NEW was, Route!StaticOutcome(view, was, Captures) = "unchanged"
  PROVE  Route!Presence(view, was, Captures) = "unchanged"
<1>1. \A before : Route!DeactivationOutcome(TRUE, before) # "unchanged"
  BY DEF Route!DeactivationOutcome
<1>2. \A outcome : Route!AnnotateInactiveHops(outcome, view, was) \in {"broken", "degraded", outcome}
  BY DEF Route!AnnotateInactiveHops
<1> QED
  BY <1>1, <1>2 DEF Route!StaticOutcome

LEMMA RoutesUnchanged ==
  ASSUME Judging, area \in {"static", "aggregate"}, NEW scope \in blocks, NEW row \in verdict[scope],
         row.outcome = "unchanged"
  PROVE  Evidence(scope, row)
<1> DEFINE id == IF area = "static" THEN "static_route_status" ELSE "aggregate_route_status"
           now == subject.data
           was == BaselineData
<1>1. /\ row.check = id /\ row.about = <<"route">>
      /\ Route!Presence(now, was, Captures) = "unchanged"
      /\ "routes" \notin subject.lost
  <2>1. CASE area = "static"
    <3>1. Behind(Route!StaticRouteStatus, Counterpart(scope), Route!StaticRouteRows(now, was, Captures), row)
      BY <2>1, BlockJudged, DeactivationNotUnchanged, UnchangedIsFinding DEF Judged, Deactivations
    <3>2. row.check = id /\ row.about = <<"route">> /\ Route!StaticOutcome(now, was, Captures) = "unchanged"
      BY <2>1, <3>1 DEF Behind, Reports, Route!StaticRouteRows, Route!Row
    <3>3. "routes" \notin subject.lost
      BY <3>1, CollectedNow DEF Behind, Route!StaticRouteStatus, Route!RouteCheck, Route!CheckClass
    <3> QED
      BY <3>2, <3>3, StaticOutcomeUnchanged
  <2>2. CASE area = "aggregate"
    <3>1. Behind(Route!AggregateRouteStatus, Counterpart(scope), Route!AggregateRouteRows(now, was, Captures), row)
      BY <2>2, BlockJudged, DeactivationNotUnchanged, UnchangedIsFinding DEF Judged, Deactivations
    <3>2. row.check = id /\ row.about = <<"route">> /\ Route!Presence(now, was, Captures) = "unchanged"
      BY <2>2, <3>1 DEF Behind, Reports, Route!AggregateRouteRows, Route!Row
    <3>3. "routes" \notin subject.lost
      BY <3>1, CollectedNow DEF Behind, Route!AggregateRouteStatus, Route!RouteCheck, Route!CheckClass
    <3> QED
      BY <3>2, <3>3
  <2> QED
    BY <2>1, <2>2
<1>2. Collectors(area) = {"routes"} /\ {"conf", "table"} \subseteq DOMAIN old \cap DOMAIN new
  <2>1. /\ DOMAIN Empty["static"] = {"config", "routes"} /\ DOMAIN Empty["aggregate"] = {"config", "routes"}
        /\ "conf" \in DOMAIN Empty["static"]["config"] /\ "table" \in DOMAIN Empty["static"]["routes"]
        /\ "conf" \in DOMAIN Empty["aggregate"]["config"] /\ "table" \in DOMAIN Empty["aggregate"]["routes"]
    BY DEF Empty
  <2> QED
    BY <2>1, BothShown DEF Collectors
<1>3. Route!Entry(now) = Route!Entry(new)
  BY <1>1, <1>2, AloneNow DEF Route!Entry
<1>4. \/ baseline # NoCapture /\ BaselineMeasured(Captures, "routes") /\ Route!Entry(was) = Route!Entry(old)
      \/ ~BaselineMeasured(Captures, "routes")
  BY <1>2, AloneBefore DEF Route!Entry
<1>5. \A view \in {old, new} : Route!Entry(view).active \in {"yes", "no", "unread"}
  BY BothShown DEF Shown, Route!Entry, Route!NoEntry
<1>6. /\ baseline # NoCapture /\ ~Route!Entry(new).there /\ ~Route!Entry(old).there
  <2>1. was.table \in {old.table, Route!NoEntry}
    <3>1. \A c \in DOMAIN Empty[area] : "table" \in DOMAIN Empty[area][c] => Empty[area][c]["table"] = Route!NoEntry
      <4>1. CASE area = "static"
        <5>1. \A c \in DOMAIN Empty["static"] :
                "table" \in DOMAIN Empty["static"][c] => Empty["static"][c]["table"] = Route!NoEntry
          BY DEF Empty
        <5> QED
          BY <4>1, <5>1
      <4>2. CASE area = "aggregate"
        <5>1. \A c \in DOMAIN Empty["aggregate"] :
                "table" \in DOMAIN Empty["aggregate"][c] => Empty["aggregate"][c]["table"] = Route!NoEntry
          BY DEF Empty
        <5> QED
          BY <4>2, <5>1
      <4> QED
        BY <4>1, <4>2
    <3> QED
      BY <1>2, <3>1, SeenOrEmpty
  <2>2. Route!Entry(was).active \in {"yes", "no", "unread"}
    <3>1. old.table.active \in {"yes", "no", "unread"}
      BY BothShown DEF Shown
    <3>2. Route!NoEntry.active = "unread"
      BY DEF Route!NoEntry
    <3> QED
      BY <2>1, <3>1, <3>2 DEF Route!Entry
  <2> HIDE DEF now, was
  <2> QED
    BY <1>1, <1>3, <1>4, <1>5, <2>2, PresenceUnchanged
<1>7. After(scope) = RouteConditions(id, new) /\ Before(scope) = RouteConditions(id, old)
  BY DEF After, Before, Conditions
<1>8. ASSUME NEW view, ~Route!Entry(view).there
      PROVE  Condition(id, <<"route">>, <<"absent">>, view.conf # "none") \in RouteConditions(id, view)
  BY <1>8 DEF RouteConditions, If, Route!Entry, Route!NoEntry
<1> HIDE DEF id
<1> QED
  BY <1>1, <1>6, <1>7, <1>8, ConditionOfBoth, KnownParts

LEMMA TablesUnchanged ==
  ASSUME Judging, NEW id, NEW check, NEW c, area \in ReachAreas, Collectors(area) = {c}, c # "ping",
         c \in check.requires, {"nets", "entries"} \subseteq DOMAIN old \cap DOMAIN new,
         NEW scope \in blocks, NEW cp, NEW row, row.outcome = "unchanged",
         Behind(check, cp, Reach!TableRows(id, c, subject.data, BaselineData, Captures), row),
         After(scope) = ReachConditions(id, new), Before(scope) = ReachConditions(id, old)
  PROVE  Evidence(scope, row)
<1>1. subject.data.nets = new.nets /\ subject.data.entries = new.entries
  BY ReadNow
<1>2. BaselineMeasured(Captures, c) => baseline # NoCapture /\ BaselineData.entries = old.entries
  BY AloneBefore
<1>3. CASE new.entries = {}
  <2>1. /\ row.check = id /\ row.about = <<"table">>
        /\ BaselineMeasured(Captures, c) /\ BaselineData.entries = {}
    BY <1>1, <1>3
       DEF Behind, Reports, Reach!TableRows, Reach!Row, Reach!UnchangedOr, Reach!BaselineMeasured, BaselineMeasured
  <2>2. /\ Condition(id, <<"table">>, <<"empty">>, new.nets # {}) \in After(scope)
        /\ Condition(id, <<"table">>, <<"empty">>, old.nets # {}) \in Before(scope)
    BY <1>2, <1>3, <2>1 DEF ReachConditions, If
  <2> QED
    BY <1>2, <2>1, <2>2, ConditionOfBoth, KnownParts
<1>4. CASE new.entries # {}
  <2>1. PICK e \in new.entries :
           Reports(row, Reach!Row(id, <<e.ip>>, Reach!EntryOutcome(e, BaselineData.entries, Captures, c)))
    BY <1>1, <1>4 DEF Behind, Reach!TableRows
  <2>2. /\ row.check = id /\ row.about = <<e.ip>>
        /\ Reach!EntryOutcome(e, BaselineData.entries, Captures, c) = "unchanged"
    BY <2>1 DEF Reports, Reach!Row
  <2>3. BaselineMeasured(Captures, c) /\ e.state # "resolved"
    BY <2>2 DEF Reach!EntryOutcome, Reach!UnchangedOr, Reach!BaselineMeasured, BaselineMeasured
  <2>4. PICK b \in old.entries : b.ip = e.ip /\ b.state # "resolved"
    BY <1>2, <2>2, <2>3 DEF Reach!EntryOutcome, Reach!UnchangedOr
  <2>5. ASSUME NEW view, NEW entry \in view.entries, entry.state # "resolved", entry.ip = e.ip
        PROVE  Condition(id, <<e.ip>>, <<e.ip, "incomplete">>, view.nets # {}) \in ReachConditions(id, view)
    BY <2>5 DEF ReachConditions
  <2>6. /\ Condition(id, <<e.ip>>, <<e.ip, "incomplete">>, new.nets # {}) \in After(scope)
        /\ Condition(id, <<e.ip>>, <<e.ip, "incomplete">>, old.nets # {}) \in Before(scope)
    BY <2>3, <2>4, <2>5
  <2>7. e.ip # "unknown"
    BY BothShown, HostsAssumption DEF Shown, ReachAreas
  <2>8. "unknown" \notin {<<e.ip, "incomplete">>[i] : i \in DOMAIN <<e.ip, "incomplete">>}
    BY <2>7, KnownParts
  <2> QED
    BY <1>2, <2>2, <2>3, <2>6, <2>8, ConditionOfBoth
<1> QED
  BY <1>3, <1>4

LEMMA TargetsAreHosts ==
  ASSUME NEW view, NEW family, NEW before,
         view.bgp \cup {e.ip : e \in view.entries} \cup {e.ip : e \in before} \subseteq Hosts
  PROVE  Reach!Targets(view, family, before) \subseteq Hosts \ Own
<1>1. Reach!BgpTargets(view) \subseteq Hosts \ Own
  BY DEF Reach!BgpTargets
<1>2. Reach!BaselineTargets(view, family, before) \subseteq Hosts \ Own
  BY DEF Reach!BaselineTargets
<1>3. Reach!OwnTableTargets(view, family) \subseteq Hosts \ Own
  BY DEF Reach!OwnTableTargets
<1>4. Reach!Fallback(view, family, before) \subseteq Hosts \ Own
  BY DEF Reach!Fallback, Reach!Guessed
<1> QED
  BY <1>1, <1>2, <1>3, <1>4 DEF Reach!Targets

\* A ping without an answer is one of a host that gave none.
LEMMA NoAnswer ==
  ASSUME NEW view, NEW seen, NEW family, NEW before, NEW p \in Reach!Pings(seen, family, before, Fate(view)),
         p.target \in Hosts, p.sent # 0, ~(p.received > 0)
  PROVE  p.target \notin view.alive \cup view.refused
<1>1. p = Reach!PingResult(p.target, Fate(view)[p.target])
  BY DEF Reach!Pings, Reach!PingResult
<1> DEFINE fate == Fate(view)[p.target]
<1>2. /\ p.sent = IF fate = "refused" THEN 0 ELSE 1
      /\ p.received = IF fate = "answer" THEN 1 ELSE 0
  BY <1>1 DEF Reach!PingResult
<1>3. fate \notin {"refused", "answer"}
  BY <1>2
<1> QED
  BY <1>3 DEF Fate

LEMMA PingsUnchanged ==
  ASSUME Judging, NEW id, area \in ReachAreas, NEW scope \in blocks, NEW cp, NEW row, row.outcome = "unchanged",
         Behind(Reach!PingReachability, cp, Reach!PingRows(subject.data, BaselineData, Captures), row),
         After(scope) = ReachConditions(id, new), Before(scope) = ReachConditions(id, old)
  PROVE  Evidence(scope, row)
<1> DEFINE seenNow == Seen(area, new, subject.lost)
           seenOld == Seen(area, old, baseline.lost)
<1>1. PICK p \in subject.data.pings :
         Reports(row, Reach!Row("ping_reachability", <<p.target>>, Reach!PingOutcome(p, BaselineData.pings, Captures)))
  <2>1. PICK finding \in Reach!PingRows(subject.data, BaselineData, Captures) : Reports(row, finding)
    BY DEF Behind
  <2>2. \A x : finding # Reach!Row("ping_reachability", x, "skip")
    BY <2>1 DEF Reports, Reach!Row
  <2>3. finding \in {Reach!Row("ping_reachability", <<p.target>>, Reach!PingOutcome(p, BaselineData.pings, Captures)) :
                       p \in subject.data.pings}
    BY <2>2 DEF Reach!PingRows, Reach!PingSkippedRows
  <2> QED
    BY <2>1, <2>3
<1>2. /\ row.check = "ping_reachability" /\ row.about = <<p.target>>
      /\ p.sent # 0 /\ ~(p.received > 0) /\ Captures.baseline
      /\ \E b \in BaselineData.pings : b.target = p.target /\ b.sent > 0 /\ b.received = 0
  BY <1>1 DEF Reports, Reach!Row, Reach!PingOutcome, Reach!UnchangedOr, Reach!BaselineMeasured
<1>3. baseline # NoCapture
  BY <1>2 DEF Captures
<1>4. /\ area \in Areas \cap ReachAreas /\ old \in Views[area] /\ new \in Views[area]
      /\ baseline.lost \in Losses(area) /\ baseline.data = Captured(area, old, baseline.lost, {})
      /\ subject.lost \in Losses(area) /\ subject.data = Captured(area, new, subject.lost, Before4)
  BY <1>3, ViewsAssumption DEF Judging, JudgeInv, BaselineIsOfOld, SubjectIsOfNew, Judgement
<1>5. /\ subject.data.pings = Reach!Pings(seenNow, Family(area), Before4, Fate(new))
      /\ seenNow.bgp = new.bgp /\ seenNow.entries \subseteq new.entries
  BY <1>4, HostsSeen
<1>6. /\ BaselineData.pings = Reach!Pings(seenOld, Family(area), {}, Fate(old))
      /\ baseline.data.entries \subseteq old.entries
  BY <1>3, <1>4, HostsSeen DEF BaselineData
<1>7. p.target \in Hosts \ Own
  <2>1. seenNow.bgp \cup {e.ip : e \in seenNow.entries} \cup {e.ip : e \in Before4} \subseteq Hosts
    <3>1. Before4 \subseteq old.entries
      BY <1>6 DEF Before4
    <3>2. new.bgp \cup {e.ip : e \in new.entries} \cup {e.ip : e \in old.entries} \subseteq Hosts
      BY BothShown DEF Shown, ReachAreas
    <3> HIDE DEF seenNow
    <3> QED
      BY <1>5, <3>1, <3>2
  <2>2. p.target \in Reach!Targets(seenNow, Family(area), Before4)
    BY <1>1, <1>5 DEF Reach!Pings, Reach!PingResult
  <2> QED
    BY <2>1, <2>2, TargetsAreHosts
<1> DEFINE h == p.target
<1>8. h \notin new.alive \cup new.refused
  BY <1>1, <1>2, <1>5, <1>7, NoAnswer
<1>9. h \notin old.alive \cup old.refused
  <2>1. PICK b \in BaselineData.pings : b.target = h /\ b.sent > 0 /\ b.received = 0
    BY <1>2
  <2>2. b.sent # 0 /\ ~(b.received > 0)
    BY <2>1
  <2> QED
    BY <1>6, <1>7, <2>1, <2>2, NoAnswer
<1>10. ASSUME NEW view, h \notin view.alive \cup view.refused
       PROVE  Note("ping_reachability", <<h>>, <<h, "no answer">>) \in ReachConditions(id, view)
  BY <1>7, <1>10 DEF ReachConditions
<1>11. h # "unknown"
  BY <1>7, HostsAssumption
<1>12. "unknown" \notin {<<h, "no answer">>[i] : i \in DOMAIN <<h, "no answer">>}
  BY <1>11, KnownParts
<1> HIDE DEF h
<1>13. /\ Note("ping_reachability", <<h>>, <<h, "no answer">>) \in After(scope)
       /\ Note("ping_reachability", <<h>>, <<h, "no answer">>) \in Before(scope)
  BY <1>8, <1>9, <1>10
<1>14. row.about = <<h>>
  BY <1>2 DEF h
<1>15. SameFault(scope, row, <<h, "no answer">>)
  BY <1>2, <1>12, <1>13, <1>14 DEF SameFault, Note
<1> QED
  BY <1>3, <1>15, SameIsEvidence

LEMMA ReachUnchanged ==
  ASSUME Judging, area \in ReachAreas, NEW scope \in blocks, NEW row \in verdict[scope], row.outcome = "unchanged"
  PROVE  Evidence(scope, row)
<1> DEFINE cp == Counterpart(scope)
           pings == Behind(Reach!PingReachability, cp, Reach!PingRows(subject.data, BaselineData, Captures), row)
<1>1. CASE area = "reach4"
  <2>1. \/ Behind(Reach!ArpPresent, cp, Reach!TableRows("arp_present", "arp", subject.data, BaselineData, Captures), row)
        \/ pings
    BY <1>1, BlockJudged, DeactivationNotUnchanged, UnchangedIsFinding DEF Judged, Deactivations
  <2>2. After(scope) = ReachConditions("arp_present", new) /\ Before(scope) = ReachConditions("arp_present", old)
    BY <1>1 DEF After, Before, Conditions
  <2>3. Collectors(area) = {"arp"} /\ {"nets", "entries"} \subseteq DOMAIN old \cap DOMAIN new
    <3>1. /\ DOMAIN Empty["reach4"] = {"config", "arp"} /\ "nets" \in DOMAIN Empty["reach4"]["config"]
          /\ "entries" \in DOMAIN Empty["reach4"]["arp"]
      BY DEF Empty
    <3> QED
      BY <1>1, <3>1, BothShown DEF Collectors
  <2>4. "arp" \in Reach!ArpPresent.requires
    BY DEF Reach!ArpPresent, Reach!Reach, Reach!CheckClass
  <2> QED
    BY <2>1, <2>2, <2>3, <2>4, TablesUnchanged, PingsUnchanged
<1>2. CASE area = "reach6"
  <2>1. \/ Behind(Reach!NdPresent, cp, Reach!TableRows("nd_present", "nd", subject.data, BaselineData, Captures), row)
        \/ pings
    BY <1>2, BlockJudged, DeactivationNotUnchanged, UnchangedIsFinding DEF Judged, Deactivations
  <2>2. After(scope) = ReachConditions("nd_present", new) /\ Before(scope) = ReachConditions("nd_present", old)
    BY <1>2 DEF After, Before, Conditions
  <2>3. Collectors(area) = {"nd"} /\ {"nets", "entries"} \subseteq DOMAIN old \cap DOMAIN new
    <3>1. /\ DOMAIN Empty["reach6"] = {"config", "nd"} /\ "nets" \in DOMAIN Empty["reach6"]["config"]
          /\ "entries" \in DOMAIN Empty["reach6"]["nd"]
      BY DEF Empty
    <3> QED
      BY <1>2, <3>1, BothShown DEF Collectors
  <2>4. "nd" \in Reach!NdPresent.requires
    BY DEF Reach!NdPresent, Reach!Reach, Reach!CheckClass
  <2> QED
    BY <2>1, <2>2, <2>3, <2>4, TablesUnchanged, PingsUnchanged
<1> QED
  BY <1>1, <1>2 DEF ReachAreas

LEMMA StatusUnchanged ==
  ASSUME NEW now, NEW was, NEW c, Evpn!StatusOutcome(now, was, Captures, c) = "unchanged"
  PROVE  now # "Up" /\ now # "unknown" /\ was = now /\ BaselineMeasured(Captures, c)
  BY DEF Evpn!StatusOutcome, Evpn!UnchangedOr, Evpn!UP, Evpn!UNKNOWN, Evpn!BaselineMeasured, BaselineMeasured

LEMMA EsiUnchanged ==
  ASSUME Judging, area = "esi", NEW scope \in blocks, NEW row \in verdict[scope], row.outcome = "unchanged"
  PROVE  Evidence(scope, row)
<1> DEFINE check == Evpn!EvpnEsiStatus
           cp == Counterpart(scope)
           now == subject.data
           was == BaselineData
<1>1. AppliesTo(check, cp) /\ Behind(check, cp, Evpn!EsiRows(now, was, Captures), row)
  BY BlockJudged, DeactivationNotUnchanged, UnchangedIsFinding DEF Judged, Deactivations
<1>2. /\ Collectors(area) = {"evpn_esi"}
      /\ {"there", "status", "df", "resolved"} \subseteq DOMAIN old \cap DOMAIN new
  <2>1. /\ DOMAIN Empty["esi"] = {"evpn_esi"}
        /\ DOMAIN Empty["esi"]["evpn_esi"] = {"there", "status", "df", "resolved"}
    BY DEF Empty
  <2> QED
    BY <2>1, BothShown DEF Collectors
<1>3. \A f \in {"there", "status", "df", "resolved"} : now[f] = new[f]
  <2>1. "evpn_esi" \in check.requires
    BY DEF Evpn!EvpnEsiStatus, Evpn!Evpn, Evpn!CheckClass
  <2> QED
    BY <1>1, <1>2, <2>1, ReadNow
<1>4. BaselineMeasured(Captures, "evpn_esi") =>
         baseline # NoCapture /\ \A f \in {"there", "status", "df", "resolved"} : was[f] = old[f]
  BY <1>2, AloneBefore
<1>5. scope.subtype # "local"
  <2>1. cp.subtype = scope.subtype
    BY BlockJudged DEF Scopes
  <2> QED
    BY <1>1, <2>1 DEF AppliesTo, Evpn!EvpnEsiStatus, Evpn!Evpn, Evpn!CheckClass
<1>6. After(scope) = EsiConditions(new) /\ Before(scope) = EsiConditions(old)
  BY <1>5 DEF After, Before, Conditions, If
<1>7. new.there
  <2>1. CASE ~now.there
    <3>1. Evpn!EsiRows(now, was, Captures) = {Evpn!Row("evpn_esi_status", <<"all">>, "skip")}
      BY <2>1 DEF Evpn!EsiRows
    <3> QED
      BY <1>1, <3>1 DEF Behind, Reports, Evpn!Row
  <2> QED
    BY <1>3, <2>1
<1>8. /\ new.status # Evpn!Nothing /\ new.df \in {Evpn!Nothing, "elected", "not elected"}
      /\ new.resolved \in {Evpn!Nothing, "yes", "no"}
      /\ ~old.there => old.status = Evpn!Nothing /\ old.df = Evpn!Nothing /\ old.resolved = Evpn!Nothing
  BY <1>7, BothShown DEF Shown
<1>9. row.check = "evpn_esi_status" /\ BaselineMeasured(Captures, "evpn_esi") /\
      \/ /\ row.about = <<"interface">>
         /\ Evpn!StatusOutcome(new.status, was.status, Captures, "evpn_esi") = "unchanged"
      \/ row.about = <<"df">> /\ new.df = "not elected" /\ was.df = "not elected"
      \/ row.about = <<"resolved">> /\ new.resolved = "no" /\ was.resolved = "no"
  <2> DEFINE same(fault) == Evpn!UnchangedOr("broken", Captures, "evpn_esi", fault)
             df == CASE now.df = Evpn!Nothing -> "info"
                     [] now.df = "elected" -> "ok"
                     [] now.df = "not elected" -> same(was.df = "not elected")
             resolved == IF now.resolved = "yes" THEN "ok" ELSE same(was.resolved = "no")
             found == {Evpn!Row("evpn_esi_status", <<"interface">>,
                                Evpn!StatusOutcome(now.status, was.status, Captures, "evpn_esi")),
                       Evpn!Row("evpn_esi_status", <<"df">>, df)}
                      \cup (IF now.resolved = Evpn!Nothing THEN {}
                            ELSE {Evpn!Row("evpn_esi_status", <<"resolved">>, resolved)})
  <2>1. Evpn!EsiRows(now, was, Captures) = found
    BY <1>3, <1>7 DEF Evpn!EsiRows
  <2>2. PICK finding \in found : Reports(row, finding)
    BY <1>1, <2>1 DEF Behind
  <2>3. CASE finding = Evpn!Row("evpn_esi_status", <<"interface">>,
                                Evpn!StatusOutcome(now.status, was.status, Captures, "evpn_esi"))
    BY <1>3, <2>2, <2>3, StatusUnchanged DEF Reports, Evpn!Row
  <2>4. CASE finding = Evpn!Row("evpn_esi_status", <<"df">>, df)
    <3>1. row.check = "evpn_esi_status" /\ row.about = <<"df">> /\ df = "unchanged"
      BY <2>2, <2>4 DEF Reports, Evpn!Row
    <3>2. now.df = "not elected" /\ same(was.df = "not elected") = "unchanged"
      BY <1>3, <1>8, <3>1
    <3> QED
      BY <1>3, <3>1, <3>2 DEF Evpn!UnchangedOr, Evpn!BaselineMeasured, BaselineMeasured
  <2>5. CASE now.resolved # Evpn!Nothing /\ finding = Evpn!Row("evpn_esi_status", <<"resolved">>, resolved)
    <3>1. row.check = "evpn_esi_status" /\ row.about = <<"resolved">> /\ resolved = "unchanged"
      BY <2>2, <2>5 DEF Reports, Evpn!Row
    <3>2. now.resolved = "no" /\ same(was.resolved = "no") = "unchanged"
      BY <1>3, <1>8, <2>5, <3>1
    <3> QED
      BY <1>3, <3>1, <3>2 DEF Evpn!UnchangedOr, Evpn!BaselineMeasured, BaselineMeasured
  <2> QED
    BY <2>2, <2>3, <2>4, <2>5
<1>10. baseline # NoCapture /\ was.status = old.status /\ was.df = old.df /\ was.resolved = old.resolved
  BY <1>4, <1>9
<1> HIDE DEF was
<1>11. CASE /\ row.about = <<"interface">>
            /\ Evpn!StatusOutcome(new.status, was.status, Captures, "evpn_esi") = "unchanged"
  <2>1. new.status # "Up" /\ new.status # "unknown" /\ old.status = new.status /\ old.there
    <3>1. new.status # "Up" /\ new.status # "unknown" /\ was.status = new.status
      BY <1>11, StatusUnchanged
    <3> QED
      BY <1>8, <1>10, <3>1
  <2>2. /\ Fault("evpn_esi_status", <<"interface">>, <<new.status>>) \in After(scope)
        /\ Fault("evpn_esi_status", <<"interface">>, <<new.status>>) \in Before(scope)
    BY <1>6, <1>7, <2>1 DEF EsiConditions, NotIn, If
  <2>3. "unknown" \notin {<<new.status>>[i] : i \in DOMAIN <<new.status>>}
    BY <2>1, KnownParts
  <2> QED
    BY <1>9, <1>10, <1>11, <2>2, <2>3, FaultOfBoth
<1>12. CASE row.about = <<"df">> /\ new.df = "not elected" /\ was.df = "not elected"
  <2>1. old.there /\ old.df = "not elected"
    BY <1>8, <1>10, <1>12 DEF Evpn!Nothing
  <2>2. /\ Fault("evpn_esi_status", <<"df">>, <<"not elected">>) \in After(scope)
        /\ Fault("evpn_esi_status", <<"df">>, <<"not elected">>) \in Before(scope)
    BY <1>6, <1>7, <1>12, <2>1 DEF EsiConditions, If
  <2>3. "unknown" \notin {<<"not elected">>[i] : i \in DOMAIN <<"not elected">>}
    BY KnownParts
  <2> QED
    BY <1>9, <1>10, <1>12, <2>2, <2>3, FaultOfBoth
<1>13. CASE row.about = <<"resolved">> /\ new.resolved = "no" /\ was.resolved = "no"
  <2>1. old.there /\ old.resolved = "no"
    BY <1>8, <1>10, <1>13 DEF Evpn!Nothing
  <2>2. /\ Fault("evpn_esi_status", <<"resolved">>, <<"no">>) \in After(scope)
        /\ Fault("evpn_esi_status", <<"resolved">>, <<"no">>) \in Before(scope)
    BY <1>6, <1>7, <1>13, <2>1 DEF EsiConditions, If
  <2>3. "unknown" \notin {<<"no">>[i] : i \in DOMAIN <<"no">>}
    BY KnownParts
  <2> QED
    BY <1>9, <1>10, <1>13, <2>2, <2>3, FaultOfBoth
<1> QED
  BY <1>9, <1>11, <1>12, <1>13

LEMMA EvpnUnchanged ==
  ASSUME Judging, area = "evpn", NEW scope \in blocks, NEW row \in verdict[scope], row.outcome = "unchanged"
  PROVE  Evidence(scope, row)
<1> DEFINE check == Evpn!EvpnInstanceStatus
           cp == Counterpart(scope)
           now == subject.data
           was == BaselineData
           fields == {"there", "neighbors", "unit", "irb"}
           neighbors == Evpn!Row("evpn_instance_status", <<"neighbors">>, Evpn!NeighborsOutcome(now, was, Captures))
           unit == Evpn!Row("evpn_instance_status", <<"unit">>, Evpn!UnitOutcome(now, was, Captures))
           irb == Evpn!Row("evpn_instance_status", <<"irb">>, Evpn!IrbOutcome(now, was, Captures))
<1>1. Behind(check, cp, Evpn!InstanceRows(cp, now, was, Captures), row)
  BY BlockJudged, DeactivationNotUnchanged, UnchangedIsFinding DEF Judged, Deactivations
<1>2. Collectors(area) = {"evpn_instance"} /\ fields \subseteq DOMAIN old \cap DOMAIN new
  <2>1. DOMAIN Empty["evpn"] = {"evpn_instance"} /\ DOMAIN Empty["evpn"]["evpn_instance"] = fields
    BY DEF Empty
  <2> QED
    BY <2>1, BothShown DEF Collectors
<1>3. \A f \in fields : now[f] = new[f]
  <2>1. "evpn_instance" \in check.requires
    BY DEF Evpn!EvpnInstanceStatus, Evpn!Evpn, Evpn!CheckClass
  <2> QED
    BY <1>1, <1>2, <2>1, ReadNow
<1>4. BaselineMeasured(Captures, "evpn_instance") => baseline # NoCapture /\ \A f \in fields : was[f] = old[f]
  BY <1>2, AloneBefore
<1>5. cp.linked = scope.linked
  BY BlockJudged DEF Scopes
<1>6. After(scope) = EvpnConditions(scope, new) /\ Before(scope) = EvpnConditions(scope, old)
  BY DEF After, Before, Conditions
<1>7. PICK finding \in Evpn!InstanceRows(cp, now, was, Captures) : Reports(row, finding)
  BY <1>1 DEF Behind
<1>8. /\ new.there
      /\ finding \in {neighbors, unit} \/ (scope.linked /\ finding = irb)
  <2>1. \A about : \A outcome \in {"skip", "info"} : finding # Evpn!Row("evpn_instance_status", about, outcome)
    BY <1>7 DEF Reports, Evpn!Row
  <2> HIDE DEF neighbors, unit, irb, cp
  <2>2. now.there
    BY <1>7, <2>1 DEF Evpn!InstanceRows
  <2> QED
    BY <1>3, <1>5, <1>7, <2>1, <2>2 DEF Evpn!InstanceRows, neighbors, unit, irb
<1>9. Shown("evpn", old) /\ Shown("evpn", new)
  BY BothShown
<1>10. /\ new.irb.context # "unknown"
       /\ ~old.there => old.unit = Evpn!Nothing /\ old.irb = Evpn!NoIrb
  BY <1>8, <1>9 DEF Shown
<1>11. CASE finding = neighbors
  <2>1. row.check = "evpn_instance_status" /\ row.about = <<"neighbors">>
        /\ Evpn!NeighborsOutcome(now, was, Captures) = "unchanged"
    BY <1>7, <1>11 DEF Reports, Evpn!Row
  <2>2. BaselineMeasured(Captures, "evpn_instance") /\ now.neighbors = {} /\ was.there /\ was.neighbors = {}
    BY <2>1 DEF Evpn!NeighborsOutcome, Evpn!UnchangedOr, Evpn!BaselineMeasured, BaselineMeasured
  <2>3. baseline # NoCapture /\ new.neighbors = {} /\ old.there /\ old.neighbors = {}
    BY <1>3, <1>4, <2>2
  <2>4. /\ Fault("evpn_instance_status", <<"neighbors">>, <<"none">>) \in After(scope)
        /\ Fault("evpn_instance_status", <<"neighbors">>, <<"none">>) \in Before(scope)
    BY <1>6, <1>8, <2>3 DEF EvpnConditions, If
  <2>5. "unknown" \notin {<<"none">>[i] : i \in DOMAIN <<"none">>}
    BY KnownParts
  <2> QED
    BY <2>1, <2>3, <2>4, <2>5, FaultOfBoth
<1>12. CASE finding = unit
  <2>1. row.check = "evpn_instance_status" /\ row.about = <<"unit">>
        /\ Evpn!UnitOutcome(now, was, Captures) = "unchanged"
    BY <1>7, <1>12 DEF Reports, Evpn!Row
  <2>2. /\ BaselineMeasured(Captures, "evpn_instance")
        /\ now.unit \notin {"Up", "unknown"} /\ was.unit = now.unit
        /\ now.unit = Evpn!Nothing => was.there
    <3>1. CASE now.unit # Evpn!Nothing
      <4>1. Evpn!StatusOutcome(now.unit, was.unit, Captures, "evpn_instance") = "unchanged"
        BY <2>1, <3>1 DEF Evpn!UnitOutcome
      <4> HIDE DEF now, was
      <4> QED
        BY <3>1, <4>1, StatusUnchanged
    <3>2. CASE now.unit = Evpn!Nothing
      BY <2>1, <3>2 DEF Evpn!UnitOutcome, Evpn!UnchangedOr, Evpn!BaselineMeasured, BaselineMeasured, Evpn!Nothing
    <3> QED
      BY <3>1, <3>2
  <2>3. baseline # NoCapture /\ new.unit \notin {"Up", "unknown"} /\ old.unit = new.unit /\ old.there
    BY <1>3, <1>4, <1>10, <2>2
  <2>4. /\ Fault("evpn_instance_status", <<"unit">>, <<new.unit>>) \in After(scope)
        /\ Fault("evpn_instance_status", <<"unit">>, <<new.unit>>) \in Before(scope)
    BY <1>6, <1>8, <2>3 DEF EvpnConditions, NotIn, If
  <2>5. "unknown" \notin {<<new.unit>>[i] : i \in DOMAIN <<new.unit>>}
    BY <2>3, KnownParts
  <2> QED
    BY <2>1, <2>3, <2>4, <2>5, FaultOfBoth
<1>13. CASE scope.linked /\ finding = irb
  <2> DEFINE what == <<new.irb.status, new.irb.context>>
  <2>1. row.check = "evpn_instance_status" /\ row.about = <<"irb">>
        /\ Evpn!IrbOutcome(now, was, Captures) = "unchanged"
    BY <1>7, <1>13 DEF Reports, Evpn!Row
  <2>2. /\ BaselineMeasured(Captures, "evpn_instance")
        /\ now.irb.status \notin {"Up", "unknown"} /\ was.irb = now.irb
        /\ now.irb = Evpn!NoIrb => was.there
    <3>1. Evpn!NoIrb.status = "nothing"
      BY DEF Evpn!NoIrb, Evpn!Nothing
    <3> QED
      BY <2>1, <3>1 DEF Evpn!IrbOutcome, Evpn!UnchangedOr, Evpn!BaselineMeasured, BaselineMeasured, Evpn!UP, Evpn!UNKNOWN
  <2>3. baseline # NoCapture /\ new.irb.status \notin {"Up", "unknown"} /\ old.irb = new.irb /\ old.there
    BY <1>3, <1>4, <1>10, <2>2
  <2>4. /\ Fault("evpn_instance_status", <<"irb">>, what) \in After(scope)
        /\ Fault("evpn_instance_status", <<"irb">>, what) \in Before(scope)
    BY <1>6, <1>8, <1>13, <2>3 DEF EvpnConditions, If
  <2>5. "unknown" \notin {what[i] : i \in DOMAIN what}
    BY <1>10, <2>3, KnownParts
  <2> HIDE DEF what
  <2> QED
    BY <2>1, <2>3, <2>4, <2>5, FaultOfBoth
<1> QED
  BY <1>8, <1>11, <1>12, <1>13

\* No addresses now and none before.
LEMMA MacCompareUnchanged ==
  ASSUME NEW before, NEW now, Evpn!MacCompare(before, now, Captures) = "unchanged"
  PROVE  now = 0 /\ before = 0 /\ BaselineMeasured(Captures, "evpn_mac")
  BY DEF Evpn!MacCompare, Evpn!UnchangedOr, Evpn!BaselineMeasured, BaselineMeasured

LEMMA MacUnchanged ==
  ASSUME Judging, area = "mac", NEW scope \in blocks, NEW row \in verdict[scope], row.outcome = "unchanged"
  PROVE  Evidence(scope, row)
<1> DEFINE check == Evpn!EvpnMacCount
           cp == Counterpart(scope)
           now == subject.data
           was == BaselineData
           fields == {"there", "vlan", "port"}
           none == {0, Evpn!NotListed}
<1>1. Behind(check, cp, Evpn!MacRows(now, was, Captures), row)
  BY BlockJudged, DeactivationNotUnchanged, UnchangedIsFinding DEF Judged, Deactivations
<1>2. Collectors(area) = {"evpn_mac"} /\ fields \subseteq DOMAIN old \cap DOMAIN new
  <2>1. DOMAIN Empty["mac"] = {"evpn_mac"} /\ DOMAIN Empty["mac"]["evpn_mac"] = fields
    BY DEF Empty
  <2> QED
    BY <2>1, BothShown DEF Collectors
<1>3. \A f \in fields : now[f] = new[f]
  <2>1. "evpn_mac" \in check.requires
    BY DEF Evpn!EvpnMacCount, Evpn!Evpn, Evpn!CheckClass
  <2> QED
    BY <1>1, <1>2, <2>1, ReadNow
<1>4. BaselineMeasured(Captures, "evpn_mac") => baseline # NoCapture /\ \A f \in fields : was[f] = old[f]
  BY <1>2, AloneBefore
<1>5. After(scope) = MacConditions(new) /\ Before(scope) = MacConditions(old)
  BY DEF After, Before, Conditions
<1>6. PICK finding \in Evpn!MacRows(now, was, Captures) : Reports(row, finding)
  BY <1>1 DEF Behind
<1>7. /\ new.there
      /\ \/ finding = Evpn!Row("evpn_mac_count", <<"vlan">>, Evpn!VlanOutcome(now.vlan, was.vlan, Captures))
         \/ finding \in Evpn!MacPortRows(now.port, was.port, Captures)
  <2>1. finding # Evpn!Row("evpn_mac_count", <<"all">>, "skip")
    BY <1>6 DEF Reports, Evpn!Row
  <2> QED
    BY <1>3, <1>6, <2>1 DEF Evpn!MacRows
<1>8. CASE finding = Evpn!Row("evpn_mac_count", <<"vlan">>, Evpn!VlanOutcome(now.vlan, was.vlan, Captures))
  <2>1. row.check = "evpn_mac_count" /\ row.about = <<"vlan">>
        /\ Evpn!VlanOutcome(now.vlan, was.vlan, Captures) = "unchanged"
    BY <1>6, <1>8 DEF Reports, Evpn!Row
  <2>2. now.vlan \in none /\ was.vlan \in none /\ BaselineMeasured(Captures, "evpn_mac")
    <3> HIDE DEF now, was
    <3>1. \A count : Evpn!MacState(count) # "unchanged"
      BY DEF Evpn!MacState
    <3> QED
      BY <2>1, <3>1, MacCompareUnchanged DEF Evpn!VlanOutcome
  <2>3. baseline # NoCapture /\ new.vlan \in none /\ old.vlan \in none
    BY <1>3, <1>4, <2>2
  <2>4. /\ Condition("evpn_mac_count", <<"vlan">>, <<"vlan", "empty">>, new.there) \in After(scope)
        /\ Condition("evpn_mac_count", <<"vlan">>, <<"vlan", "empty">>, old.there) \in Before(scope)
    BY <1>5, <2>3 DEF MacConditions, If
  <2>5. "unknown" \notin {<<"vlan", "empty">>[i] : i \in DOMAIN <<"vlan", "empty">>}
    BY KnownParts
  <2> QED
    BY <2>1, <2>3, <2>4, <2>5, ConditionOfBoth
<1>9. CASE finding \in Evpn!MacPortRows(now.port, was.port, Captures)
  <2>1. /\ row.check = "evpn_mac_count" /\ row.about = <<"port">>
        /\ Evpn!MacCompare(was.port, now.port, Captures) = "unchanged"
    BY <1>6, <1>9 DEF Reports, Evpn!Row, Evpn!MacPortRows, Evpn!MacState
  <2>2. now.port = 0 /\ was.port = 0 /\ BaselineMeasured(Captures, "evpn_mac")
    <3> HIDE DEF now, was
    <3> QED
      BY <2>1, MacCompareUnchanged
  <2>3. baseline # NoCapture /\ new.port = 0 /\ old.port = 0
    BY <1>3, <1>4, <2>2
  <2>4. old.there
    BY <2>3, BothShown DEF Shown, Evpn!NotListed
  <2>5. /\ Fault("evpn_mac_count", <<"port">>, <<"port", "empty">>) \in After(scope)
        /\ Fault("evpn_mac_count", <<"port">>, <<"port", "empty">>) \in Before(scope)
    BY <1>5, <1>7, <2>3, <2>4 DEF MacConditions, If
  <2>6. "unknown" \notin {<<"port", "empty">>[i] : i \in DOMAIN <<"port", "empty">>}
    BY KnownParts
  <2> QED
    BY <2>1, <2>3, <2>5, <2>6, FaultOfBoth
<1> QED
  BY <1>7, <1>8, <1>9

\* The circuit that one is paired with has an identifier in common with it.
LEMMA PairedIsSame ==
  ASSUME NEW view, NEW before, NEW ac \in view.acs, NEW was, was = Evpn!PairedAc(ac, view.acs, before.acs)
  PROVE  \/ was = Evpn!NoAc
         \/ was \in before.acs /\ \E id \in {ac.sid, "lone"} : id \in CircuitIds(view, ac) \cap CircuitIds(before, was)
<1> DEFINE hits == {b \in before.acs : b.sid = ac.sid /\ ac.sid # Evpn!NoSid}
<1>1. CASE Cardinality(hits) = 1
  <2>1. was \in hits
    <3>1. hits # {}
      BY <1>1, FS_EmptySet
    <3>2. was = CHOOSE b \in hits : TRUE
      BY <1>1, CardinalityIsOne DEF Evpn!PairedAc
    <3> HIDE DEF hits
    <3> QED
      BY <3>1, <3>2
  <2> QED
    BY <2>1 DEF CircuitIds
<1>2. CASE Cardinality(hits) # 1 /\ Cardinality(view.acs) = 1 /\ Cardinality(before.acs) = 1
  <2>1. before.acs # {}
    BY <1>2, FS_EmptySet
  <2>2. was \in before.acs
    BY <1>2, <2>1, CardinalityIsOne DEF Evpn!PairedAc
  <2> QED
    BY <1>2, <2>2 DEF CircuitIds
<1>3. CASE Cardinality(hits) # 1 /\ ~(Cardinality(view.acs) = 1 /\ Cardinality(before.acs) = 1)
  BY <1>3, CardinalityIsOne DEF Evpn!PairedAc
<1> QED
  BY <1>1, <1>2, <1>3

\* A circuit is in a condition, be it a fault or not.
Stated(about, what, conditions) ==
    \E fault : Condition("evpn_vpws_status", about, what, fault) \in conditions

\* An unchanged row of a circuit is a fault that the paired one had.
LEMMA CircuitUnchanged ==
  ASSUME NEW ac, NEW was, NEW finding \in Evpn!AcRows(ac, was, Captures), finding.outcome = "unchanged",
         ac.status # Evpn!Nothing, "unknown" \notin {ac.sid, ac.pw} \cup {p.ip : p \in ac.local \cup ac.remote}
  PROVE  /\ BaselineMeasured(Captures, "evpn_vpws") /\ was # Evpn!NoAc
         /\ \E about, what, value :
               /\ Reports(finding, Row("evpn_vpws_status", about, "unchanged"))
               /\ "unknown" \notin {what, value}
               /\ \A id : Stated(about, <<id, what, value>>, CircuitConditions(ac, id))
               /\ \A id : \E other : Stated(other, <<id, what, value>>, CircuitConditions(was, id))
<1> DEFINE proved(about, what, value) ==
              /\ Reports(finding, Row("evpn_vpws_status", about, "unchanged"))
              /\ "unknown" \notin {what, value}
              /\ \A id : Stated(about, <<id, what, value>>, CircuitConditions(ac, id))
              /\ \A id : \E other : Stated(other, <<id, what, value>>, CircuitConditions(was, id))
           done == /\ BaselineMeasured(Captures, "evpn_vpws") /\ was # Evpn!NoAc
                   /\ \E about, what, value : proved(about, what, value)
           row(about, outcome) == Evpn!Row("evpn_vpws_status", about, outcome)
<1>1. ASSUME NEW about, NEW outcome, finding = row(about, outcome)
      PROVE  outcome = "unchanged" /\ Reports(finding, Row("evpn_vpws_status", about, "unchanged"))
  BY <1>1 DEF Evpn!Row, Row, Reports
<1>2. /\ Evpn!NoAc.status = Evpn!Nothing /\ Evpn!NoAc.pw = Evpn!Nothing /\ Evpn!NoAc.partner = Evpn!Nothing
      /\ Evpn!NoAc.local = {} /\ Evpn!NoAc.remote = {}
  BY DEF Evpn!NoAc
<1> HIDE DEF row
<1>3. ASSUME finding = row(<<ac.name, "status">>, Evpn!StatusOutcome(ac.status, was.status, Captures, "evpn_vpws"))
      PROVE  done
  <2>1. ac.status \notin {"Up", "unknown"} /\ was.status = ac.status /\ BaselineMeasured(Captures, "evpn_vpws")
    BY <1>1, <1>3, StatusUnchanged
  <2>2. was # Evpn!NoAc
    BY <1>2, <2>1
  <2>3. proved(<<ac.name, "status">>, "status", ac.status)
    BY <1>1, <1>3, <2>1 DEF CircuitConditions, If, Fault, Stated
  <2> QED
    BY <2>1, <2>2, <2>3
<1>4. ASSUME finding \in Evpn!PwRows(ac, was, Captures)
      PROVE  done
  <2>1. /\ ac.pw \notin {Evpn!Nothing, "Up"}
        /\ was.pw = ac.pw /\ BaselineMeasured(Captures, "evpn_vpws")
        /\ Reports(finding, Row("evpn_vpws_status", <<ac.name, "pw">>, "unchanged"))
    BY <1>4 DEF Evpn!PwRows, Evpn!Row, Row, Reports, Evpn!UP, Evpn!UnchangedOr, Evpn!BaselineMeasured, BaselineMeasured
  <2>2. was # Evpn!NoAc
    BY <1>2, <2>1
  <2>3. proved(<<ac.name, "pw">>, "pw", ac.pw)
    BY <2>1 DEF CircuitConditions, If, Fault, Stated
  <2> QED
    BY <2>1, <2>2, <2>3
<1>5. ASSUME ac.partner # Evpn!Nothing, finding = Evpn!SwitchRow(ac, was, Captures)
      PROVE  done
  <2>1. /\ ac.partner \notin {"Up", "unknown"} /\ was.partner = ac.partner /\ BaselineMeasured(Captures, "evpn_vpws")
        /\ Reports(finding, Row("evpn_vpws_status", <<ac.name, "switch">>, "unchanged"))
    BY <1>1, <1>5, StatusUnchanged DEF Evpn!SwitchRow, row
  <2>2. was # Evpn!NoAc
    BY <1>2, <1>5, <2>1
  <2>3. proved(<<ac.name, "switch">>, "switch", ac.partner)
    BY <1>5, <2>1 DEF CircuitConditions, If, Fault, Stated
  <2> QED
    BY <2>1, <2>2, <2>3
<1>6. ASSUME ac.partner = Evpn!Nothing, ac.remote = {}, finding = Evpn!NoRemoteRow(ac, was, Captures)
      PROVE  done
  <2>1. /\ was # Evpn!NoAc /\ was.remote = {} /\ was.partner = Evpn!Nothing /\ BaselineMeasured(Captures, "evpn_vpws")
        /\ Reports(finding, Row("evpn_vpws_status", <<ac.name, "remote">>, "unchanged"))
    BY <1>6 DEF Evpn!NoRemoteRow, Evpn!Row, Row, Reports, Evpn!UnchangedOr, Evpn!BaselineMeasured, BaselineMeasured
  <2>2. proved(<<ac.name, "remote">>, "remote", "no peer")
    BY <1>6, <2>1 DEF CircuitConditions, If, Fault, Stated
  <2> QED
    BY <2>1, <2>2
<1>7. ASSUME NEW p, Evpn!PeerOutcome(p, {}, Captures) = "unchanged" PROVE FALSE
  BY <1>7 DEF Evpn!PeerOutcome, Evpn!UnchangedOr
<1>8. ASSUME NEW p \in ac.local,
             finding = row(<<ac.name, "local", p.ip>>, Evpn!PeerOutcome(p, was.local, Captures))
      PROVE  done
  <2>1. Evpn!PeerOutcome(p, was.local, Captures) = "unchanged"
        /\ Reports(finding, Row("evpn_vpws_status", <<ac.name, "local", p.ip>>, "unchanged"))
    BY <1>1, <1>8
  <2>2. was # Evpn!NoAc
    BY <1>2, <1>7, <2>1
  <2>3. PICK b \in was.local : b.ip = p.ip /\ ~b.resolved
    BY <2>1 DEF Evpn!PeerOutcome, Evpn!UnchangedOr
  <2>4. ~p.resolved /\ BaselineMeasured(Captures, "evpn_vpws")
    BY <2>1 DEF Evpn!PeerOutcome, Evpn!UnchangedOr, Evpn!BaselineMeasured, BaselineMeasured
  <2>5. ASSUME NEW circuit, NEW q \in circuit.local, ~q.resolved, q.ip = p.ip, NEW id
        PROVE  Stated(<<circuit.name, "local", p.ip>>, <<id, "local", p.ip>>, CircuitConditions(circuit, id))
    BY <2>5 DEF CircuitConditions, Stated
  <2>6. proved(<<ac.name, "local", p.ip>>, "local", p.ip)
    BY <1>8, <2>1, <2>3, <2>4, <2>5
  <2> QED
    BY <2>2, <2>4, <2>6
<1>9. ASSUME NEW p \in ac.remote,
             finding = row(<<ac.name, "remote", p.ip>>, Evpn!PeerOutcome(p, was.remote, Captures))
      PROVE  done
  <2>1. Evpn!PeerOutcome(p, was.remote, Captures) = "unchanged"
        /\ Reports(finding, Row("evpn_vpws_status", <<ac.name, "remote", p.ip>>, "unchanged"))
    BY <1>1, <1>9
  <2>2. was # Evpn!NoAc
    BY <1>2, <1>7, <2>1
  <2>3. PICK b \in was.remote : b.ip = p.ip /\ ~b.resolved
    BY <2>1 DEF Evpn!PeerOutcome, Evpn!UnchangedOr
  <2>4. ~p.resolved /\ BaselineMeasured(Captures, "evpn_vpws")
    BY <2>1 DEF Evpn!PeerOutcome, Evpn!UnchangedOr, Evpn!BaselineMeasured, BaselineMeasured
  <2>5. ASSUME NEW circuit, NEW q \in circuit.remote, ~q.resolved, q.ip = p.ip, NEW id
        PROVE  Stated(<<circuit.name, "remote", p.ip>>, <<id, "remote", p.ip>>, CircuitConditions(circuit, id))
    <3>1. Condition("evpn_vpws_status", <<circuit.name, "remote", q.ip>>, <<id, "remote", q.ip>>,
                    circuit.partner = Evpn!Nothing) \in CircuitConditions(circuit, id)
      BY <2>5 DEF CircuitConditions
    <3> QED
      BY <2>5, <3>1 DEF Stated
  <2>6. proved(<<ac.name, "remote", p.ip>>, "remote", p.ip)
    BY <1>9, <2>1, <2>3, <2>4, <2>5
  <2> QED
    BY <2>2, <2>4, <2>6
<1>10. \/ finding = row(<<ac.name, "status">>, Evpn!StatusOutcome(ac.status, was.status, Captures, "evpn_vpws"))
       \/ finding \in Evpn!PwRows(ac, was, Captures)
       \/ ac.partner # Evpn!Nothing /\ finding = Evpn!SwitchRow(ac, was, Captures)
       \/ ac.partner = Evpn!Nothing /\ ac.remote = {} /\ finding = Evpn!NoRemoteRow(ac, was, Captures)
       \/ \E p \in ac.local : finding = row(<<ac.name, "local", p.ip>>, Evpn!PeerOutcome(p, was.local, Captures))
       \/ \E p \in ac.remote : finding = row(<<ac.name, "remote", p.ip>>, Evpn!PeerOutcome(p, was.remote, Captures))
  BY DEF Evpn!AcRows, Evpn!SidRows, row
<1> HIDE DEF done
<1>11. done
  BY <1>3, <1>4, <1>5, <1>6, <1>8, <1>9, <1>10
<1> QED
  BY <1>11 DEF done

LEMMA VpwsUnchanged ==
  ASSUME Judging, area = "vpws", NEW scope \in blocks, NEW row \in verdict[scope], row.outcome = "unchanged"
  PROVE  Evidence(scope, row)
<1> DEFINE check == Evpn!EvpnVpwsStatus
           now == subject.data
           before == BaselineData
<1>1. Behind(check, Counterpart(scope), Evpn!VpwsRows(now, before, Captures), row)
  BY BlockJudged, DeactivationNotUnchanged, UnchangedIsFinding DEF Judged, Deactivations
<1>2. Collectors(area) = {"evpn_vpws"} /\ {"there", "acs"} \subseteq DOMAIN old \cap DOMAIN new
  <2>1. DOMAIN Empty["vpws"] = {"evpn_vpws"} /\ DOMAIN Empty["vpws"]["evpn_vpws"] = {"there", "acs"}
    BY DEF Empty
  <2> QED
    BY <2>1, BothShown DEF Collectors
<1>3. now.there = new.there /\ now.acs = new.acs
  <2>1. "evpn_vpws" \in check.requires
    BY DEF Evpn!EvpnVpwsStatus, Evpn!Evpn, Evpn!CheckClass
  <2> QED
    BY <1>1, <1>2, <2>1, ReadNow
<1>4. BaselineMeasured(Captures, "evpn_vpws") =>
         baseline # NoCapture /\ before.there = old.there /\ before.acs = old.acs
  BY <1>2, AloneBefore
<1>5. After(scope) = VpwsConditions(new) /\ Before(scope) = VpwsConditions(old)
  BY DEF After, Before, Conditions
<1>6. PICK finding \in Evpn!VpwsRows(now, before, Captures) : Reports(row, finding)
  BY <1>1 DEF Behind
<1>7. new.there
  <2>1. finding # Evpn!Row("evpn_vpws_status", <<"all">>, "skip")
    BY <1>6 DEF Reports, Evpn!Row
  <2> QED
    BY <1>3, <1>6, <2>1 DEF Evpn!VpwsRows
<1>8. Shown("vpws", old) /\ Shown("vpws", new)
  BY BothShown
<1>9. CASE new.acs = {}
  <2>1. finding = Evpn!Row("evpn_vpws_status", <<"missing">>,
                           Evpn!UnchangedOr("broken", Captures, "evpn_vpws", before.there /\ before.acs = {}))
    BY <1>3, <1>6, <1>7, <1>9 DEF Evpn!VpwsRows
  <2>2. /\ row.check = "evpn_vpws_status" /\ row.about = <<"missing">>
        /\ BaselineMeasured(Captures, "evpn_vpws") /\ before.there /\ before.acs = {}
    BY <1>6, <2>1 DEF Reports, Evpn!Row, Evpn!UnchangedOr, Evpn!BaselineMeasured, BaselineMeasured
  <2>3. /\ Fault("evpn_vpws_status", <<"missing">>, <<"missing">>) \in After(scope)
        /\ Fault("evpn_vpws_status", <<"missing">>, <<"missing">>) \in Before(scope)
    BY <1>4, <1>5, <1>7, <1>9, <2>2 DEF VpwsConditions, If
  <2>4. "unknown" \notin {<<"missing">>[i] : i \in DOMAIN <<"missing">>}
    BY KnownParts
  <2> QED
    BY <1>4, <2>2, <2>3, <2>4, FaultOfBoth
<1>10. CASE new.acs # {}
  <2>1. PICK ac \in new.acs : finding \in Evpn!AcRows(ac, Evpn!PairedAc(ac, new.acs, before.acs), Captures)
    BY <1>3, <1>6, <1>7, <1>10 DEF Evpn!VpwsRows
  <2> DEFINE was == Evpn!PairedAc(ac, new.acs, before.acs)
  <2>2. finding.outcome = "unchanged"
    BY <1>6 DEF Reports
  <2>3. ac.status # Evpn!Nothing /\ "unknown" \notin {ac.sid, ac.pw} \cup {p.ip : p \in ac.local \cup ac.remote}
    BY <1>8 DEF Shown
  <2>4. BaselineMeasured(Captures, "evpn_vpws") /\ was # Evpn!NoAc
    BY <2>1, <2>2, <2>3, CircuitUnchanged
  <2>5. PICK about, what, value :
               /\ Reports(finding, Row("evpn_vpws_status", about, "unchanged"))
               /\ "unknown" \notin {what, value}
               /\ \A id : Stated(about, <<id, what, value>>, CircuitConditions(ac, id))
               /\ \A id : \E other : Stated(other, <<id, what, value>>, CircuitConditions(was, id))
    BY <2>1, <2>2, <2>3, CircuitUnchanged
  <2> HIDE DEF was
  <2>6. PICK id \in {ac.sid, "lone"} : was \in old.acs /\ id \in CircuitIds(new, ac) \cap CircuitIds(old, was)
    <3>1. was = Evpn!PairedAc(ac, new.acs, old.acs)
      BY <1>4, <2>4 DEF was
    <3> QED
      BY <2>4, <3>1, PairedIsSame
  <2>7. old.there
    BY <1>8, <2>6 DEF Shown
  <2>8. \A view : \A circuit \in view.acs : \A i \in CircuitIds(view, circuit) :
            view.there => CircuitConditions(circuit, i) \subseteq VpwsConditions(view)
    BY DEF VpwsConditions, If
  <2>9. PICK other, isFault, wasFault :
          /\ Condition("evpn_vpws_status", about, <<id, what, value>>, isFault) \in CircuitConditions(ac, id)
          /\ Condition("evpn_vpws_status", other, <<id, what, value>>, wasFault) \in CircuitConditions(was, id)
    BY <2>5 DEF Stated
  <2>10. /\ Condition("evpn_vpws_status", about, <<id, what, value>>, isFault) \in After(scope)
         /\ Condition("evpn_vpws_status", other, <<id, what, value>>, wasFault) \in Before(scope)
    BY <1>5, <1>7, <2>6, <2>7, <2>8, <2>9
  <2>11. row.check = "evpn_vpws_status" /\ row.about = about
    BY <1>6, <2>5 DEF Reports, Row
  <2>12. "unknown" \notin {<<id, what, value>>[i] : i \in DOMAIN <<id, what, value>>}
    <3>1. "unknown" \notin {id, what, value}
      BY <2>3, <2>5, <2>6
    <3> QED
      BY <3>1, KnownParts
  <2> QED
    BY <1>4, <2>4, <2>10, <2>11, <2>12, ConditionOfBoth
<1> QED
  BY <1>9, <1>10

\* Where a check needs all collectors of the area, all that it reads is what the box shows.
LEMMA AllNow ==
  ASSUME Judging, NEW check, NEW scope, ~SkippedByFrame(check, scope, Captures), Collectors(area) \subseteq check.requires
  PROVE  \A f \in DOMAIN new \ {"pings"} : subject.data[f] = new[f]
<1>1. subject.lost = {}
  BY CollectedNow, LostAreCollectors
<1> QED
  BY <1>1, SubjectSeen DEF Kept

\* The longest prefix is the smallest, and the smallest is inside all others.
LEMMA LongestIsAssigned ==
  ASSUME Judging, NEW scope \in blocks, NEW source
  PROVE  Mcast!AssignedTo(scope.prefixes, source) = Longest(scope.prefixes, source)
<1> DEFINE prefixes == scope.prefixes
<1>1. /\ \A p \in prefixes : IsFiniteSet(p.sources)
      /\ \A p, q \in prefixes : \/ p.sources \subseteq q.sources \/ q.sources \subseteq p.sources
                                \/ p.sources \cap q.sources = {}
  BY BlocksAssumption DEF Judging, JudgeInv
<1>2. ASSUME NEW p \in prefixes, NEW q \in prefixes, source \in p.sources, source \in q.sources
      PROVE  Cardinality(p.sources) <= Cardinality(q.sources) <=> p.sources \subseteq q.sources
  <2>1. p.sources \subseteq q.sources => Cardinality(p.sources) <= Cardinality(q.sources)
    BY <1>1, FS_Subset
  <2>2. ASSUME Cardinality(p.sources) <= Cardinality(q.sources), q.sources \subseteq p.sources
        PROVE  p.sources \subseteq q.sources
    <3>1. Cardinality(q.sources) <= Cardinality(p.sources)
      BY <1>1, <2>2, FS_Subset
    <3>2. Cardinality(q.sources) \in Nat /\ Cardinality(p.sources) \in Nat
      BY <1>1, FS_CardinalityType
    <3>3. Cardinality(p.sources) = Cardinality(q.sources)
      BY <2>2, <3>1, <3>2
    <3> QED
      BY <1>1, <2>2, <3>3, FS_Subset
  <2> QED
    BY <1>1, <1>2, <2>1, <2>2
<1> HIDE DEF prefixes
<1>3. Mcast!AssignedTo(prefixes, source) = Longest(prefixes, source)
  BY <1>2, CardinalityIsOne DEF Mcast!AssignedTo, Longest
<1> QED
  BY <1>3 DEF prefixes

\* A prefix with no stream in the table of either box.
LEMMA PrefixUnchanged ==
  ASSUME Judging, area = "inet2", NEW scope \in blocks, NEW p \in scope.prefixes, NEW row,
         baseline # NoCapture, row.check = "core_multicast_forwarding", row.about \in {<<p.name>>, <<"summary">>},
         RoutesOf(p, scope.prefixes, new) = {}, RoutesOf(p, scope.prefixes, old) = {}
  PROVE  Evidence(scope, row)
<1>1. After(scope) = Inet2Conditions(scope, new) /\ Before(scope) = Inet2Conditions(scope, old)
  BY DEF After, Before, Conditions
<1>2. ASSUME NEW view, RoutesOf(p, scope.prefixes, view) = {},
             NEW c \in {Fault("core_multicast_forwarding", <<p.name>>, <<p.name>>),
                        Fault("core_multicast_forwarding", <<"summary">>, <<p.name>>)}
      PROVE  c \in Inet2Conditions(scope, view)
  <2> DEFINE is(r, about) == {Fault("core_multicast_forwarding", Append(r.stream, about), r.stream)}
             part(q) ==
                IF RoutesOf(q, scope.prefixes, view) = {}
                THEN {Fault("core_multicast_forwarding", <<q.name>>, <<q.name>>),
                      Fault("core_multicast_forwarding", <<"summary">>, <<q.name>>)}
                ELSE UNION {If(view.vias[q.name] # Mcast!NoRoute /\ r.up \notin view.vias[q.name], is(r, "upstream"))
                            \cup If(r.down = {}, is(r, "downstream"))
                            \cup If(r.pps = 0, is(r, "rate")) : r \in RoutesOf(q, scope.prefixes, view)}
  <2>1. Inet2Conditions(scope, view) = UNION {part(q) : q \in scope.prefixes}
    BY DEF Inet2Conditions
  <2>2. c \in part(p)
    BY <1>2
  <2> HIDE DEF part
  <2> QED
    BY <2>1, <2>2
<1>3. p.name # "unknown"
  BY BlocksAssumption DEF Judging, JudgeInv
<1>4. "unknown" \notin {<<p.name>>[i] : i \in DOMAIN <<p.name>>}
  BY <1>3, KnownParts
<1> QED
  BY <1>1, <1>2, <1>4, FaultOfBoth

LEMMA Inet2Unchanged ==
  ASSUME Judging, area = "inet2", NEW scope \in blocks, NEW row \in verdict[scope], row.outcome = "unchanged"
  PROVE  Evidence(scope, row)
<1> DEFINE check == Mcast!CoreMulticastForwarding
           cp == Counterpart(scope)
           now == subject.data
           was == BaselineData
           prefixes == scope.prefixes
           streams(p, view) == Mcast!StreamsOf(p, cp.prefixes, view.routes)
           missing(view) == {p \in cp.prefixes : streams(p, view) = {}}
<1>1. Behind(check, cp, Mcast!CoreForwardingRows(cp, now, was, Captures), row)
  BY BlockJudged, DeactivationNotUnchanged, UnchangedIsFinding DEF Judged, Deactivations
<1>2. Collectors(area) = {"multicast_route", "routes"} /\ "routes" \in DOMAIN old \cap DOMAIN new
  <2>1. DOMAIN Empty["inet2"] = {"multicast_route", "routes"} /\ DOMAIN Empty["inet2"]["multicast_route"] = {"routes"}
    BY DEF Empty
  <2> QED
    BY <2>1, BothShown DEF Collectors
<1>3. now.routes = new.routes
  <2>1. check.requires = {"multicast_route", "routes"}
    BY DEF Mcast!CoreMulticastForwarding, Mcast!Multicast, Mcast!CheckClass
  <2> QED
    BY <1>1, <1>2, <2>1, AllNow DEF Behind
<1>4. BaselineMeasured(Captures, "multicast_route") => baseline # NoCapture /\ was.routes = old.routes
  <2>1. DOMAIN Empty["inet2"]["routes"] = {"vias"}
    BY DEF Empty
  <2>2. ASSUME BaselineMeasured(Captures, "multicast_route") PROVE Kept("routes", baseline.lost)
    BY <1>2, <2>1, <2>2, MeasuredBefore, LostAreCollectors DEF Kept
  <2> QED
    BY <1>2, <2>2, MeasuredBefore, BaselineSeen
<1>5. cp.prefixes = prefixes /\ \A p, view : streams(p, view) = RoutesOf(p, prefixes, view)
  <2>1. cp.prefixes = prefixes
    BY BlockJudged DEF Scopes
  <2> QED
    BY <2>1, LongestIsAssigned DEF Mcast!StreamsOf, RoutesOf
<1>6. PICK finding \in Mcast!CoreForwardingRows(cp, now, was, Captures) : Reports(row, finding)
  BY <1>1 DEF Behind
<1> DEFINE summary == Mcast!Row("core_multicast_forwarding", <<"summary">>,
              IF missing(now) = {} THEN "ok"
              ELSE Mcast!UnchangedOr("broken", Captures, "multicast_route",
                                     Captures.baseline /\ missing(now) \subseteq missing(was)))
<1>7. finding = summary \/ \E p \in prefixes : finding \in Mcast!CorePrefixRows(p, cp, now, was, Captures)
  <2> HIDE DEF now, was, cp
  <2> QED
    BY <1>5, <1>6 DEF Mcast!CoreForwardingRows
<1>8. CASE finding = summary
  <2>1. /\ row.check = "core_multicast_forwarding" /\ row.about = <<"summary">>
        /\ missing(now) # {} /\ missing(now) \subseteq missing(was) /\ BaselineMeasured(Captures, "multicast_route")
    BY <1>6, <1>8 DEF Reports, Mcast!Row, Mcast!UnchangedOr, Mcast!BaselineMeasured, BaselineMeasured
  <2>2. PICK p \in prefixes : p \in missing(now) /\ p \in missing(was)
    BY <1>5, <2>1
  <2>3. RoutesOf(p, prefixes, new) = {} /\ RoutesOf(p, prefixes, old) = {}
    <3>1. RoutesOf(p, prefixes, now) = {} /\ RoutesOf(p, prefixes, was) = {}
      BY <1>5, <2>2
    <3> QED
      BY <1>3, <1>4, <2>1, <3>1 DEF RoutesOf
  <2> QED
    BY <1>4, <2>1, <2>3, PrefixUnchanged
<1>9. ASSUME NEW p \in prefixes, finding \in Mcast!CorePrefixRows(p, cp, now, was, Captures)
      PROVE  Evidence(scope, row)
  <2>1. /\ row.check = "core_multicast_forwarding" /\ row.about = <<p.name>>
        /\ streams(p, now) = {} /\ streams(p, was) = {} /\ BaselineMeasured(Captures, "multicast_route")
    <3>1. \A r, vias : \A f \in Mcast!CoreStreamRows(r, vias) : f.outcome # "unchanged"
      BY DEF Mcast!CoreStreamRows, Mcast!Row, Mcast!RateOutcome
    <3>2. CASE streams(p, now) = {}
      BY <1>6, <1>9, <3>2
         DEF Mcast!CorePrefixRows, Reports, Mcast!Row, Mcast!UnchangedOr, Mcast!BaselineMeasured, BaselineMeasured
    <3>3. CASE streams(p, now) # {}
      <4>1. finding.outcome \in {"degraded", "ok"} \/ \E r, vias : finding \in Mcast!CoreStreamRows(r, vias)
        <5> DEFINE before == streams(p, was)
                   vias == now.vias[p.name]
                   names(routes) == {r.stream : r \in routes}
                   summaryOf == Mcast!Row("core_multicast_forwarding", <<p.name>>,
                          IF before # {} /\ names(before) # names(streams(p, now)) THEN "degraded" ELSE "ok")
        <5>1. finding = summaryOf \/ \E r : finding \in Mcast!CoreStreamRows(r, vias)
          <6> HIDE DEF now, was, cp
          <6> QED
            BY <1>9, <3>3 DEF Mcast!CorePrefixRows
        <5>2. summaryOf.outcome \in {"degraded", "ok"}
          BY DEF Mcast!Row
        <5> HIDE DEF summaryOf, vias
        <5> QED
          BY <5>1, <5>2
      <4> QED
        BY <1>6, <3>1, <4>1 DEF Reports
    <3> QED
      BY <3>2, <3>3
  <2>2. RoutesOf(p, prefixes, now) = {} /\ RoutesOf(p, prefixes, was) = {}
    BY <1>5, <2>1
  <2>3. RoutesOf(p, prefixes, new) = {} /\ RoutesOf(p, prefixes, old) = {}
    BY <1>3, <1>4, <2>1, <2>2 DEF RoutesOf
  <2> QED
    BY <1>4, <2>1, <2>3, PrefixUnchanged
<1> QED
  BY <1>7, <1>8, <1>9

\* What a check is given of the subject is what the new box shows or what a collector that
\* failed leaves.
LEMMA SubjectSeenOrEmpty ==
  ASSUME Judging, NEW f \in DOMAIN new, f # "pings"
  PROVE  \/ subject.data[f] = new[f]
         \/ \E c \in DOMAIN Empty[area] : f \in DOMAIN Empty[area][c] /\ subject.data[f] = Empty[area][c][f]
<1>1. /\ subject.data = Captured(area, new, subject.lost, Before4)
      /\ subject.lost \subseteq DOMAIN Empty[area]
  BY LostAreCollectors, ViewsAssumption DEF Judging, JudgeInv, Judgement, SubjectIsOfNew, Collectors
<1>2. f \in DOMAIN Seen(area, new, subject.lost) /\ subject.data[f] = Seen(area, new, subject.lost)[f]
  <2>1. f \in DOMAIN Seen(area, new, subject.lost)
    BY DEF Seen
  <2> QED
    BY <1>1, <2>1 DEF Captured
<1> QED
  BY <1>1, <1>2 DEF Seen

\* What the checks expect is what the box asks for, and an entry that they find for a
\* stream carries it.
LEMMA ExpectedIsAsked ==
  /\ \A view : Mcast!PimPairs(view) = Joined(view) /\ Mcast!ExpectedPairs(view) = Asked(view)
  /\ \A routes, s : Mcast!RoutesFor(routes, s) = {r \in routes : Carries(r, s)}
  BY DEF Mcast!PimPairs, Mcast!ExpectedPairs, Joined, Asked, Mcast!RoutesFor, Carries, Mcast!AnySource

LEMMA StreamIsKnown ==
  ASSUME NEW s, Stream(s)
  PROVE  "unknown" \notin {s[i] : i \in DOMAIN s}
<1>1. "unknown" \notin {<<s[1], s[2]>>[i] : i \in DOMAIN <<s[1], s[2]>>}
  BY KnownParts DEF Stream
<1> QED
  BY <1>1 DEF Stream

LEMMA StreamFaultIsKnown ==
  ASSUME NEW s, Stream(s), NEW fault, fault # "unknown"
  PROVE  "unknown" \notin {<<s[1], s[2], fault>>[i] : i \in DOMAIN <<s[1], s[2], fault>>}
<1>1. "unknown" \notin {s[1], s[2], fault}
  BY DEF Stream
<1> QED
  BY <1>1, KnownParts

\* A stream that is asked for and has no entry.
LEMMA EntryConditionOf ==
  ASSUME NEW view, view.mvpn.there, NEW asked, NEW s \in asked,
         Mcast!NoEntry \notin view.mvpn.entries, Mcast!CmulticastEntry(view.mvpn, s) = Mcast!NoEntry
  PROVE  Condition("mvpn_cmulticast_status", Append(s, "entry"), s, s \in Asked(view)) \in MvpnConditions(view, asked)
<1> DEFINE covered(q) == {e \in view.mvpn.entries : Carries(e, q)}
           tunnel(q) == IF q \in Asked(view) /\ \E e \in covered(q) : e.pe # "none"
                        THEN Note("mvpn_cmulticast_status", Append(q, "tunnel"), q)
                        ELSE Condition("mvpn_cmulticast_status", Append(q, "tunnel"), q, q \in Asked(view))
           part(q) == If(covered(q) = {}, {Condition("mvpn_cmulticast_status", Append(q, "entry"), q, q \in Asked(view))})
                      \cup If(\E e \in covered(q) : e.pe = "none", {tunnel(q)})
<1>1. covered(s) = {}
  <2>1. Mcast!RoutesFor(view.mvpn.entries, s) = covered(s)
    BY ExpectedIsAsked
  <2> HIDE DEF covered
  <2>2. ASSUME covered(s) # {} PROVE FALSE
    <3>1. Mcast!NoEntry \in covered(s)
      BY <2>1, <2>2 DEF Mcast!CmulticastEntry
    <3> QED
      BY <3>1 DEF covered
  <2> QED
    BY <2>2
<1>2. Condition("mvpn_cmulticast_status", Append(s, "entry"), s, s \in Asked(view)) \in part(s)
  BY <1>1 DEF If
<1>3. UNION {part(q) : q \in asked} \subseteq MvpnConditions(view, asked)
  BY DEF MvpnConditions, If
<1> HIDE DEF part
<1> QED
  BY <1>2, <1>3

LEMMA MvpnUnchanged ==
  ASSUME Judging, area = "mvpn", NEW scope \in blocks, NEW row \in verdict[scope], row.outcome = "unchanged"
  PROVE  Evidence(scope, row)
<1> DEFINE check == Mcast!MvpnCmulticastStatus
           now == subject.data
           was == BaselineData
           asked == Asked(old) \cup Asked(new)
<1>1. Behind(check, Counterpart(scope), Mcast!MvpnRows(now, was, Captures), row)
  BY BlockJudged, DeactivationNotUnchanged, UnchangedIsFinding DEF Judged, Deactivations
<1>2. /\ Collectors(area) = {"igmp_group", "pim_join", "mvpn_instance"}
      /\ {"igmp", "pim", "mvpn"} \subseteq DOMAIN old \cap DOMAIN new
      /\ \A c \in DOMAIN Empty[area] : /\ "mvpn" \in DOMAIN Empty[area][c] => c = "mvpn_instance"
                                       /\ "pim" \in DOMAIN Empty[area][c] => c = "pim_join"
                                       /\ "igmp" \in DOMAIN Empty[area][c] => Empty[area][c]["igmp"] = {}
  <2>1. /\ DOMAIN Empty["mvpn"] = {"igmp_group", "pim_join", "mvpn_instance"}
        /\ DOMAIN Empty["mvpn"]["igmp_group"] = {"igmp"} /\ DOMAIN Empty["mvpn"]["pim_join"] = {"pim"}
        /\ DOMAIN Empty["mvpn"]["mvpn_instance"] = {"mvpn"} /\ Empty["mvpn"]["igmp_group"]["igmp"] = {}
    BY DEF Empty
  <2> QED
    BY <2>1, BothShown DEF Collectors
<1>3. now.mvpn = new.mvpn /\ now.pim = new.pim
  <2>1. check.requires = {"mvpn_instance", "pim_join"}
    BY DEF Mcast!MvpnCmulticastStatus, Mcast!Multicast, Mcast!CheckClass
  <2>2. subject.lost \cap {"mvpn_instance", "pim_join"} = {} /\ subject.lost \subseteq DOMAIN Empty[area]
    BY <1>1, <2>1, CollectedNow, LostAreCollectors DEF Behind, Collectors
  <2>3. Kept("mvpn", subject.lost) /\ Kept("pim", subject.lost)
    BY <1>2, <2>2 DEF Kept
  <2> QED
    BY <1>2, <2>3, SubjectSeen
<1>4. BaselineMeasured(Captures, "mvpn_instance") => baseline # NoCapture /\ was.mvpn = old.mvpn
  <2>1. ASSUME BaselineMeasured(Captures, "mvpn_instance") PROVE Kept("mvpn", baseline.lost)
    BY <1>2, <2>1, MeasuredBefore, LostAreCollectors DEF Kept, Collectors
  <2> QED
    BY <1>2, <2>1, MeasuredBefore, BaselineSeen
<1>5. Asked(now) \subseteq Asked(new)
  <2>1. now.igmp \in {new.igmp, {}}
    BY <1>2, SubjectSeenOrEmpty
  <2> QED
    BY <1>3, <2>1 DEF Asked, Joined
<1>6. PICK finding \in Mcast!MvpnRows(now, was, Captures) : Reports(row, finding)
  BY <1>1 DEF Behind
<1>7. PICK s \in Asked(now) : now.mvpn.there /\ finding \in Mcast!CmulticastRows(now, was, Captures, s)
  <2> HIDE DEF now, was
  <2>1. finding \notin {Mcast!Row("mvpn_cmulticast_status", <<"all">>, "skip"),
                        Mcast!Row("mvpn_cmulticast_status", <<"instance">>, "broken")}
    BY <1>6 DEF Reports, Mcast!Row
  <2> QED
    BY <1>6, <2>1, ExpectedIsAsked DEF Mcast!MvpnRows
<1>8. /\ row.check = "mvpn_cmulticast_status" /\ row.about = Append(s, "entry")
      /\ Mcast!CmulticastEntry(now.mvpn, s) = Mcast!NoEntry
      /\ Mcast!CmulticastEntry(was.mvpn, s) = Mcast!NoEntry
      /\ was.mvpn.there /\ BaselineMeasured(Captures, "mvpn_instance")
  <2> HIDE DEF now, was
  <2>1. \A entry, before : Mcast!TunnelOutcome(entry, before) # "unchanged"
    BY DEF Mcast!TunnelOutcome
  <2> QED
    BY <1>6, <1>7, <2>1
       DEF Mcast!CmulticastRows, Reports, Mcast!Row, Mcast!UnchangedOr, Mcast!BaselineMeasured, BaselineMeasured
<1>9. Shown("mvpn", old) /\ Shown("mvpn", new)
  BY BothShown
<1>10. Mcast!NoEntry \notin old.mvpn.entries /\ Mcast!NoEntry \notin new.mvpn.entries /\ Stream(s)
  <2>1. s \in new.igmp \cup {j.stream : j \in new.pim}
    BY <1>5, <1>7 DEF Asked, Joined
  <2> QED
    BY <1>9, <2>1 DEF Shown
<1>11. After(scope) = MvpnConditions(new, asked) /\ Before(scope) = MvpnConditions(old, asked)
  BY DEF After, Before, AskedOf, Conditions
<1>12. s \in asked
  BY <1>5, <1>7
<1> HIDE DEF asked
<1>13. /\ Condition("mvpn_cmulticast_status", Append(s, "entry"), s, s \in Asked(new)) \in After(scope)
       /\ Condition("mvpn_cmulticast_status", Append(s, "entry"), s, s \in Asked(old)) \in Before(scope)
  BY <1>3, <1>4, <1>7, <1>8, <1>10, <1>11, <1>12, EntryConditionOf
<1>14. "unknown" \notin {s[i] : i \in DOMAIN s}
  BY <1>10, StreamIsKnown
<1> QED
  BY <1>4, <1>8, <1>13, <1>14, ConditionOfBoth

\* Where the conditions of a stream are among those of the table.
LEMMA ForwardingConditionsOf ==
  ASSUME NEW view, NEW asked, NEW s \in asked
  PROVE  /\ {r \in view.routes : Carries(r, s)} = {} => AbsentCondition(view, s) \in ForwardingConditions(view, asked)
         /\ \A r \in view.routes : Carries(r, s) => CarriedConditions(view, r, s)
                                                  \subseteq ForwardingConditions(view, asked)
<1> DEFINE carrying(q) == {r \in view.routes : Carries(r, q)}
           part(q) == IF carrying(q) = {} THEN {AbsentCondition(view, q)}
                      ELSE UNION {CarriedConditions(view, r, q) : r \in carrying(q)}
<1>1. ForwardingConditions(view, asked) = UNION {part(q) : q \in asked}
  BY DEF ForwardingConditions
<1>2. part(s) \subseteq ForwardingConditions(view, asked)
  <2> HIDE DEF part
  <2> QED
    BY <1>1
<1>3. carrying(s) = {} => AbsentCondition(view, s) \in part(s)
  OBVIOUS
<1>4. \A r \in view.routes : Carries(r, s) => CarriedConditions(view, r, s) \subseteq part(s)
  OBVIOUS
<1> HIDE DEF part
<1> QED
  BY <1>2, <1>3, <1>4

\* Who asks for a stream has a role in it.
LEMMA AskedHasRole ==
  ASSUME NEW view, Shown("streams", view), NEW s \in Asked(view)
  PROVE  /\ Mcast!Roles(view, s) # {} /\ Mcast!Roles(view, s) \subseteq {"receiver", "sender"}
         /\ Stream(s)
<1>1. \A j \in view.pim : j.roles \subseteq {"receiver", "sender"}
  BY DEF Shown
<1>2. \A q \in view.igmp \cup {j.stream : j \in view.pim} : Stream(q)
  BY DEF Shown
<1> QED
  BY <1>1, <1>2 DEF Mcast!Roles, Mcast!RECEIVER, Asked, Joined

\* An unchanged row of an entry is a fault that the entry of the baseline had.
LEMMA EntryUnchanged ==
  ASSUME NEW r, NEW roles, roles # {}, roles \subseteq {"receiver", "sender"}, NEW was,
         NEW finding \in Mcast!StreamRows(r, roles, was, Captures), finding.outcome = "unchanged"
  PROVE  /\ finding.check = "multicast_forwarding_status" /\ finding.about = Append(r.stream, "stream")
         /\ BaselineMeasured(Captures, "multicast_route")
         /\ \E b \in was.routes : /\ b.stream = r.stream
                                  /\ \/ r.down = {} /\ b.down = {}
                                     \/ "service" \notin r.down /\ "service" \notin b.down
<1> DEFINE b == Mcast!BaselineRoute(was, r)
           receives == "receiver" \in roles /\ "service" \in r.down
           sends == "sender" \in roles /\ r.down # {}
           same(outcome, fault) == Mcast!UnchangedOr(outcome, Captures, "multicast_route", b # Mcast!NoStream /\ fault)
           row(about, outcome) == Mcast!Row("multicast_forwarding_status", Append(r.stream, about), outcome)
<1>1. ASSUME NEW about, NEW outcome, finding = row(about, outcome)
      PROVE  /\ outcome = "unchanged"
             /\ finding.check = "multicast_forwarding_status" /\ finding.about = Append(r.stream, about)
  BY <1>1 DEF Mcast!Row
<1>2. ASSUME NEW outcome, NEW fault, same(outcome, fault) = "unchanged", outcome # "unchanged"
      PROVE  b # Mcast!NoStream /\ fault /\ BaselineMeasured(Captures, "multicast_route")
  BY <1>2 DEF Mcast!UnchangedOr, Mcast!BaselineMeasured, BaselineMeasured
<1>3. b # Mcast!NoStream => b \in was.routes /\ b.stream = r.stream
  <2> DEFINE matching == {q \in was.routes : q.stream = r.stream}
  <2>1. b = IF matching = {} THEN Mcast!NoStream ELSE CHOOSE q \in matching : TRUE
    BY DEF Mcast!BaselineRoute
  <2>2. b # Mcast!NoStream => b \in matching
    <3> HIDE DEF matching, b
    <3> QED
      BY <2>1
  <2> QED
    BY <2>2
<1> HIDE DEF b
<1>4. CASE (sends /\ ~receives) \/ roles = {"sender"}
  <2>1. finding \in {row("rate", Mcast!RateOutcome(r)),
                     row("stream", IF sends THEN "ok" ELSE same("degraded", b.down = {})),
                     row("upstream", IF r.up = "service" THEN "ok" ELSE "broken")}
    BY <1>4 DEF Mcast!StreamRows, Mcast!RECEIVER, Mcast!SENDER, b
  <2>2. Mcast!RateOutcome(r) # "unchanged"
    BY DEF Mcast!RateOutcome
  <2> HIDE DEF row
  <2>3. finding = row("stream", IF sends THEN "ok" ELSE same("degraded", b.down = {}))
    BY <1>1, <2>1, <2>2
  <2>4. ~sends /\ same("degraded", b.down = {}) = "unchanged"
    BY <1>1, <2>3
  <2>5. r.down = {} /\ b.down = {} /\ b # Mcast!NoStream /\ BaselineMeasured(Captures, "multicast_route")
    BY <1>2, <1>4, <2>4
  <2> QED
    BY <1>1, <1>3, <2>3, <2>5
<1>5. CASE ~((sends /\ ~receives) \/ roles = {"sender"})
  <2>1. finding \in {row("rate", Mcast!RateOutcome(r)),
                     row("stream", IF receives THEN "ok" ELSE same("broken", "service" \notin b.down)),
                     row("upstream", IF r.up \in {"service", "allowed"} THEN "ok" ELSE "broken")}
    BY <1>5 DEF Mcast!StreamRows, Mcast!RECEIVER, Mcast!SENDER, b
  <2>2. Mcast!RateOutcome(r) # "unchanged"
    BY DEF Mcast!RateOutcome
  <2> HIDE DEF row
  <2>3. finding = row("stream", IF receives THEN "ok" ELSE same("broken", "service" \notin b.down))
    BY <1>1, <2>1, <2>2
  <2>4. ~receives /\ same("broken", "service" \notin b.down) = "unchanged"
    BY <1>1, <2>3
  <2>5. "service" \notin b.down /\ b # Mcast!NoStream /\ BaselineMeasured(Captures, "multicast_route")
    BY <1>2, <2>4
  <2>6. "receiver" \in roles
    BY <1>5
  <2> QED
    BY <1>1, <1>3, <2>3, <2>4, <2>5, <2>6
<1> QED
  BY <1>4, <1>5

\* An entry whose stream goes nowhere, or not to the service.
LEMMA CarriedConditionsOf ==
  ASSUME NEW view, NEW r, NEW s
  PROVE  /\ r.down = {} =>
               \E fault : Condition("multicast_forwarding_status", Append(r.stream, "stream"),
                                   <<r.stream[1], r.stream[2], "not sent">>, fault) \in CarriedConditions(view, r, s)
         /\ "service" \notin r.down =>
               \E fault : Condition("multicast_forwarding_status", Append(r.stream, "stream"),
                                   <<r.stream[1], r.stream[2], "not received">>, fault) \in CarriedConditions(view, r, s)
  BY DEF CarriedConditions, If

\* An unchanged row of a stream is a condition of the table on both boxes.
LEMMA PairUnchanged ==
  ASSUME Judging, area = "streams", NEW asked, NEW s \in asked, s \in Asked(new), NEW was,
         BaselineMeasured(Captures, "multicast_route") => was.routes = old.routes,
         NEW finding \in Mcast!PairRows(new, was, Captures, s), finding.outcome = "unchanged"
  PROVE  /\ BaselineMeasured(Captures, "multicast_route")
         /\ finding.check = "multicast_forwarding_status"
         /\ \E what, about, now, before :
               /\ Condition(finding.check, finding.about, what, now) \in ForwardingConditions(new, asked)
               /\ Condition(finding.check, about, what, before) \in ForwardingConditions(old, asked)
               /\ "unknown" \notin {what[i] : i \in DOMAIN what}
<1> DEFINE id == "multicast_forwarding_status"
           roles(view) == Mcast!Roles(view, s)
           carrying(view) == {r \in view.routes : Carries(r, s)}
<1>1. Shown("streams", old) /\ Shown("streams", new)
  BY BothShown
<1>2. \A view : Mcast!RoutesFor(view.routes, s) = carrying(view)
  BY ExpectedIsAsked
<1>3. roles(new) # {} /\ roles(new) \subseteq {"receiver", "sender"} /\ Stream(s)
  BY <1>1, AskedHasRole
<1>4. CASE carrying(new) = {}
  <2>1. finding = Mcast!Row(id, Append(s, "table"),
                     Mcast!UnchangedOr("degraded", Captures, "multicast_route", carrying(was) = {}))
    BY <1>2, <1>4 DEF Mcast!PairRows
  <2>2. /\ finding.check = id /\ finding.about = Append(s, "table")
        /\ BaselineMeasured(Captures, "multicast_route") /\ carrying(was) = {}
    BY <2>1 DEF Mcast!Row, Mcast!UnchangedOr, Mcast!BaselineMeasured, BaselineMeasured
  <2>3. carrying(old) = {}
    BY <2>2
  <2>4. /\ AbsentCondition(new, s) \in ForwardingConditions(new, asked)
        /\ AbsentCondition(old, s) \in ForwardingConditions(old, asked)
    BY <1>4, <2>3, ForwardingConditionsOf
  <2>5. "unknown" \notin {<<s[1], s[2], "absent">>[i] : i \in DOMAIN <<s[1], s[2], "absent">>}
    BY <1>3, StreamFaultIsKnown
  <2> QED
    BY <2>2, <2>4, <2>5 DEF AbsentCondition
<1>5. CASE carrying(new) # {}
  <2>1. PICK r \in carrying(new) : finding \in Mcast!StreamRows(r, roles(new), was, Captures)
    BY <1>2, <1>5 DEF Mcast!PairRows
  <2>2. /\ finding.check = id /\ finding.about = Append(r.stream, "stream")
        /\ BaselineMeasured(Captures, "multicast_route")
        /\ \E b \in was.routes : /\ b.stream = r.stream
                                 /\ \/ r.down = {} /\ b.down = {}
                                    \/ "service" \notin r.down /\ "service" \notin b.down
    <3> DEFINE own == roles(new)
    <3>1. own # {} /\ own \subseteq {"receiver", "sender"} /\ finding \in Mcast!StreamRows(r, own, was, Captures)
      BY <1>3, <2>1
    <3> HIDE DEF own, carrying
    <3> QED
      BY <3>1, EntryUnchanged
  <2>3. PICK b \in was.routes : /\ b.stream = r.stream
                                /\ \/ r.down = {} /\ b.down = {}
                                   \/ "service" \notin r.down /\ "service" \notin b.down
    BY <2>2
  <2>4. b \in carrying(old) /\ r \in carrying(new)
    BY <2>1, <2>2, <2>3 DEF Carries
  <2>5. CarriedConditions(new, r, s) \subseteq ForwardingConditions(new, asked)
        /\ CarriedConditions(old, b, s) \subseteq ForwardingConditions(old, asked)
    BY <2>4, ForwardingConditionsOf
  <2>6. Stream(r.stream)
    BY <1>1, <2>4 DEF Shown
  <2> DEFINE what(fault) == <<r.stream[1], r.stream[2], fault>>
  <2>7. \A fault \in {"not sent", "not received"} : "unknown" \notin {what(fault)[i] : i \in DOMAIN what(fault)}
    BY <2>6, StreamFaultIsKnown
  <2>8. PICK fault \in {"not sent", "not received"} :
            \A view, q : q \in {r, b} =>
               \E isFault : Condition(id, Append(r.stream, "stream"), what(fault), isFault)
                             \in CarriedConditions(view, q, s)
    <3>1. CASE r.down = {} /\ b.down = {}
      BY <2>3, <3>1, CarriedConditionsOf
    <3>2. CASE "service" \notin r.down /\ "service" \notin b.down
      BY <2>3, <3>2, CarriedConditionsOf
    <3> QED
      BY <2>3, <3>1, <3>2
  <2> HIDE DEF what
  <2>9. PICK now : Condition(id, Append(r.stream, "stream"), what(fault), now) \in CarriedConditions(new, r, s)
    BY <2>8
  <2>10. PICK before : Condition(id, Append(r.stream, "stream"), what(fault), before) \in CarriedConditions(old, b, s)
    BY <2>8
  <2>11. /\ Condition(finding.check, finding.about, what(fault), now) \in ForwardingConditions(new, asked)
         /\ Condition(finding.check, finding.about, what(fault), before) \in ForwardingConditions(old, asked)
    BY <2>2, <2>5, <2>9, <2>10
  <2> QED
    BY <2>2, <2>7, <2>11
<1> QED
  BY <1>4, <1>5

\* The report of a protocol is unchanged if neither box has a stream of it.
LEMMA ReportUnchanged ==
  ASSUME NEW now, NEW was, NEW other, NEW failed, NEW scope, NEW c,
         Mcast!ReportOutcome(now, was, other, failed, scope, Captures, c) = "unchanged"
  PROVE  now = {} /\ was = {} /\ BaselineMeasured(Captures, c)
  BY DEF Mcast!ReportOutcome, Mcast!UnchangedOr, Mcast!BaselineMeasured, BaselineMeasured

\* A summary that is unchanged has a stream that is.
LEMMA SummaryUnchanged ==
  ASSUME NEW pairs, NEW now, NEW was,
         Mcast!ForwardingSummary({Mcast!PairKind(Mcast!PairRows(now, was, Captures, s)) : s \in pairs}, Captures)
            = "unchanged"
  PROVE  /\ BaselineMeasured(Captures, "multicast_route")
         /\ \E s \in pairs : \E r \in Mcast!PairRows(now, was, Captures, s) : r.outcome = "unchanged"
<1>1. /\ BaselineMeasured(Captures, "multicast_route")
      /\ \E s \in pairs : Mcast!PairKind(Mcast!PairRows(now, was, Captures, s)) \notin {"hard", "fine", "soft"}
  BY DEF Mcast!ForwardingSummary, Mcast!UnchangedOr, Mcast!BaselineMeasured, BaselineMeasured
<1> QED
  BY <1>1 DEF Mcast!PairKind

LEMMA StreamsUnchanged ==
  ASSUME Judging, area = "streams", NEW scope \in blocks, NEW row \in verdict[scope], row.outcome = "unchanged"
  PROVE  Evidence(scope, row)
<1> DEFINE cp == Counterpart(scope)
           now == subject.data
           was == BaselineData
           asked == Asked(old) \cup Asked(new)
           silent == {<<"silent">>[i] : i \in DOMAIN <<"silent">>}
<1>1. \/ Behind(Mcast!IgmpMembershipReport, cp, Mcast!IgmpRows(cp, now, was, Captures), row)
      \/ Behind(Mcast!PimJoin, cp, Mcast!PimRows(cp, now, was, Captures), row)
      \/ Behind(Mcast!MulticastForwardingStatus, cp, Mcast!ForwardingRows(now, was, Captures), row)
  BY BlockJudged, DeactivationNotUnchanged, UnchangedIsFinding DEF Judged, Deactivations
<1>2. /\ Collectors(area) = {"igmp_group", "pim_join", "multicast_route"}
      /\ {"igmp", "pim", "routes"} \subseteq DOMAIN old \cap DOMAIN new
      /\ \A c \in DOMAIN Empty[area] : /\ "igmp" \in DOMAIN Empty[area][c] => c = "igmp_group"
                                       /\ "pim" \in DOMAIN Empty[area][c] => c = "pim_join"
                                       /\ "routes" \in DOMAIN Empty[area][c] => c = "multicast_route"
  <2>1. /\ DOMAIN Empty["streams"] = {"igmp_group", "pim_join", "multicast_route"}
        /\ DOMAIN Empty["streams"]["igmp_group"] = {"igmp"} /\ DOMAIN Empty["streams"]["pim_join"] = {"pim"}
        /\ DOMAIN Empty["streams"]["multicast_route"] = {"routes"}
    BY DEF Empty
  <2> QED
    BY <2>1, BothShown DEF Collectors
<1>3. ASSUME NEW f \in {"igmp", "pim", "routes"}, NEW c \in Collectors(area),
             \A d \in DOMAIN Empty[area] : f \in DOMAIN Empty[area][d] => d = c
      PROVE  /\ c \notin subject.lost => now[f] = new[f]
             /\ BaselineMeasured(Captures, c) => baseline # NoCapture /\ was[f] = old[f]
  <2>1. ASSUME c \notin subject.lost PROVE Kept(f, subject.lost)
    BY <1>3, <2>1, LostAreCollectors DEF Kept, Collectors
  <2>2. ASSUME BaselineMeasured(Captures, c) PROVE baseline # NoCapture /\ Kept(f, baseline.lost)
    BY <1>2, <1>3, <2>2, MeasuredBefore, LostAreCollectors DEF Kept, Collectors
  <2> QED
    BY <1>2, <2>1, <2>2, SubjectSeen, BaselineSeen
<1>4. /\ "igmp_group" \notin subject.lost => now.igmp = new.igmp
      /\ BaselineMeasured(Captures, "igmp_group") => baseline # NoCapture /\ was.igmp = old.igmp
      /\ "pim_join" \notin subject.lost => now.pim = new.pim
      /\ BaselineMeasured(Captures, "pim_join") => baseline # NoCapture /\ was.pim = old.pim
      /\ "multicast_route" \notin subject.lost => now.routes = new.routes
      /\ BaselineMeasured(Captures, "multicast_route") => baseline # NoCapture /\ was.routes = old.routes
  BY <1>2, <1>3
<1>5. After(scope) = StreamConditions(scope, new, asked) /\ Before(scope) = StreamConditions(scope, old, asked)
  BY DEF After, Before, AskedOf, Conditions
<1>6. cp.igmp = scope.igmp /\ cp.pim = scope.pim
  BY BlockJudged DEF Scopes
<1>7. "unknown" \notin silent
  BY KnownParts
<1> HIDE DEF now, was, cp, asked
<1>8. CASE Behind(Mcast!IgmpMembershipReport, cp, Mcast!IgmpRows(cp, now, was, Captures), row)
  <2>1. "igmp_group" \notin subject.lost
    BY <1>8, CollectedNow DEF Behind, Mcast!IgmpMembershipReport, Mcast!Multicast, Mcast!CheckClass
  <2>2. /\ row.check = "igmp_membership_report" /\ row.about = <<"report">> /\ scope.igmp
        /\ now.igmp = {} /\ was.igmp = {} /\ BaselineMeasured(Captures, "igmp_group")
    BY <1>6, <1>8, ReportUnchanged DEF Behind, Reports, Mcast!IgmpRows, Mcast!Row
  <2>3. /\ Condition(row.check, row.about, <<"silent">>, Joined(new) = {}) \in After(scope)
        /\ Condition(row.check, row.about, <<"silent">>, Joined(old) = {}) \in Before(scope)
    BY <1>4, <1>5, <2>1, <2>2 DEF StreamConditions, If
  <2>4. baseline # NoCapture
    BY <1>4, <2>2
  <2> QED
    BY <1>7, <2>3, <2>4, ConditionOfBoth
<1>9. CASE Behind(Mcast!PimJoin, cp, Mcast!PimRows(cp, now, was, Captures), row)
  <2>1. "pim_join" \notin subject.lost
    BY <1>9, CollectedNow DEF Behind, Mcast!PimJoin, Mcast!Multicast, Mcast!CheckClass
  <2>2. /\ row.check = "pim_join" /\ row.about = <<"join">> /\ scope.pim
        /\ Joined(now) = {} /\ Joined(was) = {} /\ BaselineMeasured(Captures, "pim_join")
    BY <1>6, <1>9, ReportUnchanged, ExpectedIsAsked DEF Behind, Reports, Mcast!PimRows, Mcast!Row
  <2>3. Joined(new) = {} /\ Joined(old) = {}
    BY <1>4, <2>1, <2>2 DEF Joined
  <2>4. /\ Condition(row.check, row.about, <<"silent">>, new.igmp = {}) \in After(scope)
        /\ Condition(row.check, row.about, <<"silent">>, old.igmp = {}) \in Before(scope)
    BY <1>5, <2>2, <2>3 DEF StreamConditions, If
  <2>5. baseline # NoCapture
    BY <1>4, <2>2
  <2> QED
    BY <1>7, <2>4, <2>5, ConditionOfBoth
<1>10. CASE Behind(Mcast!MulticastForwardingStatus, cp, Mcast!ForwardingRows(now, was, Captures), row)
  <2>1. now.igmp = new.igmp /\ now.pim = new.pim /\ now.routes = new.routes
    <3>1. Mcast!MulticastForwardingStatus.requires = {"igmp_group", "multicast_route", "pim_join"}
      BY DEF Mcast!MulticastForwardingStatus, Mcast!Multicast, Mcast!CheckClass
    <3> QED
      BY <1>4, <1>10, <3>1, CollectedNow DEF Behind
  <2>2. Mcast!ExpectedPairs(now) = Asked(new)
    BY <2>1, ExpectedIsAsked DEF Asked, Joined
  <2>3. \A s : Mcast!PairRows(now, was, Captures, s) = Mcast!PairRows(new, was, Captures, s)
    BY <2>1 DEF Mcast!PairRows, Mcast!Roles
  <2>4. PICK finding \in Mcast!ForwardingRows(now, was, Captures) : Reports(row, finding)
    BY <1>10 DEF Behind
  <2> DEFINE kinds == {Mcast!PairKind(Mcast!PairRows(new, was, Captures, s)) : s \in Asked(new)}
             summary == Mcast!Row("multicast_forwarding_status", <<"summary">>, Mcast!ForwardingSummary(kinds, Captures))
  <2>5. finding = summary \/ \E s \in Asked(new) : finding \in Mcast!PairRows(new, was, Captures, s)
    <3>1. finding # Mcast!Row("multicast_forwarding_status", <<"all">>, "skip")
      BY <2>4 DEF Reports, Mcast!Row
    <3> QED
      BY <2>2, <2>3, <2>4, <3>1 DEF Mcast!ForwardingRows
  <2>6. Asked(new) \subseteq asked
    BY DEF asked
  <2>7. \A view : ForwardingConditions(view, asked) \subseteq StreamConditions(scope, view, asked)
    BY DEF StreamConditions
  <2>8. CASE finding = summary
    <3>1. /\ row.check = "multicast_forwarding_status" /\ row.about = <<"summary">>
          /\ Mcast!ForwardingSummary(kinds, Captures) = "unchanged"
      BY <2>4, <2>8 DEF Reports, Mcast!Row
    <3>2. PICK s \in Asked(new) : \E r \in Mcast!PairRows(new, was, Captures, s) : r.outcome = "unchanged"
      BY <3>1, SummaryUnchanged
    <3>3. PICK r \in Mcast!PairRows(new, was, Captures, s) : r.outcome = "unchanged"
      BY <3>2
    <3>4. /\ BaselineMeasured(Captures, "multicast_route")
          /\ ForwardingConditions(new, asked) # {} /\ ForwardingConditions(old, asked) # {}
      BY <1>4, <2>6, <3>3, PairUnchanged
    <3>5. /\ Condition("multicast_forwarding_status", <<"summary">>, <<"impaired">>, FALSE) \in After(scope)
          /\ Condition("multicast_forwarding_status", <<"summary">>, <<"impaired">>, FALSE) \in Before(scope)
      BY <1>5, <3>4 DEF StreamConditions, If
    <3>6. "unknown" \notin {<<"impaired">>[i] : i \in DOMAIN <<"impaired">>}
      BY KnownParts
    <3>7. SameFault(scope, row, <<"impaired">>)
      BY <3>1, <3>5, <3>6 DEF SameFault, Condition
    <3> QED
      BY <1>4, <3>4, <3>7, SameIsEvidence
  <2>9. ASSUME NEW s \in Asked(new), finding \in Mcast!PairRows(new, was, Captures, s)
        PROVE  Evidence(scope, row)
    <3>1. finding.outcome = "unchanged" /\ row.check = finding.check /\ row.about = finding.about
      BY <2>4 DEF Reports
    <3>2. BaselineMeasured(Captures, "multicast_route")
      BY <1>4, <2>6, <2>9, <3>1, PairUnchanged
    <3>3. PICK what, about, after, before :
               /\ Condition(finding.check, finding.about, what, after) \in ForwardingConditions(new, asked)
               /\ Condition(finding.check, about, what, before) \in ForwardingConditions(old, asked)
               /\ "unknown" \notin {what[i] : i \in DOMAIN what}
      BY <1>4, <2>6, <2>9, <3>1, PairUnchanged
    <3> QED
      BY <1>4, <1>5, <2>7, <3>1, <3>2, <3>3, ConditionOfBoth
  <2> QED
    BY <2>5, <2>8, <2>9
<1> QED
  BY <1>1, <1>8, <1>9, <1>10

LEMMA UnchangedHasEvidence ==
  ASSUME Judging, NEW scope \in blocks, NEW row \in verdict[scope], row.outcome = "unchanged"
  PROVE  Evidence(scope, row)
<1>1. area \in DOMAIN Empty
  BY BothShown
<1>2. DOMAIN Empty = {"bgp", "bfd", "isis", "isisport", "overload", "ldp", "pim", "mpls", "transit", "ports",
                      "optics", "static", "aggregate", "reach4", "reach6", "vpws", "esi", "evpn", "mac",
                      "streams", "mvpn", "inet2"}
  BY DEF Empty
<1>3. CASE area \in {"bgp", "bfd"}
  BY <1>3, BgpUnchanged, BfdUnchanged
<1>4. CASE area \in {"isis", "isisport", "overload"}
  BY <1>4, IsisUnchanged, StatesNotUnchanged
<1>5. CASE area \in {"ldp", "pim", "mpls", "transit"}
  BY <1>5, NeighborsUnchanged, MplsUnchanged, TransitUnchanged
<1>6. CASE area \in {"ports", "optics"}
  BY <1>6, PortsUnchanged, OpticsUnchanged
<1>7. CASE area \in {"static", "aggregate", "reach4", "reach6"}
  BY <1>7, RoutesUnchanged, ReachUnchanged DEF ReachAreas
<1>8. CASE area \in {"vpws", "esi", "evpn", "mac"}
  BY <1>8, VpwsUnchanged, EsiUnchanged, EvpnUnchanged, MacUnchanged
<1>9. CASE area \in {"streams", "mvpn", "inet2"}
  BY <1>9, StreamsUnchanged, MvpnUnchanged, Inet2Unchanged
<1> QED
  BY <1>1, <1>2, <1>3, <1>4, <1>5, <1>6, <1>7, <1>8, <1>9

\* Whenever a row says that a fault is as it was before the migration, a baseline was
\* taken and the old box really had that fault: "unchanged" is a pass (unchanged_or in
\* checks/baseline.py, and the comparison of every check).
THEOREM UnchangedEarned == Spec => []UnchangedIsEvidence
<1>1. JudgeInv => UnchangedIsEvidence
  BY UnchangedHasEvidence DEF UnchangedIsEvidence, Judging, Evidence
<1> QED
  BY <1>1, JudgeInvariance, PTL

-----------------------------------------------------------------------------
(* A healthy service is not blamed.                                        *)

\* The service is as it should be on both boxes, and configured alike.
Healthy(scope) == ~scope.off /\ SameConfiguration /\ Sound(Before(scope)) /\ Sound(After(scope))

\* What a check may say of a healthy service; a difference only where there is one.
Mild(outcome, severity) ==
    \/ outcome \in {"ok", "info", "recovered", "unchanged", "skip"}
    \/ old # new /\ (outcome = "degraded" \/ (outcome = "broken" /\ severity = "advisory"))
Harmless(row) ==
    /\ row.status = "FAIL" => row.check \in Raised
    /\ old = new => row.outcome \notin Faulty

LEMMA MildRows ==
  ASSUME NEW check, NEW applies, NEW scope, NEW captures, NEW findings,
         applies /\ ~SkippedByFrame(check, scope, captures) => \A f \in findings : Mild(f.outcome, "critical")
  PROVE  \A row \in RunCheck(check, applies, scope, captures, profile, findings) : Harmless(row)
<1> SUFFICES ASSUME NEW row \in RunCheck(check, applies, scope, captures, profile, findings) PROVE Harmless(row)
  OBVIOUS
<1>1. CASE row.outcome = "skip"
  <2>1. row.status = DeriveStatus(row.outcome, SeverityOf(check, profile))
    BY DEF RunCheck
  <2> QED
    BY <1>1, <2>1 DEF Harmless, Faulty, DeriveStatus
<1>2. CASE row.outcome # "skip"
  <2>1. /\ applies /\ ~SkippedByFrame(check, scope, captures)
        /\ row.status = DeriveStatus(row.outcome, SeverityOf(check, profile))
    BY <1>2, RowsAreFindings
  <2>2. PICK f \in findings : Reports(row, f)
    BY <1>2, RowsAreFindings
  <2>3. Mild(row.outcome, "critical")
    BY <2>1, <2>2 DEF Reports
  <2> QED
    BY <2>1, <2>3 DEF Harmless, Faulty, Mild, DeriveStatus
<1> QED
  BY <1>1, <1>2

\* An advisory check fails a service only if the profile calls it critical.
LEMMA MildAdvisoryRows ==
  ASSUME NEW check \in AdvisoryChecks, NEW applies, NEW scope, NEW captures, NEW findings,
         \A f \in findings : f.check = check.id,
         applies /\ ~SkippedByFrame(check, scope, captures) => \A f \in findings : Mild(f.outcome, "advisory")
  PROVE  \A row \in RunCheck(check, applies, scope, captures, profile, findings) : Harmless(row)
<1> SUFFICES ASSUME NEW row \in RunCheck(check, applies, scope, captures, profile, findings) PROVE Harmless(row)
  OBVIOUS
<1>1. row.check = check.id
  BY RowsNamed
<1>2. SeverityOf(check, profile) = "critical" => row.check \in Raised
  BY <1>1 DEF Raised
<1>3. row.status = DeriveStatus(row.outcome, SeverityOf(check, profile))
  BY DEF RunCheck
<1>4. CASE row.outcome = "skip"
  BY <1>3, <1>4 DEF Harmless, Faulty, DeriveStatus
<1>5. CASE row.outcome # "skip"
  <2>1. applies /\ ~SkippedByFrame(check, scope, captures)
    BY <1>5, RowsAreFindings
  <2>2. PICK f \in findings : Reports(row, f)
    BY <1>5, RowsAreFindings
  <2>3. Mild(row.outcome, "advisory")
    BY <2>1, <2>2 DEF Reports
  <2> QED
    BY <1>2, <1>3, <2>3 DEF Harmless, Faulty, Mild, DeriveStatus
<1> QED
  BY <1>4, <1>5

\* A service that is not deactivated can only have recovered from that.
LEMMA DeactivationHarmless ==
  ASSUME Judging, NEW scope \in blocks, Healthy(scope)
  PROVE  \A row \in Deactivations(Counterpart(scope), Captures) : Harmless(row)
<1> DEFINE cp == Counterpart(scope)
<1>1. ~cp.off
  BY BlockJudged DEF Healthy, Scopes
<1>2. \A f \in DeactivationRows(cp) : f.outcome = "recovered"
  BY <1>1 DEF DeactivationRows, DeactivationOutcome, Row
<1> QED
  BY <1>2, MildRows DEF Deactivations, Mild

\* The check says nothing against a healthy service.
Spares(check, applies, cp, findings) ==
    \A row \in RunCheck(check, applies, cp, Captures, profile, findings) : Harmless(row)

LEMMA Spared ==
  ASSUME NEW check, NEW applies, NEW cp, NEW findings,
         applies /\ ~SkippedByFrame(check, cp, Captures) => \A f \in findings : Mild(f.outcome, "critical")
  PROVE  Spares(check, applies, cp, findings)
  BY MildRows DEF Spares

LEMMA SparedAdvisory ==
  ASSUME NEW check \in AdvisoryChecks, NEW applies, NEW cp, NEW findings,
         \A f \in findings : f.check = check.id,
         applies /\ ~SkippedByFrame(check, cp, Captures) => \A f \in findings : Mild(f.outcome, "advisory")
  PROVE  Spares(check, applies, cp, findings)
  BY MildAdvisoryRows DEF Spares

LEMMA SoundHasNoFault ==
  ASSUME NEW conditions, Sound(conditions)
  PROVE  /\ \A check, about, what : Fault(check, about, what) \notin conditions
         /\ \A check, about, what : Note(check, about, what) \notin conditions
         /\ \A check, about, what, fault : fault => Condition(check, about, what, fault) \notin conditions
  BY DEF Sound, Fault, Note, Condition

\* What a field of a capture is where its collector failed.
Blank(f, value) == \A c \in DOMAIN Empty[area] : f \in DOMAIN Empty[area][c] => Empty[area][c][f] = value

LEMMA BeforeOrBlank ==
  ASSUME Judging, NEW f \in DOMAIN old, f # "pings", NEW value, Blank(f, value)
  PROVE  BaselineData[f] = old[f] \/ BaselineData[f] = value
  BY SeenOrEmpty DEF Blank

LEMMA NowOrBlank ==
  ASSUME Judging, NEW f \in DOMAIN new, f # "pings", NEW value, Blank(f, value)
  PROVE  subject.data[f] = new[f] \/ subject.data[f] = value
  BY SubjectSeenOrEmpty DEF Blank

\* A check that ran has read the box.
LEMMA RanAndRead ==
  ASSUME Judging, NEW c, Collectors(area) = {c}, NEW check, c \in check.requires, NEW cp,
         ~SkippedByFrame(check, cp, Captures)
  PROVE  \A f \in DOMAIN new \ {"pings"} : subject.data[f] = new[f]
  BY CollectedNow, AloneNow

LEMMA StateOfRecords ==
  ASSUME NEW records, IsFiniteSet(records)
  PROVE  \/ records = {} /\ Peer!ByKey(records) = "absent"
         \/ Cardinality(records) > 1 /\ Peer!ByKey(records) = "ambiguous"
         \/ Cardinality(records) = 1 /\ \E r : records = {r} /\ Peer!ByKey(records) = r.state
<1>1. CASE records = {}
  BY <1>1 DEF Peer!ByKey
<1>2. CASE records # {} /\ Cardinality(records) > 1
  BY <1>2, CardinalityIsOne DEF Peer!ByKey
<1>3. CASE records # {} /\ ~(Cardinality(records) > 1)
  <2>1. Cardinality(records) = 1
    BY <1>3, FS_CardinalityType, FS_EmptySet
  <2>2. PICK r : records = {r}
    BY <2>1, FS_Singleton
  <2> QED
    BY <1>3, <2>1, <2>2, CardinalityIsOne DEF Peer!ByKey
<1> QED
  BY <1>1, <1>2, <1>3

\* The session of a sound peer.
LEMMA SoundPeer ==
  ASSUME NEW view, Shown("bgp", view), Sound(BgpConditions(view))
  PROVE  IF view.intent = "none" THEN Peer!BgpOf(view) = "absent"
         ELSE Peer!BgpOf(view) \in {"Established", "ambiguous"}
<1> DEFINE records == {r \in view.bgp : Peer!OwnsBgpPeer(view, r)}
<1>1. IsFiniteSet(records) /\ \A r \in records : r.state \notin {"absent", "ambiguous"}
  BY FS_Subset DEF Shown
<1>2. records = IF view.intent = "none" THEN {} ELSE OursBgp(view)
  BY DEF Shown, OursBgp, Peer!OwnsBgpPeer
<1>3. Peer!BgpOf(view) = Peer!ByKey(records)
  BY DEF Peer!BgpOf
<1>4. CASE view.intent = "none"
  BY <1>2, <1>3, <1>4 DEF Peer!ByKey
<1>5. CASE view.intent # "none"
  <2>1. OursBgp(view) # {}
    <3>1. CASE OursBgp(view) = {}
      <4>1. Condition("bgp_session_state", <<"peer">>, <<"absent">>, view.intent # "none") \in BgpConditions(view)
        BY <3>1 DEF BgpConditions, If
      <4> QED
        BY <1>5, <4>1, SoundHasNoFault
    <3> QED
      BY <3>1
  <2>2. ASSUME NEW r, records = {r}, r.state # "Established" PROVE FALSE
    <3>1. Fault("bgp_session_state", <<"peer">>, <<r.state>>) \in
              UNION {NotIn("Established", "bgp_session_state", <<"peer">>, q.state) : q \in OursBgp(view)}
      BY <1>2, <1>5, <2>2 DEF NotIn, If
    <3>2. Cardinality(OursBgp(view)) = 1
      BY <1>2, <1>5, <2>2, FS_Singleton
    <3>3. Fault("bgp_session_state", <<"peer">>, <<r.state>>) \in BgpConditions(view)
      BY <1>5, <3>1, <3>2 DEF BgpConditions, If
    <3> QED
      BY <3>3, SoundHasNoFault
  <2> QED
    BY <1>1, <1>2, <1>3, <1>5, <2>1, <2>2, StateOfRecords
<1> QED
  BY <1>4, <1>5

LEMMA BgpHealthy ==
  ASSUME Judging, area = "bgp", NEW scope \in blocks, Healthy(scope), NEW row \in verdict[scope]
  PROVE  Harmless(row)
<1> DEFINE cp == Counterpart(scope)
           now == subject.data
           was == BaselineData
<1>1. Collectors(area) = {"bgp"} /\ {"intent", "bgp", "rib"} \subseteq DOMAIN old \cap DOMAIN new
      /\ Blank("intent", "none") /\ Blank("bgp", {}) /\ Blank("rib", -1)
  <2>1. /\ DOMAIN Empty["bgp"] = {"config", "bgp"} /\ Empty["bgp"]["bgp"] = [bgp |-> {}, rib |-> Peer!NoRib]
        /\ Empty["bgp"]["config"] = [intent |-> "none"]
    BY DEF Empty
  <2>2. Blank("intent", "none") /\ Blank("bgp", {}) /\ Blank("rib", -1)
    BY <2>1 DEF Blank, Peer!NoRib
  <2> QED
    BY <2>1, <2>2, BothShown DEF Collectors
<1>2. /\ was.intent \in {old.intent, "none"} /\ was.bgp \in {old.bgp, {}} /\ was.rib \in {old.rib, -1}
  BY <1>1, BeforeOrBlank
<1>3. Shown("bgp", old) /\ Shown("bgp", new) /\ old.intent = new.intent
  <2>1. "config" \in DOMAIN Empty["bgp"] /\ DOMAIN Empty["bgp"]["config"] = {"intent"}
    BY DEF Empty
  <2> QED
    BY <2>1, BothShown DEF Healthy, SameConfiguration, ConfigurationFields
<1>4. After(scope) = BgpConditions(new)
  BY DEF After, Conditions
<1>5. IF new.intent = "none" THEN Peer!BgpOf(new) = "absent"
      ELSE Peer!BgpOf(new) \in {"Established", "ambiguous"}
  BY <1>3, <1>4, SoundPeer DEF Healthy
<1>6. /\ Peer!BgpSessionState.requires = {"bgp"}
      /\ Peer!BgpPrefixCounts.requires = {"bgp"} /\ Peer!BgpPrefixCounts.id = "bgp_prefix_counts"
  BY DEF Peer!BgpSessionState, Peer!BgpPrefixCounts, Peer!CheckClass
<1>7. ASSUME NEW check \in {Peer!BgpSessionState, Peer!BgpPrefixCounts}, ~SkippedByFrame(check, cp, Captures)
      PROVE  now.intent = new.intent /\ now.bgp = new.bgp /\ now.rib = new.rib /\ Peer!BgpOf(now) = Peer!BgpOf(new)
  <2>1. now.intent = new.intent /\ now.bgp = new.bgp /\ now.rib = new.rib
    BY <1>1, <1>6, <1>7, RanAndRead
  <2> QED
    BY <2>1 DEF Peer!BgpOf, Peer!OwnsBgpPeer
<1>8. new.intent = "none" => Peer!BgpOf(was) = "absent"
  BY <1>2, <1>3 DEF Peer!BgpOf, Peer!OwnsBgpPeer, Peer!ByKey
<1>9. Spares(Peer!BgpSessionState, Peer!BgpApplies(cp), cp, Peer!BgpRows(now, was, Captures))
  <2>1. ASSUME ~SkippedByFrame(Peer!BgpSessionState, cp, Captures)
        PROVE  Mild(Peer!BgpOutcome(now, was, Captures), "critical")
    BY <1>5, <1>7, <1>8, <2>1
       DEF Mild, Peer!BgpOutcome, Peer!BgpUniverse, Peer!IsSession, Peer!BgpSession, Peer!ESTABLISHED
  <2> QED
    BY <1>6, <2>1, Spared DEF Peer!BgpRows, Peer!Row
<1>10. Spares(Peer!BgpPrefixCounts, Peer!BgpApplies(cp), cp, Peer!PrefixRows(now, was, -10))
  <2>1. ASSUME ~SkippedByFrame(Peer!BgpPrefixCounts, cp, Captures), NEW o \in Peer!PrefixOutcomes(now, was, -10)
        PROVE  Mild(o, "advisory")
    <3>1. Counter(now.rib) /\ Counter(was.rib) /\ (old = new => was.rib \in {now.rib, -1})
      BY <1>2, <1>3, <1>7, <2>1 DEF Shown, Counter
    <3> HIDE DEF now, was
    <3>2. o \in {"skip", "broken", "degraded", "ok"}
      BY <2>1 DEF Peer!PrefixOutcomes, Peer!PrefixChange
    <3>3. ASSUME old = new PROVE o \in {"skip", "ok"}
      <4>1. was.rib # -1 => now.rib = was.rib /\ was.rib \in Nat
        BY <3>1, <3>3 DEF Counter
      <4>2. was.rib # -1 => Peer!PrefixChange(was.rib, now.rib, -10) = "ok"
        BY <4>1 DEF Peer!PrefixChange
      <4> QED
        BY <2>1, <4>1, <4>2 DEF Peer!PrefixOutcomes, Peer!NoRib
    <3> QED
      BY <3>2, <3>3 DEF Mild
  <2>2. Peer!BgpPrefixCounts \in AdvisoryChecks
    BY DEF AdvisoryChecks
  <2>3. \A f \in Peer!PrefixRows(now, was, -10) :
           f.check = Peer!BgpPrefixCounts.id /\ f.outcome \in Peer!PrefixOutcomes(now, was, -10)
    BY <1>6 DEF Peer!PrefixRows, Peer!Row
  <2> QED
    BY <2>1, <2>2, <2>3, SparedAdvisory
<1> QED
  BY <1>9, <1>10, BlockJudged, DeactivationHarmless DEF Judged, Deactivations, Spares

\* The sessions of a sound peer's BFD.
LEMMA SoundBfd ==
  ASSUME NEW view, Shown("bfd", view), Sound(BfdConditions(view))
  PROVE  /\ Peer!BfdOf(view) \in {"absent", "ambiguous", "Up"}
         /\ Peer!BfdOf(view) = "Up" => view.bfdIntent
         /\ Peer!BfdOf(view) = "absent" => ~(view.bfdIntent /\ Peer!BgpOf(view) = "Established")
<1> DEFINE records == {r \in view.bfd : Peer!OwnsBfdSession(view, r)}
           up == /\ view.intent # "none" /\ Cardinality(OursBgp(view)) = 1
                 /\ \E r \in OursBgp(view) : r.state = "Established"
<1>1. IsFiniteSet(records) /\ \A r \in records : r.state \notin {"absent", "ambiguous"}
  BY FS_Subset DEF Shown
<1>2. records = OursBfd(view)
  <2>1. CASE view.intent # "active"
    BY <2>1 DEF OursBfd, Peer!OwnsBfdSession
  <2>2. CASE view.intent = "active" /\ {r \in view.bfd : r.port = "ours"} # {}
    BY <2>2 DEF OursBfd, Peer!OwnsBfdSession
  <2>3. CASE view.intent = "active" /\ {r \in view.bfd : r.port = "ours"} = {}
    BY <2>3 DEF OursBfd, Peer!OwnsBfdSession, Shown
  <2> QED
    BY <2>1, <2>2, <2>3
<1>3. Peer!BfdOf(view) = Peer!ByKey(records)
  BY DEF Peer!BfdOf
<1>4. ASSUME records = {}, view.bfdIntent, Peer!BgpOf(view) = "Established" PROVE FALSE
  <2> DEFINE sessions == {r \in view.bgp : Peer!OwnsBgpPeer(view, r)}
  <2>1. IsFiniteSet(sessions) /\ Peer!BgpOf(view) = Peer!ByKey(sessions)
    BY FS_Subset DEF Shown, Peer!BgpOf
  <2>2. \E r : sessions = {r} /\ r.state = "Established"
    BY <1>4, <2>1, StateOfRecords
  <2>3. up
    <3>1. view.intent # "none" /\ sessions = OursBgp(view)
      BY <2>2 DEF OursBgp, Peer!OwnsBgpPeer
    <3> QED
      BY <2>2, <3>1, FS_Singleton
  <2>4. Condition("bfd_session_state", <<"peer">>, <<"absent">>, view.bfdIntent /\ up) \in BfdConditions(view)
    BY <1>2, <1>4 DEF BfdConditions, If
  <2> QED
    BY <1>4, <2>3, <2>4, SoundHasNoFault
<1>5. ASSUME NEW r, records = {r}, r.state # "Up" \/ ~view.bfdIntent PROVE FALSE
  <2>1. Condition("bfd_session_state", <<"peer">>, <<r.state>>, TRUE) \in
            UNION {If(~view.bfdIntent \/ q.state # "Up",
                      {Condition("bfd_session_state", <<"peer">>, <<q.state>>, TRUE)}) : q \in OursBfd(view)}
    BY <1>2, <1>5 DEF If
  <2>2. Cardinality(OursBfd(view)) = 1
    BY <1>2, <1>5, FS_Singleton
  <2>3. Condition("bfd_session_state", <<"peer">>, <<r.state>>, TRUE) \in BfdConditions(view)
    BY <2>1, <2>2 DEF BfdConditions, If
  <2> QED
    BY <2>3, SoundHasNoFault
<1> QED
  BY <1>1, <1>3, <1>4, <1>5, StateOfRecords

LEMMA BfdHealthy ==
  ASSUME Judging, area = "bfd", NEW scope \in blocks, Healthy(scope), NEW row \in verdict[scope]
  PROVE  Harmless(row)
<1> DEFINE cp == Counterpart(scope)
           now == subject.data
           was == BaselineData
           fields == {"intent", "bfdIntent", "bgp", "bfd"}
<1>1. /\ Collectors(area) = {"bgp", "bfd"} /\ fields \subseteq DOMAIN old \cap DOMAIN new
      /\ Blank("intent", "none") /\ Blank("bfd", {})
  <2>1. /\ DOMAIN Empty["bfd"] = {"config", "bgp", "bfd"}
        /\ Empty["bfd"]["config"] = [intent |-> "none", bfdIntent |-> FALSE]
        /\ Empty["bfd"]["bgp"] = [bgp |-> {}] /\ Empty["bfd"]["bfd"] = [bfd |-> {}]
    BY DEF Empty
  <2>2. Blank("intent", "none") /\ Blank("bfd", {})
    BY <2>1 DEF Blank
  <2>3. /\ DOMAIN Empty["bfd"]["config"] = {"intent", "bfdIntent"}
        /\ DOMAIN Empty["bfd"]["bgp"] = {"bgp"} /\ DOMAIN Empty["bfd"]["bfd"] = {"bfd"}
    BY <2>1
  <2>4. fields \subseteq DOMAIN old \cap DOMAIN new
    BY <2>1, <2>3, BothShown
  <2> QED
    BY <2>1, <2>2, <2>4 DEF Collectors
<1>2. was.intent \in {old.intent, "none"} /\ was.bfd \in {old.bfd, {}}
  BY <1>1, BeforeOrBlank
<1>3. Shown("bfd", old) /\ Shown("bfd", new) /\ old.bfdIntent = new.bfdIntent
  <2>1. "config" \in DOMAIN Empty["bfd"] /\ "bfdIntent" \in DOMAIN Empty["bfd"]["config"]
    BY DEF Empty
  <2> QED
    BY <2>1, BothShown DEF Healthy, SameConfiguration, ConfigurationFields
<1>4. After(scope) = BfdConditions(new) /\ Before(scope) = BfdConditions(old)
  BY DEF After, Before, Conditions
<1>5. /\ Peer!BfdOf(new) \in {"absent", "ambiguous", "Up"}
      /\ Peer!BfdOf(new) = "Up" => new.bfdIntent
      /\ Peer!BfdOf(new) = "absent" => ~(new.bfdIntent /\ Peer!BgpOf(new) = "Established")
  BY <1>3, <1>4, SoundBfd DEF Healthy
<1>6. Peer!IsSession(Peer!BfdOf(was)) => new.bfdIntent
  <2>1. CASE was.intent = old.intent /\ was.bfd = old.bfd
    <3>1. Peer!BfdOf(was) = Peer!BfdOf(old)
      BY <2>1 DEF Peer!BfdOf, Peer!OwnsBfdSession
    <3> QED
      BY <1>3, <1>4, <3>1, SoundBfd DEF Healthy, Peer!IsSession
  <2>2. CASE was.intent = "none" \/ was.bfd = {}
    <3>1. Peer!BfdOf(was) = "absent"
      BY <2>2 DEF Peer!BfdOf, Peer!OwnsBfdSession, Peer!ByKey
    <3> QED
      BY <3>1 DEF Peer!IsSession
  <2> QED
    BY <1>2, <2>1, <2>2
<1>7. /\ Peer!BfdSessionState.requires = {"bfd", "bgp"}
  BY DEF Peer!BfdSessionState, Peer!CheckClass
<1>8. Spares(Peer!BfdSessionState, Peer!BfdApplies(cp), cp, Peer!BfdRows(now, was, Captures))
  <2>1. ASSUME ~SkippedByFrame(Peer!BfdSessionState, cp, Captures), NEW f \in Peer!BfdRows(now, was, Captures)
        PROVE  Mild(f.outcome, "critical")
    <3>1. \A g \in fields : now[g] = new[g]
      BY <1>1, <1>7, <2>1, AllNow
    <3>2. Peer!BfdOf(now) = Peer!BfdOf(new) /\ Peer!BgpOf(now) = Peer!BgpOf(new) /\ now.bfdIntent = new.bfdIntent
      BY <3>1 DEF Peer!BfdOf, Peer!OwnsBfdSession, Peer!BgpOf, Peer!OwnsBgpPeer
    <3>3. f.outcome = Peer!BfdOutcome(now, was, Captures)
      BY <2>1 DEF Peer!BfdRows, Peer!Row
    <3>4. new.bfdIntent \/ Peer!IsSession(Peer!BfdOf(new))
      BY <1>6, <2>1, <3>2 DEF Peer!BfdRows
    <3> QED
      BY <1>5, <3>2, <3>3, <3>4 DEF Mild, Peer!BfdOutcome, Peer!IsSession, Peer!ESTABLISHED
  <2> QED
    BY <1>7, <2>1, Spared
<1> QED
  BY <1>8, BlockJudged, DeactivationHarmless DEF Judged, Deactivations, Spares

\* A state that is Up was Up, was not read, or has recovered.
LEMMA UpIsMild ==
  ASSUME NEW was, NEW captures, NEW c, NEW severity
  PROVE  Mild(Core!UpOrSame("Up", was, captures, c), severity)
  BY DEF Core!UpOrSame, Mild

LEMMA IsisHealthy ==
  ASSUME Judging, area = "isis", NEW scope \in blocks, Healthy(scope), NEW row \in verdict[scope]
  PROVE  Harmless(row)
<1> DEFINE cp == Counterpart(scope)
           now == subject.data.adj
           was == BaselineData.adj
           conditions(adj) ==
              IF adj.there
              THEN NotIn("Up", "isis_adjacency_state", <<"state">>, adj.state)
                   \cup If(adj.ip = Core!Nothing, {Fault("isis_adjacency_state", <<"address">>, <<"none">>)})
              ELSE {Fault("isis_adjacency_state", <<"state">>, <<"absent">>)}
<1>1. Collectors(area) = {"isis_adjacency"} /\ "adj" \in DOMAIN old \cap DOMAIN new /\ Blank("adj", Core!NoAdjacency)
  <2>1. DOMAIN Empty["isis"] = {"isis_adjacency"} /\ Empty["isis"]["isis_adjacency"] = [adj |-> Core!NoAdjacency]
    BY DEF Empty
  <2> QED
    BY <2>1, BothShown DEF Collectors, Blank
<1>2. was = old.adj \/ was = Core!NoAdjacency
  BY <1>1, BeforeOrBlank
<1>3. After(scope) = conditions(new.adj)
  BY DEF After, Conditions
<1>4. new.adj.there /\ new.adj.state = "Up" /\ new.adj.ip # Core!Nothing
  BY <1>3, SoundHasNoFault DEF Healthy, NotIn, If
<1>5. Core!IsisAdjacencyState.requires = {"isis_adjacency"}
  BY DEF Core!IsisAdjacencyState, Core!Core, Core!CheckClass
<1>6. ASSUME ~SkippedByFrame(Core!IsisAdjacencyState, cp, Captures),
             NEW f \in Core!IsisAdjacencyRows(now, was, Captures)
      PROVE  Mild(f.outcome, "critical")
  <2>1. now = new.adj
    BY <1>1, <1>5, <1>6, RanAndRead
  <2>2. was.there => was = old.adj
    BY <1>2 DEF Core!NoAdjacency
  <2> HIDE DEF now, was
  <2>3. \/ f.outcome = Core!IsisNeighbor(now, was)
        \/ f.outcome = Core!UpOrSame("Up", was.state, Captures, "isis_adjacency")
        \/ f.outcome = Core!IsisAddress(now, was, Captures)
    BY <1>4, <1>6, <2>1 DEF Core!IsisAdjacencyRows, Core!Row
  <2>4. Mild(Core!IsisNeighbor(now, was), "critical") /\ Mild(Core!IsisAddress(now, was, Captures), "critical")
    BY <1>4, <2>1, <2>2 DEF Core!IsisNeighbor, Core!IsisAddress, Mild
  <2> QED
    BY <2>3, <2>4, UpIsMild
<1>7. Spares(Core!IsisAdjacencyState, AppliesTo(Core!IsisAdjacencyState, cp), cp,
             Core!IsisAdjacencyRows(now, was, Captures))
  BY <1>5, <1>6, Spared
<1> QED
  BY <1>7, BlockJudged, DeactivationHarmless DEF Judged, Deactivations, Spares

LEMMA TwoOkRows ==
  \A check, a, b : \A f \in {Core!Row(check, a, "ok"), Core!Row(check, b, "ok")} : f.outcome = "ok"
  BY DEF Core!Row

\* A port of level 2 that is passive exactly on the loopback.
LEMMA SoundIsisPort ==
  ASSUME NEW port, NEW subtype, port.there, 2 \in port.levels, 1 \notin port.levels,
         port.passive = (subtype = "loopback")
  PROVE  \A f \in Core!IsisInterfaceRows(port, subtype) : f.outcome = "ok"
<1> DEFINE rows == {Core!Row("isis_interface_info", <<"level 2">>, "ok"),
                    Core!Row("isis_interface_info", <<"passive">>, "ok")}
<1>1. port.passive <=> subtype = "loopback"
  BY Zenon
<1>2. Core!IsisInterfaceRows(port, subtype) = rows
  BY <1>1, Zenon DEF Core!IsisInterfaceRows
<1>3. \A f \in rows : f.outcome = "ok"
  BY TwoOkRows, Zenon
<1> HIDE DEF rows
<1> QED
  BY <1>2, <1>3, Zenon

LEMMA IsisPortHealthy ==
  ASSUME Judging, area = "isisport", NEW scope \in blocks, Healthy(scope), NEW row \in verdict[scope]
  PROVE  Harmless(row)
<1> DEFINE cp == Counterpart(scope)
           port == new.port
           is(what) == {Fault("isis_interface_info", <<what>>, <<what>>)}
<1>1. Collectors(area) = {"isis_interface"} /\ "port" \in DOMAIN new
  <2>1. DOMAIN Empty["isisport"] = {"isis_interface"} /\ DOMAIN Empty["isisport"]["isis_interface"] = {"port"}
    BY DEF Empty
  <2> QED
    BY <2>1, BothShown DEF Collectors
<1>2. After(scope) =
        IF ~port.there THEN is("interface")
        ELSE If(2 \notin port.levels, is("level 2")) \cup If(1 \in port.levels, is("level 1"))
             \cup If(2 \in port.levels /\ port.passive # (scope.subtype = "loopback"), is("passive"))
  BY DEF After, Conditions
<1>3. /\ port.there /\ 2 \in port.levels /\ 1 \notin port.levels
      /\ port.passive = (scope.subtype = "loopback")
  <2>1. port.there
    BY <1>2, SoundHasNoFault DEF Healthy
  <2> QED
    BY <1>2, <2>1, SoundHasNoFault DEF Healthy, If
<1>4. cp.subtype = scope.subtype
  BY BlockJudged DEF Scopes
<1>5. Core!IsisInterfaceInfo.requires = {"isis_interface"}
  BY DEF Core!IsisInterfaceInfo, Core!Core, Core!CheckClass
<1>6. ASSUME ~SkippedByFrame(Core!IsisInterfaceInfo, cp, Captures),
             NEW f \in Core!IsisInterfaceRows(subject.data.port, cp.subtype)
      PROVE  f.outcome = "ok"
  <2>1. subject.data.port = port
    BY <1>1, <1>5, <1>6, RanAndRead
  <2> QED
    BY <1>3, <1>4, <1>6, <2>1, SoundIsisPort
<1>7. Spares(Core!IsisInterfaceInfo, AppliesTo(Core!IsisInterfaceInfo, cp), cp,
             Core!IsisInterfaceRows(subject.data.port, cp.subtype))
  BY <1>6, Spared DEF Mild
<1> QED
  BY <1>7, BlockJudged, DeactivationHarmless DEF Judged, Deactivations, Spares

LEMMA OverloadHealthy ==
  ASSUME Judging, area = "overload", NEW scope \in blocks, Healthy(scope), NEW row \in verdict[scope]
  PROVE  Harmless(row)
<1> DEFINE cp == Counterpart(scope)
<1>1. Collectors(area) = {"isis_overview"} /\ "state" \in DOMAIN new
  <2>1. DOMAIN Empty["overload"] = {"isis_overview"} /\ DOMAIN Empty["overload"]["isis_overview"] = {"state"}
    BY DEF Empty
  <2> QED
    BY <2>1, BothShown DEF Collectors
<1>2. After(scope) = NotIn("normal", "isis_overview", <<"overload">>, new.state)
  BY DEF After, Conditions
<1>3. new.state = "normal"
  BY <1>2, SoundHasNoFault DEF Healthy, NotIn, If
<1>4. Core!IsisOverview.requires = {"isis_overview"}
  BY DEF Core!IsisOverview, Core!Core, Core!CheckClass
<1>5. ASSUME ~SkippedByFrame(Core!IsisOverview, cp, Captures), NEW f \in Core!IsisOverviewRows(subject.data.state)
      PROVE  f.outcome = "ok"
  <2>1. subject.data.state = "normal"
    BY <1>1, <1>3, <1>4, <1>5, RanAndRead
  <2> QED
    BY <1>5, <2>1 DEF Core!IsisOverviewRows, Core!Row
<1>6. Spares(Core!IsisOverview, AppliesTo(Core!IsisOverview, cp), cp, Core!IsisOverviewRows(subject.data.state))
  BY <1>5, Spared DEF Mild
<1> QED
  BY <1>6, BlockJudged, DeactivationHarmless DEF Judged, Deactivations, Spares

\* A sound neighbour has an address; it may not be the one of the old box.
LEMMA SoundNeighbor ==
  ASSUME NEW check, NEW c, NEW now, NEW was, Sound(NeighborConditions(check, now)),
         now.there => now.uptime \in {Core!Nothing, "some", "zero"},
         old = new => ~was.there \/ was = now,
         NEW f \in Core!NeighborRows(check, c, now, was, Captures)
  PROVE  Mild(f.outcome, "critical")
<1>1. now.there /\ now.uptime = "some" /\ now.address # Core!Nothing
  BY SoundHasNoFault DEF NeighborConditions, If
<1>2. Core!NeighborStatus(c, now, was, Captures) = "ok"
  BY <1>1 DEF Core!NeighborStatus, Core!NeighborState, Core!Nothing
<1>3. Mild(Core!NeighborAddress(c, now, was, Captures), "critical")
  BY <1>1 DEF Core!NeighborAddress, Mild
<1>4. \/ f.outcome = Core!NeighborStatus(c, now, was, Captures)
      \/ f.outcome = Core!NeighborAddress(c, now, was, Captures)
  BY DEF Core!NeighborRows, Core!Row
<1> QED
  BY <1>2, <1>3, <1>4 DEF Mild

LEMMA NeighborsHealthy ==
  ASSUME Judging, area \in {"ldp", "pim"}, NEW scope \in blocks, Healthy(scope), NEW row \in verdict[scope]
  PROVE  Harmless(row)
<1> DEFINE cp == Counterpart(scope)
           now == subject.data.peer
           was == BaselineData.peer
<1>1. /\ Collectors(area) = {IF area = "ldp" THEN "ldp_neighbor" ELSE "pim_neighbor"}
      /\ "peer" \in DOMAIN old \cap DOMAIN new /\ Blank("peer", Core!NoNeighbor)
  <2>1. /\ DOMAIN Empty["ldp"] = {"ldp_neighbor"} /\ Empty["ldp"]["ldp_neighbor"] = [peer |-> Core!NoNeighbor]
        /\ DOMAIN Empty["pim"] = {"pim_neighbor"} /\ Empty["pim"]["pim_neighbor"] = [peer |-> Core!NoNeighbor]
    BY DEF Empty
  <2> QED
    BY <2>1, BothShown DEF Collectors, Blank
<1>2. was = old.peer \/ was = Core!NoNeighbor
  BY <1>1, BeforeOrBlank
<1>3. ~Core!NoNeighbor.there
  BY DEF Core!NoNeighbor
<1>4. IF new.peer.there THEN new.peer.uptime \in {Core!Nothing, "some", "zero"} ELSE new.peer = Core!NoNeighbor
  BY BothShown DEF Shown
<1>5. /\ Core!LdpNeighborState.requires = {"ldp_neighbor"}
      /\ Core!PimNeighborState.requires = {"pim_neighbor"}
  BY DEF Core!LdpNeighborState, Core!PimNeighborState, Core!Core, Core!CheckClass
<1>6. CASE area = "ldp"
  <2>1. After(scope) = NeighborConditions("ldp_neighbor_state", new.peer)
    BY <1>6 DEF After, Conditions
  <2>2. ASSUME ~SkippedByFrame(Core!LdpNeighborState, cp, Captures),
               NEW f \in Core!LdpNeighborRows(now, was, Captures)
        PROVE  Mild(f.outcome, "critical")
    <3>1. now = new.peer
      BY <1>1, <1>5, <1>6, <2>2, RanAndRead
    <3> HIDE DEF now, was
    <3> QED
      BY <1>2, <1>3, <1>4, <2>1, <2>2, <3>1, SoundNeighbor DEF Healthy, Core!LdpNeighborRows
  <2>3. Spares(Core!LdpNeighborState, AppliesTo(Core!LdpNeighborState, cp), cp,
               Core!LdpNeighborRows(now, was, Captures))
    BY <1>5, <2>2, Spared
  <2> QED
    BY <1>6, <2>3, BlockJudged, DeactivationHarmless DEF Judged, Deactivations, Spares
<1>7. CASE area = "pim"
  <2>1. After(scope) = If(scope.pim, NeighborConditions("pim_neighbor_state", new.peer)) /\ cp.pim = scope.pim
    BY <1>7, BlockJudged DEF After, Conditions, Scopes
  <2>2. ASSUME ~SkippedByFrame(Core!PimNeighborState, cp, Captures),
               NEW f \in Core!PimNeighborRows(cp.pim, now, was, Captures)
        PROVE  Mild(f.outcome, "critical")
    <3>1. now = new.peer
      BY <1>1, <1>5, <1>7, <2>2, RanAndRead
    <3>2. scope.pim /\ f \in Core!NeighborRows("pim_neighbor_state", "pim_neighbor", now, was, Captures)
      BY <2>1, <2>2 DEF Core!PimNeighborRows
    <3> HIDE DEF now, was
    <3> QED
      BY <1>2, <1>3, <1>4, <2>1, <3>1, <3>2, SoundNeighbor DEF Healthy, If
  <2>3. Spares(Core!PimNeighborState, AppliesTo(Core!PimNeighborState, cp), cp,
               Core!PimNeighborRows(cp.pim, now, was, Captures))
    BY <1>5, <2>2, Spared
  <2> QED
    BY <1>7, <2>3, BlockJudged, DeactivationHarmless DEF Judged, Deactivations, Spares
<1> QED
  BY <1>6, <1>7

LEMMA MplsHealthy ==
  ASSUME Judging, area = "mpls", NEW scope \in blocks, Healthy(scope), NEW row \in verdict[scope]
  PROVE  Harmless(row)
<1> DEFINE cp == Counterpart(scope)
           now == subject.data.state
           was == BaselineData.state
<1>1. Collectors(area) = {"mpls_interface"} /\ "state" \in DOMAIN new
  <2>1. DOMAIN Empty["mpls"] = {"mpls_interface"} /\ DOMAIN Empty["mpls"]["mpls_interface"] = {"state"}
    BY DEF Empty
  <2> QED
    BY <2>1, BothShown DEF Collectors
<1>2. After(scope) = NotIn("Up", "mpls_interface_state", <<"status">>,
                           IF new.state \in {"Dn", "Dnn"} THEN "down" ELSE new.state)
  BY DEF After, Conditions
<1>3. new.state = "Up"
  BY <1>2, SoundHasNoFault DEF Healthy, NotIn, If
<1>4. Core!MplsInterfaceState.requires = {"mpls_interface"}
  BY DEF Core!MplsInterfaceState, Core!Core, Core!CheckClass
<1>5. ASSUME ~SkippedByFrame(Core!MplsInterfaceState, cp, Captures), NEW f \in Core!MplsInterfaceRows(now, was, Captures)
      PROVE  f.outcome \in {"ok", "recovered"}
  <2>1. now = "Up"
    BY <1>1, <1>3, <1>4, <1>5, RanAndRead
  <2> QED
    BY <1>5, <2>1 DEF Core!MplsInterfaceRows, Core!MplsOutcome, Core!Row, Core!Nothing
<1>6. Spares(Core!MplsInterfaceState, AppliesTo(Core!MplsInterfaceState, cp), cp,
             Core!MplsInterfaceRows(now, was, Captures))
  BY <1>5, Spared DEF Mild
<1> QED
  BY <1>6, BlockJudged, DeactivationHarmless DEF Judged, Deactivations, Spares

LEMMA TransitHealthy ==
  ASSUME Judging, area = "transit", NEW scope \in blocks, Healthy(scope), NEW row \in verdict[scope]
  PROVE  Harmless(row)
<1> DEFINE cp == Counterpart(scope)
           now == subject.data.peers
           was == BaselineData.peers
           running == {p \in DOMAIN new.peers : new.peers[p] # Core!Nothing}
<1>1. Collectors(area) = {"bfd"} /\ "peers" \in DOMAIN new
  <2>1. DOMAIN Empty["transit"] = {"bfd"} /\ DOMAIN Empty["transit"]["bfd"] = {"peers"}
    BY DEF Empty
  <2> QED
    BY <2>1, BothShown DEF Collectors
<1>2. After(scope) = IF running = {} THEN {Fault("bfd_transit_state", <<"any">>, <<"absent">>)}
                     ELSE {Fault("bfd_transit_state", <<p>>, <<p, new.peers[p]>>) :
                             p \in {q \in running : new.peers[q] # "Up"}}
  BY DEF After, Conditions
<1>3. running # {} /\ \A p \in running : new.peers[p] = "Up"
  <2> HIDE DEF running
  <2>1. \A about, what : Fault("bfd_transit_state", about, what) \notin After(scope)
    BY SoundHasNoFault DEF Healthy
  <2>2. running # {}
    BY <1>2, <2>1
  <2>3. ASSUME NEW p \in running, new.peers[p] # "Up" PROVE FALSE
    <3>1. Fault("bfd_transit_state", <<p>>, <<p, new.peers[p]>>) \in After(scope)
      BY <1>2, <2>2, <2>3
    <3> QED
      BY <2>1, <3>1
  <2> QED
    BY <2>2, <2>3
<1>4. Core!BfdTransitState.requires = {"bfd"}
  BY DEF Core!BfdTransitState, Core!Core, Core!CheckClass
<1>5. ASSUME ~SkippedByFrame(Core!BfdTransitState, cp, Captures), NEW f \in Core!BfdTransitRows(now, was, Captures)
      PROVE  Mild(f.outcome, "critical")
  <2>1. now = new.peers
    BY <1>1, <1>4, <1>5, RanAndRead
  <2> HIDE DEF now, was
  <2>2. Core!BfdTransitRows(now, was, Captures) =
           {Core!Row("bfd_transit_state", <<p>>, Core!UpOrSame(now[p], was[p], Captures, "bfd")) : p \in running}
    BY <1>3, <2>1 DEF Core!BfdTransitRows
  <2>3. PICK p \in running : f = Core!Row("bfd_transit_state", <<p>>, Core!UpOrSame(now[p], was[p], Captures, "bfd"))
    BY <1>5, <2>2
  <2>4. f.outcome = Core!UpOrSame("Up", was[p], Captures, "bfd")
    BY <1>3, <2>1, <2>3 DEF Core!Row
  <2> QED
    BY <2>4, UpIsMild
<1>6. Spares(Core!BfdTransitState, AppliesTo(Core!BfdTransitState, cp), cp, Core!BfdTransitRows(now, was, Captures))
  BY <1>5, Spared
<1> QED
  BY <1>6, BlockJudged, DeactivationHarmless DEF Judged, Deactivations, Spares

\* The interfaces of a sound box are up, without errors and with traffic.
LEMMA SoundPort ==
  ASSUME NEW view, Shown("ports", view), Sound(PortConditions(view)), NEW n \in Port!Listed(view)
  PROVE  /\ view[n].admin = "up" /\ view[n].oper = "up" /\ view[n].errors = 0
         /\ view[n].pps \in Nat /\ (n # "irb" => view[n].pps # 0)
<1> DEFINE is(m, g) == If(view[m][g] # "up", {Fault("interface_state", <<m, g>>, <<m, g, view[m][g]>>)})
           of(m) == is(m, "admin") \cup is(m, "oper")
                    \cup If(view[m].errors # 0, {Note("interface_errors", <<m>>, <<"errors">>)})
                    \cup If(view[m].pps = 0 /\ m # "irb", {Note("interface_traffic", <<m>>, <<"silent">>)})
<1>1. PortConditions(view) = UNION {of(m) : m \in Port!Listed(view)}
  BY DEF PortConditions
<1> HIDE DEF of
<1>2. of(n) \subseteq PortConditions(view)
  BY <1>1
<1>3. /\ \A g \in {"admin", "oper"} : is(n, g) \subseteq of(n)
      /\ view[n].errors # 0 => Note("interface_errors", <<n>>, <<"errors">>) \in of(n)
      /\ view[n].pps = 0 /\ n # "irb" => Note("interface_traffic", <<n>>, <<"silent">>) \in of(n)
  BY DEF of, If
<1>4. \A g \in {"admin", "oper"} :
         view[n][g] # "up" => Fault("interface_state", <<n, g>>, <<n, g, view[n][g]>>) \in PortConditions(view)
  BY <1>2, <1>3 DEF If
<1>5. view[n].admin = "up" /\ view[n].oper = "up"
  BY <1>4, SoundHasNoFault
<1>6. view[n].errors = 0 /\ (n # "irb" => view[n].pps # 0)
  BY <1>2, <1>3, SoundHasNoFault
<1> QED
  BY <1>5, <1>6 DEF Shown

\* The port of the old box is to fall silent, so that check is for a service that has moved.
Excused(row) ==
    /\ row.status = "FAIL" => row.check \in Raised
    /\ "traffic_ceased" \in profile.disabled => Harmless(row)

LEMMA PortsHealthy ==
  ASSUME Judging, area = "ports", NEW scope \in blocks, Healthy(scope), NEW row \in verdict[scope]
  PROVE  Excused(row)
<1> DEFINE cp == Counterpart(scope)
           now == subject.data
           was == BaselineData
<1>1. /\ Collectors(area) = {"interfaces"} /\ Port!Interfaces \subseteq DOMAIN old \cap DOMAIN new
      /\ "pings" \notin Port!Interfaces /\ \A n \in Port!Interfaces : Blank(n, Port!Nothing)
  <2>1. /\ DOMAIN Empty["ports"] = {"interfaces"}
        /\ Empty["ports"]["interfaces"] = [port |-> Port!Nothing, unit |-> Port!Nothing, irb |-> Port!Nothing]
    BY DEF Empty
  <2> QED
    BY <2>1, BothShown DEF Collectors, Port!Interfaces, Blank
<1>2. \A n \in Port!Interfaces : was[n] = old[n] \/ was[n] = Port!Nothing
  BY <1>1, BeforeOrBlank
<1>3. After(scope) = PortConditions(new)
  BY DEF After, Conditions
<1>4. \A n \in Port!Listed(new) :
         /\ new[n].admin = "up" /\ new[n].oper = "up" /\ new[n].errors = 0
         /\ new[n].pps \in Nat /\ (n # "irb" => new[n].pps # 0)
  BY <1>3, SoundPort, BothShown DEF Healthy
<1>5. /\ Port!InterfaceState.requires = {"interfaces"}
      /\ Port!InterfaceErrors.requires = {"interfaces"}
      /\ Port!InterfaceTraffic.requires = {"interfaces"} /\ Port!InterfaceTraffic.id = "interface_traffic"
      /\ Port!TrafficCeased.id = "traffic_ceased"
  BY DEF Port!InterfaceState, Port!InterfaceErrors, Port!InterfaceTraffic, Port!TrafficCeased,
         Port!Port, Port!CheckClass
<1>6. ASSUME NEW check \in {Port!InterfaceState, Port!InterfaceErrors, Port!InterfaceTraffic},
             ~SkippedByFrame(check, cp, Captures)
      PROVE  /\ Port!Listed(now) = Port!Listed(new)
             /\ \A n \in Port!Listed(new) : n \in Port!Interfaces /\ now[n] = new[n]
  <2>1. \A n \in Port!Interfaces : now[n] = new[n]
    BY <1>1, <1>5, <1>6, RanAndRead
  <2> QED
    BY <2>1 DEF Port!Listed
<1>7. Port!ScopeInterfaces(cp, now) \subseteq Port!Listed(now)
  BY DEF Port!ScopeInterfaces
<1> HIDE DEF now, was, cp
<1>8. ASSUME ~SkippedByFrame(Port!InterfaceState, cp, Captures), NEW f \in Port!InterfaceStateRows(cp, now, was, Captures)
      PROVE  f.outcome \in {"skip", "ok"}
  <2>1. \A n \in Port!ScopeInterfaces(cp, now) : now[n].admin = "up" /\ now[n].oper = "up"
    BY <1>4, <1>6, <1>7, <1>8
  <2> QED
    BY <1>8, <2>1 DEF Port!InterfaceStateRows, Port!StateOutcome, Port!Row
<1>9. ASSUME ~SkippedByFrame(Port!InterfaceErrors, cp, Captures), NEW f \in Port!InterfaceErrorsRows(cp, now, was)
      PROVE  f.outcome \in {"skip", "ok", "info"}
  <2>1. \A n \in Port!ScopeInterfaces(cp, now) : now[n].errors = 0
    BY <1>4, <1>6, <1>7, <1>9
  <2> QED
    BY <1>9, <2>1 DEF Port!InterfaceErrorsRows, Port!ErrorsOutcome, Port!NotMeasured, Port!Row
<1>10. ASSUME ~SkippedByFrame(Port!InterfaceTraffic, cp, Captures), NEW f \in Port!InterfaceTrafficRows(cp, now, was)
       PROVE  Mild(f.outcome, "advisory")
  <2> DEFINE before(n) == IF Port!There(was[n]) THEN was[n].pps ELSE 0
             outcome(n) == Port!TrafficOutcome(now[n].pps, before(n), Port!There(was[n]))
  <2>1. f.outcome = "skip" \/ \E n \in Port!TrafficNames(cp, now) : f.outcome = outcome(n)
    BY <1>10 DEF Port!InterfaceTrafficRows, Port!Row
  <2>2. ASSUME NEW n \in Port!TrafficNames(cp, now), old = new PROVE outcome(n) = "ok"
    <3>1. n \in Port!Listed(new) /\ n # "irb" /\ n \in Port!Interfaces
      BY <1>6, <1>7, <1>10, <2>2 DEF Port!TrafficNames, Port!IsTransit
    <3>2. now[n].pps \in Nat /\ now[n].pps # 0
      BY <1>4, <1>6, <1>10, <3>1
    <3>3. Port!There(was[n]) => was[n].pps = now[n].pps
      BY <1>2, <1>6, <1>10, <2>2, <3>1 DEF Port!There, Port!Nothing
    <3> QED
      BY <3>2, <3>3 DEF Port!TrafficOutcome
  <2>3. \A n : outcome(n) \in {"broken", "ok"}
    BY DEF Port!TrafficOutcome
  <2> HIDE DEF outcome
  <2> QED
    BY <2>1, <2>2, <2>3 DEF Mild
<1>11. /\ Spares(Port!InterfaceState, AppliesTo(Port!InterfaceState, cp), cp,
                 Port!InterfaceStateRows(cp, now, was, Captures))
       /\ Spares(Port!InterfaceErrors, AppliesTo(Port!InterfaceErrors, cp), cp,
                 Port!InterfaceErrorsRows(cp, now, was))
       /\ Spares(Port!InterfaceTraffic, AppliesTo(Port!InterfaceTraffic, cp), cp,
                 Port!InterfaceTrafficRows(cp, now, was))
  <2>1. {Port!InterfaceTraffic, Port!TrafficCeased} \subseteq AdvisoryChecks
    BY DEF AdvisoryChecks
  <2>2. \A f \in Port!InterfaceTrafficRows(cp, now, was) : f.check = Port!InterfaceTraffic.id
    BY <1>5 DEF Port!InterfaceTrafficRows, Port!Row
  <2> QED
    BY <1>8, <1>9, <1>10, <2>1, <2>2, Spared, SparedAdvisory DEF Mild
<1>12. ASSUME NEW r \in RunCheck(Port!TrafficCeased, AppliesTo(Port!TrafficCeased, cp), cp, Captures, profile,
                                 Port!TrafficCeasedRows(cp, now, was))
       PROVE  (r.status = "FAIL" => r.check \in Raised) /\ "traffic_ceased" \notin profile.disabled
  <2>1. \A f \in Port!TrafficCeasedRows(cp, now, was) :
           f.check = Port!TrafficCeased.id /\ f.outcome \in {"skip", "broken", "ok"}
    BY <1>5 DEF Port!TrafficCeasedRows, Port!CeasedOutcome, Port!Row
  <2>2. /\ r.outcome \in {"skip", "broken", "ok"}
        /\ r.status = DeriveStatus(r.outcome, SeverityOf(Port!TrafficCeased, profile))
    BY <2>1 DEF RunCheck, Row
  <2>3. "traffic_ceased" \notin profile.disabled
    BY <1>5 DEF RunCheck
  <2>4. r.check = Port!TrafficCeased.id
    BY <2>1, RowsNamed
  <2>5. r.status = "FAIL" => SeverityOf(Port!TrafficCeased, profile) = "critical"
    BY <2>2 DEF DeriveStatus
  <2> QED
    BY <2>3, <2>4, <2>5 DEF Raised, AdvisoryChecks
<1> QED
  BY <1>11, <1>12, BlockJudged, DeactivationHarmless
     DEF Judged, Deactivations, Spares, Harmless, Excused, now, was, cp

LEMMA OpticsHealthy ==
  ASSUME Judging, area = "optics", NEW scope \in blocks, Healthy(scope), NEW row \in verdict[scope]
  PROVE  Harmless(row)
<1> DEFINE cp == Counterpart(scope)
           now == subject.data.optics
           was == BaselineData.optics
<1>1. Collectors(area) = {"optics"} /\ "optics" \in DOMAIN old \cap DOMAIN new /\ Blank("optics", Port!Nothing)
  <2>1. DOMAIN Empty["optics"] = {"optics"} /\ Empty["optics"]["optics"] = [optics |-> Port!Nothing]
    BY DEF Empty
  <2> QED
    BY <2>1, BothShown DEF Collectors, Blank
<1>2. was = old.optics \/ was = Port!Nothing
  BY <1>1, BeforeOrBlank
<1>3. After(scope) = OpticsConditions(new.optics)
  BY DEF After, Conditions
<1>4. Port!There(new.optics) =>
         /\ Port!DarkSides(new.optics) = {} /\ new.optics.alarms = {}
         /\ new.optics.rx \in Int /\ new.optics.tx \in Int
  <2> SUFFICES ASSUME Port!There(new.optics)
               PROVE  /\ Port!DarkSides(new.optics) = {} /\ new.optics.alarms = {}
                      /\ new.optics.rx \in Int /\ new.optics.tx \in Int
    OBVIOUS
  <2>1. /\ \A s \in Port!DarkSides(new.optics) :
              Fault("interface_optics_levels", <<"port">>, <<"dark", s>>) \in After(scope)
        /\ \A tag \in new.optics.alarms : Fault("interface_optics_alarms", <<tag>>, <<tag>>) \in After(scope)
    BY <1>3 DEF OpticsConditions, If
  <2> QED
    BY <2>1, SoundHasNoFault, BothShown DEF Healthy, Shown
<1>5. /\ Port!OpticalLevels.requires = {"optics"}
      /\ Port!OpticalAlarms.requires = {"optics"}
  BY DEF Port!OpticalLevels, Port!OpticalAlarms, Port!Port, Port!CheckClass
<1>6. ASSUME NEW check \in {Port!OpticalLevels, Port!OpticalAlarms}, ~SkippedByFrame(check, cp, Captures)
      PROVE  now = new.optics
  BY <1>1, <1>5, <1>6, RanAndRead
<1> HIDE DEF now, was, cp
<1>7. ASSUME ~SkippedByFrame(Port!OpticalLevels, cp, Captures), NEW f \in Port!OpticalLevelsRows(now, was, Captures)
      PROVE  Mild(f.outcome, "critical")
  <2>1. now = new.optics
    BY <1>6, <1>7
  <2>2. \/ f.outcome \in {"skip", "ok"}
        \/ Port!There(now) /\ Port!There(was) /\ f.outcome = Port!LevelOutcome(now, was, Captures)
    BY <1>4, <1>7, <2>1 DEF Port!OpticalLevelsRows, Port!Row
  <2>3. Port!There(now) => Port!LevelOutcome(now, was, Captures) \in {"ok", "degraded"}
    BY <1>4, <2>1 DEF Port!LevelOutcome
  <2>4. ASSUME old = new, Port!There(now), Port!There(was) PROVE Port!LevelOutcome(now, was, Captures) = "ok"
    <3>1. was = now /\ \A s \in Port!Sides : now[s] \in Int
      BY <1>2, <1>4, <2>1, <2>4 DEF Port!There, Port!Nothing, Port!Sides
    <3>2. \A s \in Port!Sides : ~(now[s] - now[s] > Port!TOLERANCE_DB)
      BY <3>1 DEF Port!TOLERANCE_DB
    <3>3. Port!DarkSides(now) = {}
      BY <1>4, <2>1, <2>4
    <3> QED
      BY <3>1, <3>2, <3>3 DEF Port!LevelOutcome
  <2> QED
    BY <2>2, <2>3, <2>4 DEF Mild
<1>8. ASSUME ~SkippedByFrame(Port!OpticalAlarms, cp, Captures), NEW f \in Port!OpticalAlarmsRows(now, was, Captures)
      PROVE  f.outcome \in {"skip", "ok"}
  <2>1. now = new.optics
    BY <1>6, <1>8
  <2> QED
    BY <1>4, <1>8, <2>1 DEF Port!OpticalAlarmsRows, Port!Row
<1>9. /\ Spares(Port!OpticalLevels, AppliesTo(Port!OpticalLevels, cp), cp, Port!OpticalLevelsRows(now, was, Captures))
      /\ Spares(Port!OpticalAlarms, AppliesTo(Port!OpticalAlarms, cp), cp, Port!OpticalAlarmsRows(now, was, Captures))
  BY <1>5, <1>7, <1>8, Spared DEF Mild
<1> QED
  BY <1>9, BlockJudged, DeactivationHarmless DEF Judged, Deactivations, Spares, now, was, cp

\* The row of a route that is in the table of the new box.
LEMMA PresenceHealthy ==
  ASSUME NEW view, NEW was, Route!Entry(view).there, Route!Entry(view).active \in {"yes", "unread"},
         Route!Entry(was).active \in {"yes", "no", "unread"}
  PROVE  Route!Presence(view, was, Captures) \in {"ok", "skip", "recovered"}
  BY DEF Route!Presence

LEMMA RoutesHealthy ==
  ASSUME Judging, area \in {"static", "aggregate"}, NEW scope \in blocks, Healthy(scope), NEW row \in verdict[scope]
  PROVE  Harmless(row)
<1> DEFINE id == IF area = "static" THEN "static_route_status" ELSE "aggregate_route_status"
           cp == Counterpart(scope)
           now == subject.data
           was == BaselineData
<1>1. /\ Collectors(area) = {"routes"} /\ {"conf", "table"} \subseteq DOMAIN old \cap DOMAIN new
      /\ Blank("conf", "none") /\ Blank("table", Route!NoEntry)
      /\ area = "static" => "hops" \in DOMAIN old \cap DOMAIN new
  <2>1. CASE area = "static"
    <3>1. /\ DOMAIN Empty["static"] = {"config", "routes"} /\ Empty["static"]["routes"] = [table |-> Route!NoEntry]
          /\ Empty["static"]["config"] = [conf |-> "none", hops |-> [h \in NextHops |-> "none"]]
      BY DEF Empty
    <3>2. DOMAIN Empty["static"]["config"] = {"conf", "hops"} /\ DOMAIN Empty["static"]["routes"] = {"table"}
      BY <3>1
    <3>3. Blank("conf", "none") /\ Blank("table", Route!NoEntry)
      BY <2>1, <3>1, <3>2 DEF Blank
    <3> QED
      BY <2>1, <3>1, <3>2, <3>3, BothShown DEF Collectors
  <2>2. CASE area = "aggregate"
    <3>1. /\ DOMAIN Empty["aggregate"] = {"config", "routes"}
          /\ Empty["aggregate"]["routes"] = [table |-> Route!NoEntry]
          /\ Empty["aggregate"]["config"] = [conf |-> "none"]
      BY DEF Empty
    <3>2. Blank("conf", "none") /\ Blank("table", Route!NoEntry)
      BY <2>2, <3>1 DEF Blank
    <3> QED
      BY <2>2, <3>1, <3>2, BothShown DEF Collectors
  <2> QED
    BY <2>1, <2>2
<1>2. was.conf \in {old.conf, "none"} /\ was.table \in {old.table, Route!NoEntry}
  BY <1>1, BeforeOrBlank
<1>3. old.conf = new.conf /\ (area = "static" => old.hops = new.hops)
  <2>1. /\ "config" \in DOMAIN Empty["static"] /\ DOMAIN Empty["static"]["config"] = {"conf", "hops"}
        /\ "config" \in DOMAIN Empty["aggregate"] /\ DOMAIN Empty["aggregate"]["config"] = {"conf"}
    BY DEF Empty
  <2> QED
    BY <2>1 DEF Healthy, SameConfiguration, ConfigurationFields
<1>4. After(scope) = RouteConditions(id, new)
  BY DEF After, Conditions
<1>5. /\ old.table.active \in {"yes", "no", "unread"} /\ new.table.active \in {"yes", "no", "unread"}
      /\ Route!NoEntry.active = "unread" /\ ~Route!NoEntry.there
  BY BothShown DEF Shown, Route!NoEntry
<1>6. new.conf # "none" => /\ new.table.there /\ new.table.active \in {"yes", "unread"}
                           /\ new.table.active = "yes" /\ area = "static" => \A h \in NextHops : new.hops[h] # "off"
  <2>1. /\ new.conf # "none" /\ ~new.table.there =>
              Condition(id, <<"route">>, <<"absent">>, new.conf # "none") \in After(scope)
        /\ new.conf # "none" /\ new.table.there /\ new.table.active = "no" =>
              Note(id, <<"route">>, <<"inactive">>) \in After(scope)
        /\ /\ new.conf # "none" /\ new.table.there /\ new.table.active = "yes" /\ area = "static"
           /\ \E h \in NextHops : new.hops[h] = "off"
           => Fault(id, <<"route">>, <<"hop off">>) \in After(scope)
    BY <1>4 DEF RouteConditions, If
  <2> HIDE DEF id
  <2> QED
    BY <1>5, <2>1, SoundHasNoFault DEF Healthy
<1>7. Route!Entry(was).active \in {"yes", "no", "unread"} /\ Route!Entry(was) \in {Route!Entry(old), Route!NoEntry}
  BY <1>2, <1>5 DEF Route!Entry
<1>8. ASSUME now.conf = new.conf, now.table = new.table, Route!RouteKnown(now, was)
      PROVE  /\ Route!Entry(now).there /\ Route!Entry(now) = new.table /\ new.conf # "none"
             /\ Route!Presence(now, was, Captures) \in {"ok", "skip", "recovered"}
  <2>1. new.conf # "none"
    BY <1>2, <1>3, <1>5, <1>8 DEF Route!RouteKnown, Route!Entry
  <2>2. Route!Entry(now) = new.table
    BY <1>8, <2>1 DEF Route!Entry
  <2> HIDE DEF now, was
  <2> QED
    BY <1>6, <1>7, <2>1, <2>2, PresenceHealthy
<1>9. /\ Route!StaticRouteStatus.requires = {"routes"}
      /\ Route!AggregateRouteStatus.requires = {"routes"}
  BY DEF Route!StaticRouteStatus, Route!AggregateRouteStatus, Route!RouteCheck, Route!CheckClass
<1>10. CASE area = "static"
  <2>1. ASSUME ~SkippedByFrame(Route!StaticRouteStatus, cp, Captures), NEW f \in Route!StaticRouteRows(now, was, Captures)
        PROVE  Mild(f.outcome, "critical")
    <3>1. now.conf = new.conf /\ now.table = new.table /\ now.hops = new.hops
      BY <1>1, <1>9, <1>10, <2>1, RanAndRead
    <3> HIDE DEF now, was
    <3>2. f.outcome = Route!StaticOutcome(now, was, Captures) /\ Route!RouteKnown(now, was)
      BY <2>1 DEF Route!StaticRouteRows, Route!Row
    <3>3. CASE Route!Entry(now).active = "yes"
      <4>1. Route!Inactive(now) = {}
        BY <1>6, <1>8, <1>10, <3>1, <3>2, <3>3 DEF Route!Inactive
      <4>2. \A outcome : Route!AnnotateInactiveHops(outcome, now, was) = outcome
        BY <4>1 DEF Route!AnnotateInactiveHops
      <4>3. old = new => ~(Route!Entry(was).there /\ Route!Entry(was).hops # Route!Entry(now).hops)
        BY <1>5, <1>7, <1>8, <3>1, <3>2 DEF Route!Entry
      <4> QED
        BY <1>8, <3>1, <3>2, <3>3, <4>2, <4>3 DEF Route!StaticOutcome, Mild
    <3>4. CASE Route!Entry(now).active # "yes"
      BY <1>8, <3>1, <3>2, <3>4 DEF Route!StaticOutcome, Mild
    <3> QED
      BY <3>3, <3>4
  <2>2. Spares(Route!StaticRouteStatus, AppliesTo(Route!StaticRouteStatus, cp), cp,
               Route!StaticRouteRows(now, was, Captures))
    BY <1>9, <2>1, Spared
  <2> QED
    BY <1>10, <2>2, BlockJudged, DeactivationHarmless DEF Judged, Deactivations, Spares
<1>11. CASE area = "aggregate"
  <2>1. ASSUME ~SkippedByFrame(Route!AggregateRouteStatus, cp, Captures),
               NEW f \in Route!AggregateRouteRows(now, was, Captures)
        PROVE  f.outcome \in {"ok", "skip", "recovered"}
    <3>1. now.conf = new.conf /\ now.table = new.table
      BY <1>1, <1>9, <1>11, <2>1, RanAndRead
    <3>2. f.outcome = Route!Presence(now, was, Captures) /\ Route!RouteKnown(now, was)
      BY <2>1 DEF Route!AggregateRouteRows, Route!Row
    <3> QED
      BY <1>8, <3>1, <3>2
  <2>2. Spares(Route!AggregateRouteStatus, AppliesTo(Route!AggregateRouteStatus, cp), cp,
               Route!AggregateRouteRows(now, was, Captures))
    BY <2>1, Spared DEF Mild
  <2> QED
    BY <1>11, <2>2, BlockJudged, DeactivationHarmless DEF Judged, Deactivations, Spares
<1> QED
  BY <1>10, <1>11

\* The new box is pinged at hosts, whichever collectors failed.
LEMMA SubjectPings ==
  ASSUME Judging, area \in ReachAreas
  PROVE  LET seen == Seen(area, new, subject.lost) IN
            /\ subject.data.pings = Reach!Pings(seen, Family(area), Before4, Fate(new))
            /\ \A p \in subject.data.pings : p.target \in Hosts \ Own
<1> DEFINE seen == Seen(area, new, subject.lost)
<1>1. /\ area \in Areas \cap ReachAreas /\ old \in Views[area] /\ new \in Views[area]
      /\ subject.lost \in Losses(area) /\ subject.data = Captured(area, new, subject.lost, Before4)
      /\ baseline # NoCapture => baseline.lost \in Losses(area) /\ baseline.data = Captured(area, old, baseline.lost, {})
  BY ViewsAssumption DEF Judging, JudgeInv, BaselineIsOfOld, SubjectIsOfNew, Judgement
<1>2. /\ subject.data.pings = Reach!Pings(seen, Family(area), Before4, Fate(new))
      /\ seen.bgp = new.bgp /\ seen.entries \subseteq new.entries
  BY <1>1, HostsSeen
<1>3. Before4 \subseteq old.entries
  <2>1. CASE baseline = NoCapture
    BY <2>1 DEF Before4
  <2>2. CASE baseline # NoCapture
    BY <1>1, <2>2, HostsSeen DEF Before4
  <2> QED
    BY <2>1, <2>2
<1>4. new.bgp \cup {e.ip : e \in new.entries} \cup {e.ip : e \in old.entries} \subseteq Hosts
  BY BothShown DEF Shown, ReachAreas
<1> HIDE DEF seen
<1>5. seen.bgp \cup {e.ip : e \in seen.entries} \cup {e.ip : e \in Before4} \subseteq Hosts
  BY <1>2, <1>3, <1>4
<1>6. ASSUME NEW p \in subject.data.pings PROVE p.target \in Reach!Targets(seen, Family(area), Before4)
  BY <1>2, <1>6 DEF Reach!Pings, Reach!PingResult
<1> QED
  BY <1>2, <1>5, <1>6, TargetsAreHosts DEF seen

LEMMA SoundHosts ==
  ASSUME NEW id, NEW view, Sound(ReachConditions(id, view))
  PROVE  /\ view.nets # {} => view.entries # {}
         /\ view.nets # {} => \A e \in view.entries : e.state = "resolved"
         /\ \A h \in Hosts \ Own : h \in view.alive \cup view.refused
<1>1. /\ view.entries = {} => Condition(id, <<"table">>, <<"empty">>, view.nets # {}) \in ReachConditions(id, view)
      /\ \A e \in view.entries : e.state # "resolved" =>
            Condition(id, <<e.ip>>, <<e.ip, "incomplete">>, view.nets # {}) \in ReachConditions(id, view)
      /\ \A h \in Hosts \ Own : h \notin view.alive \cup view.refused =>
            Note("ping_reachability", <<h>>, <<h, "no answer">>) \in ReachConditions(id, view)
  BY DEF ReachConditions, If
<1> QED
  BY <1>1, SoundHasNoFault

\* Every host of the family answers, and the table is full of them.
LEMMA HostsSpared ==
  ASSUME Judging, NEW id, NEW check, NEW c, area \in ReachAreas, Collectors(area) = {c},
         check.requires = {c}, {"nets", "entries"} \subseteq DOMAIN new,
         NEW scope \in blocks, Healthy(scope), NEW cp, After(scope) = ReachConditions(id, new)
  PROVE  /\ Spares(check, AppliesTo(check, cp), cp, Reach!TableRows(id, c, subject.data, BaselineData, Captures))
         /\ Spares(Reach!PingReachability, AppliesTo(Reach!PingReachability, cp), cp,
                   Reach!PingRows(subject.data, BaselineData, Captures))
<1>1. /\ new.nets # {} => new.entries # {}
      /\ new.nets # {} => \A e \in new.entries : e.state = "resolved"
      /\ \A h \in Hosts \ Own : h \in new.alive \cup new.refused
  BY SoundHosts DEF Healthy
<1>2. ASSUME ~SkippedByFrame(check, cp, Captures),
             NEW f \in Reach!TableRows(id, c, subject.data, BaselineData, Captures)
      PROVE  f.outcome = "ok"
  <2>1. subject.data.nets = new.nets /\ subject.data.entries = new.entries
    BY <1>2, RanAndRead
  <2>2. /\ new.nets # {}
        /\ f \in {Reach!Row(id, <<e.ip>>, Reach!EntryOutcome(e, BaselineData.entries, Captures, c)) : e \in new.entries}
    BY <1>1, <1>2, <2>1 DEF Reach!TableRows
  <2>3. \A e \in new.entries : Reach!EntryOutcome(e, BaselineData.entries, Captures, c) = "ok"
    BY <1>1, <2>2 DEF Reach!EntryOutcome
  <2> QED
    BY <2>2, <2>3 DEF Reach!Row
<1>3. ASSUME NEW p \in subject.data.pings PROVE Reach!PingOutcome(p, BaselineData.pings, Captures) \in {"skip", "ok"}
  <2>1. p.target \in Hosts \ Own
    BY <1>3, SubjectPings
  <2>2. p.target \in new.alive \cup new.refused
    BY <1>1, <2>1
  <2>3. p.sent = 0 \/ p.received > 0
    BY <1>3, <2>1, <2>2, SubjectPings, NoAnswer
  <2> QED
    BY <2>3 DEF Reach!PingOutcome
<1>4. ASSUME NEW f \in Reach!PingRows(subject.data, BaselineData, Captures)
      PROVE  f.outcome \in {"skip", "ok"}
  <2>1. \/ \E about : f = Reach!Row("ping_reachability", about, "skip")
        \/ \E p \in subject.data.pings :
              f = Reach!Row("ping_reachability", <<p.target>>, Reach!PingOutcome(p, BaselineData.pings, Captures))
    BY <1>4 DEF Reach!PingRows, Reach!PingSkippedRows
  <2> QED
    BY <1>3, <2>1 DEF Reach!Row
<1> QED
  BY <1>2, <1>4, Spared DEF Mild

LEMMA ReachHealthy ==
  ASSUME Judging, area \in ReachAreas, NEW scope \in blocks, Healthy(scope), NEW row \in verdict[scope]
  PROVE  Harmless(row)
<1> DEFINE cp == Counterpart(scope)
<1>1. CASE area = "reach4"
  <2>1. After(scope) = ReachConditions("arp_present", new)
    BY <1>1 DEF After, Conditions
  <2>2. Collectors(area) = {"arp"} /\ {"nets", "entries"} \subseteq DOMAIN new
    <3>1. /\ DOMAIN Empty["reach4"] = {"config", "arp"} /\ "nets" \in DOMAIN Empty["reach4"]["config"]
          /\ "entries" \in DOMAIN Empty["reach4"]["arp"]
      BY DEF Empty
    <3> QED
      BY <1>1, <3>1, BothShown DEF Collectors
  <2>3. Reach!ArpPresent.requires = {"arp"}
    BY DEF Reach!ArpPresent, Reach!Reach, Reach!CheckClass
  <2>4. /\ Spares(Reach!ArpPresent, AppliesTo(Reach!ArpPresent, cp), cp,
                  Reach!TableRows("arp_present", "arp", subject.data, BaselineData, Captures))
        /\ Spares(Reach!PingReachability, AppliesTo(Reach!PingReachability, cp), cp,
                  Reach!PingRows(subject.data, BaselineData, Captures))
    BY <2>1, <2>2, <2>3, HostsSpared
  <2> QED
    BY <1>1, <2>4, BlockJudged, DeactivationHarmless DEF Judged, Deactivations, Spares
<1>2. CASE area = "reach6"
  <2>1. After(scope) = ReachConditions("nd_present", new)
    BY <1>2 DEF After, Conditions
  <2>2. Collectors(area) = {"nd"} /\ {"nets", "entries"} \subseteq DOMAIN new
    <3>1. /\ DOMAIN Empty["reach6"] = {"config", "nd"} /\ "nets" \in DOMAIN Empty["reach6"]["config"]
          /\ "entries" \in DOMAIN Empty["reach6"]["nd"]
      BY DEF Empty
    <3> QED
      BY <1>2, <3>1, BothShown DEF Collectors
  <2>3. Reach!NdPresent.requires = {"nd"}
    BY DEF Reach!NdPresent, Reach!Reach, Reach!CheckClass
  <2>4. /\ Spares(Reach!NdPresent, AppliesTo(Reach!NdPresent, cp), cp,
                  Reach!TableRows("nd_present", "nd", subject.data, BaselineData, Captures))
        /\ Spares(Reach!PingReachability, AppliesTo(Reach!PingReachability, cp), cp,
                  Reach!PingRows(subject.data, BaselineData, Captures))
    BY <2>1, <2>2, <2>3, HostsSpared
  <2> QED
    BY <1>2, <2>4, BlockJudged, DeactivationHarmless DEF Judged, Deactivations, Spares
<1> QED
  BY <1>1, <1>2 DEF ReachAreas

\* A circuit of a sound service is up on both sides.
LEMMA SoundCircuit ==
  ASSUME NEW view, view.there, Sound(VpwsConditions(view)), NEW ac \in view.acs
  PROVE  /\ ac.status = "Up" /\ ac.pw \in {Evpn!Nothing, "Up"} /\ ac.partner \in {Evpn!Nothing, "Up"}
         /\ ac.partner = Evpn!Nothing => ac.remote # {}
         /\ \A p \in ac.local : p.resolved
         /\ ac.partner = Evpn!Nothing => \A p \in ac.remote : p.resolved
<1>1. PICK id \in CircuitIds(view, ac) : CircuitConditions(ac, id) \subseteq VpwsConditions(view)
  <2>1. CircuitIds(view, ac) # {}
    BY DEF CircuitIds
  <2> QED
    BY <2>1 DEF VpwsConditions, If
<1> DEFINE at(about, what, value) == Fault("evpn_vpws_status", about, <<id, what, value>>)
<1>2. /\ ac.status # "Up" => at(<<ac.name, "status">>, "status", ac.status) \in CircuitConditions(ac, id)
      /\ ac.pw \notin {Evpn!Nothing, "Up"} => at(<<ac.name, "pw">>, "pw", ac.pw) \in CircuitConditions(ac, id)
      /\ ac.partner \notin {Evpn!Nothing, "Up"} =>
            at(<<ac.name, "switch">>, "switch", ac.partner) \in CircuitConditions(ac, id)
      /\ ac.partner = Evpn!Nothing /\ ac.remote = {} =>
            at(<<ac.name, "remote">>, "remote", "no peer") \in CircuitConditions(ac, id)
      /\ \A p \in ac.local : ~p.resolved => at(<<ac.name, "local", p.ip>>, "local", p.ip) \in CircuitConditions(ac, id)
      /\ ac.partner = Evpn!Nothing => \A p \in ac.remote :
            ~p.resolved => at(<<ac.name, "remote", p.ip>>, "remote", p.ip) \in CircuitConditions(ac, id)
  BY DEF CircuitConditions, If, Fault
<1>3. \A about, what, value : at(about, what, value) \notin CircuitConditions(ac, id)
  BY <1>1, SoundHasNoFault
<1> QED
  BY <1>2, <1>3

LEMMA CircuitHealthy ==
  ASSUME NEW ac, NEW was, ac.status = "Up", ac.pw \in {Evpn!Nothing, "Up"}, ac.partner \in {Evpn!Nothing, "Up"},
         ac.partner = Evpn!Nothing => ac.remote # {}, \A p \in ac.local : p.resolved,
         ac.partner = Evpn!Nothing => \A p \in ac.remote : p.resolved,
         NEW f \in Evpn!AcRows(ac, was, Captures)
  PROVE  f.outcome = "ok"
<1> DEFINE row(about, outcome) == Evpn!Row("evpn_vpws_status", about, outcome)
<1>1. \/ f = row(<<ac.name, "status">>, Evpn!StatusOutcome(ac.status, was.status, Captures, "evpn_vpws"))
      \/ f \in Evpn!PwRows(ac, was, Captures)
      \/ ac.partner # Evpn!Nothing /\ f = Evpn!SwitchRow(ac, was, Captures)
      \/ \E p \in ac.local : f = row(<<ac.name, "local", p.ip>>, Evpn!PeerOutcome(p, was.local, Captures))
      \/ /\ ac.partner = Evpn!Nothing
         /\ \E p \in ac.remote : f = row(<<ac.name, "remote", p.ip>>, Evpn!PeerOutcome(p, was.remote, Captures))
  BY DEF Evpn!AcRows, Evpn!SidRows
<1>2. Evpn!StatusOutcome(ac.status, was.status, Captures, "evpn_vpws") = "ok"
  BY DEF Evpn!StatusOutcome, Evpn!UP
<1>3. \A g \in Evpn!PwRows(ac, was, Captures) : g.outcome = "ok"
  BY DEF Evpn!PwRows, Evpn!Row, Evpn!UP
<1>4. ac.partner # Evpn!Nothing => Evpn!SwitchRow(ac, was, Captures).outcome = "ok"
  BY DEF Evpn!SwitchRow, Evpn!StatusOutcome, Evpn!UP, Evpn!Row
<1>5. \A p : p.resolved => \A before : Evpn!PeerOutcome(p, before, Captures) = "ok"
  BY DEF Evpn!PeerOutcome
<1>6. \A about, outcome : row(about, outcome).outcome = outcome
  BY DEF Evpn!Row
<1> HIDE DEF row
<1>7. CASE f = row(<<ac.name, "status">>, Evpn!StatusOutcome(ac.status, was.status, Captures, "evpn_vpws"))
  BY <1>2, <1>6, <1>7
<1>8. CASE \E p \in ac.local : f = row(<<ac.name, "local", p.ip>>, Evpn!PeerOutcome(p, was.local, Captures))
  BY <1>5, <1>6, <1>8
<1>9. CASE /\ ac.partner = Evpn!Nothing
           /\ \E p \in ac.remote : f = row(<<ac.name, "remote", p.ip>>, Evpn!PeerOutcome(p, was.remote, Captures))
  BY <1>5, <1>6, <1>9
<1> QED
  BY <1>1, <1>3, <1>4, <1>7, <1>8, <1>9

LEMMA VpwsHealthy ==
  ASSUME Judging, area = "vpws", NEW scope \in blocks, Healthy(scope), NEW row \in verdict[scope]
  PROVE  Harmless(row)
<1> DEFINE check == Evpn!EvpnVpwsStatus
           cp == Counterpart(scope)
           now == subject.data
           before == BaselineData
<1>1. Collectors(area) = {"evpn_vpws"} /\ {"there", "acs"} \subseteq DOMAIN new
  <2>1. DOMAIN Empty["vpws"] = {"evpn_vpws"} /\ DOMAIN Empty["vpws"]["evpn_vpws"] = {"there", "acs"}
    BY DEF Empty
  <2> QED
    BY <2>1, BothShown DEF Collectors
<1>2. After(scope) = VpwsConditions(new)
  BY DEF After, Conditions
<1>3. new.there => new.acs # {}
  <2>1. new.there /\ new.acs = {} => Fault("evpn_vpws_status", <<"missing">>, <<"missing">>) \in VpwsConditions(new)
    BY DEF VpwsConditions, If
  <2> QED
    BY <1>2, <2>1, SoundHasNoFault DEF Healthy
<1>4. check.requires = {"evpn_vpws"}
  BY DEF Evpn!EvpnVpwsStatus, Evpn!Evpn, Evpn!CheckClass
<1>5. ASSUME ~SkippedByFrame(check, cp, Captures), NEW f \in Evpn!VpwsRows(now, before, Captures)
      PROVE  f.outcome \in {"skip", "ok"}
  <2>1. now.there = new.there /\ now.acs = new.acs
    BY <1>1, <1>4, <1>5, RanAndRead
  <2> HIDE DEF now, before
  <2>2. CASE ~new.there
    BY <1>5, <2>1, <2>2 DEF Evpn!VpwsRows, Evpn!Row
  <2>3. CASE new.there
    <3>1. PICK ac \in new.acs : f \in Evpn!AcRows(ac, Evpn!PairedAc(ac, now.acs, before.acs), Captures)
      BY <1>3, <1>5, <2>1, <2>3 DEF Evpn!VpwsRows
    <3>2. /\ ac.status = "Up" /\ ac.pw \in {Evpn!Nothing, "Up"} /\ ac.partner \in {Evpn!Nothing, "Up"}
          /\ ac.partner = Evpn!Nothing => ac.remote # {}
          /\ \A p \in ac.local : p.resolved
          /\ ac.partner = Evpn!Nothing => \A p \in ac.remote : p.resolved
      BY <1>2, <2>3, SoundCircuit DEF Healthy
    <3> QED
      BY <3>1, <3>2, CircuitHealthy
  <2> QED
    BY <2>2, <2>3
<1>6. Spares(check, AppliesTo(check, cp), cp, Evpn!VpwsRows(now, before, Captures))
  BY <1>5, Spared DEF Mild
<1> QED
  BY <1>6, BlockJudged, DeactivationHarmless DEF Judged, Deactivations, Spares

LEMMA EsiHealthy ==
  ASSUME Judging, area = "esi", NEW scope \in blocks, Healthy(scope), NEW row \in verdict[scope]
  PROVE  Harmless(row)
<1> DEFINE check == Evpn!EvpnEsiStatus
           cp == Counterpart(scope)
           now == subject.data
           was == BaselineData
           fields == {"there", "status", "df", "resolved"}
<1>1. Collectors(area) = {"evpn_esi"} /\ fields \subseteq DOMAIN new
  <2>1. DOMAIN Empty["esi"] = {"evpn_esi"} /\ DOMAIN Empty["esi"]["evpn_esi"] = fields
    BY DEF Empty
  <2> QED
    BY <2>1, BothShown DEF Collectors
<1>2. check.requires = {"evpn_esi"}
  BY DEF Evpn!EvpnEsiStatus, Evpn!Evpn, Evpn!CheckClass
<1>3. AppliesTo(check, cp) => After(scope) = EsiConditions(new)
  <2>1. cp.subtype = scope.subtype /\ cp.kind = scope.kind
    BY BlockJudged DEF Scopes
  <2>2. AppliesTo(check, cp) => scope.subtype # "local"
    BY <2>1 DEF AppliesTo, Evpn!EvpnEsiStatus, Evpn!Evpn, Evpn!CheckClass
  <2> QED
    BY <2>2 DEF After, Conditions, If
<1>4. ASSUME AppliesTo(check, cp), new.there
      PROVE  new.status = "Up" /\ new.df \in {Evpn!Nothing, "elected"} /\ new.resolved \in {Evpn!Nothing, "yes"}
  <2>1. /\ new.status # "Up" => Fault("evpn_esi_status", <<"interface">>, <<new.status>>) \in EsiConditions(new)
        /\ new.df = "not elected" => Fault("evpn_esi_status", <<"df">>, <<new.df>>) \in EsiConditions(new)
        /\ new.resolved = "no" => Fault("evpn_esi_status", <<"resolved">>, <<"no">>) \in EsiConditions(new)
    BY <1>4 DEF EsiConditions, NotIn, If
  <2>2. new.df \in {Evpn!Nothing, "elected", "not elected"} /\ new.resolved \in {Evpn!Nothing, "yes", "no"}
    BY <1>4, BothShown DEF Shown
  <2> QED
    BY <1>3, <1>4, <2>1, <2>2, SoundHasNoFault DEF Healthy
<1>5. ASSUME AppliesTo(check, cp), ~SkippedByFrame(check, cp, Captures), NEW f \in Evpn!EsiRows(now, was, Captures)
      PROVE  f.outcome \in {"skip", "ok", "info"}
  <2>1. \A g \in fields : now[g] = new[g]
    BY <1>1, <1>2, <1>5, RanAndRead
  <2>2. Evpn!StatusOutcome("Up", was.status, Captures, "evpn_esi") = "ok"
    BY DEF Evpn!StatusOutcome, Evpn!UP
  <2> HIDE DEF now, was
  <2>3. CASE ~new.there
    <3>1. Evpn!EsiRows(now, was, Captures) = {Evpn!Row("evpn_esi_status", <<"all">>, "skip")}
      BY <2>1, <2>3 DEF Evpn!EsiRows
    <3> QED
      BY <1>5, <3>1 DEF Evpn!Row
  <2>4. CASE new.there
    <3>1. now.status = "Up" /\ now.df \in {Evpn!Nothing, "elected"} /\ now.resolved \in {Evpn!Nothing, "yes"}
      BY <1>4, <1>5, <2>1, <2>4
    <3> DEFINE same(fault) == Evpn!UnchangedOr("broken", Captures, "evpn_esi", fault)
               df == CASE now.df = Evpn!Nothing -> "info"
                       [] now.df = "elected" -> "ok"
                       [] now.df = "not elected" -> same(was.df = "not elected")
               resolved == IF now.resolved = "yes" THEN "ok" ELSE same(was.resolved = "no")
               found == {Evpn!Row("evpn_esi_status", <<"interface">>,
                                  Evpn!StatusOutcome(now.status, was.status, Captures, "evpn_esi")),
                         Evpn!Row("evpn_esi_status", <<"df">>, df)}
                        \cup (IF now.resolved = Evpn!Nothing THEN {}
                              ELSE {Evpn!Row("evpn_esi_status", <<"resolved">>, resolved)})
    <3>2. Evpn!EsiRows(now, was, Captures) = found
      BY <2>1, <2>4 DEF Evpn!EsiRows
    <3>3. df \in {"info", "ok"} /\ (now.resolved # Evpn!Nothing => resolved = "ok")
      BY <3>1 DEF Evpn!Nothing
    <3> HIDE DEF df, resolved
    <3> QED
      BY <1>5, <2>2, <3>1, <3>2, <3>3 DEF Evpn!Row
  <2> QED
    BY <2>3, <2>4
<1>6. Spares(check, AppliesTo(check, cp), cp, Evpn!EsiRows(now, was, Captures))
  BY <1>5, Spared DEF Mild
<1> QED
  BY <1>6, BlockJudged, DeactivationHarmless DEF Judged, Deactivations, Spares

LEMMA EvpnHealthy ==
  ASSUME Judging, area = "evpn", NEW scope \in blocks, Healthy(scope), NEW row \in verdict[scope]
  PROVE  Harmless(row)
<1> DEFINE check == Evpn!EvpnInstanceStatus
           cp == Counterpart(scope)
           now == subject.data
           was == BaselineData
           fields == {"there", "neighbors", "unit", "irb"}
<1>1. Collectors(area) = {"evpn_instance"} /\ fields \subseteq DOMAIN old \cap DOMAIN new /\ Blank("neighbors", {})
  <2>1. /\ DOMAIN Empty["evpn"] = {"evpn_instance"} /\ DOMAIN Empty["evpn"]["evpn_instance"] = fields
        /\ Empty["evpn"]["evpn_instance"]["neighbors"] = {}
    BY DEF Empty
  <2> QED
    BY <2>1, BothShown DEF Collectors, Blank
<1>2. check.requires = {"evpn_instance"} /\ cp.linked = scope.linked
  BY BlockJudged DEF Evpn!EvpnInstanceStatus, Evpn!Evpn, Evpn!CheckClass, Scopes
<1>3. After(scope) = EvpnConditions(scope, new)
  BY DEF After, Conditions
<1>4. new.there => /\ new.neighbors # {} /\ new.unit = "Up" /\ IsFiniteSet(new.neighbors)
                   /\ scope.linked => new.irb.status = "Up"
  <2>1. /\ new.there /\ new.neighbors = {} =>
               Fault("evpn_instance_status", <<"neighbors">>, <<"none">>) \in EvpnConditions(scope, new)
        /\ new.there /\ new.unit # "Up" =>
               Fault("evpn_instance_status", <<"unit">>, <<new.unit>>) \in EvpnConditions(scope, new)
        /\ new.there /\ scope.linked /\ new.irb.status # "Up" =>
               Fault("evpn_instance_status", <<"irb">>, <<new.irb.status, new.irb.context>>)
                   \in EvpnConditions(scope, new)
    BY DEF EvpnConditions, NotIn, If
  <2> QED
    BY <1>3, <2>1, BothShown, SoundHasNoFault DEF Healthy, Shown
<1>5. was.neighbors \in {old.neighbors, {}}
  BY <1>1, BeforeOrBlank
<1>6. ASSUME ~SkippedByFrame(check, cp, Captures), NEW f \in Evpn!InstanceRows(cp, now, was, Captures)
      PROVE  f.outcome \in {"skip", "ok", "info"} \/ (old # new /\ f.outcome = "degraded")
  <2>1. \A g \in fields : now[g] = new[g]
    BY <1>1, <1>2, <1>6, RanAndRead
  <2>2. old = new => was.neighbors \in {now.neighbors, {}}
    BY <1>5, <2>1
  <2> HIDE DEF now, was
  <2>3. CASE ~new.there
    <3>1. Evpn!InstanceRows(cp, now, was, Captures) = {Evpn!Row("evpn_instance_status", <<"all">>, "skip")}
      BY <2>1, <2>3 DEF Evpn!InstanceRows
    <3> QED
      BY <1>6, <3>1 DEF Evpn!Row
  <2>4. CASE new.there
    <3> DEFINE neighbors == Evpn!NeighborsOutcome(now, was, Captures)
               unit == Evpn!UnitOutcome(now, was, Captures)
               irb == Evpn!IrbOutcome(now, was, Captures)
               row_(about, outcome) == Evpn!Row("evpn_instance_status", about, outcome)
    <3>1. now.neighbors # {} /\ now.unit = "Up" /\ IsFiniteSet(now.neighbors) /\ (scope.linked => now.irb.status = "Up")
      BY <1>4, <2>1, <2>4
    <3>2. neighbors = "ok" \/ (old # new /\ neighbors = "degraded")
      <4>1. neighbors = IF was.there /\ Evpn!Cardinality(now.neighbors) < Evpn!Cardinality(was.neighbors)
                        THEN "degraded" ELSE "ok"
        BY <3>1 DEF Evpn!NeighborsOutcome
      <4>2. ASSUME old = new PROVE ~(Evpn!Cardinality(now.neighbors) < Evpn!Cardinality(was.neighbors))
        <5>1. Cardinality(now.neighbors) \in Nat /\ Cardinality({}) = 0
          BY <3>1, FS_CardinalityType, FS_EmptySet
        <5> QED
          BY <2>2, <4>2, <5>1, CardinalityIsOne
      <4> HIDE DEF neighbors
      <4> QED
        BY <4>1, <4>2
    <3>3. unit = "ok"
      BY <3>1 DEF Evpn!UnitOutcome, Evpn!StatusOutcome, Evpn!UP, Evpn!Nothing
    <3>4. scope.linked => irb = "ok"
      <4>1. Evpn!NoIrb.status = "nothing"
        BY DEF Evpn!NoIrb, Evpn!Nothing
      <4> QED
        BY <3>1, <4>1 DEF Evpn!IrbOutcome, Evpn!UP
    <3>5. \/ f = row_(<<"neighbors">>, neighbors) \/ f = row_(<<"unit">>, unit)
          \/ \E n : f = row_(<<"neighbor", n>>, "info")
          \/ scope.linked /\ f = row_(<<"irb">>, irb)
      <4> HIDE DEF neighbors, unit, irb, cp
      <4> QED
        BY <1>2, <1>6, <2>1, <2>4 DEF Evpn!InstanceRows, neighbors, unit, irb
    <3>6. \A about, outcome : row_(about, outcome).outcome = outcome
      BY DEF Evpn!Row
    <3> HIDE DEF neighbors, unit, irb, row_
    <3>7. CASE f = row_(<<"neighbors">>, neighbors)
      BY <3>2, <3>6, <3>7
    <3>8. CASE f = row_(<<"unit">>, unit)
      BY <3>3, <3>6, <3>8
    <3>9. CASE \E n : f = row_(<<"neighbor", n>>, "info")
      BY <3>6, <3>9
    <3>10. CASE scope.linked /\ f = row_(<<"irb">>, irb)
      BY <3>4, <3>6, <3>10
    <3> QED
      BY <3>5, <3>7, <3>8, <3>9, <3>10
  <2> QED
    BY <2>3, <2>4
<1>7. Spares(check, AppliesTo(check, cp), cp, Evpn!InstanceRows(cp, now, was, Captures))
  BY <1>6, Spared DEF Mild
<1> QED
  BY <1>7, BlockJudged, DeactivationHarmless DEF Judged, Deactivations, Spares

LEMMA MacHealthy ==
  ASSUME Judging, area = "mac", NEW scope \in blocks, Healthy(scope), NEW row \in verdict[scope]
  PROVE  Harmless(row)
<1> DEFINE check == Evpn!EvpnMacCount
           cp == Counterpart(scope)
           now == subject.data
           was == BaselineData
           fields == {"there", "vlan", "port"}
<1>1. /\ Collectors(area) = {"evpn_mac"} /\ fields \subseteq DOMAIN old \cap DOMAIN new
      /\ Blank("vlan", -1) /\ Blank("port", -1)
  <2>1. /\ DOMAIN Empty["mac"] = {"evpn_mac"} /\ DOMAIN Empty["mac"]["evpn_mac"] = fields
        /\ Empty["mac"]["evpn_mac"]["vlan"] = -1 /\ Empty["mac"]["evpn_mac"]["port"] = -1
    BY DEF Empty, Evpn!NotListed
  <2> QED
    BY <2>1, BothShown DEF Collectors, Blank
<1>2. check.requires = {"evpn_mac"} /\ check.id = "evpn_mac_count"
  BY DEF Evpn!EvpnMacCount, Evpn!Evpn, Evpn!CheckClass
<1>3. After(scope) = MacConditions(new)
  BY DEF After, Conditions
<1>4. new.there => new.vlan \in Nat \ {0} /\ new.port \in (Nat \ {0}) \cup {-1}
  <2>1. /\ new.vlan \in {0, -1} => Condition("evpn_mac_count", <<"vlan">>, <<"vlan", "empty">>, new.there)
                                       \in MacConditions(new)
        /\ new.there /\ new.port = 0 => Fault("evpn_mac_count", <<"port">>, <<"port", "empty">>) \in MacConditions(new)
    BY DEF MacConditions, If, Evpn!NotListed
  <2>2. Counter(new.vlan) /\ Counter(new.port)
    BY BothShown DEF Shown
  <2> QED
    BY <1>3, <2>1, <2>2, SoundHasNoFault DEF Healthy, Counter
<1>5. was.vlan \in {old.vlan, -1} /\ was.port \in {old.port, -1}
  BY <1>1, BeforeOrBlank
<1>6. ASSUME ~SkippedByFrame(check, cp, Captures), NEW f \in Evpn!MacRows(now, was, Captures)
      PROVE  f.outcome \in {"skip", "ok", "unchanged"} \/ (old # new /\ f.outcome = "broken")
  <2>1. \A g \in fields : now[g] = new[g]
    BY <1>1, <1>2, <1>6, RanAndRead
  <2>2. old = new => was.vlan \in {now.vlan, -1} /\ was.port \in {now.port, -1}
    BY <1>5, <2>1
  <2> HIDE DEF now, was
  <2>3. CASE ~new.there
    <3>1. Evpn!MacRows(now, was, Captures) = {Evpn!Row("evpn_mac_count", <<"all">>, "skip")}
      BY <2>1, <2>3 DEF Evpn!MacRows
    <3> QED
      BY <1>6, <3>1 DEF Evpn!Row
  <2>4. CASE new.there
    <3>1. now.vlan \in Nat \ {0} /\ now.port \in (Nat \ {0}) \cup {-1}
      BY <1>4, <2>1, <2>4
    <3>2. /\ \A before, n : Evpn!MacCompare(before, n, Captures) \in {"ok", "broken", "unchanged"}
          /\ \A n \in Nat \ {0} : Evpn!MacCompare(n, n, Captures) = "ok"
      BY DEF Evpn!MacCompare, Evpn!UnchangedOr
    <3>3. /\ \A n : Evpn!MacState(n) \in {"ok", "broken"}
          /\ \A n \in Nat \ {0} : Evpn!MacState(n) = "ok"
      BY DEF Evpn!MacState
    <3> DEFINE vlan == Evpn!VlanOutcome(now.vlan, was.vlan, Captures)
    <3> DEFINE Milder(before, n) ==
                   IF before = -1 THEN Evpn!MacState(n) ELSE Evpn!MacCompare(before, n, Captures)
    <3>8. ASSUME NEW n \in Nat \ {0}, NEW before, old = new => before \in {n, -1}
          PROVE  Milder(before, n) \in {"ok", "unchanged"} \/ (old # new /\ Milder(before, n) = "broken")
      <4>1. CASE old = new
        BY <3>2, <3>3, <3>8, <4>1
      <4>2. CASE old # new
        BY <3>2, <3>3, <4>2
      <4> QED
        BY <4>1, <4>2
    <3>4. vlan \in {"ok", "unchanged"} \/ (old # new /\ vlan = "broken")
      <4>1. vlan = Milder(was.vlan, now.vlan)
        BY <3>1 DEF Evpn!VlanOutcome, Evpn!NotListed
      <4> HIDE DEF Milder
      <4> QED
        BY <2>2, <3>1, <3>8, <4>1
    <3>5. ASSUME f \in Evpn!MacPortRows(now.port, was.port, Captures)
          PROVE  f.outcome \in {"ok", "unchanged"} \/ (old # new /\ f.outcome = "broken")
      <4>1. CASE now.port = -1
        BY <2>2, <3>5, <4>1 DEF Evpn!MacPortRows, Evpn!Row, Evpn!NotListed
      <4>2. CASE now.port \in Nat \ {0}
        <5>1. f.outcome = Milder(was.port, now.port)
          BY <3>5, <4>2 DEF Evpn!MacPortRows, Evpn!Row, Evpn!NotListed
        <5> HIDE DEF Milder
        <5> QED
          BY <2>2, <3>8, <4>2, <5>1
      <4> QED
        BY <3>1, <4>1, <4>2
    <3>6. f = Evpn!Row("evpn_mac_count", <<"vlan">>, vlan) \/ f \in Evpn!MacPortRows(now.port, was.port, Captures)
      BY <1>6, <2>1, <2>4 DEF Evpn!MacRows
    <3>7. Evpn!Row("evpn_mac_count", <<"vlan">>, vlan).outcome = vlan
      BY DEF Evpn!Row
    <3> HIDE DEF vlan
    <3> QED
      BY <3>4, <3>5, <3>6, <3>7
  <2> QED
    BY <2>3, <2>4
<1>7. Spares(check, AppliesTo(check, cp), cp, Evpn!MacRows(now, was, Captures))
  <2>1. check \in AdvisoryChecks
    BY DEF AdvisoryChecks
  <2>2. \A f \in Evpn!MacRows(now, was, Captures) : f.check = check.id
    BY <1>2 DEF Evpn!MacRows, Evpn!MacPortRows, Evpn!Row
  <2> QED
    BY <1>6, <2>1, <2>2, SparedAdvisory DEF Mild
<1> QED
  BY <1>7, BlockJudged, DeactivationHarmless DEF Judged, Deactivations, Spares

\* An entry that carries a stream as it is asked for.
LEMMA SoundEntry ==
  ASSUME NEW view, NEW r, NEW s, NEW was, Counter(r.pps), Sound(CarriedConditions(view, r, s)),
         Mcast!Roles(view, s) # {}, Mcast!Roles(view, s) \subseteq {"receiver", "sender"},
         NEW finding \in Mcast!StreamRows(r, Mcast!Roles(view, s), was, Captures)
  PROVE  finding.outcome \in {"ok", "skip"}
<1> DEFINE id == "multicast_forwarding_status"
           roles == Mcast!Roles(view, s)
           received == "receiver" \in roles /\ "service" \in r.down
           sent == "sender" \in roles /\ r.down # {}
           sending == (sent /\ ~received) \/ roles = {"sender"}
           wanted == IF sending THEN {"service"} ELSE {"service", "allowed"}
           is(about, what, isFault) ==
               {Condition(id, Append(r.stream, about), <<r.stream[1], r.stream[2], what>>, isFault)}
           row(about, outcome) == Mcast!Row(id, Append(r.stream, about), outcome)
<1>1. CarriedConditions(view, r, s) =
          If("service" \notin r.down, is("stream", "not received", "receiver" \in roles /\ ~sent))
          \cup If(r.down = {}, is("stream", "not sent", roles = {"sender"}))
          \cup If(r.up \notin wanted /\ roles # {}, is("upstream", "upstream", TRUE))
          \cup If(r.pps = 0 /\ roles # {}, is("rate", "no traffic", TRUE))
  <2>1. roles = (IF s \in view.igmp THEN {"receiver"} ELSE {}) \cup UNION {j.roles : j \in {j \in view.pim : j.stream = s}}
    BY DEF Mcast!Roles, Mcast!RECEIVER
  <2> HIDE DEF roles, is
  <2> QED
    BY <2>1 DEF CarriedConditions, is
<1>2. /\ "service" \in r.down \/ "receiver" \notin roles \/ sent
      /\ r.down # {} \/ roles # {"sender"}
      /\ r.up \in wanted /\ r.pps # 0
  <2>1. ASSUME NEW about, NEW what, NEW isFault, isFault PROVE ~(is(about, what, isFault) \subseteq CarriedConditions(view, r, s))
    BY <2>1, SoundHasNoFault
  <2> HIDE DEF is, wanted, roles
  <2>2. /\ "service" \notin r.down => is("stream", "not received", "receiver" \in roles /\ ~sent)
                                         \subseteq CarriedConditions(view, r, s)
        /\ r.down = {} => is("stream", "not sent", roles = {"sender"}) \subseteq CarriedConditions(view, r, s)
        /\ r.up \notin wanted => is("upstream", "upstream", TRUE) \subseteq CarriedConditions(view, r, s)
        /\ r.pps = 0 => is("rate", "no traffic", TRUE) \subseteq CarriedConditions(view, r, s)
    BY <1>1 DEF If, roles
  <2> QED
    BY <2>1, <2>2
<1>3. roles # {} /\ roles \subseteq {"receiver", "sender"}
  OBVIOUS
<1>4. IF sending THEN sent /\ r.up = "service" ELSE received /\ r.up \in {"service", "allowed"}
  <2> HIDE DEF roles
  <2> QED
    BY <1>2, <1>3
<1>5. Mcast!RateOutcome(r) \in {"ok", "skip"}
  BY <1>2 DEF Mcast!RateOutcome, Mcast!Unread, Counter
<1> DEFINE b == Mcast!BaselineRoute(was, r)
           same(outcome, fault) == Mcast!UnchangedOr(outcome, Captures, "multicast_route", b # Mcast!NoStream /\ fault)
<1>6. finding \in {row("rate", Mcast!RateOutcome(r))}
          \cup IF sending
               THEN {row("stream", IF sent THEN "ok" ELSE same("degraded", b.down = {})),
                     row("upstream", IF r.up = "service" THEN "ok" ELSE "broken")}
               ELSE {row("stream", IF received THEN "ok" ELSE same("broken", "service" \notin b.down)),
                     row("upstream", IF r.up \in {"service", "allowed"} THEN "ok" ELSE "broken")}
  <2> HIDE DEF roles
  <2> QED
    BY DEF Mcast!StreamRows, Mcast!RECEIVER, Mcast!SENDER, roles
<1> HIDE DEF row, sent, received, sending, same
<1>7. finding \in {row("rate", Mcast!RateOutcome(r)), row("stream", "ok"), row("upstream", "ok")}
  BY <1>4, <1>6
<1> QED
  BY <1>5, <1>7 DEF Mcast!Row, row

\* A stream that is carried as it is asked for.
LEMMA PairHealthy ==
  ASSUME NEW view, Shown("streams", view), NEW asked, NEW s \in asked, s \in Asked(view),
         Sound(ForwardingConditions(view, asked)), NEW was, NEW finding \in Mcast!PairRows(view, was, Captures, s)
  PROVE  finding.outcome \in {"ok", "skip"}
<1> DEFINE carrying == {r \in view.routes : Carries(r, s)}
<1>1. carrying # {}
  <2>1. carrying = {} => AbsentCondition(view, s) \in ForwardingConditions(view, asked)
    BY ForwardingConditionsOf
  <2> QED
    BY <2>1, SoundHasNoFault DEF AbsentCondition
<1>2. Mcast!RoutesFor(view.routes, s) = carrying
  BY ExpectedIsAsked
<1>3. PICK r \in carrying : finding \in Mcast!StreamRows(r, Mcast!Roles(view, s), was, Captures)
  BY <1>1, <1>2 DEF Mcast!PairRows
<1>4. Sound(CarriedConditions(view, r, s))
  BY <1>3, ForwardingConditionsOf DEF Sound
<1>5. Counter(r.pps)
  BY <1>3 DEF Shown
<1> QED
  BY <1>3, <1>4, <1>5, AskedHasRole, SoundEntry

\* A report is missing only if the other protocol carries the streams, or may.
LEMMA ReportMild ==
  ASSUME NEW now, NEW was, NEW other, NEW failed, NEW scope, NEW c,
         now = {} => other # {} \/ failed, old = new => was \in {now, {}}
  PROVE  Mild(Mcast!ReportOutcome(now, was, other, failed, scope, Captures, c), "critical")
  BY DEF Mcast!ReportOutcome, Mild

LEMMA StreamsHealthy ==
  ASSUME Judging, area = "streams", NEW scope \in blocks, Healthy(scope), NEW row \in verdict[scope]
  PROVE  Harmless(row)
<1> DEFINE cp == Counterpart(scope)
           now == subject.data
           was == BaselineData
           asked == Asked(old) \cup Asked(new)
           collectors == {"igmp_group", "pim_join", "multicast_route"}
<1>1. /\ Collectors(area) = collectors
      /\ {"igmp", "pim", "routes"} \subseteq DOMAIN old \cap DOMAIN new
      /\ Blank("igmp", {}) /\ Blank("pim", {})
      /\ \A c \in DOMAIN Empty[area] : /\ "igmp" \in DOMAIN Empty[area][c] => c = "igmp_group"
                                       /\ "pim" \in DOMAIN Empty[area][c] => c = "pim_join"
  <2>1. /\ DOMAIN Empty["streams"] = collectors
        /\ DOMAIN Empty["streams"]["igmp_group"] = {"igmp"} /\ DOMAIN Empty["streams"]["pim_join"] = {"pim"}
        /\ DOMAIN Empty["streams"]["multicast_route"] = {"routes"}
        /\ Empty["streams"]["igmp_group"]["igmp"] = {} /\ Empty["streams"]["pim_join"]["pim"] = {}
    BY DEF Empty
  <2>2. Blank("igmp", {}) /\ Blank("pim", {})
    BY <2>1 DEF Blank
  <2>3. {"igmp", "pim", "routes"} \subseteq DOMAIN old \cap DOMAIN new
    BY <2>1, BothShown
  <2> QED
    BY <2>1, <2>2, <2>3 DEF Collectors
<1>2. was.igmp \in {old.igmp, {}} /\ was.pim \in {old.pim, {}}
  BY <1>1, BeforeOrBlank
<1>3. /\ "igmp_group" \notin subject.lost => now.igmp = new.igmp
      /\ "pim_join" \notin subject.lost => now.pim = new.pim
  <2>1. "igmp_group" \notin subject.lost => Kept("igmp", subject.lost)
    BY <1>1, LostAreCollectors DEF Kept, Collectors
  <2>2. "pim_join" \notin subject.lost => Kept("pim", subject.lost)
    BY <1>1, LostAreCollectors DEF Kept, Collectors
  <2> QED
    BY <1>1, <2>1, <2>2, SubjectSeen
<1>4. Captures.failed = subject.lost
  BY DEF Captures
<1>5. Sound(StreamConditions(scope, new, asked))
  BY DEF After, AskedOf, Conditions, Healthy
<1>6. cp.igmp = scope.igmp /\ cp.pim = scope.pim
  BY BlockJudged DEF Scopes
<1>7. /\ scope.igmp => new.igmp # {} \/ Joined(new) # {}
      /\ scope.pim => new.igmp # {} \/ Joined(new) # {}
  <2>1. /\ scope.igmp /\ new.igmp = {} =>
               Condition("igmp_membership_report", <<"report">>, <<"silent">>, Joined(new) = {})
                   \in StreamConditions(scope, new, asked)
        /\ scope.pim /\ Joined(new) = {} =>
               Condition("pim_join", <<"join">>, <<"silent">>, new.igmp = {}) \in StreamConditions(scope, new, asked)
    BY DEF StreamConditions, If
  <2> QED
    BY <1>5, <2>1, SoundHasNoFault
<1> HIDE DEF now, was, cp, asked
<1>8. Spares(Mcast!IgmpMembershipReport, AppliesTo(Mcast!IgmpMembershipReport, cp), cp, Mcast!IgmpRows(cp, now, was, Captures))
  <2>1. ASSUME ~SkippedByFrame(Mcast!IgmpMembershipReport, cp, Captures), NEW f \in Mcast!IgmpRows(cp, now, was, Captures)
        PROVE  Mild(f.outcome, "critical")
    <3>1. "igmp_group" \notin subject.lost
      BY <2>1, CollectedNow DEF Mcast!IgmpMembershipReport, Mcast!Multicast, Mcast!CheckClass
    <3>2. scope.igmp /\ f.outcome = Mcast!ReportOutcome(now.igmp, was.igmp, Joined(now), "pim_join" \in subject.lost,
                                                        cp, Captures, "igmp_group")
      BY <1>4, <1>6, <2>1, ExpectedIsAsked DEF Mcast!IgmpRows, Mcast!Row
    <3>3. now.igmp = {} => Joined(now) # {} \/ "pim_join" \in subject.lost
      BY <1>3, <1>7, <3>1, <3>2 DEF Joined
    <3>4. old = new => was.igmp \in {now.igmp, {}}
      BY <1>2, <1>3, <3>1
    <3> DEFINE failed == "pim_join" \in subject.lost
    <3>5. now.igmp = {} => Joined(now) # {} \/ failed
      BY <3>3
    <3> HIDE DEF failed
    <3>6. Mild(Mcast!ReportOutcome(now.igmp, was.igmp, Joined(now), failed, cp, Captures, "igmp_group"), "critical")
      BY <3>4, <3>5, ReportMild
    <3> QED
      BY <3>2, <3>6 DEF failed
  <2> QED
    BY <2>1, Spared DEF Mcast!IgmpMembershipReport, Mcast!Multicast, Mcast!CheckClass
<1>9. Spares(Mcast!PimJoin, AppliesTo(Mcast!PimJoin, cp), cp, Mcast!PimRows(cp, now, was, Captures))
  <2>1. ASSUME ~SkippedByFrame(Mcast!PimJoin, cp, Captures), NEW f \in Mcast!PimRows(cp, now, was, Captures)
        PROVE  Mild(f.outcome, "critical")
    <3>1. "pim_join" \notin subject.lost
      BY <2>1, CollectedNow DEF Mcast!PimJoin, Mcast!Multicast, Mcast!CheckClass
    <3>2. scope.pim /\ f.outcome = Mcast!ReportOutcome(Joined(now), Joined(was), now.igmp, "igmp_group" \in subject.lost,
                                                       cp, Captures, "pim_join")
      BY <1>4, <1>6, <2>1, ExpectedIsAsked DEF Mcast!PimRows, Mcast!Row
    <3>3. Joined(now) = Joined(new)
      BY <1>3, <3>1 DEF Joined
    <3>4. Joined(now) = {} => now.igmp # {} \/ "igmp_group" \in subject.lost
      BY <1>3, <1>7, <3>2, <3>3
    <3>5. old = new => Joined(was) \in {Joined(now), {}}
      BY <1>2, <3>3 DEF Joined
    <3> DEFINE failed == "igmp_group" \in subject.lost
    <3>6. Joined(now) = {} => now.igmp # {} \/ failed
      BY <3>4
    <3> HIDE DEF failed
    <3>7. Mild(Mcast!ReportOutcome(Joined(now), Joined(was), now.igmp, failed, cp, Captures, "pim_join"), "critical")
      BY <3>5, <3>6, ReportMild
    <3> QED
      BY <3>2, <3>7 DEF failed
  <2> QED
    BY <2>1, Spared DEF Mcast!PimJoin, Mcast!Multicast, Mcast!CheckClass
<1>10. Spares(Mcast!MulticastForwardingStatus, AppliesTo(Mcast!MulticastForwardingStatus, cp), cp,
              Mcast!ForwardingRows(now, was, Captures))
  <2>1. ASSUME ~SkippedByFrame(Mcast!MulticastForwardingStatus, cp, Captures), NEW f \in Mcast!ForwardingRows(now, was, Captures)
        PROVE  f.outcome \in {"ok", "skip"}
    <3>1. now.igmp = new.igmp /\ now.pim = new.pim /\ now.routes = new.routes
      <4>1. Mcast!MulticastForwardingStatus.requires = collectors
        BY DEF Mcast!MulticastForwardingStatus, Mcast!Multicast, Mcast!CheckClass
      <4> QED
        BY <1>1, <2>1, <4>1, AllNow DEF now
    <3>2. Mcast!ExpectedPairs(now) = Asked(new)
      BY <3>1, ExpectedIsAsked DEF Asked, Joined
    <3>3. \A s : Mcast!PairRows(now, was, Captures, s) = Mcast!PairRows(new, was, Captures, s)
      BY <3>1 DEF Mcast!PairRows, Mcast!Roles
    <3>4. Sound(ForwardingConditions(new, asked))
      BY <1>5 DEF StreamConditions, Sound
    <3>5. \A s \in Asked(new) : \A g \in Mcast!PairRows(now, was, Captures, s) : g.outcome \in {"ok", "skip"}
      <4>1. Shown("streams", new) /\ Asked(new) \subseteq asked
        BY BothShown DEF asked
      <4> QED
        BY <3>3, <3>4, <4>1, PairHealthy
    <3> DEFINE kinds == {Mcast!PairKind(Mcast!PairRows(now, was, Captures, s)) : s \in Asked(new)}
    <3>6. Mcast!ForwardingSummary(kinds, Captures) = "ok"
      <4>1. \A s \in Asked(new) : Mcast!PairKind(Mcast!PairRows(now, was, Captures, s)) = "fine"
        <5>1. ASSUME NEW rows, \A g \in rows : g.outcome \in {"ok", "skip"} PROVE Mcast!PairKind(rows) = "fine"
          <6>1. {g.outcome : g \in rows} \subseteq {"ok", "skip"}
            BY <5>1
          <6> QED
            BY <6>1 DEF Mcast!PairKind
        <5> QED
          BY <3>5, <5>1
      <4>2. kinds \subseteq {"fine"}
        BY <4>1
      <4> HIDE DEF kinds
      <4> QED
        BY <4>2 DEF Mcast!ForwardingSummary
    <3>7. \/ f = Mcast!Row("multicast_forwarding_status", <<"all">>, "skip")
          \/ f = Mcast!Row("multicast_forwarding_status", <<"summary">>, Mcast!ForwardingSummary(kinds, Captures))
          \/ \E s \in Asked(new) : f \in Mcast!PairRows(now, was, Captures, s)
      BY <2>1, <3>2 DEF Mcast!ForwardingRows
    <3> HIDE DEF kinds
    <3> QED
      BY <3>5, <3>6, <3>7 DEF Mcast!Row
  <2> QED
    BY <2>1, Spared DEF Mild
<1> QED
  BY <1>8, <1>9, <1>10, BlockJudged, DeactivationHarmless DEF Judged, Deactivations, Spares, now, was, cp

\* The entry of a stream that is asked for.
LEMMA SoundCmulticast ==
  ASSUME NEW view, Shown("mvpn", view), NEW asked, Asked(view) \subseteq asked, Sound(MvpnConditions(view, asked))
  PROVE  /\ Asked(view) # {} => view.mvpn.there
         /\ \A s \in Asked(view) : LET entry == Mcast!CmulticastEntry(view.mvpn, s)
                                   IN  entry # Mcast!NoEntry /\ entry.pe # "none"
<1>1. Asked(view) # {} => view.mvpn.there
  <2>1. ~view.mvpn.there /\ Asked(view) # {} =>
            Fault("mvpn_cmulticast_status", <<"instance">>, <<"instance">>) \in MvpnConditions(view, asked)
    BY DEF MvpnConditions, If
  <2> QED
    BY <2>1, SoundHasNoFault
<1>2. ASSUME NEW s \in Asked(view)
      PROVE  Mcast!CmulticastEntry(view.mvpn, s) # Mcast!NoEntry /\ Mcast!CmulticastEntry(view.mvpn, s).pe # "none"
  <2> DEFINE entry == Mcast!CmulticastEntry(view.mvpn, s)
             covered(q) == {e \in view.mvpn.entries : Carries(e, q)}
             missing(q) == Condition("mvpn_cmulticast_status", Append(q, "entry"), q, q \in Asked(view))
             tunnel(q) == IF q \in Asked(view) /\ \E e \in covered(q) : e.pe # "none"
                          THEN Note("mvpn_cmulticast_status", Append(q, "tunnel"), q)
                          ELSE Condition("mvpn_cmulticast_status", Append(q, "tunnel"), q, q \in Asked(view))
             part(q) == If(covered(q) = {}, {missing(q)}) \cup If(\E e \in covered(q) : e.pe = "none", {tunnel(q)})
  <2>1. missing(s) \notin MvpnConditions(view, asked) /\ tunnel(s) \notin MvpnConditions(view, asked)
    BY <1>2, SoundHasNoFault
  <2>2. part(s) \subseteq MvpnConditions(view, asked)
    <3>1. UNION {part(q) : q \in asked} \subseteq MvpnConditions(view, asked)
      BY <1>1, <1>2 DEF MvpnConditions, If
    <3> HIDE DEF part
    <3> QED
      BY <1>2, <3>1
  <2>3. covered(s) # {} /\ \A e \in covered(s) : e.pe # "none"
    <3> HIDE DEF missing, tunnel, covered
    <3> QED
      BY <2>1, <2>2 DEF If
  <2>4. entry = CHOOSE e \in covered(s) : TRUE
    BY <2>3, ExpectedIsAsked DEF Mcast!CmulticastEntry
  <2>5. entry \in covered(s)
    BY <2>3, <2>4
  <2>6. Mcast!NoEntry \notin view.mvpn.entries
    BY DEF Shown
  <2> QED
    BY <2>3, <2>5, <2>6
<1> QED
  BY <1>1, <1>2

LEMMA MvpnHealthy ==
  ASSUME Judging, area = "mvpn", NEW scope \in blocks, Healthy(scope), NEW row \in verdict[scope]
  PROVE  Harmless(row)
<1> DEFINE check == Mcast!MvpnCmulticastStatus
           cp == Counterpart(scope)
           now == subject.data
           was == BaselineData
           asked == Asked(old) \cup Asked(new)
           none == [there |-> FALSE, entries |-> {}]
<1>1. /\ Collectors(area) = {"igmp_group", "pim_join", "mvpn_instance"}
      /\ {"igmp", "pim", "mvpn"} \subseteq DOMAIN old \cap DOMAIN new
      /\ Blank("igmp", {}) /\ Blank("mvpn", none)
      /\ \A c \in DOMAIN Empty[area] : /\ "mvpn" \in DOMAIN Empty[area][c] => c = "mvpn_instance"
                                       /\ "pim" \in DOMAIN Empty[area][c] => c = "pim_join"
  <2>1. /\ DOMAIN Empty["mvpn"] = {"igmp_group", "pim_join", "mvpn_instance"}
        /\ DOMAIN Empty["mvpn"]["igmp_group"] = {"igmp"} /\ DOMAIN Empty["mvpn"]["pim_join"] = {"pim"}
        /\ DOMAIN Empty["mvpn"]["mvpn_instance"] = {"mvpn"} /\ Empty["mvpn"]["igmp_group"]["igmp"] = {}
        /\ Empty["mvpn"]["mvpn_instance"]["mvpn"] = none
    BY DEF Empty
  <2>2. Blank("igmp", {}) /\ Blank("mvpn", none)
    BY <2>1 DEF Blank
  <2>3. {"igmp", "pim", "mvpn"} \subseteq DOMAIN old \cap DOMAIN new
    BY <2>1, BothShown
  <2> QED
    BY <2>1, <2>2, <2>3 DEF Collectors
<1>2. was.mvpn \in {old.mvpn, none} /\ now.igmp \in {new.igmp, {}}
  BY <1>1, BeforeOrBlank, NowOrBlank
<1>3. check.requires = {"mvpn_instance", "pim_join"}
  BY DEF Mcast!MvpnCmulticastStatus, Mcast!Multicast, Mcast!CheckClass
<1>4. Shown("mvpn", new) /\ Sound(MvpnConditions(new, asked)) /\ Asked(new) \subseteq asked
  BY BothShown DEF After, AskedOf, Conditions, Healthy
<1>5. /\ Asked(new) # {} => new.mvpn.there
      /\ \A s \in Asked(new) : /\ Mcast!CmulticastEntry(new.mvpn, s) # Mcast!NoEntry
                               /\ Mcast!CmulticastEntry(new.mvpn, s).pe # "none"
  <2> HIDE DEF asked
  <2> QED
    BY <1>4, SoundCmulticast
<1>6. ASSUME ~SkippedByFrame(check, cp, Captures), NEW f \in Mcast!MvpnRows(now, was, Captures)
      PROVE  f.outcome \in {"skip", "ok"} \/ (old # new /\ f.outcome = "degraded")
  <2>1. now.mvpn = new.mvpn /\ now.pim = new.pim
    <3>1. subject.lost \cap {"mvpn_instance", "pim_join"} = {} /\ subject.lost \subseteq DOMAIN Empty[area]
      BY <1>3, <1>6, CollectedNow, LostAreCollectors DEF Collectors
    <3>2. Kept("mvpn", subject.lost) /\ Kept("pim", subject.lost)
      BY <1>1, <3>1 DEF Kept
    <3> QED
      BY <1>1, <3>2, SubjectSeen
  <2>2. Asked(now) \subseteq Asked(new)
    BY <1>2, <2>1 DEF Asked, Joined
  <2> HIDE DEF now, was
  <2>3. CASE Asked(now) = {}
    <3>1. Mcast!MvpnRows(now, was, Captures) = {Mcast!Row("mvpn_cmulticast_status", <<"all">>, "skip")}
      BY <2>3, ExpectedIsAsked DEF Mcast!MvpnRows
    <3> QED
      BY <1>6, <3>1 DEF Mcast!Row
  <2>4. CASE Asked(now) # {}
    <3>1. now.mvpn.there
      BY <1>5, <2>1, <2>2, <2>4
    <3>2. PICK s \in Asked(now) : f \in Mcast!CmulticastRows(now, was, Captures, s)
      BY <1>6, <2>4, <3>1, ExpectedIsAsked DEF Mcast!MvpnRows
    <3> DEFINE entry == Mcast!CmulticastEntry(now.mvpn, s)
               before == Mcast!CmulticastEntry(was.mvpn, s)
               row_(about, outcome) == Mcast!Row("mvpn_cmulticast_status", Append(s, about), outcome)
    <3>3. entry # Mcast!NoEntry /\ entry.pe # "none"
      BY <1>5, <2>1, <2>2, <3>2
    <3>4. f \in {row_("entry", "ok"), row_("tunnel", Mcast!TunnelOutcome(entry, before))}
      BY <3>2, <3>3 DEF Mcast!CmulticastRows
    <3>5. old = new => before = entry \/ before.pe = "none"
      <4>1. Mcast!CmulticastEntry(none, s) = Mcast!NoEntry
        BY ExpectedIsAsked DEF Mcast!CmulticastEntry
      <4>2. Mcast!NoEntry.pe = "none"
        BY DEF Mcast!NoEntry
      <4>3. CASE was.mvpn = none
        BY <4>1, <4>2, <4>3
      <4>4. CASE was.mvpn = old.mvpn
        BY <2>1, <4>4
      <4> QED
        BY <1>2, <4>3, <4>4
    <3> HIDE DEF entry, before
    <3>6. Mcast!TunnelOutcome(entry, before) = "ok" \/ (old # new /\ Mcast!TunnelOutcome(entry, before) = "degraded")
      BY <3>3, <3>5 DEF Mcast!TunnelOutcome
    <3>7. f.outcome \in {"ok", Mcast!TunnelOutcome(entry, before)}
      BY <3>4 DEF Mcast!Row
    <3> QED
      BY <3>6, <3>7
  <2> QED
    BY <2>3, <2>4
<1>7. Spares(check, AppliesTo(check, cp), cp, Mcast!MvpnRows(now, was, Captures))
  BY <1>6, Spared DEF Mild
<1> QED
  BY <1>7, BlockJudged, DeactivationHarmless DEF Judged, Deactivations, Spares

\* The streams of a prefix of the core.
LEMMA SoundPrefix ==
  ASSUME NEW scope, NEW view, Shown("inet2", view), Sound(Inet2Conditions(scope, view)), NEW p \in scope.prefixes
  PROVE  /\ RoutesOf(p, scope.prefixes, view) # {}
         /\ \A r \in RoutesOf(p, scope.prefixes, view) :
                /\ view.vias[p.name] = Mcast!NoRoute \/ r.up \in view.vias[p.name]
                /\ r.down # {} /\ Mcast!RateOutcome(r) \in {"ok", "skip"}
<1> DEFINE id == "core_multicast_forwarding"
           routes(q) == RoutesOf(q, scope.prefixes, view)
           is(r, about) == {Fault(id, Append(r.stream, about), r.stream)}
           carried(q, r) == If(view.vias[q.name] # Mcast!NoRoute /\ r.up \notin view.vias[q.name], is(r, "upstream"))
                            \cup If(r.down = {}, is(r, "downstream")) \cup If(r.pps = 0, is(r, "rate"))
           part(q) == IF routes(q) = {} THEN {Fault(id, <<q.name>>, <<q.name>>), Fault(id, <<"summary">>, <<q.name>>)}
                      ELSE UNION {carried(q, r) : r \in routes(q)}
<1>1. Inet2Conditions(scope, view) = UNION {part(q) : q \in scope.prefixes}
  BY DEF Inet2Conditions
<1>2. part(p) \subseteq Inet2Conditions(scope, view)
  <2> HIDE DEF part
  <2> QED
    BY <1>1
<1>3. \A about, what : Fault(id, about, what) \notin part(p)
  <2> HIDE DEF part
  <2> QED
    BY <1>2, SoundHasNoFault
<1>4. routes(p) # {}
  BY <1>3
<1>5. ASSUME NEW r \in routes(p)
      PROVE  /\ view.vias[p.name] = Mcast!NoRoute \/ r.up \in view.vias[p.name]
             /\ r.down # {} /\ Mcast!RateOutcome(r) \in {"ok", "skip"}
  <2>1. carried(p, r) \subseteq part(p)
    <3> HIDE DEF carried
    <3> QED
      BY <1>5
  <2>2. \A about : ~(is(r, about) \subseteq part(p))
    <3> HIDE DEF part
    <3> QED
      BY <1>3
  <2> HIDE DEF part, is
  <2>3. /\ view.vias[p.name] = Mcast!NoRoute \/ r.up \in view.vias[p.name]
        /\ r.down # {} /\ r.pps # 0
    BY <2>1, <2>2 DEF If
  <2>4. Counter(r.pps)
    BY <1>5 DEF RoutesOf, Shown
  <2> QED
    BY <2>3, <2>4 DEF Mcast!RateOutcome, Mcast!Unread, Counter
<1> QED
  BY <1>4, <1>5

LEMMA Inet2Healthy ==
  ASSUME Judging, area = "inet2", NEW scope \in blocks, Healthy(scope), NEW row \in verdict[scope]
  PROVE  Harmless(row)
<1> DEFINE check == Mcast!CoreMulticastForwarding
           cp == Counterpart(scope)
           now == subject.data
           was == BaselineData
           prefixes == scope.prefixes
           streams(p, view) == Mcast!StreamsOf(p, cp.prefixes, view.routes)
           missing(view) == {p \in cp.prefixes : streams(p, view) = {}}
<1>1. /\ Collectors(area) = {"multicast_route", "routes"} /\ {"routes", "vias"} \subseteq DOMAIN old \cap DOMAIN new
      /\ Blank("routes", {})
  <2>1. /\ DOMAIN Empty["inet2"] = {"multicast_route", "routes"} /\ DOMAIN Empty["inet2"]["multicast_route"] = {"routes"}
        /\ DOMAIN Empty["inet2"]["routes"] = {"vias"} /\ Empty["inet2"]["multicast_route"]["routes"] = {}
    BY DEF Empty
  <2> QED
    BY <2>1, BothShown DEF Collectors, Blank
<1>2. was.routes \in {old.routes, {}}
  BY <1>1, BeforeOrBlank
<1>3. check.requires = {"multicast_route", "routes"}
  BY DEF Mcast!CoreMulticastForwarding, Mcast!Multicast, Mcast!CheckClass
<1>4. cp.prefixes = prefixes /\ \A p, view : streams(p, view) = RoutesOf(p, prefixes, view)
  <2>1. cp.prefixes = prefixes
    BY BlockJudged DEF Scopes
  <2> QED
    BY <2>1, LongestIsAssigned DEF Mcast!StreamsOf, RoutesOf
<1>5. Shown("inet2", new) /\ Sound(Inet2Conditions(scope, new))
  BY BothShown DEF After, Conditions, Healthy
<1>6. ASSUME ~SkippedByFrame(check, cp, Captures), NEW f \in Mcast!CoreForwardingRows(cp, now, was, Captures)
      PROVE  f.outcome \in {"skip", "ok"} \/ (old # new /\ f.outcome = "degraded")
  <2>1. \A g \in {"routes", "vias"} : now[g] = new[g]
    <3>1. Collectors(area) \subseteq check.requires
      BY <1>1, <1>3
    <3> HIDE DEF check
    <3>2. \A g \in DOMAIN new \ {"pings"} : now[g] = new[g]
      BY <1>6, <3>1, AllNow
    <3> QED
      BY <1>1, <3>2
  <2>2. \A p \in prefixes : streams(p, now) # {}
    <3>1. \A p \in prefixes : RoutesOf(p, prefixes, new) # {}
      BY <1>5, SoundPrefix
    <3>2. \A p : RoutesOf(p, prefixes, now) = RoutesOf(p, prefixes, new)
      BY <2>1 DEF RoutesOf
    <3> HIDE DEF streams
    <3> QED
      BY <1>4, <3>1, <3>2
  <2> DEFINE summary == Mcast!Row("core_multicast_forwarding", <<"summary">>,
                IF missing(now) = {} THEN "ok"
                ELSE Mcast!UnchangedOr("broken", Captures, "multicast_route",
                                       Captures.baseline /\ missing(now) \subseteq missing(was)))
  <2>3. f = summary \/ \E p \in prefixes : f \in Mcast!CorePrefixRows(p, cp, now, was, Captures)
    <3> HIDE DEF now, was, cp
    <3> QED
      BY <1>4, <1>6 DEF Mcast!CoreForwardingRows
  <2>4. summary.outcome = "ok"
    <3>1. missing(now) = {}
      BY <1>4, <2>2
    <3> HIDE DEF missing
    <3> QED
      BY <3>1 DEF Mcast!Row
  <2>5. ASSUME NEW p \in prefixes, f \in Mcast!CorePrefixRows(p, cp, now, was, Captures)
        PROVE  f.outcome \in {"skip", "ok"} \/ (old # new /\ f.outcome = "degraded")
    <3> DEFINE current == streams(p, now)
               before == streams(p, was)
               vias == now.vias[p.name]
               names(routes) == {r.stream : r \in routes}
               state == IF before # {} /\ names(before) # names(current) THEN "degraded" ELSE "ok"
    <3>1. f = Mcast!Row("core_multicast_forwarding", <<p.name>>, state)
          \/ \E r \in current : f \in Mcast!CoreStreamRows(r, vias)
      <4>1. current # {}
        BY <2>2
      <4> HIDE DEF now, was, cp
      <4> QED
        BY <2>5, <4>1 DEF Mcast!CorePrefixRows
    <3>2. state = "ok" \/ (old # new /\ state = "degraded")
      <4>1. old = new => was.routes \in {now.routes, {}}
        BY <1>2, <2>1
      <4>2. old = new => before \in {current, {}}
        BY <4>1 DEF Mcast!StreamsOf
      <4> HIDE DEF before, current
      <4> QED
        BY <4>2
    <3>3. ASSUME NEW r \in current, f \in Mcast!CoreStreamRows(r, vias) PROVE f.outcome \in {"skip", "ok"}
      <4>1. r \in RoutesOf(p, prefixes, new) /\ vias = new.vias[p.name]
        BY <1>4, <2>1, <3>3 DEF RoutesOf
      <4>2. /\ vias = Mcast!NoRoute \/ r.up \in vias
            /\ r.down # {} /\ Mcast!RateOutcome(r) \in {"ok", "skip"}
        BY <1>5, <4>1, SoundPrefix
      <4> HIDE DEF vias
      <4>3. f.outcome \in {IF vias = Mcast!NoRoute THEN "skip" ELSE IF r.up \in vias THEN "ok" ELSE "broken",
                           IF r.down # {} THEN "ok" ELSE "broken", Mcast!RateOutcome(r)}
        BY <3>3 DEF Mcast!CoreStreamRows, Mcast!Row
      <4> QED
        BY <4>2, <4>3
    <3> HIDE DEF state
    <3>4. Mcast!Row("core_multicast_forwarding", <<p.name>>, state).outcome = state
      BY DEF Mcast!Row
    <3> QED
      BY <3>1, <3>2, <3>3, <3>4
  <2> HIDE DEF summary
  <2> QED
    BY <2>3, <2>4, <2>5
<1>7. Spares(check, AppliesTo(check, cp), cp, Mcast!CoreForwardingRows(cp, now, was, Captures))
  BY <1>6, Spared DEF Mild
<1> QED
  BY <1>7, BlockJudged, DeactivationHarmless DEF Judged, Deactivations, Spares

LEMMA ServiceHarmless ==
  ASSUME Judging, NEW scope \in blocks, Healthy(scope), NEW row \in verdict[scope]
  PROVE  Excused(row)
<1> USE DEF Excused
<1>1. area \in DOMAIN Empty
  BY BothShown
<1>2. DOMAIN Empty = {"bgp", "bfd", "isis", "isisport", "overload", "ldp", "pim", "mpls", "transit", "ports",
                      "optics", "static", "aggregate", "reach4", "reach6", "vpws", "esi", "evpn", "mac",
                      "streams", "mvpn", "inet2"}
  BY DEF Empty
<1>3. CASE area \in {"bgp", "bfd"}
  BY <1>3, BgpHealthy, BfdHealthy DEF Harmless
<1>4. CASE area \in {"isis", "isisport", "overload"}
  BY <1>4, IsisHealthy, IsisPortHealthy, OverloadHealthy DEF Harmless
<1>5. CASE area \in {"ldp", "pim", "mpls", "transit"}
  BY <1>5, NeighborsHealthy, MplsHealthy, TransitHealthy DEF Harmless
<1>6. CASE area \in {"ports", "optics"}
  BY <1>6, PortsHealthy, OpticsHealthy DEF Harmless
<1>7. CASE area \in {"static", "aggregate", "reach4", "reach6"}
  BY <1>7, RoutesHealthy, ReachHealthy DEF Harmless, ReachAreas
<1>8. CASE area \in {"vpws", "esi", "evpn", "mac"}
  BY <1>8, VpwsHealthy, EsiHealthy, EvpnHealthy, MacHealthy DEF Harmless
<1>9. CASE area \in {"streams", "mvpn", "inet2"}
  BY <1>9, StreamsHealthy, MvpnHealthy, Inet2Healthy DEF Harmless
<1> QED
  BY <1>1, <1>2, <1>3, <1>4, <1>5, <1>6, <1>7, <1>8, <1>9

\* The move of a healthy service to a healthy state of the new box is at most a warning,
\* however different the two states are and whichever collectors failed: what fails a
\* service is a fault of the new box, a change of its configuration, or a check that is
\* advisory by itself and that the profile of the evaluation calls critical (the severity
\* and the outcome of every check; config.py, severity).
THEOREM ChangesAreWarnings == Spec => []ChangeIsWarning
<1>1. ASSUME JudgeInv, Judgement, SameConfiguration, NEW scope \in {s \in blocks : ~s.off},
             Sound(Before(scope)), Sound(After(scope)), NEW row \in verdict[scope]
      PROVE  row.status = "FAIL" => row.check \in Raised
  BY <1>1, ServiceHarmless DEF Judging, Healthy, Excused
<1>2. JudgeInv => ChangeIsWarning
  BY <1>1 DEF ChangeIsWarning
<1> QED
  BY <1>2, JudgeInvariance, PTL

\* A service that runs on the new box as it ran on the old one, without a fault, is not
\* blamed, whichever collectors of either capture failed and whatever severities the profile
\* sets.  The check that wants the port of the old box to fall silent is for a service that
\* moves away, and off by default (config.py).
THEOREM StableNeverBlamed == Spec => []StableServiceNeverBlamed
<1>1. ASSUME JudgeInv, Judgement, "traffic_ceased" \in profile.disabled, old = new,
             NEW scope \in {s \in blocks : ~s.off}, Sound(After(scope)),
             NEW row \in verdict[scope]
      PROVE  row.outcome \notin Faulty
  <2>1. SameConfiguration /\ Before(scope) = After(scope)
    BY <1>1 DEF SameConfiguration, Before, After
  <2> QED
    BY <1>1, <2>1, ServiceHarmless DEF Judging, Healthy, Harmless, Excused
<1>2. JudgeInv => StableServiceNeverBlamed
  BY <1>1 DEF StableServiceNeverBlamed
<1> QED
  BY <1>2, JudgeInvariance, PTL

-----------------------------------------------------------------------------
(* The faults of the new box are reported.                                 *)

\* A finding that names the fault, as one of now or as one that was there before.
Blaming == Faulty \cup {"unchanged"}
Answers(row, fault) == row.check = fault.check /\ row.about = fault.about /\ row.outcome \in Blaming
Answered(findings, fault) == \E f \in findings : Answers(f, fault)

\* A service that is covered by checks that are on and of which no collector was lost.
Measured(scope) ==
    /\ Judging /\ ServicesAreCovered /\ AreaIsChecked /\ subject.lost = {}
    /\ scope \in blocks /\ ~scope.off

LEMMA CoveredScope ==
  ASSUME NEW scope, Measured(scope)
  PROVE  /\ Covered(area, Counterpart(scope))
         /\ \A check \in ChecksOf[area] : check.id \notin profile.disabled
<1>1. Covered(area, scope)
  BY BothShown DEF Measured, ServicesAreCovered, Judging, JudgeInv
<1>2. \A f \in {"kind", "type", "subtype"} : Counterpart(scope)[f] = scope[f]
  BY BlockJudged DEF Measured, Scopes
<1>3. \A check : AppliesTo(check, Counterpart(scope)) = AppliesTo(check, scope)
  BY <1>2 DEF AppliesTo
<1>4. /\ Peer!BgpApplies(Counterpart(scope)) = Peer!BgpApplies(scope)
      /\ Peer!BfdApplies(Counterpart(scope)) = Peer!BfdApplies(scope)
  BY <1>2 DEF Peer!BgpApplies, Peer!BfdApplies, Peer!AppliesTo
<1> QED
  BY <1>1, <1>2, <1>3, <1>4, BothShown DEF Covered, Measured, AreaIsChecked

\* What the checks are given of such a service is what the new box shows.
LEMMA MeasuredNow ==
  ASSUME NEW scope, Measured(scope)
  PROVE  /\ Shown(area, new)
         /\ \A c \in DOMAIN Empty[area] : \A f \in DOMAIN Empty[area][c] \ {"pings"} : subject.data[f] = new[f]
  BY BothShown, SubjectSeen DEF Measured, Kept

\* What a check finds of such a service is in the verdict.
LEMMA AnsweredByCheck ==
  ASSUME NEW scope, Measured(scope), NEW check, NEW applies, NEW findings, NEW fault,
         check.mode # "compare", check.id \notin profile.disabled, applies,
         RunCheck(check, applies, Counterpart(scope), Captures, profile, findings) \subseteq verdict[scope],
         Answered(findings, fault)
  PROVE  Answered(verdict[scope], fault)
<1>1. ~Counterpart(scope).off
  BY BlockJudged DEF Measured, Scopes
<1>2. ~SkippedByFrame(check, Counterpart(scope), Captures)
  BY <1>1 DEF SkippedByFrame, Captures, Measured
<1>3. PICK f \in findings : Answers(f, fault)
  BY DEF Answered
<1>4. PICK row \in RunCheck(check, applies, Counterpart(scope), Captures, profile, findings) : Reports(row, f)
  BY <1>2, FindingsAreRows
<1> QED
  BY <1>3, <1>4 DEF Answered, Answers, Reports

\* A fault is never made less than unchanged.
LEMMA UnchangedIsBlaming ==
  ASSUME NEW outcome \in Faulty, NEW captures, NEW c, NEW same
  PROVE  /\ Peer!UnchangedOr(outcome, captures, c, same) \in Blaming
         /\ Core!UnchangedOr(outcome, captures, c, same) \in Blaming
         /\ Port!UnchangedOr(outcome, captures, c, same) \in Blaming
         /\ Route!UnchangedOr(outcome, captures, c, same) \in Blaming
         /\ Reach!UnchangedOr(outcome, captures, c, same) \in Blaming
         /\ Evpn!UnchangedOr(outcome, captures, c, same) \in Blaming
         /\ Mcast!UnchangedOr(outcome, captures, c, same) \in Blaming
  BY DEF Blaming, Peer!UnchangedOr, Core!UnchangedOr, Port!UnchangedOr, Route!UnchangedOr, Reach!UnchangedOr,
         Evpn!UnchangedOr, Mcast!UnchangedOr

LEMMA DeactivationIsFaulty ==
  \A was : Peer!DeactivationOutcome(TRUE, was) \in Blaming /\ Route!DeactivationOutcome(TRUE, was) \in Blaming
  BY DEF Peer!DeactivationOutcome, Route!DeactivationOutcome, Blaming, Faulty

LEMMA FaultIsOne ==
  ASSUME NEW check, NEW about, NEW what, NEW isFault, Condition(check, about, what, isFault).kind = "fault"
  PROVE  isFault
  BY DEF Condition

LEMMA NoteIsNoFault == \A check, about, what : Note(check, about, what).kind # "fault"
  BY DEF Note

LEMMA BgpAnswers ==
  ASSUME NEW view, Shown("bgp", view), NEW now, now.intent = view.intent, now.bgp = view.bgp,
         NEW was, NEW captures, NEW fault \in Faults(BgpConditions(view))
  PROVE  Answered(Peer!BgpRows(now, was, captures), fault)
<1> DEFINE records == {r \in now.bgp : Peer!OwnsBgpPeer(now, r)}
           state == Peer!BgpOf(now)
           row == Peer!Row("bgp_session_state", <<"peer">>, Peer!BgpOutcome(now, was, captures))
<1>1. view.intent \in {"active", "inactive"} /\ IsFiniteSet(OursBgp(view))
      /\ \A r \in OursBgp(view) : r.state \notin {"absent", "ambiguous"}
  <2>1. view.intent # "none"
    BY FaultIsOne DEF Faults, BgpConditions, If
  <2> QED
    BY <2>1, FS_Subset DEF Shown, OursBgp
<1>2. records = OursBgp(view) /\ state = Peer!ByKey(records)
  BY <1>1 DEF OursBgp, Peer!OwnsBgpPeer, Peer!BgpOf
<1>3. fault.check = "bgp_session_state" /\ fault.about = <<"peer">>
  BY DEF Faults, BgpConditions, If, NotIn, Fault, Condition
<1>4. state = "absent" \/ (Peer!IsSession(state) /\ state # "Established")
  <2>1. CASE OursBgp(view) = {}
    BY <1>2, <2>1 DEF Peer!ByKey
  <2>2. CASE OursBgp(view) # {}
    <3>1. /\ Cardinality(OursBgp(view)) = 1
          /\ fault \in UNION {NotIn("Established", "bgp_session_state", <<"peer">>, r.state) : r \in OursBgp(view)}
      BY <1>1, <2>2 DEF Faults, BgpConditions, If
    <3>2. PICK r : OursBgp(view) = {r}
      BY <1>1, <3>1, FS_Singleton
    <3>3. r.state # "Established"
      BY <3>1, <3>2 DEF NotIn, If
    <3>4. state = r.state
      BY <1>1, <1>2, <3>1, <3>2, StateOfRecords
    <3> QED
      BY <1>1, <3>2, <3>3, <3>4 DEF Peer!IsSession
  <2> QED
    BY <2>1, <2>2
<1>5. Peer!BgpOutcome(now, was, captures) \in Blaming
  <2> HIDE DEF state
  <2>1. "broken" \in Faulty
    BY DEF Faulty
  <2> QED
    BY <1>1, <1>2, <1>4, <2>1, UnchangedIsBlaming, DeactivationIsFaulty
       DEF Peer!BgpOutcome, Peer!BgpUniverse, Peer!BgpSession, Peer!BgpInactive, Peer!BgpMissing, Peer!IsSession,
           Peer!ESTABLISHED, state
<1>6. row \in Peer!BgpRows(now, was, captures)
  BY DEF Peer!BgpRows
<1>7. Answers(row, fault)
  BY <1>3, <1>5 DEF Answers, Peer!Row
<1> QED
  BY <1>6, <1>7 DEF Answered

LEMMA BfdAnswers ==
  ASSUME NEW view, Shown("bfd", view), NEW now, now.intent = view.intent, now.bfdIntent = view.bfdIntent,
         now.bgp = view.bgp, now.bfd = view.bfd,
         NEW was, NEW captures, NEW fault \in Faults(BfdConditions(view))
  PROVE  Answered(Peer!BfdRows(now, was, captures), fault)
<1> DEFINE records == {r \in now.bfd : Peer!OwnsBfdSession(now, r)}
           state == Peer!BfdOf(now)
           up == /\ view.intent # "none" /\ Cardinality(OursBgp(view)) = 1
                 /\ \E r \in OursBgp(view) : r.state = "Established"
           row == Peer!Row("bfd_session_state", <<"peer">>, Peer!BfdOutcome(now, was, captures))
<1>1. IsFiniteSet(records) /\ \A r \in records : r.state \notin {"absent", "ambiguous"}
  BY FS_Subset DEF Shown
<1>2. records = OursBfd(view)
  <2>1. CASE view.intent # "active"
    BY <2>1 DEF OursBfd, Peer!OwnsBfdSession
  <2>2. CASE view.intent = "active" /\ {r \in view.bfd : r.port = "ours"} # {}
    BY <2>2 DEF OursBfd, Peer!OwnsBfdSession
  <2>3. CASE view.intent = "active" /\ {r \in view.bfd : r.port = "ours"} = {}
    BY <2>3 DEF OursBfd, Peer!OwnsBfdSession, Shown
  <2> QED
    BY <2>1, <2>2, <2>3
<1>3. state = Peer!ByKey(records)
  BY DEF Peer!BfdOf
<1>4. fault.check = "bfd_session_state" /\ fault.about = <<"peer">> /\ fault.kind = "fault"
  BY DEF Faults, BfdConditions, If, Condition
<1>5. \/ records = {} /\ view.bfdIntent /\ up
      \/ \E r \in records : Cardinality(records) = 1 /\ (~view.bfdIntent \/ r.state # "Up")
  <2>1. CASE fault \in If(records = {}, {Condition("bfd_session_state", <<"peer">>, <<"absent">>, view.bfdIntent /\ up)})
    BY <1>4, <2>1, FaultIsOne DEF If
  <2>2. CASE fault \in If(Cardinality(records) = 1,
                 UNION {If(~view.bfdIntent \/ r.state # "Up",
                           {Condition("bfd_session_state", <<"peer">>, <<r.state>>, TRUE)}) : r \in records})
    BY <2>2 DEF If
  <2> QED
    BY <1>2, <2>1, <2>2 DEF Faults, BfdConditions
<1>6. "broken" \in Faulty /\ "degraded" \in Blaming
  BY DEF Faulty, Blaming
<1>7. (view.bfdIntent \/ Peer!IsSession(state)) /\ Peer!BfdOutcome(now, was, captures) \in Blaming
  <2>1. CASE records = {} /\ view.bfdIntent /\ up
    <3>1. state = "absent"
      BY <1>3, <2>1 DEF Peer!ByKey
    <3>2. Peer!BgpOf(now) = "Established"
      <4>1. IsFiniteSet(OursBgp(view))
        BY FS_Subset DEF Shown, OursBgp
      <4>2. PICK r : OursBgp(view) = {r} /\ r.state = "Established"
        BY <2>1, <4>1, FS_Singleton
      <4>3. {q \in now.bgp : Peer!OwnsBgpPeer(now, q)} = OursBgp(view)
        BY <2>1 DEF OursBgp, Peer!OwnsBgpPeer, Shown
      <4> QED
        BY <2>1, <4>1, <4>2, <4>3, StateOfRecords DEF Peer!BgpOf
    <3> HIDE DEF state
    <3> QED
      BY <1>6, <2>1, <3>1, <3>2, UnchangedIsBlaming DEF Peer!BfdOutcome, Peer!IsSession, Peer!ESTABLISHED, state
  <2>2. ASSUME NEW r \in records, Cardinality(records) = 1, ~view.bfdIntent \/ r.state # "Up"
        PROVE  (view.bfdIntent \/ Peer!IsSession(state)) /\ Peer!BfdOutcome(now, was, captures) \in Blaming
    <3>1. state = r.state
      BY <1>1, <1>3, <2>2, StateOfRecords
    <3>2. Peer!IsSession(state)
      BY <1>1, <3>1 DEF Peer!IsSession
    <3> HIDE DEF state
    <3>3. CASE ~view.bfdIntent
      <4>1. Peer!BfdOutcome(now, was, captures) = "degraded"
        BY <3>2, <3>3 DEF Peer!BfdOutcome, Peer!IsSession, state
      <4> QED
        BY <1>6, <3>2, <4>1
    <3>4. CASE view.bfdIntent
      <4>1. Peer!BfdOutcome(now, was, captures) = Peer!UnchangedOr("broken", captures, "bfd",
                 state # Peer!UNKNOWN /\ Peer!BfdOf(was) = state)
        BY <2>2, <3>1, <3>2, <3>4 DEF Peer!BfdOutcome, Peer!IsSession, state
      <4> QED
        BY <1>6, <3>2, <4>1, UnchangedIsBlaming
    <3> QED
      BY <3>3, <3>4
  <2> QED
    BY <1>5, <2>1, <2>2
<1>8. row \in Peer!BfdRows(now, was, captures)
  BY <1>7 DEF Peer!BfdRows
<1>9. Answers(row, fault)
  BY <1>4, <1>7 DEF Answers, Peer!Row
<1> QED
  BY <1>8, <1>9 DEF Answered

LEMMA PeersReported ==
  ASSUME NEW scope, Measured(scope), area \in {"bgp", "bfd"}, NEW fault \in Faults(After(scope))
  PROVE  Answered(verdict[scope], fault)
<1> DEFINE cp == Counterpart(scope)
           now == subject.data
           was == BaselineData
<1>1. CASE area = "bgp"
  <2>1. now.intent = new.intent /\ now.bgp = new.bgp
    BY <1>1, MeasuredNow DEF Empty
  <2>2. Answered(Peer!BgpRows(now, was, Captures), fault)
    BY <1>1, <2>1, BgpAnswers, MeasuredNow DEF After, Conditions
  <2>3. /\ Peer!BgpSessionState.mode = "both" /\ Peer!BgpSessionState.id \notin profile.disabled /\ Peer!BgpApplies(cp)
    BY <1>1, CoveredScope DEF ChecksOf, Covered, Peer!BgpSessionState, Peer!CheckClass
  <2>4. RunCheck(Peer!BgpSessionState, Peer!BgpApplies(cp), cp, Captures, profile, Peer!BgpRows(now, was, Captures))
           \subseteq verdict[scope]
    BY <1>1, BlockJudged DEF Measured, Judged
  <2> QED
    BY <2>2, <2>3, <2>4, AnsweredByCheck
<1>2. CASE area = "bfd"
  <2>1. now.intent = new.intent /\ now.bfdIntent = new.bfdIntent /\ now.bgp = new.bgp /\ now.bfd = new.bfd
    BY <1>2, MeasuredNow DEF Empty
  <2>2. Answered(Peer!BfdRows(now, was, Captures), fault)
    BY <1>2, <2>1, BfdAnswers, MeasuredNow DEF After, Conditions
  <2>3. /\ Peer!BfdSessionState.mode = "both" /\ Peer!BfdSessionState.id \notin profile.disabled /\ Peer!BfdApplies(cp)
    BY <1>2, CoveredScope DEF ChecksOf, Covered, Peer!BfdSessionState, Peer!CheckClass
  <2>4. RunCheck(Peer!BfdSessionState, Peer!BfdApplies(cp), cp, Captures, profile, Peer!BfdRows(now, was, Captures))
           \subseteq verdict[scope]
    BY <1>2, BlockJudged DEF Measured, Judged
  <2> QED
    BY <2>2, <2>3, <2>4, AnsweredByCheck
<1> QED
  BY <1>1, <1>2

\* The checks of all areas but these run with a baseline or without, if they apply.
LEMMA AnsweredByAreaCheck ==
  ASSUME NEW scope, Measured(scope), area \notin {"bgp", "bfd"}, area = "esi" => scope.subtype # "local",
         NEW check \in ChecksOf[area], NEW findings, NEW fault,
         RunCheck(check, AppliesTo(check, Counterpart(scope)), Counterpart(scope), Captures, profile, findings)
             \subseteq verdict[scope],
         Answered(findings, fault)
  PROVE  Answered(verdict[scope], fault)
<1>1. area \in DOMAIN Empty
  BY BothShown DEF Measured
<1>2. DOMAIN Empty = DOMAIN ChecksOf
  BY DEF Empty, ChecksOf
<1>3. \A a \in DOMAIN ChecksOf \ {"bgp", "bfd"} : \A c \in ChecksOf[a] : c.mode \in {"both", "state"}
  BY DEF ChecksOf, Core!IsisAdjacencyState, Core!IsisInterfaceInfo, Core!IsisOverview, Core!LdpNeighborState,
         Core!PimNeighborState, Core!MplsInterfaceState, Core!BfdTransitState, Core!Core, Core!CheckClass,
         Port!InterfaceState, Port!OpticalLevels, Port!OpticalAlarms, Port!Port, Port!CheckClass,
         Route!StaticRouteStatus, Route!AggregateRouteStatus, Route!RouteCheck, Route!CheckClass,
         Reach!ArpPresent, Reach!NdPresent, Reach!Reach, Reach!CheckClass,
         Evpn!EvpnVpwsStatus, Evpn!EvpnEsiStatus, Evpn!EvpnInstanceStatus, Evpn!EvpnMacCount, Evpn!Evpn,
         Evpn!CheckClass, Mcast!IgmpMembershipReport, Mcast!PimJoin, Mcast!MulticastForwardingStatus,
         Mcast!MvpnCmulticastStatus, Mcast!CoreMulticastForwarding, Mcast!Multicast, Mcast!CheckClass
<1>4. check.mode # "compare"
  BY <1>1, <1>2, <1>3
<1>5. AppliesTo(check, Counterpart(scope))
  <2>1. Counterpart(scope).subtype = scope.subtype
    BY BlockJudged DEF Measured, Scopes
  <2> QED
    BY <2>1, CoveredScope DEF Covered
<1> QED
  BY <1>4, <1>5, CoveredScope, AnsweredByCheck

\* The parts of a condition.
LEMMA FaultParts ==
  \A check, about, what : Fault(check, about, what).check = check /\ Fault(check, about, what).about = about
  BY DEF Condition, Fault

LEMMA ConditionParts ==
  \A check, about, what, isFault : /\ Condition(check, about, what, isFault).check = check
                                  /\ Condition(check, about, what, isFault).about = about
  BY DEF Condition

LEMMA RowAnswers ==
  ASSUME NEW check, NEW about, NEW outcome \in Blaming, NEW fault, fault.check = check, fault.about = about
  PROVE  /\ Answers(Core!Row(check, about, outcome), fault) /\ Answers(Port!Row(check, about, outcome), fault)
         /\ Answers(Route!Row(check, about, outcome), fault) /\ Answers(Reach!Row(check, about, outcome), fault)
         /\ Answers(Evpn!Row(check, about, outcome), fault) /\ Answers(Mcast!Row(check, about, outcome), fault)
  BY DEF Answers, Core!Row, Port!Row, Route!Row, Reach!Row, Evpn!Row, Mcast!Row

LEMMA FaultyIsBlaming == "broken" \in Faulty /\ "degraded" \in Faulty /\ Faulty \subseteq Blaming
  BY DEF Faulty, Blaming

LEMMA IsisReported ==
  ASSUME NEW scope, Measured(scope), area = "isis", NEW fault \in Faults(After(scope))
  PROVE  Answered(verdict[scope], fault)
<1> DEFINE check == Core!IsisAdjacencyState
           cp == Counterpart(scope)
           adj == subject.data.adj
           was == BaselineData.adj
           rows == Core!IsisAdjacencyRows(adj, was, Captures)
<1>1. adj = new.adj
  BY MeasuredNow DEF Empty
<1>2. fault \in IF new.adj.there
                THEN NotIn("Up", "isis_adjacency_state", <<"state">>, new.adj.state)
                     \cup If(new.adj.ip = Core!Nothing, {Fault("isis_adjacency_state", <<"address">>, <<"none">>)})
                ELSE {Fault("isis_adjacency_state", <<"state">>, <<"absent">>)}
  BY DEF Faults, After, Conditions
<1> HIDE DEF adj, was, rows
<1>3. ASSUME ~new.adj.there
      PROVE  Answered(rows, fault)
  <2> DEFINE outcome == Core!UnchangedOr("broken", Captures, "isis_adjacency", ~was.there)
  <2>1. Core!Row("isis_adjacency_state", <<"state">>, outcome) \in rows
    BY <1>1, <1>3 DEF Core!IsisAdjacencyRows, rows
  <2>2. outcome \in Blaming
    BY FaultyIsBlaming, UnchangedIsBlaming
  <2>3. fault.check = "isis_adjacency_state" /\ fault.about = <<"state">>
    BY <1>2, <1>3, FaultParts
  <2> HIDE DEF outcome
  <2> QED
    BY <2>1, <2>2, <2>3, RowAnswers DEF Answered
<1>4. ASSUME new.adj.there /\ fault \in NotIn("Up", "isis_adjacency_state", <<"state">>, new.adj.state)
      PROVE  Answered(rows, fault)
  <2> DEFINE outcome == Core!UpOrSame(adj.state, was.state, Captures, "isis_adjacency")
  <2>1. Core!Row("isis_adjacency_state", <<"state">>, outcome) \in rows
    BY <1>1, <1>4 DEF Core!IsisAdjacencyRows, rows
  <2>2. fault.check = "isis_adjacency_state" /\ fault.about = <<"state">> /\ adj.state # "Up"
    BY <1>1, <1>4, FaultParts DEF NotIn, If
  <2>3. outcome \in Blaming
    BY <2>2, FaultyIsBlaming, UnchangedIsBlaming DEF Core!UpOrSame
  <2> HIDE DEF outcome
  <2> QED
    BY <2>1, <2>2, <2>3, RowAnswers DEF Answered
<1>5. ASSUME new.adj.there /\ fault \in If(new.adj.ip = Core!Nothing,
                                         {Fault("isis_adjacency_state", <<"address">>, <<"none">>)})
      PROVE  Answered(rows, fault)
  <2> DEFINE outcome == Core!IsisAddress(adj, was, Captures)
  <2>1. Core!Row("isis_adjacency_state", <<"address">>, outcome) \in rows
    BY <1>1, <1>5 DEF Core!IsisAdjacencyRows, rows
  <2>2. fault.check = "isis_adjacency_state" /\ fault.about = <<"address">> /\ adj.ip = Core!Nothing
    BY <1>1, <1>5, FaultParts DEF If
  <2>3. outcome \in Blaming
    BY <2>2, FaultyIsBlaming, UnchangedIsBlaming DEF Core!IsisAddress
  <2> HIDE DEF outcome
  <2> QED
    BY <2>1, <2>2, <2>3, RowAnswers DEF Answered
<1>6. Answered(rows, fault)
  BY <1>2, <1>3, <1>4, <1>5
<1>7. RunCheck(check, AppliesTo(check, cp), cp, Captures, profile, rows) \subseteq verdict[scope]
  BY BlockJudged DEF Measured, Judged, adj, was, rows
<1> QED
  BY <1>6, <1>7, AnsweredByAreaCheck DEF ChecksOf

LEMMA IsisPortReported ==
  ASSUME NEW scope, Measured(scope), area = "isisport", NEW fault \in Faults(After(scope))
  PROVE  Answered(verdict[scope], fault)
<1> DEFINE check == Core!IsisInterfaceInfo
           cp == Counterpart(scope)
           port == subject.data.port
           rows == Core!IsisInterfaceRows(port, scope.subtype)
           is(what) == {Fault("isis_interface_info", <<what>>, <<what>>)}
           row(what) == Core!Row("isis_interface_info", <<what>>, "broken")
<1>1. port = new.port /\ (port.there => port.passive \in BOOLEAN)
  BY MeasuredNow DEF Empty, Shown
<1>2. \E what : /\ fault.check = "isis_interface_info" /\ fault.about = <<what>>
                /\ \/ ~new.port.there /\ what = "interface"
                   \/ new.port.there /\ what = "level 2" /\ 2 \notin new.port.levels
                   \/ new.port.there /\ what = "level 1" /\ 1 \in new.port.levels
                   \/ /\ new.port.there /\ what = "passive" /\ 2 \in new.port.levels
                      /\ new.port.passive # (scope.subtype = "loopback")
  <2>1. fault \in IF ~new.port.there THEN is("interface")
                  ELSE If(2 \notin new.port.levels, is("level 2")) \cup If(1 \in new.port.levels, is("level 1"))
                       \cup If(2 \in new.port.levels /\ new.port.passive # (scope.subtype = "loopback"), is("passive"))
    BY DEF Faults, After, Conditions
  <2>2. \A what : fault \in is(what) => fault.check = "isis_interface_info" /\ fault.about = <<what>>
    BY FaultParts
  <2> HIDE DEF is
  <2> QED
    BY <2>1, <2>2 DEF If
<1> HIDE DEF port
<1>3. PICK what : fault.check = "isis_interface_info" /\ fault.about = <<what>> /\ row(what) \in rows
  BY <1>1, <1>2 DEF Core!IsisInterfaceRows
<1>4. Answered(rows, fault)
  BY <1>3, FaultyIsBlaming, RowAnswers DEF Answered
<1>5. RunCheck(check, AppliesTo(check, cp), cp, Captures, profile, rows) \subseteq verdict[scope]
  <2>1. cp.subtype = scope.subtype
    BY BlockJudged DEF Measured, Scopes
  <2> QED
    BY <2>1, BlockJudged DEF Measured, Judged, port
<1> HIDE DEF rows
<1> QED
  BY <1>4, <1>5, AnsweredByAreaCheck DEF ChecksOf

LEMMA OverloadReported ==
  ASSUME NEW scope, Measured(scope), area = "overload", NEW fault \in Faults(After(scope))
  PROVE  Answered(verdict[scope], fault)
<1> DEFINE check == Core!IsisOverview
           cp == Counterpart(scope)
           rows == Core!IsisOverviewRows(subject.data.state)
<1>1. subject.data.state = new.state
  BY MeasuredNow DEF Empty
<1>2. fault.check = "isis_overview" /\ fault.about = <<"overload">> /\ new.state # "normal"
  BY FaultParts DEF Faults, After, Conditions, NotIn, If
<1>3. Core!Row("isis_overview", <<"overload">>, "degraded") \in rows
  BY <1>1, <1>2 DEF Core!IsisOverviewRows
<1>4. Answered(rows, fault)
  BY <1>2, <1>3, FaultyIsBlaming, RowAnswers DEF Answered
<1>5. RunCheck(check, AppliesTo(check, cp), cp, Captures, profile, rows) \subseteq verdict[scope]
  BY BlockJudged DEF Measured, Judged
<1> HIDE DEF rows
<1> QED
  BY <1>4, <1>5, AnsweredByAreaCheck DEF ChecksOf

\* LDP and PIM.
LEMMA NeighborAnswers ==
  ASSUME NEW check, NEW c, NEW was, NEW captures, NEW peer,
         IF peer.there THEN peer.uptime \in {Core!Nothing, "some", "zero"} ELSE peer = Core!NoNeighbor,
         NEW fault \in NeighborConditions(check, peer)
  PROVE  Answered(Core!NeighborRows(check, c, peer, was, captures), fault)
<1> DEFINE rows == Core!NeighborRows(check, c, peer, was, captures)
           status == Core!NeighborStatus(c, peer, was, captures)
           address == Core!NeighborAddress(c, peer, was, captures)
<1>1. /\ Core!Row(check, <<"status">>, status) \in rows
      /\ peer.there => Core!Row(check, <<"address">>, address) \in rows
  BY DEF Core!NeighborRows
<1>2. /\ fault.check = check
      /\ \/ fault.about = <<"status">> /\ (~peer.there \/ peer.uptime \in {"zero", Core!Nothing})
         \/ fault.about = <<"address">> /\ peer.there /\ peer.address = Core!Nothing
  BY FaultParts DEF NeighborConditions, If
<1>3. ASSUME ~peer.there \/ peer.uptime \in {"zero", Core!Nothing} PROVE status \in Blaming
  BY <1>3, FaultyIsBlaming, UnchangedIsBlaming DEF Core!NeighborStatus, Core!NeighborState, Core!Nothing
<1>4. ASSUME peer.there, peer.address = Core!Nothing PROVE address \in Blaming
  BY <1>4, FaultyIsBlaming, UnchangedIsBlaming DEF Core!NeighborAddress
<1> HIDE DEF status, address
<1>5. CASE fault.about = <<"status">> /\ (~peer.there \/ peer.uptime \in {"zero", Core!Nothing})
  BY <1>1, <1>2, <1>3, <1>5, RowAnswers DEF Answered
<1>6. CASE fault.about = <<"address">> /\ peer.there /\ peer.address = Core!Nothing
  BY <1>1, <1>2, <1>4, <1>6, RowAnswers DEF Answered
<1> QED
  BY <1>2, <1>5, <1>6

LEMMA NeighborsReported ==
  ASSUME NEW scope, Measured(scope), area \in {"ldp", "pim"}, NEW fault \in Faults(After(scope))
  PROVE  Answered(verdict[scope], fault)
<1> DEFINE cp == Counterpart(scope)
           peer == subject.data.peer
           was == BaselineData.peer
<1>1. /\ peer = new.peer
      /\ IF peer.there THEN peer.uptime \in {Core!Nothing, "some", "zero"} ELSE peer = Core!NoNeighbor
  <2>1. \A view : Shown(area, view) =>
           IF view.peer.there THEN view.peer.uptime \in {Core!Nothing, "some", "zero"} ELSE view.peer = Core!NoNeighbor
    BY DEF Shown
  <2>2. peer = new.peer
    BY MeasuredNow DEF Empty
  <2> QED
    BY <2>1, <2>2, MeasuredNow
<1>2. CASE area = "ldp"
  <2> DEFINE rows == Core!LdpNeighborRows(peer, was, Captures)
  <2>1. fault \in NeighborConditions("ldp_neighbor_state", peer)
    BY <1>1, <1>2 DEF Faults, After, Conditions
  <2>2. Answered(rows, fault)
    BY <1>1, <2>1, NeighborAnswers DEF Core!LdpNeighborRows
  <2>3. RunCheck(Core!LdpNeighborState, AppliesTo(Core!LdpNeighborState, cp), cp, Captures, profile, rows)
           \subseteq verdict[scope]
    BY <1>2, BlockJudged DEF Measured, Judged
  <2> HIDE DEF rows
  <2> QED
    BY <1>2, <2>2, <2>3, AnsweredByAreaCheck DEF ChecksOf
<1>3. CASE area = "pim"
  <2> DEFINE rows == Core!PimNeighborRows(cp.pim, peer, was, Captures)
  <2>1. scope.pim /\ fault \in NeighborConditions("pim_neighbor_state", peer)
    BY <1>1, <1>3 DEF Faults, After, Conditions, If
  <2>2. cp.pim
    BY <2>1, BlockJudged DEF Measured, Scopes
  <2>3. Answered(rows, fault)
    BY <1>1, <2>1, <2>2, NeighborAnswers DEF Core!PimNeighborRows
  <2>4. RunCheck(Core!PimNeighborState, AppliesTo(Core!PimNeighborState, cp), cp, Captures, profile, rows)
           \subseteq verdict[scope]
    BY <1>3, BlockJudged DEF Measured, Judged
  <2> HIDE DEF rows
  <2> QED
    BY <1>3, <2>3, <2>4, AnsweredByAreaCheck DEF ChecksOf
<1> QED
  BY <1>2, <1>3

LEMMA MplsReported ==
  ASSUME NEW scope, Measured(scope), area = "mpls", NEW fault \in Faults(After(scope))
  PROVE  Answered(verdict[scope], fault)
<1> DEFINE check == Core!MplsInterfaceState
           cp == Counterpart(scope)
           state == subject.data.state
           outcome == Core!MplsOutcome(state, BaselineData.state, Captures)
           rows == Core!MplsInterfaceRows(state, BaselineData.state, Captures)
<1>1. state = new.state
  BY MeasuredNow DEF Empty
<1>2. fault.check = "mpls_interface_state" /\ fault.about = <<"status">> /\ new.state # "Up"
  BY FaultParts DEF Faults, After, Conditions, NotIn, If
<1>3. outcome \in Blaming
  BY <1>1, <1>2, FaultyIsBlaming, UnchangedIsBlaming DEF Core!MplsOutcome
<1>4. Core!Row("mpls_interface_state", <<"status">>, outcome) \in rows
  BY DEF Core!MplsInterfaceRows
<1> HIDE DEF outcome
<1>5. Answered(rows, fault)
  BY <1>2, <1>3, <1>4, RowAnswers DEF Answered
<1>6. RunCheck(check, AppliesTo(check, cp), cp, Captures, profile, rows) \subseteq verdict[scope]
  BY BlockJudged DEF Measured, Judged
<1> HIDE DEF rows
<1> QED
  BY <1>5, <1>6, AnsweredByAreaCheck DEF ChecksOf

LEMMA TransitReported ==
  ASSUME NEW scope, Measured(scope), area = "transit", NEW fault \in Faults(After(scope))
  PROVE  Answered(verdict[scope], fault)
<1> DEFINE check == Core!BfdTransitState
           cp == Counterpart(scope)
           now == subject.data.peers
           was == BaselineData.peers
           rows == Core!BfdTransitRows(now, was, Captures)
           running(view) == {p \in DOMAIN view : view[p] # Core!Nothing}
<1>1. now = new.peers
  BY MeasuredNow DEF Empty
<1>2. fault \in IF running(new.peers) = {} THEN {Fault("bfd_transit_state", <<"any">>, <<"absent">>)}
                ELSE {Fault("bfd_transit_state", <<p>>, <<p, new.peers[p]>>) :
                        p \in {q \in running(new.peers) : new.peers[q] # "Up"}}
  BY DEF Faults, After, Conditions
<1> HIDE DEF now, was, rows
<1>3. ASSUME running(new.peers) = {}
      PROVE  Answered(rows, fault)
  <2> DEFINE outcome == Core!UnchangedOr("broken", Captures, "bfd", running(was) = {})
  <2>1. Core!Row("bfd_transit_state", <<"any">>, outcome) \in rows
    BY <1>1, <1>3 DEF Core!BfdTransitRows, rows
  <2>2. outcome \in Blaming
    BY FaultyIsBlaming, UnchangedIsBlaming
  <2>3. fault.check = "bfd_transit_state" /\ fault.about = <<"any">>
    BY <1>2, <1>3, FaultParts
  <2> HIDE DEF outcome
  <2> QED
    BY <2>1, <2>2, <2>3, RowAnswers DEF Answered
<1>4. ASSUME running(new.peers) # {}
      PROVE  Answered(rows, fault)
  <2>1. PICK p \in running(new.peers) : new.peers[p] # "Up" /\ fault = Fault("bfd_transit_state", <<p>>, <<p, new.peers[p]>>)
    BY <1>2, <1>4
  <2> DEFINE outcome == Core!UpOrSame(now[p], was[p], Captures, "bfd")
  <2>2. Core!Row("bfd_transit_state", <<p>>, outcome) \in rows
    BY <1>1, <1>4, <2>1 DEF Core!BfdTransitRows, rows
  <2>3. outcome \in Blaming
    BY <1>1, <2>1, FaultyIsBlaming, UnchangedIsBlaming DEF Core!UpOrSame
  <2>4. fault.check = "bfd_transit_state" /\ fault.about = <<p>>
    BY <2>1, FaultParts
  <2> HIDE DEF outcome
  <2> QED
    BY <2>2, <2>3, <2>4, RowAnswers DEF Answered
<1>5. Answered(rows, fault)
  BY <1>3, <1>4
<1>6. RunCheck(check, AppliesTo(check, cp), cp, Captures, profile, rows) \subseteq verdict[scope]
  BY BlockJudged DEF Measured, Judged, now, was, rows
<1> QED
  BY <1>5, <1>6, AnsweredByAreaCheck DEF ChecksOf

\* An interface that is not up is reported in the block that measures it.
LEMMA PortsReported ==
  ASSUME NEW scope, Measured(scope), area = "ports", OneBlockPerPort, NEW fault \in Faults(After(scope))
  PROVE  \E s \in blocks : Answered(verdict[s], fault)
<1> DEFINE check == Port!InterfaceState
           now == subject.data
           was == BaselineData
           rows(cp) == Port!InterfaceStateRows(cp, now, was, Captures)
<1>1. PICK n \in Port!Listed(new), f \in {"admin", "oper"} :
         /\ new[n][f] # "up"
         /\ fault.check = "interface_state" /\ fault.about = <<n, f>>
  <2> DEFINE is(n, f) == If(new[n][f] # "up", {Fault("interface_state", <<n, f>>, <<n, f, new[n][f]>>)})
  <2>1. fault.kind = "fault" /\ fault \in PortConditions(new)
    BY DEF Faults, After, Conditions
  <2>2. PICK n \in Port!Listed(new) : fault \in is(n, "admin") \cup is(n, "oper")
    <3> DEFINE errors(n) == If(new[n].errors # 0, {Note("interface_errors", <<n>>, <<"errors">>)})
               silent(n) == If(new[n].pps = 0 /\ n # "irb", {Note("interface_traffic", <<n>>, <<"silent">>)})
    <3>1. PortConditions(new) =
             UNION {is(n, "admin") \cup is(n, "oper") \cup errors(n) \cup silent(n) : n \in Port!Listed(new)}
      BY DEF PortConditions
    <3>2. \A n : fault \notin errors(n) /\ fault \notin silent(n)
      BY <2>1, NoteIsNoFault DEF If
    <3> HIDE DEF is, errors, silent
    <3> QED
      BY <2>1, <3>1, <3>2
  <2> QED
    BY <2>2, FaultParts DEF If
<1>2. Port!Listed(now) = Port!Listed(new) /\ \A name \in Port!Interfaces : now[name] = new[name]
  <2>1. \A name \in Port!Interfaces : now[name] = new[name]
    BY MeasuredNow DEF Empty, Port!Interfaces
  <2> QED
    BY <2>1 DEF Port!Listed, Port!There
<1> HIDE DEF now, was
<1>3. PICK s \in blocks : ~s.off /\ n \in Port!ScopeInterfaces(Counterpart(s), now)
  <2>1. PICK service \in blocks : /\ service.kind # "layer1"
                                  /\ \E port \in blocks : IF service.parent THEN port.kind = "layer1" ELSE port = service
                                  /\ \A s \in blocks : ~s.off
    BY DEF OneBlockPerPort, Measured, Judging, JudgeInv
  <2>2. PICK port \in blocks : IF service.parent THEN port.kind = "layer1" ELSE port = service
    BY <2>1
  <2>3. \A s \in blocks : Counterpart(s).kind = s.kind /\ Counterpart(s).parent = s.parent
    BY BlockJudged DEF Measured, Scopes
  <2>4. CASE Port!IsPhysical(n) /\ service.parent
    BY <1>2, <2>1, <2>2, <2>3, <2>4 DEF Port!ScopeInterfaces
  <2>5. CASE ~(Port!IsPhysical(n) /\ service.parent)
    BY <1>2, <2>1, <2>3, <2>5 DEF Port!ScopeInterfaces
  <2> QED
    BY <2>4, <2>5
<1>4. Answered(rows(Counterpart(s)), fault)
  <2> DEFINE outcome == Port!StateOutcome(now[n][f], Port!Was(was, n, f), Captures)
  <2>1. Port!Row("interface_state", <<n, f>>, outcome) \in rows(Counterpart(s))
    BY <1>2, <1>3 DEF Port!InterfaceStateRows
  <2>2. now[n][f] # "up"
    BY <1>1, <1>2 DEF Port!Listed
  <2>3. outcome \in Blaming
    BY <2>2, FaultyIsBlaming, UnchangedIsBlaming DEF Port!StateOutcome
  <2> HIDE DEF outcome, rows
  <2> QED
    BY <1>1, <2>1, <2>3, RowAnswers DEF Answered
<1>5. RunCheck(check, AppliesTo(check, Counterpart(s)), Counterpart(s), Captures, profile, rows(Counterpart(s)))
         \subseteq verdict[s]
  BY BlockJudged DEF Measured, Judged, now, was
<1>6. Measured(s)
  BY <1>3 DEF Measured
<1> HIDE DEF rows
<1>7. Answered(verdict[s], fault)
  BY <1>4, <1>5, <1>6, AnsweredByAreaCheck DEF ChecksOf
<1> QED
  BY <1>7

LEMMA OpticsReported ==
  ASSUME NEW scope, Measured(scope), area = "optics", NEW fault \in Faults(After(scope))
  PROVE  Answered(verdict[scope], fault)
<1> DEFINE cp == Counterpart(scope)
           optics == subject.data.optics
           was == BaselineData.optics
           levels == Port!OpticalLevelsRows(optics, was, Captures)
           alarms == Port!OpticalAlarmsRows(optics, was, Captures)
<1>1. optics = new.optics
  BY MeasuredNow DEF Empty
<1>2. /\ Port!There(optics)
      /\ \/ \E s \in Port!DarkSides(optics) : fault = Fault("interface_optics_levels", <<"port">>, <<"dark", s>>)
         \/ \E tag \in optics.alarms : fault = Fault("interface_optics_alarms", <<tag>>, <<tag>>)
  BY <1>1 DEF Faults, After, Conditions, OpticsConditions, If
<1>3. /\ RunCheck(Port!OpticalLevels, AppliesTo(Port!OpticalLevels, cp), cp, Captures, profile, levels) \subseteq verdict[scope]
      /\ RunCheck(Port!OpticalAlarms, AppliesTo(Port!OpticalAlarms, cp), cp, Captures, profile, alarms) \subseteq verdict[scope]
  BY BlockJudged DEF Measured, Judged
<1> HIDE DEF optics, was, levels, alarms, cp
<1>4. ASSUME NEW s \in Port!DarkSides(optics), fault = Fault("interface_optics_levels", <<"port">>, <<"dark", s>>)
      PROVE  Answered(levels, fault)
  <2> DEFINE outcome == IF Port!There(was) THEN Port!LevelOutcome(optics, was, Captures) ELSE "broken"
  <2>1. Port!Row("interface_optics_levels", <<"port">>, outcome) \in levels
    BY <1>2, <1>4 DEF Port!OpticalLevelsRows, levels
  <2>2. outcome \in Blaming
    BY <1>4, FaultyIsBlaming, UnchangedIsBlaming DEF Port!LevelOutcome
  <2> HIDE DEF outcome
  <2> QED
    BY <1>4, <2>1, <2>2, FaultParts, RowAnswers DEF Answered
<1>5. ASSUME NEW tag \in optics.alarms, fault = Fault("interface_optics_alarms", <<tag>>, <<tag>>)
      PROVE  Answered(alarms, fault)
  <2> DEFINE before == IF Port!There(was) THEN was.alarms ELSE {}
             outcome == Port!UnchangedOr(IF tag = "alarm" THEN "broken" ELSE "degraded", Captures, "optics", tag \in before)
  <2>1. Port!Row("interface_optics_alarms", <<tag>>, outcome) \in alarms
    BY <1>2, <1>5 DEF Port!OpticalAlarmsRows, alarms
  <2>2. outcome \in Blaming
    <3>1. (IF tag = "alarm" THEN "broken" ELSE "degraded") \in Faulty
      BY FaultyIsBlaming
    <3> QED
      BY <3>1, UnchangedIsBlaming
  <2> HIDE DEF outcome
  <2> QED
    BY <1>5, <2>1, <2>2, FaultParts, RowAnswers DEF Answered
<1>6. {Port!OpticalLevels, Port!OpticalAlarms} = ChecksOf[area]
  BY DEF ChecksOf
<1> QED
  BY <1>2, <1>3, <1>4, <1>5, <1>6, AnsweredByAreaCheck DEF cp

\* A route that is configured and is not in the table.
LEMMA PresenceBlames ==
  ASSUME NEW now, NEW was, NEW captures, ~now.table.there, now.conf # "none"
  PROVE  Route!Presence(now, was, captures) \in Blaming
<1>1. ~Route!Entry(now).there
  BY DEF Route!Entry
<1> QED
  BY <1>1, FaultyIsBlaming, UnchangedIsBlaming, DeactivationIsFaulty DEF Route!Presence

LEMMA RouteAnswers ==
  ASSUME NEW now, NEW was, NEW captures, now.conf # "none"
  PROVE  /\ ~now.table.there => Route!StaticOutcome(now, was, captures) \in Blaming
         /\ now.table.there /\ now.table.active = "yes" /\ (\E h \in NextHops : now.hops[h] = "off") =>
               Route!StaticOutcome(now, was, captures) \in Blaming
<1>1. Route!Entry(now) = now.table
  BY DEF Route!Entry
<1>2. ASSUME ~now.table.there PROVE Route!StaticOutcome(now, was, captures) \in Blaming
  BY <1>1, <1>2, PresenceBlames, DeactivationIsFaulty DEF Route!StaticOutcome
<1>3. ASSUME now.table.there, now.table.active = "yes", NEW h \in NextHops, now.hops[h] = "off"
      PROVE  Route!StaticOutcome(now, was, captures) \in Blaming
  <2>1. PICK outcome : Route!StaticOutcome(now, was, captures) = Route!AnnotateInactiveHops(outcome, now, was)
    BY <1>1, <1>3 DEF Route!StaticOutcome
  <2>2. Route!Inactive(now) # {}
    BY <1>3 DEF Route!Inactive
  <2>3. Route!AnnotateInactiveHops(outcome, now, was) \in {"broken", "degraded"}
    BY <2>2 DEF Route!AnnotateInactiveHops
  <2> QED
    BY <2>1, <2>3, FaultyIsBlaming
<1> QED
  BY <1>2, <1>3

LEMMA RouteFault ==
  ASSUME NEW check, NEW view, NEW fault \in Faults(RouteConditions(check, view))
  PROVE  /\ fault.check = check /\ fault.about = <<"route">> /\ view.conf # "none"
         /\ \/ ~view.table.there
            \/ /\ check = "static_route_status" /\ view.table.there /\ view.table.active = "yes"
               /\ \E h \in NextHops : view.hops[h] = "off"
<1> DEFINE there == view.conf # "none" /\ view.table.there
           configured == view.conf # "none"
           hop == <<"hop off">>
           off == there /\ view.table.active = "yes" /\ check = "static_route_status"
                    /\ \E h \in NextHops : view.hops[h] = "off"
<1>1. /\ fault.kind = "fault"
      /\ fault \in If(~there, {Condition(check, <<"route">>, <<"absent">>, configured)})
                   \cup If(there /\ view.table.active = "no", {Note(check, <<"route">>, <<"inactive">>)})
                   \cup If(off, {Fault(check, <<"route">>, hop)})
  BY DEF Faults, RouteConditions
<1> HIDE DEF configured, hop
<1>2. CASE fault \in If(~there, {Condition(check, <<"route">>, <<"absent">>, configured)})
  <2>1. ~there /\ fault = Condition(check, <<"route">>, <<"absent">>, configured)
    BY <1>2 DEF If
  <2>2. configured
    BY <1>1, <2>1, FaultIsOne
  <2>3. fault.check = check /\ fault.about = <<"route">>
    BY <2>1, ConditionParts
  <2> QED
    BY <2>1, <2>2, <2>3 DEF configured
<1>3. CASE fault \in If(off, {Fault(check, <<"route">>, hop)})
  <2>1. off /\ fault = Fault(check, <<"route">>, hop)
    BY <1>3 DEF If
  <2>2. fault.check = check /\ fault.about = <<"route">>
    BY <2>1, FaultParts
  <2> QED
    BY <2>1, <2>2
<1>4. fault \notin If(there /\ view.table.active = "no", {Note(check, <<"route">>, <<"inactive">>)})
  BY <1>1, NoteIsNoFault DEF If
<1> QED
  BY <1>1, <1>2, <1>3, <1>4

LEMMA RoutesReported ==
  ASSUME NEW scope, Measured(scope), area \in {"static", "aggregate"}, NEW fault \in Faults(After(scope))
  PROVE  Answered(verdict[scope], fault)
<1> DEFINE cp == Counterpart(scope)
           now == subject.data
           was == BaselineData
           static == Route!StaticRouteRows(now, was, Captures)
           aggregate == Route!AggregateRouteRows(now, was, Captures)
           id == IF area = "static" THEN "static_route_status" ELSE "aggregate_route_status"
<1>1. /\ now.conf = new.conf /\ now.table = new.table
      /\ area = "static" => now.hops = new.hops
  <2>1. area = "static" => now.conf = new.conf /\ now.table = new.table /\ now.hops = new.hops
    BY MeasuredNow DEF Empty
  <2>2. area = "aggregate" => now.conf = new.conf /\ now.table = new.table
    BY MeasuredNow DEF Empty
  <2> QED
    BY <2>1, <2>2
<1>2. /\ fault.check = id /\ fault.about = <<"route">> /\ new.conf # "none"
      /\ \/ ~new.table.there
         \/ /\ area = "static" /\ new.table.there /\ new.table.active = "yes"
            /\ \E h \in NextHops : new.hops[h] = "off"
  <2>1. fault \in Faults(RouteConditions(id, new))
    BY DEF Faults, After, Conditions
  <2>2. id = "static_route_status" <=> area = "static"
    OBVIOUS
  <2> HIDE DEF id
  <2> QED
    BY <2>1, <2>2, RouteFault
<1>3. Route!RouteKnown(now, was)
  BY <1>1, <1>2 DEF Route!RouteKnown
<1>4. CASE area = "static"
  <2> DEFINE outcome == Route!StaticOutcome(now, was, Captures)
  <2>1. Route!Row("static_route_status", <<"route">>, outcome) \in static
    BY <1>3 DEF Route!StaticRouteRows
  <2>2. outcome \in Blaming
    BY <1>1, <1>2, <1>4, RouteAnswers
  <2> HIDE DEF outcome
  <2>3. Answered(static, fault)
    BY <1>2, <1>4, <2>1, <2>2, RowAnswers DEF Answered
  <2>4. RunCheck(Route!StaticRouteStatus, AppliesTo(Route!StaticRouteStatus, cp), cp, Captures, profile, static)
           \subseteq verdict[scope]
    BY <1>4, BlockJudged DEF Measured, Judged
  <2> HIDE DEF static
  <2> QED
    BY <1>4, <2>3, <2>4, AnsweredByAreaCheck DEF ChecksOf
<1>5. CASE area = "aggregate"
  <2> DEFINE outcome == Route!Presence(now, was, Captures)
  <2>1. Route!Row("aggregate_route_status", <<"route">>, outcome) \in aggregate
    BY <1>3 DEF Route!AggregateRouteRows
  <2>2. outcome \in Blaming
    BY <1>1, <1>2, <1>5, PresenceBlames
  <2> HIDE DEF outcome
  <2>3. Answered(aggregate, fault)
    BY <1>2, <1>5, <2>1, <2>2, RowAnswers DEF Answered
  <2>4. RunCheck(Route!AggregateRouteStatus, AppliesTo(Route!AggregateRouteStatus, cp), cp, Captures, profile, aggregate)
           \subseteq verdict[scope]
    BY <1>5, BlockJudged DEF Measured, Judged
  <2> HIDE DEF aggregate
  <2> QED
    BY <1>5, <2>3, <2>4, AnsweredByAreaCheck DEF ChecksOf
<1> QED
  BY <1>4, <1>5

\* The table of hosts.
LEMMA TableAnswers ==
  ASSUME NEW id, NEW c, NEW view, NEW now, now.nets = view.nets, now.entries = view.entries,
         NEW was, NEW captures, NEW fault \in Faults(ReachConditions(id, view))
  PROVE  Answered(Reach!TableRows(id, c, now, was, captures), fault)
<1> DEFINE rows == Reach!TableRows(id, c, now, was, captures)
<1>1. \/ view.entries = {} /\ fault = Condition(id, <<"table">>, <<"empty">>, view.nets # {})
      \/ \E e \in view.entries : /\ e.state # "resolved"
                                 /\ fault = Condition(id, <<e.ip>>, <<e.ip, "incomplete">>, view.nets # {})
  BY NoteIsNoFault DEF Faults, ReachConditions, If
<1>2. view.nets # {}
  BY <1>1, FaultIsOne DEF Faults
<1>3. ASSUME view.entries = {}, fault = Condition(id, <<"table">>, <<"empty">>, view.nets # {})
      PROVE  Answered(rows, fault)
  <2> DEFINE outcome == Reach!UnchangedOr("broken", captures, c, captures.baseline /\ was.entries = {})
  <2>1. Reach!Row(id, <<"table">>, outcome) \in rows
    BY <1>2, <1>3 DEF Reach!TableRows
  <2>2. outcome \in Blaming
    BY FaultyIsBlaming, UnchangedIsBlaming
  <2> HIDE DEF outcome, rows
  <2> QED
    BY <1>3, <2>1, <2>2, ConditionParts, RowAnswers DEF Answered
<1>4. ASSUME NEW e \in view.entries, e.state # "resolved",
             fault = Condition(id, <<e.ip>>, <<e.ip, "incomplete">>, view.nets # {})
      PROVE  Answered(rows, fault)
  <2> DEFINE outcome == Reach!EntryOutcome(e, was.entries, captures, c)
  <2>1. Reach!Row(id, <<e.ip>>, outcome) \in rows
    BY <1>2, <1>4 DEF Reach!TableRows
  <2>2. outcome \in Blaming
    BY <1>4, FaultyIsBlaming, UnchangedIsBlaming DEF Reach!EntryOutcome
  <2> HIDE DEF outcome, rows
  <2> QED
    BY <1>4, <2>1, <2>2, ConditionParts, RowAnswers DEF Answered
<1> QED
  BY <1>1, <1>3, <1>4

LEMMA HostsReported ==
  ASSUME NEW scope, Measured(scope), area \in ReachAreas, NEW fault \in Faults(After(scope))
  PROVE  Answered(verdict[scope], fault)
<1> DEFINE cp == Counterpart(scope)
           now == subject.data
           was == BaselineData
<1>1. area \in {"reach4", "reach6"}
  BY DEF ReachAreas
<1>2. now.nets = new.nets /\ now.entries = new.entries
  <2>1. /\ {"config", "arp"} \subseteq DOMAIN Empty["reach4"] /\ {"config", "nd"} \subseteq DOMAIN Empty["reach6"]
        /\ "nets" \in DOMAIN Empty["reach4"]["config"] /\ "nets" \in DOMAIN Empty["reach6"]["config"]
        /\ "entries" \in DOMAIN Empty["reach4"]["arp"] /\ "entries" \in DOMAIN Empty["reach6"]["nd"]
    BY DEF Empty
  <2> QED
    BY <1>1, <2>1, MeasuredNow
<1>3. CASE area = "reach4"
  <2> DEFINE rows == Reach!TableRows("arp_present", "arp", now, was, Captures)
  <2>1. Answered(rows, fault)
    BY <1>2, <1>3, TableAnswers DEF After, Conditions
  <2>2. RunCheck(Reach!ArpPresent, AppliesTo(Reach!ArpPresent, cp), cp, Captures, profile, rows) \subseteq verdict[scope]
    BY <1>3, BlockJudged DEF Measured, Judged
  <2> HIDE DEF rows
  <2> QED
    BY <1>3, <2>1, <2>2, AnsweredByAreaCheck DEF ChecksOf
<1>4. CASE area = "reach6"
  <2> DEFINE rows == Reach!TableRows("nd_present", "nd", now, was, Captures)
  <2>1. Answered(rows, fault)
    BY <1>2, <1>4, TableAnswers DEF After, Conditions
  <2>2. RunCheck(Reach!NdPresent, AppliesTo(Reach!NdPresent, cp), cp, Captures, profile, rows) \subseteq verdict[scope]
    BY <1>4, BlockJudged DEF Measured, Judged
  <2> HIDE DEF rows
  <2> QED
    BY <1>4, <2>1, <2>2, AnsweredByAreaCheck DEF ChecksOf
<1> QED
  BY <1>1, <1>3, <1>4

-----------------------------------------------------------------------------
(* The faults of EVPN and of multicast.                                    *)

LEMMA StatusBlames ==
  \A now, was, captures, c : now # "Up" => Evpn!StatusOutcome(now, was, captures, c) \in Blaming
  BY FaultyIsBlaming, UnchangedIsBlaming DEF Evpn!StatusOutcome, Evpn!UP

\* A fault of a circuit is one of these.
LEMMA CircuitFault ==
  ASSUME NEW ac, NEW id, NEW fault \in CircuitConditions(ac, id), fault.kind = "fault"
  PROVE  /\ fault.check = "evpn_vpws_status"
         /\ \/ fault.about = <<ac.name, "status">> /\ ac.status # "Up"
            \/ fault.about = <<ac.name, "pw">> /\ ac.pw \notin {Evpn!Nothing, "Up"}
            \/ fault.about = <<ac.name, "switch">> /\ ac.partner \notin {Evpn!Nothing, "Up"}
            \/ fault.about = <<ac.name, "remote">> /\ ac.partner = Evpn!Nothing /\ ac.remote = {}
            \/ \E p \in ac.local : fault.about = <<ac.name, "local", p.ip>> /\ ~p.resolved
            \/ /\ ac.partner = Evpn!Nothing
               /\ \E p \in ac.remote : fault.about = <<ac.name, "remote", p.ip>> /\ ~p.resolved
<1> DEFINE at(about, what, value) == Fault("evpn_vpws_status", about, <<id, what, value>>)
           lone == ac.partner = Evpn!Nothing
           peer(side, p, isFault) == Condition("evpn_vpws_status", <<ac.name, side, p.ip>>, <<id, side, p.ip>>, isFault)
           none == "no peer"
<1>1. \/ ac.status # "Up" /\ fault = at(<<ac.name, "status">>, "status", ac.status)
      \/ ac.pw \notin {Evpn!Nothing, "Up"} /\ fault = at(<<ac.name, "pw">>, "pw", ac.pw)
      \/ ac.partner \notin {Evpn!Nothing, "Up"} /\ fault = at(<<ac.name, "switch">>, "switch", ac.partner)
      \/ lone /\ ac.remote = {} /\ fault = at(<<ac.name, "remote">>, "remote", none)
      \/ \E p \in ac.local : ~p.resolved /\ fault = peer("local", p, TRUE)
      \/ \E p \in ac.remote : ~p.resolved /\ fault = peer("remote", p, lone)
  BY DEF CircuitConditions, If
<1>2. \A about, what, value : at(about, what, value).check = "evpn_vpws_status" /\ at(about, what, value).about = about
  BY FaultParts
<1>3. \A side, p, isFault : /\ peer(side, p, isFault).check = "evpn_vpws_status"
                            /\ peer(side, p, isFault).about = <<ac.name, side, p.ip>>
                            /\ peer(side, p, isFault).kind = "fault" => isFault
  BY DEF Condition
<1> HIDE DEF at, peer, none, lone
<1>4. CASE \E p \in ac.remote : ~p.resolved /\ fault = peer("remote", p, lone)
  <2>1. PICK p \in ac.remote : ~p.resolved /\ fault = peer("remote", p, lone)
    BY <1>4
  <2>2. /\ fault.check = "evpn_vpws_status" /\ fault.about = <<ac.name, "remote", p.ip>>
        /\ fault.kind = "fault" => lone
    BY <1>3, <2>1
  <2> QED
    BY <2>1, <2>2 DEF lone
<1>5. CASE \E p \in ac.local : ~p.resolved /\ fault = peer("local", p, TRUE)
  BY <1>3, <1>5
<1>6. CASE lone /\ ac.remote = {} /\ fault = at(<<ac.name, "remote">>, "remote", none)
  BY <1>2, <1>6 DEF lone
<1>7. CASE ac.status # "Up" /\ fault = at(<<ac.name, "status">>, "status", ac.status)
  BY <1>2, <1>7
<1>8. CASE ac.pw \notin {Evpn!Nothing, "Up"} /\ fault = at(<<ac.name, "pw">>, "pw", ac.pw)
  BY <1>2, <1>8
<1>9. CASE ac.partner \notin {Evpn!Nothing, "Up"} /\ fault = at(<<ac.name, "switch">>, "switch", ac.partner)
  BY <1>2, <1>9
<1> QED
  BY <1>1, <1>4, <1>5, <1>6, <1>7, <1>8, <1>9

LEMMA CircuitAnswers ==
  ASSUME NEW ac, NEW was, NEW captures, NEW id, NEW fault \in CircuitConditions(ac, id), fault.kind = "fault"
  PROVE  Answered(Evpn!AcRows(ac, was, captures), fault)
<1> DEFINE rows == Evpn!AcRows(ac, was, captures)
           same(test) == Evpn!UnchangedOr("broken", captures, "evpn_vpws", test)
<1>1. ASSUME NEW about, NEW outcome \in Blaming, Evpn!Row("evpn_vpws_status", about, outcome) \in rows,
             fault.about = about
      PROVE  Answered(rows, fault)
  BY <1>1, CircuitFault, RowAnswers DEF Answered
<1>2. ASSUME NEW p, ~p.resolved, NEW before PROVE Evpn!PeerOutcome(p, before, captures) \in Blaming
  BY <1>2, FaultyIsBlaming, UnchangedIsBlaming DEF Evpn!PeerOutcome
<1>3. ASSUME fault.about = <<ac.name, "status">>, ac.status # "Up" PROVE Answered(rows, fault)
  <2> DEFINE outcome == Evpn!StatusOutcome(ac.status, was.status, captures, "evpn_vpws")
  <2>1. outcome \in Blaming
    BY <1>3, StatusBlames
  <2>2. Evpn!Row("evpn_vpws_status", <<ac.name, "status">>, outcome) \in rows
    BY DEF Evpn!AcRows
  <2> HIDE DEF outcome, rows
  <2> QED
    BY <1>1, <1>3, <2>1, <2>2
<1>4. ASSUME fault.about = <<ac.name, "pw">>, ac.pw \notin {Evpn!Nothing, "Up"} PROVE Answered(rows, fault)
  <2> DEFINE outcome == Evpn!UnchangedOr("broken", captures, "evpn_vpws", was.pw = ac.pw)
  <2>1. outcome \in Blaming
    BY FaultyIsBlaming, UnchangedIsBlaming
  <2>2. Evpn!Row("evpn_vpws_status", <<ac.name, "pw">>, outcome) \in rows
    BY <1>4 DEF Evpn!AcRows, Evpn!PwRows, Evpn!UP
  <2> HIDE DEF outcome, rows
  <2> QED
    BY <1>1, <1>4, <2>1, <2>2
<1>5. ASSUME fault.about = <<ac.name, "switch">>, ac.partner \notin {Evpn!Nothing, "Up"} PROVE Answered(rows, fault)
  <2> DEFINE outcome == Evpn!StatusOutcome(ac.partner, was.partner, captures, "evpn_vpws")
  <2>1. outcome \in Blaming
    BY <1>5, StatusBlames
  <2>2. Evpn!Row("evpn_vpws_status", <<ac.name, "switch">>, outcome) \in rows
    BY <1>5 DEF Evpn!AcRows, Evpn!SidRows, Evpn!SwitchRow
  <2> HIDE DEF outcome, rows
  <2> QED
    BY <1>1, <1>5, <2>1, <2>2
<1>6. ASSUME fault.about = <<ac.name, "remote">>, ac.partner = Evpn!Nothing, ac.remote = {}
      PROVE  Answered(rows, fault)
  <2> DEFINE outcome == Evpn!UnchangedOr("broken", captures, "evpn_vpws",
                                         was # Evpn!NoAc /\ was.remote = {} /\ was.partner = Evpn!Nothing)
  <2>1. outcome \in Blaming
    BY FaultyIsBlaming, UnchangedIsBlaming
  <2>2. Evpn!Row("evpn_vpws_status", <<ac.name, "remote">>, outcome) \in rows
    BY <1>6 DEF Evpn!AcRows, Evpn!SidRows, Evpn!NoRemoteRow
  <2> HIDE DEF outcome, rows
  <2> QED
    BY <1>1, <1>6, <2>1, <2>2
<1>7. ASSUME NEW p \in ac.local, fault.about = <<ac.name, "local", p.ip>>, ~p.resolved PROVE Answered(rows, fault)
  <2> DEFINE outcome == Evpn!PeerOutcome(p, was.local, captures)
  <2>1. outcome \in Blaming
    BY <1>2, <1>7
  <2>2. Evpn!Row("evpn_vpws_status", <<ac.name, "local", p.ip>>, outcome) \in rows
    BY DEF Evpn!AcRows, Evpn!SidRows
  <2> HIDE DEF outcome, rows
  <2> QED
    BY <1>1, <1>7, <2>1, <2>2
<1>8. ASSUME ac.partner = Evpn!Nothing, NEW p \in ac.remote, fault.about = <<ac.name, "remote", p.ip>>, ~p.resolved
      PROVE  Answered(rows, fault)
  <2> DEFINE outcome == Evpn!PeerOutcome(p, was.remote, captures)
  <2>1. outcome \in Blaming
    BY <1>2, <1>8
  <2>2. Evpn!Row("evpn_vpws_status", <<ac.name, "remote", p.ip>>, outcome) \in rows
    BY <1>8 DEF Evpn!AcRows, Evpn!SidRows
  <2> HIDE DEF outcome, rows
  <2> QED
    BY <1>1, <1>8, <2>1, <2>2
<1> QED
  BY <1>3, <1>4, <1>5, <1>6, <1>7, <1>8, CircuitFault

LEMMA VpwsReported ==
  ASSUME NEW scope, Measured(scope), area = "vpws", NEW fault \in Faults(After(scope))
  PROVE  Answered(verdict[scope], fault)
<1> DEFINE check == Evpn!EvpnVpwsStatus
           cp == Counterpart(scope)
           now == subject.data
           was == BaselineData
           rows == Evpn!VpwsRows(now, was, Captures)
<1>1. now.there = new.there /\ now.acs = new.acs
  BY MeasuredNow DEF Empty
<1>2. /\ new.there /\ fault.kind = "fault"
      /\ \/ new.acs = {} /\ fault = Fault("evpn_vpws_status", <<"missing">>, <<"missing">>)
         \/ \E ac \in new.acs : \E id \in CircuitIds(new, ac) : fault \in CircuitConditions(ac, id)
  BY DEF Faults, After, Conditions, VpwsConditions, If
<1> HIDE DEF now, was
<1>3. ASSUME new.acs = {}, fault = Fault("evpn_vpws_status", <<"missing">>, <<"missing">>)
      PROVE  Answered(rows, fault)
  <2> DEFINE outcome == Evpn!UnchangedOr("broken", Captures, "evpn_vpws", was.there /\ was.acs = {})
  <2>1. outcome \in Blaming
    BY FaultyIsBlaming, UnchangedIsBlaming
  <2>2. Evpn!Row("evpn_vpws_status", <<"missing">>, outcome) \in rows
    BY <1>1, <1>2, <1>3 DEF Evpn!VpwsRows
  <2> HIDE DEF outcome, rows
  <2> QED
    BY <1>3, <2>1, <2>2, FaultParts, RowAnswers DEF Answered
<1>4. ASSUME NEW ac \in new.acs, NEW id, fault \in CircuitConditions(ac, id)
      PROVE  Answered(rows, fault)
  <2>1. Answered(Evpn!AcRows(ac, Evpn!PairedAc(ac, now.acs, was.acs), Captures), fault)
    BY <1>2, <1>4, CircuitAnswers
  <2>2. Evpn!AcRows(ac, Evpn!PairedAc(ac, now.acs, was.acs), Captures) \subseteq rows
    BY <1>1, <1>2, <1>4 DEF Evpn!VpwsRows
  <2> HIDE DEF rows
  <2> QED
    BY <2>1, <2>2 DEF Answered
<1>5. Answered(rows, fault)
  BY <1>2, <1>3, <1>4
<1>6. RunCheck(check, AppliesTo(check, cp), cp, Captures, profile, rows) \subseteq verdict[scope]
  BY BlockJudged DEF Measured, Judged, now, was
<1> HIDE DEF rows
<1> QED
  BY <1>5, <1>6, AnsweredByAreaCheck DEF ChecksOf

LEMMA EsiReported ==
  ASSUME NEW scope, Measured(scope), area = "esi", NEW fault \in Faults(After(scope))
  PROVE  Answered(verdict[scope], fault)
<1> DEFINE check == Evpn!EvpnEsiStatus
           cp == Counterpart(scope)
           now == subject.data
           was == BaselineData
           rows == Evpn!EsiRows(now, was, Captures)
<1>1. now.there = new.there /\ now.status = new.status /\ now.df = new.df /\ now.resolved = new.resolved
  BY MeasuredNow DEF Empty
<1>2. scope.subtype # "local" /\ new.there
  BY DEF Faults, After, Conditions, EsiConditions, If
<1> DEFINE unelected == "not elected"
<1>3. \/ new.status # "Up" /\ fault = Fault("evpn_esi_status", <<"interface">>, <<new.status>>)
      \/ new.df = unelected /\ fault = Fault("evpn_esi_status", <<"df">>, <<new.df>>)
      \/ new.resolved = "no" /\ fault = Fault("evpn_esi_status", <<"resolved">>, <<"no">>)
  BY DEF Faults, After, Conditions, EsiConditions, NotIn, If
<1>4. unelected \notin {Evpn!Nothing, "elected"} /\ Evpn!Nothing # "no"
  BY DEF Evpn!Nothing
<1> HIDE DEF now, was, unelected
<1>5. ASSUME NEW about, NEW outcome \in Blaming, Evpn!Row("evpn_esi_status", about, outcome) \in rows,
             NEW what, fault = Fault("evpn_esi_status", about, what)
      PROVE  Answered(rows, fault)
  BY <1>5, FaultParts, RowAnswers DEF Answered
<1>6. ASSUME new.status # "Up", fault = Fault("evpn_esi_status", <<"interface">>, <<new.status>>)
      PROVE  Answered(rows, fault)
  <2> DEFINE outcome == Evpn!StatusOutcome(now.status, was.status, Captures, "evpn_esi")
  <2>1. outcome \in Blaming
    BY <1>1, <1>6, StatusBlames
  <2>2. Evpn!Row("evpn_esi_status", <<"interface">>, outcome) \in rows
    BY <1>1, <1>2 DEF Evpn!EsiRows
  <2> HIDE DEF outcome, rows
  <2> QED
    BY <1>5, <1>6, <2>1, <2>2
<1>7. ASSUME new.df = unelected, fault = Fault("evpn_esi_status", <<"df">>, <<new.df>>)
      PROVE  Answered(rows, fault)
  <2> DEFINE same == Evpn!UnchangedOr("broken", Captures, "evpn_esi", was.df = "not elected")
             outcome == CASE now.df = Evpn!Nothing -> "info"
                          [] now.df = "elected" -> "ok"
                          [] now.df = "not elected" -> same
  <2>1. same \in Blaming
    BY FaultyIsBlaming, UnchangedIsBlaming
  <2>2. Evpn!Row("evpn_esi_status", <<"df">>, outcome) \in rows
    <3> DEFINE status == Evpn!Row("evpn_esi_status", <<"interface">>,
                                  Evpn!StatusOutcome(now.status, was.status, Captures, "evpn_esi"))
               resolved == IF now.resolved = Evpn!Nothing THEN {}
                           ELSE {Evpn!Row("evpn_esi_status", <<"resolved">>,
                                          IF now.resolved = "yes" THEN "ok"
                                          ELSE Evpn!UnchangedOr("broken", Captures, "evpn_esi", was.resolved = "no"))}
    <3>1. rows = {status, Evpn!Row("evpn_esi_status", <<"df">>, outcome)} \cup resolved
      BY <1>1, <1>2 DEF Evpn!EsiRows
    <3> HIDE DEF outcome, rows, status, resolved
    <3> QED
      BY <3>1
  <2> HIDE DEF same, rows
  <2>3. outcome = same
    BY <1>1, <1>4, <1>7 DEF unelected
  <2> HIDE DEF outcome
  <2> QED
    BY <1>5, <1>7, <2>1, <2>2, <2>3
<1>8. ASSUME new.resolved = "no", fault = Fault("evpn_esi_status", <<"resolved">>, <<"no">>)
      PROVE  Answered(rows, fault)
  <2> DEFINE outcome == Evpn!UnchangedOr("broken", Captures, "evpn_esi", was.resolved = "no")
  <2>1. outcome \in Blaming
    BY FaultyIsBlaming, UnchangedIsBlaming
  <2>2. Evpn!Row("evpn_esi_status", <<"resolved">>, outcome) \in rows
    BY <1>1, <1>2, <1>4, <1>8 DEF Evpn!EsiRows
  <2> HIDE DEF outcome, rows
  <2> QED
    BY <1>5, <1>8, <2>1, <2>2
<1>9. Answered(rows, fault)
  BY <1>3, <1>6, <1>7, <1>8
<1>10. RunCheck(check, AppliesTo(check, cp), cp, Captures, profile, rows) \subseteq verdict[scope]
  BY BlockJudged DEF Measured, Judged, now, was
<1> HIDE DEF rows
<1> QED
  BY <1>2, <1>9, <1>10, AnsweredByAreaCheck DEF ChecksOf

LEMMA EvpnReported ==
  ASSUME NEW scope, Measured(scope), area = "evpn", NEW fault \in Faults(After(scope))
  PROVE  Answered(verdict[scope], fault)
<1> DEFINE check == Evpn!EvpnInstanceStatus
           cp == Counterpart(scope)
           now == subject.data
           was == BaselineData
           rows == Evpn!InstanceRows(cp, now, was, Captures)
<1>1. now.there = new.there /\ now.neighbors = new.neighbors /\ now.unit = new.unit /\ now.irb = new.irb
  BY MeasuredNow DEF Empty
<1>2. /\ new.there
      /\ \/ new.neighbors = {} /\ fault = Fault("evpn_instance_status", <<"neighbors">>, <<"none">>)
         \/ new.unit # "Up" /\ fault = Fault("evpn_instance_status", <<"unit">>, <<new.unit>>)
         \/ /\ scope.linked /\ new.irb.status # "Up"
            /\ fault = Fault("evpn_instance_status", <<"irb">>, <<new.irb.status, new.irb.context>>)
  BY DEF Faults, After, Conditions, EvpnConditions, NotIn, If
<1>3. cp.linked = scope.linked
  BY BlockJudged DEF Measured, Scopes
<1> HIDE DEF now, was, cp
<1>4. ASSUME NEW about, NEW outcome \in Blaming, Evpn!Row("evpn_instance_status", about, outcome) \in rows,
             NEW what, fault = Fault("evpn_instance_status", about, what)
      PROVE  Answered(rows, fault)
  BY <1>4, FaultParts, RowAnswers DEF Answered
<1>5. ASSUME new.neighbors = {}, fault = Fault("evpn_instance_status", <<"neighbors">>, <<"none">>)
      PROVE  Answered(rows, fault)
  <2> DEFINE outcome == Evpn!NeighborsOutcome(now, was, Captures)
  <2>1. outcome \in Blaming
    BY <1>1, <1>5, FaultyIsBlaming, UnchangedIsBlaming DEF Evpn!NeighborsOutcome
  <2>2. Evpn!Row("evpn_instance_status", <<"neighbors">>, outcome) \in rows
    BY <1>1, <1>2 DEF Evpn!InstanceRows
  <2> HIDE DEF outcome, rows
  <2> QED
    BY <1>4, <1>5, <2>1, <2>2
<1>6. ASSUME new.unit # "Up", fault = Fault("evpn_instance_status", <<"unit">>, <<new.unit>>)
      PROVE  Answered(rows, fault)
  <2> DEFINE outcome == Evpn!UnitOutcome(now, was, Captures)
  <2>1. outcome \in Blaming
    BY <1>1, <1>6, StatusBlames, FaultyIsBlaming, UnchangedIsBlaming DEF Evpn!UnitOutcome
  <2>2. Evpn!Row("evpn_instance_status", <<"unit">>, outcome) \in rows
    BY <1>1, <1>2 DEF Evpn!InstanceRows
  <2> HIDE DEF outcome, rows
  <2> QED
    BY <1>4, <1>6, <2>1, <2>2
<1>7. ASSUME scope.linked, new.irb.status # "Up",
             fault = Fault("evpn_instance_status", <<"irb">>, <<new.irb.status, new.irb.context>>)
      PROVE  Answered(rows, fault)
  <2> DEFINE outcome == Evpn!IrbOutcome(now, was, Captures)
  <2>1. outcome \in Blaming
    BY <1>1, <1>7, FaultyIsBlaming, UnchangedIsBlaming DEF Evpn!IrbOutcome, Evpn!UP
  <2>2. Evpn!Row("evpn_instance_status", <<"irb">>, outcome) \in rows
    BY <1>1, <1>2, <1>3, <1>7 DEF Evpn!InstanceRows
  <2> HIDE DEF outcome, rows
  <2> QED
    BY <1>4, <1>7, <2>1, <2>2
<1>8. Answered(rows, fault)
  BY <1>2, <1>5, <1>6, <1>7
<1>9. RunCheck(check, AppliesTo(check, cp), cp, Captures, profile, rows) \subseteq verdict[scope]
  BY BlockJudged DEF Measured, Judged, now, was, cp
<1> HIDE DEF rows
<1> QED
  BY <1>8, <1>9, AnsweredByAreaCheck DEF ChecksOf, cp

\* A count of zero.
LEMMA NoMacBlames ==
  \A before, captures : /\ Evpn!MacCompare(before, 0, captures) \in Blaming
                        /\ Evpn!MacState(0) \in Blaming
  BY FaultyIsBlaming, UnchangedIsBlaming DEF Evpn!MacCompare, Evpn!MacState

LEMMA MacReported ==
  ASSUME NEW scope, Measured(scope), area = "mac", NEW fault \in Faults(After(scope))
  PROVE  Answered(verdict[scope], fault)
<1> DEFINE check == Evpn!EvpnMacCount
           cp == Counterpart(scope)
           now == subject.data
           was == BaselineData
           rows == Evpn!MacRows(now, was, Captures)
           there == new.there
<1>1. now.there = new.there /\ now.vlan = new.vlan /\ now.port = new.port
  BY MeasuredNow DEF Empty
<1>2. /\ fault.kind = "fault"
      /\ \/ /\ new.vlan \in {0, Evpn!NotListed}
            /\ fault = Condition("evpn_mac_count", <<"vlan">>, <<"vlan", "empty">>, there)
         \/ there /\ new.port = 0 /\ fault = Fault("evpn_mac_count", <<"port">>, <<"port", "empty">>)
  BY DEF Faults, After, Conditions, MacConditions, If
<1> HIDE DEF now, was, there
<1>3. ASSUME new.vlan \in {0, Evpn!NotListed},
             fault = Condition("evpn_mac_count", <<"vlan">>, <<"vlan", "empty">>, there)
      PROVE  Answered(rows, fault)
  <2> DEFINE outcome == Evpn!VlanOutcome(now.vlan, was.vlan, Captures)
  <2>1. there
    BY <1>2, <1>3, FaultIsOne
  <2>2. outcome \in Blaming
    BY <1>1, <1>3, NoMacBlames DEF Evpn!VlanOutcome, Evpn!NotListed
  <2>3. Evpn!Row("evpn_mac_count", <<"vlan">>, outcome) \in rows
    BY <1>1, <2>1 DEF Evpn!MacRows, there
  <2> HIDE DEF outcome, rows
  <2> QED
    BY <1>3, <2>2, <2>3, ConditionParts, RowAnswers DEF Answered
<1>4. ASSUME there, new.port = 0, fault = Fault("evpn_mac_count", <<"port">>, <<"port", "empty">>)
      PROVE  Answered(rows, fault)
  <2> DEFINE outcome == IF was.port = Evpn!NotListed THEN Evpn!MacState(0) ELSE Evpn!MacCompare(was.port, 0, Captures)
  <2>1. outcome \in Blaming
    BY NoMacBlames
  <2>2. Evpn!Row("evpn_mac_count", <<"port">>, outcome) \in rows
    BY <1>1, <1>4 DEF Evpn!MacRows, Evpn!MacPortRows, Evpn!NotListed, there
  <2> HIDE DEF outcome, rows
  <2> QED
    BY <1>4, <2>1, <2>2, FaultParts, RowAnswers DEF Answered
<1>5. Answered(rows, fault)
  BY <1>2, <1>3, <1>4
<1>6. RunCheck(check, AppliesTo(check, cp), cp, Captures, profile, rows) \subseteq verdict[scope]
  BY BlockJudged DEF Measured, Judged, now, was
<1> HIDE DEF rows
<1> QED
  BY <1>5, <1>6, AnsweredByAreaCheck DEF ChecksOf

\* A fault of an entry that carries a stream, for a service with these roles in it, is one of
\* these, and somebody asks for the stream.
Impaired(r, roles, fault) ==
    LET sent == "sender" \in roles /\ r.down # {}
        received == "receiver" \in roles /\ "service" \in r.down
        wanted == IF roles = {"sender"} \/ (sent /\ ~received) THEN {"service"} ELSE {"service", "allowed"}
    IN  /\ roles # {} /\ fault.check = "multicast_forwarding_status"
        /\ \/ /\ fault.about = Append(r.stream, "stream")
              /\ "receiver" \in roles /\ ~sent /\ "service" \notin r.down
           \/ fault.about = Append(r.stream, "stream") /\ roles = {"sender"} /\ r.down = {}
           \/ fault.about = Append(r.stream, "upstream") /\ r.up \notin wanted
           \/ fault.about = Append(r.stream, "rate") /\ r.pps = 0

LEMMA EntryFault ==
  ASSUME NEW view, NEW r, NEW s, NEW fault \in CarriedConditions(view, r, s), fault.kind = "fault"
  PROVE  Impaired(r, Mcast!Roles(view, s), fault)
<1> DEFINE roles == Mcast!Roles(view, s)
           sent == "sender" \in roles /\ r.down # {}
           received == "receiver" \in roles /\ "service" \in r.down
           wanted == IF roles = {"sender"} \/ (sent /\ ~received) THEN {"service"} ELSE {"service", "allowed"}
           is(about, what, isFault) == {Condition("multicast_forwarding_status", Append(r.stream, about),
                                                  <<r.stream[1], r.stream[2], what>>, isFault)}
           lost == "not received"
           unsent == "not sent"
           silent == "no traffic"
           missed == "receiver" \in roles /\ ~sent
           only == roles = {"sender"}
<1>1. CarriedConditions(view, r, s) =
         If("service" \notin r.down, is("stream", lost, missed)) \cup If(r.down = {}, is("stream", unsent, only))
         \cup If(r.up \notin wanted /\ roles # {}, is("upstream", "upstream", TRUE))
         \cup If(r.pps = 0 /\ roles # {}, is("rate", silent, TRUE))
  BY DEF CarriedConditions, Mcast!Roles, Mcast!RECEIVER
<1>2. ASSUME NEW about, NEW what, NEW isFault, fault \in is(about, what, isFault)
      PROVE  isFault /\ fault.check = "multicast_forwarding_status" /\ fault.about = Append(r.stream, about)
  <2>1. fault = Condition("multicast_forwarding_status", Append(r.stream, about), <<r.stream[1], r.stream[2], what>>, isFault)
    BY <1>2
  <2>2. isFault
    BY <2>1, FaultIsOne
  <2>3. fault.check = "multicast_forwarding_status" /\ fault.about = Append(r.stream, about)
    BY <2>1 DEF Condition
  <2> QED
    BY <2>2, <2>3
<1>3. /\ roles # {} /\ fault.check = "multicast_forwarding_status"
      /\ \/ /\ fault.about = Append(r.stream, "stream")
            /\ "receiver" \in roles /\ ~sent /\ "service" \notin r.down
         \/ fault.about = Append(r.stream, "stream") /\ roles = {"sender"} /\ r.down = {}
         \/ fault.about = Append(r.stream, "upstream") /\ r.up \notin wanted
         \/ fault.about = Append(r.stream, "rate") /\ r.pps = 0
  <2> HIDE DEF is, lost, unsent, silent, missed, only, wanted, roles
  <2>1. CASE "service" \notin r.down /\ fault \in is("stream", lost, missed)
    <3>1. missed /\ fault.check = "multicast_forwarding_status" /\ fault.about = Append(r.stream, "stream")
      BY <1>2, <2>1
    <3>2. "receiver" \in roles /\ ~sent
      BY <3>1 DEF missed
    <3> QED
      BY <2>1, <3>1, <3>2
  <2>2. CASE r.down = {} /\ fault \in is("stream", unsent, only)
    <3>1. only /\ fault.check = "multicast_forwarding_status" /\ fault.about = Append(r.stream, "stream")
      BY <1>2, <2>2
    <3>2. roles = {"sender"}
      BY <3>1 DEF only
    <3> QED
      BY <2>2, <3>1, <3>2
  <2>3. CASE r.up \notin wanted /\ roles # {} /\ fault \in is("upstream", "upstream", TRUE)
    <3>1. fault.check = "multicast_forwarding_status" /\ fault.about = Append(r.stream, "upstream")
      BY <1>2, <2>3
    <3> QED
      BY <2>3, <3>1 DEF wanted
  <2>4. CASE r.pps = 0 /\ roles # {} /\ fault \in is("rate", silent, TRUE)
    <3>1. fault.check = "multicast_forwarding_status" /\ fault.about = Append(r.stream, "rate")
      BY <1>2, <2>4
    <3> QED
      BY <2>4, <3>1
  <2> QED
    BY <1>1, <2>1, <2>2, <2>3, <2>4 DEF If
<1> QED
  BY <1>3 DEF Impaired

LEMMA EntryAnswers ==
  ASSUME NEW view, NEW r, NEW s, NEW was, NEW captures,
         NEW fault \in CarriedConditions(view, r, s), fault.kind = "fault"
  PROVE  Answered(Mcast!StreamRows(r, Mcast!Roles(view, s), was, captures), fault)
<1> DEFINE roles == Mcast!Roles(view, s)
           rows == Mcast!StreamRows(r, roles, was, captures)
           sent == "sender" \in roles /\ r.down # {}
           received == "receiver" \in roles /\ "service" \in r.down
           sends == roles = {"sender"} \/ (sent /\ ~received)
           b == Mcast!BaselineRoute(was, r)
           same(outcome, test) == Mcast!UnchangedOr(outcome, captures, "multicast_route", b # Mcast!NoStream /\ test)
           row(about, outcome) == Mcast!Row("multicast_forwarding_status", Append(r.stream, about), outcome)
           unsent == same("degraded", b.down = {})
           lost == same("broken", "service" \notin b.down)
<1>1. unsent \in Blaming /\ lost \in Blaming
  BY FaultyIsBlaming, UnchangedIsBlaming
<1> HIDE DEF b, unsent, lost
<1>2. /\ row("rate", Mcast!RateOutcome(r)) \in rows
      /\ sends => /\ row("stream", IF sent THEN "ok" ELSE unsent) \in rows
                  /\ row("upstream", IF r.up = "service" THEN "ok" ELSE "broken") \in rows
      /\ ~sends => /\ row("stream", IF received THEN "ok" ELSE lost) \in rows
                   /\ row("upstream", IF r.up \in {"service", "allowed"} THEN "ok" ELSE "broken") \in rows
  <2> DEFINE sender == {row("stream", IF sent THEN "ok" ELSE unsent),
                        row("upstream", IF r.up = "service" THEN "ok" ELSE "broken")}
             receiver == {row("stream", IF received THEN "ok" ELSE lost),
                          row("upstream", IF r.up \in {"service", "allowed"} THEN "ok" ELSE "broken")}
  <2>1. rows = {row("rate", Mcast!RateOutcome(r))} \cup (IF (sent /\ ~received) \/ roles = {"sender"} THEN sender ELSE receiver)
    BY DEF Mcast!StreamRows, Mcast!RECEIVER, Mcast!SENDER, b, unsent, lost
  <2> HIDE DEF row, rows
  <2> QED
    BY <2>1
<1>3. /\ roles # {} /\ fault.check = "multicast_forwarding_status"
      /\ \/ /\ fault.about = Append(r.stream, "stream")
            /\ "receiver" \in roles /\ ~sent /\ "service" \notin r.down
         \/ fault.about = Append(r.stream, "stream") /\ roles = {"sender"} /\ r.down = {}
         \/ /\ fault.about = Append(r.stream, "upstream")
            /\ r.up \notin IF sends THEN {"service"} ELSE {"service", "allowed"}
         \/ fault.about = Append(r.stream, "rate") /\ r.pps = 0
  BY EntryFault DEF Impaired
<1>4. ASSUME NEW about, NEW outcome \in Blaming, row(about, outcome) \in rows, fault.about = Append(r.stream, about)
      PROVE  Answered(rows, fault)
  BY <1>3, <1>4, RowAnswers DEF Answered
<1> HIDE DEF row, rows, roles
<1>5. ASSUME fault.about = Append(r.stream, "stream"), "receiver" \in roles, ~sent, "service" \notin r.down
      PROVE  Answered(rows, fault)
  <2>1. ~sends /\ ~received
    BY <1>5
  <2>2. row("stream", lost) \in rows
    BY <1>2, <2>1
  <2> QED
    BY <1>1, <1>4, <1>5, <2>2
<1>6. ASSUME fault.about = Append(r.stream, "stream"), roles = {"sender"}, r.down = {}
      PROVE  Answered(rows, fault)
  <2>1. row("stream", unsent) \in rows
    BY <1>2, <1>6
  <2> QED
    BY <1>1, <1>4, <1>6, <2>1
<1>7. ASSUME fault.about = Append(r.stream, "upstream"),
             r.up \notin IF sends THEN {"service"} ELSE {"service", "allowed"}
      PROVE  Answered(rows, fault)
  <2>1. row("upstream", "broken") \in rows
    BY <1>2, <1>7
  <2> QED
    BY <1>4, <1>7, <2>1, FaultyIsBlaming
<1>8. ASSUME fault.about = Append(r.stream, "rate"), r.pps = 0
      PROVE  Answered(rows, fault)
  <2>1. Mcast!RateOutcome(r) = "broken"
    BY <1>8 DEF Mcast!RateOutcome, Mcast!Unread
  <2> QED
    BY <1>2, <1>4, <1>8, <2>1, FaultyIsBlaming
<1>9. Answered(rows, fault)
  BY <1>3, <1>5, <1>6, <1>7, <1>8
<1> QED
  BY <1>9 DEF rows, roles

\* The faults of a stream, whoever asks for it: this box does.
LEMMA StreamAnswers ==
  ASSUME NEW view, NEW now, now.igmp = view.igmp, now.pim = view.pim, now.routes = view.routes,
         NEW was, NEW captures, NEW asked, NEW fault \in ForwardingConditions(view, asked), fault.kind = "fault"
  PROVE  Answered(Mcast!ForwardingRows(now, was, captures), fault)
<1> DEFINE carrying(s) == {r \in view.routes : Carries(r, s)}
           part(s) == IF carrying(s) = {} THEN {AbsentCondition(view, s)}
                      ELSE UNION {CarriedConditions(view, r, s) : r \in carrying(s)}
           rows(s) == Mcast!PairRows(now, was, captures, s)
<1>1. PICK s \in asked : fault \in part(s)
  <2>1. ForwardingConditions(view, asked) = UNION {part(s) : s \in asked}
    BY DEF ForwardingConditions
  <2> HIDE DEF part
  <2> QED
    BY <2>1
<1>2. \A q : Mcast!RoutesFor(now.routes, q) = carrying(q)
  BY ExpectedIsAsked
<1>3. Mcast!ExpectedPairs(now) = Asked(view)
  <2>1. Asked(now) = Asked(view)
    BY DEF Asked, Joined
  <2> QED
    BY <2>1, ExpectedIsAsked
<1>4. ASSUME carrying(s) = {}
      PROVE  s \in Asked(view) /\ Answered(rows(s), fault)
  <2> DEFINE isFault == s \in Asked(view)
             outcome == Mcast!UnchangedOr("degraded", captures, "multicast_route", Mcast!RoutesFor(was.routes, s) = {})
  <2>1. fault = Condition("multicast_forwarding_status", Append(s, "table"), <<s[1], s[2], "absent">>, isFault)
    BY <1>1, <1>4 DEF AbsentCondition
  <2>2. Mcast!Row("multicast_forwarding_status", Append(s, "table"), outcome) \in rows(s)
    BY <1>2, <1>4 DEF Mcast!PairRows
  <2>3. outcome \in Blaming
    BY FaultyIsBlaming, UnchangedIsBlaming
  <2> HIDE DEF outcome, rows, isFault
  <2>4. isFault
    BY <2>1, FaultIsOne
  <2>5. fault.check = "multicast_forwarding_status" /\ fault.about = Append(s, "table")
    BY <2>1 DEF Condition
  <2>6. Answered(rows(s), fault)
    BY <2>2, <2>3, <2>5, RowAnswers DEF Answered
  <2> QED
    BY <2>4, <2>6 DEF isFault
<1>5. ASSUME carrying(s) # {}
      PROVE  s \in Asked(view) /\ Answered(rows(s), fault)
  <2>1. PICK r \in carrying(s) : fault \in CarriedConditions(view, r, s)
    BY <1>1, <1>5
  <2>2. Mcast!Roles(now, s) = Mcast!Roles(view, s)
    BY DEF Mcast!Roles
  <2>3. Answered(Mcast!StreamRows(r, Mcast!Roles(now, s), was, captures), fault)
    BY <2>1, <2>2, EntryAnswers
  <2>4. Mcast!StreamRows(r, Mcast!Roles(now, s), was, captures) \subseteq rows(s)
    <3>1. rows(s) = UNION {Mcast!StreamRows(q, Mcast!Roles(now, s), was, captures) : q \in carrying(s)}
      BY <1>2, <1>5 DEF Mcast!PairRows
    <3> QED
      BY <2>1, <3>1
  <2>5. Mcast!Roles(view, s) # {}
    BY <2>1, EntryFault DEF Impaired
  <2>6. s \in Asked(view)
    BY <2>5 DEF Mcast!Roles, Asked, Joined
  <2> HIDE DEF rows
  <2> QED
    BY <2>3, <2>4, <2>6 DEF Answered
<1> HIDE DEF rows, carrying
<1>6. s \in Asked(view) /\ Answered(rows(s), fault)
  BY <1>4, <1>5
<1>7. UNION {rows(q) : q \in Asked(view)} \subseteq Mcast!ForwardingRows(now, was, captures)
  BY <1>3, <1>6 DEF Mcast!ForwardingRows, rows
<1> QED
  BY <1>6, <1>7 DEF Answered

\* The report of a protocol that is silent while the other one is.
LEMMA SilenceBlames ==
  ASSUME NEW now, NEW was, NEW other, NEW failed, NEW scope, NEW captures, NEW c, now = {}, other = {}, ~failed
  PROVE  Mcast!ReportOutcome(now, was, other, failed, scope, captures, c) \in Blaming
  BY FaultyIsBlaming, UnchangedIsBlaming DEF Mcast!ReportOutcome

LEMMA StreamsReported ==
  ASSUME NEW scope, Measured(scope), area = "streams", NEW fault \in Faults(After(scope))
  PROVE  Answered(verdict[scope], fault)
<1> DEFINE cp == Counterpart(scope)
           now == subject.data
           was == BaselineData
           asked == AskedOf(old) \cup AskedOf(new)
           igmp == Mcast!IgmpRows(cp, now, was, Captures)
           pim == Mcast!PimRows(cp, now, was, Captures)
           forwarding == Mcast!ForwardingRows(now, was, Captures)
           noJoin == Joined(new) = {}
           noReport == new.igmp = {}
<1>1. now.igmp = new.igmp /\ now.pim = new.pim /\ now.routes = new.routes
  BY MeasuredNow DEF Empty
<1>2. /\ fault.kind = "fault"
      /\ \/ fault \in ForwardingConditions(new, asked)
         \/ fault = Condition("multicast_forwarding_status", <<"summary">>, <<"impaired">>, FALSE)
         \/ /\ scope.igmp /\ noReport
            /\ fault = Condition("igmp_membership_report", <<"report">>, <<"silent">>, noJoin)
         \/ /\ scope.pim /\ noJoin
            /\ fault = Condition("pim_join", <<"join">>, <<"silent">>, noReport)
  BY DEF Faults, After, Conditions, StreamConditions, If
<1>3. /\ RunCheck(Mcast!IgmpMembershipReport, AppliesTo(Mcast!IgmpMembershipReport, cp), cp, Captures, profile, igmp)
            \subseteq verdict[scope]
      /\ RunCheck(Mcast!PimJoin, AppliesTo(Mcast!PimJoin, cp), cp, Captures, profile, pim) \subseteq verdict[scope]
      /\ RunCheck(Mcast!MulticastForwardingStatus, AppliesTo(Mcast!MulticastForwardingStatus, cp), cp, Captures,
                  profile, forwarding) \subseteq verdict[scope]
  BY BlockJudged DEF Measured, Judged
<1>4. cp.igmp = scope.igmp /\ cp.pim = scope.pim
  BY BlockJudged DEF Measured, Scopes
<1>5. \A c : c \notin Captures.failed
  BY DEF Captures, Measured
<1>6. /\ {Mcast!IgmpMembershipReport, Mcast!PimJoin, Mcast!MulticastForwardingStatus} = ChecksOf[area]
      /\ Mcast!PimPairs(now) = Joined(new)
  <2>1. Joined(now) = Joined(new)
    BY <1>1 DEF Joined
  <2> QED
    BY <2>1, ExpectedIsAsked DEF ChecksOf
<1> HIDE DEF cp, now, was, asked, noJoin, noReport
<1>7. ASSUME fault \in ForwardingConditions(new, asked)
      PROVE  Answered(verdict[scope], fault)
  <2>1. Answered(forwarding, fault)
    BY <1>1, <1>2, <1>7, StreamAnswers
  <2> HIDE DEF forwarding
  <2> QED
    BY <1>3, <1>6, <2>1, AnsweredByAreaCheck DEF cp
<1>8. ASSUME scope.igmp, noReport, fault = Condition("igmp_membership_report", <<"report">>, <<"silent">>, noJoin)
      PROVE  Answered(verdict[scope], fault)
  <2> DEFINE failed == "pim_join" \in Captures.failed
             outcome == Mcast!ReportOutcome(now.igmp, was.igmp, Mcast!PimPairs(now), failed, cp, Captures, "igmp_group")
  <2>1. noJoin
    BY <1>2, <1>8, FaultIsOne
  <2>2. Mcast!Row("igmp_membership_report", <<"report">>, outcome) \in igmp
    BY <1>4, <1>8 DEF Mcast!IgmpRows
  <2>3. ~failed
    BY <1>5
  <2> HIDE DEF failed
  <2>4. now.igmp = {} /\ Mcast!PimPairs(now) = {}
    BY <1>1, <1>6, <1>8, <2>1 DEF noReport, noJoin
  <2>5. outcome \in Blaming
    BY <2>3, <2>4, SilenceBlames
  <2> HIDE DEF outcome, igmp
  <2>6. Answered(igmp, fault)
    BY <1>8, <2>2, <2>5, ConditionParts, RowAnswers DEF Answered
  <2> QED
    BY <1>3, <1>6, <2>6, AnsweredByAreaCheck DEF cp
<1>9. ASSUME scope.pim, noJoin, fault = Condition("pim_join", <<"join">>, <<"silent">>, noReport)
      PROVE  Answered(verdict[scope], fault)
  <2> DEFINE failed == "igmp_group" \in Captures.failed
             outcome == Mcast!ReportOutcome(Mcast!PimPairs(now), Mcast!PimPairs(was), now.igmp, failed,
                                            cp, Captures, "pim_join")
  <2>1. noReport
    BY <1>2, <1>9, FaultIsOne
  <2>2. Mcast!Row("pim_join", <<"join">>, outcome) \in pim
    BY <1>4, <1>9 DEF Mcast!PimRows
  <2>3. ~failed
    BY <1>5
  <2> HIDE DEF failed
  <2>4. now.igmp = {} /\ Mcast!PimPairs(now) = {}
    BY <1>1, <1>6, <1>9, <2>1 DEF noReport, noJoin
  <2>5. outcome \in Blaming
    BY <2>3, <2>4, SilenceBlames
  <2> HIDE DEF outcome, pim
  <2>6. Answered(pim, fault)
    BY <1>9, <2>2, <2>5, ConditionParts, RowAnswers DEF Answered
  <2> QED
    BY <1>3, <1>6, <2>6, AnsweredByAreaCheck DEF cp
<1>10. fault # Condition("multicast_forwarding_status", <<"summary">>, <<"impaired">>, FALSE)
  BY <1>2, FaultIsOne
<1> QED
  BY <1>2, <1>7, <1>8, <1>9, <1>10

\* A stream that the box asks for, without an entry or with entries without a tunnel.
LEMMA CmulticastFault ==
  ASSUME NEW view, NEW asked, NEW fault \in MvpnConditions(view, asked), fault.kind = "fault"
  PROVE  \/ /\ ~view.mvpn.there /\ Asked(view) # {}
            /\ fault.check = "mvpn_cmulticast_status" /\ fault.about = <<"instance">>
         \/ \E s \in Asked(view) :
              /\ view.mvpn.there /\ fault.check = "mvpn_cmulticast_status"
              /\ \/ fault.about = Append(s, "entry") /\ {e \in view.mvpn.entries : Carries(e, s)} = {}
                 \/ /\ fault.about = Append(s, "tunnel") /\ {e \in view.mvpn.entries : Carries(e, s)} # {}
                    /\ \A e \in {e \in view.mvpn.entries : Carries(e, s)} : e.pe = "none"
<1> DEFINE covered(s) == {e \in view.mvpn.entries : Carries(e, s)}
           wanted(s) == s \in Asked(view)
           entry(s) == Condition("mvpn_cmulticast_status", Append(s, "entry"), s, wanted(s))
           missing(s) == Condition("mvpn_cmulticast_status", Append(s, "tunnel"), s, wanted(s))
           tunnel(s) == IF s \in Asked(view) /\ \E e \in covered(s) : e.pe # "none"
                        THEN Note("mvpn_cmulticast_status", Append(s, "tunnel"), s) ELSE missing(s)
           part(s) == If(covered(s) = {}, {entry(s)}) \cup If(\E e \in covered(s) : e.pe = "none", {tunnel(s)})
           instance == Fault("mvpn_cmulticast_status", <<"instance">>, <<"instance">>)
<1>1. MvpnConditions(view, asked) =
         If(~view.mvpn.there /\ Asked(view) # {}, {instance})
         \cup If(view.mvpn.there, UNION {part(s) : s \in asked})
  BY DEF MvpnConditions
<1>2. instance.check = "mvpn_cmulticast_status" /\ instance.about = <<"instance">>
  BY FaultParts
<1>3. \A s : /\ entry(s).check = "mvpn_cmulticast_status" /\ entry(s).about = Append(s, "entry")
             /\ missing(s).check = "mvpn_cmulticast_status" /\ missing(s).about = Append(s, "tunnel")
             /\ entry(s).kind = "fault" \/ missing(s).kind = "fault" => s \in Asked(view)
  BY DEF Condition
<1> HIDE DEF entry, missing, instance, wanted
<1>4. \A s \in asked : \/ fault \notin part(s)
                       \/ covered(s) = {} /\ fault = entry(s)
                       \/ /\ \E e \in covered(s) : e.pe = "none"
                          /\ fault = missing(s) /\ ~(s \in Asked(view) /\ \E e \in covered(s) : e.pe # "none")
  BY NoteIsNoFault DEF If
<1> HIDE DEF part
<1>5. \/ ~view.mvpn.there /\ Asked(view) # {} /\ fault = instance
      \/ view.mvpn.there /\ \E s \in asked : fault \in part(s)
  BY <1>1 DEF If
<1>6. CASE ~view.mvpn.there /\ Asked(view) # {} /\ fault = instance
  BY <1>2, <1>6
<1>7. CASE view.mvpn.there /\ \E s \in asked : fault \in part(s)
  <2>1. PICK s \in asked : fault \in part(s)
    BY <1>7
  <2>2. CASE covered(s) = {} /\ fault = entry(s)
    BY <1>3, <1>7, <2>2
  <2>3. CASE /\ \E e \in covered(s) : e.pe = "none"
             /\ fault = missing(s) /\ ~(s \in Asked(view) /\ \E e \in covered(s) : e.pe # "none")
    <3>1. s \in Asked(view) /\ fault.check = "mvpn_cmulticast_status" /\ fault.about = Append(s, "tunnel")
      BY <1>3, <2>3
    <3> QED
      BY <1>7, <2>3, <3>1
  <2> QED
    BY <1>4, <2>1, <2>2, <2>3
<1> QED
  BY <1>5, <1>6, <1>7

LEMMA MvpnReported ==
  ASSUME NEW scope, Measured(scope), area = "mvpn", NEW fault \in Faults(After(scope))
  PROVE  Answered(verdict[scope], fault)
<1> DEFINE check == Mcast!MvpnCmulticastStatus
           cp == Counterpart(scope)
           now == subject.data
           was == BaselineData
           asked == AskedOf(old) \cup AskedOf(new)
           rows == Mcast!MvpnRows(now, was, Captures)
           of(s) == Mcast!CmulticastRows(now, was, Captures, s)
           covered(s) == {e \in new.mvpn.entries : Carries(e, s)}
<1>1. now.igmp = new.igmp /\ now.pim = new.pim /\ now.mvpn = new.mvpn /\ Mcast!NoEntry \notin new.mvpn.entries
  BY MeasuredNow DEF Empty, Shown
<1>2. fault \in MvpnConditions(new, asked) /\ fault.kind = "fault"
  BY DEF Faults, After, Conditions
<1>3. Mcast!ExpectedPairs(now) = Asked(new)
  <2>1. Asked(now) = Asked(new)
    BY <1>1 DEF Asked, Joined
  <2> QED
    BY <2>1, ExpectedIsAsked
<1>4. \A s : Mcast!RoutesFor(now.mvpn.entries, s) = covered(s)
  BY <1>1, ExpectedIsAsked
<1> HIDE DEF now, was, asked, cp
<1>5. ASSUME NEW s \in Asked(new), new.mvpn.there, NEW f \in of(s), Answers(f, fault)
      PROVE  Answered(rows, fault)
  <2>1. rows = UNION {of(q) : q \in Asked(new)}
    BY <1>1, <1>3, <1>5 DEF Mcast!MvpnRows
  <2> HIDE DEF of, rows
  <2> QED
    BY <1>5, <2>1 DEF Answered
<1>6. ASSUME NEW about, NEW outcome \in Blaming, fault.check = "mvpn_cmulticast_status", fault.about = about
      PROVE  Answers(Mcast!Row("mvpn_cmulticast_status", about, outcome), fault)
  BY <1>6, RowAnswers
<1>7. ASSUME ~new.mvpn.there, Asked(new) # {},
             fault.check = "mvpn_cmulticast_status", fault.about = <<"instance">>
      PROVE  Answered(rows, fault)
  <2>1. Mcast!Row("mvpn_cmulticast_status", <<"instance">>, "broken") \in rows
    BY <1>1, <1>3, <1>7 DEF Mcast!MvpnRows
  <2> HIDE DEF rows
  <2> QED
    BY <1>6, <1>7, <2>1, FaultyIsBlaming DEF Answered
<1>8. ASSUME NEW s \in Asked(new), new.mvpn.there, covered(s) = {},
             fault.check = "mvpn_cmulticast_status", fault.about = Append(s, "entry")
      PROVE  Answered(rows, fault)
  <2> DEFINE before == Mcast!CmulticastEntry(was.mvpn, s)
             outcome == Mcast!UnchangedOr("broken", Captures, "mvpn_instance", before = Mcast!NoEntry /\ was.mvpn.there)
  <2>1. Mcast!CmulticastEntry(now.mvpn, s) = Mcast!NoEntry
    BY <1>4, <1>8 DEF Mcast!CmulticastEntry
  <2>2. Mcast!Row("mvpn_cmulticast_status", Append(s, "entry"), outcome) \in of(s)
    BY <2>1 DEF Mcast!CmulticastRows
  <2>3. outcome \in Blaming
    BY FaultyIsBlaming, UnchangedIsBlaming
  <2> HIDE DEF outcome, of, rows
  <2> QED
    BY <1>5, <1>6, <1>8, <2>2, <2>3
<1>9. ASSUME NEW s \in Asked(new), new.mvpn.there, covered(s) # {}, \A e \in covered(s) : e.pe = "none",
             fault.check = "mvpn_cmulticast_status", fault.about = Append(s, "tunnel")
      PROVE  Answered(rows, fault)
  <2> DEFINE entry == Mcast!CmulticastEntry(now.mvpn, s)
             outcome == Mcast!TunnelOutcome(entry, Mcast!CmulticastEntry(was.mvpn, s))
  <2>1. entry \in covered(s)
    <3>1. entry = CHOOSE e \in covered(s) : TRUE
      BY <1>4, <1>9 DEF Mcast!CmulticastEntry
    <3> HIDE DEF entry, covered
    <3> QED
      BY <1>9, <3>1
  <2>2. entry # Mcast!NoEntry /\ entry.pe = "none"
    BY <1>1, <1>9, <2>1
  <2>3. Mcast!Row("mvpn_cmulticast_status", Append(s, "tunnel"), outcome) \in of(s)
    BY <2>2 DEF Mcast!CmulticastRows
  <2>4. outcome = "broken"
    BY <2>2 DEF Mcast!TunnelOutcome
  <2> HIDE DEF outcome, of, rows
  <2> QED
    BY <1>5, <1>6, <1>9, <2>3, <2>4, FaultyIsBlaming
<1>10. Answered(rows, fault)
  <2> HIDE DEF rows
  <2> QED
    BY <1>2, <1>7, <1>8, <1>9, CmulticastFault
<1>11. RunCheck(check, AppliesTo(check, cp), cp, Captures, profile, rows) \subseteq verdict[scope]
  BY BlockJudged DEF Measured, Judged, now, was, cp
<1> HIDE DEF rows
<1> QED
  BY <1>10, <1>11, AnsweredByAreaCheck DEF ChecksOf, cp

LEMMA Inet2Reported ==
  ASSUME NEW scope, Measured(scope), area = "inet2", NEW fault \in Faults(After(scope))
  PROVE  Answered(verdict[scope], fault)
<1> DEFINE check == Mcast!CoreMulticastForwarding
           id == "core_multicast_forwarding"
           cp == Counterpart(scope)
           now == subject.data
           was == BaselineData
           rows == Mcast!CoreForwardingRows(cp, now, was, Captures)
           of(p) == Mcast!CorePrefixRows(p, cp, now, was, Captures)
           routes(p) == RoutesOf(p, scope.prefixes, new)
           missing(v) == {p \in scope.prefixes : Mcast!StreamsOf(p, scope.prefixes, v.routes) = {}}
<1>1. now.routes = new.routes /\ now.vias = new.vias
  BY MeasuredNow DEF Empty
<1>2. cp.prefixes = scope.prefixes
  BY BlockJudged DEF Measured, Scopes
<1>3. \A p \in scope.prefixes : Mcast!StreamsOf(p, scope.prefixes, now.routes) = routes(p)
  <2>1. \A source : Mcast!AssignedTo(scope.prefixes, source) = Longest(scope.prefixes, source)
    BY LongestIsAssigned, BlocksAssumption, BlockJudged DEF Measured
  <2> QED
    BY <1>1, <2>1 DEF Mcast!StreamsOf, RoutesOf
<1>4. PICK p \in scope.prefixes :
         \/ routes(p) = {} /\ fault \in {Fault(id, <<p.name>>, <<p.name>>), Fault(id, <<"summary">>, <<p.name>>)}
         \/ \E r \in routes(p) :
               \/ new.vias[p.name] # Mcast!NoRoute /\ r.up \notin new.vias[p.name]
                     /\ fault = Fault(id, Append(r.stream, "upstream"), r.stream)
               \/ r.down = {} /\ fault = Fault(id, Append(r.stream, "downstream"), r.stream)
               \/ r.pps = 0 /\ fault = Fault(id, Append(r.stream, "rate"), r.stream)
  <2> DEFINE is(r, about) == {Fault(id, Append(r.stream, about), r.stream)}
             carried(p, r) == If(new.vias[p.name] # Mcast!NoRoute /\ r.up \notin new.vias[p.name], is(r, "upstream"))
                              \cup If(r.down = {}, is(r, "downstream")) \cup If(r.pps = 0, is(r, "rate"))
             part(p) == IF routes(p) = {}
                        THEN {Fault(id, <<p.name>>, <<p.name>>), Fault(id, <<"summary">>, <<p.name>>)}
                        ELSE UNION {carried(p, r) : r \in routes(p)}
  <2>1. fault \in UNION {part(p) : p \in scope.prefixes}
    BY DEF Faults, After, Conditions, Inet2Conditions
  <2>2. PICK p \in scope.prefixes : fault \in part(p)
    <3> HIDE DEF part
    <3> QED
      BY <2>1
  <2>3. routes(p) # {} => \E r \in routes(p) : fault \in carried(p, r)
    BY <2>2
  <2> QED
    BY <2>2, <2>3 DEF If
<1> HIDE DEF now, was, cp, routes
<1>5. of(p) \subseteq rows
  <2>1. UNION {of(q) : q \in scope.prefixes} \subseteq rows
    BY <1>2, <1>4 DEF Mcast!CoreForwardingRows
  <2> HIDE DEF of, rows
  <2> QED
    BY <2>1
<1>6. ASSUME NEW about, NEW what, fault = Fault(id, about, what),
             NEW outcome \in Blaming, Mcast!Row(id, about, outcome) \in rows
      PROVE  Answered(rows, fault)
  BY <1>6, FaultParts, RowAnswers DEF Answered
<1>7. ASSUME routes(p) = {}, fault = Fault(id, <<p.name>>, <<p.name>>)
      PROVE  Answered(rows, fault)
  <2> DEFINE none == Captures.baseline /\ Mcast!StreamsOf(p, cp.prefixes, was.routes) = {}
             outcome == Mcast!UnchangedOr("broken", Captures, "multicast_route", none)
  <2>1. Mcast!Row(id, <<p.name>>, outcome) \in of(p)
    BY <1>2, <1>3, <1>4, <1>7 DEF Mcast!CorePrefixRows
  <2>2. outcome \in Blaming
    BY FaultyIsBlaming, UnchangedIsBlaming
  <2> HIDE DEF outcome, of, rows
  <2> QED
    BY <1>5, <1>6, <1>7, <2>1, <2>2
<1>8. ASSUME routes(p) = {}, fault = Fault(id, <<"summary">>, <<p.name>>)
      PROVE  Answered(rows, fault)
  <2> DEFINE same == Captures.baseline /\ missing(now) \subseteq missing(was)
             outcome == Mcast!UnchangedOr("broken", Captures, "multicast_route", same)
  <2>1. missing(now) # {}
    BY <1>3, <1>4, <1>8
  <2>2. Mcast!Row(id, <<"summary">>, outcome) \in rows
    BY <1>2, <1>4, <2>1 DEF Mcast!CoreForwardingRows
  <2>3. outcome \in Blaming
    BY FaultyIsBlaming, UnchangedIsBlaming
  <2> HIDE DEF outcome, rows
  <2> QED
    BY <1>6, <1>8, <2>2, <2>3
<1>9. ASSUME NEW r \in routes(p), NEW about, NEW outcome, outcome = "broken",
             fault = Fault(id, Append(r.stream, about), r.stream),
             Mcast!Row(id, Append(r.stream, about), outcome) \in Mcast!CoreStreamRows(r, new.vias[p.name])
      PROVE  Answered(rows, fault)
  <2>1. Mcast!CoreStreamRows(r, now.vias[p.name]) \subseteq of(p)
    BY <1>2, <1>3, <1>4, <1>9 DEF Mcast!CorePrefixRows
  <2>2. outcome \in Blaming
    BY <1>9, FaultyIsBlaming
  <2> HIDE DEF of, rows
  <2> QED
    BY <1>1, <1>5, <1>6, <1>9, <2>1, <2>2
<1>10. ASSUME NEW r \in routes(p), new.vias[p.name] # Mcast!NoRoute, r.up \notin new.vias[p.name],
              fault = Fault(id, Append(r.stream, "upstream"), r.stream)
       PROVE  Answered(rows, fault)
  <2>1. Mcast!Row(id, Append(r.stream, "upstream"), "broken") \in Mcast!CoreStreamRows(r, new.vias[p.name])
    BY <1>10 DEF Mcast!CoreStreamRows
  <2> HIDE DEF rows
  <2> QED
    BY <1>9, <1>10, <2>1
<1>11. ASSUME NEW r \in routes(p), r.down = {}, fault = Fault(id, Append(r.stream, "downstream"), r.stream)
       PROVE  Answered(rows, fault)
  <2>1. Mcast!Row(id, Append(r.stream, "downstream"), "broken") \in Mcast!CoreStreamRows(r, new.vias[p.name])
    BY <1>11 DEF Mcast!CoreStreamRows
  <2> HIDE DEF rows
  <2> QED
    BY <1>9, <1>11, <2>1
<1>12. ASSUME NEW r \in routes(p), r.pps = 0, fault = Fault(id, Append(r.stream, "rate"), r.stream)
       PROVE  Answered(rows, fault)
  <2>1. Mcast!RateOutcome(r) = "broken"
    BY <1>12 DEF Mcast!RateOutcome, Mcast!Unread
  <2>2. Mcast!Row(id, Append(r.stream, "rate"), "broken") \in Mcast!CoreStreamRows(r, new.vias[p.name])
    BY <2>1 DEF Mcast!CoreStreamRows
  <2> HIDE DEF rows
  <2> QED
    BY <1>9, <1>12, <2>2
<1>13. Answered(rows, fault)
  <2> HIDE DEF rows
  <2> QED
    BY <1>4, <1>7, <1>8, <1>10, <1>11, <1>12
<1>14. RunCheck(check, AppliesTo(check, cp), cp, Captures, profile, rows) \subseteq verdict[scope]
  BY BlockJudged DEF Measured, Judged, now, was, cp
<1> HIDE DEF rows
<1> QED
  BY <1>13, <1>14, AnsweredByAreaCheck DEF ChecksOf, cp

-----------------------------------------------------------------------------
(* Every finding has one of the outcomes, so every row has a status.       *)

Graded(findings) == \A f \in findings : f.outcome \in Outcomes

LEMMA OutcomesAre ==
  /\ {"ok", "info", "recovered", "unchanged", "degraded", "broken", "skip"} \subseteq Outcomes
  /\ "WARN" \in Statuses /\ "FAIL" \in Statuses
  BY DEF Outcomes, Statuses, Rank

\* A fault is a warning or a failure.
Rated(row) == row.status \in Statuses /\ (row.outcome \in Faulty => row.status \in {"WARN", "FAIL"})

LEMMA GradedRows ==
  ASSUME NEW check, NEW applies, NEW scope, NEW captures, NEW findings, Graded(findings)
  PROVE  \A row \in RunCheck(check, applies, scope, captures, profile, findings) : Rated(row)
<1> SUFFICES ASSUME NEW row \in RunCheck(check, applies, scope, captures, profile, findings)
             PROVE  Rated(row)
  OBVIOUS
<1>1. row.status = DeriveStatus(row.outcome, SeverityOf(check, profile)) /\ row.outcome \in Outcomes
  BY OutcomesAre DEF RunCheck, Graded, Row
<1>2. /\ row.status \in {"PASS", "INFO", "RECV", "SKIP", "WARN", "FAIL"}
      /\ row.outcome \in Faulty => row.status \in {"WARN", "FAIL"}
  BY <1>1 DEF DeriveStatus, Outcomes, Faulty
<1>3. {"PASS", "INFO", "RECV", "SKIP", "WARN", "FAIL"} = Statuses
  BY DEF Statuses, Rank
<1> QED
  BY <1>2, <1>3 DEF Rated

LEMMA UnchangedIsGraded ==
  ASSUME NEW outcome \in Outcomes, NEW captures, NEW c, NEW same
  PROVE  /\ Peer!UnchangedOr(outcome, captures, c, same) \in Outcomes
         /\ Core!UnchangedOr(outcome, captures, c, same) \in Outcomes
         /\ Port!UnchangedOr(outcome, captures, c, same) \in Outcomes
         /\ Route!UnchangedOr(outcome, captures, c, same) \in Outcomes
         /\ Reach!UnchangedOr(outcome, captures, c, same) \in Outcomes
         /\ Evpn!UnchangedOr(outcome, captures, c, same) \in Outcomes
         /\ Mcast!UnchangedOr(outcome, captures, c, same) \in Outcomes
  BY OutcomesAre DEF Peer!UnchangedOr, Core!UnchangedOr, Port!UnchangedOr, Route!UnchangedOr, Reach!UnchangedOr,
         Evpn!UnchangedOr, Mcast!UnchangedOr

LEMMA RowIsGraded ==
  ASSUME NEW check, NEW about, NEW outcome \in Outcomes
  PROVE  /\ Peer!Row(check, about, outcome).outcome \in Outcomes /\ Core!Row(check, about, outcome).outcome \in Outcomes
         /\ Port!Row(check, about, outcome).outcome \in Outcomes /\ Route!Row(check, about, outcome).outcome \in Outcomes
         /\ Reach!Row(check, about, outcome).outcome \in Outcomes /\ Evpn!Row(check, about, outcome).outcome \in Outcomes
         /\ Mcast!Row(check, about, outcome).outcome \in Outcomes
  BY DEF Peer!Row, Core!Row, Port!Row, Route!Row, Reach!Row, Evpn!Row, Mcast!Row

LEMMA DeactivationIsGraded ==
  /\ \A was : Peer!DeactivationOutcome(TRUE, was) \in Outcomes /\ Route!DeactivationOutcome(TRUE, was) \in Outcomes
  /\ \A scope : Graded(DeactivationRows(scope))
<1>1. \A was : Peer!DeactivationOutcome(TRUE, was) \in Outcomes /\ Route!DeactivationOutcome(TRUE, was) \in Outcomes
  BY OutcomesAre DEF Peer!DeactivationOutcome, Route!DeactivationOutcome
<1>2. \A scope : Graded(DeactivationRows(scope))
  BY OutcomesAre DEF Graded, DeactivationRows, DeactivationOutcome, Row
<1> QED
  BY <1>1, <1>2

LEMMA PeersGraded ==
  ASSUME NEW now, NEW was, NEW captures
  PROVE  /\ Graded(Peer!BgpRows(now, was, captures)) /\ Graded(Peer!PrefixRows(now, was, -10))
         /\ Graded(Peer!BfdRows(now, was, captures))
<1>1. Peer!BgpOutcome(now, was, captures) \in Outcomes
  <2> DEFINE state == Peer!BgpOf(now)
             before == Peer!BgpOf(was)
  <2>1. Peer!BgpSession(state, before, captures) \in Outcomes
    BY OutcomesAre, UnchangedIsGraded DEF Peer!BgpSession
  <2>2. Peer!BgpInactive(was) \in Outcomes /\ Peer!BgpMissing(before, captures) \in Outcomes
    BY OutcomesAre, UnchangedIsGraded, DeactivationIsGraded DEF Peer!BgpInactive, Peer!BgpMissing
  <2> HIDE DEF state, before
  <2> QED
    BY <2>1, <2>2, OutcomesAre DEF Peer!BgpOutcome, state, before
<1>2. Peer!BfdOutcome(now, was, captures) \in Outcomes
  <2> DEFINE state == Peer!BfdOf(now)
             before == Peer!BfdOf(was)
             bgp == Peer!BgpOf(now)
             outcome == Peer!BfdOutcome(now, was, captures)
  <2>1. /\ Peer!UnchangedOr("broken", captures, "bfd", state # Peer!UNKNOWN /\ before = state) \in Outcomes
        /\ Peer!UnchangedOr("broken", captures, "bfd", before = "absent") \in Outcomes
    BY OutcomesAre, UnchangedIsGraded
  <2> HIDE DEF state, before, bgp
  <2> QED
    BY <2>1, OutcomesAre DEF Peer!BfdOutcome, state, before, bgp
<1>3. Peer!PrefixOutcomes(now, was, -10) \subseteq Outcomes
  BY OutcomesAre DEF Peer!PrefixOutcomes, Peer!PrefixChange
<1> QED
  BY <1>1, <1>2, <1>3, RowIsGraded DEF Graded, Peer!BgpRows, Peer!PrefixRows, Peer!BfdRows

LEMMA CoreGraded ==
  ASSUME NEW now, NEW was, NEW captures, NEW any
  PROVE  /\ Graded(Core!IsisAdjacencyRows(now, was, captures)) /\ Graded(Core!IsisInterfaceRows(now, any))
         /\ Graded(Core!IsisOverviewRows(now)) /\ Graded(Core!LdpNeighborRows(now, was, captures))
         /\ Graded(Core!PimNeighborRows(any, now, was, captures))
         /\ Graded(Core!MplsInterfaceRows(now, was, captures)) /\ Graded(Core!BfdTransitRows(now, was, captures))
<1>1. \A state, before, c : Core!UpOrSame(state, before, captures, c) \in Outcomes
  BY OutcomesAre, UnchangedIsGraded DEF Core!UpOrSame
<1>2. Graded(Core!IsisAdjacencyRows(now, was, captures))
  <2>1. /\ Core!UnchangedOr("broken", captures, "isis_adjacency", ~was.there) \in Outcomes
        /\ Core!IsisNeighbor(now, was) \in Outcomes
        /\ Core!IsisAddress(now, was, captures) \in Outcomes
    BY OutcomesAre, UnchangedIsGraded DEF Core!IsisNeighbor, Core!IsisAddress
  <2> QED
    BY <1>1, <2>1, RowIsGraded DEF Graded, Core!IsisAdjacencyRows
<1>3. Graded(Core!IsisOverviewRows(now))
  BY OutcomesAre, RowIsGraded DEF Graded, Core!IsisOverviewRows
<1>4. \A check, c : Graded(Core!NeighborRows(check, c, now, was, captures))
  <2>1. \A c : Core!NeighborStatus(c, now, was, captures) \in Outcomes
    BY OutcomesAre, UnchangedIsGraded DEF Core!NeighborStatus
  <2>2. \A c : Core!NeighborAddress(c, now, was, captures) \in Outcomes
    BY OutcomesAre, UnchangedIsGraded DEF Core!NeighborAddress
  <2> QED
    BY <2>1, <2>2, RowIsGraded DEF Graded, Core!NeighborRows
<1>5. Graded(Core!MplsInterfaceRows(now, was, captures))
  <2>1. Core!MplsOutcome(now, was, captures) \in Outcomes
    BY OutcomesAre, UnchangedIsGraded DEF Core!MplsOutcome
  <2> QED
    BY <2>1, RowIsGraded DEF Graded, Core!MplsInterfaceRows
<1>6. Graded(Core!BfdTransitRows(now, was, captures))
  <2> DEFINE running(v) == {p \in DOMAIN v : v[p] # Core!Nothing}
             lost == Core!UnchangedOr("broken", captures, "bfd", running(was) = {})
  <2>1. lost \in Outcomes
    BY OutcomesAre, UnchangedIsGraded
  <2>2. Core!BfdTransitRows(now, was, captures) =
           IF running(now) = {} THEN {Core!Row("bfd_transit_state", <<"any">>, lost)}
           ELSE {Core!Row("bfd_transit_state", <<p>>, Core!UpOrSame(now[p], was[p], captures, "bfd")) : p \in running(now)}
    BY DEF Core!BfdTransitRows
  <2> HIDE DEF lost, running
  <2> QED
    BY <1>1, <2>1, <2>2, RowIsGraded DEF Graded
<1>7. Graded(Core!IsisInterfaceRows(now, any))
  <2> DEFINE row(about, ok) == Core!Row("isis_interface_info", <<about>>, IF ok THEN "ok" ELSE "broken")
  <2>1. \A about : row(about, TRUE).outcome \in Outcomes /\ row(about, FALSE).outcome \in Outcomes
    BY OutcomesAre, RowIsGraded
  <2>2. \A about, ok : row(about, ok).outcome \in Outcomes
    BY OutcomesAre, RowIsGraded
  <2>3. ASSUME NEW f \in Core!IsisInterfaceRows(now, any)
        PROVE  \E about, ok : f = row(about, ok)
    BY <2>3 DEF Core!IsisInterfaceRows
  <2> HIDE DEF row
  <2> QED
    BY <2>2, <2>3 DEF Graded
<1> QED
  BY <1>2, <1>3, <1>4, <1>5, <1>6, <1>7, OutcomesAre
     DEF Graded, Core!LdpNeighborRows, Core!PimNeighborRows

LEMMA PortsGraded ==
  ASSUME NEW scope, NEW now, NEW was, NEW captures
  PROVE  /\ Graded(Port!InterfaceStateRows(scope, now, was, captures)) /\ Graded(Port!InterfaceErrorsRows(scope, now, was))
         /\ Graded(Port!InterfaceTrafficRows(scope, now, was)) /\ Graded(Port!TrafficCeasedRows(scope, now, was))
<1>1. \A state, before : Port!StateOutcome(state, before, captures) \in Outcomes
  BY OutcomesAre, UnchangedIsGraded DEF Port!StateOutcome
<1>2. \A count, before : Port!ErrorsOutcome(count, before) \in Outcomes
  BY OutcomesAre DEF Port!ErrorsOutcome
<1>3. \A rate, before, known : Port!TrafficOutcome(rate, before, known) \in Outcomes
  BY OutcomesAre DEF Port!TrafficOutcome
<1>4. \A port, before : Port!CeasedOutcome(port, before) \in Outcomes
  BY OutcomesAre DEF Port!CeasedOutcome
<1>5. Graded(Port!InterfaceStateRows(scope, now, was, captures))
  <2>1. ASSUME NEW f \in Port!InterfaceStateRows(scope, now, was, captures)
        PROVE  \E about : \E outcome \in Outcomes : f = Port!Row("interface_state", about, outcome)
    <3> DEFINE state(n, field) == Port!StateOutcome(now[n][field], Port!Was(was, n, field), captures)
               of(n) == {Port!Row("interface_state", <<n, field>>, state(n, field)) : field \in {"admin", "oper"}}
    <3>1. Port!InterfaceStateRows(scope, now, was, captures) =
             IF Port!Listed(now) = {} THEN {Port!Row("interface_state", <<"all">>, "skip")}
             ELSE UNION {of(n) : n \in Port!ScopeInterfaces(scope, now)}
      BY DEF Port!InterfaceStateRows
    <3>2. \A n, field : state(n, field) \in Outcomes
      BY <1>1
    <3> HIDE DEF state
    <3>3. \A n : \A g \in of(n) : \E about : \E outcome \in Outcomes : g = Port!Row("interface_state", about, outcome)
      BY <3>2
    <3> HIDE DEF of
    <3> QED
      BY <2>1, <3>1, <3>3, OutcomesAre
  <2> QED
    BY <2>1, RowIsGraded DEF Graded
<1>6. Graded(Port!InterfaceErrorsRows(scope, now, was))
  BY <1>2, OutcomesAre, RowIsGraded DEF Graded, Port!InterfaceErrorsRows
<1>7. Graded(Port!InterfaceTrafficRows(scope, now, was))
  BY <1>3, OutcomesAre, RowIsGraded DEF Graded, Port!InterfaceTrafficRows
<1>8. Graded(Port!TrafficCeasedRows(scope, now, was))
  BY <1>4, OutcomesAre, RowIsGraded DEF Graded, Port!TrafficCeasedRows
<1> QED
  BY <1>5, <1>6, <1>7, <1>8

LEMMA OpticsGraded ==
  ASSUME NEW optics, NEW was, NEW captures
  PROVE  Graded(Port!OpticalLevelsRows(optics, was, captures)) /\ Graded(Port!OpticalAlarmsRows(optics, was, captures))
<1>1. Port!LevelOutcome(optics, was, captures) \in Outcomes
  BY OutcomesAre, UnchangedIsGraded DEF Port!LevelOutcome
<1>2. Graded(Port!OpticalLevelsRows(optics, was, captures))
  BY <1>1, OutcomesAre, RowIsGraded DEF Graded, Port!OpticalLevelsRows
<1>3. Graded(Port!OpticalAlarmsRows(optics, was, captures))
  <2> DEFINE before == IF Port!There(was) THEN was.alarms ELSE {}
             outcome(tag) == Port!UnchangedOr(IF tag = "alarm" THEN "broken" ELSE "degraded", captures, "optics",
                                              tag \in before)
  <2>1. \A tag : (IF tag = "alarm" THEN "broken" ELSE "degraded") \in Outcomes
    BY OutcomesAre
  <2>2. \A tag : outcome(tag) \in Outcomes
    BY <2>1, UnchangedIsGraded
  <2>3. Port!OpticalAlarmsRows(optics, was, captures) =
           IF ~Port!There(optics) THEN {Port!Row("interface_optics_alarms", <<"port">>, "skip")}
           ELSE IF optics.alarms = {} THEN {Port!Row("interface_optics_alarms", <<"port">>, "ok")}
           ELSE {Port!Row("interface_optics_alarms", <<tag>>, outcome(tag)) : tag \in optics.alarms}
    BY DEF Port!OpticalAlarmsRows
  <2> HIDE DEF outcome, before
  <2>4. ASSUME NEW f \in Port!OpticalAlarmsRows(optics, was, captures)
        PROVE  \E about : \E any \in Outcomes : f = Port!Row("interface_optics_alarms", about, any)
    <3>1. f = Port!Row("interface_optics_alarms", <<"port">>, "skip")
          \/ f = Port!Row("interface_optics_alarms", <<"port">>, "ok")
          \/ f \in {Port!Row("interface_optics_alarms", <<tag>>, outcome(tag)) : tag \in optics.alarms}
      BY <2>3, <2>4
    <3> QED
      BY <2>2, <3>1, OutcomesAre
  <2> QED
    BY <2>4, RowIsGraded DEF Graded
<1> QED
  BY <1>2, <1>3

LEMMA RoutesGraded ==
  ASSUME NEW now, NEW was, NEW captures,
         Route!Entry(now).active \in {"yes", "no", "unread"}, Route!Entry(was).active \in {"yes", "no", "unread"}
  PROVE  Graded(Route!StaticRouteRows(now, was, captures)) /\ Graded(Route!AggregateRouteRows(now, was, captures))
<1>1. Route!Presence(now, was, captures) \in Outcomes
  BY OutcomesAre, UnchangedIsGraded, DeactivationIsGraded DEF Route!Presence
<1>2. \A outcome \in Outcomes : Route!AnnotateInactiveHops(outcome, now, was) \in Outcomes
  BY OutcomesAre DEF Route!AnnotateInactiveHops
<1>3. Route!StaticOutcome(now, was, captures) \in Outcomes
  <2> DEFINE entry == Route!Entry(now)
             before == Route!Entry(was)
             past == IF Route!Configured(was) = {} THEN "unknown" ELSE IF Route!AllHopsOff(was) THEN "yes" ELSE "no"
             outcome == IF before.there /\ before.hops # entry.hops THEN "degraded" ELSE Route!Presence(now, was, captures)
  <2>1. Route!DeactivationOutcome(TRUE, past) \in Outcomes
    BY DeactivationIsGraded
  <2>2. Route!AnnotateInactiveHops(outcome, now, was) \in Outcomes
    BY <1>1, <1>2, OutcomesAre
  <2> QED
    BY <1>1, <2>1, <2>2 DEF Route!StaticOutcome
<1> QED
  BY <1>1, <1>3, RowIsGraded DEF Graded, Route!StaticRouteRows, Route!AggregateRouteRows

LEMMA ReachGraded ==
  ASSUME NEW now, NEW was, NEW captures
  PROVE  /\ \A check, c : Graded(Reach!TableRows(check, c, now, was, captures))
         /\ Graded(Reach!PingRows(now, was, captures))
<1>1. \A e, before, c : Reach!EntryOutcome(e, before, captures, c) \in Outcomes
  BY OutcomesAre, UnchangedIsGraded DEF Reach!EntryOutcome
<1>2. \A p, before : Reach!PingOutcome(p, before, captures) \in Outcomes
  BY OutcomesAre, UnchangedIsGraded DEF Reach!PingOutcome
<1>3. ASSUME NEW check, NEW c PROVE Graded(Reach!TableRows(check, c, now, was, captures))
  <2> DEFINE empty == Reach!UnchangedOr("broken", captures, c, captures.baseline /\ was.entries = {})
  <2>1. empty \in Outcomes
    BY OutcomesAre, UnchangedIsGraded
  <2>2. Reach!TableRows(check, c, now, was, captures) =
           IF now.nets = {} THEN {} ELSE IF now.entries = {} THEN {Reach!Row(check, <<"table">>, empty)}
           ELSE {Reach!Row(check, <<e.ip>>, Reach!EntryOutcome(e, was.entries, captures, c)) : e \in now.entries}
    BY DEF Reach!TableRows
  <2> HIDE DEF empty
  <2>3. ASSUME NEW f \in Reach!TableRows(check, c, now, was, captures)
        PROVE  \E about : \E outcome \in Outcomes : f = Reach!Row(check, about, outcome)
    <3> DEFINE state(e) == Reach!EntryOutcome(e, was.entries, captures, c)
    <3>1. f = Reach!Row(check, <<"table">>, empty) \/ f \in {Reach!Row(check, <<e.ip>>, state(e)) : e \in now.entries}
      BY <2>2, <2>3
    <3>2. \A e : state(e) \in Outcomes
      BY <1>1
    <3> HIDE DEF state
    <3> QED
      BY <2>1, <3>1, <3>2
  <2> QED
    BY <2>3, RowIsGraded DEF Graded
<1>4. \A f \in Reach!PingSkippedRows(now.skipped) : f.outcome = "skip"
  <2> DEFINE why == IF now.skipped \in BOOLEAN THEN "check failed" ELSE "outside the profile"
  <2>1. Reach!PingSkippedRows(now.skipped) = {Reach!Row("ping_reachability", <<why>>, "skip")}
    BY DEF Reach!PingSkippedRows
  <2> HIDE DEF why
  <2> QED
    BY <2>1 DEF Reach!Row
<1>5. Graded(Reach!PingRows(now, was, captures))
  <2> DEFINE none == "no target"
             rows == {Reach!Row("ping_reachability", <<p.target>>, Reach!PingOutcome(p, was.pings, captures)) :
                         p \in now.pings}
             large == {Reach!Row("ping_reachability", <<n>>, "skip") : n \in Reach!Oversized(now)}
  <2>1. Reach!PingRows(now, was, captures) \in
          {Reach!PingSkippedRows(now.skipped), {Reach!Row("ping_reachability", <<none>>, "skip")}, large \cup rows}
    BY DEF Reach!PingRows
  <2>2. Graded(large \cup rows)
    BY <1>2, OutcomesAre, RowIsGraded DEF Graded
  <2> HIDE DEF none, rows, large
  <2> QED
    BY <1>4, <2>1, <2>2, OutcomesAre, RowIsGraded DEF Graded
<1> QED
  BY <1>3, <1>5

LEMMA EvpnGraded ==
  ASSUME NEW scope, NEW now, NEW was, NEW captures
  PROVE  /\ Graded(Evpn!VpwsRows(now, was, captures)) /\ Graded(Evpn!InstanceRows(scope, now, was, captures))
         /\ Graded(Evpn!MacRows(now, was, captures))
<1>1. \A state, before, c : Evpn!StatusOutcome(state, before, captures, c) \in Outcomes
  BY OutcomesAre, UnchangedIsGraded DEF Evpn!StatusOutcome
<1>2. \A p, before : Evpn!PeerOutcome(p, before, captures) \in Outcomes
  BY OutcomesAre, UnchangedIsGraded DEF Evpn!PeerOutcome
<1>3. ASSUME NEW ac, NEW before PROVE Graded(Evpn!AcRows(ac, before, captures))
  <2>1. Graded(Evpn!PwRows(ac, before, captures))
    <3>1. Evpn!UnchangedOr("broken", captures, "evpn_vpws", before.pw = ac.pw) \in Outcomes
      BY OutcomesAre, UnchangedIsGraded
    <3> QED
      BY <3>1, OutcomesAre, RowIsGraded DEF Graded, Evpn!PwRows
  <2>2. Graded({Evpn!SwitchRow(ac, before, captures), Evpn!NoRemoteRow(ac, before, captures)})
    <3> DEFINE same == before # Evpn!NoAc /\ before.remote = {} /\ before.partner = Evpn!Nothing
               outcome == Evpn!UnchangedOr("broken", captures, "evpn_vpws", same)
    <3>1. outcome \in Outcomes
      BY OutcomesAre, UnchangedIsGraded
    <3>2. Evpn!NoRemoteRow(ac, before, captures) = Evpn!Row("evpn_vpws_status", <<ac.name, "remote">>, outcome)
      BY DEF Evpn!NoRemoteRow
    <3> HIDE DEF outcome
    <3> QED
      BY <1>1, <3>1, <3>2, RowIsGraded DEF Graded, Evpn!SwitchRow
  <2>3. Graded(Evpn!SidRows(ac, before, captures))
    BY <1>2, <2>2, RowIsGraded DEF Graded, Evpn!SidRows
  <2> QED
    BY <1>1, <2>1, <2>3, RowIsGraded DEF Graded, Evpn!AcRows
<1>4. Graded(Evpn!VpwsRows(now, was, captures))
  <2> DEFINE missing == Evpn!UnchangedOr("broken", captures, "evpn_vpws", was.there /\ was.acs = {})
  <2>1. missing \in Outcomes
    BY OutcomesAre, UnchangedIsGraded
  <2>2. Evpn!VpwsRows(now, was, captures) =
           IF ~now.there THEN {Evpn!Row("evpn_vpws_status", <<"all">>, "skip")}
           ELSE IF now.acs = {} THEN {Evpn!Row("evpn_vpws_status", <<"missing">>, missing)}
           ELSE UNION {Evpn!AcRows(ac, Evpn!PairedAc(ac, now.acs, was.acs), captures) : ac \in now.acs}
    BY DEF Evpn!VpwsRows
  <2> HIDE DEF missing
  <2> QED
    BY <1>3, <2>1, <2>2, OutcomesAre, RowIsGraded DEF Graded
<1>5. Graded(Evpn!InstanceRows(scope, now, was, captures))
  <2>1. Evpn!NeighborsOutcome(now, was, captures) \in Outcomes
    BY OutcomesAre, UnchangedIsGraded DEF Evpn!NeighborsOutcome
  <2>2. Evpn!UnitOutcome(now, was, captures) \in Outcomes
    BY <1>1, OutcomesAre, UnchangedIsGraded DEF Evpn!UnitOutcome
  <2>3. Evpn!IrbOutcome(now, was, captures) \in Outcomes
    BY OutcomesAre, UnchangedIsGraded DEF Evpn!IrbOutcome
  <2> QED
    BY <2>1, <2>2, <2>3, OutcomesAre, RowIsGraded DEF Graded, Evpn!InstanceRows
<1>6. Graded(Evpn!MacRows(now, was, captures))
  <2>1. \A count : Evpn!MacState(count) \in Outcomes
    BY OutcomesAre DEF Evpn!MacState
  <2>2. \A before, count : Evpn!MacCompare(before, count, captures) \in Outcomes
    BY OutcomesAre, UnchangedIsGraded DEF Evpn!MacCompare
  <2>3. \A count, before : Evpn!VlanOutcome(count, before, captures) \in Outcomes
    BY <2>1, <2>2 DEF Evpn!VlanOutcome
  <2>4. \A count, before : Graded(Evpn!MacPortRows(count, before, captures))
    BY <2>1, <2>2, OutcomesAre, RowIsGraded DEF Graded, Evpn!MacPortRows
  <2> QED
    BY <2>3, <2>4, OutcomesAre, RowIsGraded DEF Graded, Evpn!MacRows
<1> QED
  BY <1>4, <1>5, <1>6

DfKnown(view) == view.there => view.df \in {Evpn!Nothing, "elected", "not elected"}

LEMMA EsiGraded ==
  ASSUME NEW now, NEW was, NEW captures, DfKnown(now)
  PROVE  Graded(Evpn!EsiRows(now, was, captures))
<1> DEFINE no == "not elected"
           same(fault) == Evpn!UnchangedOr("broken", captures, "evpn_esi", fault)
           elected == same(was.df = no)
           found == same(was.resolved = "no")
           df == CASE now.df = Evpn!Nothing -> "info" [] now.df = "elected" -> "ok" [] now.df = no -> elected
<1>1. elected \in Outcomes /\ found \in Outcomes
  BY OutcomesAre, UnchangedIsGraded
<1>2. Evpn!StatusOutcome(now.status, was.status, captures, "evpn_esi") \in Outcomes
  BY OutcomesAre, UnchangedIsGraded DEF Evpn!StatusOutcome
<1>3. Evpn!EsiRows(now, was, captures) =
         IF ~now.there THEN {Evpn!Row("evpn_esi_status", <<"all">>, "skip")}
         ELSE {Evpn!Row("evpn_esi_status", <<"interface">>,
                        Evpn!StatusOutcome(now.status, was.status, captures, "evpn_esi")),
               Evpn!Row("evpn_esi_status", <<"df">>, df)}
              \cup (IF now.resolved = Evpn!Nothing THEN {}
                    ELSE {Evpn!Row("evpn_esi_status", <<"resolved">>, IF now.resolved = "yes" THEN "ok" ELSE found)})
  BY DEF Evpn!EsiRows
<1>4. now.there => now.df \in {Evpn!Nothing, "elected", no}
  BY DEF DfKnown
<1> HIDE DEF no, same, elected, found
<1>5. now.there => df \in Outcomes
  BY <1>1, <1>4, OutcomesAre
<1> HIDE DEF df
<1> QED
  BY <1>1, <1>2, <1>3, <1>5, OutcomesAre, RowIsGraded DEF Graded

LEMMA ReportsGraded ==
  ASSUME NEW scope, NEW now, NEW was, NEW captures
  PROVE  Graded(Mcast!IgmpRows(scope, now, was, captures)) /\ Graded(Mcast!PimRows(scope, now, was, captures))
<1>1. \A current, before, other, failed, c : Mcast!ReportOutcome(current, before, other, failed, scope, captures, c) \in Outcomes
  BY OutcomesAre, UnchangedIsGraded DEF Mcast!ReportOutcome
<1> DEFINE igmp == Mcast!ReportOutcome(now.igmp, was.igmp, Mcast!PimPairs(now), "pim_join" \in captures.failed,
                                       scope, captures, "igmp_group")
           pim == Mcast!ReportOutcome(Mcast!PimPairs(now), Mcast!PimPairs(was), now.igmp, "igmp_group" \in captures.failed,
                                      scope, captures, "pim_join")
<1>2. igmp \in Outcomes /\ pim \in Outcomes
  BY <1>1
<1>3. /\ Mcast!IgmpRows(scope, now, was, captures) \subseteq {Mcast!Row("igmp_membership_report", <<"report">>, igmp)}
      /\ Mcast!PimRows(scope, now, was, captures) \subseteq {Mcast!Row("pim_join", <<"join">>, pim)}
  BY DEF Mcast!IgmpRows, Mcast!PimRows
<1> HIDE DEF igmp, pim
<1> QED
  BY <1>2, <1>3, RowIsGraded DEF Graded

LEMMA ForwardingGraded ==
  ASSUME NEW now, NEW was, NEW captures
  PROVE  Graded(Mcast!ForwardingRows(now, was, captures))
<1> DEFINE check == "multicast_forwarding_status"
<1>1. \A route : Mcast!RateOutcome(route) \in Outcomes
  BY OutcomesAre DEF Mcast!RateOutcome
<1>2. ASSUME NEW route, NEW roles PROVE Graded(Mcast!StreamRows(route, roles, was, captures))
  <2> DEFINE before == Mcast!BaselineRoute(was, route)
             receives == Mcast!RECEIVER \in roles /\ "service" \in route.down
             sends == Mcast!SENDER \in roles /\ route.down # {}
             same(outcome, fault) == Mcast!UnchangedOr(outcome, captures, "multicast_route", before # Mcast!NoStream /\ fault)
             row(about, outcome) == Mcast!Row(check, Append(route.stream, about), outcome)
             unsent == same("degraded", before.down = {})
             unreceived == same("broken", "service" \notin before.down)
  <2>1. unsent \in Outcomes /\ unreceived \in Outcomes
    BY OutcomesAre, UnchangedIsGraded
  <2>2. Mcast!StreamRows(route, roles, was, captures) =
           {row("rate", Mcast!RateOutcome(route))}
           \cup IF (sends /\ ~receives) \/ roles = {Mcast!SENDER}
                THEN {row("stream", IF sends THEN "ok" ELSE unsent),
                      row("upstream", IF route.up = "service" THEN "ok" ELSE "broken")}
                ELSE {row("stream", IF receives THEN "ok" ELSE unreceived),
                      row("upstream", IF route.up \in {"service", "allowed"} THEN "ok" ELSE "broken")}
    BY DEF Mcast!StreamRows
  <2>3. \A about : \A outcome \in Outcomes : row(about, outcome).outcome \in Outcomes
    BY RowIsGraded
  <2> HIDE DEF row, unsent, unreceived, sends, receives
  <2> QED
    BY <1>1, <2>1, <2>2, <2>3, OutcomesAre DEF Graded
<1>3. ASSUME NEW s PROVE Graded(Mcast!PairRows(now, was, captures, s))
  <2> DEFINE found == Mcast!RoutesFor(now.routes, s)
             table == Mcast!UnchangedOr("degraded", captures, "multicast_route", Mcast!RoutesFor(was.routes, s) = {})
  <2>1. table \in Outcomes
    BY OutcomesAre, UnchangedIsGraded
  <2>2. Mcast!PairRows(now, was, captures, s) =
           IF found = {} THEN {Mcast!Row(check, Append(s, "table"), table)}
           ELSE UNION {Mcast!StreamRows(r, Mcast!Roles(now, s), was, captures) : r \in found}
    BY DEF Mcast!PairRows
  <2> HIDE DEF table, found
  <2> QED
    BY <1>2, <2>1, <2>2, RowIsGraded DEF Graded
<1>4. \A kinds : Mcast!ForwardingSummary(kinds, captures) \in Outcomes
  BY OutcomesAre, UnchangedIsGraded DEF Mcast!ForwardingSummary
<1>5. ASSUME NEW f \in Mcast!ForwardingRows(now, was, captures)
      PROVE  \/ f = Mcast!Row(check, <<"all">>, "skip")
             \/ \E kinds : f = Mcast!Row(check, <<"summary">>, Mcast!ForwardingSummary(kinds, captures))
             \/ \E s : f \in Mcast!PairRows(now, was, captures, s)
  BY <1>5 DEF Mcast!ForwardingRows
<1> QED
  BY <1>3, <1>4, <1>5, OutcomesAre, RowIsGraded DEF Graded

LEMMA MvpnGraded ==
  ASSUME NEW now, NEW was, NEW captures
  PROVE  Graded(Mcast!MvpnRows(now, was, captures))
<1> DEFINE check == "mvpn_cmulticast_status"
<1>1. \A entry, before : Mcast!TunnelOutcome(entry, before) \in Outcomes
  BY OutcomesAre DEF Mcast!TunnelOutcome
<1>2. ASSUME NEW s PROVE Graded(Mcast!CmulticastRows(now, was, captures, s))
  <2> DEFINE entry == Mcast!CmulticastEntry(now.mvpn, s)
             before == Mcast!CmulticastEntry(was.mvpn, s)
             none == Mcast!UnchangedOr("broken", captures, "mvpn_instance", before = Mcast!NoEntry /\ was.mvpn.there)
             row(about, outcome) == Mcast!Row(check, Append(s, about), outcome)
  <2>1. none \in Outcomes
    BY OutcomesAre, UnchangedIsGraded
  <2>2. Mcast!CmulticastRows(now, was, captures, s) =
           IF entry = Mcast!NoEntry THEN {row("entry", none)}
           ELSE {row("entry", "ok"), row("tunnel", Mcast!TunnelOutcome(entry, before))}
    BY DEF Mcast!CmulticastRows
  <2>3. \A about : \A outcome \in Outcomes : row(about, outcome).outcome \in Outcomes
    BY RowIsGraded
  <2> HIDE DEF row, none, entry, before
  <2> QED
    BY <1>1, <2>1, <2>2, <2>3, OutcomesAre DEF Graded
<1>3. ASSUME NEW f \in Mcast!MvpnRows(now, was, captures)
      PROVE  \/ f = Mcast!Row(check, <<"all">>, "skip") \/ f = Mcast!Row(check, <<"instance">>, "broken")
             \/ \E s : f \in Mcast!CmulticastRows(now, was, captures, s)
  BY <1>3 DEF Mcast!MvpnRows
<1> QED
  BY <1>2, <1>3, OutcomesAre, RowIsGraded DEF Graded

LEMMA Inet2Graded ==
  ASSUME NEW scope, NEW now, NEW was, NEW captures
  PROVE  Graded(Mcast!CoreForwardingRows(scope, now, was, captures))
<1> DEFINE check == "core_multicast_forwarding"
<1>1. \A route : Mcast!RateOutcome(route) \in Outcomes
  BY OutcomesAre DEF Mcast!RateOutcome
<1>2. ASSUME NEW route, NEW vias PROVE Graded(Mcast!CoreStreamRows(route, vias))
  <2> DEFINE row(about, outcome) == Mcast!Row(check, Append(route.stream, about), outcome)
             upstream == IF vias = Mcast!NoRoute THEN "skip" ELSE IF route.up \in vias THEN "ok" ELSE "broken"
             downstream == IF route.down # {} THEN "ok" ELSE "broken"
  <2>1. Mcast!CoreStreamRows(route, vias) =
           {row("upstream", upstream), row("downstream", downstream), row("rate", Mcast!RateOutcome(route))}
    BY DEF Mcast!CoreStreamRows
  <2>2. upstream \in Outcomes /\ downstream \in Outcomes
    <3> HIDE DEF Mcast!NoRoute
    <3> QED
      BY OutcomesAre
  <2>3. \A about : \A outcome \in Outcomes : row(about, outcome).outcome \in Outcomes
    BY RowIsGraded
  <2> HIDE DEF row, upstream, downstream
  <2> QED
    BY <1>1, <2>1, <2>2, <2>3 DEF Graded
<1>3. ASSUME NEW p PROVE Graded(Mcast!CorePrefixRows(p, scope, now, was, captures))
  <2> DEFINE current == Mcast!StreamsOf(p, scope.prefixes, now.routes)
             before == Mcast!StreamsOf(p, scope.prefixes, was.routes)
             names(routes) == {r.stream : r \in routes}
             changed == IF before # {} /\ names(before) # names(current) THEN "degraded" ELSE "ok"
             none == Mcast!UnchangedOr("broken", captures, "multicast_route", captures.baseline /\ before = {})
  <2>1. none \in Outcomes /\ changed \in Outcomes
    BY OutcomesAre, UnchangedIsGraded
  <2>2. Mcast!CorePrefixRows(p, scope, now, was, captures) =
           IF current = {} THEN {Mcast!Row(check, <<p.name>>, none)}
           ELSE {Mcast!Row(check, <<p.name>>, changed)}
                \cup UNION {Mcast!CoreStreamRows(r, now.vias[p.name]) : r \in current}
    BY DEF Mcast!CorePrefixRows
  <2> HIDE DEF none, changed, current, before
  <2> QED
    BY <1>2, <2>1, <2>2, RowIsGraded DEF Graded
<1> DEFINE missing(v) == {p \in scope.prefixes : Mcast!StreamsOf(p, scope.prefixes, v.routes) = {}}
           same == Mcast!UnchangedOr("broken", captures, "multicast_route",
                                     captures.baseline /\ missing(now) \subseteq missing(was))
           summary == IF missing(now) = {} THEN "ok" ELSE same
<1>4. summary \in Outcomes
  <2>1. same \in Outcomes
    BY OutcomesAre, UnchangedIsGraded
  <2> HIDE DEF same, missing
  <2> QED
    BY <2>1, OutcomesAre
<1>5. ASSUME NEW f \in Mcast!CoreForwardingRows(scope, now, was, captures)
      PROVE  \/ f = Mcast!Row(check, <<"summary">>, summary)
             \/ \E p : f \in Mcast!CorePrefixRows(p, scope, now, was, captures)
  <2>1. Mcast!CoreForwardingRows(scope, now, was, captures) =
           IF scope.prefixes = {} THEN {}
           ELSE {Mcast!Row(check, <<"summary">>, summary)}
                \cup UNION {Mcast!CorePrefixRows(p, scope, now, was, captures) : p \in scope.prefixes}
    BY DEF Mcast!CoreForwardingRows
  <2> HIDE DEF summary
  <2> QED
    BY <1>5, <2>1
<1> HIDE DEF summary
<1> QED
  BY <1>3, <1>4, <1>5, RowIsGraded DEF Graded

LEMMA VerdictRated ==
  ASSUME Judging, subject.lost = {}, NEW s \in blocks, NEW row \in verdict[s]
  PROVE  Rated(row)
<1> DEFINE cp == Counterpart(s)
           now == subject.data
           was == BaselineData
<1>1. area \in DOMAIN Empty /\ verdict[s] = Judged(area, cp, now, was, Captures, profile)
  BY BothShown, BlockJudged
<1>2. \A c \in DOMAIN Empty[area] : \A f \in DOMAIN Empty[area][c] \ {"pings"} : subject.data[f] = new[f]
  BY BothShown, SubjectSeen DEF Kept
<1>3. area = "esi" => DfKnown(now)
  <2>1. area = "esi" => now.there = new.there /\ now.df = new.df
    BY <1>2 DEF Empty
  <2> HIDE DEF now
  <2> QED
    BY <2>1, BothShown DEF Shown, DfKnown
<1>4. area \in {"static", "aggregate"} => /\ Route!Entry(now).active \in {"yes", "no", "unread"}
                                          /\ Route!Entry(was).active \in {"yes", "no", "unread"}
  <2>1. ASSUME area \in {"static", "aggregate"}
        PROVE  now.table = new.table /\ was.table \in {old.table, Route!NoEntry}
    <3>1. /\ DOMAIN Empty["static"] = {"config", "routes"} /\ Empty["static"]["routes"] = [table |-> Route!NoEntry]
          /\ Empty["static"]["config"] = [conf |-> "none", hops |-> [h \in NextHops |-> "none"]]
          /\ DOMAIN Empty["aggregate"] = {"config", "routes"} /\ Empty["aggregate"]["routes"] = [table |-> Route!NoEntry]
          /\ Empty["aggregate"]["config"] = [conf |-> "none"]
      BY DEF Empty
    <3>2. "routes" \in DOMAIN Empty[area] /\ DOMAIN Empty[area]["routes"] = {"table"}
      BY <2>1, <3>1
    <3>3. Blank("table", Route!NoEntry)
      BY <2>1, <3>1 DEF Blank
    <3>4. "table" \in DOMAIN old \cap DOMAIN new
      BY <3>2, BothShown
    <3>5. now.table = new.table
      BY <1>2, <3>2
    <3> QED
      BY <3>3, <3>4, <3>5, BeforeOrBlank
  <2>2. area \in {"static", "aggregate"} => /\ old.table.active \in {"yes", "no", "unread"}
                                            /\ new.table.active \in {"yes", "no", "unread"}
    BY BothShown DEF Shown
  <2>3. Route!NoEntry.active = "unread"
    BY DEF Route!NoEntry
  <2> HIDE DEF now, was
  <2> QED
    BY <2>1, <2>2, <2>3 DEF Route!Entry
<1> HIDE DEF cp, now, was
<1>5. ASSUME row \in Deactivations(cp, Captures) PROVE Rated(row)
  BY <1>5, DeactivationIsGraded, GradedRows DEF Deactivations
<1> DEFINE Sure == row \in Judged(area, cp, now, was, Captures, profile) /\ row \notin Deactivations(cp, Captures)
<1>6. ASSUME Sure, area \in {"bgp", "bfd"} PROVE Rated(row)
  BY <1>6, PeersGraded, GradedRows DEF Judged, Deactivations
<1>7. ASSUME Sure, area \in {"isis", "isisport", "overload"} PROVE Rated(row)
  BY <1>7, CoreGraded, GradedRows DEF Judged, Deactivations
<1>8. ASSUME Sure, area \in {"ldp", "pim", "mpls", "transit"} PROVE Rated(row)
  BY <1>8, CoreGraded, GradedRows DEF Judged, Deactivations
<1>9. ASSUME Sure, area \in {"ports", "optics"} PROVE Rated(row)
  BY <1>9, PortsGraded, OpticsGraded, GradedRows DEF Judged, Deactivations
<1>10. ASSUME Sure, area \in {"static", "aggregate"} PROVE Rated(row)
  BY <1>4, <1>10, RoutesGraded, GradedRows DEF Judged, Deactivations
<1>11. ASSUME Sure, area \in {"reach4", "reach6"} PROVE Rated(row)
  BY <1>11, ReachGraded, GradedRows DEF Judged, Deactivations
<1>12. ASSUME Sure, area \in {"vpws", "evpn", "mac"} PROVE Rated(row)
  BY <1>12, EvpnGraded, GradedRows DEF Judged, Deactivations
<1>13. ASSUME Sure, area = "esi" PROVE Rated(row)
  BY <1>3, <1>13, EsiGraded, GradedRows DEF Judged, Deactivations
<1>14. ASSUME Sure, area \in {"streams", "mvpn", "inet2"} PROVE Rated(row)
  BY <1>14, ReportsGraded, ForwardingGraded, MvpnGraded, Inet2Graded, GradedRows DEF Judged, Deactivations
<1>15. DOMAIN Empty = {"bgp", "bfd", "isis", "isisport", "overload", "ldp", "pim", "mpls", "transit", "ports",
                       "optics", "static", "aggregate", "reach4", "reach6", "vpws", "esi", "evpn", "mac",
                       "streams", "mvpn", "inet2"}
  BY DEF Empty
<1> QED
  BY <1>1, <1>5, <1>6, <1>7, <1>8, <1>9, <1>10, <1>11, <1>12, <1>13, <1>14, <1>15

\* One warning or failure is enough for a service to be called so.
LEMMA WorstIsBad ==
  ASSUME NEW S, S \subseteq Statuses, NEW bad \in S, bad \in {"WARN", "FAIL"}
  PROVE  ScopeStatus(S) \in {"WARN", "FAIL"}
<1> DEFINE T == S \ {"SKIP"}
           worst == IF "FAIL" \in T THEN "FAIL" ELSE "WARN"
<1>1. Statuses = {"INFO", "PASS", "RECV", "SKIP", "WARN", "FAIL"}
  BY DEF Statuses, Rank
<1>2. /\ Rank["INFO"] = -1 /\ Rank["PASS"] = 0 /\ Rank["RECV"] = 1
      /\ Rank["WARN"] = 3 /\ Rank["FAIL"] = 4
  BY DEF Rank
<1>3. worst \in T /\ \A t \in T : Rank[t] <= Rank[worst]
  BY <1>1, <1>2
<1>4. \A s \in T : (\A t \in T : Rank[t] <= Rank[s]) => s \in {"WARN", "FAIL"}
  BY <1>1, <1>2
<1> HIDE DEF T, worst
<1>5. Worst(T) \in {"WARN", "FAIL"}
  BY <1>3, <1>4 DEF Worst
<1> QED
  BY <1>5 DEF ScopeStatus, T

\* A fault of the new box is in the report of the service.
LEMMA FaultAnswered ==
  ASSUME NEW scope, Measured(scope), OneBlockPerPort, NEW fault \in Faults(After(scope))
  PROVE  \E s \in blocks : (s = scope \/ area = "ports") /\ Answered(verdict[s], fault)
<1>1. scope \in blocks /\ area \in DOMAIN Empty
  BY BothShown DEF Measured
<1>2. CASE area \in {"bgp", "bfd"}
  BY <1>1, <1>2, PeersReported
<1>3. CASE area \in {"isis", "isisport", "overload"}
  BY <1>1, <1>3, IsisReported, IsisPortReported, OverloadReported
<1>4. CASE area \in {"ldp", "pim", "mpls", "transit"}
  BY <1>1, <1>4, NeighborsReported, MplsReported, TransitReported
<1>5. CASE area \in {"ports", "optics"}
  BY <1>1, <1>5, PortsReported, OpticsReported
<1>6. CASE area \in {"static", "aggregate", "reach4", "reach6"}
  BY <1>1, <1>6, RoutesReported, HostsReported DEF ReachAreas
<1>7. CASE area \in {"vpws", "esi", "evpn", "mac"}
  BY <1>1, <1>7, VpwsReported, EsiReported, EvpnReported, MacReported
<1>8. CASE area \in {"streams", "mvpn", "inet2"}
  BY <1>1, <1>8, StreamsReported, MvpnReported, Inet2Reported
<1>9. DOMAIN Empty = {"bgp", "bfd", "isis", "isisport", "overload", "ldp", "pim", "mpls", "transit", "ports",
                      "optics", "static", "aggregate", "reach4", "reach6", "vpws", "esi", "evpn", "mac",
                      "streams", "mvpn", "inet2"}
  BY DEF Empty
<1> QED
  BY <1>1, <1>2, <1>3, <1>4, <1>5, <1>6, <1>7, <1>8, <1>9

\* Every fault of the new box, of which nothing was lost, has a row that says so, as a fault
\* or as one that the baseline had; if the old box had none, the service is a warning or a
\* failure, whatever severities the profile sets.  The services are those that the checks
\* are about (applies_to of every check), and a customer port is judged in its own block
\* (checks/ifaces.py).
THEOREM FaultsReported ==
  ASSUME ServicesAreCovered, OneBlockPerPort
  PROVE  Spec => []FaultIsReported
<1>1. ASSUME JudgeInv, Judgement, AreaIsChecked, subject.lost = {}, NEW scope \in {s \in blocks : ~s.off},
             NEW fault \in Faults(After(scope))
      PROVE  \E s \in blocks : \E row \in verdict[s] :
                (s = scope \/ area = "ports") /\ row \in Rows /\ Answers(row, fault)
  <2>1. Measured(scope)
    BY <1>1 DEF Measured, Judging
  <2>2. PICK s \in blocks : (s = scope \/ area = "ports") /\ Answered(verdict[s], fault)
    BY <1>1, <2>1, FaultAnswered
  <2>3. PICK row \in verdict[s] : Answers(row, fault)
    BY <2>2 DEF Answered
  <2>4. DOMAIN verdict = blocks
    BY <1>1 DEF JudgeInv
  <2>5. row \in Rows
    BY <2>3, <2>4 DEF Rows
  <2> QED
    BY <2>2, <2>3, <2>5
<1>2. ASSUME JudgeInv, Judgement, AreaIsChecked, subject.lost = {}, NEW scope \in {s \in blocks : ~s.off},
             Faults(After(scope)) # {}, Before(scope) = {}
      PROVE  ScopeStatus({row.status : row \in Rows}) \in {"WARN", "FAIL"}
  <2>1. PICK fault \in Faults(After(scope)) : TRUE
    BY <1>2
  <2>2. PICK s \in blocks : \E row \in verdict[s] : (s = scope \/ area = "ports") /\ row \in Rows /\ Answers(row, fault)
    BY <1>1, <1>2, <2>1
  <2>3. PICK row \in verdict[s] : (s = scope \/ area = "ports") /\ row \in Rows /\ Answers(row, fault)
    BY <2>2
  <2>4. Before(s) = Before(scope)
    BY <2>3 DEF Before, Conditions
  <2>5. row.outcome # "unchanged"
    BY <1>2, <2>3, <2>4, UnchangedHasEvidence DEF Evidence, Judging
  <2>6. row.outcome \in Faulty
    BY <2>3, <2>5 DEF Answers, Blaming
  <2>7. row.status \in {"WARN", "FAIL"}
    BY <1>2, <2>3, <2>6, VerdictRated DEF Rated, Judging
  <2>8. {r.status : r \in Rows} \subseteq Statuses
    <3>1. DOMAIN verdict = blocks
      BY <1>2 DEF JudgeInv
    <3> QED
      BY <1>2, <3>1, VerdictRated DEF Rated, Judging, Rows
  <2>9. row.status \in {r.status : r \in Rows}
    BY <2>3
  <2> QED
    BY <2>7, <2>8, <2>9, WorstIsBad
<1>3. JudgeInv => FaultIsReported
  BY <1>1, <1>2 DEF FaultIsReported, Answers, Blaming
<1> QED
  BY <1>3, JudgeInvariance, PTL
=============================================================================
