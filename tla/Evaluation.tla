----------------------------- MODULE Evaluation -----------------------------
(***************************************************************************)
(* What evaluate_snapshots (engine.py) does with the services of a         *)
(* snapshot: without a baseline all of them are checked; with one they     *)
(* are matched first, and a migration step leaves out the services of      *)
(* other steps that share its port.  The checks themselves, the blocks of  *)
(* physical ports and the unassigned records are left out.                 *)
(***************************************************************************)
EXTENDS ScopeMatcher

CONSTANTS
    Profiles,     \* inputs: sets of service types a profile lets through
    NoRequest     \* nothing evaluated yet

VARIABLES
    request,      \* the step, the profile and the L3 parts of the evaluation
    checked,      \* scope_results: services checked, each with its baseline
    listed,       \* unmatched, both sides
    excluded,     \* excluded_services
    skipped       \* services the profile hides from the checks

reports == <<request, checked, listed, excluded, skipped>>
evalVars == <<matchVars, reports>>

\* link_payloads[x].peer_scope_id: the L3 service a part in an E-LAN belongs to.
L3Types == {"Internet", "IPVPN"}
Partners ==
    {f \in [SubjectScopes -> SubjectScopes \cup {Absent}] :
        \A x \in SubjectScopes : f[x] # Absent =>
            scope[x].type = "E-LAN" /\ scope[f[x]].type \in L3Types}

InProfile(types, x) == scope[x].type \in types

EvalInit ==
    /\ MatchInit
    /\ request = NoRequest
    /\ checked = {} /\ listed = {} /\ excluded = {} /\ skipped = {}

\* match_scopes runs inside the evaluation.
Match(action) == request = NoRequest /\ action /\ UNCHANGED reports

Check(x, b) == [subject |-> x, baseline |-> b]

\* No baseline: nothing is matched, mapping.yml is not looked at.
EvaluateAlone(types) ==
    /\ request = NoRequest
    /\ mapped = 0 /\ rule = 0
    /\ request' = [alone |-> TRUE, step |-> FALSE, types |-> types]
    /\ checked' = {Check(x, Absent) : x \in {x \in SubjectScopes : InProfile(types, x)}}
    /\ skipped' = {x \in SubjectScopes : ~InProfile(types, x)}
    /\ UNCHANGED <<matchVars, listed, excluded>>

UnmatchedOf(side) == {x \in side : reason[x] # "none"}

PartnerMatched(partner, x) == partner[x] \in PairedS

\* Mutant of Foreign: whatever is unmatched is of another step.
ForeignWhateverReason(step, partner) ==
    {x \in UnmatchedOf(SubjectScopes) : step /\ ~PartnerMatched(partner, x)}

\* Services of other waves on the port of a step.
Foreign(step, partner) ==
    {x \in UnmatchedOf(SubjectScopes) :
        step /\ ~PartnerMatched(partner, x) /\ reason[x] = "new service"}

\* Mutant of EvaluateMatched: the profile narrows the unmatched list as well.
EvaluateMatchedNarrow(step, types, partner) ==
    /\ request = NoRequest
    /\ Reported
    /\ LET foreign == Foreign(step, partner)
           unmatched == UnmatchedOf(SubjectScopes) \ foreign
           results == {Check(p.subject, p.baseline) : p \in pairs}
                        \cup {Check(x, Absent) : x \in unmatched}
       IN  /\ request' = [alone |-> FALSE, step |-> step, types |-> types, partner |-> partner]
           /\ checked' = {c \in results : InProfile(types, c.subject)}
           /\ skipped' = {c.subject : c \in {c \in results : ~InProfile(types, c.subject)}}
           /\ excluded' = foreign
           /\ listed' = {x \in unmatched : InProfile(types, x)} \cup UnmatchedOf(BaselineScopes)
    /\ UNCHANGED matchVars

\* The unmatched list is not narrowed by the profile, only the checks are.
EvaluateMatched(step, types, partner) ==
    /\ request = NoRequest
    /\ Reported
    /\ LET foreign == Foreign(step, partner)
           unmatched == UnmatchedOf(SubjectScopes) \ foreign
           results == {Check(p.subject, p.baseline) : p \in pairs}
                        \cup {Check(x, Absent) : x \in unmatched}
       IN  /\ request' = [alone |-> FALSE, step |-> step, types |-> types, partner |-> partner]
           /\ checked' = {c \in results : InProfile(types, c.subject)}
           /\ skipped' = {c.subject : c \in {c \in results : ~InProfile(types, c.subject)}}
           /\ excluded' = foreign
           /\ listed' = unmatched \cup UnmatchedOf(BaselineScopes)
    /\ UNCHANGED matchVars

EvalNext ==
    \/ \E b \in BaselineScopes, s \in SubjectScopes : Match(PairByHand(b, s))
    \/ Match(RefuseByHand)
    \/ \E r \in RULES : Match(ApplyRule(r))
    \/ Match(GiveReasons)
    \/ \E types \in Profiles : EvaluateAlone(types)
    \/ \E step \in BOOLEAN, types \in Profiles, partner \in Partners :
        EvaluateMatched(step, types, partner)

EvalSpec == EvalInit /\ [][EvalNext]_evalVars

-----------------------------------------------------------------------------
(* Properties.                                                             *)

Compared == request # NoRequest /\ ~request.alone

\* No service of either snapshot disappears from a comparison unless mapping.yml
\* ignores it.  A baseline service has its counterpart or is listed (a forgotten
\* migration).  A subject service is compared, listed or excluded, one of the
\* three; a profile takes its checks away, never its place in the list.
ServicesAccounted ==
    Compared =>
        /\ \A b \in BaselineScopes : ~Ignored(b) =>
            \/ b \in listed /\ b \notin PairedB
            \/ b \notin listed /\ \E p \in pairs : p.baseline = b /\
                (Check(p.subject, b) \in checked \/ p.subject \in skipped)
        /\ \A s \in SubjectScopes : ~Ignored(s) =>
            \/ s \in PairedS \ (listed \cup excluded)
            \/ s \in listed \ (PairedS \cup excluded) /\ (Check(s, Absent) \in checked \/ s \in skipped)
            \/ /\ s \in excluded \ (PairedS \cup listed \cup skipped)
               /\ \A c \in checked : c.subject # s
        /\ \A c, d \in checked : c.subject = d.subject => c = d

\* A service can be the counterpart of a baseline service that has none: they share
\* a key of some rule.
MayBelong(x, b) == \E r \in RULES : Shares(r, b, x)

\* What a step excludes is foreign to it: it shares no key with a baseline service the
\* rules left unpaired, and the L3 service it is a part of is not of this step either.
ExcludedIsForeign ==
    Compared =>
        \A x \in excluded :
            /\ request.step
            /\ \A b \in restB : ~MayBelong(x, b)
            /\ request.partner[x] = Absent \/ request.partner[x] \notin PairedS

\* The same of every baseline service without a counterpart, those an ambiguous rule
\* of mapping.yml took out of the pool included, and of the rules of mapping.yml:
\* "all candidates go to unmatched with the reason ambiguous" (docs/en/reference.md).
ExcludedHasNoCandidate ==
    Compared =>
        \A x \in excluded, b \in UnmatchedOf(BaselineScopes) :
            /\ ~MayBelong(x, b)
            /\ \A i \in DOMAIN mapping.rules :
                ~(Matches(mapping.rules[i].baseline, b) /\ Matches(mapping.rules[i].subject, x))
=============================================================================
