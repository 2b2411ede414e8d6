-------------------------- MODULE Evaluation_proofs --------------------------
(***************************************************************************)
(* Proofs about the evaluation: it matches as the matcher does, loses no   *)
(* service of a comparison, and a step excludes only what is foreign.      *)
(***************************************************************************)
EXTENDS Evaluation, ScopeMatcher_proofs

\* Every step of the evaluation is one of the matcher or leaves it alone.
THEOREM EvaluationMatches == EvalSpec => MatchSpec
  <1>1. EvalInit => MatchInit
    BY DEF EvalInit
  <1>2. [EvalNext]_evalVars => [MatchNext]_matchVars
    BY DEF EvalNext, evalVars, Match, MatchNext, EvaluateAlone, EvaluateMatched
  <1>3. QED
    BY <1>1, <1>2, PTL DEF EvalSpec, MatchSpec

\* The invariant of the matcher holds during an evaluation.
THEOREM EvaluationInvariant == EvalSpec => []MatchInv
  BY EvaluationMatches, MatcherInvariant, PTL

\* What the two lists of the report are made of, once the reasons are given.
LEMMA ReasonOrPair ==
    ASSUME MatchInv, Reported, NEW x \in Scopes, ~Ignored(x)
    PROVE  (x \in PairedB \cup PairedS) <=> reason[x] = "none"
  BY DEF MatchInv, ScopesAccounted

\* The pairs name services of their side that are not ignored.
LEMMA PairedAreScopes ==
    ASSUME MatchInv
    PROVE  /\ \A b \in PairedB : b \in BaselineScopes /\ ~Ignored(b)
           /\ \A s \in PairedS : s \in SubjectScopes /\ ~Ignored(s)
  BY DEF MatchInv, MatchTypeOK, PairedB, PairedS

-----------------------------------------------------------------------------
(* One comparison.                                                         *)

\* The comparison accounts for every service: EvaluateMatched splits the subject
\* services into paired, listed and excluded.
LEMMA ComparisonAccounts ==
    ASSUME MatchInv, MatchInv', NEW step, NEW types, NEW partner,
           EvaluateMatched(step, types, partner)
    PROVE  ServicesAccounted'
  <1> DEFINE foreign == Foreign(step, partner)
             unmatched == UnmatchedOf(SubjectScopes) \ foreign
             results == {Check(p.subject, p.baseline) : p \in pairs}
                            \cup {Check(x, Absent) : x \in unmatched}
  <1>1. /\ checked' = {c \in results : InProfile(types, c.subject)}
        /\ skipped' = {c.subject : c \in {c \in results : ~InProfile(types, c.subject)}}
        /\ excluded' = foreign
        /\ listed' = unmatched \cup UnmatchedOf(BaselineScopes)
    BY DEF EvaluateMatched
  <1>2. Reported /\ pairs' = pairs /\ scope' = scope /\ mapping' = mapping
    BY DEF EvaluateMatched, matchVars
  <1>3. PairedB' = PairedB /\ PairedS' = PairedS /\ \A x : Ignored(x)' <=> Ignored(x)
    BY <1>2, IgnoredStable DEF PairedB, PairedS
  <1>4. \A c \in results : c \in checked' \/ c.subject \in skipped'
    BY <1>1
  <1>5. \A x, b : Check(x, b).subject = x /\ Check(x, b).baseline = b
    BY DEF Check
  <1>6. foreign \subseteq UnmatchedOf(SubjectScopes)
    BY DEF Foreign
  <1>7. \A x : x \in UnmatchedOf(SubjectScopes) <=> x \in SubjectScopes /\ reason[x] # "none"
    BY DEF UnmatchedOf
  <1>8. \A x : x \in UnmatchedOf(BaselineScopes) <=> x \in BaselineScopes /\ reason[x] # "none"
    BY DEF UnmatchedOf
  <1>9. \A x \in SubjectScopes : ~Ignored(x) => (x \in PairedS <=> reason[x] = "none")
    BY <1>2, ReasonOrPair, PairedAreScopes, ScopesAssumption DEF Scopes
  <1>10. \A x \in BaselineScopes : ~Ignored(x) => (x \in PairedB <=> reason[x] = "none")
    BY <1>2, ReasonOrPair, PairedAreScopes, ScopesAssumption DEF Scopes
  <1>11. \A c \in results : c.subject \in PairedS \/ c.subject \in unmatched
    BY <1>5 DEF PairedS
  <1> HIDE DEF foreign
  <1>12. \A x \in unmatched : x \notin PairedS
    BY <1>7, <1>9, PairedAreScopes
  <1>13. ASSUME NEW b \in BaselineScopes, ~Ignored(b)
         PROVE  \/ b \in listed' /\ b \notin PairedB
                \/ b \notin listed' /\ \E p \in pairs : p.baseline = b /\
                    (Check(p.subject, b) \in checked' \/ p.subject \in skipped')
    <2>1. b \notin UnmatchedOf(SubjectScopes)
      BY <1>7, ScopesAssumption
    <2>2. b \in listed' <=> b \notin PairedB
      BY <1>1, <1>8, <1>10, <1>13, <2>1
    <2>3. ASSUME NEW p \in pairs, p.baseline = b
          PROVE  Check(p.subject, b) \in checked' \/ p.subject \in skipped'
      BY <1>4, <1>5, <2>3
    <2>4. QED
      BY <2>2, <2>3 DEF PairedB
  <1>14. ASSUME NEW s \in SubjectScopes, ~Ignored(s)
         PROVE  \/ s \in PairedS \ (listed' \cup excluded')
                \/ s \in listed' \ (PairedS \cup excluded')
                    /\ (Check(s, Absent) \in checked' \/ s \in skipped')
                \/ /\ s \in excluded' \ (PairedS \cup listed' \cup skipped')
                   /\ \A c \in checked' : c.subject # s
    <2>1. s \notin UnmatchedOf(BaselineScopes)
      BY <1>8, ScopesAssumption
    <2>2. CASE s \in PairedS
      BY <1>1, <1>6, <1>7, <1>9, <1>14, <2>1, <2>2
    <2>3. CASE s \in unmatched
      <3>1. Check(s, Absent) \in results
        BY <2>3
      <3>2. s \in listed' /\ s \notin excluded' /\ s \notin PairedS
        BY <1>1, <1>12, <2>3
      <3>3. Check(s, Absent) \in checked' \/ s \in skipped'
        BY <1>4, <1>5, <3>1
      <3>4. QED
        BY <3>2, <3>3
    <2>4. CASE s \in foreign
      <3>1. s \notin PairedS /\ s \notin unmatched
        BY <1>6, <1>7, <1>9, <1>14, <2>4
      <3>2. s \notin listed' /\ s \in excluded'
        BY <1>1, <2>1, <2>4, <3>1
      <3>3. \A c \in results : c.subject # s
        BY <1>11, <3>1
      <3>4. s \notin skipped' /\ \A c \in checked' : c.subject # s
        BY <1>1, <3>3
      <3>5. QED
        BY <3>1, <3>2, <3>4
    <2>5. QED
      BY <1>7, <1>9, <1>14, <2>2, <2>3, <2>4
  <1>15. ASSUME NEW c \in checked', NEW d \in checked', c.subject = d.subject
         PROVE  c = d
    <2>1. c \in results /\ d \in results
      BY <1>1
    <2>2. CASE c.subject \in PairedS
      <3>1. PICK p \in pairs : c = Check(p.subject, p.baseline)
        BY <1>5, <1>12, <2>1, <2>2
      <3>2. PICK q \in pairs : d = Check(q.subject, q.baseline)
        BY <1>5, <1>12, <1>15, <2>1, <2>2
      <3>3. p = q
        BY <1>5, <1>15, <3>1, <3>2 DEF MatchInv, PairsAreMatching
      <3>4. QED
        BY <3>1, <3>2, <3>3
    <2>3. CASE c.subject \notin PairedS
      <3>1. c = Check(c.subject, Absent)
        BY <1>5, <2>1, <2>3 DEF PairedS
      <3>2. d = Check(d.subject, Absent)
        BY <1>5, <1>15, <2>1, <2>3 DEF PairedS
      <3>3. QED
        BY <1>15, <3>1, <3>2
    <2>4. QED
      BY <2>2, <2>3
  <1>16. QED
    BY <1>2, <1>3, <1>13, <1>14, <1>15 DEF ServicesAccounted, Check

\* What a step excludes kept the fallback reason, so the matcher left it in the pool and
\* no unpaired baseline service shares a key with it.
LEMMA ComparisonExcludesForeign ==
    ASSUME MatchInv, NEW step, NEW types, NEW partner,
           EvaluateMatched(step, types, partner)
    PROVE  ExcludedIsForeign'
  <1>1. /\ scope' = scope /\ restB' = restB /\ pairs' = pairs
        /\ Reported
        /\ excluded' = Foreign(step, partner)
        /\ request' = [alone |-> FALSE, step |-> step, types |-> types, partner |-> partner]
    BY DEF EvaluateMatched, matchVars
  <1>2. request'.step = step /\ request'.partner = partner
    BY <1>1
  <1>3. PairedS' = PairedS
    BY <1>1 DEF PairedS
  <1>4. \A x, b : MayBelong(x, b)' <=> MayBelong(x, b)
    BY <1>1, SharesStable DEF MayBelong
  <1>5. ASSUME NEW x \in Foreign(step, partner)
        PROVE  /\ step
               /\ \A b \in restB : ~MayBelong(x, b)
               /\ partner[x] \notin PairedS
    <2>1. step /\ partner[x] \notin PairedS /\ x \in SubjectScopes /\ reason[x] = "new service"
      BY <1>5 DEF Foreign, PartnerMatched, UnmatchedOf
    <2>2. x \in restS
      BY <2>1, ScopesAssumption DEF MatchInv, PoolHasNoReasons, MatchTypeOK, Scopes
    <2>3. \A r \in RULES, b \in restB : ~Shares(r, b, x)
      BY <1>1, <2>1, <2>2 DEF MatchInv, ReasonsAreExact
    <2>4. QED
      BY <2>1, <2>3 DEF MayBelong
  <1>6. QED
    BY <1>1, <1>2, <1>3, <1>4, <1>5 DEF ExcludedIsForeign

-----------------------------------------------------------------------------
\* Nothing changes once the comparison is made.
LEMMA EvaluationStep ==
    ASSUME MatchInv, MatchInv', ServicesAccounted, ExcludedIsForeign, [EvalNext]_evalVars
    PROVE  ServicesAccounted' /\ ExcludedIsForeign'
  <1>1. CASE request = NoRequest /\ UNCHANGED reports
    BY <1>1 DEF reports, ServicesAccounted, ExcludedIsForeign, Compared
  <1>2. ASSUME NEW types \in Profiles, EvaluateAlone(types)
        PROVE  ServicesAccounted' /\ ExcludedIsForeign'
    <2>1. request'.alone
      BY <1>2 DEF EvaluateAlone
    <2>2. QED
      BY <2>1 DEF ServicesAccounted, ExcludedIsForeign, Compared
  <1>3. ASSUME NEW step \in BOOLEAN, NEW types \in Profiles, NEW partner \in Partners,
               EvaluateMatched(step, types, partner)
        PROVE  ServicesAccounted' /\ ExcludedIsForeign'
    BY <1>3, ComparisonAccounts, ComparisonExcludesForeign
  <1>4. CASE UNCHANGED evalVars
    <2>1. \A x : Ignored(x)' <=> Ignored(x)
      BY <1>4, IgnoredStable DEF evalVars, matchVars
    <2>2. \A x, b : MayBelong(x, b)' <=> MayBelong(x, b)
      BY <1>4, SharesStable DEF MayBelong, evalVars, matchVars
    <2>3. QED
      BY <1>4, <2>1, <2>2 DEF evalVars, matchVars, reports, ServicesAccounted,
                              ExcludedIsForeign, Compared, PairedB, PairedS, Check
  <1>5. QED
    BY <1>1, <1>2, <1>3, <1>4 DEF EvalNext, Match

LEMMA ReportInvariant == EvalSpec => [](ServicesAccounted /\ ExcludedIsForeign)
  <1>1. EvalInit => ServicesAccounted /\ ExcludedIsForeign
    BY DEF EvalInit, ServicesAccounted, ExcludedIsForeign, Compared
  <1>2. MatchInv /\ MatchInv' /\ (ServicesAccounted /\ ExcludedIsForeign) /\ [EvalNext]_evalVars
            => (ServicesAccounted /\ ExcludedIsForeign)'
    BY EvaluationStep
  <1>3. QED
    BY <1>1, <1>2, EvaluationInvariant, PTL DEF EvalSpec

\* No service disappears from a comparison (evaluate_snapshots): each is compared, listed
\* as unmatched or excluded, one of the three, whatever the profile hides.
THEOREM NothingDisappears == EvalSpec => []ServicesAccounted
  BY ReportInvariant, PTL

\* A step excludes only services that share no key with a baseline service the rules left
\* unpaired.
THEOREM OnlyForeignExcluded == EvalSpec => []ExcludedIsForeign
  BY ReportInvariant, PTL
=============================================================================
