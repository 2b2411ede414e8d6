------------------------- MODULE ScopeMatcher_proofs -------------------------
(***************************************************************************)
(* Proofs about the matcher, for any snapshots and any mapping.yml: the    *)
(* pairs are a matching, an automatic rule never guesses, no service is    *)
(* lost between the rules, and the reasons are exact.                      *)
(***************************************************************************)
EXTENDS ScopeMatcher, TLAPS

\* Inputs stay what they were, so keys and selectors mean the same all along.
Inputs == scope \in Snapshots /\ mapping \in Mappings

\* The automatic rules start when mapping.yml is done, and only they record rivals.
Stages ==
    /\ mapped < Len(mapping.rules) => rule = 0
    /\ rule = 0 => rivals = {}

\* Rivals share a key, and neither is a service that mapping.yml took away.
RivalsAreReal ==
    \A e \in rivals :
        /\ e[1] \in restB \cup PairedB
        /\ e[2] \in restS \cup PairedS
        /\ \E r \in RULES : Shares(r, e[1], e[2])

\* Of two services still in the pool, every key of a rule applied is recorded.
RivalsAreRecorded ==
    \A r \in RULES : r <= rule =>
        \A b \in restB, s \in restS : Shares(r, b, s) => <<b, s>> \in rivals

\* A service of the pool has no reason until all get theirs, and one that mapping.yml
\* took away is ambiguous.
PoolHasNoReasons ==
    /\ ~Reported => \A x \in restB \cup restS : reason[x] = "none"
    /\ \A x \in Scopes : x \notin restB \cup restS => reason[x] \in {"none", "ambiguous"}

MatchInv ==
    /\ Inputs
    /\ MatchTypeOK
    /\ Stages
    /\ PairsAreMatching
    /\ PoolHasNoReasons
    /\ ScopesAccounted
    /\ RivalsAreReal
    /\ RivalsAreRecorded
    /\ ReasonsAreExact

-----------------------------------------------------------------------------
(* Operators under a step that keeps the inputs.                           *)

\* Whether two services share a key depends on the snapshots only.
LEMMA SharesStable ==
    ASSUME scope' = scope, NEW r, NEW b, NEW s
    PROVE  Shares(r, b, s)' <=> Shares(r, b, s)
  BY DEF Shares, KeySet, Keys

\* Whether mapping.yml ignores a service depends on the inputs only.
LEMMA IgnoredStable ==
    ASSUME scope' = scope, mapping' = mapping, NEW x
    PROVE  Ignored(x)' <=> Ignored(x)
  BY DEF Ignored, Matches

\* mapping.rules is a sequence.
LEMMA RulesAreSequence ==
    ASSUME Inputs
    PROVE  Len(mapping.rules) \in Nat
  BY ScopesAssumption DEF Inputs

\* Two services of the pool share a key exactly if they are an edge of the rule.
LEMMA EdgesAreShared ==
    ASSUME NEW r, NEW b \in restB, NEW s \in restS
    PROVE  Shares(r, b, s) <=> <<b, s>> \in Candidates(r) \cup Contested(r)
  BY DEF Shares, Candidates, Contested

\* What an edge is made of.
LEMMA EdgesAreInPool ==
    ASSUME NEW r
    PROVE  /\ Candidates(r) \subseteq restB \X restS
           /\ Contested(r) \subseteq restB \X restS
           /\ Paired(r) \subseteq Candidates(r)
           /\ Blocked(r) \subseteq Candidates(r)
  BY DEF Candidates, Contested, Paired, Blocked

\* The pairs of one rule share no end with any other edge of the rule.
LEMMA PairedEdgesAreAlone ==
    ASSUME NEW r, NEW e \in Paired(r), NEW f \in Candidates(r) \cup Contested(r),
           f[1] = e[1] \/ f[2] = e[2]
    PROVE  f = e
  <1>1. e \in Candidates(r) /\ e[1] \notin AmbiguousB(r) /\ e[2] \notin AmbiguousS(r)
    BY DEF Paired
  <1>2. f \notin Contested(r)
    BY <1>1 DEF AmbiguousB, AmbiguousS
  <1>3. f = e \/ e \in Crowded(r)
    BY <1>1, <1>2 DEF Crowded
  <1>4. QED
    BY <1>1, <1>3 DEF AmbiguousB, AmbiguousS

\* A service of the pool that is not paired and shares a key is left with a record.
LEMMA UnpairedEdgesAreRecorded ==
    ASSUME NEW r, NEW b \in restB, NEW s \in restS, Shares(r, b, s),
           b \notin {e[1] : e \in Paired(r)}
    PROVE  <<b, s>> \in Contested(r) \cup Blocked(r)
  <1>1. <<b, s>> \in Candidates(r) \cup Contested(r)
    BY EdgesAreShared
  <1>2. <<b, s>> \notin Paired(r)
    OBVIOUS
  <1>3. QED
    BY <1>1, <1>2 DEF Blocked

-----------------------------------------------------------------------------
(* The rule that pairs.                                                    *)

\* "When ambiguous, never guess": the automatic rules pair only services that have only each
\* other (match_scopes, both passes).
LEMMA PairedHaveOnlyEachOther ==
    ASSUME NEW r, NEW e \in Paired(r)
    PROVE  OnlyEachOther(r, e[1], e[2])
  <1>1. e = <<e[1], e[2]>> /\ e[1] \in restB /\ e[2] \in restS /\ e \in Candidates(r)
    BY EdgesAreInPool
  <1>2. Shares(r, e[1], e[2])
    BY <1>1, EdgesAreShared
  <1>3. ASSUME NEW c \in restB, Shares(r, c, e[2])  PROVE c = e[1]
    <2>1. <<c, e[2]>> \in Candidates(r) \cup Contested(r)
      BY <1>1, <1>3, EdgesAreShared
    <2>2. <<c, e[2]>> = e
      BY <2>1, PairedEdgesAreAlone
    <2>3. QED
      BY <2>2, <1>1
  <1>4. ASSUME NEW t \in restS, Shares(r, e[1], t)  PROVE t = e[2]
    <2>1. <<e[1], t>> \in Candidates(r) \cup Contested(r)
      BY <1>1, <1>4, EdgesAreShared
    <2>2. <<e[1], t>> = e
      BY <2>1, PairedEdgesAreAlone
    <2>3. QED
      BY <2>2, <1>1
  <1>5. QED
    BY <1>2, <1>3, <1>4 DEF OnlyEachOther

-----------------------------------------------------------------------------
(* The paired services after each action, and what every step keeps.       *)

LEMMA PairedByRule ==
    ASSUME NEW r, ApplyRule(r)
    PROVE  /\ PairedB' = PairedB \cup {e[1] : e \in Paired(r)}
           /\ PairedS' = PairedS \cup {e[2] : e \in Paired(r)}
  <1> DEFINE new == {PairOf(e[1], e[2], r) : e \in Paired(r)}
  <1>1. pairs' = pairs \cup new
    BY DEF ApplyRule
  <1>2. {p.baseline : p \in new} = {e[1] : e \in Paired(r)}
    <2>1. \A e : PairOf(e[1], e[2], r).baseline = e[1]
      BY DEF PairOf
    <2>2. QED
      BY <2>1
  <1>3. {p.subject : p \in new} = {e[2] : e \in Paired(r)}
    <2>1. \A e : PairOf(e[1], e[2], r).subject = e[2]
      BY DEF PairOf
    <2>2. QED
      BY <2>1
  <1> HIDE DEF new
  <1>4. QED
    BY <1>1, <1>2, <1>3 DEF PairedB, PairedS

LEMMA PairedByHand ==
    ASSUME NEW b, NEW s, PairByHand(b, s)
    PROVE  /\ PairedB' = PairedB \cup {b} /\ PairedS' = PairedS \cup {s}
           /\ b \in restB /\ s \in restS
  <1>1. pairs' = pairs \cup {PairOf(b, s, Manual)}
    BY DEF PairByHand
  <1>2. PairOf(b, s, Manual).baseline = b /\ PairOf(b, s, Manual).subject = s
    BY DEF PairOf
  <1>3. b \in HitsB /\ s \in HitsS
    BY DEF PairByHand
  <1>4. QED
    BY <1>1, <1>2, <1>3 DEF PairedB, PairedS, HitsB, HitsS

LEMMA InputsKept ==
    ASSUME [MatchNext]_matchVars
    PROVE  scope' = scope /\ mapping' = mapping
  BY DEF MatchNext, matchVars, PairByHand, RefuseByHand, ApplyRule, GiveReasons, input

LEMMA RefusedAreHits ==
    /\ Refused(HitsB) \subseteq restB
    /\ Refused(HitsS) \subseteq restS
  BY DEF Refused, HitsB, HitsS

LEMMA InitHolds == MatchInit => MatchInv
  <1> SUFFICES ASSUME MatchInit PROVE MatchInv
    OBVIOUS
  <1>1. Inputs
    BY DEF MatchInit, Inputs
  <1>2. MatchTypeOK
    BY <1>1, RulesAreSequence DEF MatchInit, MatchTypeOK, Reasons
  <1>3. Stages /\ PairsAreMatching /\ RivalsAreReal /\ RivalsAreRecorded
    BY DEF MatchInit, Stages, PairsAreMatching, PairedB, PairedS, RivalsAreReal,
           RivalsAreRecorded, RULES
  <1>4. PoolHasNoReasons /\ ScopesAccounted /\ ReasonsAreExact
    BY DEF MatchInit, PoolHasNoReasons, ScopesAccounted, ReasonsAreExact, Reported, PairedB, PairedS, Scopes
  <1>5. QED
    BY <1>1, <1>2, <1>3, <1>4 DEF MatchInv

-----------------------------------------------------------------------------
(* One lemma per part of the invariant, one step per action.               *)

LEMMA TypesKept ==
    ASSUME Inputs, MatchTypeOK, [MatchNext]_matchVars
    PROVE  MatchTypeOK'
  <1> USE DEF MatchTypeOK
  <1>1. scope' = scope /\ mapping' = mapping
    BY InputsKept
  <1>2. \A x : Ignored(x)' <=> Ignored(x)
    BY <1>1, IgnoredStable
  <1>3. Len(mapping.rules) \in Nat
    BY RulesAreSequence
  <1>4. ASSUME NEW b \in BaselineScopes, NEW s \in SubjectScopes, PairByHand(b, s)
        PROVE  MatchTypeOK'
    <2>1. /\ b \in restB /\ s \in restS
          /\ restB' \subseteq restB /\ restS' \subseteq restS
          /\ UNCHANGED <<rule, rivals, reason>>
      BY <1>4, PairedByHand DEF PairByHand
    <2>2. mapped' \in 0..Len(mapping.rules)
      BY <1>1, <1>3, <1>4 DEF PairByHand
    <2>3. pairs' = pairs \cup {[baseline |-> b, subject |-> s, method |-> Manual]}
      BY <1>4 DEF PairByHand, PairOf
    <2> QED
      BY <1>1, <1>2, <2>1, <2>2, <2>3
  <1>5. CASE RefuseByHand
    <2>1. reason' \in [Scopes -> Reasons]
      BY <1>5 DEF RefuseByHand, Reasons
    <2>2. mapped' \in 0..Len(mapping.rules)
      BY <1>3, <1>5 DEF RefuseByHand
    <2>3. /\ restB' \subseteq restB /\ restS' \subseteq restS
          /\ rule' = rule /\ pairs' = pairs /\ rivals' = rivals
      BY <1>5 DEF RefuseByHand
    <2>4. QED
      BY <1>1, <1>2, <2>1, <2>2, <2>3
  <1>6. ASSUME NEW r \in RULES, ApplyRule(r)
        PROVE  MatchTypeOK'
    <2>1. \A e \in Paired(r) : e[1] \in restB /\ e[2] \in restS
      BY EdgesAreInPool
    <2>2. rivals' \subseteq BaselineScopes \X SubjectScopes
      BY <1>6, EdgesAreInPool DEF ApplyRule
    <2>3. \A p \in pairs' : /\ p.baseline \in BaselineScopes /\ ~Ignored(p.baseline)
                            /\ p.subject \in SubjectScopes /\ ~Ignored(p.subject)
                            /\ p.method \in {Manual} \cup RULES
      BY <1>6, <2>1 DEF ApplyRule, PairOf
    <2>4. QED
      BY <1>1, <1>2, <1>6, <2>2, <2>3 DEF ApplyRule, RULES, input
  <1>7. CASE GiveReasons
    <2>1. \A x : Fallback(x) \in Reasons
      BY DEF Fallback, Reasons
    <2>2. reason' \in [Scopes -> Reasons]
      BY <1>7, <2>1 DEF GiveReasons, Reasons
    <2>3. QED
      BY <1>1, <1>2, <1>7, <2>2 DEF GiveReasons
  <1>8. CASE UNCHANGED matchVars
    BY <1>1, <1>2, <1>8 DEF matchVars
  <1>9. QED
    BY <1>4, <1>5, <1>6, <1>7, <1>8 DEF MatchNext

LEMMA StagesKept ==
    ASSUME Inputs, MatchTypeOK, Stages, [MatchNext]_matchVars
    PROVE  Stages'
  <1> USE DEF Stages, MatchTypeOK
  <1>1. Len(mapping.rules) \in Nat
    BY RulesAreSequence
  <1>2. ASSUME NEW b \in BaselineScopes, NEW s \in SubjectScopes, PairByHand(b, s)
        PROVE  Stages'
    BY <1>1, <1>2 DEF PairByHand, input
  <1>3. CASE RefuseByHand
    BY <1>1, <1>3 DEF RefuseByHand, input
  <1>4. ASSUME NEW r \in RULES, ApplyRule(r)
        PROVE  Stages'
    BY <1>1, <1>4 DEF ApplyRule, RULES, input
  <1>5. CASE GiveReasons
    BY <1>1, <1>5 DEF GiveReasons, input
  <1>6. CASE UNCHANGED matchVars
    BY <1>6 DEF matchVars
  <1>7. QED
    BY <1>2, <1>3, <1>4, <1>5, <1>6 DEF MatchNext

\* The pairs of a rule share no end with one another, and all of them leave the pool.
LEMMA MatchingKept ==
    ASSUME MatchTypeOK, PairsAreMatching, [MatchNext]_matchVars
    PROVE  PairsAreMatching'
  <1> USE DEF PairsAreMatching
  <1>1. ASSUME NEW b \in BaselineScopes, NEW s \in SubjectScopes, PairByHand(b, s)
        PROVE  PairsAreMatching'
    <2>1. b \notin PairedB /\ s \notin PairedS
      BY <1>1, PairedByHand
    <2>2. \A p, q \in pairs' : p.baseline = q.baseline \/ p.subject = q.subject => p = q
      BY <1>1, <2>1 DEF PairByHand, PairedB, PairedS, PairOf
    <2>3. QED
      BY <1>1, <2>2, PairedByHand DEF PairByHand
  <1>2. CASE RefuseByHand
    BY <1>2 DEF RefuseByHand, PairedB, PairedS
  <1>3. ASSUME NEW r \in RULES, ApplyRule(r)
        PROVE  PairsAreMatching'
    <2>1. \A e \in Paired(r) : e[1] \notin PairedB /\ e[2] \notin PairedS
      BY EdgesAreInPool
    <2>2. \A e, f \in Paired(r) : e[1] = f[1] \/ e[2] = f[2] => e = f
      BY EdgesAreInPool, PairedEdgesAreAlone
    <2>3. pairs' = pairs \cup {PairOf(e[1], e[2], r) : e \in Paired(r)}
      BY <1>3 DEF ApplyRule
    <2>4. \A p, q \in pairs' : p.baseline = q.baseline \/ p.subject = q.subject => p = q
      BY <2>1, <2>2, <2>3 DEF PairedB, PairedS, PairOf
    <2>5. QED
      BY <1>3, <2>4, PairedByRule DEF ApplyRule
  <1>4. CASE GiveReasons
    BY <1>4 DEF GiveReasons, PairedB, PairedS
  <1>5. CASE UNCHANGED matchVars
    BY <1>5 DEF matchVars, PairedB, PairedS
  <1>6. QED
    BY <1>1, <1>2, <1>3, <1>4, <1>5 DEF MatchNext

LEMMA PoolKept ==
    ASSUME Inputs, MatchTypeOK, Stages, PoolHasNoReasons, [MatchNext]_matchVars
    PROVE  PoolHasNoReasons'
  <1> USE DEF PoolHasNoReasons, Reported
  <1>1. ASSUME NEW b \in BaselineScopes, NEW s \in SubjectScopes, PairByHand(b, s)
        PROVE  PoolHasNoReasons'
    <2>1. ~Reported /\ ~Reported'
      BY <1>1 DEF PairByHand, Stages
    <2>2. QED
      BY <1>1, <2>1 DEF PairByHand
  <1>2. CASE RefuseByHand
    <2>1. \A x \in restB' \cup restS' : x \in Scopes /\ x \notin Refused(HitsB) \cup Refused(HitsS)
      BY <1>2, RefusedAreHits, ScopesAssumption DEF RefuseByHand, MatchTypeOK, Scopes
    <2>2. QED
      BY <1>2, <2>1 DEF RefuseByHand
  <1>3. ASSUME NEW r \in RULES, ApplyRule(r)
        PROVE  PoolHasNoReasons'
    BY <1>3 DEF ApplyRule, RULES
  <1>4. CASE GiveReasons
    BY <1>4 DEF GiveReasons
  <1>5. CASE UNCHANGED matchVars
    BY <1>5 DEF matchVars
  <1>6. QED
    BY <1>1, <1>2, <1>3, <1>4, <1>5 DEF MatchNext

\* A service leaves the pool by a pair or with a reason.
LEMMA AccountedKept ==
    ASSUME MatchTypeOK, Stages, PairsAreMatching, PoolHasNoReasons, ScopesAccounted,
           [MatchNext]_matchVars
    PROVE  ScopesAccounted'
  <1> USE DEF ScopesAccounted, MatchTypeOK
  <1>1. scope' = scope /\ mapping' = mapping
    BY InputsKept
  <1>2. \A x : Ignored(x)' <=> Ignored(x)
    BY <1>1, IgnoredStable
  <1>3. ASSUME NEW b \in BaselineScopes, NEW s \in SubjectScopes, PairByHand(b, s), ~Reported
        PROVE  ScopesAccounted'
    BY <1>2, <1>3, PairedByHand DEF PairByHand, PoolHasNoReasons, Reported
  <1>4. CASE RefuseByHand /\ ~Reported
    <2>1. \A x \in Refused(HitsB) \cup Refused(HitsS) : x \notin PairedB \cup PairedS
      BY RefusedAreHits, ScopesAssumption DEF PairsAreMatching, PairedB, PairedS
    <2>2. PairedB' = PairedB /\ PairedS' = PairedS /\ ~Reported'
      BY <1>4 DEF RefuseByHand, PairedB, PairedS, Reported
    <2>3. \A x \in Scopes : reason'[x] =
              IF x \in Refused(HitsB) \cup Refused(HitsS) THEN "ambiguous" ELSE reason[x]
      BY <1>4 DEF RefuseByHand
    <2>4. restB' = restB \ Refused(HitsB) /\ restS' = restS \ Refused(HitsS)
      BY <1>4 DEF RefuseByHand
    <2>5. QED
      BY <1>2, <2>1, <2>2, <2>3, <2>4
  <1>5. ASSUME NEW r \in RULES, ApplyRule(r)
        PROVE  ScopesAccounted'
    <2>1. \A e \in Paired(r) : e[1] \in restB /\ e[2] \in restS
      BY EdgesAreInPool
    <2>2. ~Reported /\ ~Reported' /\ reason' = reason
      BY <1>5 DEF ApplyRule, RULES, Reported
    <2>3. restB' = restB \ {e[1] : e \in Paired(r)} /\ restS' = restS \ {e[2] : e \in Paired(r)}
      BY <1>5 DEF ApplyRule
    <2>4. QED
      BY <1>2, <1>5, <2>1, <2>2, <2>3, PairedByRule DEF PoolHasNoReasons
  <1>6. CASE GiveReasons
    <2>1. \A x \in restB \cup restS : x \notin PairedB \cup PairedS
      BY ScopesAssumption DEF PairsAreMatching, PairedB, PairedS
    <2>2. PairedB' = PairedB /\ PairedS' = PairedS /\ restB' = restB /\ restS' = restS
      BY <1>6 DEF GiveReasons, PairedB, PairedS
    <2>3. \A x \in restB \cup restS : x \in Scopes => reason'[x] # "none"
      BY <1>6 DEF GiveReasons, Fallback
    <2>4. \A x \in Scopes : x \notin restB \cup restS => reason'[x] = reason[x]
      BY <1>6 DEF GiveReasons
    <2>5. QED
      BY <1>2, <2>1, <2>2, <2>3, <2>4
  <1>7. CASE UNCHANGED matchVars
    BY <1>2, <1>7 DEF matchVars, PairedB, PairedS, Reported
  <1>8. mapped < Len(mapping.rules) => ~Reported
    BY DEF Stages, Reported
  <1>9. QED
    BY <1>3, <1>4, <1>5, <1>6, <1>7, <1>8 DEF MatchNext, PairByHand, RefuseByHand

\* Before the automatic rules there are no rivals to lose; after them a service leaves
\* the pool only by a pair.
LEMMA RivalsStayReal ==
    ASSUME MatchTypeOK, Stages, RivalsAreReal, [MatchNext]_matchVars
    PROVE  RivalsAreReal'
  <1> USE DEF RivalsAreReal
  <1>1. scope' = scope
    BY InputsKept
  <1>2. \A r, b, s : Shares(r, b, s)' <=> Shares(r, b, s)
    BY <1>1, SharesStable
  <1>3. ASSUME NEW b \in BaselineScopes, NEW s \in SubjectScopes, PairByHand(b, s)
        PROVE  RivalsAreReal'
    BY <1>3 DEF PairByHand, Stages
  <1>4. CASE RefuseByHand
    BY <1>4 DEF RefuseByHand, Stages
  <1>5. ASSUME NEW r \in RULES, ApplyRule(r)
        PROVE  RivalsAreReal'
    <2>1. /\ rivals' = rivals \cup Contested(r) \cup Blocked(r)
          /\ restB' = restB \ {e[1] : e \in Paired(r)}
          /\ restS' = restS \ {e[2] : e \in Paired(r)}
      BY <1>5 DEF ApplyRule
    <2>2. restB \cup PairedB \subseteq restB' \cup PairedB'
      BY <1>5, <2>1, PairedByRule
    <2>3. restS \cup PairedS \subseteq restS' \cup PairedS'
      BY <1>5, <2>1, PairedByRule
    <2>4. ASSUME NEW e \in Contested(r) \cup Blocked(r)
          PROVE  e[1] \in restB /\ e[2] \in restS /\ Shares(r, e[1], e[2])
      <3>1. e \in Contested(r) \cup Candidates(r) /\ e = <<e[1], e[2]>>
            /\ e[1] \in restB /\ e[2] \in restS
        BY <2>4, EdgesAreInPool
      <3>2. QED
        BY <3>1, EdgesAreShared
    <2>5. ASSUME NEW e \in rivals'
          PROVE  /\ e[1] \in restB \cup PairedB /\ e[2] \in restS \cup PairedS
                 /\ \E q \in RULES : Shares(q, e[1], e[2])
      BY <2>1, <2>4, <2>5
    <2>6. QED
      BY <1>2, <2>2, <2>3, <2>5
  <1>6. CASE GiveReasons
    BY <1>2, <1>6 DEF GiveReasons, PairedB, PairedS
  <1>7. CASE UNCHANGED matchVars
    BY <1>2, <1>7 DEF matchVars, PairedB, PairedS
  <1>8. QED
    BY <1>3, <1>4, <1>5, <1>6, <1>7 DEF MatchNext

\* The rule just applied records every edge it did not pair; the pool only shrinks.
LEMMA RivalsStayRecorded ==
    ASSUME Inputs, MatchTypeOK, Stages, RivalsAreRecorded, [MatchNext]_matchVars
    PROVE  RivalsAreRecorded'
  <1> USE DEF RivalsAreRecorded
  <1>1. scope' = scope
    BY InputsKept
  <1>2. \A r, b, s : Shares(r, b, s)' <=> Shares(r, b, s)
    BY <1>1, SharesStable
  <1>3. ASSUME NEW b \in BaselineScopes, NEW s \in SubjectScopes, PairByHand(b, s)
        PROVE  RivalsAreRecorded'
    BY <1>3 DEF PairByHand, Stages, RULES
  <1>4. CASE RefuseByHand
    BY <1>4 DEF RefuseByHand, Stages, RULES
  <1>5. ASSUME NEW r \in RULES, ApplyRule(r)
        PROVE  RivalsAreRecorded'
    <2>1. /\ rivals' = rivals \cup Contested(r) \cup Blocked(r)
          /\ restB' = restB \ {e[1] : e \in Paired(r)}
          /\ restS' \subseteq restS
          /\ rule = r - 1 /\ rule' = r
      BY <1>5 DEF ApplyRule
    <2>2. ASSUME NEW q \in RULES, q <= r, NEW b \in restB', NEW s \in restS', Shares(q, b, s)
          PROVE  <<b, s>> \in rivals'
      <3>1. CASE q <= rule
        BY <2>1, <2>2, <3>1
      <3>2. CASE q = r
        BY <2>1, <2>2, <3>2, UnpairedEdgesAreRecorded
      <3>3. QED
        BY <2>1, <2>2, <3>1, <3>2 DEF RULES
    <2>3. QED
      BY <1>2, <2>1, <2>2
  <1>6. CASE GiveReasons
    BY <1>2, <1>6 DEF GiveReasons, RULES
  <1>7. CASE UNCHANGED matchVars
    BY <1>2, <1>7 DEF matchVars
  <1>8. QED
    BY <1>3, <1>4, <1>5, <1>6, <1>7 DEF MatchNext

\* Where the reasons are given, the records of rivals say what the keys say.
LEMMA ReasonsGivenExactly ==
    ASSUME Inputs, MatchTypeOK, PairsAreMatching, RivalsAreReal, RivalsAreRecorded, GiveReasons
    PROVE  ReasonsAreExact'
  <1>1. scope' = scope /\ restB' = restB /\ restS' = restS /\ rule = 5
    BY DEF GiveReasons, input
  <1>2. \A r, b, s : Shares(r, b, s)' <=> Shares(r, b, s)
    BY <1>1, SharesStable
  <1>3. \A r \in RULES, b \in restB, s \in restS : Shares(r, b, s) => <<b, s>> \in rivals
    BY <1>1 DEF RivalsAreRecorded, RULES
  <1>4. ASSUME NEW b \in restB
        PROVE  Unsettled(b) <=> \E r \in RULES, s \in restS : Shares(r, b, s)
    <2>1. ASSUME Unsettled(b)
          PROVE  \E r \in RULES, s \in restS : Shares(r, b, s)
      <3>1. PICK e \in rivals : e[1] = b /\ e[2] \notin PairedS
        BY <2>1, ScopesAssumption DEF Unsettled, MatchTypeOK
      <3>2. e[2] \in restS /\ \E r \in RULES : Shares(r, b, e[2])
        BY <3>1 DEF RivalsAreReal
      <3>3. QED
        BY <3>2
    <2>2. ASSUME NEW r \in RULES, NEW s \in restS, Shares(r, b, s)
          PROVE  Unsettled(b)
      <3>1. <<b, s>> \in rivals /\ s \notin PairedS
        BY <1>3, <2>2 DEF PairsAreMatching
      <3>2. QED
        BY <3>1 DEF Unsettled
    <2>3. QED
      BY <2>1, <2>2
  <1>5. ASSUME NEW s \in restS
        PROVE  Unsettled(s) <=> \E r \in RULES, b \in restB : Shares(r, b, s)
    <2>1. ASSUME Unsettled(s)
          PROVE  \E r \in RULES, b \in restB : Shares(r, b, s)
      <3>1. PICK e \in rivals : e[2] = s /\ e[1] \notin PairedB
        BY <2>1, ScopesAssumption DEF Unsettled, MatchTypeOK
      <3>2. e[1] \in restB /\ \E r \in RULES : Shares(r, e[1], s)
        BY <3>1 DEF RivalsAreReal
      <3>3. QED
        BY <3>2
    <2>2. ASSUME NEW r \in RULES, NEW b \in restB, Shares(r, b, s)
          PROVE  Unsettled(s)
      <3>1. <<b, s>> \in rivals /\ b \notin PairedB
        BY <1>3, <2>2 DEF PairsAreMatching
      <3>2. QED
        BY <3>1 DEF Unsettled
    <2>3. QED
      BY <2>1, <2>2
  <1>6. \A x \in restB \cup restS : (reason'[x] = "ambiguous") <=> Unsettled(x)
    <2>1. \A x : Fallback(x) # "ambiguous"
      BY DEF Fallback
    <2>2. \A x \in restB \cup restS : x \in Scopes
      BY DEF MatchTypeOK, Scopes
    <2>3. QED
      BY <2>1, <2>2 DEF GiveReasons
  <1>7. QED
    BY <1>1, <1>2, <1>4, <1>5, <1>6 DEF ReasonsAreExact

LEMMA ReasonsKept ==
    ASSUME MatchInv, [MatchNext]_matchVars
    PROVE  ReasonsAreExact'
  <1>1. scope' = scope
    BY InputsKept
  <1>2. \A r, b, s : Shares(r, b, s)' <=> Shares(r, b, s)
    BY <1>1, SharesStable
  <1>3. CASE GiveReasons
    BY <1>3, ReasonsGivenExactly DEF MatchInv
  <1>4. CASE UNCHANGED matchVars
    BY <1>2, <1>4 DEF matchVars, MatchInv, ReasonsAreExact, Reported
  <1>5. ASSUME \/ \E b \in BaselineScopes, s \in SubjectScopes : PairByHand(b, s)
               \/ RefuseByHand
               \/ \E r \in RULES : ApplyRule(r)
        PROVE  ~Reported'
    BY <1>5 DEF MatchInv, Stages, PairByHand, RefuseByHand, ApplyRule, RULES, Reported
  <1>6. QED
    BY <1>3, <1>4, <1>5 DEF MatchNext, ReasonsAreExact

-----------------------------------------------------------------------------
(* What the automatic rules miss.                                          *)

\* No service lists a key of a rule twice.
KeysListedOnce ==
    \A r \in RULES, x \in Scopes : \A i, j \in DOMAIN Keys(r, x) :
        Keys(r, x)[i] = Keys(r, x)[j] => i = j

LEMMA SoleHit ==
    ASSUME NEW pool, NEW r, NEW x \in pool, NEW i \in DOMAIN Keys(r, x),
           \A y \in pool : \A j \in DOMAIN Keys(r, y) :
               Keys(r, y)[j] = Keys(r, x)[i] => y = x /\ j = i
    PROVE  HitOnce(r, pool, Keys(r, x)[i])
  <1>1. <<x, i>> \in Hits(r, pool, Keys(r, x)[i])
    BY DEF Hits
  <1>2. \A h \in Hits(r, pool, Keys(r, x)[i]) : h = <<x, i>>
    BY DEF Hits
  <1>3. QED
    BY <1>1, <1>2 DEF HitOnce

\* Services that have only each other are paired, if none lists a key twice.
LEMMA LoneEdgesArePaired ==
    ASSUME KeysListedOnce, MatchTypeOK, NEW r \in RULES,
           NEW b \in restB, NEW s \in restS, OnlyEachOther(r, b, s)
    PROVE  <<b, s>> \in Paired(r)
  <1>1. \A f \in Candidates(r) \cup Contested(r) :
            f[1] = b \/ f[2] = s => f = <<b, s>>
    <2>1. ASSUME NEW f \in Candidates(r) \cup Contested(r)
          PROVE  f[1] \in restB /\ f[2] \in restS /\ f = <<f[1], f[2]>> /\ Shares(r, f[1], f[2])
      <3>1. f[1] \in restB /\ f[2] \in restS /\ f = <<f[1], f[2]>>
        BY <2>1, EdgesAreInPool
      <3>2. QED
        BY <2>1, <3>1, EdgesAreShared
    <2>2. QED
      BY <2>1 DEF OnlyEachOther
  <1>2. <<b, s>> \notin Contested(r)
    <2>1. SUFFICES ASSUME NEW key \in KeySet(r, b) \cap KeySet(r, s)
                   PROVE  OneToOne(r, key)
      BY DEF Contested
    <2>2. PICK i \in DOMAIN Keys(r, b) : Keys(r, b)[i] = key
      BY DEF KeySet
    <2>3. PICK j \in DOMAIN Keys(r, s) : Keys(r, s)[j] = key
      BY DEF KeySet
    <2>4. restB \subseteq Scopes /\ restS \subseteq Scopes
      BY DEF MatchTypeOK, Scopes
    <2>5. ASSUME NEW c \in restB, NEW k \in DOMAIN Keys(r, c), Keys(r, c)[k] = key
          PROVE  c = b /\ k = i
      <3>1. Shares(r, c, s)
        BY <2>5 DEF Shares, KeySet
      <3>2. c = b
        BY <3>1 DEF OnlyEachOther
      <3>3. QED
        BY <2>2, <2>4, <2>5, <3>2 DEF KeysListedOnce
    <2>6. ASSUME NEW t \in restS, NEW k \in DOMAIN Keys(r, t), Keys(r, t)[k] = key
          PROVE  t = s /\ k = j
      <3>1. Shares(r, b, t)
        BY <2>6 DEF Shares, KeySet
      <3>2. t = s
        BY <3>1 DEF OnlyEachOther
      <3>3. QED
        BY <2>3, <2>4, <2>6, <3>2 DEF KeysListedOnce
    <2>7. HitOnce(r, restB, key)
      BY <2>2, <2>5, SoleHit
    <2>8. HitOnce(r, restS, key)
      BY <2>3, <2>6, SoleHit
    <2>9. QED
      BY <2>7, <2>8 DEF OneToOne
  <1>3. <<b, s>> \in Candidates(r)
    BY <1>2, EdgesAreShared DEF OnlyEachOther
  <1>4. \A f \in Contested(r) \cup Crowded(r) : f[1] # b /\ f[2] # s
    BY <1>1, <1>2 DEF Crowded
  <1>5. QED
    BY <1>3, <1>4 DEF Paired, AmbiguousB, AmbiguousS

-----------------------------------------------------------------------------
LEMMA StepHolds == MatchInv /\ [MatchNext]_matchVars => MatchInv'
  <1> SUFFICES ASSUME MatchInv, [MatchNext]_matchVars
               PROVE  MatchInv'
    OBVIOUS
  <1>1. Inputs'
    BY InputsKept DEF MatchInv, Inputs
  <1>2. MatchTypeOK' /\ Stages' /\ PairsAreMatching' /\ PoolHasNoReasons'
    BY TypesKept, StagesKept, MatchingKept, PoolKept DEF MatchInv
  <1>3. ScopesAccounted' /\ RivalsAreReal' /\ RivalsAreRecorded' /\ ReasonsAreExact'
    BY AccountedKept, RivalsStayReal, RivalsStayRecorded, ReasonsKept DEF MatchInv
  <1>4. QED
    BY <1>1, <1>2, <1>3 DEF MatchInv

\* The inductive invariant of the matcher.
THEOREM MatcherInvariant == MatchSpec => []MatchInv
  BY InitHolds, StepHolds, PTL DEF MatchSpec

\* The types of the matcher; an ignored service is never paired.
THEOREM MatcherTypes == MatchSpec => []MatchTypeOK
  <1>1. MatchInv => MatchTypeOK
    BY DEF MatchInv
  <1>2. QED
    BY <1>1, MatcherInvariant, PTL

\* The pairs are a matching, whatever the rules of mapping.yml hit and the keys are.
THEOREM MatchingHolds == MatchSpec => []PairsAreMatching
  <1>1. MatchInv => PairsAreMatching
    BY DEF MatchInv
  <1>2. QED
    BY <1>1, MatcherInvariant, PTL

\* No service is lost between the rules: in the end it is paired or has a reason.
THEOREM AccountedHolds == MatchSpec => []ScopesAccounted
  <1>1. MatchInv => ScopesAccounted
    BY DEF MatchInv
  <1>2. QED
    BY <1>1, MatcherInvariant, PTL

\* "ambiguous" is said exactly of the services that share a key with an unpaired one.
THEOREM ReasonsHold == MatchSpec => []ReasonsAreExact
  <1>1. MatchInv => ReasonsAreExact
    BY DEF MatchInv
  <1>2. QED
    BY <1>1, MatcherInvariant, PTL

\* An automatic rule pairs only services that have only each other.
THEOREM GuessesNever == MatchSpec => NeverGuesses
  <1>1. ASSUME [MatchNext]_matchVars, NEW p \in pairs' \ pairs, p.method \in RULES
        PROVE  OnlyEachOther(p.method, p.baseline, p.subject)
    <2>1. PICK r \in RULES : ApplyRule(r)
      BY <1>1 DEF MatchNext, matchVars, PairByHand, RefuseByHand, GiveReasons, PairOf,
                  Manual, RULES
    <2>2. PICK e \in Paired(r) : p = PairOf(e[1], e[2], r)
      BY <1>1, <2>1 DEF ApplyRule
    <2>3. p.method = r /\ p.baseline = e[1] /\ p.subject = e[2]
      BY <2>2 DEF PairOf
    <2>4. QED
      BY <2>2, <2>3, PairedHaveOnlyEachOther
  <1>2. [MatchNext]_matchVars =>
            [\A p \in pairs' \ pairs :
                p.method \in RULES => OnlyEachOther(p.method, p.baseline, p.subject)]_matchVars
    BY <1>1
  <1>3. QED
    BY <1>2, PTL DEF MatchSpec, NeverGuesses

\* A service that lists a key twice (two addresses in one network) is all that keeps a rule
\* from pairing two services that have only each other (_index).
THEOREM LoneCandidatesWouldPair == MatchSpec /\ []KeysListedOnce => LoneCandidatesPaired
  <1>1. ASSUME MatchTypeOK, KeysListedOnce, [MatchNext]_matchVars,
               NEW r \in RULES, rule = r - 1, rule' = r,
               NEW b \in restB', NEW s \in restS'
        PROVE  ~OnlyEachOther(r, b, s)
    <2>1. ApplyRule(r)
      <3>1. ~GiveReasons /\ rule' # rule
        BY <1>1 DEF GiveReasons, RULES
      <3>2. PICK q \in RULES : ApplyRule(q)
        BY <1>1, <3>1 DEF MatchNext, matchVars, PairByHand, RefuseByHand
      <3>3. q = r
        BY <1>1, <3>2 DEF ApplyRule
      <3>4. QED
        BY <3>2, <3>3
    <2>2. b \in restB /\ s \in restS /\ b \notin {e[1] : e \in Paired(r)}
      BY <1>1, <2>1 DEF ApplyRule
    <2>3. OnlyEachOther(r, b, s) => <<b, s>> \in Paired(r)
      BY <1>1, <2>2, LoneEdgesArePaired
    <2>4. QED
      BY <2>2, <2>3
  <1>2. MatchTypeOK /\ KeysListedOnce /\ [MatchNext]_matchVars =>
            [\A r \in RULES : rule = r - 1 /\ rule' = r =>
                \A b \in restB', s \in restS' : ~OnlyEachOther(r, b, s)]_matchVars
    BY <1>1
  <1>3. QED
    BY <1>2, MatcherTypes, PTL DEF MatchSpec, LoneCandidatesPaired
=============================================================================
