---------------------------- MODULE ScopeMatcher ----------------------------
(***************************************************************************)
(* Pairing of the services of two snapshots (scoping/matcher.py): first    *)
(* the rules of mapping.yml, one after the other, then five automatic      *)
(* rules over the services left by the rules before them, then a reason    *)
(* for every service without a counterpart.                                *)
(*                                                                         *)
(* A step is one manual rule, or one automatic rule with both its passes.  *)
(* What an ambiguity says in words is left out; whom it is with is kept.   *)
(***************************************************************************)
EXTENDS Naturals, Sequences

CONSTANTS
    BaselineScopes,   \* services of the snapshot before the migration
    SubjectScopes,    \* services of the snapshot after it
    Snapshots,        \* inputs: what every scope may be, [scopes -> records]
    Mappings,         \* inputs: contents of mapping.yml, [rules, ignore]
    Absent            \* a missing description, subtype or part of a selector

Scopes == BaselineScopes \cup SubjectScopes

ASSUME ScopesAssumption ==
    /\ BaselineScopes \cap SubjectScopes = {}
    /\ \A f \in Snapshots : DOMAIN f = Scopes
    /\ \A m \in Mappings : m.rules \in Seq({m.rules[i] : i \in DOMAIN m.rules})

VARIABLES
    scope,      \* record of every scope
    mapping,    \* mapping.yml
    restB,      \* remaining_baseline
    restS,      \* remaining_subject
    mapped,     \* rules of mapping.yml applied
    rule,       \* automatic rules applied; one more when the reasons are given
    pairs,      \* result.pairs
    rivals,     \* ambiguity: baseline and subject scopes recorded as rivals
    reason      \* reasons in result.unmatched_baseline and unmatched_subject

input == <<scope, mapping>>
matchVars == <<scope, mapping, restB, restS, mapped, rule, pairs, rivals, reason>>

Manual == 0
RULES == 1..5
Reported == rule = 6

Reasons == {"none", "ambiguous", "no candidate", "new service"}

-----------------------------------------------------------------------------
(* Keys.  A key function returns a list: a key may be in it twice.         *)

KeysDescriptionSubtype(s) ==
    IF Absent \in {s.description, s.subtype} THEN <<>>
    ELSE <<[description |-> s.description, type |-> s.type, subtype |-> s.subtype]>>

KeysDescription(s) ==
    IF s.description = Absent THEN <<>>
    ELSE <<[description |-> s.description, type |-> s.type]>>

KeysRoutingInstance(s) ==
    [i \in DOMAIN s.instances |-> [instance |-> s.instances[i], type |-> s.type]]

\* Both ends of a point-to-point link are in its network: only the address
\* tells them apart.  An address that does not parse gives no key.
KeysSubnet(s) ==
    LET Parses(a) == a.network # Absent
        parsed == SelectSeq(s.addresses, Parses)
    IN  [i \in DOMAIN parsed |->
            [net |-> IF parsed[i].p2p THEN parsed[i].host ELSE parsed[i].network,
             type |-> s.type]]

KeysVlan(s) == [i \in DOMAIN s.vlans |-> [vlan |-> s.vlans[i], type |-> s.type]]

Keys(r, x) ==
    CASE r = 1 -> KeysDescriptionSubtype(scope[x])
      [] r = 2 -> KeysDescription(scope[x])
      [] r = 3 -> KeysRoutingInstance(scope[x])
      [] r = 4 -> KeysSubnet(scope[x])
      [] r = 5 -> KeysVlan(scope[x])

KeySet(r, x) == {Keys(r, x)[i] : i \in DOMAIN Keys(r, x)}

\* The list the index holds for a key: a scope is in it once per occurrence.
Hits(r, pool, key) ==
    {h \in UNION {{x} \X DOMAIN Keys(r, x) : x \in pool} : Keys(r, h[1])[h[2]] = key}

HitOnce(r, pool, key) == \E h \in Hits(r, pool, key) : Hits(r, pool, key) = {h}

Shares(r, b, s) == KeySet(r, b) \cap KeySet(r, s) # {}

-----------------------------------------------------------------------------
(* One automatic rule.                                                     *)

OneToOne(r, key) == HitOnce(r, restB, key) /\ HitOnce(r, restS, key)

\* Edges of the keys that are one to one, and of those that are not.
Candidates(r) ==
    {e \in restB \X restS : \E key \in KeySet(r, e[1]) \cap KeySet(r, e[2]) : OneToOne(r, key)}
Contested(r) ==
    {e \in restB \X restS : \E key \in KeySet(r, e[1]) \cap KeySet(r, e[2]) : ~OneToOne(r, key)}

\* Mutant of Crowded: only the candidates of a baseline service are counted.
CrowdedOfBaseline(r) ==
    {e \in Candidates(r) : \E f \in Candidates(r) : f # e /\ f[1] = e[1]}

\* Candidates of which one end has another candidate.
Crowded(r) ==
    {e \in Candidates(r) : \E f \in Candidates(r) : f # e /\ (f[1] = e[1] \/ f[2] = e[2])}

\* Mutant of AmbiguousB: a key that is contested does not spoil the other keys.
AmbiguousBPerKey(r) == {e[1] : e \in Crowded(r)}

\* rule_ambiguous, on either side.
AmbiguousB(r) == {e[1] : e \in Contested(r) \cup Crowded(r)}
AmbiguousS(r) == {e[2] : e \in Contested(r) \cup Crowded(r)}

\* The second pass, and the candidates it leaves.
Paired(r) == {e \in Candidates(r) : e[1] \notin AmbiguousB(r) /\ e[2] \notin AmbiguousS(r)}
Blocked(r) == Candidates(r) \ Paired(r)

-----------------------------------------------------------------------------
(* mapping.yml.                                                            *)

Matches(sel, x) ==
    /\ sel.description \in {Absent, scope[x].description}
    /\ sel.type \in {Absent, scope[x].type}
    /\ sel.interface \in {Absent, scope[x].interface}
    /\ sel.instance = Absent \/ \E i \in DOMAIN scope[x].instances : scope[x].instances[i] = sel.instance

Ignored(x) == \E sel \in mapping.ignore : Matches(sel, x)

ManualRule == mapping.rules[mapped + 1]
HitsB == {b \in restB : Matches(ManualRule.baseline, b)}
HitsS == {s \in restS : Matches(ManualRule.subject, s)}

\* What more than one hit of a side loses: all of them.
Refused(hits) == {x \in hits : hits # {x}}

-----------------------------------------------------------------------------
\* Mutant of PairOf: the sides swapped.
PairOfSwapped(b, s, r) == [baseline |-> s, subject |-> b, method |-> r]

PairOf(b, s, r) == [baseline |-> b, subject |-> s, method |-> r]
PairedB == {p.baseline : p \in pairs}
PairedS == {p.subject : p \in pairs}

MatchInit ==
    /\ scope \in Snapshots
    /\ mapping \in Mappings
    /\ restB = {b \in BaselineScopes : ~Ignored(b)}
    /\ restS = {s \in SubjectScopes : ~Ignored(s)}
    /\ mapped = 0
    /\ rule = 0
    /\ pairs = {}
    /\ rivals = {}
    /\ reason = [x \in Scopes |-> "none"]

PairByHand(b, s) ==
    /\ mapped < Len(mapping.rules)
    /\ HitsB = {b} /\ HitsS = {s}
    /\ pairs' = pairs \cup {PairOf(b, s, Manual)}
    /\ restB' = restB \ {b}
    /\ restS' = restS \ {s}
    /\ mapped' = mapped + 1
    /\ UNCHANGED <<input, rule, rivals, reason>>

\* Mutant of RefuseByHand: only the baseline side is reported.
RefuseByHandQuietly ==
    /\ mapped < Len(mapping.rules)
    /\ ~\E b \in restB, s \in restS : HitsB = {b} /\ HitsS = {s}
    /\ restB' = restB \ Refused(HitsB)
    /\ restS' = restS \ Refused(HitsS)
    /\ reason' = [x \in Scopes |-> IF x \in Refused(HitsB) THEN "ambiguous" ELSE reason[x]]
    /\ mapped' = mapped + 1
    /\ UNCHANGED <<input, rule, pairs, rivals>>

RefuseByHand ==
    /\ mapped < Len(mapping.rules)
    /\ ~\E b \in restB, s \in restS : HitsB = {b} /\ HitsS = {s}
    /\ restB' = restB \ Refused(HitsB)
    /\ restS' = restS \ Refused(HitsS)
    /\ reason' = [x \in Scopes |->
                    IF x \in Refused(HitsB) \cup Refused(HitsS) THEN "ambiguous" ELSE reason[x]]
    /\ mapped' = mapped + 1
    /\ UNCHANGED <<input, rule, pairs, rivals>>

\* Mutant of ApplyRule: a candidate blocked by its other end is not recorded.
ApplyRuleForgetful(r) ==
    /\ mapped = Len(mapping.rules)
    /\ rule = r - 1
    /\ pairs' = pairs \cup {PairOf(e[1], e[2], r) : e \in Paired(r)}
    /\ rivals' = rivals \cup Contested(r) \cup Crowded(r)
    /\ restB' = restB \ {e[1] : e \in Paired(r)}
    /\ restS' = restS \ {e[2] : e \in Paired(r)}
    /\ rule' = r
    /\ UNCHANGED <<input, mapped, reason>>

ApplyRule(r) ==
    /\ mapped = Len(mapping.rules)
    /\ rule = r - 1
    /\ pairs' = pairs \cup {PairOf(e[1], e[2], r) : e \in Paired(r)}
    /\ rivals' = rivals \cup Contested(r) \cup Blocked(r)
    /\ restB' = restB \ {e[1] : e \in Paired(r)}
    /\ restS' = restS \ {e[2] : e \in Paired(r)}
    /\ rule' = r
    /\ UNCHANGED <<input, mapped, reason>>

\* An ambiguity counts while one of its rivals is not paired.
Unsettled(x) ==
    \/ \E e \in rivals : e[1] = x /\ e[2] \notin PairedS
    \/ \E e \in rivals : e[2] = x /\ e[1] \notin PairedB

Fallback(x) == IF x \in BaselineScopes THEN "no candidate" ELSE "new service"

GiveReasons ==
    /\ rule = 5
    /\ rule' = 6
    /\ reason' = [x \in Scopes |->
                    IF x \notin restB \cup restS THEN reason[x]
                    ELSE IF Unsettled(x) THEN "ambiguous" ELSE Fallback(x)]
    /\ UNCHANGED <<input, restB, restS, mapped, pairs, rivals>>

MatchNext ==
    \/ \E b \in BaselineScopes, s \in SubjectScopes : PairByHand(b, s)
    \/ RefuseByHand
    \/ \E r \in RULES : ApplyRule(r)
    \/ GiveReasons

MatchSpec == MatchInit /\ [][MatchNext]_matchVars

-----------------------------------------------------------------------------
(* Properties.                                                             *)

\* Types; the pool and the pairs never hold an ignored service.
MatchTypeOK ==
    /\ restB \subseteq {b \in BaselineScopes : ~Ignored(b)}
    /\ restS \subseteq {s \in SubjectScopes : ~Ignored(s)}
    /\ mapped \in 0..Len(mapping.rules)
    /\ rule \in 0..6
    /\ \A p \in pairs :
        /\ p.baseline \in BaselineScopes /\ ~Ignored(p.baseline)
        /\ p.subject \in SubjectScopes /\ ~Ignored(p.subject)
        /\ p.method \in {Manual} \cup RULES
    /\ rivals \subseteq BaselineScopes \X SubjectScopes
    /\ reason \in [Scopes -> Reasons]

\* The pairs are a matching: no service is in two of them, over all rules, and
\* none of them is still in the pool a later rule pairs from.
PairsAreMatching ==
    /\ \A p, q \in pairs : p.baseline = q.baseline \/ p.subject = q.subject => p = q
    /\ restB \cap PairedB = {}
    /\ restS \cap PairedS = {}

\* A service that is not ignored is never lost between the rules: at any time
\* it is in the pool, paired, or reported; in the end it is paired or has a reason,
\* and not both.
ScopesAccounted ==
    \A x \in Scopes :
        LET paired == x \in PairedB \cup PairedS
            pooled == x \in restB \cup restS
        IN  /\ ~Ignored(x) /\ ~pooled => (paired <=> reason[x] = "none")
            /\ ~Ignored(x) /\ Reported => (paired <=> reason[x] = "none")

\* b and s share a key of the rule, and with neither does any other service left.
OnlyEachOther(r, b, s) ==
    /\ Shares(r, b, s)
    /\ \A c \in restB : Shares(r, c, s) => c = b
    /\ \A t \in restS : Shares(r, b, t) => t = s

\* "When ambiguous, never guess" (the docstring of matcher.py): an automatic rule pairs
\* two services only if neither shares a key of it with any other service left, over
\* all the keys they have.
NeverGuesses ==
    [][\A p \in pairs' \ pairs :
        p.method \in RULES => OnlyEachOther(p.method, p.baseline, p.subject)]_matchVars

\* The other direction, which the docstring states as "a later rule may pair it if the
\* match there is 1:1": a rule leaves no two services that have only each other.
LoneCandidatesPaired ==
    [][\A r \in RULES : rule = r - 1 /\ rule' = r =>
        \A b \in restB', s \in restS' : ~OnlyEachOther(r, b, s)]_matchVars

\* The reasons of the services the rules left unpaired, said once more without rounds,
\* passes and records of rivals: "ambiguous" exactly if under some rule the service
\* shares a key with an unpaired service of the other snapshot, whatever the order
\* in which keys, rules and pairs came.
ReasonsAreExact ==
    Reported =>
        /\ \A b \in restB : (reason[b] = "ambiguous") <=> \E r \in RULES, s \in restS : Shares(r, b, s)
        /\ \A s \in restS : (reason[s] = "ambiguous") <=> \E r \in RULES, b \in restB : Shares(r, b, s)
=============================================================================
