-------------------------- MODULE ServerCaches_proofs --------------------------
(***************************************************************************)
(* Proofs about the two caches of the server.                              *)
(*                                                                         *)
(* A verdict (GroupSummary): what a request has read is current as long as *)
(* the stamps it took with the reads are, since every writer of the run    *)
(* moves the stamp of run.yml before it lets go of the run (SeenIsCurrent);*)
(* so is a clean entry as long as its key is (EntryIsCurrent).             *)
(*                                                                         *)
(* The accounts (Accounts): an entry and a load under the stat of today's  *)
(* file are today's accounts (CacheAgrees), and what a request or a login  *)
(* works with, or may still find in the cache, its user has had since it   *)
(* began (WorksWithDuring).                                                *)
(***************************************************************************)
EXTENDS GroupSummary, Accounts, TLAPS

Stamps == Nat \X Nat
Seen == [manifest : Nat, profile : Nat, subject : Nat, baseline : Nat, then : Stamps, key : Stamps]
Verdict == [manifest : Nat, profile : Nat, subject : Nat, baseline : Nat]
\* Where a request stands after it has loaded run.yml, and the profile.
Profiled == {"profiled", "half keyed", "keyed", "subject", "baseline", "evaluated"}
WithManifest == Profiled \cup {"loaded"}

SummaryTypeOK ==
    /\ manifest \in [stamp : Nat \ {0}, content : Nat]
    /\ profile \in [stamp : Nat \ {0}, content : Nat] \cup {NoProfile}
    /\ snapshots \in [SnapshotFiles -> Nat]
    /\ writes \in Nat
    /\ verdicts \in [key : Stamps, clean : BOOLEAN, verdict : Verdict] \cup {NoEntry}
    /\ reading \in [Readers -> WithManifest \cup {"none", "listed"}]
    /\ seen \in [Readers -> Seen]

\* No stamp is of a write to come.
StampsArePast == manifest.stamp <= writes /\ profile.stamp <= writes

SeenManifest(q) ==
    reading[q] \in WithManifest =>
        /\ seen[q].then[1] <= writes
        /\ seen[q].then[1] = manifest.stamp => seen[q].manifest = manifest.content
SeenProfile(q) ==
    reading[q] \in Profiled =>
        /\ seen[q].then[2] <= writes /\ seen[q].then[2] # 0
        /\ seen[q].then[2] = profile.stamp => seen[q].profile = profile.content
SeenSnapshots(q) ==
    writer = "none" /\ seen[q].then[1] = manifest.stamp =>
        /\ reading[q] \in {"baseline", "evaluated"} => seen[q].subject = snapshots["subject"]
        /\ reading[q] = "evaluated" => seen[q].baseline = snapshots["baseline"]
SeenIsCurrent == \A q \in Readers : SeenManifest(q) /\ SeenProfile(q) /\ SeenSnapshots(q)

EntryIsCurrent ==
    verdicts # NoEntry /\ verdicts.clean =>
        /\ verdicts.key[1] <= writes /\ verdicts.key[2] <= writes /\ verdicts.key[2] # 0
        /\ verdicts.key[1] = manifest.stamp => verdicts.verdict.manifest = manifest.content
        /\ verdicts.key[2] = profile.stamp => verdicts.verdict.profile = profile.content
        /\ writer = "none" /\ verdicts.key[1] = manifest.stamp =>
              /\ verdicts.verdict.subject = snapshots["subject"]
              /\ verdicts.verdict.baseline = snapshots["baseline"]

SummaryInv == SummaryTypeOK /\ StampsArePast /\ SeenIsCurrent /\ EntryIsCurrent

LEMMA SummaryInvInit == SummaryInit => SummaryInv
<1> SUFFICES ASSUME SummaryInit PROVE SummaryInv
  OBVIOUS
<1>1. SummaryTypeOK
  BY DEF SummaryInit, SummaryTypeOK, NothingSeen, Seen, Stamps, Torn
<1>2. StampsArePast /\ SeenIsCurrent /\ EntryIsCurrent
  BY DEF SummaryInit, StampsArePast, SeenIsCurrent, SeenManifest, SeenProfile, SeenSnapshots,
         EntryIsCurrent, WithManifest, Profiled
<1> QED
  BY <1>1, <1>2 DEF SummaryInv

\* A step of a writer: what it changes of run.yml or of the profile gets the stamp of the
\* write, and a snapshot changes only while the run is taken.
LEMMA WriterStep ==
  ASSUME SummaryInv,
         \/ CaptureSnapshot \/ TruncateManifest \/ WriteManifest
         \/ MoveAway \/ MoveIn \/ EndSwap \/ SaveProfile \/ DeleteProfile
  PROVE  SummaryInv'
<1> USE DEF SummaryInv
<1>1. /\ UNCHANGED <<verdicts, reading, seen>>
      /\ writes' \in Nat /\ writes <= writes'
      /\ snapshots' \in [SnapshotFiles -> Nat]
  BY DEF CaptureSnapshot, TruncateManifest, WriteManifest, MoveAway, MoveIn, EndSwap, SaveProfile,
         DeleteProfile, Quiet, Tick, SummaryTypeOK, Gone
<1>2. \/ UNCHANGED manifest
      \/ /\ manifest' \in [stamp : Nat \ {0}, content : Nat]
         /\ manifest'.stamp = writes' /\ writes' = writes + 1
  BY DEF CaptureSnapshot, TruncateManifest, WriteManifest, MoveAway, MoveIn, EndSwap, SaveProfile,
         DeleteProfile, Quiet, Tick, SummaryTypeOK, Torn
<1>3. \/ UNCHANGED profile
      \/ profile' = NoProfile
      \/ /\ profile' \in [stamp : Nat \ {0}, content : Nat]
         /\ profile'.stamp = writes' /\ writes' = writes + 1
  BY DEF CaptureSnapshot, TruncateManifest, WriteManifest, MoveAway, MoveIn, EndSwap, SaveProfile,
         DeleteProfile, Quiet, Tick, SummaryTypeOK
<1>4. \/ writer' # "none"
      \/ manifest'.stamp = writes' /\ writes' = writes + 1
      \/ UNCHANGED <<snapshots, manifest, writer>>
  BY DEF CaptureSnapshot, TruncateManifest, WriteManifest, MoveAway, MoveIn, EndSwap, SaveProfile,
         DeleteProfile, Quiet, Tick, SummaryTypeOK
<1>5. SummaryTypeOK' /\ StampsArePast'
  BY <1>1, <1>2, <1>3 DEF SummaryTypeOK, StampsArePast, NoProfile
<1>6. manifest.stamp \in Nat /\ profile.stamp \in Nat
  BY DEF SummaryTypeOK, NoProfile
<1>7. SeenIsCurrent'
  <2> SUFFICES ASSUME NEW q \in Readers
               PROVE  SeenManifest(q)' /\ SeenProfile(q)' /\ SeenSnapshots(q)'
    BY DEF SeenIsCurrent
  <2>1. seen[q].then[1] \in Nat /\ seen[q].then[2] \in Nat
    BY DEF SummaryTypeOK, Seen, Stamps
  <2>2. SeenManifest(q)'
    BY <1>1, <1>2, <1>6, <2>1 DEF SeenIsCurrent, SeenManifest, SummaryTypeOK, StampsArePast
  <2>3. SeenProfile(q)'
    BY <1>1, <1>3, <1>6, <2>1 DEF SeenIsCurrent, SeenProfile, SummaryTypeOK, StampsArePast, NoProfile
  <2>4. SeenSnapshots(q)'
    <3>1. reading[q] \in {"baseline", "evaluated"} => seen[q].then[1] <= writes
      BY DEF SeenIsCurrent, SeenManifest, WithManifest, Profiled
    <3> QED
      BY <1>1, <1>2, <1>4, <1>6, <2>1, <3>1 DEF SeenIsCurrent, SeenSnapshots, SummaryTypeOK
  <2> QED
    BY <2>2, <2>3, <2>4
<1>8. EntryIsCurrent'
  <2> SUFFICES ASSUME verdicts # NoEntry, verdicts.clean PROVE EntryIsCurrent'
    BY <1>1 DEF EntryIsCurrent
  <2>1. verdicts.key[1] \in Nat /\ verdicts.key[2] \in Nat
    BY DEF SummaryTypeOK, Stamps
  <2>2. verdicts.key[1] <= writes /\ verdicts.key[2] <= writes /\ verdicts.key[2] # 0
    BY DEF EntryIsCurrent
  <2>3. verdicts.key[1] = manifest'.stamp => verdicts.verdict.manifest = manifest'.content
    BY <1>1, <1>2, <1>6, <2>1, <2>2 DEF EntryIsCurrent, SummaryTypeOK
  <2>4. verdicts.key[2] = profile'.stamp => verdicts.verdict.profile = profile'.content
    BY <1>1, <1>3, <1>6, <2>1, <2>2 DEF EntryIsCurrent, SummaryTypeOK, NoProfile
  <2>5. writer' = "none" /\ verdicts.key[1] = manifest'.stamp =>
          /\ verdicts.verdict.subject = snapshots'["subject"]
          /\ verdicts.verdict.baseline = snapshots'["baseline"]
    BY <1>1, <1>2, <1>4, <1>6, <2>1, <2>2 DEF EntryIsCurrent, SummaryTypeOK
  <2>6. verdicts.key[1] <= writes' /\ verdicts.key[2] <= writes'
    BY <1>1, <2>1, <2>2 DEF SummaryTypeOK
  <2> QED
    BY <1>1, <2>2, <2>3, <2>4, <2>5, <2>6 DEF EntryIsCurrent
<1> QED
  BY <1>5, <1>7, <1>8

\* A request goes on: it reads with the stamps of that moment, or takes its key.
LEMMA ReadStep ==
  ASSUME SummaryInv, NEW q \in Readers,
         \/ LoadManifest(q) \/ LoadProfile(q) \/ StatManifest(q) \/ StatProfile(q)
         \/ LookUp(q) \/ \E s \in SnapshotFiles : ReadSnapshot(q, s)
  PROVE  SummaryInv'
<1> USE DEF SummaryInv, memberVars
<1>1. UNCHANGED <<manifest, snapshots, profile, writes, writer, verdicts>>
  BY DEF LoadManifest, LoadProfile, StatManifest, StatProfile, LookUp, ReadSnapshot
<1>2. /\ seen[q].then \in Nat \X Nat /\ seen[q].key \in Nat \X Nat
      /\ manifest.stamp \in Nat /\ profile.stamp \in Nat
  BY DEF SummaryTypeOK, Seen, Stamps, NoProfile
<1>3. \A p \in Readers \ {q} : reading'[p] = reading[p] /\ seen'[p] = seen[p]
  BY DEF LoadManifest, LoadProfile, StatManifest, StatProfile, LookUp, ReadSnapshot, To, Finish,
         Reads, SummaryTypeOK
<1> DEFINE Goes(place, facts) == /\ reading' = [reading EXCEPT ![q] = place]
                                 /\ seen' = [seen EXCEPT ![q] = facts]
           Current4 == SeenManifest(q)' /\ SeenProfile(q)' /\ SeenSnapshots(q)'
<1>4. ASSUME NEW place \in WithManifest \cup {"none", "listed"}, NEW facts \in Seen,
             Goes(place, facts), Current4
      PROVE  SummaryInv'
  <2>1. SummaryTypeOK'
    BY <1>1, <1>4 DEF SummaryTypeOK
  <2>2. SeenIsCurrent'
    <3> SUFFICES ASSUME NEW p \in Readers, p # q
                 PROVE  SeenManifest(p)' /\ SeenProfile(p)' /\ SeenSnapshots(p)'
      BY <1>4 DEF SeenIsCurrent
    <3> QED
      BY <1>1, <1>3 DEF SeenIsCurrent, SeenManifest, SeenProfile, SeenSnapshots
  <2> QED
    BY <1>1, <2>1, <2>2 DEF StampsArePast, EntryIsCurrent
<1>5. CASE Finish(q)
  <2>1. Goes("none", NothingSeen) /\ NothingSeen \in Seen
    BY <1>5 DEF Finish, To, NothingSeen, Seen, Stamps, Torn
  <2>2. Current4
    BY <2>1 DEF SummaryTypeOK, SeenManifest, SeenProfile, SeenSnapshots, WithManifest, Profiled
  <2> QED
    BY <1>4, <2>1, <2>2
<1>6. CASE LoadManifest(q) /\ ~Finish(q)
  <2> DEFINE facts == [seen[q] EXCEPT !.manifest = manifest.content, !.then = Key]
  <2>1. Goes("loaded", facts)
    BY <1>6 DEF LoadManifest, To, SummaryTypeOK
  <2>2. Key \in Stamps /\ manifest.content \in Nat /\ seen[q] \in Seen
    BY <1>2 DEF SummaryTypeOK, Stamps, Key
  <2>3. facts \in Seen /\ facts.manifest = manifest.content /\ facts.then = Key
    BY <2>2 DEF Seen
  <2>4. facts.then[1] = manifest.stamp
    BY <2>3 DEF Key
  <2> HIDE DEF facts
  <2>5. Current4
    BY <1>1, <1>2, <2>1, <2>3, <2>4 DEF SummaryTypeOK, StampsArePast, SeenManifest, SeenProfile,
                                        SeenSnapshots, WithManifest, Profiled
  <2> QED
    BY <1>4, <2>1, <2>3, <2>5 DEF WithManifest
<1>7. CASE LoadProfile(q) /\ ~Finish(q)
  <2> DEFINE facts == [seen[q] EXCEPT !.profile = profile.content, !.then = <<seen[q].then[1], Key[2]>>]
  <2>1. Goes("profiled", facts) /\ profile # NoProfile /\ reading[q] = "loaded"
    BY <1>7 DEF LoadProfile, To, SummaryTypeOK
  <2>2. profile.stamp \in Nat \ {0} /\ profile.content \in Nat
    BY <2>1 DEF SummaryTypeOK
  <2>3. Key[2] = profile.stamp /\ <<seen[q].then[1], Key[2]>> \in Stamps
    BY <1>2, <2>2 DEF Key, Stamps
  <2>4. /\ facts \in Seen /\ facts.profile = profile.content /\ facts.manifest = seen[q].manifest
        /\ facts.then = <<seen[q].then[1], Key[2]>>
    BY <2>2, <2>3 DEF SummaryTypeOK, Seen
  <2> HIDE DEF facts
  <2>5. Current4
    <3>1. facts.then[1] = seen[q].then[1] /\ facts.then[2] = profile.stamp
      BY <2>3, <2>4
    <3>2. reading'[q] = "profiled" /\ seen'[q] = facts
      BY <2>1 DEF SummaryTypeOK
    <3>3. SeenManifest(q)' /\ SeenSnapshots(q)'
      BY <1>1, <2>1, <2>4, <3>1, <3>2 DEF SeenIsCurrent, SeenManifest, SeenSnapshots, WithManifest
    <3>4. SeenProfile(q)'
      BY <1>1, <2>2, <2>4, <3>1, <3>2 DEF StampsArePast, SeenProfile
    <3> QED
      BY <3>3, <3>4
  <2> QED
    BY <1>4, <2>1, <2>4, <2>5 DEF WithManifest, Profiled
<1>8. ASSUME NEW place \in Profiled, NEW from \in Profiled \ {"subject", "baseline"},
             reading[q] = from, place \notin {"baseline", "evaluated"}, NEW key \in Stamps,
             Goes(place, [seen[q] EXCEPT !.key = key])
      PROVE  SummaryInv'
  <2>1. [seen[q] EXCEPT !.key = key] \in Seen
    BY <1>8 DEF SummaryTypeOK, Seen
  <2>2. seen'[q].then = seen[q].then /\ seen'[q].manifest = seen[q].manifest /\ seen'[q].profile = seen[q].profile
    BY <1>8 DEF SummaryTypeOK, Seen
  <2>3. reading'[q] = place
    BY <1>8 DEF SummaryTypeOK
  <2>4. Current4
    BY <1>1, <1>8, <2>2, <2>3 DEF SeenIsCurrent, SeenManifest, SeenProfile, SeenSnapshots, WithManifest
  <2> QED
    BY <1>4, <1>8, <2>1, <2>4 DEF WithManifest
<1>9. CASE StatManifest(q) \/ StatProfile(q)
  <2>1. CASE StatManifest(q)
    <3>1. <<Key[1], 0>> \in Stamps
      BY <1>2 DEF Key, Stamps
    <3> QED
      BY <1>8, <2>1, <3>1 DEF StatManifest, To, Reads, Profiled
  <2>2. CASE StatProfile(q)
    <3>1. <<seen[q].key[1], Key[2]>> \in Stamps
      BY <1>2 DEF Key, Stamps
    <3> QED
      BY <1>8, <2>2, <3>1 DEF StatProfile, To, Reads, Profiled
  <2> QED
    BY <1>9, <2>1, <2>2
<1>10. CASE LookUp(q) /\ ~Finish(q)
  <2>1. reading[q] = "keyed" /\ reading' = [reading EXCEPT ![q] = "subject"] /\ seen' = seen
    BY <1>10 DEF LookUp, To
  <2>2. seen' = [seen EXCEPT ![q] = [seen[q] EXCEPT !.key = seen[q].key]]
    BY <2>1 DEF SummaryTypeOK, Seen
  <2> QED
    BY <1>2, <1>8, <2>1, <2>2 DEF Profiled, Stamps
<1>11. ASSUME NEW s \in SnapshotFiles, ReadSnapshot(q, s), ~Finish(q) PROVE SummaryInv'
  <2>1. CASE s = "subject"
    <3> DEFINE facts == [seen[q] EXCEPT !.subject = snapshots["subject"]]
    <3>1. /\ Goes("baseline", facts) /\ reading[q] = "subject" /\ facts \in Seen
          /\ facts.subject = snapshots["subject"]
          /\ facts.then = seen[q].then /\ facts.manifest = seen[q].manifest /\ facts.profile = seen[q].profile
      BY <1>11, <2>1 DEF ReadSnapshot, To, Reads, SummaryTypeOK, Seen, SnapshotFiles
    <3> HIDE DEF facts
    <3>2. Current4
      BY <1>1, <3>1 DEF SummaryTypeOK, SeenIsCurrent, SeenManifest, SeenProfile, SeenSnapshots,
                        WithManifest, Profiled
    <3> QED
      BY <1>4, <3>1, <3>2 DEF WithManifest, Profiled
  <2>2. CASE s = "baseline"
    <3> DEFINE facts == [seen[q] EXCEPT !.baseline = snapshots["baseline"]]
    <3>1. /\ Goes("evaluated", facts) /\ reading[q] = "baseline" /\ facts \in Seen
          /\ facts.baseline = snapshots["baseline"] /\ facts.subject = seen[q].subject
          /\ facts.then = seen[q].then /\ facts.manifest = seen[q].manifest /\ facts.profile = seen[q].profile
      BY <1>11, <2>2 DEF ReadSnapshot, To, Reads, SummaryTypeOK, Seen, SnapshotFiles
    <3> HIDE DEF facts
    <3>2. Current4
      BY <1>1, <3>1 DEF SummaryTypeOK, SeenIsCurrent, SeenManifest, SeenProfile, SeenSnapshots,
                        WithManifest, Profiled
    <3> QED
      BY <1>4, <3>1, <3>2 DEF WithManifest, Profiled
  <2> QED
    BY <2>1, <2>2 DEF SnapshotFiles
<1> QED
  BY <1>5, <1>6, <1>7, <1>9, <1>10, <1>11

\* A request begins, or ends with an entry of its own.
LEMMA EntryStep ==
  ASSUME SummaryInv, NEW q \in Readers, ListGroup(q) \/ Put(q)
  PROVE  SummaryInv'
<1> USE DEF SummaryInv, memberVars
<1>1. UNCHANGED <<manifest, snapshots, profile, writes, writer>>
  BY DEF ListGroup, Put
<1>2. CASE ListGroup(q)
  <2>1. /\ UNCHANGED seen /\ reading[q] = "none"
        /\ verdicts' = NoEntry \/ verdicts' = verdicts
        /\ reading' = reading \/ reading' = [reading EXCEPT ![q] = "listed"]
    BY <1>2 DEF ListGroup, To
  <2>2. SummaryTypeOK' /\ StampsArePast' /\ EntryIsCurrent'
    BY <1>1, <2>1 DEF SummaryTypeOK, StampsArePast, EntryIsCurrent
  <2>3. SeenIsCurrent'
    <3> SUFFICES ASSUME NEW p \in Readers PROVE (SeenManifest(p) /\ SeenProfile(p) /\ SeenSnapshots(p))'
      BY DEF SeenIsCurrent
    <3>1. reading'[p] = reading[p] \/ reading'[p] = "listed"
      BY <2>1 DEF SummaryTypeOK
    <3> QED
      BY <1>1, <2>1, <3>1 DEF SeenIsCurrent, SeenManifest, SeenProfile, SeenSnapshots, WithManifest, Profiled
  <2> QED
    BY <2>2, <2>3
<1>3. CASE Put(q)
  <2> DEFINE its == [f \in {"manifest", "profile", "subject", "baseline"} |-> seen[q][f]]
  <2>1. /\ its \in Verdict
        /\ its.manifest = seen[q].manifest /\ its.profile = seen[q].profile
        /\ its.subject = seen[q].subject /\ its.baseline = seen[q].baseline
        /\ seen[q].key \in Stamps
    BY DEF Verdict, SummaryTypeOK, Seen
  <2>2. verdicts' = [key |-> seen[q].key, clean |-> seen[q].then = seen[q].key, verdict |-> its]
    BY <1>3 DEF Put
  <2> HIDE DEF its
  <2>3. reading[q] = "evaluated" /\ reading' = [reading EXCEPT ![q] = "none"]
        /\ seen' = [seen EXCEPT ![q] = NothingSeen]
    BY <1>3 DEF Put, Finish, To
  <2>4. (seen[q].then = seen[q].key) \in BOOLEAN
    OBVIOUS
  <2>5. verdicts' \in [key : Stamps, clean : BOOLEAN, verdict : Verdict]
    BY <2>1, <2>2, <2>4
  <2>6. SummaryTypeOK' /\ StampsArePast'
    BY <1>1, <2>3, <2>5 DEF SummaryTypeOK, StampsArePast, NothingSeen, Seen, Stamps, Torn
  <2>7. EntryIsCurrent'
    <3> SUFFICES ASSUME seen[q].then = seen[q].key PROVE EntryIsCurrent'
      BY <2>2 DEF EntryIsCurrent
    <3>1. SeenManifest(q) /\ SeenProfile(q) /\ SeenSnapshots(q)
      BY DEF SeenIsCurrent
    <3> QED
      BY <1>1, <2>1, <2>2, <2>3, <3>1 DEF EntryIsCurrent, SeenManifest, SeenProfile, SeenSnapshots,
                                          WithManifest, Profiled
  <2>8. SeenIsCurrent'
    BY <1>1, <2>3 DEF SummaryTypeOK, SeenIsCurrent, SeenManifest, SeenProfile, SeenSnapshots,
                      WithManifest, Profiled
  <2> QED
    BY <2>6, <2>7, <2>8
<1> QED
  BY <1>2, <1>3

LEMMA SummaryStep == SummaryInv /\ [SummaryNext]_summaryVars => SummaryInv'
<1> SUFFICES ASSUME SummaryInv, [SummaryNext]_summaryVars PROVE SummaryInv'
  OBVIOUS
<1>1. ASSUME NEW q \in Readers, Summarise(q) PROVE SummaryInv'
  BY <1>1, ReadStep, EntryStep DEF Summarise
<1>2. CASE UNCHANGED summaryVars
  BY <1>2 DEF summaryVars, SummaryInv, SummaryTypeOK, StampsArePast, SeenIsCurrent, SeenManifest,
              SeenProfile, SeenSnapshots, EntryIsCurrent
<1> QED
  BY <1>1, <1>2, WriterStep DEF SummaryNext

\* A clean verdict of the summary is never served from the cache when a fresh evaluation
\* would give another one, for every number of requests at once and of writes
\* (gui/groups.py, _member_row).
THEOREM CacheServesCurrent == SummarySpec => []CachedVerdictIsCurrent
<1>1. SummaryInv => CachedVerdictIsCurrent
  <2> SUFFICES ASSUME SummaryInv, writer = "none", verdicts.key = Key, verdicts.clean
               PROVE  verdicts.verdict = Current
    BY DEF CachedVerdictIsCurrent
  <2>1. verdicts # NoEntry
    <3>1. manifest.stamp # 0
      BY DEF SummaryInv, SummaryTypeOK
    <3> QED
      BY <3>1 DEF Key, NoEntry
  <2>2. verdicts.verdict \in Verdict
    BY <2>1 DEF SummaryInv, SummaryTypeOK
  <2> QED
    BY <2>1, <2>2 DEF SummaryInv, EntryIsCurrent, Current, Key, Verdict
<1> QED
  BY <1>1, SummaryInvInit, SummaryStep, PTL DEF SummarySpec

-----------------------------------------------------------------------------
(* The accounts. *)

HashType == [number : Nat, of : Nat]
AccountType == [hash : HashType, role : Roles \cup {"none"}]
AccountsType == [Users -> AccountType]
SessionType == [user : Users \cup {Nobody}, hash : HashType]
LocalType == [user : Users \cup {Nobody}, hash : HashType, token : Logins \cup {Nobody}, key : Nat,
              loaded : AccountsType, account : AccountType]
Getting == {"stat", "cached", "load", "store", "got"}
Places == Getting \cup {"none", "served", "outdated", "hashing", "accepted"}

AccountsTypeOK ==
    /\ file \in [version : Nat, accounts : AccountsType]
    /\ cached \in [version : Nat, accounts : AccountsType]
    /\ hashes \in Nat
    /\ session \in [Logins -> SessionType]
    /\ \A l \in Logins : session[l] # NoSession => session[l].user \in Users
    /\ cli \in [busy : BOOLEAN, accounts : AccountsType]
    /\ doing \in [Clients -> Places]
    /\ local \in [Clients -> LocalType]
    /\ during \in [Clients -> SUBSET AccountType]
    /\ alone \subseteq Logins

\* An entry of today's stat is today's accounts.
CacheAgrees ==
    /\ cached.version <= file.version
    /\ cached.version = file.version => cached.accounts = file.accounts

\* What t works with, its user has had since t began.
WorksWithDuring(t) ==
    LET its == local[t]
        Had(accounts) == accounts[its.user] \in during[t]
    IN  /\ doing[t] # "none" => its.user \in Users /\ Had(file.accounts)
        /\ doing[t] \in {"cached", "load", "store"} => its.key <= file.version
        /\ doing[t] = "cached" /\ cached.version = its.key => Had(cached.accounts)
        /\ doing[t] = "store" => Had(its.loaded) /\ (its.key = file.version => its.loaded = file.accounts)
        /\ doing[t] \in {"got", "served"} => its.account \in during[t]
        /\ doing[t] = "served" => its.account.hash = its.hash

\* And so has it what another thread may put into the cache before t looks there.
MayFindDuring(t, s) ==
    doing[t] = "cached" /\ doing[s] = "store" /\ local[s].key = local[t].key =>
        local[s].loaded[local[t].user] \in during[t]

ServeInv ==
    /\ AccountsTypeOK
    /\ CacheAgrees
    /\ \A t \in Clients : WorksWithDuring(t)
    /\ \A t, s \in Clients : MayFindDuring(t, s)

LEMMA ServeInvInit == AccountsInit => ServeInv
<1> SUFFICES ASSUME AccountsInit PROVE ServeInv
  OBVIOUS
<1>1. OldHash \in HashType /\ NoHash \in HashType
  BY DEF OldHash, NoHash, HashType
<1>2. NoAccounts \in AccountsType /\ NoAccount \in AccountType
  BY <1>1 DEF NoAccounts, NoAccount, AccountsType, AccountType
<1>3. [hash |-> OldHash, role |-> "operator"] \in AccountType
  BY <1>1 DEF AccountType, Roles
<1>4. NothingYet \in LocalType /\ NoSession \in SessionType
  BY <1>1, <1>2 DEF NothingYet, NoSession, LocalType, SessionType
<1>5. AccountsTypeOK
  BY <1>2, <1>3, <1>4 DEF AccountsInit, AccountsTypeOK, AccountsType, NoCommand, Places
<1>6. CacheAgrees /\ \A t, s \in Clients : WorksWithDuring(t) /\ MayFindDuring(t, s)
  BY DEF AccountsInit, CacheAgrees, WorksWithDuring, MayFindDuring
<1> QED
  BY <1>5, <1>6 DEF ServeInv

\* A step of one thread that neither changes the file nor the cache.
LEMMA OneThread ==
  ASSUME ServeInv, NEW t \in Clients, UNCHANGED <<file, cached>>, AccountsTypeOK',
         \A s \in Clients \ {t} :
            /\ doing'[s] = doing[s] /\ during'[s] = during[s]
            /\ \A f \in {"user", "hash", "key", "loaded", "account"} : local'[s][f] = local[s][f],
         WorksWithDuring(t)', \A s \in Clients : MayFindDuring(t, s)' /\ MayFindDuring(s, t)'
  PROVE  ServeInv'
<1>1. ASSUME NEW s \in Clients PROVE WorksWithDuring(s)'
  <2>1. CASE s = t
    BY <2>1
  <2>2. CASE s # t
    <3>1. /\ local'[s].user = local[s].user /\ local'[s].hash = local[s].hash
          /\ local'[s].key = local[s].key /\ local'[s].loaded = local[s].loaded
          /\ local'[s].account = local[s].account
      BY <2>2
    <3> QED
      BY <2>2, <3>1 DEF ServeInv, WorksWithDuring
  <2> QED
    BY <2>1, <2>2
<1>2. ASSUME NEW s \in Clients, NEW r \in Clients PROVE MayFindDuring(s, r)'
  <2>1. CASE s = t \/ r = t
    BY <2>1
  <2>2. CASE s # t /\ r # t
    <3>1. /\ local'[s].user = local[s].user /\ local'[s].key = local[s].key
          /\ local'[r].key = local[r].key /\ local'[r].loaded = local[r].loaded
      BY <2>2
    <3> QED
      BY <2>2, <3>1 DEF ServeInv, MayFindDuring
  <2> QED
    BY <2>1, <2>2
<1> QED
  BY <1>1, <1>2 DEF ServeInv, CacheAgrees

\* The same when it only goes somewhere else with facts of its own.
Moves(t, place, facts, had) ==
    /\ place \in Places /\ facts \in LocalType /\ had \in SUBSET AccountType
    /\ doing' = [doing EXCEPT ![t] = place]
    /\ local' = [local EXCEPT ![t] = facts]
    /\ during' = [during EXCEPT ![t] = had]

LEMMA OneMove ==
  ASSUME ServeInv, NEW t \in Clients, NEW place, NEW facts, NEW had, Moves(t, place, facts, had),
         UNCHANGED <<file, hashes, cli>>
  PROVE  /\ doing' \in [Clients -> Places] /\ local' \in [Clients -> LocalType]
         /\ during' \in [Clients -> SUBSET AccountType]
         /\ doing'[t] = place /\ local'[t] = facts /\ during'[t] = had
         /\ \A s \in Clients \ {t} :
              doing'[s] = doing[s] /\ during'[s] = during[s] /\ local'[s] = local[s]
  BY DEF ServeInv, AccountsTypeOK, Moves

\* UserStore.get.
LEMMA GetStep ==
  ASSUME ServeInv, NEW t \in Clients, Get(t)
  PROVE  ServeInv'
<1> USE DEF FileUnchanged, Go, Has
<1>1. /\ local[t] \in LocalType /\ during[t] \in SUBSET AccountType /\ during = [during EXCEPT ![t] = during[t]]
      /\ file.version \in Nat /\ file.accounts \in AccountsType /\ cached.accounts \in AccountsType
      /\ cached.version \in Nat
      /\ WorksWithDuring(t) /\ CacheAgrees
  BY DEF ServeInv, AccountsTypeOK
<1>2. CASE Stat(t)
  <2> DEFINE facts == [local[t] EXCEPT !.key = file.version]
  <2>1. /\ facts \in LocalType /\ facts.key = file.version /\ facts.user = local[t].user
    BY <1>1 DEF LocalType
  <2>2. /\ UNCHANGED <<file, hashes, session, cli, alone, cached>> /\ doing[t] = "stat"
        /\ Moves(t, "cached", facts, during[t])
    BY <1>1, <1>2, <2>1 DEF Stat, Moves, Places, Getting
  <2> HIDE DEF facts
  <2>3. AccountsTypeOK'
    BY <2>2, OneMove DEF ServeInv, AccountsTypeOK
  <2>4. WorksWithDuring(t)'
    BY <1>1, <2>1, <2>2, OneMove DEF WorksWithDuring, CacheAgrees
  <2>5. ASSUME NEW s \in Clients PROVE MayFindDuring(t, s)' /\ MayFindDuring(s, t)'
    <3>1. WorksWithDuring(s)
      BY DEF ServeInv
    <3> QED
      BY <1>1, <2>1, <2>2, <3>1, OneMove DEF WorksWithDuring, MayFindDuring
  <2> QED
    BY <2>2, <2>3, <2>4, <2>5, OneMove, OneThread
<1>3. CASE LookInCache(t)
  <2>1. CASE cached.version = local[t].key
    <3> DEFINE facts == [local[t] EXCEPT !.account = cached.accounts[local[t].user]]
    <3>1. doing[t] = "cached" /\ local[t].user \in Users /\ cached.accounts[local[t].user] \in during[t]
      BY <1>1, <1>3, <2>1 DEF LookInCache, WorksWithDuring
    <3>2. /\ facts \in LocalType /\ facts.user = local[t].user /\ facts.account \in during[t]
      BY <1>1, <3>1 DEF LocalType, AccountsType
    <3>3. /\ UNCHANGED <<file, hashes, session, cli, alone, cached>>
          /\ Moves(t, "got", facts, during[t])
      BY <1>1, <1>3, <2>1, <3>2 DEF LookInCache, Moves, Places, Getting
    <3> HIDE DEF facts
    <3>4. AccountsTypeOK'
      BY <3>3, OneMove DEF ServeInv, AccountsTypeOK
    <3>5. WorksWithDuring(t)' /\ \A s \in Clients : MayFindDuring(t, s)' /\ MayFindDuring(s, t)'
      BY <1>1, <3>1, <3>2, <3>3, OneMove DEF WorksWithDuring, MayFindDuring
    <3> QED
      BY <3>3, <3>4, <3>5, OneMove, OneThread
  <2>2. CASE cached.version # local[t].key
    <3>1. /\ UNCHANGED <<file, hashes, session, cli, alone, cached>> /\ doing[t] = "cached"
          /\ Moves(t, "load", local[t], during[t])
      BY <1>1, <1>3, <2>2 DEF LookInCache, Moves, Places, Getting, ServeInv, AccountsTypeOK
    <3>2. AccountsTypeOK'
      BY <3>1, OneMove DEF ServeInv, AccountsTypeOK
    <3>3. WorksWithDuring(t)' /\ \A s \in Clients : MayFindDuring(t, s)' /\ MayFindDuring(s, t)'
      BY <1>1, <3>1, OneMove DEF WorksWithDuring, MayFindDuring
    <3> QED
      BY <3>1, <3>2, <3>3, OneMove, OneThread
  <2> QED
    BY <2>1, <2>2
<1>4. CASE Load(t)
  <2> DEFINE facts == [local[t] EXCEPT !.loaded = file.accounts]
  <2>1. /\ facts \in LocalType /\ facts.loaded = file.accounts
        /\ facts.user = local[t].user /\ facts.key = local[t].key
    BY <1>1 DEF LocalType
  <2>2. /\ UNCHANGED <<file, hashes, session, cli, alone, cached>> /\ doing[t] = "load"
        /\ Moves(t, "store", facts, during[t])
    BY <1>1, <1>4, <2>1 DEF Load, Moves, Places, Getting
  <2> HIDE DEF facts
  <2>3. AccountsTypeOK'
    BY <2>2, OneMove DEF ServeInv, AccountsTypeOK
  <2>4. WorksWithDuring(t)'
    BY <1>1, <2>1, <2>2, OneMove DEF WorksWithDuring
  <2>5. ASSUME NEW s \in Clients PROVE MayFindDuring(t, s)' /\ MayFindDuring(s, t)'
    <3>1. WorksWithDuring(s)
      BY DEF ServeInv
    <3> QED
      BY <1>1, <2>1, <2>2, <3>1, OneMove DEF WorksWithDuring, MayFindDuring
  <2> QED
    BY <2>2, <2>3, <2>4, <2>5, OneMove, OneThread
<1>5. CASE StoreInCache(t)
  <2> DEFINE facts == [local[t] EXCEPT !.account = local[t].loaded[local[t].user]]
  <2>1. doing[t] = "store" /\ local[t].user \in Users /\ local[t].loaded[local[t].user] \in during[t]
    BY <1>1, <1>5 DEF StoreInCache, WorksWithDuring
  <2>2. /\ facts \in LocalType /\ facts.user = local[t].user /\ facts.account \in during[t]
    BY <1>1, <2>1 DEF LocalType, AccountsType
  <2>3. /\ UNCHANGED <<file, hashes, session, cli, alone>>
        /\ Moves(t, "got", facts, during[t])
    BY <1>1, <1>5, <2>2 DEF StoreInCache, Moves, Places, Getting
  <2>4. cached' = [version |-> local[t].key, accounts |-> local[t].loaded]
    BY <1>5 DEF StoreInCache
  <2> HIDE DEF facts
  <2>5. AccountsTypeOK'
    BY <1>1, <2>3, <2>4, OneMove DEF ServeInv, AccountsTypeOK, LocalType
  <2>6. CacheAgrees'
    BY <1>1, <2>1, <2>3, <2>4 DEF WorksWithDuring, CacheAgrees
  <2>7. ASSUME NEW s \in Clients PROVE WorksWithDuring(s)'
    <3>1. CASE s = t
      BY <1>1, <2>1, <2>2, <2>3, <3>1, OneMove DEF WorksWithDuring
    <3>2. CASE s # t
      <4>1. WorksWithDuring(s) /\ MayFindDuring(s, t)
        BY DEF ServeInv
      <4> QED
        BY <2>1, <2>3, <2>4, <3>2, <4>1, OneMove DEF WorksWithDuring, MayFindDuring
    <3> QED
      BY <3>1, <3>2
  <2>8. ASSUME NEW s \in Clients, NEW r \in Clients PROVE MayFindDuring(s, r)'
    BY <2>3, OneMove DEF ServeInv, MayFindDuring
  <2> QED
    BY <2>5, <2>6, <2>7, <2>8 DEF ServeInv
<1> QED
  BY <1>2, <1>3, <1>4, <1>5 DEF Get

LEMMA NothingTypes ==
  /\ OldHash \in HashType /\ NoHash \in HashType
  /\ NoAccount \in AccountType /\ NoAccounts \in AccountsType
  /\ NothingYet \in LocalType /\ NoSession \in SessionType
<1>1. OldHash \in HashType /\ NoHash \in HashType
  BY DEF OldHash, NoHash, HashType
<1>2. NoAccounts \in AccountsType /\ NoAccount \in AccountType
  BY <1>1 DEF NoAccounts, NoAccount, AccountsType, AccountType
<1> QED
  BY <1>1, <1>2 DEF NothingYet, NoSession, LocalType, SessionType

\* A thread goes where nothing is read from the cache or the file.
LEMMA QuietMove ==
  ASSUME ServeInv, NEW t \in Clients, NEW place, NEW facts, NEW had, Moves(t, place, facts, had),
         place \notin {"cached", "load", "store", "got", "served"},
         place # "none" => facts.user \in Users /\ file.accounts[facts.user] \in had,
         UNCHANGED <<file, cached, cli>>,
         session' \in [Logins -> SessionType], hashes' \in Nat, alone' \subseteq Logins,
         \A l \in Logins : session'[l] # NoSession => session'[l].user \in Users
  PROVE  ServeInv'
<1>1. /\ doing' \in [Clients -> Places] /\ local' \in [Clients -> LocalType]
      /\ during' \in [Clients -> SUBSET AccountType]
      /\ doing'[t] = place /\ local'[t] = facts /\ during'[t] = had
      /\ \A s \in Clients \ {t} :
           doing'[s] = doing[s] /\ during'[s] = during[s] /\ local'[s] = local[s]
  BY DEF ServeInv, AccountsTypeOK, Moves
<1>2. AccountsTypeOK'
  BY <1>1 DEF ServeInv, AccountsTypeOK
<1>3. WorksWithDuring(t)' /\ \A s \in Clients : MayFindDuring(t, s)' /\ MayFindDuring(s, t)'
  BY <1>1 DEF WorksWithDuring, MayFindDuring
<1> QED
  BY <1>1, <1>2, <1>3, OneThread

\* A login, except for the saving.
LEMMA LoginServes ==
  ASSUME ServeInv, NEW l \in Logins,
         \/ \E u \in Users : BeginLogin(l, u)
         \/ RefuseLogin(l) \/ AcceptLogin(l) \/ LoadForRehash(l) \/ RehashFails(l) \/ OpenSession(l)
  PROVE  ServeInv'
<1> USE DEF FileUnchanged, Go, Has
<1>1. /\ l \in Clients /\ local[l] \in LocalType /\ during[l] \in SUBSET AccountType
      /\ during = [during EXCEPT ![l] = during[l]] /\ local = [local EXCEPT ![l] = local[l]]
      /\ file.accounts \in AccountsType
      /\ session \in [Logins -> SessionType] /\ hashes \in Nat /\ alone \subseteq Logins
      /\ \A k \in Logins : session[k] # NoSession => session[k].user \in Users
      /\ WorksWithDuring(l)
  BY DEF ServeInv, AccountsTypeOK, Clients
<1>2. ASSUME NEW u \in Users, BeginLogin(l, u) PROVE ServeInv'
  <2>1. PICK hash \in {file.accounts[u].hash, NoHash} : Begin(l, [NothingYet EXCEPT !.user = u, !.hash = hash])
    BY <1>2 DEF BeginLogin
  <2> DEFINE facts == [NothingYet EXCEPT !.user = u, !.hash = hash]
  <2>2. file.accounts[u] \in AccountType /\ file.accounts[u].hash \in HashType
    BY <1>1 DEF AccountsType, AccountType
  <2>3. facts \in LocalType /\ facts.user = u
    BY <2>2, NothingTypes DEF LocalType
  <2>4. Moves(l, "stat", facts, {file.accounts[u]})
    BY <2>1, <2>2, <2>3, NothingTypes DEF Begin, Moves, Places, Getting, NothingYet
  <2> HIDE DEF facts
  <2>5. UNCHANGED <<file, cached, cli, session, hashes>> /\ alone' \subseteq Logins
    BY <1>1, <1>2 DEF BeginLogin
  <2> QED
    BY <1>1, <2>3, <2>4, <2>5, QuietMove
<1>3. CASE RefuseLogin(l) \/ OpenSession(l)
  <2>1. Moves(l, "none", NothingYet, {})
    BY <1>3, NothingTypes DEF RefuseLogin, OpenSession, Leave, Moves, Places
  <2>2. /\ session' \in [Logins -> SessionType]
        /\ \A k \in Logins : session'[k] # NoSession => session'[k].user \in Users
    <3>1. CASE RefuseLogin(l)
      BY <1>1, <3>1 DEF RefuseLogin
    <3>2. CASE OpenSession(l)
      <4>1. /\ local[l].user \in Users /\ local[l].hash \in HashType
            /\ session' = [session EXCEPT ![l] = [user |-> local[l].user, hash |-> local[l].hash]]
        BY <1>1, <3>2 DEF OpenSession, WorksWithDuring, LocalType
      <4> QED
        BY <1>1, <4>1 DEF SessionType
    <3> QED
      BY <1>3, <3>1, <3>2
  <2>3. UNCHANGED <<file, cached, cli, hashes, alone>>
    BY <1>3 DEF RefuseLogin, OpenSession
  <2> QED
    BY <1>1, <2>1, <2>2, <2>3, QuietMove
<1>4. CASE AcceptLogin(l) \/ LoadForRehash(l) \/ RehashFails(l)
  <2>1. UNCHANGED <<file, cached, cli, session, hashes, during, alone>> /\ doing[l] \in {"got", "outdated", "hashing"}
    BY <1>4 DEF AcceptLogin, LoadForRehash, RehashFails
  <2>2. \E place \in {"outdated", "hashing", "accepted"}, facts \in LocalType :
          facts.user = local[l].user /\ Moves(l, place, facts, during[l])
    <3>1. CASE AcceptLogin(l)
      <4> DEFINE facts == [local[l] EXCEPT !.hash = local[l].account.hash]
      <4>1. facts \in LocalType /\ facts.user = local[l].user
        BY <1>1 DEF LocalType, AccountType
      <4>2. PICK place \in {"outdated", "accepted"} : Moves(l, place, facts, during[l])
        BY <1>1, <2>1, <3>1, <4>1 DEF AcceptLogin, Moves, Places
      <4> QED
        BY <4>1, <4>2
    <3>2. CASE LoadForRehash(l) /\ UNCHANGED local
      BY <1>1, <2>1, <3>2 DEF LoadForRehash, Moves, Places
    <3>3. CASE LoadForRehash(l) /\ local' # local
      <4> DEFINE facts == [local[l] EXCEPT !.loaded = file.accounts]
      <4>1. facts \in LocalType /\ facts.user = local[l].user
        BY <1>1 DEF LocalType
      <4>2. Moves(l, "hashing", facts, during[l])
        BY <1>1, <2>1, <3>3, <4>1 DEF LoadForRehash, Moves, Places
      <4> QED
        BY <4>1, <4>2
    <3>4. CASE RehashFails(l)
      BY <1>1, <2>1, <3>4 DEF RehashFails, Moves, Places
    <3> QED
      BY <1>4, <3>1, <3>2, <3>3, <3>4
  <2> QED
    BY <1>1, <2>1, <2>2, QuietMove DEF WorksWithDuring
<1> QED
  BY <1>2, <1>3, <1>4

\* A request, from its session to its answer.
LEMMA RequestServes ==
  ASSUME ServeInv, NEW q \in Requests,
         (\E l \in Logins : BeginRequest(q, l)) \/ Serve(q) \/ Answer(q)
  PROVE  ServeInv'
<1> USE DEF FileUnchanged, Go, Has
<1>1. /\ q \in Clients /\ local[q] \in LocalType /\ during[q] \in SUBSET AccountType
      /\ during = [during EXCEPT ![q] = during[q]] /\ local = [local EXCEPT ![q] = local[q]]
      /\ file.accounts \in AccountsType
      /\ session \in [Logins -> SessionType] /\ hashes \in Nat /\ alone \subseteq Logins
      /\ \A k \in Logins : session[k] # NoSession => session[k].user \in Users
      /\ WorksWithDuring(q)
  BY DEF ServeInv, AccountsTypeOK, Clients
<1>2. ASSUME NEW l \in Logins, BeginRequest(q, l) PROVE ServeInv'
  <2> DEFINE facts == [NothingYet EXCEPT !.user = session[l].user, !.hash = session[l].hash, !.token = l]
  <2>1. session[l].user \in Users /\ session[l].hash \in HashType
    BY <1>1, <1>2 DEF BeginRequest, SessionType
  <2>2. facts \in LocalType /\ facts.user = session[l].user
    BY <2>1, NothingTypes DEF LocalType
  <2>3. file.accounts[session[l].user] \in AccountType
    BY <1>1, <2>1 DEF AccountsType
  <2>4. Begin(q, facts)
    BY <1>2 DEF BeginRequest
  <2> HIDE DEF facts
  <2>5. Moves(q, "stat", facts, {file.accounts[session[l].user]})
    BY <2>2, <2>3, <2>4 DEF Begin, Moves, Places, Getting
  <2>6. UNCHANGED <<file, cached, cli, session, hashes, alone>>
    BY <1>2 DEF BeginRequest
  <2> QED
    BY <1>1, <2>1, <2>2, <2>5, <2>6, QuietMove
<1>3. CASE Answer(q)
  <2>1. Moves(q, "none", NothingYet, {}) /\ UNCHANGED <<file, cached, cli, session, hashes, alone>>
    BY <1>3, NothingTypes DEF Answer, Leave, Moves, Places
  <2> QED
    BY <1>1, <2>1, QuietMove
<1>4. CASE Serve(q)
  <2>1. /\ UNCHANGED <<file, cached, hashes, session, cli, alone>> /\ doing[q] = "got"
        /\ local[q].account.hash = local[q].hash
        /\ Moves(q, "served", local[q], during[q])
    BY <1>1, <1>4 DEF Serve, Moves, Places
  <2>2. AccountsTypeOK'
    BY <2>1, <1>1, OneMove DEF ServeInv, AccountsTypeOK
  <2>3. WorksWithDuring(q)' /\ \A s \in Clients : MayFindDuring(q, s)' /\ MayFindDuring(s, q)'
    BY <1>1, <2>1, OneMove DEF WorksWithDuring, MayFindDuring
  <2> QED
    BY <1>1, <2>1, <2>2, <2>3, OneMove, OneThread
<1> QED
  BY <1>2, <1>3, <1>4

\* A session ends; the requests and logins forget no more than its token.
LEMMA ForgetsToken ==
  ASSUME AccountsTypeOK, NEW l
  PROVE  /\ Without(l) \in [Clients -> LocalType]
         /\ \A t \in Clients : /\ Without(l)[t].user = local[t].user /\ Without(l)[t].hash = local[t].hash
                               /\ Without(l)[t].key = local[t].key /\ Without(l)[t].loaded = local[t].loaded
                               /\ Without(l)[t].account = local[t].account
<1> SUFFICES ASSUME NEW t \in Clients
             PROVE  /\ Without(l)[t] \in LocalType
                    /\ Without(l)[t].user = local[t].user /\ Without(l)[t].hash = local[t].hash
                    /\ Without(l)[t].key = local[t].key /\ Without(l)[t].loaded = local[t].loaded
                    /\ Without(l)[t].account = local[t].account
  BY DEF Without
<1>1. local[t] \in LocalType
  BY DEF AccountsTypeOK
<1> QED
  BY <1>1 DEF Without, LocalType

LEMMA EndServes ==
  ASSUME ServeInv, (\E l \in Logins : EndSession(l)) \/ (\E q \in Requests : TurnAway(q))
  PROVE  ServeInv'
<1>1. ASSUME NEW l \in Logins, EndSession(l) PROVE ServeInv'
  <2>1. /\ UNCHANGED <<file, cached, hashes, cli, doing, during, alone>> /\ local' = Without(l)
        /\ session' = [session EXCEPT ![l] = NoSession]
    BY <1>1 DEF EndSession
  <2>2. AccountsTypeOK'
    BY <2>1, ForgetsToken, NothingTypes DEF ServeInv, AccountsTypeOK
  <2>3. ASSUME NEW t \in Clients PROVE WorksWithDuring(t)'
    BY <2>1, ForgetsToken DEF ServeInv, WorksWithDuring
  <2>4. ASSUME NEW t \in Clients, NEW s \in Clients PROVE MayFindDuring(t, s)'
    BY <2>1, ForgetsToken DEF ServeInv, MayFindDuring
  <2> QED
    BY <2>1, <2>2, <2>3, <2>4 DEF ServeInv, CacheAgrees
<1>2. ASSUME NEW q \in Requests, TurnAway(q) PROVE ServeInv'
  <2>1. /\ UNCHANGED <<file, cached, hashes, cli, alone>> /\ q \in Clients
        /\ session' = [l \in Logins |-> IF l = local[q].token THEN NoSession ELSE session[l]]
        /\ local' = [Without(local[q].token) EXCEPT ![q] = NothingYet]
        /\ during' = [during EXCEPT ![q] = {}] /\ doing' = [doing EXCEPT ![q] = "none"]
    BY <1>2 DEF TurnAway, Go, Clients
  <2>2. Without(local[q].token) \in [Clients -> LocalType]
    BY ForgetsToken DEF ServeInv
  <2>3. /\ session' \in [Logins -> SessionType]
        /\ \A l \in Logins : session'[l] # NoSession => session'[l].user \in Users
    BY <2>1, NothingTypes DEF ServeInv, AccountsTypeOK
  <2>4. local' \in [Clients -> LocalType] /\ doing'[q] = "none"
        /\ \A s \in Clients \ {q} :
              doing'[s] = doing[s] /\ during'[s] = during[s] /\ local'[s] = Without(local[q].token)[s]
    BY <2>1, <2>2, NothingTypes DEF ServeInv, AccountsTypeOK
  <2>5. AccountsTypeOK'
    BY <2>1, <2>3, <2>4, NothingTypes DEF ServeInv, AccountsTypeOK, Places
  <2>6. WorksWithDuring(q)' /\ \A s \in Clients : MayFindDuring(q, s)' /\ MayFindDuring(s, q)'
    BY <2>4 DEF WorksWithDuring, MayFindDuring
  <2>7. \A s \in Clients \ {q} :
            /\ doing'[s] = doing[s] /\ during'[s] = during[s]
            /\ \A f \in {"user", "hash", "key", "loaded", "account"} : local'[s][f] = local[s][f]
    BY <2>4, ForgetsToken DEF ServeInv
  <2> QED
    BY <2>1, <2>5, <2>6, <2>7, OneThread
<1> QED
  BY <1>1, <1>2

\* The file is saved: by a command, or by a login that goes on.
LEMMA SaveServes ==
  ASSUME ServeInv, NEW accounts \in AccountsType, NEW by, Saved(accounts, by),
         cached' = cached, session' = session, hashes' \in Nat, cli' \in [busy : BOOLEAN, accounts : AccountsType],
         \/ UNCHANGED <<doing, local>>
         \/ \E l \in Logins, facts \in LocalType :
              /\ doing[l] = "hashing" /\ facts.user = local[l].user
              /\ doing' = [doing EXCEPT ![l] = "accepted"] /\ local' = [local EXCEPT ![l] = facts]
  PROVE  ServeInv'
<1>1. /\ file'.version = file.version + 1 /\ file'.accounts = accounts
      /\ file.version \in Nat /\ cached.version \in Nat
      /\ file' \in [version : Nat, accounts : AccountsType]
      /\ alone' \subseteq Logins
  BY DEF Saved, ServeInv, AccountsTypeOK
<1>2. /\ doing' \in [Clients -> Places] /\ local' \in [Clients -> LocalType]
      /\ \A t \in Clients : local'[t].user = local[t].user
      /\ \A t \in Clients : \/ doing'[t] = doing[t] /\ local'[t] = local[t]
                            \/ doing[t] = "hashing" /\ doing'[t] = "accepted"
  BY DEF ServeInv, AccountsTypeOK, Clients, Places
<1>3. \A t \in Clients : doing[t] # "none" => local[t].user \in Users
  BY DEF ServeInv, WorksWithDuring
<1>4. \A t \in Clients :
        during'[t] = IF doing[t] = "none" THEN {} ELSE during[t] \cup {accounts[local[t].user]}
  BY DEF Saved
<1>5. during' \in [Clients -> SUBSET AccountType]
  <2>1. ASSUME NEW t \in Clients PROVE during'[t] \in SUBSET AccountType
    <3>1. during[t] \in SUBSET AccountType
      BY DEF ServeInv, AccountsTypeOK
    <3>2. doing[t] # "none" => accounts[local[t].user] \in AccountType
      BY <1>3 DEF AccountsType
    <3> QED
      BY <1>4, <3>1, <3>2
  <2> QED
    BY <2>1 DEF Saved
<1>6. AccountsTypeOK'
  BY <1>1, <1>2, <1>5 DEF ServeInv, AccountsTypeOK
<1>7. CacheAgrees'
  BY <1>1 DEF ServeInv, CacheAgrees
<1>8. ASSUME NEW t \in Clients PROVE WorksWithDuring(t)'
  <2>1. WorksWithDuring(t) /\ local[t].key \in Nat
    BY DEF ServeInv, AccountsTypeOK, LocalType
  <2> QED
    <3>1. CASE doing[t] = "none"
      BY <1>2, <3>1 DEF WorksWithDuring
    <3>2. CASE doing[t] = "hashing" /\ doing'[t] = "accepted"
      BY <1>1, <1>2, <1>4, <2>1, <3>2 DEF WorksWithDuring
    <3>3. CASE doing[t] # "none" /\ doing'[t] = doing[t] /\ local'[t] = local[t]
      <4>1. during'[t] = during[t] \cup {accounts[local[t].user]}
        BY <1>4, <3>3
      <4> QED
        BY <1>1, <2>1, <3>3, <4>1 DEF WorksWithDuring
    <3> QED
      BY <1>2, <3>1, <3>2, <3>3
<1>9. ASSUME NEW t \in Clients, NEW s \in Clients PROVE MayFindDuring(t, s)'
  <2> SUFFICES ASSUME doing'[t] = "cached", doing'[s] = "store", local'[s].key = local'[t].key
               PROVE  local'[s].loaded[local'[t].user] \in during'[t]
    BY DEF MayFindDuring
  <2>1. local'[t] = local[t] /\ doing[t] = "cached" /\ local'[s] = local[s] /\ doing[s] = "store"
    BY <1>2
  <2>2. local[s].loaded[local[t].user] \in during[t]
    BY <2>1 DEF ServeInv, MayFindDuring
  <2> QED
    BY <1>4, <2>1, <2>2
<1> QED
  BY <1>6, <1>7, <1>8, <1>9 DEF ServeInv

LEMMA ServeStep == ServeInv /\ [AccountsNext]_accountVars => ServeInv'
<1> SUFFICES ASSUME ServeInv, [AccountsNext]_accountVars PROVE ServeInv'
  OBVIOUS
<1>1. CASE SaveCommand
  <2>1. /\ cli.accounts \in AccountsType /\ Saved(cli.accounts, {})
        /\ cached' = cached /\ session' = session /\ hashes' \in Nat /\ UNCHANGED <<doing, local>>
        /\ cli' = NoCommand
    BY <1>1 DEF SaveCommand, ServeInv, AccountsTypeOK
  <2>2. NoCommand \in [busy : BOOLEAN, accounts : AccountsType]
    BY NothingTypes DEF NoCommand
  <2> QED
    BY <2>1, <2>2, SaveServes
<1>2. ASSUME NEW l \in Logins, SaveRehash(l) PROVE ServeInv'
  <2> DEFINE new == [number |-> hashes + 1, of |-> local[l].hash.of]
             accounts == [local[l].loaded EXCEPT ![local[l].user].hash = new]
             facts == [local[l] EXCEPT !.hash = new]
  <2>1. local[l] \in LocalType /\ hashes \in Nat
    BY DEF ServeInv, AccountsTypeOK, Clients
  <2>2. new \in HashType
    BY <2>1 DEF LocalType, HashType
  <2>3. doing[l] = "hashing" /\ Saved(accounts, {l}) /\ hashes' = hashes + 1
    BY <1>2 DEF SaveRehash
  <2>4. UNCHANGED <<cached, session, cli>> /\ doing' = [doing EXCEPT ![l] = "accepted"]
        /\ local' = [local EXCEPT ![l].hash = new]
    BY <1>2 DEF SaveRehash, Go, Has
  <2> HIDE DEF new
  <2>5. local' = [local EXCEPT ![l] = facts]
    BY <2>4
  <2>6. facts \in LocalType /\ facts.user = local[l].user
    BY <2>1, <2>2 DEF LocalType
  <2>7. accounts \in AccountsType
    <3>1. local[l].loaded \in AccountsType
      BY <2>1 DEF LocalType
    <3>2. \A u \in Users : [local[l].loaded[u] EXCEPT !.hash = new] \in AccountType
      BY <2>2, <3>1 DEF AccountsType, AccountType
    <3> QED
      BY <3>1, <3>2 DEF AccountsType
  <2> HIDE DEF facts, accounts
  <2>8. /\ cached' = cached /\ session' = session /\ hashes' \in Nat
        /\ cli' \in [busy : BOOLEAN, accounts : AccountsType]
    BY <2>1, <2>3, <2>4 DEF ServeInv, AccountsTypeOK
  <2> QED
    BY <2>3, <2>4, <2>5, <2>6, <2>7, <2>8, SaveServes
<1>3. ASSUME NEW u \in Users, Command(u) PROVE ServeInv'
  <2>1. UNCHANGED <<file, cached, session, doing, local, during, alone>>
    BY <1>3 DEF Command
  <2>2. hashes' \in Nat /\ cli' \in [busy : BOOLEAN, accounts : AccountsType]
    <3> DEFINE new == [number |-> hashes + 1, of |-> hashes + 1]
               Changed(account) == cli' = [busy |-> TRUE, accounts |-> [file.accounts EXCEPT ![u] = account]]
    <3>1. hashes \in Nat /\ file.accounts \in AccountsType /\ file.accounts[u] \in AccountType
      BY DEF ServeInv, AccountsTypeOK, AccountsType
    <3>2. new \in HashType
      BY <3>1 DEF HashType
    <3>3. ASSUME NEW account \in AccountType, Changed(account)
          PROVE  cli' \in [busy : BOOLEAN, accounts : AccountsType]
      BY <3>1, <3>3 DEF AccountsType
    <3>4. \E account \in AccountType : Changed(account)
      <4>1. CASE \E role \in Roles : Changed([hash |-> new, role |-> role])
        BY <3>2, <4>1 DEF AccountType
      <4>2. CASE Changed([file.accounts[u] EXCEPT !.hash = new])
        <5>1. [file.accounts[u] EXCEPT !.hash = new] \in AccountType
          BY <3>1, <3>2 DEF AccountType
        <5> QED
          BY <4>2, <5>1
      <4>3. CASE Changed(NoAccount)
        BY <4>3, NothingTypes
      <4>4. ASSUME NEW role \in Roles, Changed([file.accounts[u] EXCEPT !.role = role])
            PROVE  \E account \in AccountType : Changed(account)
        <5>1. [file.accounts[u] EXCEPT !.role = role] \in AccountType
          BY <3>1 DEF AccountType
        <5> QED
          BY <4>4, <5>1
      <4> QED
        BY <1>3, <4>1, <4>2, <4>3, <4>4 DEF Command
    <3>5. hashes' \in Nat
      BY <1>3, <3>1 DEF Command
    <3> QED
      BY <3>3, <3>4, <3>5
  <2> QED
    BY <2>1, <2>2 DEF ServeInv, AccountsTypeOK, CacheAgrees, WorksWithDuring, MayFindDuring
<1>4. CASE UNCHANGED accountVars
  BY <1>4 DEF accountVars, ServeInv, AccountsTypeOK, CacheAgrees, WorksWithDuring, MayFindDuring
<1> QED
  BY <1>1, <1>2, <1>3, <1>4, GetStep, LoginServes, RequestServes, EndServes DEF AccountsNext, Login, Request

\* A request is served as somebody who had that password and that role at a moment since it
\* arrived, for every number of requests, logins, commands and accounts (users.py
\* UserStore.get, authz.py session_actor_provider).
THEOREM RequestsServedAsOfThen == AccountsSpec => []ServedAsOfRequest
<1>1. ServeInv => ServedAsOfRequest
  <2> SUFFICES ASSUME ServeInv, NEW q \in Requests, doing[q] = "served"
               PROVE  [hash |-> local[q].hash, role |-> local[q].account.role] \in during[q]
    BY DEF ServedAsOfRequest
  <2>1. /\ local[q].account \in during[q] /\ local[q].account.hash = local[q].hash
        /\ local[q].account \in AccountType
    BY DEF ServeInv, WorksWithDuring, AccountsTypeOK, Clients, LocalType
  <2>2. local[q].account = [hash |-> local[q].hash, role |-> local[q].account.role]
    BY <2>1 DEF AccountType
  <2> QED
    BY <2>1, <2>2
<1> QED
  BY <1>1, ServeInvInit, ServeStep, PTL DEF AccountsSpec

-----------------------------------------------------------------------------
(* A login whose own renewal of the hash is all that was saved since it    *)
(* began works with what the file holds, and opens its session with it.    *)

AloneAgrees(l) ==
    LET its == local[l]
        now == file.accounts[its.user]
    IN  /\ doing[l] \in Getting \cup {"outdated", "hashing"} => during[l] = {now}
        /\ doing[l] = "outdated" => its.account \in during[l]
        /\ doing[l] \in {"outdated", "hashing"} => its.hash = its.account.hash
        /\ doing[l] = "hashing" => its.loaded = file.accounts /\ its.account = now
        /\ doing[l] = "accepted" => its.hash = now.hash

LoginInv ==
    /\ \A l \in Logins : doing[l] # "none" => session[l] = NoSession
    /\ \A l \in alone : AloneAgrees(l)
    /\ LoginIsUsable

LEMMA LoginInvInit == AccountsInit => LoginInv
  BY DEF AccountsInit, LoginInv, LoginIsUsable, Clients

\* A step that saves nothing: it disturbs one login at most.
LEMMA OneLogin ==
  ASSUME ServeInv, LoginInv, NEW l, file' = file, alone' \subseteq alone \cup {l},
         \A k \in Logins \ {l} :
            /\ doing'[k] = doing[k] \/ doing'[k] = "none"
            /\ during'[k] = during[k] \/ doing'[k] = "none"
            /\ \A f \in {"user", "hash", "loaded", "account"} : local'[k][f] = local[k][f] \/ doing'[k] = "none"
            /\ session'[k] = session[k] \/ session'[k] = NoSession,
         l \in Logins /\ doing'[l] # "none" => session'[l] = NoSession,
         l \in alone' => /\ AloneAgrees(l)'
                         /\ session'[l] # NoSession =>
                              file.accounts[session'[l].user].hash = session'[l].hash
  PROVE  LoginInv'
<1>1. ASSUME NEW k \in Logins, doing'[k] # "none" PROVE session'[k] = NoSession
  BY <1>1 DEF LoginInv
<1>2. ASSUME NEW k \in alone', k # l PROVE AloneAgrees(k)'
  <2>1. k \in alone /\ k \in Logins /\ AloneAgrees(k)
    BY <1>2 DEF LoginInv, ServeInv, AccountsTypeOK
  <2>2. CASE doing'[k] = "none"
    BY <2>2 DEF AloneAgrees, Getting
  <2>3. CASE doing'[k] # "none"
    <3>1. /\ doing'[k] = doing[k] /\ during'[k] = during[k] /\ local'[k].user = local[k].user
          /\ local'[k].hash = local[k].hash /\ local'[k].loaded = local[k].loaded
          /\ local'[k].account = local[k].account
      BY <1>2, <2>1, <2>3
    <3> QED
      BY <2>1, <3>1 DEF AloneAgrees
  <2> QED
    BY <2>2, <2>3
<1>3. LoginIsUsable'
  <2> SUFFICES ASSUME NEW k \in alone', session'[k] # NoSession
               PROVE  file.accounts[session'[k].user].hash = session'[k].hash
    BY DEF LoginIsUsable
  <2>1. CASE k = l
    BY <2>1
  <2>2. CASE k # l
    <3>1. k \in alone /\ k \in Logins
      BY <2>2 DEF ServeInv, AccountsTypeOK
    <3> QED
      BY <2>2, <3>1 DEF LoginInv, LoginIsUsable
  <2> QED
    BY <2>1, <2>2
<1> QED
  BY <1>1, <1>2, <1>3 DEF LoginInv

\* What other threads do leaves every login as it is, or ends its session.
LEMMA OthersLeaveLogins ==
  ASSUME ServeInv, LoginInv,
         \/ \E t \in Requests : Get(t)
         \/ \E q \in Requests : Request(q)
         \/ \E l \in Logins : EndSession(l)
         \/ \E u \in Users : Command(u)
         \/ UNCHANGED accountVars
  PROVE  LoginInv'
<1> USE DEF Clients
<1>1. file' = file /\ alone' = alone
  BY DEF Get, Stat, LookInCache, Load, StoreInCache, FileUnchanged, Request, BeginRequest, Serve, TurnAway,
         Answer, EndSession, Command, accountVars
<1>2. ASSUME NEW q \in Requests, Get(q) \/ Request(q)
      PROVE  \A k \in Logins :
               /\ doing'[k] = doing[k] /\ during'[k] = during[k]
               /\ \A f \in {"user", "hash", "loaded", "account"} : local'[k][f] = local[k][f]
               /\ session'[k] = session[k] \/ session'[k] = NoSession
  <2> SUFFICES ASSUME NEW k \in Logins
               PROVE  /\ doing'[k] = doing[k] /\ during'[k] = during[k]
                      /\ \A f \in {"user", "hash", "loaded", "account"} : local'[k][f] = local[k][f]
                      /\ session'[k] = session[k] \/ session'[k] = NoSession
    OBVIOUS
  <2>1. k # q /\ k \in Clients /\ q \in Clients
    BY ThreadsAssumption
  <2>2. CASE TurnAway(q)
    <3>1. local' = [Without(local[q].token) EXCEPT ![q] = NothingYet]
      BY <2>2 DEF TurnAway
    <3>2. local'[k] = Without(local[q].token)[k]
      BY <2>1, <3>1, ForgetsToken DEF ServeInv
    <3>3. \A f \in {"user", "hash", "loaded", "account"} : local'[k][f] = local[k][f]
      BY <2>1, <3>2, ForgetsToken DEF ServeInv
    <3> QED
      BY <2>1, <2>2, <3>3 DEF TurnAway, Go, ServeInv, AccountsTypeOK
  <2>3. CASE ~TurnAway(q)
    BY <1>2, <2>1, <2>3 DEF Get, Stat, LookInCache, Load, StoreInCache, FileUnchanged, Go, Has, Request,
                            BeginRequest, Begin, Serve, Answer, Leave, ServeInv, AccountsTypeOK
  <2> QED
    BY <2>2, <2>3
<1>3. ASSUME NEW l \in Logins, EndSession(l)
      PROVE  \A k \in Logins :
               /\ doing'[k] = doing[k] /\ during'[k] = during[k]
               /\ \A f \in {"user", "hash", "loaded", "account"} : local'[k][f] = local[k][f]
               /\ session'[k] = session[k] \/ session'[k] = NoSession
  BY <1>3, ForgetsToken DEF EndSession, ServeInv, AccountsTypeOK
<1>4. CASE (\E u \in Users : Command(u)) \/ UNCHANGED accountVars
  <2>1. UNCHANGED <<file, alone, session, doing, during, local>>
    BY <1>1, <1>4 DEF Command, accountVars
  <2> QED
    BY <2>1 DEF LoginInv, AloneAgrees, LoginIsUsable
<1>5. ASSUME \A k \in Logins :
               /\ doing'[k] = doing[k] /\ during'[k] = during[k]
               /\ \A f \in {"user", "hash", "loaded", "account"} : local'[k][f] = local[k][f]
               /\ session'[k] = session[k] \/ session'[k] = NoSession
      PROVE  LoginInv'
  <2>1. PICK nobody : nobody \notin Logins
    BY NoSetContainsEverything
  <2>2. nobody \notin alone'
    BY <1>1, <2>1 DEF ServeInv, AccountsTypeOK
  <2> QED
    BY <1>1, <1>5, <2>1, <2>2, OneLogin
<1> QED
  BY <1>2, <1>3, <1>4, <1>5

\* A login reads the file through the cache.
LEMMA LoginGets ==
  ASSUME ServeInv, LoginInv, NEW l \in Logins, Get(l)
  PROVE  LoginInv'
<1>1. /\ l \in Clients /\ UNCHANGED <<file, alone, during, session>>
      /\ doing[l] \in Getting \ {"got"} /\ doing'[l] \in Getting
      /\ local'[l].user = local[l].user
      /\ \A k \in Logins \ {l} : doing'[k] = doing[k] /\ local'[k] = local[k]
  BY DEF Clients, Get, Stat, LookInCache, Load, StoreInCache, FileUnchanged, Go, Has, Getting,
         ServeInv, AccountsTypeOK, LocalType
<1>2. l \in alone => AloneAgrees(l)'
  BY <1>1 DEF LoginInv, AloneAgrees, Getting
<1>3. session[l] = NoSession
  BY <1>1 DEF LoginInv, Getting
<1> QED
  BY <1>1, <1>2, <1>3, OneLogin

\* A login from its begin to its session, except for the saving.
LEMMA LoginGoesOn ==
  ASSUME ServeInv, LoginInv, NEW l \in Logins,
         \/ \E u \in Users : BeginLogin(l, u)
         \/ RefuseLogin(l) \/ AcceptLogin(l) \/ LoadForRehash(l) \/ RehashFails(l) \/ OpenSession(l)
  PROVE  LoginInv'
<1> USE DEF FileUnchanged, Go, Has
<1>1. /\ l \in Clients /\ file' = file /\ alone' \subseteq alone \cup {l}
      /\ local[l] \in LocalType /\ WorksWithDuring(l)
  BY DEF Clients, BeginLogin, RefuseLogin, AcceptLogin, LoadForRehash, RehashFails, OpenSession,
         ServeInv, AccountsTypeOK
<1>2. \A k \in Logins \ {l} :
        doing'[k] = doing[k] /\ during'[k] = during[k] /\ local'[k] = local[k] /\ session'[k] = session[k]
  BY DEF Clients, BeginLogin, Begin, RefuseLogin, AcceptLogin, LoadForRehash, RehashFails, OpenSession,
         Leave, ServeInv, AccountsTypeOK
<1>3. ASSUME NEW u \in Users, BeginLogin(l, u) PROVE LoginInv'
  <2>1. PICK hash : Begin(l, [NothingYet EXCEPT !.user = u, !.hash = hash])
    BY <1>3 DEF BeginLogin
  <2>2. /\ session' = session /\ session[l] = NoSession
        /\ doing'[l] = "stat" /\ during'[l] = {file.accounts[u]} /\ local'[l].user = u
    BY <1>1, <1>3, <2>1 DEF BeginLogin, Begin, NothingYet, ServeInv, AccountsTypeOK
  <2>3. AloneAgrees(l)'
    BY <1>1, <2>2 DEF AloneAgrees
  <2> QED
    BY <1>1, <1>2, <2>2, <2>3, OneLogin
<1>4. CASE RefuseLogin(l)
  <2>1. doing'[l] = "none" /\ session' = session /\ doing[l] = "got"
    BY <1>1, <1>4 DEF RefuseLogin, Leave, ServeInv, AccountsTypeOK
  <2>2. AloneAgrees(l)' /\ session[l] = NoSession
    BY <2>1 DEF AloneAgrees, Getting, LoginInv
  <2> QED
    BY <1>1, <1>2, <2>1, <2>2, OneLogin
<1>5. CASE OpenSession(l)
  <2>1. /\ doing[l] = "accepted" /\ doing'[l] = "none" /\ alone' = alone
        /\ session'[l] = [user |-> local[l].user, hash |-> local[l].hash]
    BY <1>1, <1>5 DEF OpenSession, Leave, ServeInv, AccountsTypeOK
  <2>2. AloneAgrees(l)'
    BY <2>1 DEF AloneAgrees, Getting
  <2>3. l \in alone => file.accounts[local[l].user].hash = local[l].hash
    BY <2>1 DEF LoginInv, AloneAgrees
  <2> QED
    BY <1>1, <1>2, <2>1, <2>2, <2>3, OneLogin
<1>6. CASE AcceptLogin(l) \/ LoadForRehash(l) \/ RehashFails(l)
  <2>1. /\ alone' = alone /\ session' = session /\ during' = during
        /\ doing[l] # "none" /\ session[l] = NoSession
    BY <1>6 DEF AcceptLogin, LoadForRehash, RehashFails, LoginInv
  <2>2. ASSUME l \in alone PROVE AloneAgrees(l)'
    <3>1. AloneAgrees(l)
      BY <2>2 DEF LoginInv
    <3>2. CASE AcceptLogin(l)
      <4>1. /\ doing[l] = "got" /\ local'[l] = [local[l] EXCEPT !.hash = local[l].account.hash]
            /\ doing'[l] = "outdated" \/ doing'[l] = "accepted"
        BY <1>1, <3>2 DEF AcceptLogin, ServeInv, AccountsTypeOK
      <4>2. /\ local'[l].user = local[l].user /\ local'[l].account = local[l].account
            /\ local'[l].hash = local[l].account.hash
        BY <1>1, <4>1 DEF LocalType
      <4>3. local[l].account \in during[l] /\ during[l] = {file.accounts[local[l].user]}
        BY <1>1, <3>1, <4>1 DEF WorksWithDuring, AloneAgrees, Getting
      <4> QED
        BY <1>1, <2>1, <4>1, <4>2, <4>3 DEF AloneAgrees, Getting
    <3>3. CASE LoadForRehash(l)
      <4>1. /\ doing[l] = "outdated" /\ during[l] = {file.accounts[local[l].user]}
            /\ local[l].account \in during[l] /\ local[l].hash = local[l].account.hash
        BY <3>1, <3>3 DEF LoadForRehash, AloneAgrees
      <4>2. doing'[l] = "hashing" /\ local'[l] = [local[l] EXCEPT !.loaded = file.accounts]
        BY <1>1, <3>3, <4>1 DEF LoadForRehash, ServeInv, AccountsTypeOK
      <4>3. /\ local'[l].user = local[l].user /\ local'[l].account = local[l].account
            /\ local'[l].hash = local[l].hash /\ local'[l].loaded = file.accounts
        BY <1>1, <4>2 DEF LocalType
      <4> QED
        BY <1>1, <2>1, <4>1, <4>2, <4>3 DEF AloneAgrees, Getting
    <3>4. CASE RehashFails(l)
      <4>1. doing[l] = "hashing" /\ doing'[l] = "accepted" /\ local' = local
        BY <1>1, <3>4 DEF RehashFails, ServeInv, AccountsTypeOK
      <4> QED
        BY <1>1, <3>1, <4>1 DEF AloneAgrees, Getting
    <3> QED
      BY <1>6, <3>2, <3>3, <3>4
  <2> QED
    BY <1>1, <1>2, <2>1, <2>2, OneLogin
<1> QED
  BY <1>3, <1>4, <1>5, <1>6

\* Somebody saves the file: only the login that saves it itself is still alone.
LEMMA SaveLeavesAlone ==
  ASSUME ServeInv, LoginInv, SaveCommand \/ \E l \in Logins : SaveRehash(l)
  PROVE  LoginInv'
<1>1. CASE SaveCommand
  BY <1>1 DEF SaveCommand, Saved, LoginInv, LoginIsUsable
<1>2. ASSUME NEW l \in Logins, SaveRehash(l) PROVE LoginInv'
  <2> DEFINE new == [number |-> hashes + 1, of |-> local[l].hash.of]
             accounts == [local[l].loaded EXCEPT ![local[l].user].hash = new]
  <2>1. l \in Clients /\ local[l] \in LocalType /\ local[l].user \in Users /\ doing[l] = "hashing"
    BY <1>2 DEF SaveRehash, Clients, ServeInv, AccountsTypeOK, WorksWithDuring
  <2>2. /\ file'.accounts = accounts /\ alone' \subseteq {l} /\ session' = session
        /\ doing' = [doing EXCEPT ![l] = "accepted"] /\ local' = [local EXCEPT ![l].hash = new]
    BY <1>2 DEF SaveRehash, Saved, Go, Has
  <2> HIDE DEF new
  <2>3. session[l] = NoSession
    BY <2>1 DEF LoginInv
  <2>4. doing'[l] = "accepted" /\ \A k \in Logins \ {l} : doing'[k] = doing[k]
    BY <2>1, <2>2 DEF Clients, ServeInv, AccountsTypeOK
  <2>5. local'[l].user = local[l].user /\ local'[l].hash = new
    BY <2>1, <2>2 DEF ServeInv, AccountsTypeOK, LocalType
  <2>6. accounts[local[l].user].hash = new
    BY <2>1 DEF LocalType, AccountsType, AccountType
  <2>7. AloneAgrees(l)'
    BY <2>2, <2>4, <2>5, <2>6 DEF AloneAgrees, Getting
  <2> QED
    BY <2>2, <2>3, <2>4, <2>7 DEF LoginInv, LoginIsUsable
<1> QED
  BY <1>1, <1>2

LEMMA LoginStep == ServeInv /\ LoginInv /\ [AccountsNext]_accountVars => LoginInv'
<1> SUFFICES ASSUME ServeInv, LoginInv, [AccountsNext]_accountVars PROVE LoginInv'
  OBVIOUS
<1> QED
  BY OthersLeaveLogins, LoginGets, LoginGoesOn, SaveLeavesAlone DEF AccountsNext, Login, Clients

\* A login does not put its own session out: the session that was just opened has the hash
\* the account has, unless somebody else saved the file since the login began
\* (gui/auth_routes.py, login).
THEOREM LoginStaysUsable == AccountsSpec => []LoginIsUsable
<1>1. LoginInv => LoginIsUsable
  BY DEF LoginInv
<1> QED
  BY <1>1, ServeInvInit, ServeStep, LoginInvInit, LoginStep, PTL DEF AccountsSpec
=============================================================================
