---------------------------- MODULE GroupSummary ----------------------------
(***************************************************************************)
(* The verdicts in the summary of a group (gui/groups.py).  A verdict is   *)
(* computed from run.yml, the two snapshots it names and the profile, file *)
(* by file, and kept under the modification times of run.yml and of the    *)
(* profile.  Readers run in threads of their own and share the cache;      *)
(* beside them a capture replaces a snapshot and run.yml, an upgrade       *)
(* replaces snapshots only, and the profile is edited or deleted.          *)
(*                                                                         *)
(* One member of one group.  A content is identified by the write that     *)
(* made it, and so is a modification time: the clock counts writes.        *)
(***************************************************************************)
EXTENDS Naturals

CONSTANTS
    Readers,    \* threads that answer GET /api/groups/{group}
    MaxWrites   \* bound on the number of writes

VARIABLES
    manifest,   \* run.yml: [stamp, content], content Torn while it is rewritten
    snapshots,  \* snapshot -> the write it is from, or Gone
    profile,    \* profile of the run: [stamp, content], or NoProfile
    writes,     \* writes so far
    writer,     \* what the process in the lock of the run does
    verdicts,   \* SummaryCache entry of the member, or NoEntry
    reading,    \* request -> where it stands
    seen        \* request -> what it has read so far

summaryVars == <<manifest, snapshots, profile, writes, writer, verdicts, reading, seen>>
memberVars == <<manifest, snapshots, profile, writes, writer>>

Gone == 0
NoProfile == [stamp |-> 0, content |-> Gone]
NoEntry == [key |-> <<0, 0>>]
Torn == 0
SnapshotFiles == {"baseline", "subject"}
NothingSeen == [manifest |-> Torn, profile |-> Torn, subject |-> 0, baseline |-> 0,
                then |-> <<0, 0>>, key |-> <<0, 0>>]

\* What a fresh evaluation would be computed from.
Current == [manifest |-> manifest.content, profile |-> profile.content,
            subject |-> snapshots["subject"], baseline |-> snapshots["baseline"]]
\* The profile that is gone has the time 0.
Key == <<manifest.stamp, profile.stamp>>

SummaryInit ==
    /\ manifest = [stamp |-> 1, content |-> 1]
    /\ snapshots = [s \in SnapshotFiles |-> 1]
    /\ profile = [stamp |-> 1, content |-> 1]
    /\ writes = 1
    /\ writer = "none"
    /\ verdicts = NoEntry
    /\ reading = [q \in Readers |-> "none"]
    /\ seen = [q \in Readers |-> NothingSeen]

-----------------------------------------------------------------------------
(* Writers of the run; the lock and the registry let in one at a time.     *)

Quiet == UNCHANGED <<verdicts, reading, seen>>
Tick == writes < MaxWrites /\ writes' = writes + 1

\* capture_into_run: the snapshot, then run.yml, truncated and written.
CaptureSnapshot ==
    /\ writer = "none"
    /\ Tick
    /\ \E s \in SnapshotFiles : snapshots' = [snapshots EXCEPT ![s] = writes']
    /\ writer' = "capture"
    /\ Quiet /\ UNCHANGED <<manifest, profile>>

TruncateManifest ==
    /\ writer = "capture"
    /\ Tick
    /\ manifest' = [stamp |-> writes', content |-> Torn]
    /\ writer' = "truncated"
    /\ Quiet /\ UNCHANGED <<snapshots, profile>>

WriteManifest ==
    /\ writer = "truncated"
    /\ Tick
    /\ manifest' = [stamp |-> writes', content |-> writes']
    /\ writer' = "none"
    /\ Quiet /\ UNCHANGED <<snapshots, profile>>

\* _swap: a file is moved to the backup, then the new one comes.
MoveAway ==
    /\ writer \in {"none", "swapping"}
    /\ \E s \in SnapshotFiles : snapshots[s] # Gone /\ snapshots' = [snapshots EXCEPT ![s] = Gone]
    /\ writer' = "moving"
    /\ Quiet /\ UNCHANGED <<manifest, profile, writes>>

MoveIn ==
    /\ writer = "moving"
    /\ Tick
    /\ \E s \in SnapshotFiles : snapshots[s] = Gone /\ snapshots' = [snapshots EXCEPT ![s] = writes']
    /\ writer' = "swapping"
    /\ Quiet /\ UNCHANGED <<manifest, profile>>

\* Mutant of EndSwap: run.yml is touched only when every file was moved.
EndSwapUntouched ==
    /\ writer \in {"moving", "swapping"}
    /\ IF writer = "moving" THEN UNCHANGED <<manifest, writes>>
       ELSE Tick /\ manifest' = [manifest EXCEPT !.stamp = writes']
    /\ writer' = "none"
    /\ Quiet /\ UNCHANGED <<snapshots, profile>>

\* The swap ends, or fails after any rename: run.yml is touched in both cases.
EndSwap ==
    /\ writer \in {"moving", "swapping"}
    /\ Tick
    /\ manifest' = [manifest EXCEPT !.stamp = writes']
    /\ writer' = "none"
    /\ Quiet /\ UNCHANGED <<snapshots, profile>>

\* ProfileStore.save: a temporary file with its own time replaces the profile.
SaveProfile ==
    /\ Tick
    /\ profile' = [stamp |-> writes', content |-> writes']
    /\ Quiet /\ UNCHANGED <<manifest, snapshots, writer>>

\* ProfileStore.delete: a run that was created meanwhile may still name it.
DeleteProfile ==
    /\ profile # NoProfile
    /\ profile' = NoProfile
    /\ Quiet /\ UNCHANGED <<manifest, snapshots, writes, writer>>

-----------------------------------------------------------------------------
(* A request: group_runs and retain, then _member_row.                     *)

To(q, place) == reading' = [reading EXCEPT ![q] = place]
Finish(q) == To(q, "none") /\ seen' = [seen EXCEPT ![q] = NothingSeen]
Reads(q, field, value) == seen' = [seen EXCEPT ![q][field] = value]

\* A member whose run.yml cannot be read right now is no member, and its entry goes.
ListGroup(q) ==
    /\ reading[q] = "none"
    /\ IF manifest.content = Torn
       THEN verdicts' = NoEntry /\ UNCHANGED reading
       ELSE To(q, "listed") /\ UNCHANGED verdicts
    /\ UNCHANGED <<memberVars, seen>>

LoadManifest(q) ==
    /\ reading[q] = "listed"
    /\ IF manifest.content = Torn THEN Finish(q)
       ELSE /\ To(q, "loaded")
            /\ seen' = [seen EXCEPT ![q].manifest = manifest.content, ![q].then = Key]
    /\ UNCHANGED <<memberVars, verdicts>>

\* profile_for_run: a profile that is gone is an error, never the default profile.
LoadProfile(q) ==
    /\ reading[q] = "loaded"
    /\ IF profile = NoProfile THEN Finish(q)
       ELSE /\ To(q, "profiled")
            /\ seen' = [seen EXCEPT ![q].profile = profile.content,
                                    ![q].then = <<@[1], Key[2]>>]
    /\ UNCHANGED <<memberVars, verdicts>>

\* The key is made of two stats.
StatManifest(q) ==
    /\ reading[q] = "profiled"
    /\ To(q, "half keyed")
    /\ Reads(q, "key", <<Key[1], 0>>)
    /\ UNCHANGED <<memberVars, verdicts>>

StatProfile(q) ==
    /\ reading[q] = "half keyed"
    /\ To(q, "keyed")
    /\ Reads(q, "key", <<seen[q].key[1], Key[2]>>)
    /\ UNCHANGED <<memberVars, verdicts>>

\* A hit ends the request; so does a snapshot that is missing now.
LookUp(q) ==
    /\ reading[q] = "keyed"
    /\ IF verdicts.key = seen[q].key \/ \E s \in SnapshotFiles : snapshots[s] = Gone
       THEN Finish(q)
       ELSE To(q, "subject") /\ UNCHANGED seen
    /\ UNCHANGED <<memberVars, verdicts>>

\* load_snapshot, subject first.
ReadSnapshot(q, s) ==
    /\ reading[q] = s
    /\ IF snapshots[s] = Gone THEN Finish(q)
       ELSE To(q, IF s = "subject" THEN "baseline" ELSE "evaluated") /\ Reads(q, s, snapshots[s])
    /\ UNCHANGED <<memberVars, verdicts>>

\* clean: neither run.yml nor the profile was written between its load and its stat.
Put(q) ==
    /\ reading[q] = "evaluated"
    /\ verdicts' = [key |-> seen[q].key, clean |-> seen[q].then = seen[q].key,
                 verdict |-> [f \in {"manifest", "profile", "subject", "baseline"} |-> seen[q][f]]]
    /\ Finish(q)
    /\ UNCHANGED memberVars

Summarise(q) ==
    \/ ListGroup(q) \/ LoadManifest(q) \/ LoadProfile(q) \/ StatManifest(q) \/ StatProfile(q)
    \/ LookUp(q) \/ (\E s \in SnapshotFiles : ReadSnapshot(q, s)) \/ Put(q)

SummaryNext ==
    \/ CaptureSnapshot \/ TruncateManifest \/ WriteManifest
    \/ MoveAway \/ MoveIn \/ EndSwap
    \/ SaveProfile \/ DeleteProfile
    \/ \E q \in Readers : Summarise(q)

SummarySpec == SummaryInit /\ [][SummaryNext]_summaryVars

-----------------------------------------------------------------------------
(* Properties. *)

\* A verdict is never served from the cache when a fresh evaluation would give another
\* one: every writer moves the modification time of run.yml or of the profile, and moves
\* it last (raw/upgrade.py says so of os.utime).  Excepted are the entries of a request
\* that loaded run.yml or the profile just before a write and took its key after it.
CachedVerdictIsCurrent ==
    writer = "none" /\ verdicts.key = Key /\ verdicts.clean => verdicts.verdict = Current

\* The same without the exception.
CacheIsCurrent ==
    writer = "none" /\ verdicts.key = Key => verdicts.verdict = Current
=============================================================================
