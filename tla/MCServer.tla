------------------------------ MODULE MCServer ------------------------------
(* Small instances of the three parts of the server that share no state:    *)
(* its runs, its summaries of groups, and its accounts.  A behaviour is     *)
(* about one of them, so that the run does not multiply them.               *)
EXTENDS RunShelf, GroupSummary, Accounts, TLC

CONSTANTS r1, r2

VARIABLE about  \* the part the behaviour is about

\* A group of two runs; an archive that stops after the first is the archive of one run.
MCMembers == {<<r1, r2>>}
\* Directories differ in nothing.
MCSymmetry == Permutations(Dirs)

ServerInit ==
    /\ about \in {"runs", "verdicts", "accounts"}
    /\ ShelfInit /\ SummaryInit /\ AccountsInit

OfRuns == ShelfNext /\ UNCHANGED <<summaryVars, accountVars>>
OfVerdicts == SummaryNext /\ UNCHANGED <<vars, shelfVars, accountVars>>
OfAccounts == AccountsNext /\ UNCHANGED <<vars, shelfVars, summaryVars>>

ServerNext ==
    /\ \/ about = "runs" /\ OfRuns
       \/ about = "verdicts" /\ OfVerdicts
       \/ about = "accounts" /\ OfAccounts
    /\ UNCHANGED about

ServerSpec == ServerInit /\ [][ServerNext]_<<vars, shelfVars, summaryVars, accountVars, about>>
=============================================================================
