------------------------------- MODULE Accounts -------------------------------
(***************************************************************************)
(* Logins, sessions and the accounts file of the web server (users.py,     *)
(* gui/sessions.py, gui/auth_routes.py, gui/authz.py).  Requests and       *)
(* logins run in threads that share the sessions and a cache of the file,   *)
(* keyed by what stat says of it; the command line changes accounts in a   *)
(* process of its own.  Nobody locks the file: everybody loads the whole   *)
(* of it, takes some time, and saves the whole of it.                      *)
(*                                                                         *)
(* A hash is its number and the password it is of, where a password is     *)
(* named by the first hash made of it; hash 1 was made with fewer          *)
(* iterations than today's.  A version of the file stands for its stat:    *)
(* every save makes a new inode.  The throttle of failed logins, and time, *)
(* are left out: a session may expire whenever nobody uses it.             *)
(***************************************************************************)
EXTENDS Naturals

CONSTANTS
    Users,      \* names of accounts
    Requests,   \* threads that serve a request
    Logins,     \* threads that log somebody in; each opens one session at a time
    MaxSaves    \* bound on the saves of the file, and on the hashes made

ASSUME ThreadsAssumption == Requests \cap Logins = {}

VARIABLES
    file,       \* accounts file: [version, accounts]
    cached,     \* UserStore._cache: [version, accounts]
    hashes,     \* hashes made so far
    session,    \* login -> session it opened: [user, hash], or NoSession
    cli,        \* what a command is about to save, or NoCommand
    doing,      \* thread -> where it stands
    local,      \* thread -> what it works with
    during,     \* thread -> accounts its user has had since the thread began
    alone       \* logins since whose begin nobody else has saved the file

accountVars == <<file, cached, hashes, session, cli, doing, local, during, alone>>

Clients == Requests \cup Logins
Roles == {"operator", "viewer"}

Nobody == "nobody"
NoHash == [number |-> 0, of |-> 0]
OldHash == [number |-> 1, of |-> 1]
NeedsRehash(hash) == hash = OldHash
NoAccount == [hash |-> NoHash, role |-> "none"]
NoSession == [user |-> Nobody, hash |-> NoHash]
NoAccounts == [u \in Users |-> NoAccount]
NoCommand == [busy |-> FALSE, accounts |-> NoAccounts]
NothingYet == [user |-> Nobody, hash |-> NoHash, token |-> Nobody, key |-> 0,
               loaded |-> NoAccounts, account |-> NoAccount]

AccountsInit ==
    /\ file = [version |-> 1, accounts |-> [u \in Users |-> [hash |-> OldHash, role |-> "operator"]]]
    /\ cached = [version |-> 0, accounts |-> NoAccounts]
    /\ hashes = 1
    /\ session = [l \in Logins |-> NoSession]
    /\ cli = NoCommand
    /\ doing = [t \in Clients |-> "none"]
    /\ local = [t \in Clients |-> NothingYet]
    /\ during = [t \in Clients |-> {}]
    /\ alone = {}

-----------------------------------------------------------------------------
(* The file. *)

\* UserStore.save: a temporary file replaces the old one.
Saved(accounts, by) ==
    /\ file.version < MaxSaves
    /\ file' = [version |-> file.version + 1, accounts |-> accounts]
    /\ during' = [t \in Clients |->
                    IF doing[t] = "none" THEN {} ELSE during[t] \cup {accounts[local[t].user]}]
    /\ alone' = alone \cap by

\* user add, passwd, role and delete: the file is loaded, and after a prompt it is saved.
Command(u) ==
    LET new == [number |-> hashes + 1, of |-> hashes + 1]
        Changed(account) == cli' = [busy |-> TRUE, accounts |-> [file.accounts EXCEPT ![u] = account]]
    IN  /\ cli = NoCommand
        /\ \/ /\ hashes < MaxSaves
              /\ hashes' = hashes + 1
              /\ \/ file.accounts[u] = NoAccount
                    /\ \E role \in Roles : Changed([hash |-> new, role |-> role])
                 \/ file.accounts[u] # NoAccount
                    /\ Changed([file.accounts[u] EXCEPT !.hash = new])
           \/ /\ file.accounts[u] # NoAccount
              /\ \/ Changed(NoAccount)
                 \/ \E role \in Roles : Changed([file.accounts[u] EXCEPT !.role = role])
              /\ UNCHANGED hashes
        /\ UNCHANGED <<file, cached, session, doing, local, during, alone>>

SaveCommand ==
    /\ cli # NoCommand
    /\ Saved(cli.accounts, {})
    /\ cli' = NoCommand
    /\ UNCHANGED <<cached, hashes, session, doing, local>>

-----------------------------------------------------------------------------
(* UserStore.get, in a request or a login. *)

Go(t, place) == doing' = [doing EXCEPT ![t] = place]
Has(t, field, value) == local' = [local EXCEPT ![t][field] = value]
FileUnchanged == UNCHANGED <<file, hashes, session, cli, during, alone>>

Stat(t) ==
    /\ doing[t] = "stat"
    /\ Has(t, "key", file.version)
    /\ Go(t, "cached")
    /\ FileUnchanged /\ UNCHANGED cached

LookInCache(t) ==
    /\ doing[t] = "cached"
    /\ IF cached.version = local[t].key
       THEN Has(t, "account", cached.accounts[local[t].user]) /\ Go(t, "got")
       ELSE Go(t, "load") /\ UNCHANGED local
    /\ FileUnchanged /\ UNCHANGED cached

Load(t) ==
    /\ doing[t] = "load"
    /\ Has(t, "loaded", file.accounts)
    /\ Go(t, "store")
    /\ FileUnchanged /\ UNCHANGED cached

\* Mutant of StoreInCache: the key is read after the file.
StoreUnderLaterKey(t) ==
    /\ doing[t] = "store"
    /\ cached' = [version |-> file.version, accounts |-> local[t].loaded]
    /\ Has(t, "account", local[t].loaded[local[t].user])
    /\ Go(t, "got")
    /\ FileUnchanged

StoreInCache(t) ==
    /\ doing[t] = "store"
    /\ cached' = [version |-> local[t].key, accounts |-> local[t].loaded]
    /\ Has(t, "account", local[t].loaded[local[t].user])
    /\ Go(t, "got")
    /\ FileUnchanged

Get(t) == Stat(t) \/ LookInCache(t) \/ Load(t) \/ StoreInCache(t)

Begin(t, facts) ==
    /\ doing[t] = "none"
    /\ local' = [local EXCEPT ![t] = facts]
    /\ during' = [during EXCEPT ![t] = {file.accounts[facts.user]}]
    /\ Go(t, "stat")

Leave(t) ==
    /\ Go(t, "none")
    /\ local' = [local EXCEPT ![t] = NothingYet]
    /\ during' = [during EXCEPT ![t] = {}]

-----------------------------------------------------------------------------
(* A login: the password is the one the account has now, or a wrong one.   *)

BeginLogin(l, u) ==
    /\ session[l] = NoSession
    /\ \E hash \in {file.accounts[u].hash, NoHash} : Begin(l, [NothingYet EXCEPT !.user = u, !.hash = hash])
    /\ alone' = alone \cup {l}
    /\ UNCHANGED <<file, cached, hashes, session, cli>>

\* verify_password.
RefuseLogin(l) ==
    /\ doing[l] = "got"
    /\ local[l].account = NoAccount \/ local[l].account.hash.of # local[l].hash.of
    /\ Leave(l)
    /\ UNCHANGED <<file, cached, hashes, session, cli, alone>>

AcceptLogin(l) ==
    /\ doing[l] = "got"
    /\ local[l].account # NoAccount
    /\ local[l].account.hash.of = local[l].hash.of
    /\ Has(l, "hash", local[l].account.hash)
    /\ Go(l, IF NeedsRehash(local[l].account.hash) THEN "outdated" ELSE "accepted")
    /\ FileUnchanged /\ UNCHANGED cached

\* The hash is renewed only if the account still has the one that was verified.
LoadForRehash(l) ==
    /\ doing[l] = "outdated"
    /\ IF file.accounts[local[l].user].hash = local[l].account.hash
       THEN Has(l, "loaded", file.accounts) /\ Go(l, "hashing")
       ELSE Go(l, "accepted") /\ UNCHANGED local
    /\ FileUnchanged /\ UNCHANGED cached

\* Mutant of SaveRehash: the session gets the hash that was verified.
SaveRehashSilently(l) ==
    LET new == [number |-> hashes + 1, of |-> local[l].hash.of] IN
    /\ doing[l] = "hashing"
    /\ hashes < MaxSaves
    /\ hashes' = hashes + 1
    /\ Saved([local[l].loaded EXCEPT ![local[l].user].hash = new], {l})
    /\ Go(l, "accepted")
    /\ UNCHANGED <<cached, session, cli, local>>

\* Whatever anybody saved since the load is written over.
SaveRehash(l) ==
    LET new == [number |-> hashes + 1, of |-> local[l].hash.of] IN
    /\ doing[l] = "hashing"
    /\ hashes < MaxSaves
    /\ hashes' = hashes + 1
    /\ Saved([local[l].loaded EXCEPT ![local[l].user].hash = new], {l})
    /\ Has(l, "hash", new)
    /\ Go(l, "accepted")
    /\ UNCHANGED <<cached, session, cli>>

\* The file cannot be written: the login goes on with the old hash.
RehashFails(l) ==
    /\ doing[l] = "hashing"
    /\ Go(l, "accepted")
    /\ FileUnchanged /\ UNCHANGED <<cached, local>>

OpenSession(l) ==
    /\ doing[l] = "accepted"
    /\ session' = [session EXCEPT ![l] = [user |-> local[l].user, hash |-> local[l].hash]]
    /\ Leave(l)
    /\ UNCHANGED <<file, cached, hashes, cli, alone>>

\* A token is never used again: a request that still holds it ends nothing.
Without(l) == [t \in Clients |->
    IF local[t].token = l THEN [local[t] EXCEPT !.token = Nobody] ELSE local[t]]

\* Logout, or a session that is too old at its next use.
EndSession(l) ==
    /\ session[l] # NoSession
    /\ session' = [session EXCEPT ![l] = NoSession]
    /\ local' = Without(l)
    /\ UNCHANGED <<file, cached, hashes, cli, doing, during, alone>>

Login(l) ==
    \/ \E u \in Users : BeginLogin(l, u)
    \/ RefuseLogin(l) \/ AcceptLogin(l) \/ LoadForRehash(l) \/ SaveRehash(l) \/ RehashFails(l)
    \/ OpenSession(l) \/ EndSession(l)

-----------------------------------------------------------------------------
(* A request with the token of a session: session_actor_provider.          *)

BeginRequest(q, l) ==
    /\ session[l] # NoSession
    /\ Begin(q, [NothingYet EXCEPT !.user = session[l].user, !.hash = session[l].hash, !.token = l])
    /\ UNCHANGED <<file, cached, hashes, session, cli, alone>>

\* Mutant of Serve: the hash of the session is not compared.
ServeWhoever(q) ==
    /\ doing[q] = "got"
    /\ local[q].account # NoAccount
    /\ Go(q, "served")
    /\ FileUnchanged /\ UNCHANGED <<cached, local>>

Serve(q) ==
    /\ doing[q] = "got"
    /\ local[q].account # NoAccount
    /\ local[q].account.hash = local[q].hash
    /\ Go(q, "served")
    /\ FileUnchanged /\ UNCHANGED <<cached, local>>

\* The account is gone or has another password: the session ends.
TurnAway(q) ==
    /\ doing[q] = "got"
    /\ local[q].account.hash # local[q].hash
    /\ session' = [l \in Logins |-> IF l = local[q].token THEN NoSession ELSE session[l]]
    /\ local' = [Without(local[q].token) EXCEPT ![q] = NothingYet]
    /\ during' = [during EXCEPT ![q] = {}]
    /\ Go(q, "none")
    /\ UNCHANGED <<file, cached, hashes, cli, alone>>

Answer(q) ==
    /\ doing[q] = "served"
    /\ Leave(q)
    /\ UNCHANGED <<file, cached, hashes, session, cli, alone>>

Request(q) ==
    \/ \E l \in Logins : BeginRequest(q, l)
    \/ Serve(q) \/ TurnAway(q) \/ Answer(q)

AccountsNext ==
    \/ \E t \in Clients : Get(t)
    \/ \E l \in Logins : Login(l)
    \/ \E q \in Requests : Request(q)
    \/ \E u \in Users : Command(u)
    \/ SaveCommand

AccountsSpec == AccountsInit /\ [][AccountsNext]_accountVars

-----------------------------------------------------------------------------
(* Properties. *)

\* A request is served as somebody who, at some moment since it arrived, really had the
\* password the session was opened with and the role it is served with: a change of the
\* password or of the role, and a removal, hold for every request that comes later,
\* whatever the cache holds (authz.py, session_actor_provider).
ServedAsOfRequest ==
    \A q \in Requests : doing[q] = "served" =>
        [hash |-> local[q].hash, role |-> local[q].account.role] \in during[q]

\* A session that was just opened is good for a request: a login that renews the hash
\* of its own account does not put its own session out (auth_routes.py, login).
LoginIsUsable ==
    \A l \in alone : session[l] # NoSession => file.accounts[session[l].user].hash = session[l].hash
=============================================================================
