---------------------------- MODULE CaptureLeases ----------------------------
(***************************************************************************)
(* What the capture registry promises to the rest of the server, without   *)
(* threads, queues or a pool: a device is leased to one capture at a time, *)
(* a run is shared by its captures or held by one upgrade, and an identity *)
(* of a capture is leased once.                                            *)
(***************************************************************************)
EXTENDS Naturals, FiniteSets

CONSTANTS Tasks, Runs, Devices, Upgrades

VARIABLES
    leased,   \* the captures that hold each device
    sharing,  \* the captures that share each run
    held,     \* the upgrades that hold each run
    used      \* identities that have ever held a lease

leaseVars == <<leased, sharing, held, used>>

LeaseInit ==
    /\ leased = [d \in Devices |-> {}]
    /\ sharing = [r \in Runs |-> {}]
    /\ held = [r \in Runs |-> {}]
    /\ used = {}

Grant(t, r, d) ==
    /\ t \notin used
    /\ leased[d] = {}
    /\ held[r] = {}
    /\ leased' = [leased EXCEPT ![d] = {t}]
    /\ sharing' = [sharing EXCEPT ![r] = @ \cup {t}]
    /\ used' = used \cup {t}
    /\ UNCHANGED held

Return(t, r, d) ==
    /\ leased[d] = {t}
    /\ t \in sharing[r]
    /\ leased' = [leased EXCEPT ![d] = {}]
    /\ sharing' = [sharing EXCEPT ![r] = @ \ {t}]
    /\ UNCHANGED <<held, used>>

Seize(u, r) ==
    /\ sharing[r] = {}
    /\ held[r] = {}
    /\ \A q \in Runs : u \notin held[q]
    /\ held' = [held EXCEPT ![r] = {u}]
    /\ UNCHANGED <<leased, sharing, used>>

Release(u, r) ==
    /\ held[r] = {u}
    /\ held' = [held EXCEPT ![r] = {}]
    /\ UNCHANGED <<leased, sharing, used>>

LeaseNext ==
    \/ \E t \in Tasks, r \in Runs, d \in Devices : Grant(t, r, d) \/ Return(t, r, d)
    \/ \E u \in Upgrades, r \in Runs : Seize(u, r) \/ Release(u, r)

LeaseSpec == LeaseInit /\ [][LeaseNext]_leaseVars
=============================================================================
