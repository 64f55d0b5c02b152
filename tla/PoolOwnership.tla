---------------------------- MODULE PoolOwnership ----------------------------
(***************************************************************************)
(* What pool/connectionPool.go promises its callers, without its mutex,    *)
(* its channel and its loops: at every instant a connection is unused,     *)
(* idle in the pool, or owned by exactly one goroutine, and it changes     *)
(* hands only by one of the steps below.  ConnectionPool implements this.  *)
(***************************************************************************)
CONSTANTS
    Procs,      \* the goroutines that call the pool
    Conns,      \* identities of connections
    Unused,     \* owner of a connection that does not exist (yet, or any more)
    Idle        \* owner of a connection that waits in the pool

VARIABLES
    owner,      \* who has each connection
    shut        \* the pool was closed

ownerVars == <<owner, shut>>

OInit ==
    /\ owner = [c \in Conns |-> Unused]
    /\ shut = FALSE

\* A connection is dialled: on demand by Get, in advance by Open.
Create(p, c) ==
    /\ ~shut
    /\ owner[c] = Unused
    /\ \A d \in Conns : owner[d] # p
    /\ owner' = [owner EXCEPT ![c] = p]
    /\ UNCHANGED shut

\* Get is served from the pool.
Take(p, c) ==
    /\ ~shut
    /\ owner[c] = Idle
    /\ \A d \in Conns : owner[d] # p
    /\ owner' = [owner EXCEPT ![c] = p]
    /\ UNCHANGED shut

\* Put, or Open, adds a connection to the pool.
Give(p, c) ==
    /\ ~shut
    /\ owner[c] = p
    /\ owner' = [owner EXCEPT ![c] = Idle]
    /\ UNCHANGED shut

\* A connection is closed: by Put when there is no room for it or the pool is
\* shut, by Close, or by the reaper.
Discard(c) ==
    /\ owner[c] # Unused
    /\ owner' = [owner EXCEPT ![c] = Unused]
    /\ UNCHANGED shut

Shut ==
    /\ ~shut
    /\ shut' = TRUE
    /\ UNCHANGED owner

ONext ==
    \/ \E c \in Conns :
        \/ \E p \in Procs : Create(p, c) \/ Take(p, c) \/ Give(p, c)
        \/ Discard(c)
    \/ Shut

OSpec == OInit /\ [][ONext]_ownerVars

=============================================================================
