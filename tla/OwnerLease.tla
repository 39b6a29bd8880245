----------------------------- MODULE OwnerLease -----------------------------
(***************************************************************************)
(* The owner lease of one source (bridge/src/owner_lease.ts), as the hub   *)
(* commands of the phones use it: hub_acquire_owner, hub_renew_owner,      *)
(* hub_release_owner, every mutating source command (validate), the close  *)
(* of a phone's socket (releaseClient) and the one-second lease timer      *)
(* (expire).  The manager lives in the source's record: it survives every  *)
(* change of epoch and is lost when the record is removed or the hub       *)
(* restarts (ForgetLease). The names of this specification are its own, so *)
(* that the registry and the manager can be extended together.             *)
(*                                                                         *)
(* A lease names a holder for fencing only: by default a phone takes it    *)
(* from the present holder (force), and what must never happen is that a   *)
(* command of the displaced holder is let through afterwards.              *)
(***************************************************************************)
EXTENDS Integers, FiniteSets

CONSTANTS
    Clients,
    Nobody,      \* the client id of no client
    Ttls,        \* the ttlMs values clampLeaseTtl lets through
    MaxFence,    \* bound: leases minted by one manager
    MaxLeaseId,  \* bound: leases minted in all
    MaxTime      \* bound: the clock

ASSUME LeaseAssumption ==
    /\ Nobody \notin Clients
    /\ Ttls \subseteq Nat
    /\ {MaxFence, MaxLeaseId, MaxTime} \subseteq Nat

VARIABLES
    now,         \* Date.now(): a wall clock, which may also be set back
    active,      \* the current lease, or NoLease
    nextFence,   \* fences handed out by this manager
    lastLeaseId, \* lease ids (fresh UUIDs) minted so far
    granted,     \* every lease identity a client may still present
    ended,       \* history: ids of the leases that have been replaced or dropped
    lastCommand  \* history: who sent the last command let through, and its fence

leaseVars == <<now, active, nextFence, lastLeaseId, granted, ended, lastCommand>>

NoLease == [leaseId |-> 0, clientId |-> Nobody, fence |-> 0, expiresAt |-> 0]
NoCommand == [clientId |-> Nobody, fence |-> 0]

Identity(l) == [leaseId |-> l.leaseId, clientId |-> l.clientId, fence |-> l.fence]
Identities == [leaseId : Nat \ {0}, clientId : Clients, fence : Nat \ {0}]
Leases == [leaseId : Nat \ {0}, clientId : Clients, fence : Nat \ {0}, expiresAt : Nat]

LeaseTypeOK ==
    /\ now \in Nat
    /\ active \in Leases \cup {NoLease}
    /\ nextFence \in Nat
    /\ lastLeaseId \in Nat
    /\ granted \subseteq Identities
    /\ ended \subseteq Nat
    /\ lastCommand \in [clientId : Clients, fence : Nat \ {0}] \cup {NoCommand}

LeaseInit ==
    /\ now = 0
    /\ active = NoLease
    /\ nextFence = 0
    /\ lastLeaseId = 0
    /\ granted = {}
    /\ ended = {}
    /\ lastCommand = NoCommand

-----------------------------------------------------------------------------

\* expire(), which every operation calls first.
Live == IF active.expiresAt <= now THEN NoLease ELSE active

\* Faulty variant of Matches: the lease id is not compared.
MatchesFenceOnly(c, l) ==
    /\ Live # NoLease
    /\ Live.clientId = c /\ Live.fence = l.fence

Matches(c, l) ==
    /\ Live # NoLease
    /\ Live.clientId = c /\ Live.leaseId = l.leaseId /\ Live.fence = l.fence

\* Every assignment to `active' goes through here, to keep the history.
SetActive(lease) ==
    /\ active' = lease
    /\ ended' = IF active # NoLease /\ lease.leaseId # active.leaseId
                THEN ended \cup {active.leaseId} ELSE ended

\* Faulty variant of Mint: the fence is read before it is counted up.
MintPostIncrement(c, ttl) ==
    /\ nextFence < MaxFence /\ lastLeaseId < MaxLeaseId
    /\ nextFence' = nextFence + 1
    /\ lastLeaseId' = lastLeaseId + 1
    /\ LET lease == [leaseId |-> lastLeaseId', clientId |-> c,
                     fence |-> nextFence, expiresAt |-> now + ttl]
       IN SetActive(lease) /\ granted' = granted \cup {Identity(lease)}

\* Faulty variant of Mint: a steal takes over the fence of the lease it ends.
MintKeepingFence(c, ttl) ==
    /\ nextFence < MaxFence /\ lastLeaseId < MaxLeaseId
    /\ nextFence' = nextFence + 1
    /\ lastLeaseId' = lastLeaseId + 1
    /\ LET lease == [leaseId |-> lastLeaseId', clientId |-> c,
                     fence |-> IF active = NoLease THEN nextFence' ELSE active.fence,
                     expiresAt |-> now + ttl]
       IN SetActive(lease) /\ granted' = granted \cup {Identity(lease)}

Mint(c, ttl) ==
    /\ nextFence < MaxFence /\ lastLeaseId < MaxLeaseId
    /\ nextFence' = nextFence + 1
    /\ lastLeaseId' = lastLeaseId + 1
    /\ LET lease == [leaseId |-> lastLeaseId', clientId |-> c,
                     fence |-> nextFence', expiresAt |-> now + ttl]
       IN SetActive(lease) /\ granted' = granted \cup {Identity(lease)}

-----------------------------------------------------------------------------

\* acquire by the holder: the same lease, for longer.
AcquireExtends(c) ==
    /\ Live # NoLease /\ Live.clientId = c
    /\ \E ttl \in Ttls : SetActive([Live EXCEPT !.expiresAt = now + ttl])
    /\ UNCHANGED <<now, nextFence, lastLeaseId, granted, lastCommand>>

\* acquire when nobody holds the source.
AcquireFree(c) ==
    /\ Live = NoLease
    /\ \E ttl \in Ttls : Mint(c, ttl)
    /\ UNCHANGED <<now, lastCommand>>

\* acquire with force while another client holds it: stolen, with a new fence.
AcquireSteals(c) ==
    /\ Live # NoLease /\ Live.clientId # c
    /\ \E ttl \in Ttls : Mint(c, ttl)
    /\ UNCHANGED <<now, lastCommand>>

\* renew by lease id and fence; on a mismatch only expire() has happened.
Renew(c, l) ==
    /\ Matches(c, l)
    /\ \E ttl \in Ttls : SetActive([Live EXCEPT !.expiresAt = now + ttl])
    /\ UNCHANGED <<now, nextFence, lastLeaseId, granted, lastCommand>>

\* A mutating command that passes requireLease.
Command(c, l) ==
    /\ Matches(c, l)
    /\ SetActive(Live)
    /\ lastCommand' = [clientId |-> c, fence |-> l.fence]
    /\ UNCHANGED <<now, nextFence, lastLeaseId, granted>>

\* hub_release_owner; a client may omit the lease id and the fence.
Release(c, l) ==
    /\ Live # NoLease /\ Live.clientId = c
    /\ \/ Live.leaseId = l.leaseId
       \/ Live.fence = l.fence        \* lease id omitted
    /\ SetActive(NoLease)
    /\ UNCHANGED <<now, nextFence, lastLeaseId, granted, lastCommand>>

\* The current socket of the client closed.
ReleaseClient(c) ==
    /\ Live # NoLease /\ Live.clientId = c
    /\ SetActive(NoLease)
    /\ UNCHANGED <<now, nextFence, lastLeaseId, granted, lastCommand>>

\* The lease timer; also all that a refused operation does.
Expire ==
    /\ Live # active
    /\ SetActive(Live)
    /\ UNCHANGED <<now, nextFence, lastLeaseId, granted, lastCommand>>

\* The record is removed (an offline desktop pruned) or the hub restarts: a
\* new manager counts fences from zero again.  The relay that comes back
\* registers with a new epoch and forgets the fences it has seen too.
ForgetLease ==
    /\ SetActive(NoLease)
    /\ nextFence' = 0
    /\ lastCommand' = NoCommand
    /\ UNCHANGED <<now, lastLeaseId, granted>>

Clock ==
    /\ now' \in 0 .. MaxTime
    /\ UNCHANGED <<active, nextFence, lastLeaseId, granted, ended, lastCommand>>

\* A client presents any identity it was ever given.
ClientStep(c) ==
    \/ AcquireExtends(c)
    \/ AcquireFree(c)
    \/ AcquireSteals(c)
    \/ ReleaseClient(c)
    \/ \E l \in granted : l.clientId = c /\ (Renew(c, l) \/ Command(c, l) \/ Release(c, l))

LeaseNext == (\E c \in Clients : ClientStep(c)) \/ Expire \/ ForgetLease \/ Clock

LeaseSpec == LeaseInit /\ [][LeaseNext]_leaseVars

-----------------------------------------------------------------------------

\* The lease in force is always the newest one minted: no operation lets an
\* older fence come back into force (mint, renew, release, expire).
ActiveIsNewest ==
    active # NoLease =>
        /\ active.fence = nextFence
        /\ active.leaseId = lastLeaseId
        /\ Identity(active) \in granted

\* A lease that was stolen, released, expired or lost with its manager never
\* validates again, not even when a later manager hands out the same fence
\* number to the same client.
EndedStaysEnded ==
    \A l \in granted : l.leaseId \in ended => \A c \in Clients : ~Matches(c, l)

\* Commands are let through in fence order, and a change of hands in between
\* always shows as a strictly higher fence: the relay can tell a late command
\* of the displaced phone from one of its successor.
CommandsFenced ==
    [][lastCommand # NoCommand /\ lastCommand' # NoCommand =>
           /\ lastCommand'.fence >= lastCommand.fence
           /\ lastCommand'.clientId # lastCommand.clientId =>
                  lastCommand'.fence > lastCommand.fence]_leaseVars
=============================================================================
