------------------------------ MODULE LeaderLease ------------------------------
(***************************************************************************)
(* cave-kernel's LeaseManager with one lease, and the LeaderElector that   *)
(* each controller-manager replica drives over it.  A replica reads the    *)
(* clock, then calls: by the time it has the manager's lock the instant it *)
(* passes may be old.  A replica is as slow as it likes.                   *)
(***************************************************************************)
EXTENDS Naturals

CONSTANTS Replica, NoHolder,
          Ttl,
          MaxTime, MaxRevision       \* bounds

ASSUME LeaseAssumption ==
    NoHolder \notin Replica /\ Ttl \in Nat \ {0} /\ MaxTime \in Nat /\ MaxRevision \in Nat

VARIABLES
    now,
    lease,          \* the lease, or one with no holder if there is none
    nextRevision,
    at,             \* replica -> the instant it has read, or none
    role,           \* replica -> what its last call told it
    grant           \* replica -> the last grant it was given: until when, at what revision

leaseVars == <<now, lease, nextRevision, at, role, grant>>

Free == [holder |-> NoHolder, expires |-> 0, revision |-> 0]
NoGrant == [until |-> 0, revision |-> 0]
NotRead == MaxTime + 1

LeaseInit ==
    /\ now = 0
    /\ lease = Free
    /\ nextRevision = 0
    /\ at = [r \in Replica |-> NotRead]
    /\ role = [r \in Replica |-> "standby"]
    /\ grant = [r \in Replica |-> NoGrant]

ReadClock(r) ==
    /\ at[r] = NotRead
    /\ at' = [at EXCEPT ![r] = now]
    /\ UNCHANGED <<now, lease, nextRevision, role, grant>>

CallWith(r) ==
    /\ at[r] # NotRead
    /\ at' = [at EXCEPT ![r] = NotRead]

\* Mutant: a takeover keeps the lease's revision.
AcquireSameRevision(r) ==
    /\ CallWith(r)
    /\ IF lease.holder \notin {NoHolder, r} /\ lease.expires > at[r]
       THEN role' = [role EXCEPT ![r] = "standby"] /\ UNCHANGED <<lease, nextRevision, grant>>
       ELSE /\ nextRevision < MaxRevision
            /\ nextRevision' = IF lease.holder = NoHolder THEN nextRevision + 1 ELSE nextRevision
            /\ lease' = [holder |-> r, expires |-> at[r] + Ttl, revision |-> nextRevision']
            /\ role' = [role EXCEPT ![r] = "leader"]
            /\ grant' = [grant EXCEPT ![r] = [until |-> at[r] + Ttl, revision |-> nextRevision']]
    /\ UNCHANGED now

\* LeaderElector::acquire: refused while another holds an unexpired lease.
Acquire(r) ==
    /\ CallWith(r)
    /\ IF lease.holder \notin {NoHolder, r} /\ lease.expires > at[r]
       THEN role' = [role EXCEPT ![r] = "standby"] /\ UNCHANGED <<lease, nextRevision, grant>>
       ELSE /\ nextRevision < MaxRevision
            /\ nextRevision' = nextRevision + 1
            /\ lease' = [holder |-> r, expires |-> at[r] + Ttl, revision |-> nextRevision + 1]
            /\ role' = [role EXCEPT ![r] = "leader"]
            /\ grant' = [grant EXCEPT ![r] = [until |-> at[r] + Ttl, revision |-> nextRevision + 1]]
    /\ UNCHANGED now

\* Mutant: the holder is not looked at.
RenewAnyone(r) ==
    /\ role[r] = "leader" /\ CallWith(r)
    /\ lease.holder # NoHolder
    /\ lease' = [lease EXCEPT !.expires = at[r] + Ttl]
    /\ grant' = [grant EXCEPT ![r].until = at[r] + Ttl]
    /\ UNCHANGED <<now, nextRevision, role>>

\* LeaderElector::renew, by a leader: the lease slides if it is still its
\* own, expired or not; if it is gone or another's the leader steps down.
Renew(r) ==
    /\ role[r] = "leader" /\ CallWith(r)
    /\ IF lease.holder = r
       THEN /\ lease' = [lease EXCEPT !.expires = at[r] + Ttl]
            /\ grant' = [grant EXCEPT ![r].until = at[r] + Ttl]
            /\ UNCHANGED role
       ELSE /\ role' = [role EXCEPT ![r] = "standby"]
            /\ grant' = [grant EXCEPT ![r] = NoGrant]
            /\ UNCHANGED lease
    /\ UNCHANGED <<now, nextRevision>>

\* LeaderElector::release at shutdown.
Release(r) ==
    /\ role[r] = "leader"
    /\ lease' = IF lease.holder = r THEN Free ELSE lease
    /\ role' = [role EXCEPT ![r] = "standby"]
    /\ grant' = [grant EXCEPT ![r] = NoGrant]
    /\ UNCHANGED <<now, nextRevision, at>>

\* sweep_expired, with an instant of its own replica's.
Sweep(r) ==
    /\ CallWith(r)
    /\ lease' = IF lease.expires > at[r] THEN lease ELSE Free
    /\ UNCHANGED <<now, nextRevision, role, grant>>

LeaseTick ==
    /\ now < MaxTime
    /\ now' = now + 1
    /\ UNCHANGED <<lease, nextRevision, at, role, grant>>

LeaseNext ==
    \/ \E r \in Replica : ReadClock(r) \/ Acquire(r) \/ Renew(r) \/ Release(r) \/ Sweep(r)
    \/ LeaseTick

LeaseSpec == LeaseInit /\ [][LeaseNext]_leaseVars

-----------------------------------------------------------------------------
(* Properties *)

\* Replicas that check their own grant against the clock are never two: while
\* one's grant has not run out, no other has one that has not, although calls
\* arrive late and an expired lease may still be renewed.
OneUnexpiredGrant ==
    \A a, b \in Replica :
        (grant[a].until > now /\ grant[b].until > now) => a = b

\* "Lets a caller detect lease takeovers" (lease.rs): a replica that finds its
\* own revision on the lease is still the holder.
RevisionTellsTakeover ==
    \A r \in Replica :
        (grant[r] # NoGrant /\ lease.revision = grant[r].revision) => lease.holder = r

\* "at most one controller-manager replica is the active leader, the others
\* stand by" (leader_election.rs), by the role each was last told.
AtMostOneLeader ==
    \A a, b \in Replica : (role[a] = "leader" /\ role[b] = "leader") => a = b
=============================================================================
