------------------------------ MODULE KvReplicas ------------------------------
(***************************************************************************)
(* The etcd stores of a multi-node cluster.  Puts and deletes reach every  *)
(* member's store through the committed log and the apply daemon (the log  *)
(* is RaftCore's; here it only grows).  The other write routes of          *)
(* routes.rs have no bridge: kv_txn, kv_compaction, lease_grant and        *)
(* lease_revoke act on the store of the member that was asked, and so does *)
(* the lease expiry task every member runs.                                *)
(***************************************************************************)
EXTENDS KvOps

CONSTANTS Node,
          Commands,    \* what clients propose through the bridge
          LocalTxns,   \* transactions sent to /v3/kv/txn
          Local,       \* the kinds of direct writes clients use
          MaxLog,      \* bound: committed commands
          MaxReplicaRev  \* bound: revisions a store takes

ASSUME LocalAssumption == Local \subseteq {"txn", "lease", "compact"}
ASSUME CommandAssumption ==
    \A c \in Commands : \/ c.op = "put" /\ c.key \in Key /\ c.val \in Value
                            /\ c.lease \in LeaseId \cup {NoLease}
                        \/ c.op = "delete"
ASSUME LocalTxnAssumption == \A t \in LocalTxns : {t.success, t.failure} \subseteq Seq(TxnOp)
ASSUME ReplicasBounds == MaxLog \in Nat /\ MaxReplicaRev \in Nat

VARIABLES log,       \* the committed commands
          replica,   \* each member's KvStore
          applied,   \* how much of the log each member has applied
          own        \* history: revision-taking direct writes of each member:
                     \*   the keys they changed, and how many there were

replicaVars == <<log, replica, applied, own>>

ReplicasInit ==
    /\ log = <<>>
    /\ replica = [n \in Node |-> FreshStore]
    /\ applied = [n \in Node |-> 0]
    /\ own = [n \in Node |-> [keys |-> {}, writes |-> 0]]

\* A proposal of kv_put or kv_delete_range commits.
Commit(c) ==
    /\ Len(log) < MaxLog
    /\ log' = Append(log, c)
    /\ UNCHANGED <<replica, applied, own>>

\* Mutant: a put whose lease the store does not know is refused.
ApplyOneChecksLease(s, c) ==
    CASE c.op = "put" ->
             IF c.lease \in DOMAIN s.leases \cup {NoLease} THEN {Put(s, c.key, c.val, c.lease)} ELSE {s}
      [] c.op = "delete" ->
             LET D == {k \in Live(s) : InRange(k, c.key, c.end)}
             IN  {DeleteRange(s, c.key, c.end, k) : k \in IF D = {} THEN {c.key} ELSE D}

\* apply_one on an etcd command: the stores it can leave.  (The order in
\* which a range's keys go decides only which tombstone history keeps.)
ApplyOne(s, c) ==
    CASE c.op = "put" -> {Put(s, c.key, c.val, c.lease)}
      [] c.op = "delete" ->
             LET D == {k \in Live(s) : InRange(k, c.key, c.end)}
             IN  {DeleteRange(s, c.key, c.end, k) : k \in IF D = {} THEN {c.key} ELSE D}

Apply(n) ==
    /\ applied[n] < Len(log)
    /\ applied' = [applied EXCEPT ![n] = @ + 1]
    /\ \E s \in ApplyOne(replica[n], log[applied[n] + 1]) : replica' = [replica EXCEPT ![n] = s]
    /\ replica'[n].rev <= MaxReplicaRev
    /\ UNCHANGED <<log, own>>

\* A direct write takes n's store to s.
Becomes(n, s) ==
    /\ s.rev <= MaxReplicaRev
    /\ replica' = [replica EXCEPT ![n] = s]
    /\ own' = [own EXCEPT ![n] =
          [keys |-> @.keys \cup {k \in Key : Row(s.current, k) # Row(replica[n].current, k)},
           writes |-> @.writes + (s.rev - replica[n].rev)]]
    /\ UNCHANGED <<log, applied>>

KvTxn(n, t) == "txn" \in Local /\ Becomes(n, Txn(replica[n], t))

KvCompaction(n, r) == "compact" \in Local /\ Becomes(n, DropHistory(replica[n], r))

\* With an id of the client's; one in use starts afresh.
GrantRoute(n, id) == "lease" \in Local /\ Becomes(n, LeaseGrant(replica[n], id, 1, 0))

\* The lease_revoke route, or expire_leases once the TTL has passed on n.
RevokeOrExpire(n, id) ==
    /\ id \in DOMAIN replica[n].leases
    /\ Becomes(n, LeaseRevoke(replica[n], id))

ReplicasNext ==
    \/ \E c \in Commands : Commit(c)
    \/ \E n \in Node :
          \/ Apply(n)
          \/ \E t \in LocalTxns : KvTxn(n, t)
          \/ KvCompaction(n, replica[n].rev)
          \/ \E id \in LeaseId : GrantRoute(n, id) \/ RevokeOrExpire(n, id)

ReplicasSpec == ReplicasInit /\ [][ReplicasNext]_replicaVars

-----------------------------------------------------------------------------
(* Properties *)

\* What clients can tell of a key that no revision number enters.
Seen(n, k) == [f \in {"val", "ver", "lease"} |-> Row(replica[n].current, k)[f]]

\* Members that have applied the same part of the log hold the same pairs at
\* the same revisions.
ReplicasAgree ==
    \A m, n \in Node : applied[m] = applied[n] =>
        /\ replica[m].current = replica[n].current
        /\ replica[m].rev = replica[n].rev

\* The most that is true with the direct routes in use: the members agree on
\* the value, version and lease of every key that neither of them changed
\* by itself, and on the revisions too when neither took one by itself.
AgreeUnlessOwn ==
    \A m, n \in Node : applied[m] = applied[n] =>
        /\ \A k \in Key \ (own[m].keys \cup own[n].keys) : Seen(m, k) = Seen(n, k)
        /\ own[m].writes = 0 /\ own[n].writes = 0 =>
               /\ replica[m].current = replica[n].current
               /\ replica[m].index = replica[n].index
               /\ replica[m].rev = replica[n].rev
=============================================================================
