--------------------------------- MODULE MCKv ---------------------------------
(***************************************************************************)
(* Model-checking instances of the etcd store: one caller at a time, with  *)
(* and without leases (KvStore), concurrent callers (KvConcurrent), and    *)
(* the members of a cluster (KvReplicas).  The parts share no state: a     *)
(* behaviour belongs to one of them and leaves the others' variables as    *)
(* they start.                                                             *)
(***************************************************************************)
EXTENDS KvStore, KvConcurrent, KvReplicas

CONSTANT Parts       \* the parts to be explored
ASSUME PartsAssumption == Parts \subseteq {"history", "leases", "calls", "replicas"}

VARIABLE part

Symmetric == Permutations(Caller) \cup Permutations(Node)

-----------------------------------------------------------------------------
(* What clients send *)

Ask(k, target, result, operand) ==
    [key |-> k, target |-> target, result |-> result, operand |-> operand]
PutOp(k, v) == [op |-> "put", key |-> k, val |-> v, lease |-> NoLease]
DeleteOp(k) == [op |-> "delete", key |-> k, end |-> k + 1, last |-> k]
DeleteAll(last) == [op |-> "delete", key |-> 1, end |-> 3, last |-> last]

\* Create-if-absent, compare-and-swap on the revision, and one whose
\* failure branch writes and deletes a range.
MCTxns ==
    {[compares |-> {Ask(1, "create", "equal", 0)},
      success |-> <<PutOp(1, "a")>>, failure |-> <<>>],
     [compares |-> {Ask(1, "mod", "less", 3), Ask(2, "version", "greater", 0)},
      success |-> <<DeleteOp(2), PutOp(2, "a")>>, failure |-> <<PutOp(1, "a"), DeleteAll(1)>>],
     [compares |-> {Ask(2, "value", "notequal", "a")},
      success |-> <<PutOp(2, "a"), PutOp(1, "a")>>, failure |-> <<DeleteAll(2)>>]}

\* On a member of the cluster: either branch writes.
MCLocalTxns ==
    {[compares |-> {Ask(1, "version", "equal", 1)},
      success |-> <<DeleteAll(2)>>, failure |-> <<PutOp(2, "a")>>]}

MCCommands ==
    {[op |-> "put", key |-> 1, val |-> "a", lease |-> NoLease],
     [op |-> "put", key |-> 2, val |-> "a", lease |-> 2],
     [op |-> "delete", key |-> 1, end |-> 3]}

CallPut(k, l) == [op |-> "put", key |-> k, end |-> 0, lease |-> l]
CallDelete(k) == [op |-> "delete", key |-> k, end |-> 0, lease |-> NoLease]
CallRange(k, e) == [op |-> "range", key |-> k, end |-> e, lease |-> NoLease]
Plain(o) == [op |-> "plain", lease |-> NoLease, compares |-> <<>>, success |-> <<o>>, failure |-> <<>>]
TxnCall(compares, success, failure) ==
    [op |-> "txn", lease |-> NoLease, compares |-> compares, success |-> success, failure |-> failure]
Revoke(l) == [op |-> "revoke", lease |-> l, compares |-> <<>>, success |-> <<>>, failure |-> <<>>]

\* Every kind of plain call, and two transactions: one creates both keys if
\* the first is absent and deletes both otherwise, the other writes over the
\* first key if both are there and else deletes the second.
MCJobs ==
    {Plain(CallPut(1, 2)), Plain(CallDelete(1)), Plain(CallRange(1, 3)), Revoke(2),
     TxnCall(<<Ask(1, "create", "equal", 0)>>,
             <<CallPut(1, NoLease), CallPut(2, NoLease)>>, <<CallRange(1, 3)>>),
     TxnCall(<<Ask(1, "mod", "greater", 0), Ask(2, "version", "equal", 1)>>,
             <<CallPut(1, NoLease)>>, <<CallDelete(2)>>)}

-----------------------------------------------------------------------------
Init == part \in Parts /\ KvInit /\ CallsInit /\ ReplicasInit

\* No leases, no clock.
HistoryNext ==
    /\ KvNext
    /\ now' = 0 /\ store'.leases = EmptyMap
    /\ \A k \in Live(store') : store'.current[k].lease = NoLease

\* No compaction, fewer revisions.
LeasesNext ==
    /\ KvNext
    /\ store'.rev <= 4 /\ store'.compacted = 0 /\ store'.lost = 0

\* A watch stream, which nothing else depends on, is followed through the
\* first revision, and calls that are no transactions through the third.
ShortNext ==
    /\ CallsNext
    /\ stream'.state = "closed" \/ rev' <= 2
    /\ ~plain' \/ rev' <= 4

\* One lease id.
OneLeaseNext ==
    /\ ReplicasNext
    /\ \A n \in Node : DOMAIN replica'[n].leases \subseteq {2}

Next ==
    /\ UNCHANGED part
    /\ \/ /\ \/ part = "history" /\ HistoryNext
             \/ part = "leases" /\ LeasesNext
          /\ UNCHANGED <<callVars, replicaVars>>
       \/ /\ part = "calls" /\ ShortNext
          /\ UNCHANGED <<kvVars, replicaVars>>
       \/ /\ part = "replicas" /\ OneLeaseNext
          /\ UNCHANGED <<kvVars, callVars>>

Spec == Init /\ [][Next]_<<part, kvVars, callVars, replicaVars>>
=============================================================================
