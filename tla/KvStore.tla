------------------------------- MODULE KvStore --------------------------------
(***************************************************************************)
(* cave-etcd's KvStore with one caller at a time, as the apply daemon or a *)
(* single client drives it: every operation of store.rs is one step.  The  *)
(* interleavings of several callers are in KvConcurrent.                   *)
(***************************************************************************)
EXTENDS KvOps

CONSTANTS Ttl,        \* the TTL every lease is granted with, in ticks
          Txns,       \* the transactions clients send
          Compactions,    \* the revisions compact is called with
          CompactionsV2,  \* the revisions compact_v2 is called with
          MaxRev,     \* bound: revisions used
          MaxNow      \* bound: clock ticks

ASSUME StoreBounds == Ttl \in Nat /\ MaxRev \in Nat \ {0} /\ MaxNow \in Nat
                      /\ Compactions \cup CompactionsV2 \subseteq 0..MaxRev
ASSUME TxnAssumption == \A t \in Txns : {t.success, t.failure} \subseteq Seq(TxnOp)

VARIABLES store,
          now         \* the wall clock

kvVars == <<store, now>>

KvInit == store = FreshStore /\ now = 0

\* Every step stays within the revisions of the model.
Bounded == store'.rev <= MaxRev

DoPut(k, v, l) ==
    /\ store' = Put(store, k, v, l)
    /\ Bounded
    /\ UNCHANGED now

\* The keys of a range are deleted in the order the map iterates over them.
DoDeleteRange(from, end) ==
    LET D == {k \in Live(store) : InRange(k, from, end)}
    IN  /\ \E last \in (IF D = {} THEN {from} ELSE D) :
               store' = DeleteRange(store, from, end, last)
        /\ Bounded
        /\ UNCHANGED now

DoTxn(t) ==
    /\ store' = Txn(store, t)
    /\ Bounded
    /\ UNCHANGED now

\* lease_grant with an id from the client, or with the next one of the
\* counter.  An id in use is granted again: the lease starts afresh.
DoLeaseGrant ==
    /\ \/ \E id \in LeaseId : store' = LeaseGrant(store, id, Ttl, now)
       \/ /\ store.nextLease + 1 \in LeaseId
          /\ store' = [LeaseGrant(store, store.nextLease + 1, Ttl, now)
                          EXCEPT !.nextLease = @ + 1]
    /\ UNCHANGED now

\* lease_grant_v2 refuses an id in use.
DoLeaseGrantV2(id) ==
    /\ id \notin DOMAIN store.leases
    /\ store' = LeaseGrant(store, id, Ttl, now)
    /\ UNCHANGED now

DoLeaseRevoke(id) ==
    /\ id \in DOMAIN store.leases
    /\ store' = LeaseRevoke(store, id)
    /\ Bounded
    /\ UNCHANGED now

DoKeepAlive(id) ==
    /\ id \in DOMAIN store.leases
    /\ store' = [store EXCEPT !.leases[id].granted = now]
    /\ UNCHANGED now

\* expire_leases: one run of the background task, over all expired leases.
ExpireLeases ==
    /\ Expired(store, now) # {}
    /\ \E order \in SetToSeqs(Expired(store, now)) :
           store' = RevokeLeases(store, order)
    /\ Bounded
    /\ UNCHANGED now

\* compact, the one the HTTP route calls: any revision, forward or back.
DoCompact(r) ==
    /\ store' = DropHistory(store, r)
    /\ UNCHANGED now

DoCompactV2(r) ==
    /\ r > 0 /\ r <= store.rev /\ r > store.compacted
    /\ store' = CompactV2(store, r)
    /\ UNCHANGED now

DoDefragment ==
    /\ store' = Defragment(store)
    /\ UNCHANGED now

Tick ==
    /\ now < MaxNow
    /\ now' = now + 1
    /\ UNCHANGED store

KvNext ==
    \/ \E k \in Key, v \in Value, l \in LeaseId \cup {NoLease} : DoPut(k, v, l)
    \/ \E k \in Key, e \in Key \cup {Cardinality(Key) + 1} : DoDeleteRange(k, e)
    \/ \E t \in Txns : DoTxn(t)
    \/ DoLeaseGrant
    \/ \E id \in LeaseId : DoLeaseGrantV2(id) \/ DoLeaseRevoke(id) \/ DoKeepAlive(id)
    \/ ExpireLeases
    \/ \E r \in Compactions : DoCompact(r)
    \/ \E r \in CompactionsV2 : DoCompactV2(r)
    \/ DoDefragment
    \/ Tick

KvSpec == KvInit /\ [][KvNext]_kvVars

-----------------------------------------------------------------------------
(* Properties *)

Kv == [val : Value, create : Nat, mod : Nat, ver : Nat, lease : LeaseId \cup {NoLease}]

\* The type of the store: counters are natural numbers, only live keys have
\* a pair, only granted ids have a lease, and every revision left a past.
TypeOK ==
    /\ store.rev \in 1..MaxRev /\ store.compacted \in 0..MaxRev /\ now \in 0..MaxNow
    /\ Live(store) \subseteq Key /\ \A k \in Live(store) : store.current[k] \in Kv
    /\ store.index \in [Key -> Seq(2..store.rev)]
    /\ DOMAIN store.history \subseteq 2..store.rev
    /\ DOMAIN store.leases \subseteq LeaseId
    /\ Len(store.past) = store.rev

\* Time travel (range_at_revision): a read at a revision no compaction has
\* passed returns the pair the key had right after that revision, or, for a
\* pair older than the compaction, nothing; it never returns another pair.
ReadAtPast ==
    \A r \in store.lost..store.rev, k \in Key :
        r >= 1 =>
            LET then == Row(store.past[r], k)
            IN  \/ GetAt(store, k, r) = then
                \/ GetAt(store, k, r) = Absent /\ then.mod < store.lost

\* compact_v2's promise (store.rs: "keep the latest sub-revision so a read
\* at `revision` still sees the key"): every readable revision that no
\* compaction has passed shows each key as it was.
CompactionKeepsLatest ==
    \A r \in store.lost..store.rev, k \in Key :
        r >= 1 => GetAt(store, k, r) = Row(store.past[r], k)

\* "Reading at compacted revision should fail" (store.rs, tests): a read at
\* a revision whose rows a compaction has dropped is refused, rather than
\* answered as if the key had not been there.
CompactedReadFails ==
    \A r \in 1..store.rev, k \in Key :
        (r < store.lost /\ Readable(store, r)) => GetAt(store, k, r) = Row(store.past[r], k)

\* A pair's create_revision and version tell the truth: the key has been
\* live without a break since the revision that created it, was not there
\* just before, and was put `version` times since.
PairTellsItsLife ==
    \A k \in Live(store) :
        LET kv == store.current[k]
            puts == {r \in kv.create..store.rev : Row(store.past[r], k).mod = r}
        IN  /\ \A r \in kv.create..store.rev : Row(store.past[r], k).create = kv.create
            /\ k \notin DOMAIN store.past[kv.create - 1]
            /\ kv.ver = Cardinality(puts)

\* A lease never owns a key that now belongs to another lease, to none, or
\* is gone: a revoke or an expiry deletes only what the lease still holds.
LeaseOwnsItsKeys ==
    \A id \in DOMAIN store.leases :
        \A k \in ToSet(store.leases[id].keys) :
            k \in Live(store) /\ store.current[k].lease = id

\* The watch replay (get_historical_events, tests: a watch "includes delete
\* events in replay"): the rows replayed from the revision after r carry
\* every key from what it was at r to what it is now.
ReplayCoversChanges ==
    \A r \in 1..store.rev, k \in Key :
        (r >= store.lost /\ r >= store.compacted /\ Row(store.past[r], k) # Row(store.current, k)) =>
            \E x \in Replayed(store, r + 1) : store.history[x].key = k
=============================================================================
