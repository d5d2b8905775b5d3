-------------------------------- MODULE KvOps ---------------------------------
(***************************************************************************)
(* What each operation of cave-etcd's MVCC store (store.rs, KvStore) does  *)
(* to the store when nothing runs beside it.  A store is a record:         *)
(*   rev        the revision counter                                       *)
(*   current    live key -> its pair                                       *)
(*   index      key -> the revisions that touched it (key_index)           *)
(*   history    revision -> the one event kept for it                      *)
(*   compacted  compacted_revision                                         *)
(*   leases     lease id -> its attached keys, TTL and grant time          *)
(*   nextLease  lease_counter                                              *)
(* and two fields the code does not have, which the properties speak of:   *)
(*   past       past[r] is what `current` was right after revision r       *)
(*   lost       every history row below it has been dropped at some time   *)
(***************************************************************************)
EXTENDS Integers, SequencesExt, Functions

CONSTANTS Key,       \* keys, numbers so that a range has two ends
          Value,
          LeaseId,
          NoLease    \* a pair without a lease

ASSUME KeyAssumption == Key \subseteq Nat
ASSUME LeaseAssumption == LeaseId \subseteq Nat /\ NoLease \notin LeaseId

EmptyMap == [x \in {} |-> x]
Extend(f, x, y) == [z \in DOMAIN f \cup {x} |-> IF z = x THEN y ELSE f[z]]
Without(f, S) == Restrict(f, DOMAIN f \ S)

\* Vec::retain: what of s is not in D, in its order.  (This and the other
\* loops over a list are functions of the position, with which proofs can
\* go from one position to the next.)
Dropping(s, D) ==
    LET kept[i \in 0..Len(s)] ==
            IF i = 0 THEN <<>>
            ELSE IF s[i] \in D THEN kept[i - 1] ELSE Append(kept[i - 1], s[i])
    IN  kept[Len(s)]

FreshStore ==
    [rev |-> 1, current |-> EmptyMap, index |-> [k \in Key |-> <<>>],
     history |-> EmptyMap, compacted |-> 0, leases |-> EmptyMap,
     nextLease |-> 1, past |-> <<EmptyMap>>, lost |-> 0]

Live(s) == DOMAIN s.current

\* What a client sees a key as when it is not there: every counter is 0.
Absent == [val |-> "none", create |-> 0, mod |-> 0, ver |-> 0, lease |-> NoLease]
Row(m, k) == IF k \in DOMAIN m THEN m[k] ELSE Absent

-----------------------------------------------------------------------------
(* Writes *)

\* Mutant: a put that names another lease leaves the key with the old one too.
ReattachKeepsOld(leases, k, old, new) ==
    [id \in DOMAIN leases |->
        IF id = new /\ ~Contains(leases[id].keys, k)
        THEN [leases[id] EXCEPT !.keys = Append(@, k)]
        ELSE leases[id]]

\* A put takes key k from the lease it had (if that differs) and adds it to
\* the one it names, provided that lease exists.
Reattach(leases, k, old, new) ==
    [id \in DOMAIN leases |->
        CASE id = new /\ ~Contains(leases[id].keys, k) ->
                 [leases[id] EXCEPT !.keys = Append(@, k)]
          [] id = old /\ id # new -> [leases[id] EXCEPT !.keys = Dropping(@, {k})]
          [] OTHER -> leases[id]]

\* Mutant: the version goes on counting, the creation does not.
NextKvCreates(prev, v, l, r) ==
    [val |-> v, mod |-> r, ver |-> prev.ver + 1, lease |-> l, create |-> r]

\* The pair a put at revision r writes over the pair prev.
NextKv(prev, v, l, r) ==
    [val |-> v, mod |-> r, ver |-> prev.ver + 1, lease |-> l,
     create |-> IF prev = Absent THEN r ELSE prev.create]

Put(s, k, v, l) ==
    LET r == s.rev + 1
        prev == Row(s.current, k)
        kv == NextKv(prev, v, l, r)
    IN  [s EXCEPT !.rev = r,
                  !.current = Extend(@, k, kv),
                  !.index[k] = Append(@, r),
                  !.history = Extend(@, r, [key |-> k, type |-> "put", kv |-> kv]),
                  !.leases = Reattach(@, k, prev.lease, l),
                  !.past = Append(@, Extend(s.current, k, kv))]

Tombstone(kv, r) ==
    [val |-> "none", create |-> kv.create, mod |-> r, ver |-> 0, lease |-> NoLease]

\* A delete takes each key of D from the lease its pair names.
DetachKeys(leases, D, rows) ==
    [id \in DOMAIN leases |->
        [leases[id] EXCEPT !.keys = Dropping(@, {k \in D : rows[k].lease = id})]]

\* Remove the keys D from `current` at revision r, which the caller has
\* taken.  All of them write the same history row: the one deleted last
\* stays in it.
RemoveKeys(s, D, r, last) ==
    [s EXCEPT !.rev = r,
              !.current = Without(@, D),
              !.index = [k \in Key |-> IF k \in D THEN Append(@[k], r) ELSE @[k]],
              !.history = IF D = {} THEN @
                          ELSE Extend(@, r, [key |-> last, type |-> "delete",
                                             kv |-> Tombstone(s.current[last], r)]),
              !.leases = DetachKeys(@, D, s.current),
              !.past = Append(@, Without(s.current, D))]

InRange(k, from, end) == from <= k /\ k < end

\* Mutant: the tombstones are written at the revision of the last write.
DeleteRangeReuses(s, from, end, last) ==
    RemoveKeys(s, {k \in Live(s) : InRange(k, from, end)}, s.rev, last)

\* delete_range takes a revision even when it finds nothing to delete.
DeleteRange(s, from, end, last) ==
    RemoveKeys(s, {k \in Live(s) : InRange(k, from, end)}, s.rev + 1, last)

-----------------------------------------------------------------------------
(* Reads *)

\* Mutant: the first index entry not above r, instead of the last.
GetAtFirst(s, k, r) ==
    LET i == SelectInSeq(s.index[k], LAMBDA x : x <= r)
        row == s.index[k][i]
    IN  IF \/ i = 0
           \/ row \notin DOMAIN s.history
           \/ s.history[row].type = "delete"
        THEN Absent
        ELSE s.history[row].kv

\* get_at_revision: the last index entry, in list order, that is not above
\* r, looked up in the history.
GetAt(s, k, r) ==
    LET i == SelectLastInSeq(s.index[k], LAMBDA x : x <= r)
        row == s.index[k][i]
    IN  IF \/ i = 0
           \/ row \notin DOMAIN s.history
           \/ s.history[row].type = "delete"
        THEN Absent
        ELSE s.history[row].kv

\* range at a revision refuses the compacted ones.
Readable(s, r) == ~(r < s.compacted /\ s.compacted > 0)

\* get_historical_events: the rows a watch from revision r replays.
Replayed(s, r) ==
    {x \in DOMAIN s.history : x >= r /\ x > s.compacted}

-----------------------------------------------------------------------------
(* Transactions: compare, then run one of the two lists of operations. *)

Holds(kv, c) ==
    LET left == CASE c.target = "version" -> kv.ver
                  [] c.target = "create"  -> kv.create
                  [] c.target = "mod"     -> kv.mod
                  [] c.target = "value"   -> kv.val
    IN  CASE c.result = "equal"    -> left = c.operand
          [] c.result = "notequal" -> left # c.operand
          [] c.result = "greater"  -> c.target = "value" \/ left > c.operand
          [] c.result = "less"     -> c.target = "value" \/ left < c.operand

\* The operations of a transaction that write.  `last` is not in the request:
\* it stands for the order in which the map gives the keys of a range.
TxnOp == [op : {"put"}, key : Key, val : Value, lease : LeaseId \cup {NoLease}]
         \cup [op : {"delete"}, key : Key, end : Nat, last : Key]

RunOp(s, op) ==
    IF op.op = "put" THEN Put(s, op.key, op.val, op.lease)
    ELSE LET D == {k \in Live(s) : InRange(k, op.key, op.end)}
             last == IF D = {} \/ op.last \in D THEN op.last ELSE CHOOSE k \in D : TRUE
         IN  DeleteRange(s, op.key, op.end, last)

Succeeds(s, compares) == \A c \in compares : Holds(Row(s.current, c.key), c)

RunOps(s, ops) ==
    LET after[i \in 0..Len(ops)] == IF i = 0 THEN s ELSE RunOp(after[i - 1], ops[i])
    IN  after[Len(ops)]

Txn(s, t) == RunOps(s, IF Succeeds(s, t.compares) THEN t.success ELSE t.failure)

-----------------------------------------------------------------------------
(* Leases *)

LeaseGrant(s, id, ttl, now) ==
    [s EXCEPT !.leases = Extend(@, id, [keys |-> <<>>, ttl |-> ttl, granted |-> now])]

\* One key of a revoked lease: its own revision, if the key is still live.
\* (Its lease is gone by now, so there is none to take it from.)
RevokeKey(s, k) ==
    IF k \in Live(s) THEN RemoveKeys(s, {k}, s.rev + 1, k) ELSE s

RevokeKeys(s, keys) ==
    LET after[i \in 0..Len(keys)] == IF i = 0 THEN s ELSE RevokeKey(after[i - 1], keys[i])
    IN  after[Len(keys)]

LeaseRevoke(s, id) == RevokeKeys([s EXCEPT !.leases = Without(@, {id})], s.leases[id].keys)

RevokeLeases(s, ids) ==
    LET after[i \in 0..Len(ids)] == IF i = 0 THEN s ELSE LeaseRevoke(after[i - 1], ids[i])
    IN  after[Len(ids)]

Expired(s, now) == {id \in DOMAIN s.leases : now - s.leases[id].granted >= s.leases[id].ttl}

-----------------------------------------------------------------------------
(* Compaction *)

DropHistory(s, r) ==
    [s EXCEPT !.history = RestrictDomain(@, LAMBDA x : x >= r),
              !.compacted = r,
              !.lost = IF r > @ THEN r ELSE @]

\* compact_v2 keeps, per key, the last index entry not above r.
PruneIndex(revs, r) ==
    LET split == Cardinality({i \in DOMAIN revs : revs[i] <= r})
    IN  IF split <= 1 THEN revs ELSE SubSeq(revs, split, Len(revs))

CompactV2(s, r) ==
    [DropHistory(s, r) EXCEPT !.index = [k \in Key |-> PruneIndex(@[k], r)]]

Defragment(s) ==
    [s EXCEPT !.index = [k \in Key |-> Dropping(@[k], 0..(s.compacted - 1))]]
=============================================================================
