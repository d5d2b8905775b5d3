----------------------------- MODULE KvConcurrent -----------------------------
(***************************************************************************)
(* cave-etcd's KvStore with several callers at once: HTTP handlers run on  *)
(* a thread pool, the lease expirer in its own task.  put, delete_range    *)
(* and lease_revoke touch revision, current, leases, key_index, history    *)
(* and the watch channel one after another, each atomically and nothing    *)
(* across them; txn holds txn_lock from its first compare to its last      *)
(* operation, which only other transactions take.                          *)
(***************************************************************************)
EXTENDS KvOps

CONSTANTS Caller,
          Jobs,       \* the calls that callers make
          StartLeases,\* the leases granted before, none with keys
          MaxCallRev  \* bound: revisions used

\* An operation: a put, or a delete of one key or of a range.  (A get inside
\* a transaction is skipped by the code.)
CallOp == [op : {"put", "delete", "range"}, key : Key, end : Nat, lease : LeaseId \cup {NoLease}]

\* A call is one operation ("plain"), a transaction that compares one pair
\* after the other and runs one of two lists of operations, or the revoke
\* of a lease.
ASSUME JobAssumption ==
    \A j \in Jobs : /\ j.op \in {"plain", "txn", "revoke"} /\ j.lease \in LeaseId \cup {NoLease}
                    /\ j.success \in Seq(CallOp) /\ j.failure \in Seq(CallOp)
                    /\ j.op = "plain" => Len(j.success) = 1
ASSUME LimitAssumption == StartLeases \subseteq LeaseId /\ MaxCallRev \in Nat

Free == "free"
ASSUME CallerAssumption == Free \notin Caller
ASSUME ValueAssumption == "a" \in Value   \* every put here writes the same value

VARIABLES
    rev, current, index, history,
    leases,      \* lease id -> the set of its attached keys
    feed,        \* the events sent to the watch channel, in order
    lock,        \* who holds txn_lock
    pc,          \* caller -> its next step
    job,         \* caller -> its call and its local variables
    stream,      \* one watch_stream over all keys, from revision 2
    plain        \* whether a call was made that is no transaction (not in the code)

storeVars == <<rev, current, index, history, leases, feed>>
callVars == <<storeVars, lock, pc, job, stream, plain>>

NoCall == [op |-> "none", lease |-> NoLease, compares |-> <<>>, success |-> <<>>, failure |-> <<>>]
NoOp == [op |-> "none", key |-> 0, end |-> 0, lease |-> NoLease]

\* The locals of a call: the compares and the operations that are left, the
\* operation under way, its revision, the key it is at and the pair it found
\* there, the keys it has yet to look for and those it has yet to delete.
NoJob == [call |-> NoCall, asks |-> <<>>, todo |-> <<>>, op |-> NoOp, rev |-> 0,
          key |-> 0, prev |-> Absent, scan |-> {}, left |-> {}]

CallsInit ==
    /\ rev = 1
    /\ current = EmptyMap
    /\ index = [k \in Key |-> <<>>]
    /\ history = EmptyMap
    /\ leases = [id \in StartLeases |-> {}]
    /\ feed = <<>>
    /\ lock = Free
    /\ pc = [c \in Caller |-> "idle"]
    /\ job = [c \in Caller |-> NoJob]
    /\ stream = [state |-> "closed", seen |-> {}]
    /\ plain = FALSE

Goto(c, step) == pc' = [pc EXCEPT ![c] = step]
Deleting(c) == job[c].op.op # "put"

-----------------------------------------------------------------------------
(* Starting and ending a call *)

\* put or delete_range, called by a handler or by the apply daemon.
Begin(c, j) ==
    /\ pc[c] = "idle" /\ j.op = "plain"
    /\ job' = [job EXCEPT ![c] = [NoJob EXCEPT !.call = j, !.todo = j.success]]
    /\ plain' = TRUE
    /\ Goto(c, "next")
    /\ UNCHANGED <<storeVars, lock, stream>>

\* Mutant: transactions do not take the lock.
BeginTxnUnlocked(c, j) ==
    /\ pc[c] = "idle" /\ j.op = "txn"
    /\ job' = [job EXCEPT ![c] = [NoJob EXCEPT !.call = j, !.asks = j.compares]]
    /\ Goto(c, "compare")
    /\ UNCHANGED <<storeVars, lock, stream, plain>>

\* txn: lock, then compare.
BeginTxn(c, j) ==
    /\ pc[c] = "idle" /\ j.op = "txn" /\ lock = Free
    /\ lock' = c
    /\ job' = [job EXCEPT ![c] = [NoJob EXCEPT !.call = j, !.asks = j.compares]]
    /\ Goto(c, "compare")
    /\ UNCHANGED <<storeVars, stream, plain>>

\* One compare after the other, each a read of `current`; the first that
\* does not hold chooses the failure list.
Compare(c) ==
    LET x == Head(job[c].asks)
        Choose(ops) == Goto(c, "next") /\ job' = [job EXCEPT ![c].asks = <<>>, ![c].todo = ops]
    IN  /\ pc[c] = "compare"
        /\ \/ job[c].asks = <<>> /\ Choose(job[c].call.success)
           \/ job[c].asks # <<>> /\ ~Holds(Row(current, x.key), x) /\ Choose(job[c].call.failure)
           \/ /\ job[c].asks # <<>> /\ Holds(Row(current, x.key), x)
              /\ job' = [job EXCEPT ![c].asks = Tail(@)]
              /\ UNCHANGED pc
        /\ UNCHANGED <<storeVars, lock, stream, plain>>

\* lease_revoke, by a client or the expirer: the lease is gone first, then
\* its keys are deleted one by one.  (The list's order is left open.)
BeginRevoke(c, j) ==
    /\ pc[c] = "idle" /\ j.op = "revoke" /\ j.lease \in DOMAIN leases
    /\ leases' = Without(leases, {j.lease})
    /\ job' = [job EXCEPT ![c] = [NoJob EXCEPT !.call = j, !.op = [NoOp EXCEPT !.op = "revoke", !.lease = j.lease],
                                               !.left = leases[j.lease]]]
    /\ plain' = TRUE
    /\ Goto(c, "remove")
    /\ UNCHANGED <<rev, current, index, history, feed, lock, stream>>

\* Operation o as it begins, with the revision it has taken.
Started(j, o, r) ==
    [call |-> j.call, asks |-> <<>>, todo |-> Tail(j.todo), op |-> o, rev |-> r,
     key |-> o.key, prev |-> Absent,
     scan |-> IF o.op = "range" THEN {k \in Key : InRange(k, o.key, o.end)} ELSE {},
     left |-> IF o.op = "delete" THEN {o.key} ELSE {}]

FirstStep == [put |-> "read", delete |-> "remove", range |-> "scan"]

\* Mutant: current_revision where next_revision belongs.
NextOpShared(c) ==
    LET o == Head(job[c].todo)
    IN  /\ pc[c] = "next" /\ job[c].todo # <<>> /\ rev < MaxCallRev
        /\ job' = [job EXCEPT ![c] = Started(@, o, rev)]
        /\ Goto(c, FirstStep[o.op])
        /\ UNCHANGED <<storeVars, lock, stream, plain>>

\* put and delete_range begin with next_revision.
NextOp(c) ==
    LET o == Head(job[c].todo)
    IN  /\ pc[c] = "next" /\ job[c].todo # <<>> /\ rev < MaxCallRev
        /\ rev' = rev + 1
        /\ job' = [job EXCEPT ![c] = Started(@, o, rev + 1)]
        /\ Goto(c, FirstStep[o.op])
        /\ UNCHANGED <<current, index, history, leases, feed, lock, stream, plain>>

\* The call returns; a transaction's guard is dropped.
EndCall(c) ==
    /\ pc[c] = "next" /\ job[c].todo = <<>>
    /\ lock' = IF lock = c THEN Free ELSE lock
    /\ job' = [job EXCEPT ![c] = NoJob]
    /\ Goto(c, "idle")
    /\ UNCHANGED <<storeVars, stream, plain>>

-----------------------------------------------------------------------------
(* The steps of put *)

ReadPrev(c) ==
    /\ pc[c] = "read"
    /\ job' = [job EXCEPT ![c].prev = Row(current, job[c].key)]
    /\ Goto(c, "detach")
    /\ UNCHANGED <<storeVars, lock, stream, plain>>

\* The old lease, if it still exists and is not the new one, loses the key.
Detach(c) ==
    LET old == job[c].prev.lease
    IN  /\ pc[c] = "detach"
        /\ leases' = [id \in DOMAIN leases |->
                         IF id = old /\ (Deleting(c) \/ old # job[c].op.lease)
                         THEN leases[id] \ {job[c].key} ELSE leases[id]]
        /\ Goto(c, IF Deleting(c) THEN "index" ELSE "insert")
        /\ UNCHANGED <<rev, current, index, history, feed, lock, job, stream, plain>>

\* The pair that caller c's put writes.
NewKv(c) == NextKv(job[c].prev, "a", job[c].op.lease, job[c].rev)

Insert(c) ==
    /\ pc[c] = "insert"
    /\ current' = Extend(current, job[c].key, NewKv(c))
    /\ Goto(c, "index")
    /\ UNCHANGED <<rev, index, history, leases, feed, lock, job, stream, plain>>

\* The new lease, if there is one by now, gets the key.
Attach(c) ==
    /\ pc[c] = "attach"
    /\ leases' = [id \in DOMAIN leases |->
                     IF id = job[c].op.lease THEN leases[id] \cup {job[c].key} ELSE leases[id]]
    /\ Goto(c, "dispatch")
    /\ UNCHANGED <<rev, current, index, history, feed, lock, job, stream, plain>>

-----------------------------------------------------------------------------
(* The steps of delete_range and lease_revoke *)

\* delete_range of a range first goes through `current`, which others may
\* change meanwhile, and notes the keys it meets.
Visit(c) ==
    /\ pc[c] = "scan"
    /\ \/ \E k \in job[c].scan :
             /\ job' = [job EXCEPT ![c].scan = @ \ {k}, ![c].left = @ \cup ({k} \cap DOMAIN current)]
             /\ UNCHANGED pc
       \/ job[c].scan = {} /\ Goto(c, "remove") /\ UNCHANGED job
    /\ UNCHANGED <<storeVars, lock, stream, plain>>

\* The next key, whatever it holds by now: a revoke takes a revision for
\* each key, delete_range has taken one for all.  A key that is gone is
\* passed over.
RemoveKey(c) ==
    /\ pc[c] = "remove"
    /\ \/ \E k \in job[c].left \cap DOMAIN current :
             /\ current' = Without(current, {k})
             /\ job' = [job EXCEPT ![c].left = @ \ {k}, ![c].key = k, ![c].prev = current[k]]
             /\ Goto(c, IF job[c].op.op = "revoke" THEN "take" ELSE "detach")
       \/ \E k \in job[c].left \ DOMAIN current :
             /\ job' = [job EXCEPT ![c].left = @ \ {k}]
             /\ UNCHANGED <<current, pc>>
       \/ job[c].left = {} /\ Goto(c, "next") /\ UNCHANGED <<current, job>>
    /\ UNCHANGED <<rev, index, history, leases, feed, lock, stream, plain>>

TakeRevision(c) ==
    /\ pc[c] = "take" /\ rev < MaxCallRev
    /\ rev' = rev + 1
    /\ job' = [job EXCEPT ![c].rev = rev + 1]
    /\ Goto(c, "index")
    /\ UNCHANGED <<current, index, history, leases, feed, lock, stream, plain>>

-----------------------------------------------------------------------------
(* The steps that put, delete_range and lease_revoke share *)

\* Mutant: a delete leaves the key's index as it is.
IndexPushPuts(c) ==
    /\ pc[c] = "index"
    /\ index' = IF Deleting(c) THEN index ELSE [index EXCEPT ![job[c].key] = Append(@, job[c].rev)]
    /\ Goto(c, "history")
    /\ UNCHANGED <<rev, current, history, leases, feed, lock, job, stream, plain>>

IndexPush(c) ==
    /\ pc[c] = "index"
    /\ index' = [index EXCEPT ![job[c].key] = Append(@, job[c].rev)]
    /\ Goto(c, "history")
    /\ UNCHANGED <<rev, current, history, leases, feed, lock, job, stream, plain>>

\* What the history keeps of the write and the watch channel carries.  `op`,
\* the operation it belongs to, is not in the code.
EventOf(c) ==
    [key |-> job[c].key, prev |-> job[c].prev,
     type |-> IF Deleting(c) THEN "delete" ELSE "put",
     kv |-> IF Deleting(c) THEN Tombstone(job[c].prev, job[c].rev) ELSE NewKv(c),
     op |-> job[c].op]

\* The keys of one delete_range have one revision: each row replaces the
\* one before.
HistoryInsert(c) ==
    /\ pc[c] = "history"
    /\ history' = Extend(history, job[c].rev, EventOf(c))
    /\ Goto(c, IF Deleting(c) THEN "dispatch" ELSE "attach")
    /\ UNCHANGED <<rev, current, index, leases, feed, lock, job, stream, plain>>

\* The event reaches the channel and every stream that is subscribed; a
\* delete goes on to its next key.
Dispatch(c) ==
    /\ pc[c] = "dispatch"
    /\ feed' = Append(feed, EventOf(c))
    /\ stream' = IF stream.state = "live"
                 THEN [stream EXCEPT !.seen = @ \cup {job[c].rev}] ELSE stream
    /\ Goto(c, IF Deleting(c) THEN "remove" ELSE "next")
    /\ UNCHANGED <<rev, current, index, history, leases, lock, job, plain>>

-----------------------------------------------------------------------------
(* watch_stream: replay the history, then subscribe to the channel. *)

Replay ==
    /\ stream.state = "closed"
    /\ stream' = [state |-> "replayed", seen |-> DOMAIN history]
    /\ UNCHANGED <<storeVars, lock, pc, job, plain>>

Subscribe ==
    /\ stream.state = "replayed"
    /\ stream' = [stream EXCEPT !.state = "live"]
    /\ UNCHANGED <<storeVars, lock, pc, job, plain>>

Step(c) ==
    \/ \E j \in Jobs : Begin(c, j) \/ BeginTxn(c, j) \/ BeginRevoke(c, j)
    \/ Compare(c) \/ NextOp(c) \/ EndCall(c)
    \/ ReadPrev(c) \/ Detach(c) \/ Insert(c) \/ Attach(c)
    \/ Visit(c) \/ RemoveKey(c) \/ TakeRevision(c)
    \/ IndexPush(c) \/ HistoryInsert(c) \/ Dispatch(c)

CallsNext == (\E c \in Caller : Step(c)) \/ Replay \/ Subscribe

CallsSpec == CallsInit /\ [][CallsNext]_callVars

-----------------------------------------------------------------------------
(* Properties *)

Quiet == \A c \in Caller : pc[c] = "idle"

\* Every call so far went through kv_txn.
OnlyTxns == ~plain

\* Whoever hears of a write on the watch channel finds it in the history at
\* its revision, or, for a key of a range delete, the delete of another key
\* of the same range: dispatch_event comes after history.insert in every
\* writer, and no two operations share a revision, so a row is replaced by
\* its own operation only.
HeardIsRecorded ==
    \A i \in DOMAIN feed :
        LET e == feed[i]
        IN  /\ e.kv.mod \in DOMAIN history
            /\ \/ history[e.kv.mod] = e
               \/ /\ e.op.op = "range" /\ history[e.kv.mod].op = e.op
                  /\ history[e.kv.mod].type = "delete"

\* "key -> sorted list of revisions (puts and deletes)" (store.rs): what
\* get_at_revision's backward search and compact_v2's partition rely on.
EveryIndexSorted ==
    \A k \in Key : \A i, j \in DOMAIN index[k] : i < j => index[k][i] < index[k][j]

\* As long as every call is a transaction, they may rely on it.
IndexSorted == OnlyTxns => EveryIndexSorted

\* Once nobody is in the middle of a call, a read at the newest revision,
\* which goes through the key's index and the history, finds the pair that
\* a plain read finds in `current`, as long as every call was a transaction:
\* no write is undone by an older one, and the one row that a range delete
\* keeps stands for all its keys.
CurrentIsNewest ==
    (Quiet /\ OnlyTxns) => \A k \in Key :
        GetAt([index |-> index, history |-> history], k, rev) = Row(current, k)

\* "Serialises transactions (compare-then-execute must be atomic)"
\* (store.rs): what a transaction compared is still there when its first
\* operation begins.
TxnAtomic ==
    \A c \in Caller :
        LET j == job[c].call
            holds == \A i \in DOMAIN j.compares : Holds(Row(current, j.compares[i].key), j.compares[i])
        IN  (j.op = "txn" /\ pc[c] = "next" /\ job[c].rev = 0) =>
                job[c].todo = IF holds THEN j.success ELSE j.failure

\* As long as callers write through transactions they implement AtomicKv:
\* each write of `current` is one atomic put on the pair that is there, or
\* one atomic delete.
Atomic == INSTANCE AtomicKv WITH cell <- current, Revision <- 2..MaxCallRev
ImplementsAtomicKv == Atomic!AtomicInit /\ [][OnlyTxns' => Atomic!AtomicNext]_current

\* "Revoke a lease and delete all associated keys" (store.rs): a pair that
\* a revoke deletes belonged to that lease.
RevokeDeletesOwn ==
    \A i \in DOMAIN feed : feed[i].op.op = "revoke" => feed[i].prev.lease = feed[i].op.lease

\* "Historical replay: send events from start_revision before going live"
\* (routes.rs): a live stream has shown every write once all are done.
StreamSeesAll ==
    (Quiet /\ stream.state = "live") => DOMAIN history \subseteq stream.seen
=============================================================================
