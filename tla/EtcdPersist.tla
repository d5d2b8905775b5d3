------------------------------ MODULE EtcdPersist ------------------------------
(***************************************************************************)
(* How a member keeps its etcd store on disk: the WAL writer task that     *)
(* follows the store's watch channel, the task that snapshots the store    *)
(* every minute, and restore_etcd_store at start.  A crash is the end of   *)
(* the process (kill -9, or the exit after the last snapshot): what was    *)
(* written to a file stays.  One caller writes the store; writers racing   *)
(* each other are KvConcurrent's subject.                                  *)
(***************************************************************************)
EXTENDS Naturals, Sequences, FiniteSets

CONSTANTS Key, Value,
          Cap,         \* the watch channel's capacity (4096 in the code)
          MaxCrashes, MaxRev, MaxRecords

ASSUME PersistAssumption ==
    /\ Key # {} /\ Value # {} /\ Cap \in Nat \ {0}
    /\ MaxCrashes \in Nat /\ MaxRev \in Nat \ {0} /\ MaxRecords \in Nat

VARIABLES
    phase,       \* "up", "down", or "replay" while restore_etcd_store runs
    cursor,      \* WAL records it has replayed so far
    rev, current,\* the store: revision counter, live key -> [value, mod]
    call,        \* the call in progress
    subscribed,  \* the WAL writer has its receiver
    queue,       \* events the WAL writer has still to receive
    draft,       \* the snapshot being collected
    wal, snap,   \* the files wal.log and snapshot.bin
    crashes,
    lost,        \* history: why events never reached the WAL
    overlapped,  \* history: a snapshot began between a call's two halves
    claim        \* history: what a crash that interrupted nothing left behind

store == <<rev, current>>
files == <<wal, snap>>
vars == <<phase, cursor, store, call, subscribed, queue, draft, files, crashes, lost, overlapped, claim>>

Idle == [op |-> "none", step |-> "idle", key |-> 0, value |-> 0, rev |-> 0]
None == [state |-> "none"]
Empty == [k \in {} |-> 0]

NoClaim == [known |-> FALSE, values |-> Empty]
Values(rows) == [k \in DOMAIN rows |-> rows[k].value]

Init ==
    /\ phase = "up" /\ cursor = 0 /\ rev = 1 /\ current = Empty
    /\ call = Idle /\ subscribed = FALSE /\ queue = <<>> /\ draft = None
    /\ wal = <<>> /\ snap = None
    /\ crashes = 0 /\ lost = {} /\ overlapped = FALSE /\ claim = NoClaim

-----------------------------------------------------------------------------
(* The store's put and delete_range: a revision, the change, the event. *)

Put(rows, k, v, r) == [x \in DOMAIN rows \cup {k} |->
                          IF x = k THEN [value |-> v, mod |-> r] ELSE rows[x]]
Delete(rows, k) == [x \in DOMAIN rows \ {k} |-> rows[x]]

TakeRevision(op, k, v) ==
    /\ phase = "up" /\ call = Idle
    /\ rev < MaxRev /\ Len(wal) + Len(queue) < MaxRecords
    /\ rev' = rev + 1
    /\ call' = [op |-> op, step |-> "store", key |-> k, value |-> v, rev |-> rev + 1]
    /\ claim' = NoClaim
    /\ UNCHANGED <<phase, cursor, current, subscribed, queue, draft, files, crashes, lost, overlapped>>

\* A delete that finds nothing ends here.
StoreChange ==
    LET k == call.key
        nothing == call.op = "delete" /\ k \notin DOMAIN current
    IN  /\ phase = "up" /\ call.step = "store"
        /\ current' = IF call.op = "put" THEN Put(current, k, call.value, call.rev)
                      ELSE Delete(current, k)
        /\ call' = IF nothing THEN Idle ELSE [call EXCEPT !.step = "publish"]
        /\ UNCHANGED <<phase, cursor, rev, subscribed, queue, draft, files, crashes, lost, overlapped, claim>>

\* The channel keeps the newest Cap events for a receiver that lags.
Publish ==
    LET event == [op |-> call.op, rev |-> call.rev, key |-> call.key, value |-> call.value]
        full == Len(queue) = Cap
    IN  /\ phase = "up" /\ call.step = "publish"
        /\ queue' = IF ~subscribed THEN queue
                    ELSE Append(IF full THEN Tail(queue) ELSE queue, event)
        /\ lost' = lost \cup (IF ~subscribed THEN {"early"} ELSE IF full THEN {"lag"} ELSE {})
        /\ call' = Idle
        /\ UNCHANGED <<phase, cursor, store, subscribed, draft, files, crashes, overlapped, claim>>

-----------------------------------------------------------------------------
(* The WAL writer *)

\* spawn_listeners subscribes after it has started the listeners.
Subscribe ==
    /\ phase = "up" /\ ~subscribed
    /\ subscribed' = TRUE
    /\ UNCHANGED <<phase, cursor, store, call, queue, draft, files, crashes, lost, overlapped, claim>>

\* The record is in the file or it is not: one that a crash cuts off ends the
\* file, and replay stops there.  (What the next process would append behind
\* it is left out here; ApiStore, whose writer does the same, has it.)
WriterAppend ==
    /\ phase = "up" /\ queue # <<>>
    /\ wal' = Append(wal, Head(queue))
    /\ queue' = Tail(queue)
    /\ UNCHANGED <<phase, cursor, store, call, subscribed, draft, snap, crashes, lost, overlapped, claim>>

\* A failed write_all is logged and the event dropped.
WriterFails ==
    /\ phase = "up" /\ queue # <<>>
    /\ queue' = Tail(queue)
    /\ lost' = lost \cup {"failed"}
    /\ UNCHANGED <<phase, cursor, store, call, subscribed, draft, files, crashes, overlapped, claim>>

-----------------------------------------------------------------------------
(* persist_etcd_snapshot: the revision first, the rows one by one after, then
   the rename of the finished file. *)

SnapRevision ==
    /\ phase = "up" /\ draft = None
    /\ draft' = [state |-> "rows", rev |-> rev, rows |-> Empty, left |-> Key]
    /\ overlapped' = (overlapped \/ call.step = "store")
    /\ UNCHANGED <<phase, cursor, store, call, subscribed, queue, files, crashes, lost, claim>>

\* The range ends at U+FFFF: Key stands for the keys below it.
SnapRow(k) ==
    /\ phase = "up" /\ draft.state = "rows" /\ k \in draft.left
    /\ draft' = [draft EXCEPT !.left = @ \ {k},
                    !.rows = IF k \in DOMAIN current
                             THEN Put(@, k, current[k].value, current[k].mod) ELSE @]
    /\ UNCHANGED <<phase, cursor, store, call, subscribed, queue, files, crashes, lost, overlapped, claim>>

\* Mutant: the header's revision is read when the rows are complete.
SnapRenameLate ==
    /\ phase = "up" /\ draft.state = "rows" /\ draft.left = {}
    /\ snap' = [state |-> "saved", rev |-> rev, rows |-> draft.rows]
    /\ draft' = None
    /\ UNCHANGED <<phase, cursor, store, call, subscribed, queue, wal, crashes, lost, overlapped, claim>>

SnapRename ==
    /\ phase = "up" /\ draft.state = "rows" /\ draft.left = {}
    /\ snap' = [state |-> "saved", rev |-> draft.rev, rows |-> draft.rows]
    /\ draft' = None
    /\ UNCHANGED <<phase, cursor, store, call, subscribed, queue, wal, crashes, lost, overlapped, claim>>

-----------------------------------------------------------------------------
(* Crash and start *)

\* What the process held is gone.
Stop ==
    /\ phase' = "down" /\ cursor' = 0 /\ rev' = 1 /\ current' = Empty
    /\ call' = Idle /\ subscribed' = FALSE /\ queue' = <<>> /\ draft' = None
    /\ UNCHANGED <<files, lost, overlapped>>

\* A crash interrupts nothing if no call and no event was under way, no
\* event was ever lost and no snapshot split a call.
Crash ==
    /\ phase = "up" /\ crashes < MaxCrashes
    /\ crashes' = crashes + 1
    /\ claim' = IF call = Idle /\ queue = <<>> /\ lost = {} /\ ~overlapped
                THEN [known |-> TRUE, values |-> Values(current)] ELSE NoClaim
    /\ Stop

\* A process that dies while it restores leaves the files as they are.
CrashInRestore ==
    /\ phase = "replay"
    /\ Stop
    /\ UNCHANGED <<crashes, claim>>

\* restore_into_store: the rows are put again in revision order, so they get
\* revisions 2, 3, ... of a new store, a row's own being told by how many come
\* no later (no two rows are of one revision).
RestoreRows(rows) ==
    [rev |-> 1 + Cardinality(DOMAIN rows),
     rows |-> [k \in DOMAIN rows |->
                  [value |-> rows[k].value,
                   mod |-> 1 + Cardinality({x \in DOMAIN rows : rows[x].mod <= rows[k].mod})]]]

LoadSnapshot ==
    /\ phase = "down"
    /\ phase' = "replay"
    /\ IF snap = None THEN rev' = 1 /\ current' = Empty
       ELSE rev' = RestoreRows(snap.rows).rev /\ current' = RestoreRows(snap.rows).rows
    /\ UNCHANGED <<cursor, call, subscribed, queue, draft, files, crashes, lost, overlapped, claim>>

\* Mutant: a replayed put keeps the revision of its record.
ReplayPutKeeps(record) ==
    /\ rev' = rev + 1
    /\ current' = IF record.op = "put" THEN Put(current, record.key, record.value, record.rev)
                  ELSE Delete(current, record.key)

\* A replayed record takes the new store's next revision.
ReplayPut(record) ==
    /\ rev' = rev + 1
    /\ current' = IF record.op = "put" THEN Put(current, record.key, record.value, rev + 1)
                  ELSE Delete(current, record.key)

\* wal::replay_into's loop: what the snapshot's revision covers is skipped.
ReplayRecord ==
    LET covered == IF snap = None THEN 0 ELSE snap.rev
        record == wal[cursor + 1]
    IN  /\ phase = "replay" /\ cursor < Len(wal)
        /\ cursor' = cursor + 1
        /\ IF record.rev <= covered THEN UNCHANGED store ELSE ReplayPut(record)
        /\ UNCHANGED <<phase, call, subscribed, queue, draft, files, crashes, lost, overlapped, claim>>

\* restore_etcd_store returns and the listener starts.
Serve ==
    /\ phase = "replay" /\ cursor = Len(wal)
    /\ phase' = "up" /\ cursor' = 0
    /\ UNCHANGED <<store, call, subscribed, queue, draft, files, crashes, lost, overlapped, claim>>

Next ==
    \/ \E k \in Key : TakeRevision("delete", k, 0) \/ SnapRow(k)
    \/ \E k \in Key, v \in Value : TakeRevision("put", k, v)
    \/ StoreChange \/ Publish
    \/ Subscribe \/ WriterAppend \/ WriterFails
    \/ SnapRevision \/ SnapRename
    \/ Crash \/ CrashInRestore \/ LoadSnapshot \/ ReplayRecord \/ Serve

Spec == Init /\ [][Next]_vars

-----------------------------------------------------------------------------
(* Properties *)

\* The type of the store, the files and the tasks between them.
TypeOK ==
    /\ phase \in {"up", "down", "replay"} /\ cursor \in 0..Len(wal) /\ subscribed \in BOOLEAN /\ overlapped \in BOOLEAN
    /\ lost \subseteq {"early", "lag", "failed"}
    /\ rev \in Nat /\ crashes \in 0..MaxCrashes
    /\ DOMAIN current \subseteq Key
    /\ \A k \in DOMAIN current : current[k].value \in Value /\ current[k].mod \in 2..rev
    /\ call.step \in {"idle", "store", "publish"}
    /\ Len(queue) <= Cap

\* A crash that interrupted nothing loses nothing: restore_etcd_store gives
\* back the map the clients saw, from a snapshot collected while writes went
\* on and a WAL the snapshot only partly covers, also if the process dies
\* while it restores and starts over.
QuietCrashLosesNothing ==
    (phase = "up" /\ claim.known) => Values(current) = claim.values

\* "those are already represented in the snapshot we just restored from"
\* (wal): a record that replay would skip is in the snapshot, or the
\* snapshot has something newer.
SnapshotHoldsItsRevision ==
    snap # None => \A i \in DOMAIN wal :
        LET r == wal[i]
            live == r.key \in DOMAIN snap.rows
            later == \E j \in DOMAIN wal : i < j /\ wal[j].key = r.key
        IN  r.rev <= snap.rev =>
                \/ later
                \/ r.op = "put" /\ live /\ snap.rows[r.key].mod >= r.rev
                \/ r.op = "delete" /\ (live => snap.rows[r.key].mod > r.rev)

\* "every PUT is fsync'd to the WAL by the watch-subscriber task in the
\* background" (cluster_runtime.rs): a key's live pair, written by a call
\* that has returned, is on the WAL once the writer has drained its channel,
\* if the writer was there from the start.
EveryPutLogged ==
    (subscribed /\ "early" \notin lost /\ call = Idle /\ queue = <<>> /\ crashes = 0) =>
        \A k \in DOMAIN current : \E i \in DOMAIN wal :
            wal[i].key = k /\ wal[i].op = "put" /\ wal[i].rev = current[k].mod
=============================================================================
