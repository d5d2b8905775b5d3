------------------------------- MODULE ApiStore -------------------------------
(***************************************************************************)
(* The API server's ResourceStore, called by several request handlers and  *)
(* the apply daemon at once, and its persistence: the WAL writer that      *)
(* follows the watch bus, the snapshot task, and restore at start          *)
(* (snapshot rows first, then the whole WAL record by record, with no      *)
(* revisions to compare).  A record of the WAL can be torn: only its first *)
(* bytes are in the file, and whatever is appended later follows them.     *)
(***************************************************************************)
EXTENDS Naturals, Sequences, SequencesExt

CONSTANTS Caller, Name, Value,
          Cap,         \* the watch bus's capacity (4096 in the code)
          Readings,    \* how a torn record can read once others follow it
          MaxCalls, MaxCrashes

Daemon == "daemon"  \* the apply daemon, one thread

ASSUME ApiAssumption ==
    /\ Cap \in Nat \ {0} /\ MaxCalls \in Nat /\ MaxCrashes \in Nat
    /\ Daemon \notin Caller
    /\ Readings \subseteq [decodes : BOOLEAN, misses : Nat \ {0}]

Process == Caller \cup {Daemon}

VARIABLES
    phase,       \* "up", "down", or "replay" while restore runs
    cursor,      \* WAL records replayed so far
    resources,   \* name -> the resource's content
    job,         \* process -> its call of the store
    subscribed,  \* the WAL writer has its receiver
    queue,       \* events it has still to receive
    wal, snap,   \* wal.log's records and snapshot.json
    torn,        \* place in wal of a record that is there in part -> how it reads
    draft,       \* the snapshot being collected
    calls, crashes,
    lost,        \* history: why the files may not tell what this process's store is
    claim        \* history: what the last crash left behind

files == <<wal, snap, torn>>
vars == <<phase, cursor, resources, job, subscribed, queue, files, draft, calls, crashes, lost, claim>>

Idle == [op |-> "none", step |-> "idle", name |-> 0, value |-> 0]
Empty == [n \in {} |-> 0]
NoDraft == [on |-> FALSE, rows |-> Empty, left |-> {}]
NoClaim == [why |-> {"none"}, rows |-> Empty, settled |-> {}]

Init ==
    /\ phase = "up" /\ cursor = 0 /\ resources = Empty /\ job = [c \in Process |-> Idle]
    /\ subscribed = FALSE /\ queue = <<>>
    /\ wal = <<>> /\ snap = Empty /\ torn = Empty /\ draft = NoDraft
    /\ calls = 0 /\ crashes = 0 /\ lost = {} /\ claim = NoClaim

Set(rows, n, v) == [x \in DOMAIN rows \cup {n} |-> IF x = n THEN v ELSE rows[x]]
Unset(rows, n) == [x \in DOMAIN rows \ {n} |-> rows[x]]

\* A call on a resource that another call is on can publish in another
\* order than it changes the row.
Start(c, op, step, n, v) ==
    /\ phase = "up" /\ job[c] = Idle /\ calls < MaxCalls
    /\ calls' = calls + 1
    /\ claim' = NoClaim
    /\ lost' = lost \cup {"overlap" : x \in {y \in Process : job[y] # Idle /\ job[y].name = n}}
    /\ job' = [job EXCEPT ![c] = [op |-> op, step |-> step, name |-> n, value |-> v]]

-----------------------------------------------------------------------------
(* create, update and delete *)

\* create: contains_key, insert and publish are three steps.  A create of
\* what exists returns AlreadyExists and changes nothing.
Create(c, n, v) ==
    /\ n \notin DOMAIN resources
    /\ Start(c, "create", "insert", n, v)
    /\ UNCHANGED <<phase, cursor, resources, subscribed, queue, files, draft, crashes>>

Update(c, n, v) ==
    /\ n \in DOMAIN resources
    /\ Start(c, "update", "insert", n, v)
    /\ UNCHANGED <<phase, cursor, resources, subscribed, queue, files, draft, crashes>>

Insert(c) ==
    /\ phase = "up" /\ job[c].step = "insert"
    /\ resources' = Set(resources, job[c].name, job[c].value)
    /\ job' = [job EXCEPT ![c].step = "publish"]
    /\ UNCHANGED <<phase, cursor, subscribed, queue, files, draft, calls, crashes, lost, claim>>

\* delete removes and learns what it removed in one step, for a handler and
\* for the apply daemon (a committed ApiserverDelete); of what is not there
\* it changes nothing.
Delete(c, n) ==
    /\ n \in DOMAIN resources
    /\ Start(c, "delete", "publish", n, resources[n])
    /\ resources' = Unset(resources, n)
    /\ UNCHANGED <<phase, cursor, subscribed, queue, files, draft, crashes>>

\* upsert, by the apply daemon for a committed ApiserverUpsert: the row
\* changes and no event is published.
Upsert(n, v) ==
    /\ phase = "up" /\ job[Daemon] = Idle /\ calls < MaxCalls
    /\ calls' = calls + 1
    /\ claim' = NoClaim
    /\ resources' = Set(resources, n, v)
    /\ lost' = lost \cup {"upsert"}
    /\ UNCHANGED <<phase, cursor, job, subscribed, queue, files, draft, crashes>>

\* The bus keeps the newest Cap events for a receiver that lags, and drops
\* what is published while nobody listens.
Publish(c) ==
    LET event == [op |-> job[c].op, name |-> job[c].name, value |-> job[c].value]
        full == Len(queue) = Cap
    IN  /\ phase = "up" /\ job[c].step = "publish"
        /\ queue' = IF ~subscribed THEN queue
                    ELSE Append(IF full THEN Tail(queue) ELSE queue, event)
        /\ lost' = lost \cup (IF ~subscribed THEN {"early"} ELSE IF full THEN {"lag"} ELSE {})
        /\ job' = [job EXCEPT ![c] = Idle]
        /\ UNCHANGED <<phase, cursor, resources, subscribed, files, draft, calls, crashes, claim>>

-----------------------------------------------------------------------------
(* run_wal_writer and persist_snapshot *)

Subscribe ==
    /\ phase = "up" /\ ~subscribed
    /\ subscribed' = TRUE
    /\ UNCHANGED <<phase, cursor, resources, job, queue, files, draft, calls, crashes, lost, claim>>

\* write_all of the whole record.
WriterAppend ==
    /\ phase = "up" /\ queue # <<>>
    /\ wal' = Append(wal, Head(queue))
    /\ queue' = Tail(queue)
    /\ UNCHANGED <<phase, cursor, resources, job, subscribed, snap, torn, draft, calls, crashes, lost, claim>>

\* Only the first bytes of the next event's record reach the file.  Once
\* others follow it, its length reaches into them: the reader misses at least
\* the next one until it happens upon the start of a record, and the torn one
\* decodes only if the bytes it lacks happen to follow.
Tear ==
    /\ wal' = Append(wal, Head(queue))
    /\ \E how \in Readings : torn' = Set(torn, Len(wal) + 1, how)

\* write_all fails part way: the writer warns and goes on behind what it wrote.
WriterTears ==
    /\ phase = "up" /\ queue # <<>>
    /\ Tear
    /\ queue' = Tail(queue)
    /\ lost' = lost \cup {"failed", "torn"}
    /\ UNCHANGED <<phase, cursor, resources, job, subscribed, snap, draft, calls, crashes, claim>>

\* Encoding fails, or write_all before its first byte.
WriterFails ==
    /\ phase = "up" /\ queue # <<>>
    /\ queue' = Tail(queue)
    /\ lost' = lost \cup {"failed"}
    /\ UNCHANGED <<phase, cursor, resources, job, subscribed, files, draft, calls, crashes, claim>>

\* list_all walks the map row by row while handlers go on.
SnapBegin ==
    /\ phase = "up" /\ ~draft.on
    /\ draft' = [on |-> TRUE, rows |-> Empty, left |-> Name]
    /\ UNCHANGED <<phase, cursor, resources, job, subscribed, queue, files, calls, crashes, lost, claim>>

SnapRow(n) ==
    /\ phase = "up" /\ n \in draft.left
    /\ draft' = [draft EXCEPT !.left = @ \ {n},
                    !.rows = IF n \in DOMAIN resources THEN Set(@, n, resources[n]) ELSE @]
    /\ UNCHANGED <<phase, cursor, resources, job, subscribed, queue, files, calls, crashes, lost, claim>>

SnapRename ==
    /\ phase = "up" /\ draft.on /\ draft.left = {}
    /\ snap' = draft.rows
    /\ draft' = NoDraft
    /\ UNCHANGED <<phase, cursor, resources, job, subscribed, queue, wal, torn, calls, crashes, lost, claim>>

-----------------------------------------------------------------------------
(* Crash and restore *)

Quiet == queue = <<>> /\ \A c \in Process : job[c] = Idle

\* Every change of n has been given to the WAL.
Settled(n) ==
    /\ \A c \in Process : job[c].step = "publish" => job[c].name # n
    /\ \A i \in DOMAIN queue : queue[i].name # n

\* A process that dies while it restores leaves the files as they are; one
\* that serves may die within a write_all.  The next process's store is what
\* it reads, which a torn record makes uncertain.
Crash ==
    /\ phase # "down" /\ crashes < MaxCrashes
    /\ crashes' = crashes + 1
    /\ phase' = "down" /\ cursor' = 0 /\ resources' = Empty /\ job' = [c \in Process |-> Idle]
    /\ subscribed' = FALSE /\ queue' = <<>> /\ draft' = NoDraft
    /\ \/ UNCHANGED files
       \/ phase = "up" /\ queue # <<>> /\ Tear /\ UNCHANGED snap
    /\ claim' = IF phase = "replay" THEN claim
                ELSE [why |-> lost, rows |-> resources, settled |-> {n \in Name : Settled(n)}]
    /\ lost' = {"torn" : i \in DOMAIN torn'}
    /\ UNCHANGED calls

LoadSnapshot ==
    /\ phase = "down"
    /\ phase' = "replay"
    /\ resources' = snap
    /\ UNCHANGED <<cursor, job, subscribed, queue, files, draft, calls, crashes, lost, claim>>

\* One record: upsert, or delete if present.
Replayed(rows, record) ==
    IF record.op = "delete" THEN Unset(rows, record.name)
    ELSE Set(rows, record.name, record.value)

\* replay_into's loop.  A torn record at the file's end is truncated, and the
\* replay stops; elsewhere records that do not decode are passed over.
ReplayRecord ==
    LET next == cursor + 1
    IN  /\ phase = "replay" /\ cursor < Len(wal)
        /\ \/ /\ next \notin DOMAIN torn
              /\ resources' = Replayed(resources, wal[next])
              /\ cursor' = next
           \/ /\ next \in DOMAIN torn /\ next = Len(wal)
              /\ cursor' = next
              /\ UNCHANGED resources
           \/ /\ next \in DOMAIN torn /\ next < Len(wal)
              /\ resources' = IF torn[next].decodes THEN Replayed(resources, wal[next])
                              ELSE resources
              /\ cursor' = Min({next + torn[next].misses, Len(wal)})
        /\ UNCHANGED <<phase, job, subscribed, queue, files, draft, calls, crashes, lost, claim>>

\* Mutant: the snapshot's rows are upserted over the replayed WAL.
ServeSnapshotLast ==
    /\ phase = "replay" /\ cursor = Len(wal)
    /\ phase' = "up" /\ cursor' = 0
    /\ resources' = [n \in DOMAIN snap \cup DOMAIN resources |->
                        IF n \in DOMAIN snap THEN snap[n] ELSE resources[n]]
    /\ UNCHANGED <<job, subscribed, queue, files, draft, calls, crashes, lost, claim>>

\* restore returns and the listeners start.
Serve ==
    /\ phase = "replay" /\ cursor = Len(wal)
    /\ phase' = "up" /\ cursor' = 0
    /\ UNCHANGED <<resources, job, subscribed, queue, files, draft, calls, crashes, lost, claim>>

Next ==
    \/ \E c \in Process : Insert(c) \/ Publish(c) \/ \E n \in Name : Delete(c, n)
    \/ \E c \in Caller, n \in Name, v \in Value : Create(c, n, v) \/ Update(c, n, v)
    \/ \E n \in Name : SnapRow(n) \/ \E v \in Value : Upsert(n, v)
    \/ Subscribe \/ WriterAppend \/ WriterTears \/ WriterFails \/ SnapBegin \/ SnapRename
    \/ Crash \/ LoadSnapshot \/ ReplayRecord \/ Serve

Spec == Init /\ [][Next]_vars

-----------------------------------------------------------------------------
(* Properties *)

\* The store that serves again is the one that crashed, on every resource
\* whose changes had all been written to the WAL.
Survived ==
    (phase = "up") => \A n \in claim.settled :
        /\ n \in DOMAIN resources <=> n \in DOMAIN claim.rows
        /\ n \in DOMAIN resources => resources[n] = claim.rows[n]

\* "Persist the cave-apiserver ResourceStore to disk so K8s resources survive
\* process restarts (kill -9 included)" (cluster_runtime.rs): a crash at any
\* moment, within a write of the WAL or during restore too, loses at most the
\* changes whose events were not yet in the WAL.  That is of a process that
\* found no torn record, lost no event, had no calls overlap on one resource
\* and applied no upsert (why = {}); the next three properties say the same
\* of processes that did, and are refuted.
ResourcesSurvive == claim.why = {} => Survived

\* The same of what the apply daemon upserted, which no event announces.
AppliedSurvive == claim.why = {"upsert"} => Survived

\* The same of what was appended and synced behind a record an earlier crash
\* had torn.
AppendedSurvive == claim.why = {"torn"} => Survived

\* The same of two calls that overlap on one resource.
OrderSurvives == claim.why = {"overlap"} => Survived

\* "Replaying a record that's already represented in the snapshot is a
\* no-op" (cluster_runtime.rs): when the snapshot is the store's present
\* content, replaying the WAL over it changes nothing.
ReplayConverges ==
    (phase = "up" /\ subscribed /\ Quiet /\ snap = resources /\ torn = Empty) =>
        FoldLeft(Replayed, snap, wal) = resources

\* A create makes a resource that was not there, an update replaces one that
\* was (store.rs, test_create_duplicate_fails): the answer of contains_key
\* still holds when the row is inserted.
CheckHoldsAtInsert ==
    \A c \in Caller :
        job[c].step = "insert" =>
            ((job[c].op = "update") <=> (job[c].name \in DOMAIN resources))
=============================================================================
