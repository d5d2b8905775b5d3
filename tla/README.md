# Verification of cave-runtime's control plane

cave-runtime is one binary that carries a Kubernetes-shaped control plane: an etcd-compatible key-value store, an API
server, controllers and many services mounted next to them. What makes it a *distributed* system is small: a Raft core
written in the runtime crate, a driver that carries its RPCs, an apply daemon that feeds committed entries into the
stores, and the write handlers that wait for it. This project models that core first, then what it feeds (the etcd
store, the API server's store, their files), then the kernel primitives the services share. Paths and line numbers
refer to the repository under `src/`.

## 1. Inventory

| Component | Source | State | Operations | Hard behaviour | What makes it correct |
|---|---|---|---|---|---|
| Raft core | `crates/ops/cave-runtime/src/raft_core.rs` | term, vote, log (memory and `raft/state.bin`); role, leader, votes, commit and apply index, next/match index per peer | `tick`, the two request handlers, the two reply handlers, `propose`, `take_committed_entries`, `load_or_init` | elections racing, stale and reordered replies, restarts, failed writes | one leader per term, logs that match, committed entries that stay |
| Raft driver | `raft_driver.rs` | the tick loop; one task per RPC with the prev index and length it sent | sends, routes replies back, HTTP endpoints | replies arrive late (2 s timeout against 150-300 ms elections) or never; the loop ends on a failed tick | every handler runs under one lock; nothing assumed about delivery |
| Apply daemon, notifier, bridge | `raft_apply.rs`, `raft_command.rs`, `cave-etcd/src/raft_bridge.rs`, `routes.rs` | drained batch, last published index, waiting calls | `propose_and_wait`, drain, apply one entry, time out | leader change while a client waits; restart between drain and apply; entries that do not decode | a 200 means the write is committed and applied |
| etcd KV store | `cave-etcd/src/store.rs`, `routes.rs`, `lib.rs` | revision counter, current pairs, index, history, leases, watch channel | put, delete_range, txn, leases, two compactions, defragmentation, reads at a revision, watch streams | a call takes its revision, inserts and publishes in separate steps; only transactions take `txn_lock`; routes without a bridge act on one member | a read of the past sees the past; a lease deletes only its own; members agree |
| Persistence of the stores | `cluster_runtime.rs`, `cave-etcd/src/snap_db.rs` | snapshot and WAL file of each store | WAL writers behind broadcast channels, 60 s snapshots, replay at start | a lagging channel, a snapshot taken among writes, a crash anywhere, revisions that start over | what was answered survives `kill -9` |
| API server store | `cave-apiserver/src/store.rs` | resource map, watch bus | create, update, delete, upsert | check, insert and publish in separate steps | the WAL follows the store |
| Peer registry and legacy transport | `raft_transport.rs` | peers, last seen, a second `current_term` | heartbeats, member add, election timer | compare-then-store on an atomic | the term never goes back, members converge |
| Circuit breaker, gateway proxy | `cave-kernel/src/circuitbreaker.rs`, `cave-gateway/src/proxy.rs`, `circuit_breaker.rs` | state, window of outcomes, permits | can_proceed, record; pick, send, retry | outcomes of earlier rounds, permits that are not given back | trials are bounded, rounds end, requests end |
| Rate limiters | `cave-kernel/src/ratelimiter.rs` | tokens, level, last instant | try_consume, acquire, available, try_offer, level | the clock is read before the lock | no more than the rate is let through |
| Reconcile loop | `cave-kernel/src/reconcile.rs` | bounded queue, the key in work, requeue tasks | enqueue, retry, requeue, cancel | retries in place, requeues into the queue it reads | every queued key is reconciled; the loop ends |
| Leader lease | `cave-kernel/src/lease.rs`, `cave-controller-manager/src/leader_election.rs` | holder, expiry, revision; each replica's role | acquire, renew, release, sweep | a paused leader | one unexpired grant, fencing by revision |
| etcd auxiliary services, bootstrap, cave-ha, controllers, data, networking, orchestration, security, observability, AI, portal, CLI | `crates/*` | own stores | - | see section 7 | not modelled |

How they interact: `spawn_listeners` mounts the driver's routes on the API server's TLS listener, starts the driver and,
when the manifest names peers, the apply daemon, and hands `RaftBridgeImpl` to the etcd router. `kv_put` and
`kv_delete_range` then propose through the bridge and wait on the notifier; the other etcd routes (transactions,
leases, compaction) change the local store directly. The core is shared behind one `tokio::sync::Mutex`: the driver's
tick, the RPC endpoint, the reply tasks, the bridge and the daemon's drain each hold it for the length of one call. The
stores have no such lock: their maps are concurrent maps, and a call is as many steps as it touches maps. Each store
publishes its changes on a broadcast channel that the WAL writer follows. The primitives of `cave-kernel` are used by
the gateway, the controller-manager and others as libraries.

The hazards, each at its line with the properties that watch it, are in `PROJECT.json` under `hazards`.

## 2. Modules

| Module | What it is |
|---|---|
| `RaftLog` | The pure computations of the core on logs: up-to-date test, prev check and hint, merge, backtracking, commit rule. |
| `RaftCore` | The core on every member, the driver and the network between them. |
| `ReplicatedLog` | Abstract: one committed log that only grows, handed to each member in order, again from the start after a restart. |
| `WritePath` | `RaftCore` composed with the apply daemon, the notifier, the waiting handlers and each member's store. |
| `KvOps` | What each operation of the etcd store does when nothing runs beside it. |
| `KvStore` | The store with one caller at a time: every operation is one step over `KvOps`. |
| `KvConcurrent` | The store with several callers, each call cut at the steps the code makes; a watch stream. |
| `AtomicKv` | Abstract: pairs that are written one at a time, each on the one that is there. |
| `KvReplicas` | The stores of a cluster: replicated puts and deletes, and the routes that act on one member. |
| `EtcdPersist` | The etcd store's WAL writer, snapshot task and recovery, with crashes. |
| `ApiStore` | The API server's store under several handlers, with its WAL writer, snapshot task and recovery. |
| `PeerRegistry` | The registries, heartbeats and election timers of the legacy transport. |
| `Breaker` | The circuit breaker as functions of its state. |
| `BreakerCalls`, `GatewayProxy` | Concurrent callers of one breaker; the gateway's requests over one breaker per target. |
| `RateLimiter`, `Reconcile`, `LeaderLease` | One module per primitive, the last with its user, the controller-manager's elector. |
| `MC...` | Instances for TLC. |
| `RaftCoreProofs`, `RaftReplicationProofs`, `RaftCommitProofs`, `WritePathProofs` | Lemmas and theorems about the core and the write path, each module on the one before (section 5). |
| `KvProofs`, `EtcdPersistProofs`, `ApiStoreProofs`, `ServiceProofs` | Lemmas and theorems about the stores, their files and the services. |

`MCKv` and `MCServices` each put several of these modules into one run: a variable `part` says which of them a
behaviour belongs to, and the variables of the others keep their initial values. The modules of a run share no state,
so the reachable states are those of each module on its own, side by side, and a property of one of them holds in
the run exactly if it holds in that module. Fairness of a part is asked of that part's behaviours only.

Operators whose comment begins with "Mutant:" are no part of the models: they are wrong versions of the definition
that follows them (listed in `PROJECT.json`), with which the named property must fail.

### RaftCore and the code

Every handler runs under the core's lock, so a handler is one action; a handler with several outcomes is several
actions, one per outcome, with the early returns as guards.

| Code | Actions |
|---|---|
| `tick`, election deadline passed (`become_candidate`) | `StartElection`, `StartElectionFails` (the write fails; the driver ends) |
| `tick`, heartbeat deadline passed | `Heartbeat` |
| `handle_request_vote` | `RejectStaleVote`, `HandleRequestVote`, `RecordVoteFails`, `StepDownFails` |
| `handle_append_entries` | `RejectStaleAppend`, `RejectMismatchedAppend`, `AcceptAppend`, `AppendSaveFails`, `StepDownFails` |
| `handle_request_vote_reply` | `StepDownOnReply`, `StepDownFails`, `CountVote`, `IgnoreReply` |
| `handle_append_entries_reply` | `StepDownOnReply`, `StepDownFails`, `AppendSucceeded`, `AppendFailed`, `IgnoreReply` |
| `propose` | `Propose` (a failed save undoes itself: no step) |
| `take_committed_entries` | `TakeCommitted` |
| process death and `load_or_init` | `Restart` |

`persistent[n]` is the in-memory `PersistentState`, `disk[n]` what `state.bin` holds. The file is replaced whole by a
rename, so it is always one record that was in memory. A failed `save_persistent` leaves memory as the handler had
changed it; that is what the `...Fails` actions say. `grants`, `elected` and `decided` are history: they record votes
cast, elections won and the longest prefix any member has committed, and no guard reads them.

The network is a set of requests and replies. Any part of what is sent may be lost; the rest is handled at any later
moment and in any order. A set, not a bag: handling a request twice needs it sent twice, which heartbeats do. A reply
belongs to the task that sent the request and dies with its process (`open`), while the request itself may still be
handled. `AppendReply` carries the prev index and length of the task's `OutboundCtx`.

`LateReplies` separates two questions. The code does not compare the term of an AppendEntries reply with its own, and
`raft_late_reply` shows what follows from it. With `LateReplies = FALSE` a success reply that outlived its term counts
as lost; everything about commitment is checked under that assumption, everything about elections and log shape
without it.

Abstracted: timers (a deadline may have passed at any moment), entry indices (an entry's index is its position, as
`propose` and the merge keep it), payloads (model values), TLS, JSON and logging. Left out: an unreadable `state.bin`
(the code starts fresh, which gives up its vote), a rename lost with the power, changes of membership (the member list
is fixed at start).

### WritePath and the code

`ProposeAndWait` is `propose_and_wait` up to its wait; `Acknowledge` and `TimeOut` are the two ends of the wait.
`ProposeRaw` is the `/api/v1/cluster/propose` endpoint, which accepts any bytes, so a command may be one that does not
decode (`Bad`). `Drain` and `ApplyOne` are the daemon: it drains everything committed, which moves `last_applied` at
once, and then applies entry by entry, publishing each index. `RestartHost` restarts the member with a store that holds
a prefix of what it had applied (at least what it had recovered before): how much depends on the WAL writer, which runs
behind (`EtcdPersist` has the details). The store is the sequence of commands applied to it.

### The etcd store and the code

`KvOps` takes and returns a store record with the fields of `KvStore` in `store.rs`: `Put`, `DeleteRange`, `Txn`,
`LeaseGrant`, `LeaseRevoke`, `DropHistory` (`compact`), `CompactV2`, `Defragment`, and the reads `GetAt`
(`get_at_revision`) and `Replayed` (`get_historical_events`). Keys are numbers, because ranges compare them; values are
model values. History keeps one event per revision, as the code's map does, so the order in which a range delete visits
its keys decides which tombstone stays (`last`, also in the operations of a transaction). Two fields are history of the
model: `past[r]`, the pairs right after revision `r`, and `lost`, up to where rows have been dropped. The code's loops
over a list (the operations of a transaction, the keys of a revoked lease, the expired leases, `Vec::retain`) are
recursive functions of the position (`RunOps`, `RevokeKeys`, `RevokeLeases`, `Dropping`).

`KvConcurrent` cuts `put`, `delete_range`, `lease_revoke` and `txn` at each access to a shared map: take the revision,
read the previous pair, move the key between leases, insert, push on the index, insert into the history, dispatch the
event. A range delete takes one revision, notes the keys of the range one by one (`Visit`) and then deletes each in
turn, so that each tombstone replaces the one before in the history while every event is dispatched. `txn` holds
`txn_lock` from its first compare (`Compare`, one pair at a time) over all operations of the branch it chose (`NextOp`)
to its end. The stream is `watch_stream`: read the history,
then subscribe. `KvReplicas` has a log that grows (`RaftCore` is what makes that true), members that apply it at their
own pace through the `KvOps` operations, and the routes that bypass it.

### Persistence and the code

Both stores follow one pattern: the writer task subscribes to the store's channel some time after start, receives one
event after another and appends it to the WAL, and goes on after it lagged or a write failed; a snapshot task copies
the rows one by one while calls go on and renames the finished file into place; at start the snapshot is put into an
empty store (`LoadSnapshot`) and the WAL replayed over it record by record (`ReplayRecord`) before the listener starts
(`Serve`). A crash stops all of it between any two steps, those of the restore included. The etcd store's WAL records
carry revisions and replay skips those the snapshot's revision covers, while the restored store counts revisions from 1
again; the API server's carry none and all are replayed.

A write may stop part way, when the process dies or `write_all` fails. The reader stops at a torn record that ends the
file, but the next process opens the file for append and writes behind it; the torn record's length then reaches into
what follows. `ApiStore` keeps the places of torn records (`torn`) with how each reads once others follow it: it decodes
or not, and one or more of the next records are missed (`Readings`, any set). In `EtcdPersist` a record is in the file
or not; a torn one counts as not written, which is what the first restart makes of it, and its theorem and passing run
cover one crash only. Its keys are those below U+FFFF: `save_from_store` asks for the range up to there
(`snap_db.rs:247`), so a key above is in no snapshot, and once a snapshot's revision has passed it replay skips its
record too.

`claim` is history: what the last crash left behind. In `EtcdPersist` that is what clients saw if the crash interrupted
nothing (no call, an empty channel, no event lost). In `ApiStore` it is the rows, the resources whose changes had all
been written to the WAL (`Settled`), and the reasons why the files may not tell the store (`lost`): an event lost (the
writer not yet subscribed, lagging or failing), an upsert of the apply daemon, which publishes nothing, calls that
overlapped on one resource, a torn record found at start. The apply daemon is a process of its own beside the handlers:
its `ApiserverUpsert` is `Upsert`, its `ApiserverDelete` is `Delete`, with its event.

### The other modules and the code

`PeerRegistry`: `handle_raft_message` is two steps, `Receive` (the term is read) and `Adopt` (compared with what was
read, and stored); `HeartbeatTick`, `TimerFires` and `BumpTerm` are the two loops, `AddPeer` is MemberAdd. The last-seen
instants are kept as the time since, cut off at the timeout, which is all the timer reads.

`Breaker`: `can_proceed_at` is `Admits` and `AfterProceed`, `record_at` is `AfterRecord`, both under the breaker's
lock; the configuration is part of the breaker, as in the code. Instants are ages cut off where the code stops telling
them apart, so time may run for ever. `GatewayProxy` follows `proxy_with_retry`: `Pick`, `Ask`, `Answer` or `NoAnswer`.

`RateLimiter`: `ReadInstant` is the `Instant::now()` before the lock, `TryConsume`, `TryOffer`, `AvailableAt` and
`LevelAt` what happens under it; the last two refill and drain as well. A call asks for any of `Amounts` tokens; time
and tokens are whole units. `Reconcile`: `Receive` and `End` are the biased `select!`, `Done`, `Requeue` and `Retry`
what `process_one` does with the outcome. `LeaderLease`: a replica reads the clock and then calls `acquire`, `renew` or
`revoke` with that instant; `Sweep` is `sweep_expired`.

## 3. Runs

All runs bound their counters (`MaxTerm`, `MaxLog`, `MaxRev`, `MaxCrashes`, ...). The bounds make the systems stop, so
deadlock is not checked except in `peer_registry`, which never stops. Members, callers, names and values are symmetric
where the code compares them for equality only; symmetry is used in safety runs. The parts of `raft_faults`,
`raft_commit` and `write_path` are bounded by action constraints of their MC modules (`FaultsBound`, `CommitBound`,
`PathBound`); the specifications themselves are the modules' own.

| Run | Instance | Checks |
|---|---|---|
| `raft_faults` | 3 members, 1 restart, 1 failed write, late replies; 2 terms of elections from `Init`, and from the contended state up to term 4 with 2 entries | `ElectionSafety`, `VoteDurable`, `DurableVoteStable`, `LogMatching` |
| `raft_commit` | 3 members, contended state, up to term 4, 2 entries; with restarts and one RPC in flight, or with two RPCs in flight | `TypeOK`, `CommittedPrefix`, `LeaderCompleteness`, `CommitOnMajority`, `ImplementsReplicatedLog` |
| `raft_stable_leader` | 3 members, contended state, fair leader, 3 entries, 2 in flight | `StableLeaderReplicates` |
| `write_path` | 3 members, 2 terms, from `Init`, one command that does not decode; leaders change among all three with one entry each; a restart and 2 entries where one member has not been heard of | `DeliveredOnceInOrder`, `AckedIndexCommitted`, `AckableUnderSameLeader` |
| `kv_stores` | 2 keys, 6 revisions with three transactions and both compactions; 2 leases that expire, 4 revisions; 2 callers with plain puts, deletes, a range delete, a revoke, two transactions (several compares, puts and a range delete in their branches) and a stream, 7 revisions; 2 members with 2 commands and local routes | `TypeOK`, `ReadAtPast`, `PairTellsItsLife`, `LeaseOwnsItsKeys`, `HeardIsRecorded`, `IndexSorted`, `CurrentIsNewest`, `ImplementsAtomicKv`, `AgreeUnlessOwn` |
| `etcd_one_crash` | 2 keys, 4 revisions, channel of 2, 1 crash | `TypeOK`, `QuietCrashLosesNothing` |
| `api_crashes` | 2 handlers and the apply daemon, 2 names, 2 values, 3 calls, channel of 2, 2 crashes, two readings of a torn record | `ResourcesSurvive` |
| `peer_registry` | 2 members, 2 timeouts | `TypeOK`, `TermsComeFromTimeouts`, `TermsConverge` |
| `services` | 3 callers of a breaker of each kind; 2 targets and a request with a retry; buckets of 2, one thread, 1 or 2 tokens at once; 2 keys and a queue of 2; 2 replicas and a lease of 2 ticks | `CountersFitState`, `TrialsBounded`, `ClosedBelowThreshold`, `HalfOpenEnds`, `RequestsEnd`, `AccountBalances`, `OfferedWithinRate`, `QueuedIsReconciled`, `CancelEndsLoop`, `OneUnexpiredGrant`, `RevisionTellsTakeover` |
| `raft_late_reply`, `write_overwritten`, `etcd_second_crash` | as in their cfg | expected violations, section 4 |

*Why the bounds are enough for what is asked.* Two terms let two candidates race for the third member's vote around a
restart and a failed write. Commitment needs more history than a search from `Init` reaches: the paper's Figure 8 takes
four terms. `MCRaftCore!Contended` is a state three elections and three proposals away from `Init` (n1 holds two entries
of term 1, n2 one of term 2, n3 none, n1 leads term 3); TLC reached it from `Init` when that search was restricted to
the elections and entries named. From there one more term exhibits old entries on a majority, overwritten suffixes,
holes and mismatches, repeated rejections down to `next_index` 0. In the store, six revisions allow a key to be created,
compacted away, deleted, created again and read at each of these points; two leases allow a key to change owner before
the first expires. One crash with a channel of two covers a writer that lags, a snapshot that overlaps a call and a WAL
that ends after any record; two crashes of the API server's store replay what a first recovery left, with a record torn
by the first. Seven revisions let two transactions create both keys, delete them as a range and write one again. Two
targets with two failures each let one breaker be half-open while the other trips. Every action of every module is taken
in some passing run.

*Conditions in the properties.* `IndexSorted`, `CurrentIsNewest` and `ImplementsAtomicKv` speak of histories in which
every call is a transaction (`OnlyTxns`), because the code has no order for others (section 4). `HeardIsRecorded`
allows for the one row that a range delete keeps. `ResourcesSurvive` speaks of the crash of a process whose `lost` is
empty, and of the resources that were settled then. `AgreeUnlessOwn`
speaks of members on which no unreplicated route has acted. `HalfOpenEnds` excepts calls that were dropped and never
recorded. `AccountBalances` and `OfferedWithinRate` are checked with one thread: they are about the arithmetic, and say
nothing of threads that enter in another order than they read the clock, with which they fail. Each condition marks a
hazard, and section 4 says what happens without it; `PROJECT.json` lists such hazards without a property.

*Fairness.* `FairLeader` (`raft_stable_leader`): liveness is asked only under a leader that stays. The driver ticks
every 50 ms and the tokio runtime polls every task: weak fairness of handling what has arrived and of draining. A
heartbeat that is sent again and again to a peer, and the answer to it, get through again and again: strong fairness of
`Sends` and `Answers`; without it no protocol replicates. Elections, proposals, restarts and disk failures get none.
`PeerRegistry!Fairness`: the two loops are intervals and handlers are polled to their end (weak); heartbeats to a peer,
sent every second, are not all lost (strong). `MCServices!Fairness`, all of it weak: time passes; a breaker's callers go
on calling and end their calls (each has a timeout in the gateway); requests are polled, targets come back; the
reconcile loop is polled and `reconcile()` returns. Nothing is asked of cancellations, drops, renewals or the order in
which callers are served.

## 4. Where code and documentation disagree

`PROJECT.json` quotes the lines under `findings`. Three are runs:

- `raft_late_reply`: an AppendEntries reply of an earlier term of the same leader raises `match_index`; an entry that is
  on one disk is committed.
- `write_overwritten`: the wait compares indices only, so a deposed leader answers 200 for a write that was replaced.
- `etcd_second_crash`: a restored store counts revisions from 1 again, so the next restart skips WAL records that the
  older snapshot seems to cover: writes are lost that were on disk.

The others are stated as properties of the modules and refuted by TLC when asked for in place of the properties of a
run's cfg, with the constants changed as given:

| Property | cfg, with | What the code does |
|---|---|---|
| `CommitOnMajority` | `RaftFaults.cfg`, `SPECIFICATION Spec`, `LateReplies = FALSE`, `MaxTerm = 1`, `MaxLog = 1` | after a failed `save_persistent` the entries stay in memory, the retry writes nothing and is answered with success; a restart loses a committed entry |
| `FreshLeaderAppends` | `RaftStableLeader.cfg` (as PROPERTY) | a new leader appends no no-op, so old entries wait for the next client write |
| `CandidateTicks` | `RaftFaults.cfg` | the driver ends on the first failed tick |
| `RevisionsAgree` | `WritePath.cfg` | a restarted member applies the whole log to a store that already has it; its revisions run ahead |
| `CompactionKeepsLatest` | `KvStores.cfg` | `compact_v2` drops a key's last row when it is older than the revision |
| `CompactedReadFails` | `KvStores.cfg` | `compact` to a lower revision lets reads of dropped revisions through |
| `ReplayCoversChanges` | `KvStores.cfg` | a range delete keeps one tombstone for all its keys |
| `EveryIndexSorted` | `KvStores.cfg`, `Parts = {"calls"}` | two puts of a key push their revisions in the other order |
| `TxnAtomic` | `KvStores.cfg`, `Parts = {"calls"}` | puts, deletes and revokes do not take `txn_lock` |
| `RevokeDeletesOwn` | `KvStores.cfg`, `Parts = {"calls"}` | a revoke deletes a key that has moved to another lease |
| `StreamSeesAll` | `KvStores.cfg`, `Parts = {"calls"}` | a write between the replay and the subscription is never shown |
| `ReplicasAgree` | `KvStores.cfg`, `Parts = {"replicas"}`, `Local = {"txn"}` or `{"lease"}` | transactions and leases act on one member |
| `TermIsHighest` | `PeerRegistry.cfg` | two handlers that read one term store theirs in either order |
| `SnapshotHoldsItsRevision` | `EtcdOneCrash.cfg` | a put between its revision and its insert is counted by the snapshot and not in it |
| `EveryPutLogged` | `EtcdOneCrash.cfg` | the WAL writer goes on after it lagged or a write failed |
| `OrderSurvives` | `ApiCrashes.cfg` | handlers publish in the other order than they inserted, and the WAL restores the older content |
| `AppendedSurvive` | `ApiCrashes.cfg` | records are appended behind a torn one and lost at the next restart |
| `CheckHoldsAtInsert` | `ApiCrashes.cfg` | a create succeeds although another create, or the apply daemon, made the resource meanwhile |
| `ReplayConverges` | `ApiCrashes.cfg` | old records are replayed over a newer snapshot |
| `AppliedSurvive` | `ApiCrashes.cfg` | `upsert` publishes no event, so the WAL never hears of it |
| `ClosesOnTrials` | `Services.cfg`, `Parts = {"breaker"}` (as PROPERTY) | successes of calls made before the trip close a half-open breaker |
| `TargetComesBack` | `Services.cfg`, `Parts = {"gateway"}` (as PROPERTY) | asking uses up permits: a half-open breaker refuses a healthy target for ever |
| `TakenWithinRate`, `OfferedWithinRate` | `Services.cfg`, `Parts = {"rate"}`, `Thread = {h1, h2}` | an instant read before the lock moves the bucket's time back; the time is refilled twice |
| `DroppedHandleEndsLoop` | `Services.cfg`, `Parts = {"reconcile"}` (as PROPERTY) | the loop holds a sender of its own queue |
| `AtMostOneLeader` | `Services.cfg`, `Parts = {"lease"}` | a leader learns that its lease is gone when it renews |

Seen while reading and not stated as a property: the apply loop's shutdown sender is dropped at once, so its `select!`
spins.

## 5. Proofs

Eight modules hold theorems. Each theorem holds for every value of the constants that the named assumptions of its
module allow: any finite cluster, any number of callers, handlers, replicas and threads, any keys and commands, any
bounds. What a theorem asks beyond that is in its statement.

| Module | Theorem | States |
|---|---|---|
| `RaftCoreProofs` | `TypeCorrect` | `Spec => []TypeOK` |
| | `ElectionSafe` | `Spec => []ElectionSafety`: one leader per term |
| | `VotesDurable` | `Spec => []VoteDurable`: an answered vote is in state.bin until a later term is |
| | `DiskVoteStable` | `Spec => DurableVoteStable`: no step takes back a term or replaces a vote on disk |
| `RaftReplicationProofs` | `LogsMatch` | `Spec => []LogMatching` |
| `RaftCommitProofs` | `CommitInvariant` | without late replies: `Spec => [](faults = 0 => CommitInv)` |
| | `CommittedAgree`, `LeadersComplete`, `CommitsDurable` | without late replies: `CommittedPrefix`, `LeaderCompleteness`, `CommitOnMajority` in every state before the first failed write |
| | `CoreImplementsLog` | without late replies: `Spec /\ [](faults = 0) => ImplementsReplicatedLog` |
| | `SafeWithoutFaults` | all four with `MaxFault = 0`, as the run `raft_commit` has them |
| `WritePathProofs` | `PathImplementsCore` | `PathSpec => Spec`: what is proved of the core holds under the write path |
| | `AcksCommitted` | `PathSpec => []AckedIndexCommitted`, whatever fails |
| | `AcksOwnWrite`, `DeliversOnceInOrder` | without late replies: `AckableUnderSameLeader`, `DeliveredOnceInOrder` before the first failed write |
| `KvProofs` | `EventsRecorded` | `CallsSpec => []HeardIsRecorded` |
| | `IndexStaysSorted`, `CurrentShowsNewest` | `CallsSpec => []IndexSorted`, `[]CurrentIsNewest` |
| | `TxnsImplementAtomicKv` | `CallsSpec => ImplementsAtomicKv` |
| | `KvTypes`, `LeasesOwnTheirKeys` | `KvSpec => []TypeOK`, `[]LeaseOwnsItsKeys` |
| | `PairsTellTheirLives` | `KvSpec => []PairTellsItsLife`: create revision and version are true |
| | `ReadsTellThePast` | `KvSpec => []ReadAtPast`, whatever is compacted and defragmented |
| | `ReplicasAgreeUnlessOwn` | `ReplicasSpec => []AgreeUnlessOwn`, with every route in use |
| | `UntouchedReplicasAgree` | with `Local \subseteq {"compact"}`: `ReplicasSpec => []ReplicasAgree` |
| `EtcdPersistProofs` | `FirstCrashLosesNothing` | with `MaxCrashes <= 1`: `Spec => []QuietCrashLosesNothing` |
| | `PersistTypes` | `Spec => []TypeOK`, for any number of crashes |
| `ApiStoreProofs` | `RestoreKeepsResources` | `Spec => []ResourcesSurvive`, for any number of handlers and crashes and any reading of torn records |
| `ServiceProofs` | `CountersFit`, `TrialsWithinPermits`, `ClosedIsBelow` | the breaker's three invariants |
| | `TokensBalance` | with `TokensInOrder`: `AccountBalances` |
| | `GrantsExclude`, `RevisionsTell` | `OneUnexpiredGrant`, `RevisionTellsTakeover` |
| | `PeersTyped`, `TermsAreTimeouts` | the peer registry's `TypeOK` and `TermsComeFromTimeouts` |

Each inductive invariant was an invariant of a TLC run before it was proved. A proof has one lemma per action, and
actions that leave a part of the state alone share one.

*The conditions, and why they cannot go.* Without each of them the property is false of the code, and section 4 has the
behaviour: late replies (`raft_late_reply`), a failed write (`CommitOnMajority` with `faults > 0`), handlers that
overlap on one resource (`OrderSurvives`), a record torn by an earlier crash (`AppendedSurvive`), the apply daemon's
upserts (`AppliedSurvive`), a second crash (`etcd_second_crash`), a clock read before the lock by two threads
(`TakenWithinRate`), unreplicated routes (`ReplicasAgree`), writers beside transactions (`EveryIndexSorted`). "Before
the first failed write" is stronger than `MaxFault = 0`: it speaks of every behaviour, up to the failure.
`TokensInOrder` says that either nobody uses the calls that read the clock before the lock (`try_consume`, `available`),
or there is one thread: any number of threads may use `acquire`.

### The consensus core

*Lemmas.* `RaftCoreProofs` begins with what the log computations return for logs of any length: the merge and the suffix
are logs, the commit index never goes back and stays inside the log, indices stay natural numbers.

*Types.* `TypeOK` is not inductive: the history `decided` takes `SubSeq(log, 1, c)`, which is a sequence of entries only
if `c` is inside the log. A follower's or leader's new commit index is, an old one that did not move need not be (its
log may have been truncated). `TypeInv` therefore adds `CommitObserved`: a commit index is never beyond `decided`, so
one that did not move is not taken into the history again.

*Elections.* `ElectionInv` rests on an order on persistent records: `Later(p, q)` when q has a later term, or the same
term and no vote of p taken back. Memory is `Later` than disk (`DiskBehind`); each vote cast is on the voter's disk, is
its only one in that term, and the candidate it was cast for has that term on its own disk (`VoteDurable`,
`VotesUnique`, `CandidacySaved`); what is in flight tells the truth (`MessagesHonest`); each election is backed by a
majority (`Won`). `CandidatesHonest` has a case that only a failed write reaches: `become_candidate` then leaves the
votes of the previous term in place under the new one. That does no harm only because the driver sends no RequestVote,
so that no vote for that term can come back, which is what `CandidacySaved` contributes to `CountVote`. Two majorities
share a member, which voted once.

*Log matching.* `MatchInv` looks at links: an entry with its index and the term of the entry before it. Logs in memory,
logs on disk and AppendEntries in flight are made of links, a leader makes new ones and everything else copies them; a
link's index and term determine it, because the leader of a term makes one per index. Walking two logs down their links
gives `LogMatching`. Failed writes and late replies are covered.

*Commitment.* `LeaderInv` is what a leader may rely on while disk and memory are in step: its log only grows, its
AppendEntries in flight are pieces of it, acknowledgements are for entries it has, terms do not decrease along a log.
`Safe(P, A)` says of a prefix P and members A that all of A hold P, that leaders from P's term on hold it and send
nothing that contradicts it, and that a candidate with a vote from A holds it. A step keeps it (`SafeStep`) unless a
majority outside A has moved beyond P's term (`Dead`), which no majority can do to another. `CommitInv`: what a leader
has and a majority has acknowledged is safe for that majority, what is decided is, and commit indices, in memory and in
AppendEntries, stay within what is. Entries are not quantified by term as in the paper's proof; two safe prefixes meet
in a member of both majorities, which gives `CommittedPrefix`.
`CoreImplementsLog` maps `decided` and the applied prefixes to the abstract log: every step
is a delivery, a growth of the committed log, a restart or a stutter.

### The write path

`PathSpec => Spec` by projection: every action of the daemon, the notifier and the handlers is a step of the core or
leaves it alone. `PathInv` holds whatever fails: what was published was drained, what was drained is committed.
`AcksOwnWrite` adds `Given` (what was drained and decodes was applied or is in the batch) and `DeliversOnceInOrder` adds
`Ordered` (the batch is what comes next, what was applied comes from before it, in order).

### The etcd store

`RecordInv` follows each call from step to step. `RevisionsOwn`: no two operations under way have one revision, and the
row at an operation's revision is its own; so only a range delete replaces a row, and only its own, and an event is
dispatched after its row is in the history. For transactions, while no other call was made (`TxnsInv`), `Alone` says
that who is between the first compare and the end has `txn_lock`, so that one caller at a time writes; index entries and
pairs are not above the revision counter (`RevsBounded`); and every key but the one being written is `Shown`: the last
entry of its index leads to a row that tells what `current` says. For a key of a range delete that row may be another
key's, which is why `Shown` speaks of the row's kind and not of its key. This gives the sorted index, the read at the
newest revision and the refinement of `AtomicKv`: the step that inserts or removes a pair is the atomic put or delete,
all others stutter.

`StoreInv` is what every operation of a single store keeps, for any keys, values, leases, transactions and compactions:
- `Typed`: the types, `past` has one entry per revision and ends with `current`, no pair is dated after its revision,
  what is compacted is at most what is `lost`;
- `Owned`: `LeaseOwnsItsKeys`, inductive by itself (`ReattachIs`, `DetachKeysIs`);
- `Lives`: `PairTellsItsLife`, with the creation a revision that was taken. A put over a live pair adds one revision to
  those counted, a put over none begins a count of one;
- `Indexed`: each index list ascends, and at every past revision r the newest entry of a key not above r leads to a row
  that tells the pair of then (`Told`). A missing row or list entry is excused only for a pair older than `lost`.
  `ReadAtPast` alone is not inductive: that a read finds the newest entry rests on lists that ascend, and that a write
  changes no earlier answer on entries and rows that fit each other.

Puts and deletes are one case, `Advance(s, t, D)`: a revision more, at which the keys D change. Compaction drops rows
(`CompactKeeps`); `compact_v2` and `defragment` drop list entries that are older than all that stays and than `lost`
(`Pruned`). The loops are taken position by position (`RunOpsTrace` and its like turn the recursive function into a
sequence of stores), and `Induct`, from the well-foundedness of the natural numbers, carries a set of positions from
each to the next: this is how these proofs do without the induction theorems that take an operator. That `expire_leases`
finds each lease it collected still there when its turn comes is part of `RevokeLeasesKeep`.

`ReplicasInv` says that there is one trace of the log (what each command makes of revision, pairs and index, from a
fresh store on) and that each member's store follows it (`Follows`): it is at its place in the trace as long as it took
no revision by itself, and each key it did not change by itself looks as it does there. `EffectOnKey` is what makes the
second part inductive: what a command makes of the value, version and lease of a key depends on nothing else. Every
member's store satisfies `StoreInv`, so a member that took no revision (`Onward`) has changed nothing.

### Persistence

`Ends(s, n, r, b, k, a)`: replaying the first n records of the log s over a snapshot of revision r that says b of key k
ends with a, because the last record that counts says so, or none counts and b is a. It extends record by record
(`EndsNext`), is unique (`EndsUnique`), and so does the work of an induction over the log. In the first life of an etcd
store (`FirstLife`) the log as it will be, on file, on the channel and from the call that has changed the store, ends
with what the store says: over the snapshot on disk, and over the one being collected, whose missing rows are taken to
be the store's. A snapshot that begins between two calls covers all that was told; rows it collects later are newer than
its revision and are replayed over themselves. A crash hands this to the files (`InFiles`), `Restoring` follows the
replay, and a process that dies meanwhile starts again from the same files. `PersistType` needs that a call is under way
only while the store is up: a restored store's counter starts over, below the revision of a call that was cut off.

The API server's `ApiInv` has no revisions: all records are replayed. While no reason for a loss has come up (`lost` is
empty) no record is torn and no two calls are on one resource (`Whole`), and each resource's last record, on file or on
the bus, or the snapshot if there is none, says what the store says, unless the call that changed it has yet to publish
it (`Running`). A crash hands this to the files for the resources that are settled (`Claimed`): behind their records
there is at most one torn record, the last, and it is about another resource, since the event it was written for had
not left the queue. `Replaying` follows the restore, and `Told` says of which resources. What the process does after
that is claimed at the next crash only if the file had no torn record: `lost` starts with `torn` otherwise.

### The services

`CallsInv`: the breaker's counters fit its state, and the permits used pay for the trials under way, which
`TrialsBounded` alone does not say. The token bucket's account is closed: tokens, taken and refilled ticks add up, as
long as time in the bucket does not go back. `LeaseInv` orders the lease's expiry and the replicas' grants, with the
revision as the witness of who took over. In the peer registry every term, stored, in flight or read by a handler, is
at most the number of timeouts.

### What proving changed

- Some operators were defined by CASE with overlapping guards, of which TLA+ does not say which is taken, though TLC
  takes the first. Nothing can be proved of them; the guards are now exclusive, as the code's branches are.
- The proof of the token bucket's account failed at the step that takes the clock back; the account is now proved under
  `TokensInOrder`, and the failure is in section 4.
- `ApiStore`'s invariant did not survive torn records: what a process appends behind one cannot be claimed. The claim
  now names the reasons, and says which resources it is about, so that a crash need not be quiet.
- `DeliveredOnceInOrder` is restated over the indices that were applied, a form that can be taken apart.
- Both restores were one step. They are now `LoadSnapshot`, one `ReplayRecord` per record, and `Serve`, and a crash may
  come between them, so that the theorems cover a process that dies while it restores. The revisions of restored rows
  are counted (how many rows are no later) where they were the positions of a sorted sequence.
- The etcd store's loops were folds and filters of the community modules, which take an operator that no prover here can
  instantiate. They are now recursive functions.

## 6. Plan

Done: the Raft core, the driver, the replicated write path, the etcd store alone, concurrent and replicated, the
persistence of both stores, the peer registry, and the kernel's breaker, limiters, reconcile loop and lease with two of
their users. Proved: the invariants, action properties and refinements of the passing runs (but `OfferedWithinRate`),
under the conditions of section 5.

Next, in this order:
1. `EtcdPersist` composed with `WritePath` in place of its abstract recovery, and its store with `KvOps`.
2. `ReplayCoversChanges` of a store whose range deletes have one key: a theorem like `ReadsTellThePast`.
3. etcd's locks and elections over the store; cave-ha's Raft.

## 7. Only model-checked, or not modelled

Liveness (`StableLeaderReplicates`, `TermsConverge`, `HalfOpenEnds`, `RequestsEnd`, `QueuedIsReconciled`,
`CancelEndsLoop`) stays with TLC: fairness and ENABLED are out of the prover's reach. `OfferedWithinRate` is checked
with one thread and not proved: with several it is false, and a proof for one would say little more than the run. All
other properties of the passing runs are proved, under the conditions that section 5 names.

Of the modelled components the following is left out. In the etcd store: users and roles, alarms, the chunked snapshot
stream, the in-process membership tables. In the kernel: the semaphore, the backoff and retry formulas, identities and
the traits of `consensus.rs`, which are thin or pure; the event bus is modelled where it is used. In the gateway:
routing, plugins, health probes, WebSocket and gRPC pass-through. In the API server: resource types, validation and
the later watch cache.

Not modelled at all: etcd's auxiliary services (locks, elections, quota over the store), cluster bootstrap (files and
certificates handled once by an operator), cave-ha (a second Raft that the binary does not use), and the bulk of the
repository. Of its 833 000 lines of Rust most are ports of upstream products (Cilium, Vault, Kafka, Keycloak, ...),
admin pages, resource definitions, command-line code and tables: request and response types, conversions and in-memory
stores that are changed under one lock by one request at a time, with no protocol between them. The models cover the
share of the repository where several actors meet; that is a few thousand lines, and a small part of the whole.
