------------------------------ MODULE WritePath -------------------------------
(***************************************************************************)
(* The replicated write path of a multi-node cluster (raft_apply.rs and    *)
(* cave-etcd's kv_put / kv_delete_range): a write handler proposes through *)
(* the RaftBridge and waits for the apply daemon's notifier, the daemon    *)
(* drains committed entries from RaftCore and applies them to the member's *)
(* store one by one.                                                       *)
(*                                                                         *)
(* The store is the sequence of commands applied to it: its contents and   *)
(* its revision (one per put) are functions of that sequence.  It outlives *)
(* a restart through its own snapshot and WAL, up to what the WAL writer   *)
(* had written when the process died.                                      *)
(***************************************************************************)
EXTENDS RaftCore

CONSTANTS Bad          \* commands whose payload does not decode

ASSUME BadAssumption == Bad \subseteq Value

VARIABLES
    batch,       \* entries the apply daemon has drained and not yet applied
    store,       \* commands applied to the member's store, oldest first
    recovered,   \* how many of them were there when the process started
    applied,     \* (index, command) of what this process applied, in order
    published,   \* the notifier's last published index
    waiting,     \* propose_and_wait calls that have not returned
    acked        \* history: the calls that returned Ok

pathVars == <<batch, store, recovered, applied, published, waiting, acked>>
allVars == <<vars, pathVars>>

PathInit ==
    /\ Init
    /\ batch = [n \in Node |-> <<>>]
    /\ store = [n \in Node |-> <<>>]
    /\ recovered = [n \in Node |-> 0]
    /\ applied = [n \in Node |-> <<>>]
    /\ published = [n \in Node |-> 0]
    /\ waiting = {}
    /\ acked = {}

\* propose_and_wait up to its wait: the write is in the leader's log at the
\* index it waits for.  (On a member that does not lead it returns NotLeader
\* and nothing changes.)  term is history: the code forgets it.
ProposeAndWait(n, v) ==
    /\ v \notin Bad
    /\ Propose(n, v)
    /\ waiting' = waiting \cup
          {[node |-> n, index |-> LastIndex(persistent'[n].log), cmd |-> v,
            term |-> persistent[n].term]}
    /\ UNCHANGED <<batch, store, recovered, applied, published, acked>>

\* POST /api/v1/cluster/propose: any payload, and nobody waits.
ProposeRaw(n, v) ==
    /\ Propose(n, v)
    /\ UNCHANGED pathVars

\* Mutant: a new batch replaces one that is not finished.
DrainOver(n) ==
    /\ TakeCommitted(n)
    /\ batch' = [batch EXCEPT ![n] =
          [k \in 1..(commitIndex[n] - lastApplied[n]) |->
              [index |-> lastApplied[n] + k,
               cmd |-> persistent[n].log[lastApplied[n] + k].cmd]]]
    /\ UNCHANGED <<store, recovered, applied, published, waiting, acked>>

\* The daemon's drain, when the previous batch is done.
Drain(n) ==
    /\ batch[n] = <<>>
    /\ TakeCommitted(n)
    /\ batch' = [batch EXCEPT ![n] =
          [k \in 1..(commitIndex[n] - lastApplied[n]) |->
              [index |-> lastApplied[n] + k,
               cmd |-> persistent[n].log[lastApplied[n] + k].cmd]]]
    /\ UNCHANGED <<store, recovered, applied, published, waiting, acked>>

\* apply_one_notify on the next entry: applied and published, or, if it does
\* not decode, skipped and counted.
ApplyOne(n) ==
    LET e == Head(batch[n])
        ok == e.cmd \notin Bad
    IN  /\ batch[n] # <<>>
        /\ batch' = [batch EXCEPT ![n] = Tail(@)]
        /\ store' = IF ok THEN [store EXCEPT ![n] = Append(@, e.cmd)] ELSE store
        /\ applied' = IF ok THEN [applied EXCEPT ![n] = Append(@, e)] ELSE applied
        /\ published' = IF ok THEN [published EXCEPT ![n] = e.index] ELSE published
        /\ UNCHANGED <<vars, recovered, waiting, acked>>

\* Mutant: the index before its own is enough.
AcknowledgeEarly(w) ==
    /\ published[w.node] + 1 >= w.index
    /\ waiting' = waiting \ {w}
    /\ acked' = acked \cup {w}
    /\ UNCHANGED <<vars, batch, store, recovered, applied, published>>

\* The wait loop sees an index at or above its own: the handler answers 200.
Acknowledge(w) ==
    /\ published[w.node] >= w.index
    /\ waiting' = waiting \ {w}
    /\ acked' = acked \cup {w}
    /\ UNCHANGED <<vars, batch, store, recovered, applied, published>>

\* The 5 s deadline passes first: 504, outcome unknown to the client.
TimeOut(w) ==
    /\ waiting' = waiting \ {w}
    /\ UNCHANGED <<vars, batch, store, recovered, applied, published, acked>>

\* The process dies with its waits and its batch; the store comes back with
\* what its WAL had received, and Raft delivers from the first entry again.
RestartHost(n) ==
    /\ Restart(n)
    /\ \E k \in recovered[n]..Len(store[n]) :
          /\ store' = [store EXCEPT ![n] = SubSeq(@, 1, k)]
          /\ recovered' = [recovered EXCEPT ![n] = k]
    /\ batch' = [batch EXCEPT ![n] = <<>>]
    /\ applied' = [applied EXCEPT ![n] = <<>>]
    /\ published' = [published EXCEPT ![n] = 0]
    /\ waiting' = {w \in waiting : w.node # n}
    /\ UNCHANGED acked

PathNext ==
    \/ \E n \in Node :
          \/ Consensus(n) /\ UNCHANGED pathVars
          \/ \E v \in Value : ProposeAndWait(n, v) \/ ProposeRaw(n, v)
          \/ Drain(n) \/ ApplyOne(n) \/ RestartHost(n)
    \/ \E w \in waiting : Acknowledge(w) \/ TimeOut(w)

PathSpec == PathInit /\ [][PathNext]_allVars

-----------------------------------------------------------------------------
\* The apply daemon delivers the committed log from its first entry on: up to
\* where it is, every entry that decodes has been applied once and in order,
\* and its batch is what comes next.
DeliveredOnceInOrder ==
    \A n \in Node :
        LET done == lastApplied[n] - Len(batch[n])
        IN  /\ {applied[n][k].index : k \in DOMAIN applied[n]} =
                   {i \in 1..done : decided[i].cmd \notin Bad}
            /\ \A j, k \in DOMAIN applied[n] :
                   j < k => applied[n][j].index < applied[n][k].index
            /\ \A k \in DOMAIN applied[n] :
                   applied[n][k].cmd = decided[applied[n][k].index].cmd
            /\ \A k \in DOMAIN batch[n] :
                   batch[n][k] = [index |-> done + k, cmd |-> decided[done + k].cmd]

\* The first committed entry at w's index, if any, is w itself.
Holds(w) == w.index <= Len(decided)
            /\ decided[w.index] = [term |-> w.term, cmd |-> w.cmd]

\* "the response only goes out after the entry has been replicated and
\* applied" (propose_and_wait): an acknowledged write is the committed entry at
\* its index.
AckedIsCommitted == \A w \in acked : Holds(w)

\* A write that its proposer still leads the term of is only ever
\* acknowledged for itself: while it can be acknowledged, it is committed and
\* applied here.
AckableUnderSameLeader ==
    \A w \in waiting :
        (/\ published[w.node] >= w.index
         /\ role[w.node] = "leader" /\ persistent[w.node].term = w.term)
            => Holds(w) /\ \E k \in DOMAIN applied[w.node] :
                              applied[w.node][k] = [index |-> w.index, cmd |-> w.cmd]

\* An acknowledged index is committed, whatever stands there: no answer goes
\* out on an entry that a majority does not have.
AckedIndexCommitted == \A w \in acked : w.index <= Len(decided)

\* "can over-apply without divergence": two members that have applied the whole
\* committed log have made the same number of revisions.
RevisionsAgree ==
    \A n, o \in Node :
        (/\ lastApplied[n] = Len(decided) /\ batch[n] = <<>>
         /\ lastApplied[o] = Len(decided) /\ batch[o] = <<>>)
            => Len(store[n]) = Len(store[o])
=============================================================================
