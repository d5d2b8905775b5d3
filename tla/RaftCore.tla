------------------------------ MODULE RaftCore -------------------------------
(***************************************************************************)
(* The consensus core of cave-runtime: RaftCore (raft_core.rs) on every    *)
(* member, and the driver that carries its RPCs over HTTP (raft_driver.rs).*)
(*                                                                         *)
(* A member keeps its persistent state in memory and, as a whole file, on  *)
(* disk (save_persistent).  Every handler runs under the core's mutex, so  *)
(* it is one action; the interleavings are those of RPCs, replies, timers, *)
(* restarts and failed disk writes of different members.  A reply is       *)
(* handled by a task the sender spawned for that RPC, which remembers the  *)
(* prev index and the number of entries it sent; that task dies with the   *)
(* sender's process, while a request already sent may still be handled.    *)
(*                                                                         *)
(* Timers are abstracted: a follower or candidate may time out at any      *)
(* moment, a leader may send its heartbeats at any moment.                 *)
(***************************************************************************)
EXTENDS RaftLog, SequencesExt

CONSTANTS Node,         \* the cluster's members
          Value,        \* commands a client may propose
          None,         \* "no member": Option::None
          LateReplies,  \* may a reply outlive the term of its request?
          MaxTerm,      \* bound on terms
          MaxLog,       \* bound on the length of a leader's log
          MaxCrash,     \* bound on restarts
          MaxFault,     \* bound on failed disk writes
          MaxInflight   \* bound on RPCs and replies in flight

ASSUME NodeAssumption == IsFiniteSet(Node) /\ Node # {} /\ None \notin Node
ASSUME BoundAssumption == /\ MaxTerm \in Nat /\ MaxLog \in Nat
                          /\ MaxCrash \in Nat /\ MaxFault \in Nat
                          /\ MaxInflight \in Nat
                          /\ LateReplies \in BOOLEAN

VARIABLES
    persistent,    \* in memory: current_term, voted_for, log
    disk,          \* the same record as last written to state.bin
    role, leaderId, votesReceived, commitIndex, lastApplied,
    nextIndex, matchIndex,
    driver,        \* is the member's driver task still ticking?
    rpcs,          \* requests and replies in flight
    crashes, faults,                    \* how many happened, for the bounds
    grants,        \* history: <<voter, term, candidate>> of every vote cast
    elected,       \* history: <<term, leader>> of every election won
    decided        \* history: the longest committed log prefix ever observed

durable == <<persistent, disk>>
volatile == <<role, leaderId, votesReceived, commitIndex, lastApplied,
              nextIndex, matchIndex, driver>>
bounds == <<crashes, faults>>
history == <<grants, elected, decided>>
vars == <<durable, volatile, rpcs, bounds, history>>

Peers(n) == Node \ {n}
Majority == Cardinality(Node) \div 2 + 1
Entry == [term : Nat, cmd : Value]
Persistent == [term : Nat, vote : Node \cup {None}, log : Seq(Entry)]

Init ==
    /\ persistent = [n \in Node |-> [term |-> 0, vote |-> None, log |-> <<>>]]
    /\ disk = persistent
    /\ role = [n \in Node |-> "follower"]
    /\ leaderId = [n \in Node |-> None]
    /\ votesReceived = [n \in Node |-> {}]
    /\ commitIndex = [n \in Node |-> 0]
    /\ lastApplied = [n \in Node |-> 0]
    /\ nextIndex = [n \in Node |-> [p \in Node |-> 1]]
    /\ matchIndex = [n \in Node |-> [p \in Node |-> 0]]
    /\ driver = [n \in Node |-> TRUE]
    /\ rpcs = {}
    /\ crashes = 0 /\ faults = 0
    /\ grants = {} /\ elected = {} /\ decided = <<>>

-----------------------------------------------------------------------------
(* The network: any part of what is sent may be lost; what is not lost may  *)
(* be handled at any later moment, in any order.                            *)

Transmit(handled, sent) ==
    \E through \in SUBSET sent :
        /\ rpcs' = (rpcs \ handled) \cup through
        /\ through # {} => Cardinality(rpcs') <= MaxInflight

\* The answer to request m: it has a reader only while m's sender lives.
Answer(m, reply) == Transmit({m}, IF m.open THEN {reply} ELSE {})

VoteRequest(n, p) ==
    [type |-> "vote", src |-> n, dst |-> p, open |-> TRUE,
     term |-> persistent'[n].term,
     lastIndex |-> LastIndex(persistent'[n].log),
     lastTerm |-> LastTerm(persistent'[n].log)]

VoteReply(m, term, granted) ==
    [type |-> "voted", src |-> m.dst, dst |-> m.src, term |-> term,
     granted |-> granted]

AppendRequest(n, p) ==
    LET next == nextIndex[n][p]
        log == persistent[n].log
    IN  [type |-> "append", src |-> n, dst |-> p, open |-> TRUE,
         term |-> persistent[n].term,
         prevIndex |-> PrevIndex(next),
         prevTerm |-> TermAt(log, PrevIndex(next)),
         entries |-> Suffix(log, next),
         commit |-> commitIndex[n]]

\* sentPrev and sentLen are the OutboundCtx of the sender's task.
AppendReply(m, term, success, conflict) ==
    [type |-> "appended", src |-> m.dst, dst |-> m.src, term |-> term,
     success |-> success, conflict |-> conflict,
     sentPrev |-> m.prevIndex, sentLen |-> Len(m.entries)]

Received(n, m, type) == m.type = type /\ m.dst = n

-----------------------------------------------------------------------------
(* Steps the handlers share.                                                *)

\* Mutant: the vote is forgotten although the term did not change.
WithTermForgetting(p, term) == [p EXCEPT !.term = term, !.vote = None]

\* The change set_term_and_persist makes to the in-memory record.
WithTerm(p, term) ==
    IF term = p.term THEN p ELSE [p EXCEPT !.term = term, !.vote = None]

\* The change become_candidate makes to it.
Campaign(p, n) == [p EXCEPT !.term = @ + 1, !.vote = n]

\* Mutant: a vote is given whoever it was given to before.
CanVoteForAny(p, candidate) == candidate \in Node

\* The single-vote-per-term test of handle_request_vote.
CanVoteFor(p, candidate) == p.vote \in {None, candidate}

\* Mutant: state.bin receives the term and the log but not the vote.
SaveWithoutVote(n, p) == disk' = [disk EXCEPT ![n] = [p EXCEPT !.vote = None]]

\* The in-memory record, and save_persistent: the whole record replaces
\* state.bin, by rename.
Keep(n, p) == persistent' = [persistent EXCEPT ![n] = p]
Save(n, p) == disk' = [disk EXCEPT ![n] = p]

\* The volatile part of become_follower.
BecomeFollower(n, leader) ==
    /\ role' = [role EXCEPT ![n] = "follower"]
    /\ leaderId' = [leaderId EXCEPT ![n] = leader]
    /\ votesReceived' = [votesReceived EXCEPT ![n] = {}]

\* handle_append_entries steps down on a higher term, and on an equal one
\* when it was campaigning.
StepsDown(n, m) ==
    \/ m.term > persistent[n].term
    \/ /\ m.type = "append"
       /\ m.term = persistent[n].term
       /\ role[n] = "candidate"

\* History: n's log, committed up to index c, has been observed.
Observe(log, c) ==
    decided' = IF c > Len(decided) THEN SubSeq(log, 1, c) ELSE decided

-----------------------------------------------------------------------------
(* tick: the driver's 50 ms timer.                                          *)

\* A follower's or candidate's election deadline has passed
\* (become_candidate) and RequestVote goes to every peer.
StartElection(n) ==
    LET p == Campaign(persistent[n], n)
    IN  /\ driver[n]
        /\ role[n] # "leader"
        /\ p.term <= MaxTerm
        /\ Keep(n, p) /\ Save(n, p)
        /\ role' = [role EXCEPT ![n] = "candidate"]
        /\ leaderId' = [leaderId EXCEPT ![n] = None]
        /\ votesReceived' = [votesReceived EXCEPT ![n] = {n}]
        /\ Transmit({}, {VoteRequest(n, q) : q \in Peers(n)})
        /\ grants' = grants \cup {<<n, p.term, n>>}
        /\ UNCHANGED <<commitIndex, lastApplied, nextIndex, matchIndex, driver,
                       bounds, elected, decided>>

\* The write of that step fails: the term and the vote stay in memory, the
\* old votes are not cleared, nothing is sent, and run_driver returns.
StartElectionFails(n) ==
    /\ driver[n]
    /\ role[n] # "leader"
    /\ persistent[n].term < MaxTerm
    /\ faults < MaxFault
    /\ Keep(n, Campaign(persistent[n], n))
    /\ role' = [role EXCEPT ![n] = "candidate"]
    /\ leaderId' = [leaderId EXCEPT ![n] = None]
    /\ driver' = [driver EXCEPT ![n] = FALSE]
    /\ faults' = faults + 1
    /\ UNCHANGED <<disk, votesReceived, commitIndex, lastApplied, nextIndex,
                   matchIndex, rpcs, crashes, history>>

\* A leader's heartbeat deadline has passed: AppendEntries to every peer,
\* with all entries from its next_index on.
Heartbeat(n) ==
    /\ driver[n]
    /\ role[n] = "leader"
    /\ Transmit({}, {AppendRequest(n, p) : p \in Peers(n)})
    /\ UNCHANGED <<durable, volatile, bounds, history>>

-----------------------------------------------------------------------------
(* handle_request_vote.                                                     *)

\* Early return: the candidate's term is stale.
RejectStaleVote(n, m) ==
    /\ Received(n, m, "vote")
    /\ m.term < persistent[n].term
    /\ Answer(m, VoteReply(m, persistent[n].term, FALSE))
    /\ UNCHANGED <<durable, volatile, bounds, history>>

\* The term is adopted if higher, and the vote is decided on what is then
\* recorded: refused if cast for another or if the candidate's log lags.
HandleRequestVote(n, m) ==
    LET p == WithTerm(persistent[n], m.term)
        granted == /\ CanVoteFor(p, m.src)
                   /\ UpToDate(m.lastTerm, m.lastIndex, p.log)
        q == IF granted THEN [p EXCEPT !.vote = m.src] ELSE p
    IN  /\ Received(n, m, "vote")
        /\ m.term >= persistent[n].term
        /\ Keep(n, q)
        /\ IF StepsDown(n, m) \/ granted THEN Save(n, q) ELSE UNCHANGED disk
        /\ IF StepsDown(n, m) THEN BecomeFollower(n, None)
           ELSE UNCHANGED <<role, leaderId, votesReceived>>
        /\ Answer(m, VoteReply(m, q.term, granted))
        /\ grants' = IF granted THEN grants \cup {<<n, q.term, m.src>>} ELSE grants
        /\ UNCHANGED <<commitIndex, lastApplied, nextIndex, matchIndex, driver,
                       bounds, elected, decided>>

\* record_vote_and_persist fails: the vote stays in memory, unanswered.
RecordVoteFails(n, m) ==
    LET p == WithTerm(persistent[n], m.term)
    IN  /\ Received(n, m, "vote")
        /\ faults < MaxFault
        /\ m.term >= persistent[n].term
        /\ CanVoteFor(p, m.src)
        /\ UpToDate(m.lastTerm, m.lastIndex, p.log)
        /\ Keep(n, [p EXCEPT !.vote = m.src])
        /\ IF StepsDown(n, m) THEN Save(n, p) /\ BecomeFollower(n, None)
           ELSE UNCHANGED <<disk, role, leaderId, votesReceived>>
        /\ faults' = faults + 1
        /\ rpcs' = rpcs \ {m}
        /\ UNCHANGED <<commitIndex, lastApplied, nextIndex, matchIndex, driver,
                       crashes, history>>

-----------------------------------------------------------------------------
(* handle_append_entries.                                                   *)

\* Early return: the leader's term is stale.
RejectStaleAppend(n, m) ==
    /\ Received(n, m, "append")
    /\ m.term < persistent[n].term
    /\ Answer(m, AppendReply(m, persistent[n].term, FALSE, 0))
    /\ UNCHANGED <<durable, volatile, bounds, history>>

\* The sender is recognised as leader; votes are dropped only on stepping down.
Follow(n, m) ==
    /\ role' = [role EXCEPT ![n] = "follower"]
    /\ leaderId' = [leaderId EXCEPT ![n] = m.src]
    /\ votesReceived' = IF StepsDown(n, m)
                        THEN [votesReceived EXCEPT ![n] = {}] ELSE votesReceived

\* The prev-log check fails; only a step down was saved.
RejectMismatchedAppend(n, m) ==
    LET p == WithTerm(persistent[n], m.term)
    IN  /\ Received(n, m, "append")
        /\ m.term >= persistent[n].term
        /\ ~PrevMatches(p.log, m.prevIndex, m.prevTerm)
        /\ Keep(n, p)
        /\ IF StepsDown(n, m) THEN Save(n, p) ELSE UNCHANGED disk
        /\ Follow(n, m)
        /\ Answer(m, AppendReply(m, p.term, FALSE, ConflictIndex(p.log, m.prevIndex)))
        /\ UNCHANGED <<commitIndex, lastApplied, nextIndex, matchIndex, driver,
                       bounds, history>>

\* The entries are merged, saved if the log changed, and the commit index
\* follows the leader's.
AcceptAppend(n, m) ==
    LET p == WithTerm(persistent[n], m.term)
        q == [p EXCEPT !.log = MergeEntries(p.log, m.prevIndex, m.entries)]
        c == FollowerCommit(q.log, commitIndex[n], m.commit)
    IN  /\ Received(n, m, "append")
        /\ m.term >= persistent[n].term
        /\ PrevMatches(p.log, m.prevIndex, m.prevTerm)
        /\ Keep(n, q)
        /\ IF StepsDown(n, m) \/ q.log # p.log THEN Save(n, q) ELSE UNCHANGED disk
        /\ Follow(n, m)
        /\ commitIndex' = [commitIndex EXCEPT ![n] = c]
        /\ Observe(q.log, c)
        /\ Answer(m, AppendReply(m, q.term, TRUE, 0))
        /\ UNCHANGED <<lastApplied, nextIndex, matchIndex, driver, bounds,
                       grants, elected>>

\* The write of the merged log fails: the entries stay in memory, the commit
\* index is not advanced and no reply goes out.
AppendSaveFails(n, m) ==
    LET p == WithTerm(persistent[n], m.term)
        q == [p EXCEPT !.log = MergeEntries(p.log, m.prevIndex, m.entries)]
    IN  /\ Received(n, m, "append")
        /\ faults < MaxFault
        /\ m.term >= persistent[n].term
        /\ PrevMatches(p.log, m.prevIndex, m.prevTerm)
        /\ q.log # p.log
        /\ Keep(n, q)
        /\ IF StepsDown(n, m) THEN Save(n, p) ELSE UNCHANGED disk
        /\ Follow(n, m)
        /\ faults' = faults + 1
        /\ rpcs' = rpcs \ {m}
        /\ UNCHANGED <<commitIndex, lastApplied, nextIndex, matchIndex, driver,
                       crashes, history>>

-----------------------------------------------------------------------------
(* Replies: handle_request_vote_reply and handle_append_entries_reply.      *)

\* Either reply carries a higher term.
StepDownOnReply(n, m) ==
    LET p == WithTerm(persistent[n], m.term)
    IN  /\ m.type \in {"voted", "appended"} /\ m.dst = n
        /\ m.term > persistent[n].term
        /\ Keep(n, p) /\ Save(n, p)
        /\ BecomeFollower(n, None)
        /\ rpcs' = rpcs \ {m}
        /\ UNCHANGED <<commitIndex, lastApplied, nextIndex, matchIndex, driver,
                       bounds, history>>

\* become_follower's write fails, in whichever handler called it: the role
\* and the term have changed in memory, the handler returns an error.
StepDownFails(n, m) ==
    /\ m.dst = n
    /\ faults < MaxFault
    /\ StepsDown(n, m)
    /\ Keep(n, WithTerm(persistent[n], m.term))
    /\ BecomeFollower(n, IF m.type = "append" THEN m.src ELSE None)
    /\ faults' = faults + 1
    /\ rpcs' = rpcs \ {m}
    /\ UNCHANGED <<disk, commitIndex, lastApplied, nextIndex, matchIndex, driver,
                   crashes, history>>

\* become_leader, reached with the last vote of a majority.
BecomeLeader(n) ==
    /\ role' = [role EXCEPT ![n] = "leader"]
    /\ leaderId' = [leaderId EXCEPT ![n] = n]
    /\ nextIndex' = [nextIndex EXCEPT ![n] =
                        [p \in Node |-> LastIndex(persistent[n].log) + 1]]
    /\ matchIndex' = [matchIndex EXCEPT ![n] = [p \in Node |-> 0]]
    /\ elected' = elected \cup {<<persistent[n].term, n>>}

\* A candidate counts a vote of its own term.
CountVote(n, m) ==
    LET votes == votesReceived[n] \cup {m.src}
    IN  /\ Received(n, m, "voted")
        /\ m.term = persistent[n].term
        /\ role[n] = "candidate"
        /\ m.granted
        /\ votesReceived' = [votesReceived EXCEPT ![n] = votes]
        /\ IF Cardinality(votes) >= Majority THEN BecomeLeader(n)
           ELSE UNCHANGED <<role, leaderId, nextIndex, matchIndex, elected>>
        /\ rpcs' = rpcs \ {m}
        /\ UNCHANGED <<durable, commitIndex, lastApplied, driver, bounds,
                       grants, decided>>

\* The leader raises match_index and next_index from what its task sent and
\* recomputes the commit index.  The code does not ask in which term the
\* request went out; with LateReplies FALSE every reply that outlived its
\* term is taken to have been lost.
AppendSucceeded(n, m) ==
    LET match == m.sentPrev + m.sentLen
        raised == match > matchIndex[n][m.src]
        matches == IF raised THEN [matchIndex[n] EXCEPT ![m.src] = match]
                   ELSE matchIndex[n]
        log == persistent[n].log
        c == AdvanceCommit(log, persistent[n].term, commitIndex[n],
                           matches, Peers(n), Majority)
    IN  /\ Received(n, m, "appended")
        /\ m.term <= persistent[n].term
        /\ LateReplies \/ m.term = persistent[n].term
        /\ role[n] = "leader"
        /\ m.success
        /\ matchIndex' = [matchIndex EXCEPT ![n] = matches]
        /\ nextIndex' = IF raised
                        THEN [nextIndex EXCEPT ![n][m.src] = match + 1] ELSE nextIndex
        /\ commitIndex' = [commitIndex EXCEPT ![n] = c]
        /\ Observe(log, c)
        /\ rpcs' = rpcs \ {m}
        /\ UNCHANGED <<durable, role, leaderId, votesReceived, lastApplied, driver,
                       bounds, grants, elected>>

\* The leader moves next_index back.
AppendFailed(n, m) ==
    /\ Received(n, m, "appended")
    /\ m.term <= persistent[n].term
    /\ role[n] = "leader"
    /\ ~m.success
    /\ nextIndex' = [nextIndex EXCEPT ![n][m.src] = Backtrack(@, m.conflict)]
    /\ rpcs' = rpcs \ {m}
    /\ UNCHANGED <<durable, role, leaderId, votesReceived, commitIndex, lastApplied,
                   matchIndex, driver, bounds, history>>

\* The early returns that change nothing: a refused vote, a vote that is
\* stale or no longer wanted, an append reply to a member that does not lead.
IgnoreReply(n, m) ==
    /\ \/ /\ Received(n, m, "voted")
          /\ \/ m.term < persistent[n].term
             \/ m.term = persistent[n].term /\ (role[n] # "candidate" \/ ~m.granted)
       \/ /\ Received(n, m, "appended")
          /\ m.term <= persistent[n].term
          /\ role[n] # "leader"
    /\ rpcs' = rpcs \ {m}
    /\ UNCHANGED <<durable, volatile, bounds, history>>

-----------------------------------------------------------------------------
(* The host: propose, the apply daemon's drain, and process restarts.       *)

\* A failed save takes the entry back out and leaves everything unchanged.
Propose(n, v) ==
    LET p == [persistent[n] EXCEPT
                 !.log = Append(@, [term |-> persistent[n].term, cmd |-> v])]
    IN  /\ role[n] = "leader"
        /\ Len(persistent[n].log) < MaxLog
        /\ Keep(n, p) /\ Save(n, p)
        /\ UNCHANGED <<volatile, rpcs, bounds, history>>

\* take_committed_entries hands over everything up to the commit index.
TakeCommitted(n) ==
    /\ lastApplied[n] < commitIndex[n]
    /\ lastApplied' = [lastApplied EXCEPT ![n] = commitIndex[n]]
    /\ UNCHANGED <<durable, role, leaderId, votesReceived, commitIndex, nextIndex,
                   matchIndex, driver, rpcs, bounds, history>>

\* The process dies and load_or_init reads state.bin back.  Nothing volatile
\* survives, replies to the dead process are lost, its requests are not.
Restart(n) ==
    /\ crashes < MaxCrash
    /\ crashes' = crashes + 1
    /\ Keep(n, disk[n])
    /\ BecomeFollower(n, None)
    /\ commitIndex' = [commitIndex EXCEPT ![n] = 0]
    /\ lastApplied' = [lastApplied EXCEPT ![n] = 0]
    /\ nextIndex' = [nextIndex EXCEPT ![n] = [p \in Node |-> 1]]
    /\ matchIndex' = [matchIndex EXCEPT ![n] = [p \in Node |-> 0]]
    /\ driver' = [driver EXCEPT ![n] = TRUE]
    /\ rpcs' = {IF m.type \in {"vote", "append"} /\ m.src = n
                THEN [m EXCEPT !.open = FALSE] ELSE m :
                  m \in {r \in rpcs : ~(r.type \in {"voted", "appended"} /\ r.dst = n)}}
    /\ UNCHANGED <<disk, faults, history>>

-----------------------------------------------------------------------------
HandleRpc(n, m) ==
    \/ RejectStaleVote(n, m)   \/ HandleRequestVote(n, m) \/ RecordVoteFails(n, m)
    \/ RejectStaleAppend(n, m) \/ RejectMismatchedAppend(n, m)
    \/ AcceptAppend(n, m)      \/ AppendSaveFails(n, m)
    \/ StepDownOnReply(n, m)   \/ StepDownFails(n, m)
    \/ CountVote(n, m)         \/ AppendSucceeded(n, m)
    \/ AppendFailed(n, m)      \/ IgnoreReply(n, m)

\* What the driver and the RPC endpoint do on member n.
Consensus(n) ==
    \/ StartElection(n) \/ StartElectionFails(n) \/ Heartbeat(n)
    \/ \E m \in rpcs : HandleRpc(n, m)

Next ==
    \E n \in Node :
        \/ Consensus(n)
        \/ \E v \in Value : Propose(n, v)
        \/ TakeCommitted(n)
        \/ Restart(n)

Spec == Init /\ [][Next]_vars

(***************************************************************************)
(* Fairness, for what must eventually happen under a leader that is not    *)
(* deposed.  The driver ticks every 50 ms and the runtime schedules every  *)
(* task; connections that keep failing are not assumed to be the rule: a   *)
(* heartbeat to a given peer that is sent again and again is delivered     *)
(* again and again, and so is the answer to it.  Elections, proposals,     *)
(* restarts and failing disks are not made fair.                           *)
(***************************************************************************)
Sends(n, p) ==
    /\ Heartbeat(n)
    /\ \E m \in rpcs' \ rpcs : m.type = "append" /\ m.src = n /\ m.dst = p

Answers(n, p) ==
    \E m \in rpcs :
        /\ m.src = p
        /\ \/ RejectStaleAppend(n, m) \/ RejectMismatchedAppend(n, m)
           \/ AcceptAppend(n, m)
        /\ m.open => \E r \in rpcs' : r.type = "appended" /\ r.src = n /\ r.dst = p

Handles(n, p) == \E m \in rpcs : m.src = p /\ HandleRpc(n, m)

FairLeader(n) ==
    /\ \A o \in Node : WF_vars(TakeCommitted(o))
    /\ \A p \in Peers(n) :
           /\ WF_vars(Handles(n, p)) /\ WF_vars(Handles(p, n))
           /\ SF_vars(Sends(n, p)) /\ SF_vars(Answers(p, n))

-----------------------------------------------------------------------------
(* Types.                                                                   *)

VoteRequests == [type : {"vote"}, src : Node, dst : Node, open : BOOLEAN,
                 term : Nat, lastIndex : Nat, lastTerm : Nat]
VoteReplies == [type : {"voted"}, src : Node, dst : Node, term : Nat,
                granted : BOOLEAN]
AppendRequests == [type : {"append"}, src : Node, dst : Node, open : BOOLEAN,
                   term : Nat, prevIndex : Nat, prevTerm : Nat,
                   entries : Seq(Entry), commit : Nat]
AppendReplies == [type : {"appended"}, src : Node, dst : Node, term : Nat,
                  success : BOOLEAN, conflict : Nat, sentPrev : Nat, sentLen : Nat]
Rpc == VoteRequests \cup VoteReplies \cup AppendRequests \cup AppendReplies

\* Every variable keeps the type RaftCore and the driver declare for it.
TypeOK ==
    /\ persistent \in [Node -> Persistent]
    /\ disk \in [Node -> Persistent]
    /\ role \in [Node -> {"follower", "candidate", "leader"}]
    /\ leaderId \in [Node -> Node \cup {None}]
    /\ votesReceived \in [Node -> SUBSET Node]
    /\ commitIndex \in [Node -> Nat]
    /\ lastApplied \in [Node -> Nat]
    /\ nextIndex \in [Node -> [Node -> Nat]]
    /\ matchIndex \in [Node -> [Node -> Nat]]
    /\ driver \in [Node -> BOOLEAN]
    /\ rpcs \subseteq Rpc
    /\ crashes \in Nat /\ faults \in Nat
    /\ grants \subseteq Node \X Nat \X Node
    /\ elected \subseteq Nat \X Node
    /\ decided \in Seq(Entry)

-----------------------------------------------------------------------------
(* Properties.                                                              *)

\* No term ever has two leaders, whatever is lost, delayed, restarted or
\* not written to disk (handle_request_vote, "single-vote-per-term").
ElectionSafety ==
    \A e, f \in elected : e[1] = f[1] => e[2] = f[2]

\* A vote that was answered survives a restart: the voter's state.bin holds
\* it until the voter has moved to a later term (record_vote_and_persist).
VoteDurable ==
    \A g \in grants :
        \/ disk[g[1]].term > g[2]
        \/ disk[g[1]].term = g[2] /\ disk[g[1]].vote = g[3]

\* Two logs that agree on the term at an index agree up to that index: the
\* merge in handle_append_entries never leaves a log that is a mixture.
LogMatching ==
    \A n, o \in Node :
        LET a == persistent[n].log
            b == persistent[o].log
        IN  \A i \in 1..Len(a) :
                (i <= Len(b) /\ a[i].term = b[i].term)
                    => SubSeq(a, 1, i) = SubSeq(b, 1, i)

\* What a member has committed is in its log, so that take_committed_entries
\* skips nothing, and is a prefix of the one committed log, although
\* commit_index is taken as min(leader_commit, last_log_index) and forgotten
\* at a restart.
CommittedPrefix ==
    \A n \in Node :
        /\ commitIndex[n] <= Len(persistent[n].log)
        /\ IsPrefix(SubSeq(persistent[n].log, 1, commitIndex[n]), decided)

\* A leader of the latest term holds every committed entry (section 5.4.1's
\* election restriction together with 5.4.2's current-term rule).
LeaderCompleteness ==
    \A n \in Node :
        (role[n] = "leader" /\ \A o \in Node : persistent[o].term <= persistent[n].term)
            => IsPrefix(decided, persistent[n].log)

\* A committed entry is on the disks of a majority ("majority match -> commit
\* advancement", with "fsync on every change").
CommitOnMajority ==
    \A i \in 1..Len(decided) :
        Cardinality({n \in Node : i <= Len(disk[n].log) /\ disk[n].log[i] = decided[i]})
            >= Majority

\* "Runs forever (until the process exits)" (run_driver): a candidate's driver
\* is there to time out and campaign again.
CandidateTicks ==
    \A n \in Node : role[n] = "candidate" => driver[n]

\* The term on disk never goes back, and a vote on disk is never replaced by
\* another in the same term.
DurableVoteStable ==
    [][\A n \in Node :
          /\ disk'[n].term >= disk[n].term
          /\ (disk'[n].term = disk[n].term /\ disk[n].vote # None)
                => disk'[n].vote = disk[n].vote]_vars

\* The consensus core implements the replicated log the apply daemon relies on.
Replicated == INSTANCE ReplicatedLog WITH
    delivered <- [n \in Node |-> SubSeq(persistent[n].log, 1, lastApplied[n])]
ImplementsReplicatedLog == Replicated!Spec

\* Under a leader that stays and is up to date on terms, next_index
\* backtracking ends: every member gets the leader's log, and if that log ends
\* in an entry of the leader's own term, every member commits and takes all of
\* it.
StableLeaderReplicates ==
    \A n \in Node :
        <>[](/\ role[n] = "leader"
             /\ \A o \in Node : persistent[o].term <= persistent[n].term)
        => <>[](\A o \in Node :
                  /\ persistent[o].log = persistent[n].log
                  /\ LastTerm(persistent[n].log) = persistent[n].term
                         => lastApplied[o] = Len(persistent[n].log))

\* Every leader that stays appends an entry of its own term: "a fresh leader
\* commits a no-op entry at the start of its term" (raft_command.rs).
FreshLeaderAppends ==
    \A n \in Node :
        role[n] = "leader" ~> (\/ role[n] # "leader"
                               \/ LastTerm(persistent[n].log) = persistent[n].term)
=============================================================================
