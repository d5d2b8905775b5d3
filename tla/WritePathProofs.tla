---------------------------- MODULE WritePathProofs -----------------------------
(***************************************************************************)
(* The replicated write path.  Every step of the hosts is a step of the    *)
(* consensus core or none, so whatever is proved of the core holds of it   *)
(* beneath the write path too.  On top of that: an acknowledged index is   *)
(* committed, and a write is acknowledged for itself as long as its        *)
(* proposer still leads in the term of the proposal.                       *)
(***************************************************************************)
EXTENDS WritePath, RaftCommitProofs

-----------------------------------------------------------------------------
(* The core beneath the write path.                                         *)

\* A step of the write path is a step of the core or leaves it alone.
LEMMA PathStep == [PathNext]_allVars => [Next]_vars
<1> SUFFICES ASSUME [PathNext]_allVars PROVE [Next]_vars
    OBVIOUS
<1>1. ASSUME NEW n \in Node, Consensus(n) PROVE Next
    BY <1>1 DEF Next
<1>2. ASSUME NEW n \in Node, NEW v \in Value, ProposeAndWait(n, v) \/ ProposeRaw(n, v) PROVE Next
    BY <1>2 DEF Next, ProposeAndWait, ProposeRaw
<1>3. ASSUME NEW n \in Node, Drain(n) \/ RestartHost(n) PROVE Next
    BY <1>3 DEF Next, Drain, RestartHost
<1>4. ASSUME NEW n \in Node, ApplyOne(n) PROVE UNCHANGED vars
    BY <1>4 DEF ApplyOne
<1>5. ASSUME NEW w \in waiting, Acknowledge(w) \/ TimeOut(w) PROVE UNCHANGED vars
    BY <1>5 DEF Acknowledge, TimeOut
<1>6. CASE UNCHANGED allVars
    BY <1>6 DEF allVars
<1> QED
    BY <1>1, <1>2, <1>3, <1>4, <1>5, <1>6 DEF PathNext

\* What is proved of the core holds beneath the write path.
THEOREM PathImplementsCore == PathSpec => Spec
<1>1. PathInit => Init
    BY DEF PathInit
<1> QED
    BY <1>1, PathStep, PTL DEF PathSpec, Spec

\* The committed log never gets shorter, whatever fails.
LEMMA DecidedLonger ==
    ASSUME TypeInv, [Next]_vars
    PROVE  Len(decided') >= Len(decided)
<1>0. TypeOK /\ CommitObserved /\ Len(decided) \in Nat
    <2>1. decided \in Seq(Entry)
        BY DEF TypeInv, TypeOK
    <2> QED
        BY <2>1 DEF TypeInv
<1>1. ASSUME NEW n \in Node, NEW m \in rpcs, HandleRpc(n, m) PROVE Len(decided') >= Len(decided)
    <2>1. CASE AcceptAppend(n, m)
        <3> DEFINE log == persistent'[n].log
                   c == FollowerCommit(log, commitIndex[n], m.commit)
        <3>1. log \in Seq(Entry) /\ Observe(log, c) /\ m \in AppendRequests
            BY <1>0, <2>1, AcceptEffect
        <3>2. commitIndex[n] \in Nat /\ m.commit \in Nat
            BY <1>0, <3>1 DEF TypeOK, AppendRequests
        <3> HIDE DEF log
        <3>3. c \in Nat /\ (c = commitIndex[n] \/ c <= Len(log))
            BY <3>1, <3>2, FollowerCommitType
        <3>4. c <= Len(log) \/ c <= Len(decided)
            BY <1>0, <3>3 DEF CommitObserved
        <3> HIDE DEF c
        <3> QED
            BY <1>0, <3>1, <3>3, <3>4, ObserveType
    <2>2. CASE AppendSucceeded(n, m)
        <3>1. PICK matches :
                  Observe(persistent[n].log,
                          AdvanceCommit(persistent[n].log, persistent[n].term, commitIndex[n],
                                        matches, Peers(n), Majority))
            BY <2>2 DEF AppendSucceeded
        <3> DEFINE log == persistent[n].log
                   c == AdvanceCommit(log, persistent[n].term, commitIndex[n],
                                      matches, Peers(n), Majority)
        <3>2. log \in Seq(Entry) /\ commitIndex[n] \in Nat
            BY <1>0, PersistentFields DEF TypeOK
        <3>3. c \in Nat /\ (c = commitIndex[n] \/ c <= Len(log))
            BY <3>2, AdvanceCommitBounds
        <3>4. c <= Len(log) \/ c <= Len(decided)
            BY <1>0, <3>3 DEF CommitObserved
        <3>5. Observe(log, c)
            BY <3>1
        <3> HIDE DEF c, log
        <3> QED
            BY <1>0, <3>2, <3>3, <3>4, <3>5, ObserveType
    <2>3. CASE \/ HandleRequestVote(n, m) \/ RecordVoteFails(n, m) \/ RejectMismatchedAppend(n, m)
               \/ StepDownOnReply(n, m) \/ StepDownFails(n, m)
        BY <1>0, <2>3, AdoptingHandlers
    <2>4. CASE \/ RejectStaleVote(n, m) \/ RejectStaleAppend(n, m) \/ AppendSaveFails(n, m)
               \/ CountVote(n, m) \/ AppendFailed(n, m) \/ IgnoreReply(n, m)
        <3>1. decided' = decided
            BY <2>4 DEF RejectStaleVote, RejectStaleAppend, AppendSaveFails, CountVote,
                        AppendFailed, IgnoreReply, history
        <3> QED
            BY <1>0, <3>1
    <2> QED
        BY <1>1, <2>1, <2>2, <2>3, <2>4 DEF HandleRpc
<1>2. ASSUME NEW n \in Node, Consensus(n) PROVE Len(decided') >= Len(decided)
    <2>1. CASE StartElection(n) \/ StartElectionFails(n) \/ Heartbeat(n)
        BY <1>0, <2>1 DEF StartElection, StartElectionFails, Heartbeat, history
    <2> QED
        BY <1>1, <1>2, <2>1 DEF Consensus
<1>3. ASSUME NEW n \in Node, TakeCommitted(n) \/ Restart(n) \/ \E v \in Value : Propose(n, v)
      PROVE  decided' = decided
    BY <1>3 DEF Propose, TakeCommitted, Restart, history
<1>4. CASE UNCHANGED vars
    BY <1>0, <1>4 DEF vars, history
<1> QED
    BY <1>0, <1>2, <1>3, <1>4 DEF Next

\* The driver and the RPC endpoint hand nothing over to the apply daemon.
LEMMA ConsensusApplies ==
    ASSUME NEW n \in Node, Consensus(n)
    PROVE  lastApplied' = lastApplied
<1>1. ASSUME NEW m \in rpcs, HandleRpc(n, m) PROVE lastApplied' = lastApplied
    <2>1. CASE \/ RejectStaleVote(n, m) \/ HandleRequestVote(n, m) \/ RecordVoteFails(n, m)
               \/ RejectStaleAppend(n, m) \/ RejectMismatchedAppend(n, m)
        BY <2>1 DEF RejectStaleVote, HandleRequestVote, RecordVoteFails, RejectStaleAppend,
                    RejectMismatchedAppend, volatile
    <2>2. CASE \/ AcceptAppend(n, m) \/ AppendSaveFails(n, m) \/ StepDownOnReply(n, m)
               \/ StepDownFails(n, m)
        BY <2>2 DEF AcceptAppend, AppendSaveFails, StepDownOnReply, StepDownFails
    <2>3. CASE \/ CountVote(n, m) \/ AppendSucceeded(n, m) \/ AppendFailed(n, m)
               \/ IgnoreReply(n, m)
        BY <2>3 DEF CountVote, AppendSucceeded, AppendFailed, IgnoreReply, volatile
    <2> QED
        BY <1>1, <2>1, <2>2, <2>3 DEF HandleRpc
<1>2. CASE StartElection(n) \/ StartElectionFails(n) \/ Heartbeat(n)
    BY <1>2 DEF StartElection, StartElectionFails, Heartbeat, volatile
<1> QED
    BY <1>1, <1>2 DEF Consensus

\* A leader led before with a log that has only grown, or has just been
\* elected from candidate; elections stay won.
LEMMA LeadKept ==
    ASSUME TypeOK, [Next]_vars
    PROVE  /\ elected \subseteq elected'
           /\ \A o \in Node : role'[o] = "leader" =>
                 /\ persistent'[o].term = persistent[o].term
                 /\ \/ role[o] = "leader" /\ Starts(persistent'[o].log, persistent[o].log)
                    \/ role[o] = "candidate"
<1> DEFINE Kept == \A o \in Node : role'[o] = "leader" =>
                 /\ persistent'[o].term = persistent[o].term
                 /\ \/ role[o] = "leader" /\ Starts(persistent'[o].log, persistent[o].log)
                    \/ role[o] = "candidate"
<1>0. \A o \in Node : persistent[o].log \in Seq(Entry)
    BY PersistentFields DEF TypeOK
<1>1. LeadersStay => Kept
    BY <1>0 DEF LeadersStay, Starts
<1>2. ASSUME NEW n \in Node, NEW m \in rpcs, HandleRpc(n, m) PROVE elected \subseteq elected' /\ Kept
    <2>1. CASE \/ HandleRequestVote(n, m) \/ RecordVoteFails(n, m) \/ RejectMismatchedAppend(n, m)
               \/ StepDownOnReply(n, m) \/ StepDownFails(n, m)
        <3>1. PICK q, s \in Persistent : Adopts(n, m, q, s)
            BY <2>1, AdoptingHandlers
        <3>2. elected' = elected
            BY <2>1, AdoptingHandlers
        <3>3. ASSUME NEW o \in Node
              PROVE  /\ persistent'[o] = IF o = n THEN q ELSE persistent[o]
                     /\ \/ role'[o] = "follower"
                        \/ role'[o] = role[o] /\ (o = n => q.term = persistent[n].term)
            BY <3>1 DEF Adopts, Keep, TypeOK
        <3>4. LeadersStay
            BY <3>1, <3>3 DEF LeadersStay, Adopts
        <3> QED
            BY <1>1, <3>2, <3>4
    <2>2. CASE AcceptAppend(n, m) \/ AppendSaveFails(n, m)
        <3>1. /\ \E q : Keep(n, q)
              /\ Follow(n, m) /\ elected' = elected
            BY <2>2 DEF AcceptAppend, AppendSaveFails, history
        <3>2. ASSUME NEW o \in Node
              PROVE  role'[o] = "leader" => persistent'[o] = persistent[o] /\ role'[o] = role[o]
            BY <3>1 DEF Follow, Keep, TypeOK
        <3>3. LeadersStay
            BY <3>2 DEF LeadersStay
        <3> QED
            BY <1>1, <3>1, <3>3
    <2>3. CASE CountVote(n, m)
        <3>1. /\ persistent' = persistent /\ role[n] = "candidate"
              /\ BecomeLeader(n) \/ UNCHANGED <<role, elected>>
            BY <2>3 DEF CountVote, durable
        <3>2. elected \subseteq elected'
            BY <3>1 DEF BecomeLeader
        <3>3. \A o \in Node : role'[o] = role[o] \/ (o = n /\ role[o] = "candidate")
            BY <3>1 DEF BecomeLeader, TypeOK
        <3> QED
            BY <1>0, <3>1, <3>2, <3>3 DEF Starts
    <2>4. CASE \/ RejectStaleVote(n, m) \/ RejectStaleAppend(n, m) \/ AppendSucceeded(n, m)
               \/ AppendFailed(n, m) \/ IgnoreReply(n, m)
        <3>1. UNCHANGED <<persistent, role, elected>>
            BY <2>4, IdleHandlers
        <3> QED
            BY <1>1, <3>1 DEF LeadersStay
    <2> QED
        BY <1>2, <2>1, <2>2, <2>3, <2>4 DEF HandleRpc
<1>3. ASSUME NEW n \in Node, Consensus(n) PROVE elected \subseteq elected' /\ Kept
    <2>1. CASE StartElection(n) \/ StartElectionFails(n)
        <3>1. /\ Keep(n, Campaign(persistent[n], n)) /\ role' = [role EXCEPT ![n] = "candidate"]
              /\ elected' = elected
            BY <2>1, Campaigning
        <3>2. ASSUME NEW o \in Node
              PROVE  role'[o] = "leader" => persistent'[o] = persistent[o] /\ role'[o] = role[o]
            BY <3>1 DEF Keep, TypeOK
        <3> QED
            BY <1>1, <3>1, <3>2 DEF LeadersStay
    <2>2. CASE Heartbeat(n)
        BY <1>1, <2>2 DEF Heartbeat, durable, volatile, history, LeadersStay
    <2> QED
        BY <1>2, <1>3, <2>1, <2>2 DEF Consensus
<1>4. ASSUME NEW n \in Node, NEW v \in Value, Propose(n, v) PROVE elected \subseteq elected' /\ Kept
    <2> DEFINE e == [term |-> persistent[n].term, cmd |-> v]
    <2>1. /\ e \in Entry /\ persistent[n].log \in Seq(Entry)
          /\ \A o \in Node : /\ persistent'[o].term = persistent[o].term
                             /\ o # n => persistent'[o] = persistent[o]
          /\ persistent'[n].log = Append(persistent[n].log, e)
          /\ UNCHANGED <<role, elected>>
        BY <1>4, ProposeEffect
    <2> HIDE DEF e
    <2>2. Starts(persistent'[n].log, persistent[n].log)
        BY <2>1 DEF Starts
    <2>3. \A o \in Node : Starts(persistent[o].log, persistent[o].log)
        BY <1>0 DEF Starts
    <2> QED
        BY <2>1, <2>2, <2>3
<1>5. ASSUME NEW n \in Node, TakeCommitted(n) PROVE elected \subseteq elected' /\ Kept
    <2>1. UNCHANGED <<persistent, role, elected>>
        BY <1>5, IdleHandlers
    <2> QED
        BY <1>1, <2>1 DEF LeadersStay
<1>6. ASSUME NEW n \in Node, Restart(n) PROVE elected \subseteq elected' /\ Kept
    <2>1. /\ Keep(n, disk[n]) /\ role' = [role EXCEPT ![n] = "follower"] /\ elected' = elected
        BY <1>6 DEF Restart, BecomeFollower, history
    <2>2. ASSUME NEW o \in Node
          PROVE  role'[o] = "leader" => persistent'[o] = persistent[o] /\ role'[o] = role[o]
        BY <2>1 DEF Keep, TypeOK
    <2> QED
        BY <1>1, <2>1, <2>2 DEF LeadersStay
<1>7. CASE UNCHANGED vars
    BY <1>1, <1>7 DEF vars, durable, volatile, history, LeadersStay
<1> QED
    BY <1>3, <1>4, <1>5, <1>6, <1>7 DEF Next

-----------------------------------------------------------------------------
(* What the apply daemon, the notifier and the waiting calls hold.          *)

IsSequence(s) == \E S : s \in Seq(S)
Call == [node : Node, index : Nat \ {0}, cmd : Value \ Bad, term : Nat]

PathType ==
    /\ batch = [n \in Node |-> batch[n]] /\ applied = [n \in Node |-> applied[n]]
    /\ \A n \in Node : IsSequence(batch[n]) /\ IsSequence(applied[n])
    /\ published \in [Node -> Nat]
    /\ waiting \subseteq Call /\ acked \subseteq Call

\* The batch is the end of what was drained, published entries come before
\* it, and what was drained had been committed.
Queued(n) ==
    /\ published[n] + Len(batch[n]) <= lastApplied[n]
    /\ \A k \in 1..Len(batch[n]) : batch[n][k].index = lastApplied[n] - Len(batch[n]) + k
    /\ lastApplied[n] <= Len(decided)

\* A call's proposer won the term; as long as it leads in it the write is at
\* its index.
Waits(w) ==
    /\ <<w.term, w.node>> \in elected
    /\ (role[w.node] = "leader" /\ persistent[w.node].term = w.term) =>
          /\ w.index <= Len(persistent[w.node].log)
          /\ persistent[w.node].log[w.index] = [term |-> w.term, cmd |-> w.cmd]

PathInv ==
    /\ MatchInv /\ PathType
    /\ \A n \in Node : Queued(n)
    /\ \A w \in waiting : Waits(w)
    /\ AckedIndexCommitted

\* A host that has never run has nothing queued.
LEMMA PathInvInit == PathInit => PathInv
<1> SUFFICES ASSUME PathInit PROVE PathInv
    OBVIOUS
<1>1. MatchInv
    BY MatchInit DEF PathInit
<1>2. /\ batch = [n \in Node |-> <<>>] /\ applied = [n \in Node |-> <<>>]
      /\ published = [n \in Node |-> 0] /\ waiting = {} /\ acked = {}
    BY DEF PathInit
<1>3. PathType
    <2>1. <<>> \in Seq({})
        OBVIOUS
    <2> QED
        BY <1>2, <2>1 DEF PathType, IsSequence
<1>4. ASSUME NEW n \in Node PROVE Queued(n)
    <2>1. batch[n] = <<>> /\ published[n] = 0 /\ lastApplied[n] = 0 /\ decided = <<>>
        BY <1>2 DEF PathInit, Init
    <2> QED
        BY <2>1 DEF Queued
<1> QED
    BY <1>1, <1>2, <1>3, <1>4 DEF PathInv, AckedIndexCommitted

\* Calls that were waiting still do so rightly.
LEMMA WaitsKept ==
    ASSUME PathInv, [Next]_vars, NEW w \in waiting
    PROVE  Waits(w)'
<1>0. TypeOK /\ CandidateFresh /\ w \in Call /\ Waits(w)
    BY DEF PathInv, MatchInv, ElectionInv, TypeInv, PathType
<1>1. w.node \in Node /\ w.index \in Nat \ {0}
    BY <1>0 DEF Call
<1>2. <<w.term, w.node>> \in elected'
    BY <1>0, LeadKept DEF Waits
<1>3. ASSUME role'[w.node] = "leader", persistent'[w.node].term = w.term
      PROVE  /\ w.index <= Len(persistent'[w.node].log)
             /\ persistent'[w.node].log[w.index] = [term |-> w.term, cmd |-> w.cmd]
    <2> DEFINE a == persistent[w.node].log
               b == persistent'[w.node].log
    <2>1. persistent[w.node].term = w.term
        BY <1>0, <1>1, <1>3, LeadKept
    <2>2. role[w.node] # "candidate"
        BY <1>0, <1>1, <2>1 DEF CandidateFresh, Waits
    <2>3. role[w.node] = "leader" /\ Starts(b, a)
        BY <1>0, <1>1, <1>3, <2>2, LeadKept
    <2>4. w.index <= Len(a) /\ a[w.index] = [term |-> w.term, cmd |-> w.cmd]
        BY <1>0, <2>1, <2>3 DEF Waits
    <2>5. a \in Seq(Entry)
        BY <1>0, <1>1, PersistentFields DEF TypeOK
    <2> HIDE DEF a
    <2>6. b[w.index] = a[w.index] /\ Len(a) <= Len(b) /\ Len(a) \in Nat
        BY <1>1, <2>3, <2>4, <2>5 DEF Starts
    <2>7. w.index <= Len(b)
        <3>1. TypeOK'
            BY <1>0, TypeNext DEF PathInv, MatchInv, ElectionInv, TypeInv
        <3>2. b \in Seq(Entry)
            BY <1>1, <3>1, PersistentFields DEF TypeOK
        <3> QED
            BY <1>1, <2>4, <2>6, <3>2
    <2> QED
        BY <2>4, <2>6, <2>7
<1> QED
    BY <1>2, <1>3 DEF Waits

\* A member whose daemon does nothing keeps its queue.
LEMMA QueuedKept ==
    ASSUME PathInv, TypeOK', Len(decided') >= Len(decided), NEW n \in Node,
           batch'[n] = batch[n], published'[n] = published[n], lastApplied'[n] = lastApplied[n]
    PROVE  Queued(n)'
<1>1. TypeOK /\ Queued(n)
    BY DEF PathInv, MatchInv, ElectionInv, TypeInv
<1>2. lastApplied[n] \in Nat /\ Len(decided) \in Nat /\ Len(decided') \in Nat
    BY <1>1 DEF TypeOK
<1> QED
    BY <1>1, <1>2 DEF Queued

\* Every step of the write path keeps its invariant.
LEMMA PathInvNext == PathInv /\ [PathNext]_allVars => PathInv'
<1> SUFFICES ASSUME PathInv, [PathNext]_allVars PROVE PathInv'
    OBVIOUS
<1>0. /\ MatchInv /\ PathType /\ TypeInv /\ TypeOK /\ CommitObserved /\ AckedIndexCommitted
      /\ [Next]_vars
    BY PathStep DEF PathInv, MatchInv, ElectionInv, TypeInv
<1>1. MatchInv' /\ TypeOK' /\ Len(decided') >= Len(decided)
    <2>1. MatchInv'
        BY <1>0, MatchNext
    <2>2. TypeInv'
        BY <1>0, TypeNext
    <2> QED
        BY <1>0, <2>1, <2>2, DecidedLonger DEF TypeInv
<1>2. Len(decided) \in Nat /\ Len(decided') \in Nat
    BY <1>0, <1>1 DEF TypeOK
<1>3. \A w \in waiting : Waits(w)'
    BY <1>0, WaitsKept
<1>4. \A w \in acked : w.index <= Len(decided')
    <2> SUFFICES ASSUME NEW w \in acked PROVE w.index <= Len(decided')
        OBVIOUS
    <2>1. w.index \in Nat /\ w.index <= Len(decided)
        BY <1>0 DEF PathType, Call, AckedIndexCommitted
    <2> QED
        BY <1>1, <1>2, <2>1
<1>5. ASSUME lastApplied' = lastApplied, UNCHANGED pathVars PROVE PathInv'
    <2>1. PathType'
        BY <1>0, <1>5 DEF PathType, pathVars
    <2>2. \A n \in Node : Queued(n)'
        BY <1>0, <1>1, <1>5, QueuedKept DEF pathVars
    <2> QED
        BY <1>1, <1>3, <1>4, <1>5, <2>1, <2>2 DEF PathInv, pathVars, AckedIndexCommitted
<1>6. ASSUME NEW n \in Node, Consensus(n), UNCHANGED pathVars PROVE PathInv'
    BY <1>5, <1>6, ConsensusApplies
<1>7. ASSUME NEW n \in Node, NEW v \in Value, ProposeRaw(n, v) PROVE PathInv'
    <2>1. lastApplied' = lastApplied
        BY <1>0, <1>7, ProposeEffect DEF ProposeRaw
    <2> QED
        BY <1>5, <1>7, <2>1 DEF ProposeRaw
<1>8. ASSUME NEW n \in Node, NEW v \in Value, ProposeAndWait(n, v) PROVE PathInv'
    <2> DEFINE log == persistent'[n].log
               e == [term |-> persistent[n].term, cmd |-> v]
    <2>0. PICK w : w = [node |-> n, index |-> LastIndex(log), cmd |-> v,
                        term |-> persistent[n].term]
        OBVIOUS
    <2>1. /\ Propose(n, v) /\ v \notin Bad /\ waiting' = waiting \cup {w}
          /\ UNCHANGED <<batch, applied, published, acked>>
        BY <1>8, <2>0 DEF ProposeAndWait
    <2>2. /\ e \in Entry /\ persistent[n].log \in Seq(Entry) /\ role[n] = "leader"
          /\ log = Append(persistent[n].log, e)
          /\ UNCHANGED <<role, elected, lastApplied>>
        BY <1>0, <2>1, ProposeEffect
    <2>3. log \in Seq(Entry) /\ Len(log) \in Nat \ {0} /\ log[Len(log)] = e
        BY <2>2
    <2>4. w.term = persistent[n].term /\ w.node = n /\ w.cmd = v /\ w.index = Len(log)
        BY <2>0 DEF LastIndex
    <2>5. w \in Call
        <3>1. persistent[n].term \in Nat
            BY <1>0, PersistentFields DEF TypeOK
        <3> HIDE DEF log
        <3> QED
            BY <2>0, <2>1, <2>3, <3>1 DEF Call, LastIndex
    <2>6. <<persistent[n].term, n>> \in elected'
        BY <1>0, <2>2 DEF MatchInv, LeaderElected
    <2>7. Waits(w)'
        <3>1. Len(log) <= Len(log)
            BY <2>3
        <3> QED
            BY <2>3, <2>4, <2>6, <3>1 DEF Waits
    <2>8. PathType'
        BY <1>0, <2>1, <2>5 DEF PathType
    <2>9. \A o \in Node : Queued(o)'
        BY <1>0, <1>1, <2>1, <2>2, QueuedKept
    <2>10. \A x \in waiting' : Waits(x)'
        BY <1>3, <2>1, <2>7
    <2>11. AckedIndexCommitted'
        BY <1>4, <2>1 DEF AckedIndexCommitted
    <2> QED
        BY <1>1, <2>8, <2>9, <2>10, <2>11 DEF PathInv
<1>9. ASSUME NEW n \in Node, Drain(n) PROVE PathInv'
    <2> DEFINE c == commitIndex[n]
               d == lastApplied[n]
               new == [k \in 1..(c - d) |-> [index |-> d + k, cmd |-> persistent[n].log[d + k].cmd]]
    <2>1. /\ TakeCommitted(n) /\ batch[n] = <<>> /\ batch' = [batch EXCEPT ![n] = new]
          /\ UNCHANGED <<applied, published, waiting, acked>>
        BY <1>9 DEF Drain
    <2>2. /\ d < c /\ lastApplied' = [lastApplied EXCEPT ![n] = c] /\ UNCHANGED decided
        BY <2>1 DEF TakeCommitted, history
    <2>3. c \in Nat /\ d \in Nat /\ c <= Len(decided) /\ lastApplied \in [Node -> Nat]
        BY <1>0 DEF TypeOK, CommitObserved
    <2>4. /\ new \in Seq({new[k] : k \in 1..(c - d)}) /\ Len(new) = c - d
          /\ \A k \in 1..(c - d) : new[k].index = d + k
        <3>1. c - d \in Nat
            BY <2>2, <2>3
        <3>2. new \in [1..(c - d) -> {new[k] : k \in 1..(c - d)}]
            OBVIOUS
        <3>3. \A k \in 1..(c - d) : new[k].index = d + k
            OBVIOUS
        <3> HIDE DEF new
        <3>4. new \in Seq({new[k] : k \in 1..(c - d)}) /\ Len(new) = c - d
            BY <3>1, <3>2
        <3> QED
            BY <3>3, <3>4
    <2> HIDE DEF new
    <2>5. ASSUME NEW o \in Node
          PROVE  /\ batch'[o] = IF o = n THEN new ELSE batch[o]
                 /\ lastApplied'[o] = IF o = n THEN c ELSE lastApplied[o]
        BY <1>0, <2>1, <2>2, <2>3 DEF PathType
    <2>6. PathType'
        <3>1. batch' = [o \in Node |-> batch'[o]]
            BY <1>0, <2>1 DEF PathType
        <3>2. \A o \in Node : IsSequence(batch'[o])
            BY <1>0, <2>4, <2>5 DEF PathType, IsSequence
        <3> QED
            BY <1>0, <2>1, <3>1, <3>2 DEF PathType
    <2>7. ASSUME NEW o \in Node PROVE Queued(o)'
        <3>1. CASE o # n
            BY <1>0, <1>1, <2>1, <2>5, <3>1, QueuedKept
        <3>2. CASE o = n
            <4>1. Len(batch[n]) = 0 /\ published[n] \in Nat /\ published[n] <= d
                <5>1. published[n] + Len(batch[n]) <= d /\ published[n] \in Nat
                    BY <1>0 DEF PathInv, Queued, PathType
                <5> QED
                    BY <2>1, <5>1
            <4>2. batch'[n] = new /\ lastApplied'[n] = c /\ published'[n] = published[n]
                BY <2>1, <2>5
            <4> HIDE DEF c, d
            <4>3. c - (c - d) = d /\ published[n] + (c - d) <= c
                BY <2>3, <4>1
            <4> QED
                BY <2>2, <2>3, <2>4, <3>2, <4>2, <4>3 DEF Queued
        <3> QED
            BY <3>1, <3>2
    <2> QED
        BY <1>1, <1>3, <1>4, <2>1, <2>6, <2>7 DEF PathInv, AckedIndexCommitted
<1>10. ASSUME NEW n \in Node, ApplyOne(n) PROVE PathInv'
    <2> DEFINE b == batch[n]
               e == Head(b)
    <2>1. /\ b # <<>> /\ batch' = [batch EXCEPT ![n] = Tail(b)]
          /\ applied' = [applied EXCEPT ![n] = Append(@, e)] \/ UNCHANGED applied
          /\ published' = [published EXCEPT ![n] = e.index] \/ UNCHANGED published
          /\ UNCHANGED <<vars, waiting, acked>>
        BY <1>10 DEF ApplyOne
    <2>2. PICK S : b \in Seq(S)
        BY <1>0 DEF PathType, IsSequence
    <2>3. PICK T : applied[n] \in Seq(T)
        BY <1>0 DEF PathType, IsSequence
    <2>4. /\ Len(b) \in Nat \ {0} /\ e = b[1] /\ Tail(b) \in Seq(S) /\ Len(Tail(b)) = Len(b) - 1
          /\ \A k \in 1..(Len(b) - 1) : Tail(b)[k] = b[k + 1]
        BY <2>1, <2>2
    <2>5. /\ lastApplied[n] \in Nat /\ published[n] \in Nat
          /\ published[n] + Len(b) <= lastApplied[n]
          /\ \A k \in 1..Len(b) : b[k].index = lastApplied[n] - Len(b) + k
          /\ UNCHANGED <<lastApplied, decided>>
        BY <1>0, <2>1 DEF PathInv, PathType, Queued, TypeOK, vars, volatile, history
    <2>6. e.index = lastApplied[n] - Len(b) + 1 /\ e.index \in Nat
        BY <2>4, <2>5
    <2> HIDE DEF e
    <2>7. Append(applied[n], e) \in Seq(T \cup {e})
        <3>1. applied[n] \in Seq(T \cup {e}) /\ e \in T \cup {e}
            BY <2>3
        <3> QED
            BY <3>1
    <2>8. ASSUME NEW o \in Node
          PROVE  /\ batch'[o] = IF o = n THEN Tail(b) ELSE batch[o]
                 /\ published'[o] = IF o = n THEN published'[n] ELSE published[o]
                 /\ published'[n] \in {e.index, published[n]}
                 /\ applied'[o] \in {applied[o], IF o = n THEN Append(applied[n], e) ELSE applied[o]}
        <3>1. /\ batch'[o] = IF o = n THEN Tail(b) ELSE batch[o]
              /\ published'[o] = IF o = n THEN published'[n] ELSE published[o]
              /\ published'[n] \in {e.index, published[n]}
            <4> HIDE DEF b
            <4> QED
                BY <1>0, <2>1 DEF PathType
        <3>2. applied'[o] \in {applied[o], IF o = n THEN Append(applied[n], e) ELSE applied[o]}
            BY <1>0, <2>1 DEF PathType
        <3> QED
            BY <3>1, <3>2
    <2>9. PathType'
        <3>1. batch' = [o \in Node |-> batch'[o]] /\ applied' = [o \in Node |-> applied'[o]]
            BY <1>0, <2>1 DEF PathType
        <3>2. published' \in [Node -> Nat]
            BY <1>0, <2>1, <2>6 DEF PathType
        <3>3. ASSUME NEW o \in Node PROVE IsSequence(batch'[o]) /\ IsSequence(applied'[o])
            <4>1. IsSequence(batch[o]) /\ IsSequence(applied[o])
                BY <1>0 DEF PathType
            <4>2. IsSequence(Tail(b)) /\ IsSequence(Append(applied[n], e))
                BY <2>4, <2>7 DEF IsSequence
            <4> QED
                BY <2>8, <4>1, <4>2
        <3> QED
            BY <1>0, <2>1, <3>1, <3>2, <3>3 DEF PathType
    <2>10. ASSUME NEW o \in Node PROVE Queued(o)'
        <3>1. CASE o # n
            BY <1>0, <1>1, <2>5, <2>8, <3>1, QueuedKept
        <3>2. CASE o = n
            <4>1. batch'[n] = Tail(b) /\ published'[n] \in {e.index, published[n]}
                BY <2>8
            <4>2. lastApplied[n] <= Len(decided)
                BY DEF PathInv, Queued
            <4> HIDE DEF b
            <4>3. published'[n] + Len(Tail(b)) <= lastApplied[n]
                BY <2>4, <2>5, <2>6, <4>1
            <4>4. ASSUME NEW k \in 1..Len(Tail(b))
                  PROVE  Tail(b)[k].index = lastApplied[n] - Len(Tail(b)) + k
                <5>1. k \in Nat /\ k \in 1..(Len(b) - 1) /\ k + 1 \in 1..Len(b)
                    BY <2>4
                <5>2. Tail(b)[k] = b[k + 1] /\ b[k + 1].index = lastApplied[n] - Len(b) + (k + 1)
                    BY <2>4, <2>5, <5>1
                <5>3. Len(Tail(b)) = Len(b) - 1 /\ Len(b) \in Nat /\ lastApplied[n] \in Nat
                    BY <2>4, <2>5
                <5>4. lastApplied[n] - (Len(b) - 1) + k = lastApplied[n] - Len(b) + (k + 1)
                    BY <5>1, <5>3
                <5> QED
                    BY <5>2, <5>3, <5>4
            <4> QED
                BY <2>5, <3>2, <4>1, <4>2, <4>3, <4>4 DEF Queued
        <3> QED
            BY <3>1, <3>2
    <2> QED
        BY <1>1, <1>3, <1>4, <2>1, <2>9, <2>10 DEF PathInv, AckedIndexCommitted
<1>11. ASSUME NEW n \in Node, RestartHost(n) PROVE PathInv'
    <2>1. /\ Restart(n) /\ batch' = [batch EXCEPT ![n] = <<>>]
          /\ applied' = [applied EXCEPT ![n] = <<>>]
          /\ published' = [published EXCEPT ![n] = 0]
          /\ waiting' \subseteq waiting /\ UNCHANGED acked
        BY <1>11 DEF RestartHost
    <2>2. lastApplied' = [lastApplied EXCEPT ![n] = 0] /\ lastApplied \in [Node -> Nat]
        BY <1>0, <2>1 DEF Restart, TypeOK
    <2>3. ASSUME NEW o \in Node
          PROVE  /\ batch'[o] = IF o = n THEN <<>> ELSE batch[o]
                 /\ applied'[o] = IF o = n THEN <<>> ELSE applied[o]
                 /\ published'[o] = IF o = n THEN 0 ELSE published[o]
                 /\ lastApplied'[o] = IF o = n THEN 0 ELSE lastApplied[o]
        BY <1>0, <2>1, <2>2 DEF PathType
    <2>4. PathType'
        <3>1. IsSequence(<<>>)
            <4>1. <<>> \in Seq({})
                OBVIOUS
            <4> QED
                BY <4>1 DEF IsSequence
        <3>2. batch' = [o \in Node |-> batch'[o]] /\ applied' = [o \in Node |-> applied'[o]]
            BY <1>0, <2>1 DEF PathType
        <3>3. \A o \in Node : IsSequence(batch'[o]) /\ IsSequence(applied'[o])
            BY <1>0, <2>3, <3>1 DEF PathType
        <3> QED
            BY <1>0, <2>1, <3>2, <3>3 DEF PathType
    <2>5. ASSUME NEW o \in Node PROVE Queued(o)'
        <3>1. CASE o # n
            BY <1>0, <1>1, <2>3, <3>1, QueuedKept
        <3>2. CASE o = n
            BY <1>2, <2>3, <3>2 DEF Queued
        <3> QED
            BY <3>1, <3>2
    <2> QED
        BY <1>1, <1>3, <1>4, <2>1, <2>4, <2>5 DEF PathInv, AckedIndexCommitted
<1>12. ASSUME NEW w \in waiting, Acknowledge(w) \/ TimeOut(w) PROVE PathInv'
    <2>1. /\ waiting' \subseteq waiting /\ UNCHANGED <<vars, batch, applied, published>>
          /\ UNCHANGED acked \/ (acked' = acked \cup {w} /\ published[w.node] >= w.index)
        BY <1>12 DEF Acknowledge, TimeOut
    <2>2. UNCHANGED <<lastApplied, decided>>
        BY <2>1 DEF vars, volatile, history
    <2>3. w.node \in Node /\ w.index \in Nat
        BY <1>0 DEF PathType, Call
    <2>4. published[w.node] <= Len(decided) /\ published[w.node] \in Nat
        <3>1. IsSequence(batch[w.node]) /\ published[w.node] \in Nat
            BY <1>0, <2>3 DEF PathType
        <3>2. Len(batch[w.node]) \in Nat
            BY <3>1 DEF IsSequence
        <3>3. /\ published[w.node] + Len(batch[w.node]) <= lastApplied[w.node]
              /\ lastApplied[w.node] <= Len(decided) /\ lastApplied[w.node] \in Nat
            BY <1>0, <2>3 DEF PathInv, Queued, TypeOK
        <3> QED
            BY <1>2, <3>1, <3>2, <3>3
    <2>5. AckedIndexCommitted'
        <3>1. published[w.node] >= w.index => w.index <= Len(decided)
            BY <1>2, <2>3, <2>4
        <3> QED
            BY <1>4, <2>1, <2>2, <3>1 DEF AckedIndexCommitted
    <2>6. PathType'
        BY <1>0, <2>1 DEF PathType
    <2>7. \A o \in Node : Queued(o)'
        BY <1>0, <1>1, <2>1, <2>2, QueuedKept
    <2> QED
        BY <1>1, <1>3, <2>1, <2>5, <2>6, <2>7 DEF PathInv
<1>13. CASE UNCHANGED allVars
    BY <1>5, <1>13 DEF allVars, vars, volatile
<1> QED
    BY <1>6, <1>7, <1>8, <1>9, <1>10, <1>11, <1>12, <1>13 DEF PathNext

\* The invariant holds in every reachable state.
THEOREM PathInvariant == PathSpec => []PathInv
    BY PathInvInit, PathInvNext, PTL DEF PathSpec

\* propose_and_wait never answers Ok for an index that is not committed,
\* whatever is lost, restarted or not written to disk, even with replies that
\* outlive their term.
THEOREM AcksCommitted == PathSpec => []AckedIndexCommitted
<1>1. PathInv => AckedIndexCommitted
    BY DEF PathInv
<1> QED
    BY <1>1, PathInvariant, PTL

-----------------------------------------------------------------------------
(* What is applied, while no write has failed.                              *)

Among(e, s) == \E k \in DOMAIN s : s[k] = e

\* What was drained and decodes has been applied or is about to be.
Given(n) ==
    \A i \in 1..lastApplied[n] : decided[i].cmd \notin Bad =>
        \/ Among([index |-> i, cmd |-> decided[i].cmd], applied[n])
        \/ Among([index |-> i, cmd |-> decided[i].cmd], batch[n])

\* A member whose daemon does nothing is given nothing else.
LEMMA GivenKept ==
    ASSUME PathInv, Starts(decided', decided), NEW n \in Node, Given(n),
           batch'[n] = batch[n], applied'[n] = applied[n], lastApplied'[n] = lastApplied[n]
    PROVE  Given(n)'
<1>1. lastApplied[n] \in Nat /\ lastApplied[n] <= Len(decided) /\ Len(decided) \in Nat
    BY DEF PathInv, MatchInv, ElectionInv, TypeInv, TypeOK, Queued
<1>2. \A i \in 1..lastApplied[n] : decided'[i] = decided[i]
    BY <1>1 DEF Starts
<1> QED
    BY <1>2 DEF Given

\* Draining and applying keep what was given.
LEMMA GivenNext ==
    ASSUME ~LateReplies, PathInv, CommitInv, faults' = 0, [PathNext]_allVars,
           \A n \in Node : Given(n)
    PROVE  \A n \in Node : Given(n)'
<1>0. PathType /\ TypeOK /\ CommitInv' /\ Starts(decided', decided)
    BY PathStep, CommitNext DEF PathInv, MatchInv, ElectionInv, TypeInv, LogStep
<1>1. ASSUME lastApplied' = lastApplied, UNCHANGED <<batch, applied>>
      PROVE  \A n \in Node : Given(n)'
    BY <1>0, <1>1, GivenKept
<1>2. ASSUME NEW n \in Node, Consensus(n), UNCHANGED pathVars PROVE \A o \in Node : Given(o)'
    BY <1>1, <1>2, ConsensusApplies DEF pathVars
<1>3. ASSUME NEW n \in Node, NEW v \in Value, ProposeRaw(n, v) \/ ProposeAndWait(n, v)
      PROVE  \A o \in Node : Given(o)'
    <2>1. Propose(n, v) /\ UNCHANGED <<batch, applied>>
        BY <1>3 DEF ProposeRaw, ProposeAndWait, pathVars
    <2> QED
        BY <1>0, <1>1, <2>1, ProposeEffect
<1>4. ASSUME NEW n \in Node, Drain(n) PROVE \A o \in Node : Given(o)'
    <2> DEFINE c == commitIndex[n]
               d == lastApplied[n]
               log == persistent[n].log
               new == [k \in 1..(c - d) |-> [index |-> d + k, cmd |-> log[d + k].cmd]]
    <2>1. /\ TakeCommitted(n) /\ batch[n] = <<>> /\ batch' = [batch EXCEPT ![n] = new]
          /\ UNCHANGED applied
        BY <1>4 DEF Drain
    <2>2. /\ d < c /\ lastApplied' = [lastApplied EXCEPT ![n] = c] /\ UNCHANGED decided
        BY <2>1 DEF TakeCommitted, history
    <2>3. c \in Nat /\ d \in Nat /\ \A i \in 1..c : log[i] = decided[i]
        BY <1>0 DEF CommitInv, Committed, TypeOK
    <2>4. \A i \in (d + 1)..c : /\ i - d \in DOMAIN new
                                /\ new[i - d] = [index |-> i, cmd |-> decided[i].cmd]
        <3> SUFFICES ASSUME NEW i \in (d + 1)..c
                     PROVE  /\ i - d \in DOMAIN new
                            /\ new[i - d] = [index |-> i, cmd |-> decided[i].cmd]
            OBVIOUS
        <3>1. i - d \in 1..(c - d) /\ d + (i - d) = i /\ log[i] = decided[i]
            BY <2>3
        <3> QED
            BY <3>1
    <2> HIDE DEF new
    <2>5. ASSUME NEW o \in Node
          PROVE  /\ batch'[o] = IF o = n THEN new ELSE batch[o]
                 /\ lastApplied'[o] = IF o = n THEN c ELSE lastApplied[o]
        BY <1>0, <2>1, <2>2 DEF PathType, TypeOK
    <2>6. Given(n)'
        <3> SUFFICES ASSUME NEW i \in 1..c, decided[i].cmd \notin Bad
                     PROVE  \/ Among([index |-> i, cmd |-> decided[i].cmd], applied[n])
                            \/ Among([index |-> i, cmd |-> decided[i].cmd], new)
            BY <2>1, <2>2, <2>5 DEF Given
        <3>1. CASE i \in 1..d
            <4>1. DOMAIN batch[n] = {}
                BY <2>1
            <4> QED
                BY <3>1, <4>1 DEF Given, Among
        <3>2. CASE i \in (d + 1)..c
            BY <2>4, <3>2 DEF Among
        <3> QED
            BY <2>3, <3>1, <3>2
    <2> QED
        BY <1>0, <2>1, <2>5, <2>6, GivenKept
<1>5. ASSUME NEW n \in Node, ApplyOne(n) PROVE \A o \in Node : Given(o)'
    <2> DEFINE b == batch[n]
               e == Head(b)
               a == applied[n]
    <2>1. /\ b # <<>> /\ batch' = [batch EXCEPT ![n] = Tail(b)]
          /\ applied' = IF e.cmd \notin Bad THEN [applied EXCEPT ![n] = Append(a, e)] ELSE applied
          /\ UNCHANGED <<lastApplied, decided>>
        BY <1>5 DEF ApplyOne, vars, volatile, history
    <2>2. PICK S : b \in Seq(S)
        BY <1>0 DEF PathType, IsSequence
    <2>3. PICK T : a \in Seq(T)
        BY <1>0 DEF PathType, IsSequence
    <2>4. ASSUME NEW x, Among(x, b) PROVE x = e \/ Among(x, Tail(b))
        <3>1. PICK k \in DOMAIN b : b[k] = x
            BY <2>4 DEF Among
        <3>2. k \in 1..Len(b) /\ Len(b) \in Nat /\ e = b[1]
            BY <2>1, <2>2, <3>1
        <3>3. CASE k = 1
            BY <3>1, <3>2, <3>3
        <3>4. CASE k # 1
            <4>1. k - 1 \in 1..(Len(b) - 1)
                BY <3>2, <3>4
            <4>2. k - 1 \in DOMAIN Tail(b) /\ Tail(b)[k - 1] = b[k]
                BY <2>1, <2>2, <3>2, <4>1
            <4> QED
                BY <3>1, <4>2 DEF Among
        <3> QED
            BY <3>3, <3>4
    <2> HIDE DEF e
    <2>5. /\ Among(e, Append(a, e))
          /\ \A x : Among(x, a) => Among(x, Append(a, e))
        <3>1. a \in Seq(T \cup {e}) /\ e \in T \cup {e}
            BY <2>3
        <3> HIDE DEF a
        <3>2. /\ Len(a) \in Nat /\ DOMAIN a = 1..Len(a) /\ DOMAIN Append(a, e) = 1..(Len(a) + 1)
              /\ Append(a, e)[Len(a) + 1] = e
              /\ \A k \in 1..Len(a) : Append(a, e)[k] = a[k]
            BY <3>1
        <3>3. Len(a) + 1 \in 1..(Len(a) + 1) /\ 1..Len(a) \subseteq 1..(Len(a) + 1)
            BY <3>2
        <3> QED
            BY <3>2, <3>3 DEF Among
    <2>6. ASSUME NEW o \in Node
          PROVE  /\ batch'[o] = IF o = n THEN Tail(b) ELSE batch[o]
                 /\ applied'[o] = IF o = n /\ e.cmd \notin Bad THEN Append(a, e) ELSE applied[o]
        <3>1. applied'[o] = IF o = n /\ e.cmd \notin Bad THEN Append(a, e) ELSE applied[o]
            BY <1>0, <2>1 DEF PathType
        <3>2. batch'[o] = IF o = n THEN Tail(b) ELSE batch[o]
            BY <1>0, <2>1 DEF PathType
        <3> QED
            BY <3>1, <3>2
    <2>7. Given(n)'
        <3> SUFFICES ASSUME NEW i \in 1..lastApplied[n], decided[i].cmd \notin Bad
                     PROVE  \/ Among([index |-> i, cmd |-> decided[i].cmd], applied'[n])
                            \/ Among([index |-> i, cmd |-> decided[i].cmd], batch'[n])
            BY <2>1 DEF Given
        <3> DEFINE x == [index |-> i, cmd |-> decided[i].cmd]
        <3>1. (Among(x, a) \/ Among(x, b)) /\ x.cmd \notin Bad
            BY DEF Given
        <3> HIDE DEF x, a, b
        <3>2. x = e \/ Among(x, a) \/ Among(x, Tail(b))
            BY <2>4, <3>1
        <3>3. Among(x, applied'[n]) \/ Among(x, batch'[n])
            BY <2>5, <2>6, <3>1, <3>2 DEF a
        <3> QED
            BY <3>3 DEF x
    <2> QED
        BY <1>0, <2>1, <2>6, <2>7, GivenKept
<1>6. ASSUME NEW n \in Node, RestartHost(n) PROVE \A o \in Node : Given(o)'
    <2>1. /\ Restart(n) /\ batch' = [batch EXCEPT ![n] = <<>>]
          /\ applied' = [applied EXCEPT ![n] = <<>>]
        BY <1>6 DEF RestartHost
    <2>2. lastApplied' = [lastApplied EXCEPT ![n] = 0]
        BY <2>1 DEF Restart
    <2>3. ASSUME NEW o \in Node
          PROVE  /\ o # n => /\ batch'[o] = batch[o] /\ applied'[o] = applied[o]
                             /\ lastApplied'[o] = lastApplied[o]
                 /\ o = n => lastApplied'[o] = 0
        BY <1>0, <2>1, <2>2 DEF PathType, TypeOK
    <2>4. Given(n)'
        <3>1. 1..lastApplied'[n] = {}
            BY <2>3
        <3> QED
            BY <3>1 DEF Given
    <2> QED
        BY <1>0, <2>3, <2>4, GivenKept
<1>7. ASSUME NEW w \in waiting, Acknowledge(w) \/ TimeOut(w) PROVE \A o \in Node : Given(o)'
    BY <1>1, <1>7 DEF Acknowledge, TimeOut, vars, volatile
<1>8. CASE UNCHANGED allVars
    BY <1>1, <1>8 DEF allVars, vars, volatile, pathVars
<1> QED
    BY <1>2, <1>3, <1>4, <1>5, <1>6, <1>7, <1>8 DEF PathNext

\* A write that its proposer still leads the term of is acknowledged only for
\* itself: the leader's log holds it at its index, and what is committed
\* there and applied is what the log holds.
LEMMA AckableItself ==
    ASSUME PathInv, CommitInv, \A n \in Node : Given(n)
    PROVE  AckableUnderSameLeader
<1> SUFFICES ASSUME NEW w \in waiting, published[w.node] >= w.index,
                    role[w.node] = "leader", persistent[w.node].term = w.term
             PROVE  /\ Holds(w)
                    /\ \E k \in DOMAIN applied[w.node] :
                          applied[w.node][k] = [index |-> w.index, cmd |-> w.cmd]
    BY DEF AckableUnderSameLeader
<1> DEFINE n == w.node
<1>0. TypeOK /\ PathType /\ Waits(w) /\ CommitObserved
    BY DEF PathInv, MatchInv, ElectionInv, TypeInv
<1>1. /\ n \in Node /\ w.index \in Nat \ {0} /\ w.cmd \notin Bad
      /\ published[n] \in Nat /\ lastApplied[n] \in Nat /\ commitIndex[n] \in Nat
      /\ Len(decided) \in Nat /\ IsSequence(batch[n])
    BY <1>0 DEF PathType, Call, TypeOK
<1>2. PICK S : batch[n] \in Seq(S)
    BY <1>1 DEF IsSequence
<1>3. /\ published[n] + Len(batch[n]) <= lastApplied[n] /\ Len(batch[n]) \in Nat
      /\ \A k \in 1..Len(batch[n]) : batch[n][k].index = lastApplied[n] - Len(batch[n]) + k
      /\ DOMAIN batch[n] = 1..Len(batch[n])
    <2>1. Len(batch[n]) \in Nat /\ DOMAIN batch[n] = 1..Len(batch[n])
        BY <1>2
    <2>2. Queued(n)
        BY <1>1 DEF PathInv
    <2> QED
        BY <2>1, <2>2 DEF Queued
<1>4. /\ lastApplied[n] <= commitIndex[n] /\ commitIndex[n] <= Len(decided)
      /\ \A i \in 1..commitIndex[n] : persistent[n].log[i] = decided[i]
    BY <1>0, <1>1 DEF CommitInv, Committed, CommitObserved
<1>5. persistent[n].log[w.index] = [term |-> w.term, cmd |-> w.cmd]
    BY <1>0 DEF Waits
<1>6. published[n] >= w.index
    OBVIOUS
<1> HIDE DEF n
<1>7. w.index \in 1..lastApplied[n] /\ w.index \in 1..commitIndex[n] /\ w.index <= Len(decided)
    BY <1>1, <1>3, <1>4, <1>6
<1>8. decided[w.index] = [term |-> w.term, cmd |-> w.cmd]
    BY <1>4, <1>5, <1>7
<1>9. decided[w.index].cmd = w.cmd
    BY <1>8
<1>10. ~Among([index |-> w.index, cmd |-> w.cmd], batch[n])
    <2> SUFFICES ASSUME NEW k \in 1..Len(batch[n]),
                        batch[n][k] = [index |-> w.index, cmd |-> w.cmd]
                 PROVE  FALSE
        BY <1>3 DEF Among
    <2>1. w.index = lastApplied[n] - Len(batch[n]) + k
        BY <1>3
    <2> QED
        BY <1>1, <1>3, <1>6, <2>1
<1>11. Among([index |-> w.index, cmd |-> w.cmd], applied[n])
    BY <1>1, <1>7, <1>9, <1>10 DEF Given
<1>12. Holds(w)
    BY <1>7, <1>8 DEF Holds
<1> QED
    BY <1>11, <1>12 DEF Among, n

\* In every state before the first failed write, a write that can be
\* acknowledged while its proposer leads the term of the proposal is itself
\* committed and applied there.
THEOREM AcksOwnWrite ==
    ASSUME ~LateReplies
    PROVE  PathSpec => [](faults = 0 => AckableUnderSameLeader)
<1> DEFINE GivenInv == faults = 0 => \A n \in Node : Given(n)
<1>1. PathInit => GivenInv
    <2> SUFFICES ASSUME PathInit, NEW n \in Node PROVE Given(n)
        OBVIOUS
    <2>1. lastApplied[n] = 0
        BY DEF PathInit, Init
    <2>2. 1..lastApplied[n] = {}
        BY <2>1
    <2> QED
        BY <2>2 DEF Given
<1>2. ASSUME PathInv, faults = 0 => CommitInv, GivenInv, [PathNext]_allVars
      PROVE  GivenInv'
    <2>1. faults \in Nat
        BY <1>2 DEF PathInv, MatchInv, ElectionInv, TypeInv, TypeOK
    <2>2. faults' = 0 => faults = 0
        BY <1>2, <2>1, PathStep, FaultsGrow
    <2> QED
        BY <1>2, <2>2, GivenNext
<1>3. ASSUME PathInv, faults = 0 => CommitInv, GivenInv
      PROVE  faults = 0 => AckableUnderSameLeader
    BY <1>3, AckableItself
<1>4. PathSpec => [](faults = 0 => CommitInv)
    BY PathImplementsCore, CommitInvariant, PTL
<1> HIDE DEF GivenInv
<1> QED
    BY <1>1, <1>2, <1>3, <1>4, PathInvariant, PTL DEF PathSpec

-----------------------------------------------------------------------------
(* In what order it is applied.                                             *)

Behind(n) == lastApplied[n] - Len(batch[n])

\* The batch is what comes next in the committed log; what was applied comes
\* from before it, decodes, and is in order.
Ordered(n) ==
    /\ \A k \in DOMAIN batch[n] :
          batch[n][k] = [index |-> Behind(n) + k, cmd |-> decided[Behind(n) + k].cmd]
    /\ \A k \in DOMAIN applied[n] :
          /\ applied[n][k].index \in 1..Behind(n)
          /\ applied[n][k].cmd = decided[applied[n][k].index].cmd
          /\ applied[n][k].cmd \notin Bad
    /\ \A j, k \in DOMAIN applied[n] : j < k => applied[n][j].index < applied[n][k].index

\* The daemon is somewhere in the committed log.
LEMMA BehindIs ==
    ASSUME PathInv, NEW n \in Node
    PROVE  /\ lastApplied[n] \in Nat /\ Len(batch[n]) \in Nat /\ Behind(n) \in Nat
           /\ lastApplied[n] <= Len(decided) /\ Len(decided) \in Nat
           /\ Behind(n) + Len(batch[n]) = lastApplied[n]
           /\ DOMAIN batch[n] = 1..Len(batch[n])
<1>1. IsSequence(batch[n]) /\ published[n] \in Nat /\ lastApplied[n] \in Nat /\ Len(decided) \in Nat
    BY DEF PathInv, PathType, MatchInv, ElectionInv, TypeInv, TypeOK
<1>2. published[n] + Len(batch[n]) <= lastApplied[n] /\ lastApplied[n] <= Len(decided)
    BY DEF PathInv, Queued
<1>3. Len(batch[n]) \in Nat /\ DOMAIN batch[n] = 1..Len(batch[n])
    BY <1>1 DEF IsSequence
<1> QED
    BY <1>1, <1>2, <1>3 DEF Behind

\* A member whose daemon does nothing keeps its order.
LEMMA OrderedKept ==
    ASSUME PathInv, Starts(decided', decided), NEW n \in Node, Ordered(n),
           batch'[n] = batch[n], applied'[n] = applied[n], lastApplied'[n] = lastApplied[n]
    PROVE  Ordered(n)'
<1>1. \A i \in 1..lastApplied[n] : decided'[i] = decided[i]
    BY BehindIs DEF Starts
<1>2. Behind(n)' = Behind(n)
    BY DEF Behind
<1>3. \A k \in DOMAIN batch[n] : Behind(n) + k \in 1..lastApplied[n]
    BY BehindIs
<1>4. 1..Behind(n) \subseteq 1..lastApplied[n]
    BY BehindIs
<1> QED
    BY <1>1, <1>2, <1>3, <1>4 DEF Ordered

\* Draining and applying keep the order.
LEMMA OrderedNext ==
    ASSUME ~LateReplies, PathInv, CommitInv, faults' = 0, [PathNext]_allVars,
           \A n \in Node : Ordered(n)
    PROVE  \A n \in Node : Ordered(n)'
<1>0. PathType /\ TypeOK /\ CommitInv' /\ Starts(decided', decided)
    BY PathStep, CommitNext DEF PathInv, MatchInv, ElectionInv, TypeInv, LogStep
<1>1. ASSUME lastApplied' = lastApplied, UNCHANGED <<batch, applied>>
      PROVE  \A n \in Node : Ordered(n)'
    BY <1>0, <1>1, OrderedKept
<1>2. ASSUME NEW n \in Node, Consensus(n), UNCHANGED pathVars PROVE \A o \in Node : Ordered(o)'
    BY <1>1, <1>2, ConsensusApplies DEF pathVars
<1>3. ASSUME NEW n \in Node, NEW v \in Value, ProposeRaw(n, v) \/ ProposeAndWait(n, v)
      PROVE  \A o \in Node : Ordered(o)'
    <2>1. Propose(n, v) /\ UNCHANGED <<batch, applied>>
        BY <1>3 DEF ProposeRaw, ProposeAndWait, pathVars
    <2> QED
        BY <1>0, <1>1, <2>1, ProposeEffect
<1>4. ASSUME NEW n \in Node, Drain(n) PROVE \A o \in Node : Ordered(o)'
    <2> DEFINE c == commitIndex[n]
               d == lastApplied[n]
               log == persistent[n].log
               new == [k \in 1..(c - d) |-> [index |-> d + k, cmd |-> log[d + k].cmd]]
    <2>1. /\ TakeCommitted(n) /\ batch[n] = <<>> /\ batch' = [batch EXCEPT ![n] = new]
          /\ UNCHANGED applied
        BY <1>4 DEF Drain
    <2>2. /\ d < c /\ lastApplied' = [lastApplied EXCEPT ![n] = c] /\ UNCHANGED decided
        BY <2>1 DEF TakeCommitted, history
    <2>3. c \in Nat /\ d \in Nat /\ \A i \in 1..c : log[i] = decided[i]
        BY <1>0 DEF CommitInv, Committed, TypeOK
    <2>4. /\ Len(new) = c - d /\ DOMAIN new = 1..(c - d)
          /\ \A k \in 1..(c - d) : new[k] = [index |-> d + k, cmd |-> decided[d + k].cmd]
        <3>1. c - d \in Nat
            BY <2>2, <2>3
        <3>2. \A k \in 1..(c - d) : d + k \in 1..c
            BY <2>3
        <3>3. \A k \in 1..(c - d) : new[k] = [index |-> d + k, cmd |-> decided[d + k].cmd]
            BY <2>3, <3>2
        <3>4. new \in [1..(c - d) -> {new[k] : k \in 1..(c - d)}]
            OBVIOUS
        <3> HIDE DEF new
        <3>5. Len(new) = c - d /\ DOMAIN new = 1..(c - d)
            BY <3>1, <3>4
        <3> QED
            BY <3>3, <3>5
    <2> HIDE DEF new
    <2>5. ASSUME NEW o \in Node
          PROVE  /\ batch'[o] = IF o = n THEN new ELSE batch[o]
                 /\ lastApplied'[o] = IF o = n THEN c ELSE lastApplied[o]
        BY <1>0, <2>1, <2>2 DEF PathType, TypeOK
    <2>6. Behind(n) = d /\ Behind(n)' = d
        <3>1. Len(batch[n]) = 0
            BY <2>1
        <3>2. c - (c - d) = d /\ d - 0 = d
            BY <2>3
        <3> QED
            BY <2>4, <2>5, <3>1, <3>2 DEF Behind
    <2>7. Ordered(n)'
        BY <2>1, <2>2, <2>4, <2>5, <2>6 DEF Ordered
    <2> QED
        BY <1>0, <2>1, <2>5, <2>7, OrderedKept
<1>5. ASSUME NEW n \in Node, ApplyOne(n) PROVE \A o \in Node : Ordered(o)'
    <2> DEFINE b == batch[n]
               e == Head(b)
               a == applied[n]
               d == Behind(n)
    <2>1. /\ b # <<>> /\ batch' = [batch EXCEPT ![n] = Tail(b)]
          /\ applied' = IF e.cmd \notin Bad THEN [applied EXCEPT ![n] = Append(a, e)] ELSE applied
          /\ UNCHANGED <<lastApplied, decided>>
        BY <1>5 DEF ApplyOne, vars, volatile, history
    <2>2. PICK S : b \in Seq(S)
        BY <1>0 DEF PathType, IsSequence
    <2>3. PICK T : a \in Seq(T)
        BY <1>0 DEF PathType, IsSequence
    <2>4. /\ Len(b) \in Nat \ {0} /\ e = b[1] /\ Len(Tail(b)) = Len(b) - 1
          /\ DOMAIN Tail(b) = 1..(Len(b) - 1)
          /\ \A k \in 1..(Len(b) - 1) : Tail(b)[k] = b[k + 1]
        BY <2>1, <2>2
    <2>5. d \in Nat /\ DOMAIN b = 1..Len(b) /\ lastApplied[n] \in Nat
          /\ d = lastApplied[n] - Len(b)
        BY BehindIs DEF Behind
    <2>6. ASSUME NEW o \in Node
          PROVE  /\ batch'[o] = IF o = n THEN Tail(b) ELSE batch[o]
                 /\ applied'[o] = IF o = n /\ e.cmd \notin Bad THEN Append(a, e) ELSE applied[o]
        <3>1. applied'[o] = IF o = n /\ e.cmd \notin Bad THEN Append(a, e) ELSE applied[o]
            BY <1>0, <2>1 DEF PathType
        <3>2. batch'[o] = IF o = n THEN Tail(b) ELSE batch[o]
            BY <1>0, <2>1 DEF PathType
        <3> QED
            BY <3>1, <3>2
    <2>7. e = [index |-> d + 1, cmd |-> decided[d + 1].cmd]
        <3>1. 1 \in DOMAIN b
            BY <2>4, <2>5
        <3> QED
            BY <2>4, <3>1 DEF Ordered
    <2>8. Behind(n)' = d + 1
        <3>1. Behind(n)' = lastApplied[n] - Len(Tail(b))
            BY <2>1, <2>6 DEF Behind
        <3> HIDE DEF b, d
        <3> QED
            BY <2>4, <2>5, <3>1
    <2>9. ASSUME NEW k \in DOMAIN Tail(b)
          PROVE  Tail(b)[k] = [index |-> (d + 1) + k, cmd |-> decided[(d + 1) + k].cmd]
        <3>1. k \in 1..(Len(b) - 1) /\ k + 1 \in DOMAIN b /\ Tail(b)[k] = b[k + 1]
            BY <2>4, <2>5
        <3>2. b[k + 1] = [index |-> d + (k + 1), cmd |-> decided[d + (k + 1)].cmd]
            BY <3>1 DEF Ordered
        <3>3. d + (k + 1) = (d + 1) + k
            BY <2>5, <3>1
        <3> QED
            BY <3>1, <3>2, <3>3
    <2>10. /\ \A k \in DOMAIN a : /\ a[k].index \in 1..d /\ a[k].cmd = decided[a[k].index].cmd
                                  /\ a[k].cmd \notin Bad
           /\ \A j, k \in DOMAIN a : j < k => a[j].index < a[k].index
        BY DEF Ordered
    <2>11. 1..d \subseteq 1..(d + 1) /\ d + 1 \in 1..(d + 1) /\ \A i \in 1..d : i < d + 1
        BY <2>5
    <2> HIDE DEF e, d
    <2>12. /\ Len(a) \in Nat /\ DOMAIN a = 1..Len(a) /\ DOMAIN Append(a, e) = 1..(Len(a) + 1)
           /\ Append(a, e)[Len(a) + 1] = e
           /\ \A k \in 1..Len(a) : Append(a, e)[k] = a[k]
        <3>1. a \in Seq(T \cup {e}) /\ e \in T \cup {e}
            BY <2>3
        <3> HIDE DEF a
        <3> QED
            BY <3>1
    <2> DEFINE a2 == applied'[n]
    <2>13. a2 = IF e.cmd \notin Bad THEN Append(a, e) ELSE a
        BY <2>6
    <2>14. e.index = d + 1 /\ e.cmd = decided[d + 1].cmd
        BY <2>7
    <2> HIDE DEF a, a2
    <2>15. \A k \in DOMAIN a2 : \/ k \in DOMAIN a /\ a2[k] = a[k]
                                \/ k = Len(a) + 1 /\ a2[k] = e /\ e.cmd \notin Bad
        BY <2>12, <2>13
    <2>16. ASSUME NEW k \in DOMAIN a2
           PROVE  /\ a2[k].index \in 1..(d + 1) /\ a2[k].cmd = decided[a2[k].index].cmd
                  /\ a2[k].cmd \notin Bad
        BY <2>10, <2>11, <2>14, <2>15
    <2>17. ASSUME NEW j \in DOMAIN a2, NEW k \in DOMAIN a2, j < k
           PROVE  a2[j].index < a2[k].index
        BY <2>10, <2>11, <2>12, <2>14, <2>15, <2>17
    <2>18. Ordered(n)'
        <3>1. batch'[n] = Tail(b) /\ decided' = decided
            BY <2>1, <2>6
        <3> HIDE DEF b
        <3>2. \A k \in DOMAIN batch'[n] :
                 batch'[n][k] = [index |-> Behind(n)' + k, cmd |-> decided'[Behind(n)' + k].cmd]
            BY <2>8, <2>9, <3>1
        <3>3. \A k \in DOMAIN applied'[n] :
                 /\ applied'[n][k].index \in 1..Behind(n)'
                 /\ applied'[n][k].cmd = decided'[applied'[n][k].index].cmd
                 /\ applied'[n][k].cmd \notin Bad
            BY <2>8, <2>16, <3>1 DEF a2
        <3>4. \A j, k \in DOMAIN applied'[n] : j < k => applied'[n][j].index < applied'[n][k].index
            BY <2>17 DEF a2
        <3> QED
            BY <3>2, <3>3, <3>4 DEF Ordered
    <2> QED
        BY <1>0, <2>1, <2>6, <2>18, OrderedKept
<1>6. ASSUME NEW n \in Node, RestartHost(n) PROVE \A o \in Node : Ordered(o)'
    <2>1. /\ Restart(n) /\ batch' = [batch EXCEPT ![n] = <<>>]
          /\ applied' = [applied EXCEPT ![n] = <<>>]
        BY <1>6 DEF RestartHost
    <2>2. lastApplied' = [lastApplied EXCEPT ![n] = 0]
        BY <2>1 DEF Restart
    <2>3. ASSUME NEW o \in Node
          PROVE  /\ o # n => /\ batch'[o] = batch[o] /\ applied'[o] = applied[o]
                             /\ lastApplied'[o] = lastApplied[o]
                 /\ o = n => batch'[o] = <<>> /\ applied'[o] = <<>>
        BY <1>0, <2>1, <2>2 DEF PathType, TypeOK
    <2>4. Ordered(n)'
        BY <2>3 DEF Ordered
    <2> QED
        BY <1>0, <2>3, <2>4, OrderedKept
<1>7. ASSUME NEW w \in waiting, Acknowledge(w) \/ TimeOut(w) PROVE \A o \in Node : Ordered(o)'
    BY <1>1, <1>7 DEF Acknowledge, TimeOut, vars, volatile
<1>8. CASE UNCHANGED allVars
    BY <1>1, <1>8 DEF allVars, vars, volatile, pathVars
<1> QED
    BY <1>2, <1>3, <1>4, <1>5, <1>6, <1>7, <1>8 DEF PathNext

\* Given and in order: nothing that decodes is missing, twice or misplaced.
LEMMA OrderedIsDelivered ==
    ASSUME PathInv, \A n \in Node : Given(n) /\ Ordered(n)
    PROVE  DeliveredOnceInOrder
<1> SUFFICES ASSUME NEW n \in Node
             PROVE  /\ {applied[n][k].index : k \in DOMAIN applied[n]} =
                          {i \in 1..Behind(n) : decided[i].cmd \notin Bad}
                    /\ \A j, k \in DOMAIN applied[n] :
                          j < k => applied[n][j].index < applied[n][k].index
                    /\ \A k \in DOMAIN applied[n] :
                          applied[n][k].cmd = decided[applied[n][k].index].cmd
                    /\ \A k \in DOMAIN batch[n] :
                          batch[n][k] = [index |-> Behind(n) + k, cmd |-> decided[Behind(n) + k].cmd]
    BY DEF DeliveredOnceInOrder, Behind
<1>1. Given(n) /\ Ordered(n)
    OBVIOUS
<1>2. ASSUME NEW i \in 1..Behind(n), decided[i].cmd \notin Bad
      PROVE  \E k \in DOMAIN applied[n] : applied[n][k].index = i
    <2>1. i \in 1..lastApplied[n]
        BY BehindIs
    <2>2. ~Among([index |-> i, cmd |-> decided[i].cmd], batch[n])
        <3> SUFFICES ASSUME NEW k \in DOMAIN batch[n],
                            batch[n][k] = [index |-> i, cmd |-> decided[i].cmd]
                     PROVE  FALSE
            BY DEF Among
        <3>1. batch[n][k] = [index |-> Behind(n) + k, cmd |-> decided[Behind(n) + k].cmd]
            BY <1>1 DEF Ordered
        <3>2. i = Behind(n) + k
            BY <3>1
        <3> QED
            BY <3>2, BehindIs
    <2>3. Among([index |-> i, cmd |-> decided[i].cmd], applied[n])
        BY <1>1, <1>2, <2>1, <2>2 DEF Given
    <2> QED
        BY <2>3 DEF Among
<1>3. \A k \in DOMAIN applied[n] : /\ applied[n][k].index \in 1..Behind(n)
                                   /\ decided[applied[n][k].index].cmd \notin Bad
    BY <1>1 DEF Ordered
<1>4. {applied[n][k].index : k \in DOMAIN applied[n]} = {i \in 1..Behind(n) : decided[i].cmd \notin Bad}
    BY <1>2, <1>3
<1> QED
    BY <1>1, <1>4 DEF Ordered

\* In every state before the first failed write, each member has applied the
\* committed entries up to where its daemon is, each once and in order, with
\* restarts, elections and lost messages at any point.
THEOREM DeliversOnceInOrder ==
    ASSUME ~LateReplies
    PROVE  PathSpec => [](faults = 0 => DeliveredOnceInOrder)
<1> DEFINE GivenInv == faults = 0 => \A n \in Node : Given(n) /\ Ordered(n)
<1>1. PathInit => GivenInv
    <2> SUFFICES ASSUME PathInit, NEW n \in Node PROVE Given(n) /\ Ordered(n)
        OBVIOUS
    <2>1. lastApplied[n] = 0 /\ batch[n] = <<>> /\ applied[n] = <<>>
        BY DEF PathInit, Init
    <2>2. 1..lastApplied[n] = {} /\ DOMAIN batch[n] = {} /\ DOMAIN applied[n] = {}
        BY <2>1
    <2> QED
        BY <2>2 DEF Given, Ordered
<1>2. ASSUME PathInv, faults = 0 => CommitInv, GivenInv, [PathNext]_allVars
      PROVE  GivenInv'
    <2>1. faults \in Nat
        BY <1>2 DEF PathInv, MatchInv, ElectionInv, TypeInv, TypeOK
    <2>2. faults' = 0 => faults = 0
        BY <1>2, <2>1, PathStep, FaultsGrow
    <2> QED
        BY <1>2, <2>2, GivenNext, OrderedNext
<1>3. ASSUME PathInv, faults = 0 => CommitInv, GivenInv
      PROVE  faults = 0 => DeliveredOnceInOrder
    BY <1>3, OrderedIsDelivered
<1>4. PathSpec => [](faults = 0 => CommitInv)
    BY PathImplementsCore, CommitInvariant, PTL
<1> HIDE DEF GivenInv
<1> QED
    BY <1>1, <1>2, <1>3, <1>4, PathInvariant, PTL DEF PathSpec
=============================================================================
