---------------------------- MODULE RaftCoreProofs ----------------------------
(***************************************************************************)
(* Theorems about RaftCore: its types, and one leader a term at most.  For *)
(* any finite cluster, any commands and any bounds, with lost, delayed and *)
(* reordered RPCs, restarts at any moment and disk writes that fail.       *)
(***************************************************************************)
EXTENDS RaftCore, TLAPS, FiniteSetTheorems, SequenceTheorems, WellFoundedInduction

-----------------------------------------------------------------------------
(* What the computations of RaftLog return, for logs of any length.        *)

\* A nonempty set of naturals has a least element.
LEMMA MinExists ==
    ASSUME NEW S \in SUBSET Nat, S # {}
    PROVE  /\ Min(S) \in S
           /\ \A y \in S : Min(S) <= y
<1> DEFINE Less == {p \in Nat \X Nat : p[1] < p[2]}
<1>1. IsWellFoundedOn(Less, Nat)
    BY NatLessThanWellFounded, Zenon DEF OpToRel
<1> HIDE DEF Less
<1>2. PICK x \in S : \A y \in S : ~(<<y, x>> \in Less)
    BY <1>1, WFMin
<1>3. \A y \in S : y < x => <<y, x>> \in Less
    BY DEF Less
<1>4. \A y \in S : ~(y < x)
    BY <1>2, <1>3
<1>5. \A y \in S : x <= y
    BY <1>4
<1> QED
    BY <1>5 DEF Min

\* A nonempty, bounded set of naturals has a greatest element.
LEMMA MaxExists ==
    ASSUME NEW S \in SUBSET Nat, S # {},
           NEW b \in Nat, \A x \in S : x <= b
    PROVE  /\ Max(S) \in S
           /\ \A y \in S : Max(S) >= y
<1> DEFINE T == {b - x : x \in S}
<1>1. T \in SUBSET Nat /\ T # {}
    <2>1. \A x \in S : b - x \in Nat /\ b - x \in T
        OBVIOUS
    <2>2. T \in SUBSET Nat
        BY <2>1
    <2>3. PICK x \in S : TRUE
        OBVIOUS
    <2> QED
        BY <2>1, <2>2, <2>3
<1>2. PICK t \in T : \A u \in T : t <= u
    BY <1>1, MinExists
<1>3. PICK x \in S : t = b - x
    BY <1>2
<1>4. \A y \in S : x >= y
    <2> TAKE y \in S
    <2>1. b - y \in T
        OBVIOUS
    <2>2. t <= b - y
        BY <1>2, <2>1
    <2> QED
        BY <1>3, <2>2
<1> QED
    BY <1>4 DEF Max

-----------------------------------------------------------------------------
\* The part of a log that tick sends is a sequence of its entries.
LEMMA SuffixType ==
    ASSUME NEW E, NEW log \in Seq(E), NEW next \in Nat
    PROVE  Suffix(log, next) \in Seq(E)
<1>1. \A i \in (IF next = 0 THEN 1 ELSE next)..Len(log) : log[i] \in E
    OBVIOUS
<1> QED
    BY <1>1, SubSeqProperties DEF Suffix

\* next_index and the prev index computed from it stay natural numbers.
LEMMA IndexTypes ==
    ASSUME NEW next \in Nat, NEW conflict \in Nat
    PROVE  PrevIndex(next) \in Nat /\ Backtrack(next, conflict) \in Nat
    BY DEF PrevIndex, Backtrack

\* The append loop of handle_append_entries returns a log.
LEMMA MergeType ==
    ASSUME NEW E, NEW log \in Seq(E), NEW entries \in Seq(E),
           NEW prevIndex \in Nat, prevIndex <= Len(log)
    PROVE  MergeEntries(log, prevIndex, entries) \in Seq(E)
<1> DEFINE missing == Missing(log, prevIndex, entries)
           k == Min(missing)
<1>1. CASE missing = {}
    BY <1>1 DEF MergeEntries
<1>2. CASE missing # {}
    <2>1. missing \in SUBSET Nat /\ missing \subseteq 1..Len(entries)
        BY DEF Missing
    <2>2. k \in missing /\ \A j \in missing : k <= j
        BY <1>2, <2>1, MinExists
    <2>3. k \in 1..Len(entries)
        BY <2>1, <2>2
    <2>4. prevIndex + k - 1 <= Len(log)
        <3>1. CASE k = 1
            BY <3>1
        <3>2. CASE k > 1
            <4>1. k - 1 \in 1..Len(entries) /\ k - 1 \notin missing
                BY <2>2, <2>3, <3>2
            <4> QED
                BY <4>1 DEF Missing
        <3> QED
            BY <2>3, <3>1, <3>2
    <2> HIDE DEF k, missing
    <2>5. SubSeq(log, 1, prevIndex + k - 1) \in Seq(E)
        <3>1. \A i \in 1..(prevIndex + k - 1) : log[i] \in E
            BY <2>3, <2>4
        <3> QED
            BY <2>3, <3>1, SubSeqProperties
    <2>6. SubSeq(entries, k, Len(entries)) \in Seq(E)
        <3>1. \A i \in k..Len(entries) : entries[i] \in E
            BY <2>3
        <3> QED
            BY <2>3, <3>1, SubSeqProperties
    <2> USE DEF k, missing
    <2> QED
        BY <1>2, <2>5, <2>6, ConcatProperties DEF MergeEntries
<1> QED
    BY <1>1, <1>2

\* What the append loop makes of a log: the log itself when it holds all
\* entries, or the log up to the first entry it lacks, followed by the rest of
\* the entries.
Merged(log, prevIndex, entries, q) ==
    \/ /\ q = log
       /\ \A k \in 1..Len(entries) : /\ prevIndex + k <= Len(log)
                                     /\ log[prevIndex + k].term = entries[k].term
    \/ \E k \in 1..Len(entries) :
          /\ Len(q) = prevIndex + Len(entries)
          /\ prevIndex + k - 1 <= Len(log)
          /\ \A i \in 1..(prevIndex + k - 1) : q[i] = log[i]
          /\ \A i \in (prevIndex + k)..Len(q) : q[i] = entries[i - prevIndex]
          /\ \A j \in 1..(k - 1) : log[prevIndex + j].term = entries[j].term
          /\ prevIndex + k > Len(log) \/ log[prevIndex + k].term # entries[k].term

\* The append loop does that.
LEMMA MergeShape ==
    ASSUME NEW E, NEW log \in Seq(E), NEW entries \in Seq(E),
           NEW prevIndex \in Nat, prevIndex <= Len(log)
    PROVE  Merged(log, prevIndex, entries, MergeEntries(log, prevIndex, entries))
<1> DEFINE missing == Missing(log, prevIndex, entries)
           k == Min(missing)
           a == SubSeq(log, 1, prevIndex + k - 1)
           b == SubSeq(entries, k, Len(entries))
           q == MergeEntries(log, prevIndex, entries)
<1>0. q \in Seq(E) /\ Len(log) \in Nat /\ Len(entries) \in Nat
    BY MergeType
<1>1. CASE missing = {}
    <2>1. q = log
        BY <1>1 DEF MergeEntries
    <2>2. \A j \in 1..Len(entries) : /\ prevIndex + j <= Len(log)
                                     /\ log[prevIndex + j].term = entries[j].term
        <3> TAKE j \in 1..Len(entries)
        <3>1. ~(prevIndex + j > Len(log)) /\ log[prevIndex + j].term = entries[j].term
            BY <1>1 DEF Missing
        <3> QED
            BY <1>0, <3>1
    <2> QED
        BY <2>1, <2>2 DEF Merged
<1>2. CASE missing # {}
    <2>1. missing \in SUBSET Nat /\ missing \subseteq 1..Len(entries)
        BY DEF Missing
    <2>2. k \in missing /\ \A j \in missing : k <= j
        BY <1>2, <2>1, MinExists
    <2>3. k \in 1..Len(entries) /\ k \in Nat /\ k >= 1
        BY <2>1, <2>2
    <2>4. q = a \o b
        BY <1>2 DEF MergeEntries
    <2>5. \A j \in 1..(k - 1) : /\ prevIndex + j <= Len(log)
                                /\ log[prevIndex + j].term = entries[j].term
        <3> TAKE j \in 1..(k - 1)
        <3>1. j \in 1..Len(entries) /\ j \notin missing
            BY <1>0, <2>2, <2>3
        <3> QED
            BY <1>0, <3>1 DEF Missing
    <2>6. \/ prevIndex + k > Len(log)
          \/ log[prevIndex + k].term # entries[k].term
        BY <2>2 DEF Missing
    <2> HIDE DEF k, missing, q
    <2>7. prevIndex + k - 1 <= Len(log) /\ prevIndex + k - 1 \in Nat
        <3>1. CASE k = 1
            BY <1>0, <3>1
        <3>2. CASE k # 1
            <4>1. k - 1 \in 1..(k - 1)
                BY <2>3, <3>2
            <4>2. prevIndex + (k - 1) <= Len(log)
                BY <2>5, <4>1
            <4> QED
                BY <1>0, <2>3, <4>2
        <3> QED
            BY <3>1, <3>2
    <2>8. /\ a \in Seq(E) /\ Len(a) = prevIndex + k - 1
          /\ \A i \in 1..(prevIndex + k - 1) : a[i] = log[i]
        <3>1. \A i \in 1..(prevIndex + k - 1) : log[i] \in E
            BY <1>0, <2>7
        <3> QED
            BY <1>0, <2>7, <3>1, SubSeqProperties
    <2>9. /\ b \in Seq(E) /\ Len(b) = Len(entries) - k + 1
          /\ \A i \in 1..(Len(entries) - k + 1) : b[i] = entries[k + i - 1]
        <3>1. \A i \in k..Len(entries) : entries[i] \in E
            BY <1>0, <2>3
        <3> QED
            BY <1>0, <2>3, <3>1, SubSeqProperties
    <2> HIDE DEF a, b
    <2>10. /\ Len(q) = prevIndex + Len(entries)
           /\ \A i \in 1..(prevIndex + k - 1) : q[i] = log[i]
        <3>1. /\ Len(q) = Len(a) + Len(b)
              /\ \A i \in 1..(Len(a) + Len(b)) :
                    q[i] = IF i <= Len(a) THEN a[i] ELSE b[i - Len(a)]
            BY <2>4, <2>8, <2>9, ConcatProperties
        <3>2. Len(a) + Len(b) = prevIndex + Len(entries) /\ Len(a) \in Nat /\ Len(b) \in Nat
            BY <1>0, <2>3, <2>7, <2>8, <2>9
        <3>3. \A i \in 1..Len(a) : q[i] = a[i]
            BY <3>1, <3>2
        <3> QED
            BY <2>8, <3>1, <3>2, <3>3
    <2>11. ASSUME NEW i \in (prevIndex + k)..Len(q) PROVE q[i] = entries[i - prevIndex]
        <3>1. i \in (Len(a) + 1)..(Len(a) + Len(b))
            BY <1>0, <2>3, <2>7, <2>8, <2>9, <2>10
        <3>2. q[i] = b[i - Len(a)]
            BY <2>4, <2>8, <2>9, <3>1, ConcatProperties
        <3>3. i - Len(a) \in 1..(Len(entries) - k + 1) /\ k + (i - Len(a)) - 1 = i - prevIndex
            BY <1>0, <2>3, <2>7, <2>8, <2>9, <3>1
        <3> QED
            BY <2>9, <3>2, <3>3
    <2> QED
        BY <2>3, <2>5, <2>6, <2>7, <2>10, <2>11 DEF q, Merged
<1> QED
    BY <1>1, <1>2

\* The leader's commit index never goes back and stays inside its log.
LEMMA AdvanceCommitBounds ==
    ASSUME NEW E, NEW log \in Seq(E), NEW commit \in Nat,
           NEW term, NEW match, NEW peers, NEW majority
    PROVE  LET c == AdvanceCommit(log, term, commit, match, peers, majority)
           IN  /\ c \in Nat
               /\ c >= commit
               /\ c > commit => c \in 1..Len(log) /\ log[c].term = term
<1> DEFINE held(i) == Cardinality({p \in peers : match[p] >= i}) + 1
           able == {i \in (commit + 1)..Len(log) :
                        held(i) >= majority /\ log[i].term = term}
<1>1. AdvanceCommit(log, term, commit, match, peers, majority)
        = IF able = {} THEN commit ELSE Max(able)
    BY DEF AdvanceCommit
<1>2. able \subseteq (commit + 1)..Len(log) /\ \A i \in able : log[i].term = term
    OBVIOUS
<1> HIDE DEF able
<1>3. CASE able = {}
    BY <1>1, <1>3
<1>4. CASE able # {}
    <2>1. able \in SUBSET Nat /\ Len(log) \in Nat /\ \A i \in able : i <= Len(log)
        BY <1>2
    <2>2. Max(able) \in able
        BY <1>4, <2>1, MaxExists
    <2>3. /\ Max(able) \in (commit + 1)..Len(log)
          /\ log[Max(able)].term = term
        BY <1>2, <2>2
    <2>4. AdvanceCommit(log, term, commit, match, peers, majority) = Max(able)
        BY <1>1, <1>4
    <2> HIDE DEF held
    <2> QED
        BY <2>1, <2>3, <2>4
<1> QED
    BY <1>3, <1>4

\* Where it advances to, a majority holds the log.
LEMMA AdvanceCommitHeld ==
    ASSUME NEW E, NEW log \in Seq(E), NEW commit \in Nat,
           NEW term, NEW match, NEW peers, NEW majority, NEW c,
           c = AdvanceCommit(log, term, commit, match, peers, majority), c > commit
    PROVE  Cardinality({p \in peers : match[p] >= c}) + 1 >= majority
<1> DEFINE held(i) == Cardinality({p \in peers : match[p] >= i}) + 1
           able == {i \in (commit + 1)..Len(log) :
                        held(i) >= majority /\ log[i].term = term}
<1>1. c = IF able = {} THEN commit ELSE Max(able)
    BY DEF AdvanceCommit
<1>2. able \subseteq (commit + 1)..Len(log) /\ \A i \in able : held(i) >= majority
    OBVIOUS
<1> HIDE DEF able, held
<1>3. able # {}
    BY <1>1
<1>4. able \in SUBSET Nat /\ Len(log) \in Nat /\ \A i \in able : i <= Len(log)
    BY <1>2
<1>5. Max(able) \in able
    BY <1>3, <1>4, MaxExists
<1> QED
    BY <1>1, <1>2, <1>3, <1>5 DEF held

-----------------------------------------------------------------------------
(* Types of the parts.                                                      *)

\* The fields a message of each type has.
LEMMA RpcFields ==
    ASSUME NEW m \in Rpc
    PROVE  /\ m.src \in Node /\ m.dst \in Node /\ m.term \in Nat
           /\ m.type \in {"vote", "voted", "append", "appended"}
           /\ m.type = "vote" => m \in VoteRequests
           /\ m.type = "voted" => m \in VoteReplies
           /\ m.type = "append" => m \in AppendRequests
           /\ m.type = "appended" => m \in AppendReplies
    BY DEF Rpc, VoteRequests, VoteReplies, AppendRequests, AppendReplies

\* What is in flight after a handler is what was, or what it sent.
LEMMA TransmitType ==
    ASSUME NEW handled, NEW sent, rpcs \subseteq Rpc, sent \subseteq Rpc,
           Transmit(handled, sent)
    PROVE  rpcs' \subseteq Rpc
    BY DEF Transmit

\* set_term_and_persist keeps the record well formed.
LEMMA WithTermType ==
    ASSUME NEW p \in Persistent, NEW t \in Nat
    PROVE  /\ WithTerm(p, t) \in Persistent
           /\ WithTerm(p, t).term = t
           /\ WithTerm(p, t).log = p.log
    BY DEF WithTerm, Persistent

\* The members of a persistent record.
LEMMA PersistentFields ==
    ASSUME NEW p \in Persistent
    PROVE  p.term \in Nat /\ p.vote \in Node \cup {None} /\ p.log \in Seq(Entry)
    BY DEF Persistent

\* So does become_candidate.
LEMMA CampaignType ==
    ASSUME NEW r \in Persistent, NEW n \in Node
    PROVE  /\ Campaign(r, n) \in Persistent
           /\ Campaign(r, n).term = r.term + 1
           /\ Campaign(r, n).vote = n
           /\ Campaign(r, n).log = r.log
<1> DEFINE t == r.term + 1
           p == [r EXCEPT !.term = t, !.vote = n]
<1>1. t \in Nat
    BY PersistentFields
<1>2. Campaign(r, n) = p
    BY Zenon DEF Campaign
<1> HIDE DEF t
<1>3. p \in Persistent /\ p.term = t /\ p.vote = n /\ p.log = r.log
    BY <1>1 DEF Persistent
<1> QED
    BY <1>2, <1>3, Zenon DEF t

\* The last index and term of a log, the term at an index and the hint of a
\* rejection are natural numbers.
LEMMA LastTypes ==
    ASSUME NEW log \in Seq(Entry), NEW i \in Nat
    PROVE  /\ LastIndex(log) \in Nat
           /\ LastTerm(log) \in Nat
           /\ TermAt(log, i) \in Nat
           /\ ConflictIndex(log, i) \in Nat
<1>1. Len(log) \in Nat /\ \A j \in 1..Len(log) : log[j].term \in Nat
    <2>1. Len(log) \in Nat /\ \A j \in 1..Len(log) : log[j] \in Entry
        OBVIOUS
    <2>2. \A e \in Entry : e.term \in Nat
        BY DEF Entry
    <2> QED
        BY <2>1, <2>2
<1>2. LastIndex(log) \in Nat
    BY <1>1 DEF LastIndex
<1>3. LastTerm(log) \in Nat
    <2>1. CASE log = <<>>
        BY <2>1 DEF LastTerm
    <2>2. CASE log # <<>>
        <3>1. Len(log) \in 1..Len(log)
            BY <2>2
        <3> QED
            BY <1>1, <2>2, <3>1 DEF LastTerm
    <2> QED
        BY <2>1, <2>2
<1>4. TermAt(log, i) \in Nat
    BY <1>1 DEF TermAt
<1>5. ConflictIndex(log, i) \in Nat
    BY <1>1 DEF ConflictIndex, LastIndex
<1> QED
    BY <1>2, <1>3, <1>4, <1>5

\* Storing a record of the right type keeps memory and disk well typed.
LEMMA KeepType ==
    ASSUME NEW n \in Node, NEW p \in Persistent,
           persistent \in [Node -> Persistent], Keep(n, p)
    PROVE  persistent' \in [Node -> Persistent] /\ persistent'[n] = p
    BY DEF Keep

\* The same for the file.
LEMMA SaveType ==
    ASSUME NEW n \in Node, NEW p \in Persistent,
           disk \in [Node -> Persistent], Save(n, p)
    PROVE  disk' \in [Node -> Persistent] /\ disk'[n] = p
    BY DEF Save

\* become_follower keeps the role, leader and votes well typed.
LEMMA BecomeFollowerType ==
    ASSUME TypeOK, NEW n \in Node, NEW l \in Node \cup {None}, BecomeFollower(n, l)
    PROVE  /\ role' \in [Node -> {"follower", "candidate", "leader"}]
           /\ leaderId' \in [Node -> Node \cup {None}]
           /\ votesReceived' \in [Node -> SUBSET Node]
    BY DEF TypeOK, BecomeFollower

\* So does recognising the sender of an AppendEntries.
LEMMA FollowType ==
    ASSUME TypeOK, NEW n \in Node, NEW m, m.src \in Node, Follow(n, m)
    PROVE  /\ role' \in [Node -> {"follower", "candidate", "leader"}]
           /\ leaderId' \in [Node -> Node \cup {None}]
           /\ votesReceived' \in [Node -> SUBSET Node]
    BY DEF TypeOK, Follow

\* Every commit index was observed when it was set.
CommitObserved == \A n \in Node : commitIndex[n] <= Len(decided)

\* The history takes a longer committed prefix, or stays.
LEMMA ObserveType ==
    ASSUME TypeOK, NEW log \in Seq(Entry), NEW c \in Nat,
           c <= Len(log) \/ c <= Len(decided), Observe(log, c)
    PROVE  /\ decided' \in Seq(Entry)
           /\ Len(decided') >= Len(decided)
           /\ Len(decided') >= c
<1>1. Len(decided) \in Nat /\ Len(log) \in Nat /\ decided \in Seq(Entry)
    BY DEF TypeOK
<1>2. CASE c > Len(decided)
    <2>1. c <= Len(log)
        BY <1>1, <1>2
    <2>2. \A i \in 1..c : log[i] \in Entry
        BY <2>1
    <2>3. SubSeq(log, 1, c) \in Seq(Entry) /\ Len(SubSeq(log, 1, c)) = c
        BY <1>1, <1>2, <2>2, SubSeqProperties
    <2> QED
        BY <1>1, <1>2, <2>3 DEF Observe
<1>3. CASE ~(c > Len(decided))
    BY <1>1, <1>3 DEF Observe
<1> QED
    BY <1>2, <1>3

\* The commit index of a follower stays natural and inside what it has seen.
LEMMA FollowerCommitType ==
    ASSUME NEW log \in Seq(Entry), NEW commit \in Nat, NEW leaderCommit \in Nat
    PROVE  /\ FollowerCommit(log, commit, leaderCommit) \in Nat
           /\ \/ FollowerCommit(log, commit, leaderCommit) = commit
              \/ FollowerCommit(log, commit, leaderCommit) <= Len(log)
    BY DEF FollowerCommit, LastIndex

-----------------------------------------------------------------------------
(* Type correctness.                                                        *)

TypeInv == TypeOK /\ CommitObserved

\* load_or_init without a file leaves well-typed state.
LEMMA TypeInit == Init => TypeInv
<1> SUFFICES ASSUME Init PROVE TypeInv
    OBVIOUS
<1>1. [term |-> 0, vote |-> None, log |-> <<>>] \in Persistent
    BY DEF Persistent
<1>2. TypeOK
    BY <1>1 DEF Init, TypeOK
<1>3. CommitObserved
    BY DEF Init, CommitObserved
<1> QED
    BY <1>2, <1>3 DEF TypeInv

\* The types survive become_candidate and its RequestVotes (StartElection).
LEMMA TypeStartElection ==
    ASSUME TypeInv, NEW n \in Node, StartElection(n)
    PROVE  TypeInv'
<1> DEFINE p == Campaign(persistent[n], n)
<1>0. TypeOK /\ CommitObserved
    BY DEF TypeInv
<1>1. p \in Persistent /\ p.term \in Nat /\ p.log \in Seq(Entry)
    <2>1. persistent[n] \in Persistent
        BY <1>0 DEF TypeOK
    <2> QED
        BY <2>1, CampaignType, PersistentFields
<1>2. Keep(n, p) /\ Save(n, p)
    BY DEF StartElection
<1> HIDE DEF p
<1>3. persistent' \in [Node -> Persistent] /\ persistent'[n] = p
    BY <1>0, <1>1, <1>2, KeepType DEF TypeOK
<1>4. disk' \in [Node -> Persistent]
    BY <1>0, <1>1, <1>2, SaveType DEF TypeOK
<1>5. {VoteRequest(n, q) : q \in Peers(n)} \subseteq Rpc
    <2> SUFFICES ASSUME NEW q \in Peers(n) PROVE VoteRequest(n, q) \in VoteRequests
        BY DEF Rpc
    <2>1. /\ persistent'[n].term \in Nat
          /\ LastIndex(persistent'[n].log) \in Nat
          /\ LastTerm(persistent'[n].log) \in Nat
        BY <1>1, <1>3, LastTypes
    <2>2. q \in Node
        BY DEF Peers
    <2> QED
        BY <2>1, <2>2 DEF VoteRequest, VoteRequests
<1>6. rpcs' \subseteq Rpc
    BY <1>0, <1>5, TransmitType DEF StartElection, TypeOK
<1>7. grants' \subseteq Node \X Nat \X Node
    BY <1>0, <1>1 DEF StartElection, TypeOK, p
<1>8. /\ role' \in [Node -> {"follower", "candidate", "leader"}]
      /\ leaderId' \in [Node -> Node \cup {None}]
      /\ votesReceived' \in [Node -> SUBSET Node]
    BY <1>0 DEF StartElection, TypeOK
<1>9. UNCHANGED <<commitIndex, lastApplied, nextIndex, matchIndex, driver,
                  crashes, faults, elected, decided>>
    BY DEF StartElection, bounds
<1> QED
    BY <1>0, <1>3, <1>4, <1>6, <1>7, <1>8, <1>9 DEF TypeInv, TypeOK, CommitObserved

\* The types survive become_candidate whose write fails (StartElectionFails).
LEMMA TypeStartElectionFails ==
    ASSUME TypeInv, NEW n \in Node, StartElectionFails(n)
    PROVE  TypeInv'
<1> DEFINE p == Campaign(persistent[n], n)
<1>0. TypeOK /\ CommitObserved
    BY DEF TypeInv
<1>1. p \in Persistent
    <2>1. persistent[n] \in Persistent
        BY <1>0 DEF TypeOK
    <2> QED
        BY <2>1, CampaignType, PersistentFields
<1>2. Keep(n, p)
    BY DEF StartElectionFails
<1> HIDE DEF p
<1>3. persistent' \in [Node -> Persistent]
    BY <1>0, <1>1, <1>2, KeepType DEF TypeOK
<1>4. /\ role' \in [Node -> {"follower", "candidate", "leader"}]
      /\ leaderId' \in [Node -> Node \cup {None}]
      /\ driver' \in [Node -> BOOLEAN]
      /\ faults' \in Nat
    BY <1>0 DEF StartElectionFails, TypeOK
<1>5. UNCHANGED <<disk, votesReceived, commitIndex, lastApplied, nextIndex,
                  matchIndex, rpcs, crashes, grants, elected, decided>>
    BY DEF StartElectionFails, history
<1> QED
    BY <1>0, <1>3, <1>4, <1>5 DEF TypeInv, TypeOK, CommitObserved

\* The types survive a leader's tick (Heartbeat).
LEMMA TypeHeartbeat ==
    ASSUME TypeInv, NEW n \in Node, Heartbeat(n)
    PROVE  TypeInv'
<1>0. TypeOK /\ CommitObserved
    BY DEF TypeInv
<1>1. {AppendRequest(n, p) : p \in Peers(n)} \subseteq Rpc
    <2> SUFFICES ASSUME NEW p \in Peers(n) PROVE AppendRequest(n, p) \in AppendRequests
        BY DEF Rpc
    <2> DEFINE log == persistent[n].log
               next == nextIndex[n][p]
    <2>1. p \in Node
        BY DEF Peers
    <2>2. log \in Seq(Entry) /\ persistent[n].term \in Nat
        BY <1>0, PersistentFields DEF TypeOK
    <2>3. next \in Nat /\ commitIndex[n] \in Nat
        BY <1>0, <2>1 DEF TypeOK
    <2> HIDE DEF log, next
    <2>4. PrevIndex(next) \in Nat
        BY <2>3, IndexTypes
    <2>5. TermAt(log, PrevIndex(next)) \in Nat
        BY <2>2, <2>4, LastTypes
    <2>6. Suffix(log, next) \in Seq(Entry)
        BY <2>2, <2>3, SuffixType
    <2> QED
        BY <2>1, <2>2, <2>3, <2>4, <2>5, <2>6 DEF AppendRequest, AppendRequests, log, next
<1>2. rpcs' \subseteq Rpc
    BY <1>0, <1>1, TransmitType DEF Heartbeat, TypeOK
<1>3. UNCHANGED <<durable, volatile, bounds, history>>
    BY DEF Heartbeat
<1> QED
    BY <1>0, <1>2, <1>3 DEF TypeInv, TypeOK, CommitObserved, durable, volatile,
                            bounds, history

\* The answer to a request is a message, and so is what is in flight after it.
LEMMA AnswerType ==
    ASSUME NEW m, NEW reply \in Rpc, rpcs \subseteq Rpc, Answer(m, reply)
    PROVE  rpcs' \subseteq Rpc
<1> DEFINE sent == IF m.open THEN {reply} ELSE {}
<1>1. sent \subseteq Rpc
    OBVIOUS
<1>2. Transmit({m}, sent)
    BY DEF Answer
<1> QED
    BY <1>1, <1>2, TransmitType

\* The replies to a request are messages.
LEMMA ReplyTypes ==
    ASSUME NEW m \in Rpc, NEW t \in Nat, NEW ok \in BOOLEAN, NEW c \in Nat
    PROVE  /\ VoteReply(m, t, ok) \in Rpc
           /\ m.type = "append" => AppendReply(m, t, ok, c) \in Rpc
<1>1. m.src \in Node /\ m.dst \in Node
    BY RpcFields
<1>2. VoteReply(m, t, ok) \in VoteReplies
    BY <1>1 DEF VoteReply, VoteReplies
<1>3. ASSUME m.type = "append" PROVE AppendReply(m, t, ok, c) \in AppendReplies
    <2>1. m \in AppendRequests
        BY <1>3, RpcFields
    <2>2. m.prevIndex \in Nat /\ m.entries \in Seq(Entry)
        BY <2>1 DEF AppendRequests
    <2>3. Len(m.entries) \in Nat
        BY <2>2
    <2> QED
        BY <1>1, <2>2, <2>3 DEF AppendReply, AppendReplies
<1> QED
    BY <1>2, <1>3 DEF Rpc

\* The types survive refusing a stale RequestVote (RejectStaleVote).
LEMMA TypeRejectStaleVote ==
    ASSUME TypeInv, NEW n \in Node, NEW m \in rpcs, RejectStaleVote(n, m)
    PROVE  TypeInv'
<1>0. TypeOK /\ CommitObserved /\ m \in Rpc
    BY DEF TypeInv, TypeOK
<1>1. persistent[n].term \in Nat
    BY <1>0, PersistentFields DEF TypeOK
<1>2. VoteReply(m, persistent[n].term, FALSE) \in Rpc
    BY <1>0, <1>1, ReplyTypes
<1>3. rpcs' \subseteq Rpc
    BY <1>0, <1>2, AnswerType DEF RejectStaleVote, TypeOK
<1>4. UNCHANGED <<durable, volatile, bounds, history>>
    BY DEF RejectStaleVote
<1> QED
    BY <1>0, <1>3, <1>4 DEF TypeInv, TypeOK, CommitObserved, durable, volatile,
                            bounds, history

\* The types survive deciding a vote (HandleRequestVote).
LEMMA TypeHandleRequestVote ==
    ASSUME TypeInv, NEW n \in Node, NEW m \in rpcs, HandleRequestVote(n, m)
    PROVE  TypeInv'
<1> DEFINE p == WithTerm(persistent[n], m.term)
           granted == /\ CanVoteFor(p, m.src)
                      /\ UpToDate(m.lastTerm, m.lastIndex, p.log)
           q == IF granted THEN [p EXCEPT !.vote = m.src] ELSE p
<1>0. TypeOK /\ CommitObserved /\ m \in Rpc
    BY DEF TypeInv, TypeOK
<1>1. m.src \in Node /\ m.term \in Nat
    BY <1>0, RpcFields
<1>2. p \in Persistent
    BY <1>0, <1>1, WithTermType DEF TypeOK
<1>3. granted \in BOOLEAN
    BY DEF CanVoteFor, UpToDate
<1>4. q \in Persistent
    BY <1>1, <1>2 DEF Persistent
<1>5. /\ Keep(n, q)
      /\ Save(n, q) \/ UNCHANGED disk
      /\ Answer(m, VoteReply(m, q.term, granted))
      /\ BecomeFollower(n, None) \/ UNCHANGED <<role, leaderId, votesReceived>>
      /\ grants' = IF granted THEN grants \cup {<<n, q.term, m.src>>} ELSE grants
      /\ UNCHANGED <<commitIndex, lastApplied, nextIndex, matchIndex, driver,
                     crashes, faults, elected, decided>>
    BY DEF HandleRequestVote, bounds
<1> HIDE DEF q, granted, p
<1>6. q.term \in Nat
    BY <1>4, PersistentFields
<1>7. persistent' \in [Node -> Persistent]
    BY <1>0, <1>4, <1>5, KeepType DEF TypeOK
<1>8. disk' \in [Node -> Persistent]
    BY <1>0, <1>4, <1>5, SaveType DEF TypeOK
<1>9. rpcs' \subseteq Rpc
    <2>1. VoteReply(m, q.term, granted) \in Rpc
        BY <1>0, <1>3, <1>6, ReplyTypes
    <2> QED
        BY <1>0, <1>5, <2>1, AnswerType DEF TypeOK
<1>10. /\ role' \in [Node -> {"follower", "candidate", "leader"}]
       /\ leaderId' \in [Node -> Node \cup {None}]
       /\ votesReceived' \in [Node -> SUBSET Node]
    BY <1>0, <1>5, BecomeFollowerType DEF TypeOK
<1>11. grants' \subseteq Node \X Nat \X Node
    <2>1. <<n, q.term, m.src>> \in Node \X Nat \X Node
        BY <1>1, <1>6
    <2>2. grants' \subseteq grants \cup {<<n, q.term, m.src>>}
        BY <1>5
    <2> QED
        BY <1>0, <2>1, <2>2 DEF TypeOK
<1> QED
    BY <1>0, <1>5, <1>7, <1>8, <1>9, <1>10, <1>11 DEF TypeInv, TypeOK, CommitObserved

\* The types survive a vote whose write fails (RecordVoteFails).
LEMMA TypeRecordVoteFails ==
    ASSUME TypeInv, NEW n \in Node, NEW m \in rpcs, RecordVoteFails(n, m)
    PROVE  TypeInv'
<1> DEFINE p == WithTerm(persistent[n], m.term)
           q == [p EXCEPT !.vote = m.src]
<1>0. TypeOK /\ CommitObserved /\ m \in Rpc
    BY DEF TypeInv, TypeOK
<1>1. m.src \in Node /\ m.term \in Nat
    BY <1>0, RpcFields
<1>2. p \in Persistent
    BY <1>0, <1>1, WithTermType DEF TypeOK
<1>3. q \in Persistent
    BY <1>1, <1>2 DEF Persistent
<1>4. /\ Keep(n, q)
      /\ Save(n, p) \/ UNCHANGED disk
      /\ BecomeFollower(n, None) \/ UNCHANGED <<role, leaderId, votesReceived>>
      /\ faults' = faults + 1
      /\ rpcs' = rpcs \ {m}
      /\ UNCHANGED <<commitIndex, lastApplied, nextIndex, matchIndex, driver,
                     crashes, grants, elected, decided>>
    BY DEF RecordVoteFails, history
<1> HIDE DEF q, p
<1>5. persistent' \in [Node -> Persistent]
    BY <1>0, <1>3, <1>4, KeepType DEF TypeOK
<1>6. disk' \in [Node -> Persistent]
    BY <1>0, <1>2, <1>4, SaveType DEF TypeOK
<1>7. /\ role' \in [Node -> {"follower", "candidate", "leader"}]
      /\ leaderId' \in [Node -> Node \cup {None}]
      /\ votesReceived' \in [Node -> SUBSET Node]
    BY <1>0, <1>4, BecomeFollowerType DEF TypeOK
<1>8. faults' \in Nat /\ rpcs' \subseteq Rpc
    BY <1>0, <1>4 DEF TypeOK
<1> QED
    BY <1>0, <1>4, <1>5, <1>6, <1>7, <1>8 DEF TypeInv, TypeOK, CommitObserved

\* The types survive refusing a stale AppendEntries (RejectStaleAppend).
LEMMA TypeRejectStaleAppend ==
    ASSUME TypeInv, NEW n \in Node, NEW m \in rpcs, RejectStaleAppend(n, m)
    PROVE  TypeInv'
<1>0. TypeOK /\ CommitObserved /\ m \in Rpc /\ m.type = "append"
    BY DEF TypeInv, TypeOK, RejectStaleAppend, Received
<1>1. persistent[n].term \in Nat
    BY <1>0, PersistentFields DEF TypeOK
<1>2. AppendReply(m, persistent[n].term, FALSE, 0) \in Rpc
    BY <1>0, <1>1, ReplyTypes
<1>3. rpcs' \subseteq Rpc
    BY <1>0, <1>2, AnswerType DEF RejectStaleAppend, TypeOK
<1>4. UNCHANGED <<durable, volatile, bounds, history>>
    BY DEF RejectStaleAppend
<1> QED
    BY <1>0, <1>3, <1>4 DEF TypeInv, TypeOK, CommitObserved, durable, volatile,
                            bounds, history

\* The types survive a failed prev-log check (RejectMismatchedAppend).
LEMMA TypeRejectMismatchedAppend ==
    ASSUME TypeInv, NEW n \in Node, NEW m \in rpcs, RejectMismatchedAppend(n, m)
    PROVE  TypeInv'
<1> DEFINE p == WithTerm(persistent[n], m.term)
           reply == AppendReply(m, p.term, FALSE, ConflictIndex(p.log, m.prevIndex))
<1>0. TypeOK /\ CommitObserved /\ m \in Rpc /\ m.type = "append"
    BY DEF TypeInv, TypeOK, RejectMismatchedAppend, Received
<1>1. m.src \in Node /\ m.term \in Nat /\ m \in AppendRequests
    BY <1>0, RpcFields
<1>2. p \in Persistent
    BY <1>0, <1>1, WithTermType DEF TypeOK
<1>3. /\ Keep(n, p)
      /\ Save(n, p) \/ UNCHANGED disk
      /\ Follow(n, m)
      /\ Answer(m, reply)
      /\ UNCHANGED <<commitIndex, lastApplied, nextIndex, matchIndex, driver,
                     crashes, faults, grants, elected, decided>>
    BY DEF RejectMismatchedAppend, bounds, history
<1>4. reply \in Rpc
    <2>1. m.prevIndex \in Nat
        BY <1>1 DEF AppendRequests
    <2>2. p.term \in Nat /\ p.log \in Seq(Entry)
        BY <1>2, PersistentFields
    <2>3. ConflictIndex(p.log, m.prevIndex) \in Nat
        BY <2>1, <2>2, LastTypes
    <2> QED
        BY <1>0, <2>2, <2>3, ReplyTypes
<1> HIDE DEF p, reply
<1>5. persistent' \in [Node -> Persistent]
    BY <1>0, <1>2, <1>3, KeepType DEF TypeOK
<1>6. disk' \in [Node -> Persistent]
    BY <1>0, <1>2, <1>3, SaveType DEF TypeOK
<1>7. /\ role' \in [Node -> {"follower", "candidate", "leader"}]
      /\ leaderId' \in [Node -> Node \cup {None}]
      /\ votesReceived' \in [Node -> SUBSET Node]
    BY <1>0, <1>1, <1>3, FollowType
<1>8. rpcs' \subseteq Rpc
    BY <1>0, <1>3, <1>4, AnswerType DEF TypeOK
<1> QED
    BY <1>0, <1>3, <1>5, <1>6, <1>7, <1>8 DEF TypeInv, TypeOK, CommitObserved

\* What the append loop leaves is a well-formed record.
LEMMA MergedType ==
    ASSUME NEW p \in Persistent, NEW m \in AppendRequests,
           PrevMatches(p.log, m.prevIndex, m.prevTerm)
    PROVE  LET q == [p EXCEPT !.log = MergeEntries(p.log, m.prevIndex, m.entries)]
           IN  /\ q \in Persistent
               /\ q.term = p.term /\ q.vote = p.vote
               /\ q.log = MergeEntries(p.log, m.prevIndex, m.entries)
<1> DEFINE log == MergeEntries(p.log, m.prevIndex, m.entries)
<1>1. p.log \in Seq(Entry)
    BY PersistentFields
<1>2. m.prevIndex \in Nat /\ m.entries \in Seq(Entry)
    BY DEF AppendRequests
<1>3. m.prevIndex <= Len(p.log)
    BY <1>1, <1>2 DEF PrevMatches
<1>4. log \in Seq(Entry)
    BY <1>1, <1>2, <1>3, MergeType
<1> HIDE DEF log
<1>5. LET q == [p EXCEPT !.log = log]
      IN  q \in Persistent /\ q.term = p.term /\ q.vote = p.vote /\ q.log = log
    BY <1>4 DEF Persistent
<1> QED
    BY <1>5, Zenon DEF log

\* The types survive merging a leader's entries (AcceptAppend).
LEMMA TypeAcceptAppend ==
    ASSUME TypeInv, NEW n \in Node, NEW m \in rpcs, AcceptAppend(n, m)
    PROVE  TypeInv'
<1> DEFINE p == WithTerm(persistent[n], m.term)
           q == [p EXCEPT !.log = MergeEntries(p.log, m.prevIndex, m.entries)]
           c == FollowerCommit(q.log, commitIndex[n], m.commit)
           reply == AppendReply(m, q.term, TRUE, 0)
<1>0. TypeOK /\ CommitObserved /\ m \in Rpc /\ m.type = "append"
    BY DEF TypeInv, TypeOK, AcceptAppend, Received
<1>1. m.src \in Node /\ m.term \in Nat /\ m \in AppendRequests /\ m.commit \in Nat
    <2>1. m.src \in Node /\ m.term \in Nat /\ m \in AppendRequests
        BY <1>0, RpcFields
    <2> QED
        BY <2>1 DEF AppendRequests
<1>2. p \in Persistent
    BY <1>0, <1>1, WithTermType DEF TypeOK
<1>3. /\ PrevMatches(p.log, m.prevIndex, m.prevTerm)
      /\ Keep(n, q)
      /\ Save(n, q) \/ UNCHANGED disk
      /\ Follow(n, m)
      /\ commitIndex' = [commitIndex EXCEPT ![n] = c]
      /\ Observe(q.log, c)
      /\ Answer(m, reply)
      /\ UNCHANGED <<lastApplied, nextIndex, matchIndex, driver, crashes, faults,
                     grants, elected>>
    BY DEF AcceptAppend, bounds
<1>4. q \in Persistent
    <2> HIDE DEF p
    <2> QED
        BY <1>1, <1>2, <1>3, MergedType
<1> HIDE DEF p, q
<1>5. q.term \in Nat /\ q.log \in Seq(Entry) /\ commitIndex[n] \in Nat
    BY <1>0, <1>4, PersistentFields DEF TypeOK
<1>6. c \in Nat /\ (c = commitIndex[n] \/ c <= Len(q.log))
    BY <1>1, <1>5, FollowerCommitType
<1>7. c <= Len(q.log) \/ c <= Len(decided)
    BY <1>0, <1>6 DEF CommitObserved
<1>8. reply \in Rpc
    BY <1>0, <1>5, ReplyTypes
<1> HIDE DEF c, reply
<1>9. /\ decided' \in Seq(Entry)
      /\ Len(decided') >= Len(decided)
      /\ Len(decided') >= c
    BY <1>0, <1>3, <1>5, <1>6, <1>7, ObserveType
<1>10. persistent' \in [Node -> Persistent]
    BY <1>0, <1>4, <1>3, KeepType DEF TypeOK
<1>11. disk' \in [Node -> Persistent]
    BY <1>0, <1>4, <1>3, SaveType DEF TypeOK
<1>12. /\ role' \in [Node -> {"follower", "candidate", "leader"}]
       /\ leaderId' \in [Node -> Node \cup {None}]
       /\ votesReceived' \in [Node -> SUBSET Node]
    BY <1>0, <1>1, <1>3, FollowType
<1>13. rpcs' \subseteq Rpc
    BY <1>0, <1>3, <1>8, AnswerType DEF TypeOK
<1>14. commitIndex' \in [Node -> Nat]
    BY <1>0, <1>3, <1>6 DEF TypeOK
<1>15. TypeOK'
    BY <1>0, <1>3, <1>9, <1>10, <1>11, <1>12, <1>13, <1>14 DEF TypeOK
<1>16. CommitObserved'
    <2> SUFFICES ASSUME NEW o \in Node PROVE commitIndex'[o] <= Len(decided')
        BY DEF CommitObserved
    <2>1. Len(decided) \in Nat /\ Len(decided') \in Nat /\ commitIndex[o] \in Nat
        BY <1>0, <1>9 DEF TypeOK
    <2>2. commitIndex'[o] = IF o = n THEN c ELSE commitIndex[o]
        BY <1>0, <1>3 DEF TypeOK
    <2>3. commitIndex[o] <= Len(decided)
        BY <1>0 DEF CommitObserved
    <2> QED
        BY <1>6, <1>9, <2>1, <2>2, <2>3
<1> QED
    BY <1>15, <1>16 DEF TypeInv

\* The types survive a merge whose write fails (AppendSaveFails).
LEMMA TypeAppendSaveFails ==
    ASSUME TypeInv, NEW n \in Node, NEW m \in rpcs, AppendSaveFails(n, m)
    PROVE  TypeInv'
<1> DEFINE p == WithTerm(persistent[n], m.term)
           q == [p EXCEPT !.log = MergeEntries(p.log, m.prevIndex, m.entries)]
<1>0. TypeOK /\ CommitObserved /\ m \in Rpc /\ m.type = "append"
    BY DEF TypeInv, TypeOK, AppendSaveFails, Received
<1>1. m.src \in Node /\ m.term \in Nat /\ m \in AppendRequests
    BY <1>0, RpcFields
<1>2. p \in Persistent
    BY <1>0, <1>1, WithTermType DEF TypeOK
<1>3. /\ PrevMatches(p.log, m.prevIndex, m.prevTerm)
      /\ Keep(n, q)
      /\ Save(n, p) \/ UNCHANGED disk
      /\ Follow(n, m)
      /\ faults' = faults + 1
      /\ rpcs' = rpcs \ {m}
      /\ UNCHANGED <<commitIndex, lastApplied, nextIndex, matchIndex, driver,
                     crashes, grants, elected, decided>>
    BY DEF AppendSaveFails, history
<1>4. q \in Persistent
    <2> HIDE DEF p
    <2> QED
        BY <1>1, <1>2, <1>3, MergedType
<1> HIDE DEF p, q
<1>5. persistent' \in [Node -> Persistent]
    BY <1>0, <1>4, <1>3, KeepType DEF TypeOK
<1>6. disk' \in [Node -> Persistent]
    BY <1>0, <1>2, <1>3, SaveType DEF TypeOK
<1>7. /\ role' \in [Node -> {"follower", "candidate", "leader"}]
      /\ leaderId' \in [Node -> Node \cup {None}]
      /\ votesReceived' \in [Node -> SUBSET Node]
    BY <1>0, <1>1, <1>3, FollowType
<1>8. faults' \in Nat /\ rpcs' \subseteq Rpc
    BY <1>0, <1>3 DEF TypeOK
<1> QED
    BY <1>0, <1>3, <1>5, <1>6, <1>7, <1>8 DEF TypeInv, TypeOK, CommitObserved

\* The types survive a reply of a higher term (StepDownOnReply).
LEMMA TypeStepDownOnReply ==
    ASSUME TypeInv, NEW n \in Node, NEW m \in rpcs, StepDownOnReply(n, m)
    PROVE  TypeInv'
<1> DEFINE p == WithTerm(persistent[n], m.term)
<1>0. TypeOK /\ CommitObserved /\ m \in Rpc
    BY DEF TypeInv, TypeOK
<1>1. m.term \in Nat
    BY <1>0, RpcFields
<1>2. p \in Persistent
    BY <1>0, <1>1, WithTermType DEF TypeOK
<1>3. /\ Keep(n, p) /\ Save(n, p)
      /\ BecomeFollower(n, None)
      /\ rpcs' = rpcs \ {m}
      /\ UNCHANGED <<commitIndex, lastApplied, nextIndex, matchIndex, driver,
                     crashes, faults, grants, elected, decided>>
    BY DEF StepDownOnReply, bounds, history
<1> HIDE DEF p
<1>4. persistent' \in [Node -> Persistent]
    BY <1>0, <1>2, <1>3, KeepType DEF TypeOK
<1>5. disk' \in [Node -> Persistent]
    BY <1>0, <1>2, <1>3, SaveType DEF TypeOK
<1>6. /\ role' \in [Node -> {"follower", "candidate", "leader"}]
      /\ leaderId' \in [Node -> Node \cup {None}]
      /\ votesReceived' \in [Node -> SUBSET Node]
    BY <1>0, <1>3, BecomeFollowerType
<1>7. rpcs' \subseteq Rpc
    BY <1>0, <1>3 DEF TypeOK
<1> QED
    BY <1>0, <1>3, <1>4, <1>5, <1>6, <1>7 DEF TypeInv, TypeOK, CommitObserved

\* The types survive a step down whose write fails (StepDownFails).
LEMMA TypeStepDownFails ==
    ASSUME TypeInv, NEW n \in Node, NEW m \in rpcs, StepDownFails(n, m)
    PROVE  TypeInv'
<1> DEFINE p == WithTerm(persistent[n], m.term)
           l == IF m.type = "append" THEN m.src ELSE None
<1>0. TypeOK /\ CommitObserved /\ m \in Rpc
    BY DEF TypeInv, TypeOK
<1>1. m.term \in Nat /\ l \in Node \cup {None}
    BY <1>0, RpcFields
<1>2. p \in Persistent
    BY <1>0, <1>1, WithTermType DEF TypeOK
<1>3. /\ Keep(n, p)
      /\ BecomeFollower(n, l)
      /\ faults' = faults + 1
      /\ rpcs' = rpcs \ {m}
      /\ UNCHANGED <<disk, commitIndex, lastApplied, nextIndex, matchIndex, driver,
                     crashes, grants, elected, decided>>
    BY DEF StepDownFails, history
<1> HIDE DEF p, l
<1>4. persistent' \in [Node -> Persistent]
    BY <1>0, <1>2, <1>3, KeepType DEF TypeOK
<1>5. /\ role' \in [Node -> {"follower", "candidate", "leader"}]
      /\ leaderId' \in [Node -> Node \cup {None}]
      /\ votesReceived' \in [Node -> SUBSET Node]
    BY <1>0, <1>1, <1>3, BecomeFollowerType
<1>6. faults' \in Nat /\ rpcs' \subseteq Rpc
    BY <1>0, <1>3 DEF TypeOK
<1> QED
    BY <1>0, <1>3, <1>4, <1>5, <1>6 DEF TypeInv, TypeOK, CommitObserved

\* The types survive counting a vote (CountVote).
LEMMA TypeCountVote ==
    ASSUME TypeInv, NEW n \in Node, NEW m \in rpcs, CountVote(n, m)
    PROVE  TypeInv'
<1>0. TypeOK /\ CommitObserved /\ m \in Rpc
    BY DEF TypeInv, TypeOK
<1>1. /\ m.src \in Node
      /\ persistent[n].term \in Nat
      /\ LastIndex(persistent[n].log) + 1 \in Nat
    <2>1. m.src \in Node
        BY <1>0, RpcFields
    <2>2. persistent[n].term \in Nat /\ persistent[n].log \in Seq(Entry)
        BY <1>0, PersistentFields DEF TypeOK
    <2> QED
        BY <2>1, <2>2 DEF LastIndex
<1>2. votesReceived' \in [Node -> SUBSET Node] /\ rpcs' \subseteq Rpc
    BY <1>0, <1>1 DEF CountVote, TypeOK
<1>3. UNCHANGED <<persistent, disk, commitIndex, lastApplied, driver, crashes, faults,
                  grants, decided>>
    BY DEF CountVote, durable, bounds
<1>4. /\ role' \in [Node -> {"follower", "candidate", "leader"}]
      /\ leaderId' \in [Node -> Node \cup {None}]
      /\ nextIndex' \in [Node -> [Node -> Nat]]
      /\ matchIndex' \in [Node -> [Node -> Nat]]
      /\ elected' \subseteq Nat \X Node
    <2>1. CASE BecomeLeader(n)
        <3> DEFINE next == LastIndex(persistent[n].log) + 1
        <3>1. role' \in [Node -> {"follower", "candidate", "leader"}]
            BY <1>0, <2>1 DEF BecomeLeader, TypeOK
        <3>2. leaderId' \in [Node -> Node \cup {None}]
            BY <1>0, <2>1 DEF BecomeLeader, TypeOK
        <3>3. nextIndex' = [nextIndex EXCEPT ![n] = [p \in Node |-> next]]
            BY <2>1 DEF BecomeLeader
        <3>4. matchIndex' \in [Node -> [Node -> Nat]]
            BY <1>0, <2>1 DEF BecomeLeader, TypeOK
        <3>5. elected' \subseteq Nat \X Node
            <4>1. elected' = elected \cup {<<persistent[n].term, n>>}
                BY <2>1 DEF BecomeLeader
            <4>2. elected \subseteq Nat \X Node /\ <<persistent[n].term, n>> \in Nat \X Node
                BY <1>0, <1>1 DEF TypeOK
            <4> QED
                BY <4>1, <4>2, Zenon
        <3> HIDE DEF next
        <3>6. nextIndex' \in [Node -> [Node -> Nat]]
            BY <1>0, <1>1, <3>3 DEF TypeOK, next
        <3> QED
            BY <3>1, <3>2, <3>4, <3>5, <3>6
    <2>2. CASE UNCHANGED <<role, leaderId, nextIndex, matchIndex, elected>>
        BY <1>0, <2>2 DEF TypeOK
    <2> QED
        BY <2>1, <2>2 DEF CountVote
<1> QED
    BY <1>0, <1>2, <1>3, <1>4 DEF TypeInv, TypeOK, CommitObserved

\* The types survive a successful AppendEntries reply (AppendSucceeded).
LEMMA TypeAppendSucceeded ==
    ASSUME TypeInv, NEW n \in Node, NEW m \in rpcs, AppendSucceeded(n, m)
    PROVE  TypeInv'
<1> DEFINE match == m.sentPrev + m.sentLen
           raised == match > matchIndex[n][m.src]
           matches == IF raised THEN [matchIndex[n] EXCEPT ![m.src] = match]
                      ELSE matchIndex[n]
           log == persistent[n].log
           c == AdvanceCommit(log, persistent[n].term, commitIndex[n],
                              matches, Peers(n), Majority)
<1>0. TypeOK /\ CommitObserved /\ m \in Rpc /\ m.type = "appended"
    BY DEF TypeInv, TypeOK, AppendSucceeded, Received
<1>1. m.src \in Node /\ m \in AppendReplies
    BY <1>0, RpcFields
<1>2. match \in Nat /\ match + 1 \in Nat
    <2>1. m.sentPrev \in Nat /\ m.sentLen \in Nat
        BY <1>1 DEF AppendReplies
    <2> QED
        BY <2>1
<1>3. log \in Seq(Entry) /\ commitIndex[n] \in Nat
    BY <1>0, PersistentFields DEF TypeOK
<1>4. /\ matchIndex' = [matchIndex EXCEPT ![n] = matches]
      /\ nextIndex' = IF raised
                      THEN [nextIndex EXCEPT ![n][m.src] = match + 1] ELSE nextIndex
      /\ commitIndex' = [commitIndex EXCEPT ![n] = c]
      /\ Observe(log, c)
      /\ rpcs' = rpcs \ {m}
      /\ UNCHANGED <<persistent, disk, role, leaderId, votesReceived, lastApplied,
                     driver, crashes, faults, grants, elected>>
    BY DEF AppendSucceeded, durable, bounds
<1> HIDE DEF match
<1>5. matches \in [Node -> Nat]
    BY <1>0, <1>1, <1>2 DEF TypeOK
<1> HIDE DEF matches, raised
<1>6. matchIndex' \in [Node -> [Node -> Nat]]
    BY <1>0, <1>4, <1>5 DEF TypeOK
<1>7. nextIndex' \in [Node -> [Node -> Nat]]
    BY <1>0, <1>1, <1>2, <1>4 DEF TypeOK
<1>8. c \in Nat /\ (c = commitIndex[n] \/ c <= Len(log))
    BY <1>3, AdvanceCommitBounds
<1> HIDE DEF c, log
<1>9. c <= Len(log) \/ c <= Len(decided)
    BY <1>0, <1>8 DEF CommitObserved
<1>10. /\ decided' \in Seq(Entry)
       /\ Len(decided') >= Len(decided)
       /\ Len(decided') >= c
    BY <1>0, <1>3, <1>4, <1>8, <1>9, ObserveType
<1>11. commitIndex' \in [Node -> Nat] /\ rpcs' \subseteq Rpc
    BY <1>0, <1>4, <1>8 DEF TypeOK
<1>12. TypeOK'
    BY <1>0, <1>4, <1>6, <1>7, <1>10, <1>11 DEF TypeOK
<1>13. CommitObserved'
    <2> SUFFICES ASSUME NEW o \in Node PROVE commitIndex'[o] <= Len(decided')
        BY DEF CommitObserved
    <2>1. Len(decided) \in Nat /\ Len(decided') \in Nat /\ commitIndex[o] \in Nat
        BY <1>0, <1>10 DEF TypeOK
    <2>2. commitIndex'[o] = IF o = n THEN c ELSE commitIndex[o]
        BY <1>0, <1>4 DEF TypeOK
    <2>3. commitIndex[o] <= Len(decided)
        BY <1>0 DEF CommitObserved
    <2> QED
        BY <1>8, <1>10, <2>1, <2>2, <2>3
<1> QED
    BY <1>12, <1>13 DEF TypeInv

\* The types survive a refused AppendEntries reply (AppendFailed).
LEMMA TypeAppendFailed ==
    ASSUME TypeInv, NEW n \in Node, NEW m \in rpcs, AppendFailed(n, m)
    PROVE  TypeInv'
<1> DEFINE b == Backtrack(nextIndex[n][m.src], m.conflict)
<1>0. TypeOK /\ CommitObserved /\ m \in Rpc /\ m.type = "appended"
    BY DEF TypeInv, TypeOK, AppendFailed, Received
<1>1. m.src \in Node /\ m \in AppendReplies
    BY <1>0, RpcFields
<1>2. b \in Nat
    <2>1. m.conflict \in Nat /\ nextIndex[n][m.src] \in Nat
        BY <1>0, <1>1 DEF AppendReplies, TypeOK
    <2> QED
        BY <2>1, IndexTypes
<1>3. /\ nextIndex' = [nextIndex EXCEPT ![n][m.src] = b]
      /\ rpcs' = rpcs \ {m}
      /\ UNCHANGED <<persistent, disk, role, leaderId, votesReceived, commitIndex,
                     lastApplied, matchIndex, driver, crashes, faults,
                     grants, elected, decided>>
    BY DEF AppendFailed, durable, bounds, history
<1> HIDE DEF b
<1>4. nextIndex' \in [Node -> [Node -> Nat]] /\ rpcs' \subseteq Rpc
    BY <1>0, <1>1, <1>2, <1>3 DEF TypeOK
<1> QED
    BY <1>0, <1>3, <1>4 DEF TypeInv, TypeOK, CommitObserved

\* The types survive a reply that is ignored (IgnoreReply).
LEMMA TypeIgnoreReply ==
    ASSUME TypeInv, NEW n \in Node, NEW m \in rpcs, IgnoreReply(n, m)
    PROVE  TypeInv'
<1>1. rpcs' = rpcs \ {m} /\ UNCHANGED <<durable, volatile, bounds, history>>
    BY DEF IgnoreReply
<1> QED
    BY <1>1 DEF TypeInv, TypeOK, CommitObserved, durable, volatile, bounds, history

\* The types survive propose (Propose).
LEMMA TypePropose ==
    ASSUME TypeInv, NEW n \in Node, NEW v \in Value, Propose(n, v)
    PROVE  TypeInv'
<1> DEFINE r == persistent[n]
           log == Append(r.log, [term |-> r.term, cmd |-> v])
           p == [r EXCEPT !.log = log]
<1>0. TypeOK /\ CommitObserved
    BY DEF TypeInv
<1>1. r \in Persistent /\ r.term \in Nat /\ r.log \in Seq(Entry)
    BY <1>0, PersistentFields DEF TypeOK
<1>2. log \in Seq(Entry)
    <2>1. [term |-> r.term, cmd |-> v] \in Entry
        BY <1>1 DEF Entry
    <2> QED
        BY <1>1, <2>1
<1>3. Keep(n, p) /\ Save(n, p) /\ UNCHANGED <<volatile, rpcs, bounds, history>>
    BY DEF Propose
<1> HIDE DEF log, r
<1>4. p \in Persistent
    BY <1>1, <1>2 DEF Persistent
<1> HIDE DEF p
<1>5. persistent' \in [Node -> Persistent]
    BY <1>0, <1>3, <1>4, KeepType DEF TypeOK
<1>6. disk' \in [Node -> Persistent]
    BY <1>0, <1>3, <1>4, SaveType DEF TypeOK
<1> QED
    BY <1>0, <1>3, <1>5, <1>6 DEF TypeInv, TypeOK, CommitObserved, volatile, bounds,
                                  history

\* The types survive take_committed_entries (TakeCommitted).
LEMMA TypeTakeCommitted ==
    ASSUME TypeInv, NEW n \in Node, TakeCommitted(n)
    PROVE  TypeInv'
<1>1. lastApplied' \in [Node -> Nat]
    BY DEF TypeInv, TypeOK, TakeCommitted
<1> QED
    BY <1>1 DEF TypeInv, TypeOK, CommitObserved, TakeCommitted, durable, bounds, history

\* The types survive a restart (Restart).
LEMMA TypeRestart ==
    ASSUME TypeInv, NEW n \in Node, Restart(n)
    PROVE  TypeInv'
<1> DEFINE closed(m) == IF m.type \in {"vote", "append"} /\ m.src = n
                        THEN [m EXCEPT !.open = FALSE] ELSE m
           left == {r \in rpcs : ~(r.type \in {"voted", "appended"} /\ r.dst = n)}
<1>0. TypeOK /\ CommitObserved
    BY DEF TypeInv
<1>1. disk[n] \in Persistent
    BY <1>0 DEF TypeOK
<1>2. persistent' \in [Node -> Persistent]
    BY <1>0, <1>1, KeepType DEF Restart, TypeOK
<1>3. /\ role' \in [Node -> {"follower", "candidate", "leader"}]
      /\ leaderId' \in [Node -> Node \cup {None}]
      /\ votesReceived' \in [Node -> SUBSET Node]
    BY <1>0, BecomeFollowerType DEF Restart
<1>4. /\ commitIndex' \in [Node -> Nat] /\ lastApplied' \in [Node -> Nat]
      /\ nextIndex' \in [Node -> [Node -> Nat]]
      /\ matchIndex' \in [Node -> [Node -> Nat]]
      /\ driver' \in [Node -> BOOLEAN]
      /\ crashes' \in Nat
    BY <1>0 DEF Restart, TypeOK
<1>5. rpcs' \subseteq Rpc
    <2>1. rpcs' = {closed(m) : m \in left}
        BY Zenon DEF Restart
    <2>2. ASSUME NEW m \in Rpc PROVE closed(m) \in Rpc
        <3>1. CASE m.type = "vote"
            BY <3>1, RpcFields DEF VoteRequests, Rpc
        <3>2. CASE m.type = "append"
            BY <3>2, RpcFields DEF AppendRequests, Rpc
        <3>3. CASE m.type \notin {"vote", "append"}
            BY <3>3
        <3> QED
            BY <3>1, <3>2, <3>3
    <2>3. left \subseteq Rpc
        BY <1>0 DEF TypeOK
    <2> HIDE DEF closed, left
    <2> QED
        BY <2>1, <2>2, <2>3
<1>6. UNCHANGED <<disk, faults, grants, elected, decided>>
    BY DEF Restart, history
<1>7. TypeOK'
    BY <1>0, <1>2, <1>3, <1>4, <1>5, <1>6 DEF TypeOK
<1>8. CommitObserved'
    <2> SUFFICES ASSUME NEW o \in Node PROVE commitIndex'[o] <= Len(decided')
        BY DEF CommitObserved
    <2>1. commitIndex'[o] = IF o = n THEN 0 ELSE commitIndex[o]
        BY <1>0 DEF Restart, TypeOK
    <2>2. Len(decided) \in Nat /\ commitIndex[o] <= Len(decided)
        BY <1>0 DEF TypeOK, CommitObserved
    <2> QED
        BY <1>6, <2>1, <2>2
<1> QED
    BY <1>7, <1>8 DEF TypeInv

\* Every action of every member keeps the types.
LEMMA TypeNext == TypeInv /\ [Next]_vars => TypeInv'
<1> SUFFICES ASSUME TypeInv, [Next]_vars PROVE TypeInv'
    OBVIOUS
<1>1. ASSUME NEW n \in Node, Consensus(n) PROVE TypeInv'
    <2>1. CASE StartElection(n) \/ StartElectionFails(n) \/ Heartbeat(n)
        BY <2>1, TypeStartElection, TypeStartElectionFails, TypeHeartbeat
    <2>2. ASSUME NEW m \in rpcs, HandleRpc(n, m) PROVE TypeInv'
        BY <2>2, TypeRejectStaleVote, TypeHandleRequestVote, TypeRecordVoteFails,
           TypeRejectStaleAppend, TypeRejectMismatchedAppend, TypeAcceptAppend,
           TypeAppendSaveFails, TypeStepDownOnReply, TypeStepDownFails, TypeCountVote,
           TypeAppendSucceeded, TypeAppendFailed, TypeIgnoreReply
        DEF HandleRpc
    <2> QED
        BY <1>1, <2>1, <2>2 DEF Consensus
<1>2. ASSUME NEW n \in Node, NEW v \in Value, Propose(n, v) PROVE TypeInv'
    BY <1>2, TypePropose
<1>3. ASSUME NEW n \in Node, TakeCommitted(n) \/ Restart(n) PROVE TypeInv'
    BY <1>3, TypeTakeCommitted, TypeRestart
<1>4. CASE UNCHANGED vars
    BY <1>4 DEF vars, durable, volatile, bounds, history, TypeInv, TypeOK, CommitObserved
<1> QED
    BY <1>1, <1>2, <1>3, <1>4 DEF Next

\* Every variable of every reachable state has the type RaftCore and the
\* driver declare for it; in particular next_index and the prev index sent
\* from it never go below 0, and merging never leaves a hole in a log.
THEOREM TypeCorrect == Spec => []TypeOK
<1>1. TypeInv => TypeOK
    BY DEF TypeInv
<1> QED
    BY <1>1, TypeInit, TypeNext, PTL DEF Spec
-----------------------------------------------------------------------------
(* Election safety, and what it rests on: a vote is on disk before it is   *)
(* answered, and a candidacy before votes are asked for.                   *)

(* The inductive invariant.                                                 *)

\* Record q may follow record p: a later term, or the same term without
\* taking back or changing a vote.
Later(p, q) ==
    \/ q.term > p.term
    \/ q.term = p.term /\ (p.vote = None \/ q.vote = p.vote)

\* state.bin is what memory is, or what it was before writes that failed.
DiskBehind == \A n \in Node : Later(disk[n], persistent[n])

\* A member votes once per term, and only for a candidate whose own term is
\* on disk.
VotesUnique ==
    \A g, h \in grants : (g[1] = h[1] /\ g[2] = h[2]) => g[3] = h[3]
CandidacySaved == \A g \in grants : g[2] <= disk[g[3]].term

\* RequestVotes go out after the candidacy was saved, granted replies after
\* the vote was.
Solicits(m) == m.type = "vote" => m.term <= disk[m.src].term
Grants(m, given) ==
    (m.type = "voted" /\ m.granted) => <<m.src, m.term, m.dst>> \in given
MessagesHonest == \A m \in rpcs : Solicits(m) /\ Grants(m, grants)

\* The votes a candidate has collected were cast for it in its term; where
\* the write of its candidacy failed they may be left from an earlier term,
\* but then none can be cast for the new one.
VotesCollected(n) ==
    \A v \in votesReceived[n] : <<v, persistent[n].term, n>> \in grants
CandidatesHonest ==
    \A n \in Node : role[n] = "candidate" =>
        /\ persistent[n].vote = n
        /\ disk[n].term < persistent[n].term \/ VotesCollected(n)

\* Every election was won by the votes of a majority.
Backed(e, given) ==
    \E Q \in SUBSET Node :
        /\ Cardinality(Q) >= Majority
        /\ \A v \in Q : <<v, e[1], e[2]>> \in given
Won == \A e \in elected : Backed(e, grants)

ElectionInv ==
    /\ TypeInv /\ DiskBehind /\ VotesUnique /\ VoteDurable /\ CandidacySaved
    /\ MessagesHonest /\ CandidatesHonest /\ Won

-----------------------------------------------------------------------------
(* Facts about Later.                                                       *)

\* A record may follow itself, and following is transitive.
LEMMA LaterOrder ==
    ASSUME NEW p \in Persistent, NEW q \in Persistent, NEW r \in Persistent
    PROVE  /\ Later(p, p)
           /\ (Later(p, q) /\ Later(q, r)) => Later(p, r)
<1>1. p.term \in Nat /\ q.term \in Nat /\ r.term \in Nat
    BY PersistentFields
<1> QED
    BY <1>1 DEF Later

\* Adopting a term that is not lower is a step forward, and adopting one's
\* own term changes nothing.
LEMMA WithTermLater ==
    ASSUME NEW p \in Persistent, NEW t \in Nat, t >= p.term
    PROVE  /\ Later(p, WithTerm(p, t))
           /\ t = p.term => WithTerm(p, t) = p
<1>1. p.term \in Nat
    BY PersistentFields
<1>2. CASE t = p.term
    BY <1>1, <1>2 DEF Later, WithTerm
<1>3. CASE t # p.term
    <2>1. WithTerm(p, t).term = t
        BY WithTermType
    <2>2. t > p.term
        BY <1>1, <1>3
    <2> HIDE DEF WithTerm
    <2> QED
        BY <1>3, <2>1, <2>2 DEF Later
<1> QED
    BY <1>2, <1>3

\* So is giving a vote that handle_request_vote allows.
LEMMA VoteLater ==
    ASSUME NEW p \in Persistent, NEW c \in Node, CanVoteFor(p, c)
    PROVE  /\ [p EXCEPT !.vote = c] \in Persistent
           /\ [p EXCEPT !.vote = c].term = p.term
           /\ [p EXCEPT !.vote = c].vote = c
           /\ Later(p, [p EXCEPT !.vote = c])
<1>1. /\ [p EXCEPT !.vote = c] \in Persistent
      /\ [p EXCEPT !.vote = c].term = p.term
      /\ [p EXCEPT !.vote = c].vote = c
    BY DEF Persistent
<1> QED
    BY <1>1 DEF Later, CanVoteFor

\* So is any change of the log alone.
LEMMA LogLater ==
    ASSUME NEW p \in Persistent, NEW log
    PROVE  /\ [p EXCEPT !.log = log].term = p.term
           /\ [p EXCEPT !.log = log].vote = p.vote
           /\ Later(p, [p EXCEPT !.log = log])
<1>1. /\ [p EXCEPT !.log = log].term = p.term
      /\ [p EXCEPT !.log = log].vote = p.vote
    BY DEF Persistent
<1> QED
    BY <1>1 DEF Later

\* And so is campaigning, with a strictly higher term.
LEMMA CampaignLater ==
    ASSUME NEW p \in Persistent, NEW n \in Node
    PROVE  Later(p, Campaign(p, n)) /\ Campaign(p, n).term > p.term
<1>1. p.term \in Nat /\ Campaign(p, n).term = p.term + 1
    BY PersistentFields, CampaignType
<1> QED
    BY <1>1 DEF Later

-----------------------------------------------------------------------------
(* What a step may do to memory and disk.                                   *)

\* The disk only moves forward, memory stays at or ahead of it, and memory
\* moves forward too unless a restart takes it back to the disk.
DurableStep ==
    \A n \in Node :
        /\ Later(disk[n], disk'[n])
        /\ Later(disk'[n], persistent'[n])
        /\ Later(persistent[n], persistent'[n]) \/ persistent'[n] = disk[n]

\* A handler that keeps q in memory, and wrote s on the way or nothing.
LEMMA StoreStep ==
    ASSUME TypeOK, DiskBehind, NEW n \in Node,
           NEW s \in Persistent, NEW q \in Persistent,
           Later(persistent[n], s), Later(s, q),
           Keep(n, q), Save(n, s) \/ UNCHANGED disk
    PROVE  DurableStep
<1> SUFFICES ASSUME NEW o \in Node
             PROVE  /\ Later(disk[o], disk'[o])
                    /\ Later(disk'[o], persistent'[o])
                    /\ Later(persistent[o], persistent'[o])
    BY DEF DurableStep
<1>1. /\ disk[o] \in Persistent /\ persistent[o] \in Persistent
      /\ Later(disk[o], persistent[o])
    BY DEF TypeOK, DiskBehind
<1>2. persistent'[o] = IF o = n THEN q ELSE persistent[o]
    BY DEF Keep, TypeOK
<1>3. \/ disk'[o] = disk[o]
      \/ o = n /\ disk'[o] = s
    BY DEF Save, TypeOK
<1>4. CASE o # n
    BY <1>1, <1>2, <1>3, <1>4, LaterOrder
<1>5. CASE o = n
    <2>1. Later(persistent[o], q)
        BY <1>1, <1>5, LaterOrder
    <2>2. Later(disk[o], s) /\ Later(disk[o], q) /\ Later(disk[o], disk[o])
        BY <1>1, <1>5, <2>1, LaterOrder
    <2> QED
        BY <1>2, <1>3, <1>5, <2>1, <2>2
<1> QED
    BY <1>4, <1>5

\* A step that touches neither.
LEMMA SameDurable ==
    ASSUME TypeOK, DiskBehind, UNCHANGED <<persistent, disk>>
    PROVE  DurableStep
<1> SUFFICES ASSUME NEW o \in Node
             PROVE  /\ Later(disk[o], disk[o])
                    /\ Later(disk[o], persistent[o])
                    /\ Later(persistent[o], persistent[o])
    BY DEF DurableStep
<1> QED
    BY LaterOrder DEF TypeOK, DiskBehind

-----------------------------------------------------------------------------
(* How each part of the invariant is carried over a step.                   *)

\* The disk's promises: votes stay recorded, candidacies stay saved.  G is
\* the vote the step casts, if any.
LEMMA VotesCarried ==
    ASSUME ElectionInv, TypeOK', DurableStep, NEW G,
           grants' = grants \cup G,
           \A g, h \in G : g = h,
           \A g \in G : /\ disk'[g[1]].term = g[2] /\ disk'[g[1]].vote = g[3]
                        /\ g[2] <= disk'[g[3]].term
                        /\ \A h \in grants :
                              (h[1] = g[1] /\ h[2] = g[2]) => h[3] = g[3]
    PROVE  DiskBehind' /\ VotesUnique' /\ VoteDurable' /\ CandidacySaved'
<1>0. VotesUnique /\ VoteDurable /\ CandidacySaved /\ TypeOK
    BY DEF ElectionInv, TypeInv
<1>1. DiskBehind'
    BY DEF DurableStep, DiskBehind
<1>2. VotesUnique'
    BY <1>0 DEF VotesUnique
<1>3. ASSUME NEW g \in grants
      PROVE  /\ g[1] \in Node /\ g[2] \in Nat /\ g[3] \in Node
    BY <1>0 DEF TypeOK
<1>4. ASSUME NEW n \in Node
      PROVE  /\ disk[n].term \in Nat /\ disk'[n].term \in Nat
             /\ disk[n].term <= disk'[n].term
             /\ (disk[n].term = disk'[n].term /\ disk[n].vote # None)
                    => disk'[n].vote = disk[n].vote
    <2>1. disk[n] \in Persistent /\ disk'[n] \in Persistent
        BY <1>0 DEF TypeOK
    <2>2. disk[n].term \in Nat /\ disk'[n].term \in Nat
        BY <2>1, PersistentFields
    <2>3. Later(disk[n], disk'[n])
        BY DEF DurableStep
    <2> QED
        BY <2>2, <2>3 DEF Later
<1>5. VoteDurable'
    <2> SUFFICES ASSUME NEW g \in grants
                 PROVE  \/ disk'[g[1]].term > g[2]
                        \/ disk'[g[1]].term = g[2] /\ disk'[g[1]].vote = g[3]
        BY DEF VoteDurable
    <2>1. \/ disk[g[1]].term > g[2]
          \/ disk[g[1]].term = g[2] /\ disk[g[1]].vote = g[3]
        BY <1>0 DEF VoteDurable
    <2>2. g[1] \in Node /\ g[2] \in Nat /\ g[3] # None
        BY <1>3, NodeAssumption
    <2> QED
        BY <1>4, <2>1, <2>2
<1>6. CandidacySaved'
    <2> SUFFICES ASSUME NEW g \in grants PROVE g[2] <= disk'[g[3]].term
        BY DEF CandidacySaved
    <2>1. g[2] <= disk[g[3]].term
        BY <1>0 DEF CandidacySaved
    <2>2. g[2] \in Nat /\ g[3] \in Node
        BY <1>3
    <2> QED
        BY <1>4, <2>1, <2>2
<1> QED
    BY <1>1, <1>2, <1>5, <1>6

\* r asks for or grants the same vote as m.
SameVote(r, m) ==
    /\ r.type = m.type /\ r.src = m.src /\ r.dst = m.dst /\ r.term = m.term
    /\ m.type = "voted" => r.granted = m.granted

\* What is in flight: each message is an old one, or holds after the step.
LEMMA MessagesCarried ==
    ASSUME ElectionInv, TypeOK', DurableStep, grants \subseteq grants',
           \A m \in rpcs' : \/ \E r \in rpcs : SameVote(r, m)
                            \/ Solicits(m)' /\ Grants(m, grants')
    PROVE  MessagesHonest'
<1>0. MessagesHonest /\ TypeOK
    BY DEF ElectionInv, TypeInv
<1> SUFFICES ASSUME NEW m \in rpcs', NEW r \in rpcs, SameVote(r, m)
             PROVE  Solicits(m)' /\ Grants(m, grants')
    BY DEF MessagesHonest
<1>1. Solicits(r) /\ Grants(r, grants)
    BY <1>0 DEF MessagesHonest
<1>2. Grants(m, grants')
    BY <1>1 DEF Grants, SameVote
<1>3. ASSUME m.type = "vote" PROVE m.term <= disk'[m.src].term
    <2>1. r.src \in Node /\ r.term \in Nat
        BY <1>0, RpcFields DEF TypeOK
    <2>2. disk[r.src] \in Persistent /\ disk'[r.src] \in Persistent
        BY <1>0, <2>1 DEF TypeOK
    <2>3. disk[r.src].term \in Nat /\ disk'[r.src].term \in Nat
        BY <2>2, PersistentFields
    <2>4. Later(disk[r.src], disk'[r.src])
        BY <2>1 DEF DurableStep
    <2>5. disk[r.src].term <= disk'[r.src].term
        BY <2>3, <2>4 DEF Later
    <2>6. r.term <= disk[r.src].term
        BY <1>1, <1>3 DEF Solicits, SameVote
    <2> QED
        BY <2>1, <2>3, <2>5, <2>6 DEF SameVote
<1> QED
    BY <1>2, <1>3 DEF Solicits

\* A member that is a candidate after the step was the same candidate before.
CandidateStays(o) ==
    /\ role[o] = "candidate"
    /\ persistent'[o].term = persistent[o].term
    /\ persistent'[o].vote = persistent[o].vote
    /\ disk'[o].term = disk[o].term
    /\ votesReceived'[o] = votesReceived[o]

\* What holds of a candidate that stays one still does.
LEMMA CandidateCarried ==
    ASSUME ElectionInv, grants \subseteq grants', NEW o \in Node, CandidateStays(o)
    PROVE  /\ persistent'[o].vote = o
           /\ disk'[o].term < persistent'[o].term \/ VotesCollected(o)'
<1>1. /\ persistent[o].vote = o
      /\ disk[o].term < persistent[o].term \/ VotesCollected(o)
    BY DEF ElectionInv, CandidatesHonest, CandidateStays
<1> QED
    BY <1>1 DEF CandidateStays, VotesCollected

\* Elections won stay won.
LEMMA WonCarried ==
    ASSUME ElectionInv, grants \subseteq grants', elected' = elected
    PROVE  Won'
<1> SUFFICES ASSUME NEW e \in elected PROVE Backed(e, grants')
    BY DEF Won
<1>1. Backed(e, grants)
    BY DEF ElectionInv, Won
<1> QED
    BY <1>1 DEF Backed

\* A step that casts no vote, asks for none and elects nobody.
Quiet ==
    /\ grants' = grants /\ elected' = elected
    /\ \A m \in rpcs' : \/ \E r \in rpcs : SameVote(r, m)
                        \/ /\ m.type # "vote"
                           /\ m.type = "voted" => ~m.granted
    /\ \A o \in Node : role'[o] = "candidate" => CandidateStays(o)

\* Such a step keeps the invariant if memory and disk move forward.
LEMMA QuietStep ==
    ASSUME ElectionInv, TypeInv', DurableStep, Quiet
    PROVE  ElectionInv'
<1>1. TypeOK'
    BY DEF TypeInv
<1>2. grants' = grants \cup {}
    BY DEF Quiet
<1>3. DiskBehind' /\ VotesUnique' /\ VoteDurable' /\ CandidacySaved'
    <2> DEFINE G == {}
    <2>1. grants' = grants \cup G /\ \A g \in G : FALSE
        BY <1>2
    <2> HIDE DEF G
    <2> QED
        BY <1>1, <2>1, VotesCarried
<1>4. MessagesHonest'
    <2>1. ASSUME NEW m \in rpcs'
          PROVE  \/ \E r \in rpcs : SameVote(r, m)
                 \/ Solicits(m)' /\ Grants(m, grants')
        BY DEF Quiet, Solicits, Grants
    <2> QED
        BY <1>1, <1>2, <2>1, MessagesCarried
<1>5. CandidatesHonest'
    BY <1>2, CandidateCarried DEF Quiet, CandidatesHonest
<1>6. Won'
    BY <1>2, WonCarried DEF Quiet
<1> QED
    BY <1>3, <1>4, <1>5, <1>6 DEF ElectionInv

\* What is shown of every action: the invariant is kept, and the disk moves
\* forward.
ElectionStep == ElectionInv' /\ DurableStep

-----------------------------------------------------------------------------
(* The quiet actions.                                                       *)

\* Messages that neither ask for nor grant a vote.
NoVote(m) == m.type # "vote" /\ (m.type = "voted" => ~m.granted)

\* A step that leaves terms, votes and roles alone.
LEMMA Unrelated ==
    ASSUME ElectionInv, TypeInv',
           UNCHANGED <<persistent, disk, role, votesReceived, grants, elected>>,
           \A m \in rpcs' : m \in rpcs \/ NoVote(m)
    PROVE  ElectionStep
<1>1. DurableStep
    BY SameDurable DEF ElectionInv, TypeInv
<1>2. Quiet
    BY DEF Quiet, CandidateStays, SameVote, NoVote
<1> QED
    BY <1>1, <1>2, QuietStep DEF ElectionStep

\* A step of member n after which it is no candidate: a step down, or the
\* append of a leader.
LEMMA NoCandidate ==
    ASSUME ElectionInv, TypeInv', NEW n \in Node,
           NEW s \in Persistent, NEW q \in Persistent,
           Later(persistent[n], s), Later(s, q),
           Keep(n, q), Save(n, s) \/ UNCHANGED disk,
           role'[n] # "candidate",
           \A o \in Peers(n) : role'[o] = role[o] /\ votesReceived'[o] = votesReceived[o],
           UNCHANGED <<grants, elected>>,
           \A m \in rpcs' : m \in rpcs \/ NoVote(m)
    PROVE  ElectionStep
<1>0. TypeOK /\ DiskBehind
    BY DEF ElectionInv, TypeInv
<1>1. DurableStep
    BY <1>0, StoreStep
<1>2. ASSUME NEW o \in Node, role'[o] = "candidate" PROVE CandidateStays(o)
    <2>1. o \in Peers(n)
        BY <1>2 DEF Peers
    <2>2. persistent'[o] = persistent[o] /\ disk'[o] = disk[o]
        BY <1>0, <2>1 DEF Keep, Save, TypeOK, Peers
    <2> QED
        BY <1>2, <2>1, <2>2 DEF CandidateStays
<1>3. Quiet
    BY <1>2 DEF Quiet, SameVote, NoVote
<1> QED
    BY <1>1, <1>3, QuietStep DEF ElectionStep

\* The only new message of a handler is its answer.
LEMMA AnswerMessages ==
    ASSUME NEW m, NEW reply, Answer(m, reply)
    PROVE  \A r \in rpcs' : r \in rpcs \/ r = reply
<1> DEFINE sent == IF m.open THEN {reply} ELSE {}
<1>1. Transmit({m}, sent)
    BY DEF Answer
<1>2. \A r \in sent : r = reply
    OBVIOUS
<1> HIDE DEF sent
<1> QED
    BY <1>1, <1>2 DEF Transmit

\* Replies to AppendEntries, and refusals, grant nothing.
LEMMA NoVoteReplies ==
    ASSUME NEW m, NEW t, NEW ok, NEW c,
           Answer(m, AppendReply(m, t, ok, c)) \/ Answer(m, VoteReply(m, t, FALSE))
    PROVE  \A r \in rpcs' : r \in rpcs \/ NoVote(r)
<1> DEFINE a == AppendReply(m, t, ok, c)
           v == VoteReply(m, t, FALSE)
<1>1. NoVote(a) /\ NoVote(v)
    BY DEF NoVote, AppendReply, VoteReply
<1>2. Answer(m, a) \/ Answer(m, v)
    OBVIOUS
<1> HIDE DEF a, v
<1> QED
    BY <1>1, <1>2, AnswerMessages

\* Steps that only send, count matches, or hand over entries.
LEMMA ElectionUnrelated ==
    ASSUME ElectionInv, TypeInv', NEW n \in Node,
           \/ Heartbeat(n) \/ TakeCommitted(n)
           \/ \E m \in rpcs : \/ RejectStaleVote(n, m) \/ RejectStaleAppend(n, m)
                              \/ AppendSucceeded(n, m) \/ AppendFailed(n, m)
                              \/ IgnoreReply(n, m)
    PROVE  ElectionStep
<1>1. CASE Heartbeat(n)
    <2>1. \A m \in {AppendRequest(n, p) : p \in Peers(n)} : NoVote(m)
        BY DEF AppendRequest, NoVote
    <2>2. \A m \in rpcs' : m \in rpcs \/ NoVote(m)
        BY <1>1, <2>1 DEF Heartbeat, Transmit
    <2>3. UNCHANGED <<persistent, disk, role, votesReceived, grants, elected>>
        BY <1>1 DEF Heartbeat, durable, volatile, history
    <2> QED
        BY <2>2, <2>3, Unrelated
<1>2. CASE TakeCommitted(n)
    <2>1. UNCHANGED <<persistent, disk, role, votesReceived, grants, elected, rpcs>>
        BY <1>2 DEF TakeCommitted, durable, history
    <2> QED
        BY <2>1, Unrelated
<1>3. ASSUME NEW m \in rpcs, RejectStaleVote(n, m) \/ RejectStaleAppend(n, m)
      PROVE  ElectionStep
    <2>1. UNCHANGED <<persistent, disk, role, votesReceived, grants, elected>>
        BY <1>3 DEF RejectStaleVote, RejectStaleAppend, durable, volatile, history
    <2>2. \/ Answer(m, VoteReply(m, persistent[n].term, FALSE))
          \/ Answer(m, AppendReply(m, persistent[n].term, FALSE, 0))
        BY <1>3 DEF RejectStaleVote, RejectStaleAppend
    <2>3. \A r \in rpcs' : r \in rpcs \/ NoVote(r)
        BY <2>2, NoVoteReplies
    <2> QED
        BY <2>1, <2>3, Unrelated
<1>4. ASSUME NEW m \in rpcs,
             AppendSucceeded(n, m) \/ AppendFailed(n, m) \/ IgnoreReply(n, m)
      PROVE  ElectionStep
    <2>1. UNCHANGED <<persistent, disk, role, votesReceived, grants, elected>>
        BY <1>4 DEF AppendSucceeded, AppendFailed, IgnoreReply, durable, volatile, history
    <2>2. rpcs' = rpcs \ {m}
        BY <1>4 DEF AppendSucceeded, AppendFailed, IgnoreReply
    <2> QED
        BY <2>1, <2>2, Unrelated
<1> QED
    BY <1>1, <1>2, <1>3, <1>4

\* propose changes the log of a leader, which is no candidate.
LEMMA ElectionPropose ==
    ASSUME ElectionInv, TypeInv', NEW n \in Node, NEW v \in Value, Propose(n, v)
    PROVE  ElectionStep
<1> DEFINE r == persistent[n]
           log == Append(r.log, [term |-> r.term, cmd |-> v])
           p == [r EXCEPT !.log = log]
<1>0. TypeOK /\ TypeOK'
    BY DEF ElectionInv, TypeInv
<1>1. Keep(n, p) /\ Save(n, p) /\ role[n] = "leader"
      /\ UNCHANGED <<role, votesReceived, rpcs, grants, elected>>
    BY DEF Propose, volatile, history
<1>2. r \in Persistent
    BY <1>0 DEF TypeOK
<1> HIDE DEF log
<1>3. Later(r, p)
    BY <1>2, LogLater
<1>4. p = persistent'[n]
    BY <1>0, <1>1 DEF Keep, TypeOK
<1> HIDE DEF p
<1>5. p \in Persistent
    BY <1>0, <1>4 DEF TypeOK
<1>6. Later(p, p)
    BY <1>5, LaterOrder
<1> QED
    BY <1>1, <1>3, <1>5, <1>6, NoCandidate DEF r

\* A member that becomes or stays follower touches nobody else's volatile state.
LEMMA FollowerVolatile ==
    ASSUME TypeOK, NEW n \in Node,
           (\E l : BecomeFollower(n, l)) \/ (\E m : Follow(n, m))
    PROVE  /\ role'[n] # "candidate"
           /\ \A o \in Peers(n) : /\ role'[o] = role[o]
                                  /\ votesReceived'[o] = votesReceived[o]
<1>1. role' = [role EXCEPT ![n] = "follower"]
    BY DEF BecomeFollower, Follow
<1>2. \/ votesReceived' = [votesReceived EXCEPT ![n] = {}]
      \/ votesReceived' = votesReceived
    BY DEF BecomeFollower, Follow
<1> QED
    BY <1>1, <1>2 DEF TypeOK, Peers

\* A handler of AppendEntries: it answers once the term, and perhaps merged
\* entries, are stored, or fails before.
LEMMA ElectionAppend ==
    ASSUME ElectionInv, TypeInv', NEW n \in Node, NEW m \in rpcs,
           \/ RejectMismatchedAppend(n, m)
           \/ AcceptAppend(n, m)
           \/ AppendSaveFails(n, m)
    PROVE  ElectionStep
<1> DEFINE p == WithTerm(persistent[n], m.term)
           q == [p EXCEPT !.log = MergeEntries(p.log, m.prevIndex, m.entries)]
<1>0. TypeOK /\ TypeOK' /\ m \in Rpc
    BY DEF ElectionInv, TypeInv, TypeOK
<1>1. m.term \in Nat /\ persistent[n] \in Persistent
    BY <1>0, RpcFields DEF TypeOK
<1>2. m.term >= persistent[n].term
    BY DEF RejectMismatchedAppend, AcceptAppend, AppendSaveFails
<1>3. p \in Persistent /\ Later(persistent[n], p)
    BY <1>1, <1>2, WithTermType, WithTermLater
<1>4. UNCHANGED <<grants, elected>> /\ Follow(n, m)
    BY DEF RejectMismatchedAppend, AcceptAppend, AppendSaveFails, history
<1>5. /\ role'[n] # "candidate"
      /\ \A o \in Peers(n) : role'[o] = role[o] /\ votesReceived'[o] = votesReceived[o]
    BY <1>0, <1>4, FollowerVolatile
<1>6. \A r \in rpcs' : r \in rpcs \/ NoVote(r)
    <2>1. CASE RejectMismatchedAppend(n, m)
        <3> DEFINE c == ConflictIndex(p.log, m.prevIndex)
        <3>1. Answer(m, AppendReply(m, p.term, FALSE, c))
            BY <2>1 DEF RejectMismatchedAppend
        <3> HIDE DEF c, p
        <3> QED
            BY <3>1, NoVoteReplies
    <2>2. CASE AcceptAppend(n, m)
        <3>1. Answer(m, AppendReply(m, q.term, TRUE, 0))
            BY <2>2 DEF AcceptAppend
        <3> HIDE DEF q
        <3> QED
            BY <3>1, NoVoteReplies
    <2>3. CASE AppendSaveFails(n, m)
        BY <2>3 DEF AppendSaveFails
    <2> QED
        BY <2>1, <2>2, <2>3
<1>7. CASE RejectMismatchedAppend(n, m)
    <2>1. Keep(n, p) /\ (Save(n, p) \/ UNCHANGED disk)
        BY <1>7 DEF RejectMismatchedAppend
    <2> HIDE DEF p
    <2>2. Later(p, p)
        BY <1>3, LaterOrder
    <2> QED
        BY <1>3, <1>4, <1>5, <1>6, <2>1, <2>2, NoCandidate
<1>8. CASE AcceptAppend(n, m) \/ AppendSaveFails(n, m)
    <2>1. Keep(n, q) /\ (Save(n, q) \/ Save(n, p) \/ UNCHANGED disk)
        BY <1>8 DEF AcceptAppend, AppendSaveFails
    <2>2. Later(p, q)
        <3> HIDE DEF p
        <3> QED
            BY <1>3, LogLater
    <2>3. q = persistent'[n]
        BY <1>0, <2>1 DEF Keep, TypeOK
    <2> HIDE DEF q, p
    <2>4. q \in Persistent
        BY <1>0, <2>3 DEF TypeOK
    <2>5. Later(persistent[n], q) /\ Later(p, p) /\ Later(q, q)
        BY <1>1, <1>3, <2>2, <2>4, LaterOrder
    <2>6. CASE Save(n, q)
        BY <1>4, <1>5, <1>6, <2>1, <2>4, <2>5, <2>6, NoCandidate
    <2>7. CASE Save(n, p) \/ UNCHANGED disk
        BY <1>3, <1>4, <1>5, <1>6, <2>1, <2>2, <2>4, <2>7, NoCandidate
    <2> QED
        BY <2>1, <2>6, <2>7
<1> QED
    BY <1>7, <1>8

\* Stepping down, saved or not.
LEMMA ElectionStepDown ==
    ASSUME ElectionInv, TypeInv', NEW n \in Node, NEW m \in rpcs,
           StepDownOnReply(n, m) \/ StepDownFails(n, m)
    PROVE  ElectionStep
<1> DEFINE p == WithTerm(persistent[n], m.term)
<1>0. TypeOK /\ m \in Rpc
    BY DEF ElectionInv, TypeInv, TypeOK
<1>1. m.term \in Nat /\ persistent[n] \in Persistent /\ persistent[n].term \in Nat
    BY <1>0, RpcFields, PersistentFields DEF TypeOK
<1>2. m.term >= persistent[n].term
    BY <1>1 DEF StepDownOnReply, StepDownFails, StepsDown
<1>3. p \in Persistent /\ Later(persistent[n], p)
    BY <1>1, <1>2, WithTermType, WithTermLater
<1>4. /\ Keep(n, p) /\ (Save(n, p) \/ UNCHANGED disk)
      /\ UNCHANGED <<grants, elected>> /\ rpcs' = rpcs \ {m}
      /\ \E l : BecomeFollower(n, l)
    BY DEF StepDownOnReply, StepDownFails, history
<1> HIDE DEF p
<1>5. /\ role'[n] # "candidate"
      /\ \A o \in Peers(n) : role'[o] = role[o] /\ votesReceived'[o] = votesReceived[o]
    BY <1>0, <1>4, FollowerVolatile
<1>6. Later(p, p)
    BY <1>3, LaterOrder
<1> QED
    BY <1>3, <1>4, <1>5, <1>6, NoCandidate

\* A restart takes memory back to the disk, where every answered vote is.
LEMMA ElectionRestart ==
    ASSUME ElectionInv, TypeInv', NEW n \in Node, Restart(n)
    PROVE  ElectionStep
<1> DEFINE closed(m) == IF m.type \in {"vote", "append"} /\ m.src = n
                        THEN [m EXCEPT !.open = FALSE] ELSE m
           left == {r \in rpcs : ~(r.type \in {"voted", "appended"} /\ r.dst = n)}
<1>0. TypeOK /\ DiskBehind
    BY DEF ElectionInv, TypeInv
<1>1. /\ Keep(n, disk[n]) /\ UNCHANGED <<disk, grants, elected>>
      /\ BecomeFollower(n, None)
    BY DEF Restart, history
<1>2. DurableStep
    <2> SUFFICES ASSUME NEW o \in Node
                 PROVE  /\ Later(disk[o], disk[o])
                        /\ Later(disk[o], persistent'[o])
                        /\ \/ Later(persistent[o], persistent'[o])
                           \/ persistent'[o] = disk[o]
        BY <1>1 DEF DurableStep
    <2>1. disk[o] \in Persistent /\ persistent[o] \in Persistent
        BY <1>0 DEF TypeOK
    <2>2. persistent'[o] = IF o = n THEN disk[o] ELSE persistent[o]
        BY <1>0, <1>1 DEF Keep, TypeOK
    <2>3. Later(disk[o], disk[o]) /\ Later(persistent[o], persistent[o])
        BY <2>1, LaterOrder
    <2> QED
        BY <1>0, <2>2, <2>3 DEF DiskBehind
<1>3. ASSUME NEW m \in rpcs' PROVE \E r \in rpcs : SameVote(r, m)
    <2>1. rpcs' = {closed(r) : r \in left}
        BY Zenon DEF Restart
    <2>2. PICK r \in left : m = closed(r)
        BY <2>1
    <2>3. r \in rpcs /\ r \in Rpc
        BY <1>0 DEF TypeOK
    <2>4. SameVote(r, closed(r))
        <3>1. CASE r.type = "vote"
            BY <2>3, <3>1, RpcFields DEF VoteRequests, SameVote
        <3>2. CASE r.type = "append"
            BY <2>3, <3>2, RpcFields DEF AppendRequests, SameVote
        <3>3. CASE r.type \notin {"vote", "append"}
            BY <3>3 DEF SameVote
        <3> QED
            BY <3>1, <3>2, <3>3
    <2> QED
        BY <2>2, <2>3, <2>4
<1>4. ASSUME NEW o \in Node, role'[o] = "candidate" PROVE CandidateStays(o)
    <2>1. /\ role'[n] # "candidate"
          /\ \A k \in Peers(n) : /\ role'[k] = role[k]
                                 /\ votesReceived'[k] = votesReceived[k]
        BY <1>0, <1>1, FollowerVolatile
    <2>2. o \in Peers(n)
        BY <1>4, <2>1 DEF Peers
    <2>3. persistent'[o] = persistent[o]
        BY <1>0, <1>1, <2>2 DEF Keep, TypeOK, Peers
    <2> QED
        BY <1>1, <1>4, <2>1, <2>2, <2>3 DEF CandidateStays
<1>5. Quiet
    BY <1>1, <1>3, <1>4 DEF Quiet
<1> QED
    BY <1>2, <1>5, QuietStep DEF ElectionStep

-----------------------------------------------------------------------------
(* The actions of an election.                                              *)

\* What a vote or a candidacy of member n relies on: the term on disk is not
\* ahead of memory, and any vote it cast is remembered in memory too.
LEMMA Remembered ==
    ASSUME ElectionInv, NEW n \in Node
    PROVE  /\ disk[n].term \in Nat /\ persistent[n].term \in Nat
           /\ disk[n].term <= persistent[n].term
           /\ \A g \in grants : g[1] = n =>
                 \/ persistent[n].term > g[2]
                 \/ persistent[n].term = g[2] /\ persistent[n].vote = g[3]
<1>0. TypeOK /\ DiskBehind /\ VoteDurable
    BY DEF ElectionInv, TypeInv
<1>1. disk[n].term \in Nat /\ persistent[n].term \in Nat
    BY <1>0, PersistentFields DEF TypeOK
<1>2. Later(disk[n], persistent[n])
    BY <1>0 DEF DiskBehind
<1>3. disk[n].term <= persistent[n].term
    BY <1>1, <1>2 DEF Later
<1>4. ASSUME NEW g \in grants, g[1] = n
      PROVE  \/ persistent[n].term > g[2]
             \/ persistent[n].term = g[2] /\ persistent[n].vote = g[3]
    <2>1. g[2] \in Nat /\ g[3] # None
        BY <1>0, NodeAssumption DEF TypeOK
    <2>2. disk[n].term > g[2] \/ (disk[n].term = g[2] /\ disk[n].vote = g[3])
        BY <1>0, <1>4 DEF VoteDurable
    <2> QED
        BY <1>1, <1>2, <2>1, <2>2 DEF Later
<1> QED
    BY <1>1, <1>3, <1>4

\* A candidacy is saved before anybody is asked for a vote.
LEMMA ElectionStart ==
    ASSUME ElectionInv, TypeInv', NEW n \in Node, StartElection(n)
    PROVE  ElectionStep
<1> DEFINE p == Campaign(persistent[n], n)
           g == <<n, p.term, n>>
<1>0. TypeOK /\ TypeOK' /\ DiskBehind
    BY DEF ElectionInv, TypeInv
<1>1. persistent[n] \in Persistent
    BY <1>0 DEF TypeOK
<1>2. /\ p \in Persistent /\ p.vote = n /\ p.term \in Nat
      /\ Later(persistent[n], p) /\ p.term > persistent[n].term
    BY <1>1, CampaignType, CampaignLater, PersistentFields
<1>3. /\ Keep(n, p) /\ Save(n, p)
      /\ role' = [role EXCEPT ![n] = "candidate"]
      /\ votesReceived' = [votesReceived EXCEPT ![n] = {n}]
      /\ Transmit({}, {VoteRequest(n, q) : q \in Peers(n)})
      /\ grants' = grants \cup {g}
      /\ elected' = elected
    BY DEF StartElection
<1> HIDE DEF p
<1>4. disk'[n] = p /\ persistent'[n] = p
    BY <1>0, <1>3 DEF Keep, Save, TypeOK
<1>5. DurableStep
    <2>1. Later(p, p)
        BY <1>2, LaterOrder
    <2> QED
        BY <1>0, <1>2, <1>3, <2>1, StoreStep
<1>6. DiskBehind' /\ VotesUnique' /\ VoteDurable' /\ CandidacySaved'
    <2> DEFINE G == {g}
    <2>1. ASSUME NEW h \in grants, h[1] = n PROVE h[2] # p.term
        <3>1. h[2] \in Nat
            BY <1>0 DEF TypeOK
        <3>2. h[2] <= persistent[n].term /\ persistent[n].term \in Nat
            BY <2>1, <3>1, Remembered
        <3> QED
            BY <1>2, <3>1, <3>2
    <2>2. \A x \in G : x[1] = n /\ x[2] = p.term /\ x[3] = n
        OBVIOUS
    <2>3. \A x, y \in G : x = y
        OBVIOUS
    <2>4. grants' = grants \cup G
        BY <1>3
    <2> HIDE DEF G
    <2>5. \A x \in G : /\ disk'[x[1]].term = x[2] /\ disk'[x[1]].vote = x[3]
                       /\ x[2] <= disk'[x[3]].term
        BY <1>2, <1>4, <2>2
    <2>6. \A x \in G : \A h \in grants : (h[1] = x[1] /\ h[2] = x[2]) => h[3] = x[3]
        BY <2>1, <2>2
    <2> QED
        BY <1>0, <1>5, <2>3, <2>4, <2>5, <2>6, VotesCarried
<1>7. MessagesHonest'
    <2>1. ASSUME NEW q \in Peers(n)
          PROVE  /\ VoteRequest(n, q).type = "vote" /\ VoteRequest(n, q).src = n
                 /\ VoteRequest(n, q).term = p.term
        BY <1>4 DEF VoteRequest
    <2>2. ASSUME NEW m \in rpcs', m \notin rpcs PROVE Solicits(m)' /\ Grants(m, grants')
        <3>1. PICK q \in Peers(n) : m = VoteRequest(n, q)
            BY <1>3, <2>2 DEF Transmit
        <3>2. m.type = "vote" /\ m.src = n /\ m.term = p.term
            BY <2>1, <3>1
        <3>3. m.term <= disk'[m.src].term
            BY <1>2, <1>4, <3>2
        <3> QED
            BY <3>2, <3>3 DEF Solicits, Grants
    <2>3. \A m \in rpcs : SameVote(m, m)
        BY DEF SameVote
    <2> QED
        BY <1>0, <1>3, <1>5, <2>2, <2>3, MessagesCarried
<1>8. CandidatesHonest'
    <2> SUFFICES ASSUME NEW o \in Node, role'[o] = "candidate"
                 PROVE  /\ persistent'[o].vote = o
                        /\ disk'[o].term < persistent'[o].term \/ VotesCollected(o)'
        BY DEF CandidatesHonest
    <2>1. CASE o = n
        <3>1. votesReceived'[n] = {n}
            BY <1>0, <1>3 DEF TypeOK
        <3>2. VotesCollected(n)'
            BY <1>3, <1>4, <3>1 DEF VotesCollected
        <3> QED
            BY <1>2, <1>4, <2>1, <3>2
    <2>2. CASE o # n
        <3>1. CandidateStays(o)
            BY <1>0, <1>3, <2>2 DEF CandidateStays, Keep, Save, TypeOK
        <3> QED
            BY <1>3, <3>1, CandidateCarried
    <2> QED
        BY <2>1, <2>2
<1>9. Won'
    BY <1>3, WonCarried
<1> QED
    BY <1>5, <1>6, <1>7, <1>8, <1>9 DEF ElectionInv, ElectionStep

\* Where that write fails, memory is ahead of the disk and no request goes out.
LEMMA ElectionStartFails ==
    ASSUME ElectionInv, TypeInv', NEW n \in Node, StartElectionFails(n)
    PROVE  ElectionStep
<1> DEFINE p == Campaign(persistent[n], n)
<1>0. TypeOK /\ TypeOK' /\ DiskBehind
    BY DEF ElectionInv, TypeInv
<1>1. persistent[n] \in Persistent
    BY <1>0 DEF TypeOK
<1>2. /\ p \in Persistent /\ p.vote = n /\ p.term \in Nat
      /\ Later(persistent[n], p) /\ p.term > persistent[n].term
    BY <1>1, CampaignType, CampaignLater, PersistentFields
<1>3. /\ Keep(n, p)
      /\ role' = [role EXCEPT ![n] = "candidate"]
      /\ UNCHANGED <<disk, votesReceived, rpcs, grants, elected>>
    BY DEF StartElectionFails, history
<1> HIDE DEF p
<1>4. persistent'[n] = p
    BY <1>0, <1>3 DEF Keep, TypeOK
<1>5. DurableStep
    <2>1. Later(p, p)
        BY <1>2, LaterOrder
    <2> QED
        BY <1>0, <1>2, <1>3, <2>1, StoreStep
<1>6. DiskBehind' /\ VotesUnique' /\ VoteDurable' /\ CandidacySaved'
    <2> DEFINE G == {}
    <2>1. grants' = grants \cup G /\ \A g \in G : FALSE
        BY <1>3
    <2> HIDE DEF G
    <2> QED
        BY <1>0, <1>5, <2>1, VotesCarried
<1>7. MessagesHonest'
    <2>1. \A m \in rpcs' : \E r \in rpcs : SameVote(r, m)
        BY <1>3 DEF SameVote
    <2> QED
        BY <1>0, <1>3, <1>5, <2>1, MessagesCarried
<1>8. CandidatesHonest'
    <2> SUFFICES ASSUME NEW o \in Node, role'[o] = "candidate"
                 PROVE  /\ persistent'[o].vote = o
                        /\ disk'[o].term < persistent'[o].term \/ VotesCollected(o)'
        BY DEF CandidatesHonest
    <2>1. CASE o = n
        <3>1. /\ disk[n].term \in Nat /\ persistent[n].term \in Nat
              /\ disk[n].term <= persistent[n].term
            BY Remembered
        <3>2. disk'[n].term < persistent'[n].term
            BY <1>2, <1>3, <1>4, <3>1
        <3> QED
            BY <1>2, <1>4, <2>1, <3>2
    <2>2. CASE o # n
        <3>1. CandidateStays(o)
            BY <1>0, <1>3, <2>2 DEF CandidateStays, Keep, TypeOK
        <3> QED
            BY <1>3, <3>1, CandidateCarried
    <2> QED
        BY <2>1, <2>2
<1>9. Won'
    BY <1>3, WonCarried
<1> QED
    BY <1>5, <1>6, <1>7, <1>8, <1>9 DEF ElectionInv, ElectionStep

\* A candidate that a RequestVote of its own term does not depose keeps its
\* record, and if it may vote for the sender, it is the sender and its
\* candidacy is saved.
LEMMA CandidateAsked ==
    ASSUME ElectionInv, NEW n \in Node, NEW m \in rpcs, m.type = "vote",
           m.term >= persistent[n].term, ~StepsDown(n, m)
    PROVE  /\ WithTerm(persistent[n], m.term) = persistent[n]
           /\ (role[n] = "candidate" /\ CanVoteFor(persistent[n], m.src))
                 => m.src = n /\ persistent[n].vote = n
                    /\ disk[n].term = persistent[n].term
<1>0. TypeOK /\ MessagesHonest /\ m \in Rpc
    BY DEF ElectionInv, TypeInv, TypeOK
<1>1. m.term \in Nat /\ persistent[n] \in Persistent
    BY <1>0, RpcFields DEF TypeOK
<1>2. /\ disk[n].term \in Nat /\ persistent[n].term \in Nat
      /\ disk[n].term <= persistent[n].term
    BY Remembered
<1>3. m.term = persistent[n].term
    BY <1>1, <1>2 DEF StepsDown
<1>4. WithTerm(persistent[n], m.term) = persistent[n]
    BY <1>1, <1>2, <1>3, WithTermLater
<1>5. ASSUME role[n] = "candidate", CanVoteFor(persistent[n], m.src)
      PROVE  m.src = n /\ persistent[n].vote = n /\ disk[n].term = persistent[n].term
    <2>1. persistent[n].vote = n
        BY <1>5 DEF ElectionInv, CandidatesHonest
    <2>2. m.src = n
        BY <1>5, <2>1, NodeAssumption DEF CanVoteFor
    <2>3. m.term <= disk[n].term
        BY <1>0, <2>2 DEF MessagesHonest, Solicits
    <2> QED
        BY <1>2, <1>3, <2>1, <2>2, <2>3
<1> QED
    BY <1>4, <1>5

\* A vote that cannot be written is not answered.
LEMMA ElectionVoteFails ==
    ASSUME ElectionInv, TypeInv', NEW n \in Node, NEW m \in rpcs, RecordVoteFails(n, m)
    PROVE  ElectionStep
<1> DEFINE p == WithTerm(persistent[n], m.term)
           q == [p EXCEPT !.vote = m.src]
<1>0. TypeOK /\ DiskBehind /\ m \in Rpc
    BY DEF ElectionInv, TypeInv, TypeOK
<1>1. m.src \in Node /\ m.term \in Nat /\ persistent[n] \in Persistent
    BY <1>0, RpcFields DEF TypeOK
<1>2. m.type = "vote" /\ m.term >= persistent[n].term /\ CanVoteFor(p, m.src)
    BY DEF RecordVoteFails, Received
<1>3. p \in Persistent /\ Later(persistent[n], p)
    BY <1>1, <1>2, WithTermType, WithTermLater
<1>4. ~StepsDown(n, m) =>
         /\ p = persistent[n]
         /\ (role[n] = "candidate" /\ CanVoteFor(persistent[n], m.src))
                => m.src = n /\ persistent[n].vote = n
    BY <1>2, CandidateAsked
<1>5. /\ Keep(n, q)
      /\ IF StepsDown(n, m) THEN Save(n, p) /\ BecomeFollower(n, None)
         ELSE UNCHANGED <<disk, role, leaderId, votesReceived>>
      /\ rpcs' = rpcs \ {m} /\ UNCHANGED <<grants, elected>>
    BY DEF RecordVoteFails, history
<1> HIDE DEF p
<1>6. q \in Persistent /\ q.term = p.term /\ q.vote = m.src /\ Later(p, q)
    BY <1>1, <1>2, <1>3, VoteLater
<1> HIDE DEF q
<1>7. DurableStep
    BY <1>0, <1>3, <1>5, <1>6, StoreStep
<1>8. ASSUME NEW o \in Node, role'[o] = "candidate" PROVE CandidateStays(o)
    <2>1. CASE StepsDown(n, m)
        <3>1. /\ role'[n] # "candidate"
              /\ \A k \in Peers(n) : /\ role'[k] = role[k]
                                     /\ votesReceived'[k] = votesReceived[k]
            BY <1>0, <1>5, <2>1, FollowerVolatile
        <3>2. o \in Peers(n)
            BY <1>8, <3>1 DEF Peers
        <3>3. persistent'[o] = persistent[o] /\ disk'[o] = disk[o]
            BY <1>0, <1>5, <2>1, <3>2 DEF Keep, Save, TypeOK, Peers
        <3> QED
            BY <1>8, <3>1, <3>2, <3>3 DEF CandidateStays
    <2>2. CASE ~StepsDown(n, m)
        <3>1. role[o] = "candidate" /\ UNCHANGED <<disk, votesReceived>>
            BY <1>5, <1>8, <2>2
        <3>2. persistent'[o] = IF o = n THEN q ELSE persistent[o]
            BY <1>0, <1>5 DEF Keep, TypeOK
        <3>3. o = n => q.term = persistent[n].term /\ q.vote = persistent[n].vote
            BY <1>2, <1>4, <1>6, <2>2, <3>1
        <3> QED
            BY <3>1, <3>2, <3>3 DEF CandidateStays
    <2> QED
        BY <2>1, <2>2
<1>9. Quiet
    BY <1>5, <1>8 DEF Quiet, SameVote
<1> QED
    BY <1>7, <1>9, QuietStep DEF ElectionStep

\* A vote is decided on the record as saved, and answered after it is saved.
LEMMA ElectionVote ==
    ASSUME ElectionInv, TypeInv', NEW n \in Node, NEW m \in rpcs, HandleRequestVote(n, m)
    PROVE  ElectionStep
<1> DEFINE p == WithTerm(persistent[n], m.term)
           granted == /\ CanVoteFor(p, m.src)
                      /\ UpToDate(m.lastTerm, m.lastIndex, p.log)
           q == IF granted THEN [p EXCEPT !.vote = m.src] ELSE p
           reply == VoteReply(m, q.term, granted)
           G == IF granted THEN {<<n, q.term, m.src>>} ELSE {}
<1>0. TypeOK /\ TypeOK' /\ DiskBehind /\ MessagesHonest /\ m \in Rpc
    BY DEF ElectionInv, TypeInv, TypeOK
<1>1. m.src \in Node /\ m.term \in Nat /\ persistent[n] \in Persistent
    BY <1>0, RpcFields DEF TypeOK
<1>2. m.type = "vote" /\ m.dst = n /\ m.term >= persistent[n].term
    BY DEF HandleRequestVote, Received
<1>3. p \in Persistent /\ p.term = m.term /\ Later(persistent[n], p)
    BY <1>1, <1>2, WithTermType, WithTermLater
<1>4. ~StepsDown(n, m) =>
         /\ p = persistent[n]
         /\ (role[n] = "candidate" /\ CanVoteFor(persistent[n], m.src))
                => /\ m.src = n /\ persistent[n].vote = n
                   /\ disk[n].term = persistent[n].term
    BY <1>2, CandidateAsked
<1>5. /\ Keep(n, q)
      /\ IF StepsDown(n, m) \/ granted THEN Save(n, q) ELSE UNCHANGED disk
      /\ IF StepsDown(n, m) THEN BecomeFollower(n, None)
         ELSE UNCHANGED <<role, leaderId, votesReceived>>
      /\ Answer(m, reply)
      /\ grants' = grants \cup G
      /\ elected' = elected
    BY DEF HandleRequestVote
<1>6. granted => CanVoteFor(p, m.src)
    OBVIOUS
<1>7. /\ reply.type = "voted" /\ reply.src = n /\ reply.dst = m.src
      /\ reply.term = q.term /\ reply.granted = granted
    BY <1>2 DEF VoteReply
<1>8. /\ \A g \in G : granted /\ g[1] = n /\ g[2] = q.term /\ g[3] = m.src
      /\ \A g, h \in G : g = h
      /\ granted => <<n, q.term, m.src>> \in G
    OBVIOUS
<1> HIDE DEF p, reply, G
<1>9. /\ q \in Persistent /\ q.term = m.term /\ Later(p, q)
      /\ granted => q.vote = m.src
      /\ ~granted => q = p
    <2>1. CASE granted
        BY <1>1, <1>3, <1>6, <2>1, VoteLater
    <2>2. CASE ~granted
        BY <1>3, <2>2, LaterOrder
    <2> QED
        BY <2>1, <2>2
<1> HIDE DEF q, granted
<1>10. persistent'[n] = q /\ (granted => disk'[n] = q)
    BY <1>0, <1>5 DEF Keep, Save, TypeOK
<1>11. DurableStep
    <2>1. Later(persistent[n], q) /\ Later(q, q)
        BY <1>1, <1>3, <1>9, LaterOrder
    <2> QED
        BY <1>0, <1>5, <1>9, <2>1, StoreStep
<1>12. m.term <= disk'[m.src].term
    <2>1. m.term <= disk[m.src].term
        BY <1>0, <1>2 DEF MessagesHonest, Solicits
    <2>2. Later(disk[m.src], disk'[m.src])
        BY <1>1, <1>11 DEF DurableStep
    <2>3. disk[m.src].term \in Nat /\ disk'[m.src].term \in Nat
        BY <1>0, <1>1, PersistentFields DEF TypeOK
    <2> QED
        BY <1>1, <2>1, <2>2, <2>3 DEF Later
<1>13. DiskBehind' /\ VotesUnique' /\ VoteDurable' /\ CandidacySaved'
    <2>1. ASSUME NEW g \in G
          PROVE  /\ disk'[g[1]].term = g[2] /\ disk'[g[1]].vote = g[3]
                 /\ g[2] <= disk'[g[3]].term
        BY <1>8, <1>9, <1>10, <1>12
    <2>2. ASSUME NEW g \in G, NEW h \in grants, h[1] = g[1], h[2] = g[2]
          PROVE  h[3] = g[3]
        <3>1. h[1] = n /\ h[2] = m.term /\ g[3] = m.src /\ CanVoteFor(p, m.src)
            BY <1>6, <1>8, <1>9, <2>2
        <3>2. persistent[n].term = m.term /\ persistent[n].vote = h[3]
            <4>1. \/ persistent[n].term > h[2]
                  \/ persistent[n].term = h[2] /\ persistent[n].vote = h[3]
                BY <3>1, Remembered
            <4>2. persistent[n].term \in Nat
                BY Remembered
            <4> QED
                BY <1>1, <1>2, <3>1, <4>1, <4>2
        <3>3. p = persistent[n]
            BY <1>1, <1>2, <3>2, WithTermLater DEF p
        <3>4. h[3] # None
            BY <1>0, NodeAssumption DEF TypeOK
        <3> QED
            BY <3>1, <3>2, <3>3, <3>4 DEF CanVoteFor
    <2> QED
        BY <1>0, <1>5, <1>8, <1>11, <2>1, <2>2, VotesCarried
<1>14. MessagesHonest'
    <2>1. ASSUME NEW r \in rpcs', r = reply PROVE Solicits(r)' /\ Grants(r, grants')
        <3>1. /\ r.type = "voted" /\ r.src = n /\ r.dst = m.src
              /\ r.term = q.term /\ r.granted = granted
            BY <1>7, <2>1
        <3> QED
            BY <1>5, <1>8, <3>1 DEF Solicits, Grants
    <2>2. \A r \in rpcs' : r \in rpcs \/ r = reply
        BY <1>5, AnswerMessages
    <2>3. ASSUME NEW r \in rpcs'
          PROVE  \/ \E x \in rpcs : SameVote(x, r)
                 \/ Solicits(r)' /\ Grants(r, grants')
        <3>1. CASE r \in rpcs
            BY <3>1 DEF SameVote
        <3>2. CASE r = reply
            BY <2>1, <3>2
        <3> QED
            BY <2>2, <3>1, <3>2
    <2>4. grants \subseteq grants'
        BY <1>5
    <2> QED
        BY <1>0, <1>11, <2>3, <2>4, MessagesCarried
<1>15. CandidatesHonest'
    <2> SUFFICES ASSUME NEW o \in Node, role'[o] = "candidate" PROVE CandidateStays(o)
        BY <1>5, CandidateCarried DEF CandidatesHonest
    <2>1. CASE StepsDown(n, m)
        <3>1. /\ role'[n] # "candidate"
              /\ \A k \in Peers(n) : /\ role'[k] = role[k]
                                     /\ votesReceived'[k] = votesReceived[k]
            BY <1>0, <1>5, <2>1, FollowerVolatile
        <3>2. o \in Peers(n)
            BY <3>1 DEF Peers
        <3>3. persistent'[o] = persistent[o] /\ disk'[o] = disk[o]
            BY <1>0, <1>5, <2>1, <3>2 DEF Keep, Save, TypeOK, Peers
        <3> QED
            BY <3>1, <3>2, <3>3 DEF CandidateStays
    <2>2. CASE ~StepsDown(n, m)
        <3>1. role[o] = "candidate" /\ votesReceived' = votesReceived
            BY <1>5, <2>2
        <3>2. /\ persistent'[o] = IF o = n THEN q ELSE persistent[o]
              /\ \/ disk'[o] = disk[o]
                 \/ o = n /\ granted /\ disk'[o] = q
            BY <1>0, <1>5, <2>2 DEF Keep, Save, TypeOK
        <3>3. CASE o = n /\ granted
            <4>1. q.term = persistent[n].term /\ q.vote = persistent[n].vote
                  /\ disk[n].term = persistent[n].term
                BY <1>3, <1>4, <1>6, <1>9, <2>2, <3>1, <3>3
            <4> QED
                BY <3>1, <3>2, <3>3, <4>1 DEF CandidateStays
        <3>4. CASE ~(o = n /\ granted)
            <4>1. o = n => q = persistent[n]
                BY <1>4, <1>9, <2>2, <3>4
            <4> QED
                BY <3>1, <3>2, <3>4, <4>1 DEF CandidateStays
        <3> QED
            BY <3>3, <3>4
    <2> QED
        BY <2>1, <2>2
<1>16. Won'
    BY <1>5, WonCarried
<1> QED
    BY <1>11, <1>13, <1>14, <1>15, <1>16 DEF ElectionInv, ElectionStep

\* A candidate that counts a vote has its candidacy on disk, so all the votes
\* it has collected are of its term; with a majority of them it leads.
LEMMA ElectionCount ==
    ASSUME ElectionInv, TypeInv', NEW n \in Node, NEW m \in rpcs, CountVote(n, m)
    PROVE  ElectionStep
<1> DEFINE votes == votesReceived[n] \cup {m.src}
           t == persistent[n].term
<1>0. TypeOK /\ TypeOK' /\ DiskBehind /\ MessagesHonest /\ m \in Rpc
    BY DEF ElectionInv, TypeInv, TypeOK
<1>1. m.src \in Node /\ votes \in SUBSET Node
    BY <1>0, RpcFields DEF TypeOK
<1>2. /\ m.type = "voted" /\ m.dst = n /\ m.term = t
      /\ role[n] = "candidate" /\ m.granted
      /\ votesReceived' = [votesReceived EXCEPT ![n] = votes]
      /\ rpcs' = rpcs \ {m}
      /\ UNCHANGED <<persistent, disk, grants>>
    BY DEF CountVote, Received, durable
<1>3. <<m.src, t, n>> \in grants
    BY <1>0, <1>2 DEF MessagesHonest, Grants
<1>4. \A v \in votes : <<v, t, n>> \in grants
    <2>1. t <= disk[n].term
        BY <1>3 DEF ElectionInv, CandidacySaved
    <2>2. ~(disk[n].term < t)
        BY <2>1, Remembered
    <2>3. VotesCollected(n)
        BY <1>2, <2>2 DEF ElectionInv, CandidatesHonest
    <2> QED
        BY <1>3, <2>3 DEF VotesCollected
<1> HIDE DEF votes
<1>5. DurableStep
    BY <1>0, <1>2, SameDurable
<1>6. DiskBehind' /\ VotesUnique' /\ VoteDurable' /\ CandidacySaved'
    <2> DEFINE G == {}
    <2>1. grants' = grants \cup G /\ \A g \in G : FALSE
        BY <1>2
    <2> HIDE DEF G
    <2> QED
        BY <1>0, <1>5, <2>1, VotesCarried
<1>7. MessagesHonest'
    <2>1. \A r \in rpcs' : \E x \in rpcs : SameVote(x, r)
        BY <1>2 DEF SameVote
    <2> QED
        BY <1>0, <1>2, <1>5, <2>1, MessagesCarried
<1>8. CandidatesHonest'
    <2> SUFFICES ASSUME NEW o \in Node, role'[o] = "candidate"
                 PROVE  /\ persistent'[o].vote = o
                        /\ disk'[o].term < persistent'[o].term \/ VotesCollected(o)'
        BY DEF CandidatesHonest
    <2>1. CASE o = n
        <3>1. votesReceived'[n] = votes
            BY <1>0, <1>2 DEF TypeOK
        <3>2. persistent[n].vote = n
            BY <1>2 DEF ElectionInv, CandidatesHonest
        <3>3. VotesCollected(n)'
            BY <1>2, <1>4, <3>1 DEF VotesCollected
        <3> QED
            BY <1>2, <2>1, <3>2, <3>3
    <2>2. CASE o # n
        <3>1. role'[o] = role[o]
            <4>1. role' = [role EXCEPT ![n] = "leader"] \/ role' = role
                BY DEF CountVote, BecomeLeader
            <4> QED
                BY <1>0, <2>2, <4>1 DEF TypeOK
        <3>2. CandidateStays(o)
            BY <1>0, <1>2, <2>2, <3>1 DEF CandidateStays, TypeOK
        <3> QED
            BY <1>2, <3>2, CandidateCarried
    <2> QED
        BY <2>1, <2>2
<1>9. Won'
    <2>1. CASE Cardinality(votes) >= Majority
        <3>1. elected' = elected \cup {<<t, n>>}
            BY <2>1 DEF CountVote, BecomeLeader, votes
        <3>2. \A e \in elected : Backed(e, grants')
            BY <1>2 DEF ElectionInv, Won
        <3>3. Backed(<<t, n>>, grants')
            BY <1>1, <1>2, <1>4, <2>1 DEF Backed
        <3> QED
            BY <3>1, <3>2, <3>3 DEF Won
    <2>2. CASE ~(Cardinality(votes) >= Majority)
        <3>1. elected' = elected
            BY <2>2 DEF CountVote, votes
        <3> QED
            BY <1>2, <3>1, WonCarried
    <2> QED
        BY <2>1, <2>2
<1> QED
    BY <1>5, <1>6, <1>7, <1>8, <1>9 DEF ElectionInv, ElectionStep

-----------------------------------------------------------------------------
(* The theorems.                                                            *)

\* The invariant holds of a cluster that has never run.
LEMMA ElectionInit == Init => ElectionInv
<1> SUFFICES ASSUME Init PROVE ElectionInv
    OBVIOUS
<1>1. TypeInv
    BY TypeInit
<1>2. DiskBehind
    BY <1>1, LaterOrder DEF Init, DiskBehind, TypeInv, TypeOK
<1> QED
    BY <1>1, <1>2 DEF Init, ElectionInv, VotesUnique, VoteDurable, CandidacySaved,
                      MessagesHonest, CandidatesHonest, Won

\* Every step keeps it, and moves the disks only forward.
LEMMA ElectionNext == ElectionInv /\ [Next]_vars => ElectionStep
<1> SUFFICES ASSUME ElectionInv, [Next]_vars PROVE ElectionStep
    OBVIOUS
<1>0. TypeInv'
    BY TypeNext DEF ElectionInv
<1>1. ASSUME NEW n \in Node, Consensus(n) PROVE ElectionStep
    <2>1. CASE StartElection(n)
        BY <1>0, <2>1, ElectionStart
    <2>2. CASE StartElectionFails(n)
        BY <1>0, <2>2, ElectionStartFails
    <2>3. CASE Heartbeat(n)
        BY <1>0, <2>3, ElectionUnrelated
    <2>4. ASSUME NEW m \in rpcs, HandleRpc(n, m) PROVE ElectionStep
        <3>1. CASE HandleRequestVote(n, m)
            BY <1>0, <3>1, ElectionVote
        <3>2. CASE RecordVoteFails(n, m)
            BY <1>0, <3>2, ElectionVoteFails
        <3>3. CASE \/ RejectMismatchedAppend(n, m) \/ AcceptAppend(n, m)
                   \/ AppendSaveFails(n, m)
            BY <1>0, <3>3, ElectionAppend
        <3>4. CASE StepDownOnReply(n, m) \/ StepDownFails(n, m)
            BY <1>0, <3>4, ElectionStepDown
        <3>5. CASE CountVote(n, m)
            BY <1>0, <3>5, ElectionCount
        <3>6. CASE \/ RejectStaleVote(n, m) \/ RejectStaleAppend(n, m)
                   \/ AppendSucceeded(n, m) \/ AppendFailed(n, m) \/ IgnoreReply(n, m)
            BY <1>0, <3>6, ElectionUnrelated
        <3> QED
            BY <2>4, <3>1, <3>2, <3>3, <3>4, <3>5, <3>6 DEF HandleRpc
    <2> QED
        BY <1>1, <2>1, <2>2, <2>3, <2>4 DEF Consensus
<1>2. ASSUME NEW n \in Node, NEW v \in Value, Propose(n, v) PROVE ElectionStep
    BY <1>0, <1>2, ElectionPropose
<1>3. ASSUME NEW n \in Node, TakeCommitted(n) PROVE ElectionStep
    BY <1>0, <1>3, ElectionUnrelated
<1>4. ASSUME NEW n \in Node, Restart(n) PROVE ElectionStep
    BY <1>0, <1>4, ElectionRestart
<1>5. CASE UNCHANGED vars
    <2>1. UNCHANGED <<persistent, disk, role, votesReceived, grants, elected, rpcs>>
        BY <1>5 DEF vars, durable, volatile, history
    <2> QED
        BY <1>0, <2>1, Unrelated
<1> QED
    BY <1>1, <1>2, <1>3, <1>4, <1>5 DEF Next

\* Two majorities share a member, and it voted once.
LEMMA OneLeader == ElectionInv => ElectionSafety
<1> SUFFICES ASSUME ElectionInv, NEW e \in elected, NEW f \in elected, e[1] = f[1]
             PROVE  e[2] = f[2]
    BY DEF ElectionSafety
<1>1. PICK P \in SUBSET Node : /\ Cardinality(P) >= Majority
                               /\ \A v \in P : <<v, e[1], e[2]>> \in grants
    BY DEF ElectionInv, Won, Backed
<1>2. PICK Q \in SUBSET Node : /\ Cardinality(Q) >= Majority
                               /\ \A v \in Q : <<v, f[1], f[2]>> \in grants
    BY DEF ElectionInv, Won, Backed
<1>3. P \cap Q # {}
    <2>1. IsFiniteSet(Node) /\ IsFiniteSet(P) /\ IsFiniteSet(Q)
        BY NodeAssumption, FS_Subset
    <2>2. Cardinality(Node) \in Nat /\ Cardinality(P) \in Nat /\ Cardinality(Q) \in Nat
        BY <2>1, FS_CardinalityType
    <2>3. Cardinality(P) + Cardinality(Q) > Cardinality(Node)
        BY <1>1, <1>2, <2>2 DEF Majority
    <2> QED
        BY <2>1, <2>3, FS_MajoritiesIntersect
<1>4. PICK v \in P \cap Q : TRUE
    BY <1>3
<1>5. <<v, e[1], e[2]>> \in grants /\ <<v, e[1], f[2]>> \in grants
    BY <1>1, <1>2, <1>4
<1> QED
    BY <1>5 DEF ElectionInv, VotesUnique

\* The invariant holds in every reachable state.
THEOREM ElectionInvariant == Spec => []ElectionInv
<1>1. ElectionInv /\ [Next]_vars => ElectionInv'
    BY ElectionNext DEF ElectionStep
<1> QED
    BY <1>1, ElectionInit, PTL DEF Spec

\* No term ever has two leaders, whatever is lost, delayed or reordered,
\* whoever restarts and whichever disk writes fail.
THEOREM ElectionSafe == Spec => []ElectionSafety
    BY ElectionInvariant, OneLeader, PTL

\* A vote that was answered is in the voter's state.bin until the voter is in
\* a later term, so that no restart can make it vote twice.
THEOREM VotesDurable == Spec => []VoteDurable
<1>1. ElectionInv => VoteDurable
    BY DEF ElectionInv
<1> QED
    BY <1>1, ElectionInvariant, PTL

\* No step, a restart or a failed write included, takes the term in state.bin
\* back or replaces the vote in it by another of the same term.
THEOREM DiskVoteStable == Spec => DurableVoteStable
<1> DEFINE Stable == \A n \in Node :
              /\ disk'[n].term >= disk[n].term
              /\ (disk'[n].term = disk[n].term /\ disk[n].vote # None)
                    => disk'[n].vote = disk[n].vote
<1>1. ElectionInv /\ [Next]_vars => Stable
    <2> SUFFICES ASSUME ElectionInv, [Next]_vars, NEW n \in Node
                 PROVE  /\ disk'[n].term >= disk[n].term
                        /\ (disk'[n].term = disk[n].term /\ disk[n].vote # None)
                              => disk'[n].vote = disk[n].vote
        OBVIOUS
    <2>1. ElectionInv' /\ DurableStep
        BY ElectionNext DEF ElectionStep
    <2>2. Later(disk[n], disk'[n])
        BY <2>1 DEF DurableStep
    <2>3. disk[n].term \in Nat /\ disk'[n].term \in Nat
        BY <2>1, PersistentFields DEF ElectionInv, TypeInv, TypeOK
    <2> QED
        BY <2>2, <2>3 DEF Later
<1>2. ElectionInv /\ [Next]_vars => [Stable]_vars
    BY <1>1
<1> QED
    BY <1>2, ElectionInvariant, PTL DEF Spec, DurableVoteStable
=============================================================================
