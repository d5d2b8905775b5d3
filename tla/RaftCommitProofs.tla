--------------------------- MODULE RaftCommitProofs ----------------------------
(***************************************************************************)
(* Commit safety: a committed entry stays committed, whoever leads later.  *)
(* Proved for any finite cluster with lost, delayed and reordered RPCs and *)
(* restarts at any moment, while no disk write has failed and as long as   *)
(* replies do not outlive the term of their request.  Both provisos are    *)
(* needed: without either one the implementation loses committed entries.  *)
(*                                                                         *)
(* The proof follows a log prefix P that ends in an entry of term y and a  *)
(* set A of members that hold it.  Once P is safe, every leader, every     *)
(* AppendEntries and every candidate that A voted for in y or later agrees *)
(* with P; it stays safe unless a majority outside A has moved beyond y.   *)
(* A leader's own entries are safe for the members that acknowledged them, *)
(* and no majority is outside another: that is why counting                *)
(* acknowledgements commits.                                               *)
(***************************************************************************)
EXTENDS RaftReplicationProofs

Quorum == {Q \in SUBSET Node : Cardinality(Q) >= Majority}

\* An AppendEntries says nothing that contradicts P.
Agrees(m, P) ==
    /\ \A k \in 1..Len(m.entries) :
          m.prevIndex + k <= Len(P) => m.entries[k] = P[m.prevIndex + k]
    /\ m.prevIndex \in 1..Len(P) => m.prevTerm = P[m.prevIndex].term
    /\ m.prevIndex > Len(P) => m.prevTerm >= LastTerm(P)

\* The members of A hold P and have reached its term.
Holding(P, A) ==
    \A w \in A : /\ persistent[w].term >= LastTerm(P)
                 /\ Starts(persistent[w].log, P)

\* From the term of P on, leaders hold it and what they send agrees with it.
LeadersHold(P) ==
    \A n \in Node : (role[n] = "leader" /\ persistent[n].term >= LastTerm(P))
                        => Starts(persistent[n].log, P)
SentHold(P) ==
    \A m \in rpcs : (m.type = "append" /\ m.term >= LastTerm(P)) => Agrees(m, P)

\* Entries of later terms come after P.
LinkAfter(l, P) == l.entry.term > LastTerm(P) => l.index > Len(P) /\ l.prev >= LastTerm(P)
LinksAfter(P) == \A l \in Links : LinkAfter(l, P)

\* A candidate of a later term that a member of A voted for holds P.
VotesHold(P, A) ==
    \A n \in Node, w \in A :
        (/\ role[n] = "candidate" /\ persistent[n].term > LastTerm(P)
         /\ <<w, persistent[n].term, n>> \in grants)
            => Starts(persistent[n].log, P)

Safe(P, A) ==
    /\ Holding(P, A) /\ LeadersHold(P) /\ SentHold(P) /\ LinksAfter(P) /\ VotesHold(P, A)

\* A majority outside A has moved beyond term t.
Dead(t, A) ==
    \E Q \in Quorum : Q \cap A = {} /\ \A w \in Q : persistent[w].term > t

-----------------------------------------------------------------------------
(* Majorities and prefixes.                                                 *)

\* Two majorities share a member.
LEMMA QuorumsMeet ==
    ASSUME NEW P \in Quorum, NEW Q \in Quorum
    PROVE  P \cap Q # {}
<1>1. IsFiniteSet(Node) /\ IsFiniteSet(P) /\ IsFiniteSet(Q) /\ P \subseteq Node /\ Q \subseteq Node
    BY NodeAssumption, FS_Subset DEF Quorum
<1>2. Cardinality(Node) \in Nat /\ Cardinality(P) \in Nat /\ Cardinality(Q) \in Nat
    BY <1>1, FS_CardinalityType
<1>3. Cardinality(P) + Cardinality(Q) > Cardinality(Node)
    BY <1>2 DEF Majority, Quorum
<1> QED
    BY <1>1, <1>3, FS_MajoritiesIntersect

\* So a majority is never outlived, and is not empty.
LEMMA QuorumLives ==
    ASSUME NEW A \in Quorum
    PROVE  /\ \A t : ~Dead(t, A)
           /\ A # {} /\ A \in SUBSET Node
<1>1. \A t : ~Dead(t, A)
    BY QuorumsMeet DEF Dead
<1>2. A \cap A # {}
    BY QuorumsMeet
<1> QED
    BY <1>1, <1>2 DEF Quorum

\* The links of a prefix.
LEMMA PrefixLinks ==
    ASSUME NEW log \in Seq(Entry), NEW P \in Seq(Entry), Starts(log, P)
    PROVE  LogLinks(P) \subseteq LogLinks(log)
<1> SUFFICES ASSUME NEW i \in 1..Len(P) PROVE LogLink(P, i) \in LogLinks(log)
    BY DEF LogLinks
<1>1. Len(P) \in Nat /\ Len(log) \in Nat /\ Len(P) <= Len(log)
    BY DEF Starts
<1>2. i \in 1..Len(log) /\ log[i] = P[i]
    BY <1>1 DEF Starts
<1>3. TermAt(P, i - 1) = TermAt(log, i - 1)
    <2>1. i = 1 \/ (i - 1 \in 1..Len(P) /\ i - 1 \in 1..Len(log))
        BY <1>1
    <2> QED
        BY <1>1, <2>1 DEF TermAt, Starts
<1> QED
    BY <1>2, <1>3 DEF LogLink, LogLinks

\* A log that has an entry of P's term at or after P's end, or an entry of a
\* later term, begins with P: entries of later terms come after P, and those
\* of one term follow one another.
LEMMA ChainHolds ==
    ASSUME LinksUnique, LinksContiguous,
           NEW P \in Seq(Entry), Len(P) # 0, LogLinks(P) \subseteq Links, LinksAfter(P),
           NEW log \in Seq(Entry), LogLinks(log) \subseteq Links,
           NEW i \in 1..Len(log),
           \/ log[i].term > LastTerm(P)
           \/ log[i].term = LastTerm(P) /\ i >= Len(P)
    PROVE  Starts(log, P)
<1> DEFINE y == LastTerm(P)
<1>0. /\ Len(P) \in Nat /\ Len(log) \in Nat /\ y \in Nat /\ i \in Nat
      /\ \A k \in 1..Len(log) : log[k].term \in Nat
      /\ y = P[Len(P)].term /\ Len(P) \in 1..Len(P)
    <2>1. \A k \in 1..Len(log) : log[k] \in Entry
        OBVIOUS
    <2>2. \A k \in 1..Len(log) : log[k].term \in Nat
        BY <2>1 DEF Entry
    <2>3. LastTerm(P) \in Nat /\ LastTerm(P) = P[Len(P)].term /\ Len(P) \in 1..Len(P)
        BY LastTermIs
    <2>4. Len(P) \in Nat /\ Len(log) \in Nat /\ i \in Nat
        OBVIOUS
    <2> QED
        BY <2>2, <2>3, <2>4
<1>1. ASSUME NEW k \in 1..Len(log)
      PROVE  /\ LogLink(log, k) \in Links /\ LogLink(log, k).index = k
             /\ LogLink(log, k).entry = log[k]
             /\ k # 1 => LogLink(log, k).prev = log[k - 1].term
    BY LogLinkParts
<1>2. /\ LogLink(P, Len(P)) \in Links /\ LogLink(P, Len(P)).index = Len(P)
      /\ LogLink(P, Len(P)).entry = P[Len(P)]
    BY <1>0, LogLinkParts
<1> HIDE DEF y
<1>3. \E j \in 1..Len(log) : log[j].term = y /\ j >= Len(P)
    <2>1. CASE log[i].term = y /\ i >= Len(P)
        BY <2>1
    <2>2. CASE log[i].term > y
        <3> DEFINE D == {j \in 1..Len(log) : log[j].term > y}
        <3>1. D \in SUBSET Nat /\ D # {}
            BY <2>2
        <3>2. PICK j \in D : \A x \in D : j <= x
            BY <3>1, MinExists
        <3>3. j \in 1..Len(log) /\ log[j].term > y /\ j \in Nat
            OBVIOUS
        <3>4. LinkAfter(LogLink(log, j), P)
            BY <1>1, <3>3 DEF LinksAfter
        <3>5. j > Len(P) /\ LogLink(log, j).prev >= y
            BY <1>1, <3>3, <3>4 DEF LinkAfter, y
        <3>6. j - 1 \in 1..Len(log) /\ j - 1 >= Len(P) /\ j # 1
            BY <1>0, <3>3, <3>5
        <3>7. log[j - 1].term >= y
            BY <1>1, <3>3, <3>5, <3>6
        <3>8. j - 1 \notin D
            BY <1>0, <3>2, <3>3, <3>6
        <3>9. log[j - 1].term = y
            BY <1>0, <3>6, <3>7, <3>8
        <3> QED
            BY <3>6, <3>9
    <2> QED
        BY <2>1, <2>2 DEF y
<1>4. Len(P) \in 1..Len(log) /\ log[Len(P)].term = y
    <2> DEFINE D == {j \in 1..Len(log) : log[j].term = y /\ j >= Len(P)}
    <2>1. D \in SUBSET Nat /\ D # {}
        BY <1>3
    <2>2. PICK j \in D : \A x \in D : j <= x
        BY <2>1, MinExists
    <2>3. j \in 1..Len(log) /\ log[j].term = y /\ j >= Len(P) /\ j \in Nat
        OBVIOUS
    <2>4. CASE j = Len(P)
        BY <2>3, <2>4
    <2>5. CASE j # Len(P)
        <3>1. j - 1 \in 1..Len(log) /\ j - 1 >= Len(P) /\ j # 1 /\ Len(P) < j
            BY <1>0, <2>3, <2>5
        <3>2. LogLink(log, j).prev = y
            <4>1. /\ LogLink(log, j) \in Links /\ LogLink(log, j).index = j
                  /\ LogLink(log, j).entry.term = y
                BY <1>1, <2>3
            <4>2. LogLink(P, Len(P)).entry.term = y
                BY <1>0, <1>2
            <4> QED
                BY <1>2, <3>1, <4>1, <4>2 DEF LinksContiguous
        <3>3. j - 1 \in D
            BY <1>1, <2>3, <3>1, <3>2
        <3> QED
            BY <1>0, <2>2, <2>3, <3>3
    <2> QED
        BY <2>4, <2>5
<1>5. \A j \in 1..Len(P) : P[j] = log[j]
    <2>1. Len(P) <= Len(log) /\ P[Len(P)].term = log[Len(P)].term /\ Len(P) \in 1..Len(P)
        BY <1>0, <1>4
    <2> QED
        BY <2>1, LinksMatch DEF LinksUnique
<1> QED
    BY <1>0, <1>4, <1>5 DEF Starts

-----------------------------------------------------------------------------
(* Merging an AppendEntries that agrees with P.                             *)

\* What a log has in common with P it keeps.
LEMMA MergeKeeps ==
    ASSUME NEW log \in Seq(Entry), NEW m \in AppendRequests, NEW q \in Seq(Entry),
           Merged(log, m.prevIndex, m.entries, q),
           NEW P \in Seq(Entry), Agrees(m, P),
           NEW i \in Nat, i <= Len(P), i <= Len(log), \A j \in 1..i : log[j] = P[j]
    PROVE  i <= Len(q) /\ \A j \in 1..i : q[j] = P[j]
<1>0. /\ m.prevIndex \in Nat /\ m.entries \in Seq(Entry) /\ Len(m.entries) \in Nat
      /\ Len(log) \in Nat /\ Len(q) \in Nat /\ Len(P) \in Nat
    BY DEF AppendRequests
<1>1. CASE q = log
    BY <1>1
<1>2. ASSUME NEW k \in 1..Len(m.entries),
             Len(q) = m.prevIndex + Len(m.entries),
             m.prevIndex + k - 1 <= Len(log),
             \A j \in 1..(m.prevIndex + k - 1) : q[j] = log[j],
             m.prevIndex + k > Len(log) \/ log[m.prevIndex + k].term # m.entries[k].term
      PROVE  i <= Len(q) /\ \A j \in 1..i : q[j] = P[j]
    <2>0. k \in Nat /\ k >= 1 /\ k <= Len(m.entries)
        BY <1>0
    <2>1. m.prevIndex + k > i
        <3> SUFFICES ASSUME m.prevIndex + k <= i PROVE FALSE
            BY <1>0, <2>0
        <3>1. m.prevIndex + k \in 1..i /\ m.prevIndex + k <= Len(P) /\ ~(m.prevIndex + k > Len(log))
            BY <1>0, <2>0
        <3>2. log[m.prevIndex + k] = m.entries[k]
            BY <3>1 DEF Agrees
        <3> QED
            BY <1>2, <3>1, <3>2
    <2>2. i <= Len(q) /\ \A j \in 1..i : j \in 1..(m.prevIndex + k - 1)
        <3>1. Len(q) = m.prevIndex + Len(m.entries)
            BY <1>2
        <3>2. i <= m.prevIndex + k - 1
            BY <1>0, <2>0, <2>1
        <3> QED
            BY <1>0, <2>0, <3>1, <3>2
    <2> QED
        BY <1>2, <2>2
<1> QED
    BY <1>1, <1>2 DEF Merged

\* The merged log has the entries' terms, and the previous one's.
LEMMA MergedHas ==
    ASSUME NEW log \in Seq(Entry), NEW m \in AppendRequests, NEW q \in Seq(Entry),
           PrevMatches(log, m.prevIndex, m.prevTerm),
           Merged(log, m.prevIndex, m.entries, q)
    PROVE  /\ Len(q) >= m.prevIndex + Len(m.entries)
           /\ \A k \in 1..Len(m.entries) : q[m.prevIndex + k].term = m.entries[k].term
           /\ m.prevIndex # 0 => q[m.prevIndex].term = m.prevTerm
<1>0. /\ m.prevIndex \in Nat /\ m.entries \in Seq(Entry) /\ Len(m.entries) \in Nat
      /\ Len(log) \in Nat /\ Len(q) \in Nat
    BY DEF AppendRequests
<1>1. m.prevIndex <= Len(log) /\ (m.prevIndex # 0 => log[m.prevIndex].term = m.prevTerm)
    BY <1>0 DEF PrevMatches
<1>2. ASSUME q = log,
             \A k \in 1..Len(m.entries) : /\ m.prevIndex + k <= Len(log)
                                          /\ log[m.prevIndex + k].term = m.entries[k].term
      PROVE  /\ Len(q) >= m.prevIndex + Len(m.entries)
             /\ \A k \in 1..Len(m.entries) : q[m.prevIndex + k].term = m.entries[k].term
             /\ m.prevIndex # 0 => q[m.prevIndex].term = m.prevTerm
    <2>1. Len(log) >= m.prevIndex + Len(m.entries)
        <3>1. Len(m.entries) # 0 => Len(m.entries) \in 1..Len(m.entries)
            BY <1>0
        <3>2. Len(m.entries) # 0 => m.prevIndex + Len(m.entries) <= Len(log)
            BY <1>2, <3>1
        <3> QED
            BY <1>0, <1>1, <3>2
    <2> QED
        BY <1>1, <1>2, <2>1
<1>3. ASSUME NEW k \in 1..Len(m.entries),
             Len(q) = m.prevIndex + Len(m.entries),
             \A i \in 1..(m.prevIndex + k - 1) : q[i] = log[i],
             \A i \in (m.prevIndex + k)..Len(q) : q[i] = m.entries[i - m.prevIndex],
             \A j \in 1..(k - 1) : log[m.prevIndex + j].term = m.entries[j].term
      PROVE  /\ Len(q) >= m.prevIndex + Len(m.entries)
             /\ \A j \in 1..Len(m.entries) : q[m.prevIndex + j].term = m.entries[j].term
             /\ m.prevIndex # 0 => q[m.prevIndex].term = m.prevTerm
    <2>0. k \in Nat /\ k >= 1
        BY <1>0
    <2>1. Len(q) >= m.prevIndex + Len(m.entries)
        BY <1>0, <1>3
    <2>2. ASSUME NEW j \in 1..Len(m.entries) PROVE q[m.prevIndex + j].term = m.entries[j].term
        <3>1. CASE j < k
            <4>1. m.prevIndex + j \in 1..(m.prevIndex + k - 1) /\ j \in 1..(k - 1)
                BY <1>0, <2>0, <3>1
            <4> QED
                BY <1>3, <4>1
        <3>2. CASE j >= k
            <4>1. /\ m.prevIndex + j \in (m.prevIndex + k)..Len(q)
                  /\ (m.prevIndex + j) - m.prevIndex = j
                BY <1>0, <1>3, <2>0, <3>2
            <4>2. q[m.prevIndex + j] = m.entries[(m.prevIndex + j) - m.prevIndex]
                BY <1>3, <4>1
            <4> QED
                BY <4>1, <4>2
        <3> QED
            BY <1>0, <2>0, <3>1, <3>2
    <2>3. ASSUME m.prevIndex # 0 PROVE q[m.prevIndex].term = m.prevTerm
        <3>1. m.prevIndex \in 1..(m.prevIndex + k - 1)
            BY <1>0, <2>0, <2>3
        <3> QED
            BY <1>1, <1>3, <2>3, <3>1
    <2> QED
        BY <2>1, <2>2, <2>3
<1> QED
    BY <1>2, <1>3 DEF Merged

\* Who accepts entries that agree with P holds P as far as they reach.
LEMMA AcceptedHolds ==
    ASSUME LinksUnique, LinksContiguous,
           NEW P \in Seq(Entry), Len(P) # 0, LogLinks(P) \subseteq Links, LinksAfter(P),
           NEW log \in Seq(Entry), NEW m \in AppendRequests, NEW q \in Seq(Entry),
           PrevMatches(log, m.prevIndex, m.prevTerm),
           Merged(log, m.prevIndex, m.entries, q),
           LogLinks(q) \subseteq Links, Agrees(m, P),
           NEW i \in 1..Len(P), i <= m.prevIndex + Len(m.entries)
    PROVE  i <= Len(q) /\ \A j \in 1..i : q[j] = P[j]
<1>0. /\ m.prevIndex \in Nat /\ m.entries \in Seq(Entry) /\ Len(m.entries) \in Nat
      /\ m.prevTerm \in Nat /\ Len(q) \in Nat /\ Len(P) \in Nat /\ LastTerm(P) \in Nat
      /\ i \in Nat /\ i >= 1
    BY LastTermIs DEF AppendRequests
<1>1. /\ Len(q) >= m.prevIndex + Len(m.entries)
      /\ \A k \in 1..Len(m.entries) : q[m.prevIndex + k].term = m.entries[k].term
      /\ m.prevIndex # 0 => q[m.prevIndex].term = m.prevTerm
    BY MergedHas
<1>2. CASE m.prevIndex > Len(P)
    <2>1. m.prevIndex \in 1..Len(q) /\ m.prevIndex # 0
        BY <1>0, <1>1, <1>2
    <2>2. q[m.prevIndex].term >= LastTerm(P) /\ q[m.prevIndex].term \in Nat
        <3>1. m.prevTerm >= LastTerm(P)
            BY <1>2 DEF Agrees
        <3>2. q[m.prevIndex].term = m.prevTerm
            BY <1>1, <2>1
        <3> QED
            BY <1>0, <3>1, <3>2
    <2>3. q[m.prevIndex].term > LastTerm(P) \/ q[m.prevIndex].term = LastTerm(P)
        BY <1>0, <2>2
    <2>4. m.prevIndex >= Len(P)
        BY <1>0, <1>2
    <2>5. Starts(q, P)
        BY <2>1, <2>3, <2>4, ChainHolds
    <2> QED
        BY <1>0, <2>5 DEF Starts
<1>3. CASE m.prevIndex <= Len(P)
    <2> DEFINE x == IF m.prevIndex + Len(m.entries) <= Len(P)
                    THEN m.prevIndex + Len(m.entries) ELSE Len(P)
    <2>1. /\ x \in 1..Len(P) /\ x >= i /\ x <= Len(q) /\ x >= m.prevIndex
          /\ x <= m.prevIndex + Len(m.entries) /\ x \in Nat
        <3> DEFINE last == m.prevIndex + Len(m.entries)
        <3>1. last \in Nat /\ i <= Len(P) /\ i <= last /\ last <= Len(q) /\ m.prevIndex <= last
            BY <1>0, <1>1
        <3> HIDE DEF last
        <3>2. x = IF last <= Len(P) THEN last ELSE Len(P)
            BY DEF last
        <3>3. CASE last <= Len(P)
            BY <1>0, <3>1, <3>2, <3>3 DEF last
        <3>4. CASE ~(last <= Len(P))
            BY <1>0, <1>3, <3>1, <3>2, <3>4 DEF last
        <3> QED
            BY <3>3, <3>4
    <2> HIDE DEF x
    <2>2. P[x].term = q[x].term
        <3>1. CASE x = m.prevIndex
            <4>1. m.prevIndex # 0 /\ m.prevIndex \in 1..Len(P)
                BY <1>0, <2>1, <3>1
            <4> QED
                BY <1>1, <3>1, <4>1 DEF Agrees
        <3>2. CASE x # m.prevIndex
            <4> DEFINE k == x - m.prevIndex
            <4>0. x >= m.prevIndex /\ x <= m.prevIndex + Len(m.entries) /\ x <= Len(P) /\ x \in Nat
                BY <2>1
            <4>1. k \in 1..Len(m.entries) /\ m.prevIndex + k = x /\ m.prevIndex + k <= Len(P)
                BY <1>0, <3>2, <4>0, SMTT(20)
            <4> HIDE DEF k
            <4>2. m.entries[k] = P[x] /\ q[x].term = m.entries[k].term
                BY <1>1, <4>1 DEF Agrees
            <4> QED
                BY <4>2
        <3> QED
            BY <3>1, <3>2
    <2>3. \A j \in 1..x : P[j] = q[j]
        BY <2>1, <2>2, LinksMatch DEF LinksUnique
    <2> QED
        BY <1>0, <2>1, <2>3
<1> QED
    BY <1>0, <1>2, <1>3

-----------------------------------------------------------------------------
(* Safety of P is kept.                                                     *)

\* The step keeps what is safe safe, unless a majority outside A has moved on.
SafeStep ==
    \A P \in Seq(Entry), A \in SUBSET Node :
        (/\ Len(P) # 0 /\ A # {} /\ Safe(P, A) /\ ~Dead(LastTerm(P), A))
            => Safe(P, A)'

\* The links of a safe prefix are those of a member's log.
LEMMA SafeLinks ==
    ASSUME LeaderInv, NEW P \in Seq(Entry), NEW A \in SUBSET Node, A # {}, Safe(P, A)
    PROVE  LogLinks(P) \subseteq Links
<1>1. PICK w \in A : Starts(persistent[w].log, P) /\ w \in Node
    BY DEF Safe, Holding
<1>2. TypeOK
    BY DEF LeaderInv, MatchInv, ElectionInv, TypeInv
<1>3. persistent[w].log \in Seq(Entry) /\ LogLinks(persistent[w].log) \subseteq Links
    BY <1>1, <1>2, MemberTypes, LinksOfLog
<1> QED
    BY <1>1, <1>3, PrefixLinks

\* A log that begins with P ends in P's term or a later one.
LEMMA HoldsLate ==
    ASSUME LeaderInv, NEW n \in Node, NEW P \in Seq(Entry), Len(P) # 0,
           Starts(persistent[n].log, P)
    PROVE  /\ Len(persistent[n].log) >= Len(P) /\ Len(persistent[n].log) # 0
           /\ LastTerm(persistent[n].log) >= LastTerm(P)
           /\ \A i \in 1..Len(persistent[n].log) :
                 i >= Len(P) => persistent[n].log[i].term >= LastTerm(P)
<1> DEFINE log == persistent[n].log
<1>0. TypeOK
    BY DEF LeaderInv, MatchInv, ElectionInv, TypeInv
<1>1. log \in Seq(Entry) /\ Len(log) \in Nat /\ Len(P) \in Nat
    BY <1>0, MemberTypes
<1>2. \A l \in LogLinks(log) : l.prev <= l.entry.term
    BY LinksOfLog
<1>3. Starts(log, P)
    OBVIOUS
<1> HIDE DEF log
<1>4. Len(log) >= Len(P) /\ Len(P) \in 1..Len(log) /\ Len(log) \in 1..Len(log)
    BY <1>1, <1>3 DEF Starts
<1>5. log[Len(P)].term = LastTerm(P)
    <2>1. LastTerm(P) = P[Len(P)].term /\ Len(P) \in 1..Len(P)
        BY LastTermIs
    <2> QED
        BY <1>3, <2>1 DEF Starts
<1>6. ASSUME NEW i \in 1..Len(log), i >= Len(P) PROVE log[i].term >= LastTerm(P)
    <2>1. log[Len(P)].term <= log[i].term
        BY <1>1, <1>2, <1>4, <1>6, LogOrdered
    <2>2. log[i].term \in Nat /\ LastTerm(P) \in Nat
        <3>1. log[i] \in Entry
            BY <1>1
        <3> QED
            BY <3>1, LastTermIs DEF Entry
    <2> QED
        BY <1>5, <2>1, <2>2
<1>7. LastTerm(log) = log[Len(log)].term
    BY <1>1, <1>4, LastTermIs
<1>8. LastTerm(log) >= LastTerm(P) /\ Len(log) # 0
    BY <1>1, <1>4, <1>6, <1>7
<1> QED
    BY <1>4, <1>6, <1>8 DEF log

\* A step that keeps P where it is and respects it elsewhere.
LEMMA SafeCarried ==
    ASSUME LeaderInv, ElectionInv', DurableStep,
           NEW P \in Seq(Entry), NEW A \in SUBSET Node, Safe(P, A),
           \A o \in A : Starts(persistent'[o].log, P),
           LeadersHold(P)', SentHold(P)', LinksAfter(P)', VotesHold(P, A)'
    PROVE  Safe(P, A)'
<1>1. Holding(P, A)'
    <2> SUFFICES ASSUME NEW w \in A
                 PROVE  persistent'[w].term >= LastTerm(P) /\ Starts(persistent'[w].log, P)
        BY DEF Holding
    <2>1. persistent[w].term >= LastTerm(P) /\ persistent'[w].term >= persistent[w].term
        BY TermsGrow DEF Safe, Holding
    <2>2. TypeOK /\ TypeOK'
        BY DEF LeaderInv, MatchInv, ElectionInv, TypeInv
    <2>3. persistent[w].term \in Nat /\ persistent'[w].term \in Nat /\ LastTerm(P) \in Nat
        BY <2>2, PersistentFields, LastTermIs DEF TypeOK
    <2> QED
        BY <2>1, <2>3
<1> QED
    BY <1>1 DEF Safe

\* Leaders that stay.
LEMMA LeadersKept ==
    ASSUME NEW P, LeadersHold(P),
           \A o \in Node : role'[o] = "leader" =>
               /\ role[o] = "leader" /\ persistent'[o].term = persistent[o].term
               /\ persistent'[o].log = persistent[o].log
    PROVE  LeadersHold(P)'
    BY DEF LeadersHold

\* Requests that were sent before.
LEMMA SentKept ==
    ASSUME NEW P, SentHold(P), \A m \in rpcs' : Carried(m) \/ m.type # "append"
    PROVE  SentHold(P)'
<1> SUFFICES ASSUME NEW m \in rpcs', m.type = "append", m.term >= LastTerm(P)
             PROVE  Agrees(m, P)
    BY DEF SentHold
<1>1. PICK r \in rpcs : SameRequest(r, m)
    BY DEF Carried
<1>2. /\ r.type = "append" /\ r.term = m.term /\ r.prevIndex = m.prevIndex
      /\ r.prevTerm = m.prevTerm /\ r.entries = m.entries
    BY <1>1 DEF SameRequest
<1>3. Agrees(r, P)
    BY <1>2 DEF SentHold
<1> QED
    BY <1>2, <1>3 DEF Agrees

\* Links that were there.
LEMMA LinksKept ==
    ASSUME NEW P, LinksAfter(P), Links' \subseteq Links
    PROVE  LinksAfter(P)'
    BY DEF LinksAfter, LinkAfter

\* Candidates that stay, with the votes they had.
LEMMA VotesKept ==
    ASSUME NEW P, NEW A, VotesHold(P, A), grants' = grants,
           \A o \in Node : role'[o] = "candidate" =>
               /\ role[o] = "candidate" /\ persistent'[o].term = persistent[o].term
               /\ persistent'[o].log = persistent[o].log
    PROVE  VotesHold(P, A)'
    BY DEF VotesHold

\* A calm step, if it casts no vote that matters.
LEMMA SafeCalm ==
    ASSUME LeaderInv, ElectionInv', DurableStep, Links' \subseteq Links, Calm,
           NEW P \in Seq(Entry), NEW A \in SUBSET Node, Safe(P, A),
           grants' = grants \/ VotesHold(P, A)'
    PROVE  Safe(P, A)'
<1>1. LeadersHold(P)' /\ SentHold(P)' /\ LinksAfter(P)'
    BY LeadersKept, SentKept, LinksKept DEF Safe, Calm
<1>2. VotesHold(P, A)'
    BY VotesKept DEF Safe, Calm
<1>3. \A o \in A : Starts(persistent'[o].log, P)
    BY DEF Safe, Holding, Calm
<1> QED
    BY <1>1, <1>2, <1>3, SafeCarried

\* The vote a member gives, if any, is for the sender of m, whose log it has
\* compared with its own.
LEMMA VoteEffect ==
    ASSUME TypeOK, NEW n \in Node, NEW m \in rpcs, HandleRequestVote(n, m)
    PROVE  /\ m.type = "vote" /\ m \in VoteRequests
           /\ \A g \in grants' :
                 \/ g \in grants
                 \/ /\ g = <<n, m.term, m.src>>
                    /\ UpToDate(m.lastTerm, m.lastIndex, persistent[n].log)
<1> DEFINE p == WithTerm(persistent[n], m.term)
           granted == /\ CanVoteFor(p, m.src)
                      /\ UpToDate(m.lastTerm, m.lastIndex, p.log)
           v == [p EXCEPT !.vote = m.src]
           q == IF granted THEN v ELSE p
<1>1. m.type = "vote" /\ m \in VoteRequests /\ m.term \in Nat
    BY RpcFields DEF HandleRequestVote, Received, TypeOK
<1>2. p \in Persistent /\ p.term = m.term /\ p.log = persistent[n].log
    BY <1>1, WithTermType, MemberTypes
<1>3. grants' = IF granted THEN grants \cup {<<n, q.term, m.src>>} ELSE grants
    BY DEF HandleRequestVote
<1> HIDE DEF p
<1>4. v.term = p.term
    BY <1>2 DEF Persistent
<1> HIDE DEF v
<1> QED
    BY <1>1, <1>2, <1>3, <1>4

\* A vote: who has P votes only for candidates that have it.
LEMMA SafeVote ==
    ASSUME LeaderInv, ElectionInv', DurableStep, Links' \subseteq Links,
           NEW n \in Node, NEW m \in rpcs, HandleRequestVote(n, m),
           NEW P \in Seq(Entry), Len(P) # 0, NEW A \in SUBSET Node, Safe(P, A)
    PROVE  Safe(P, A)'
<1>0. TypeOK /\ VoteFits(m) /\ LinksUnique /\ LinksContiguous
    BY DEF LeaderInv, MatchInv, ElectionInv, TypeInv, Fits
<1>1. Calm
    BY AdoptCalm
<1>2. VotesHold(P, A)'
    <2> SUFFICES ASSUME NEW o \in Node, NEW w \in A, role'[o] = "candidate",
                        persistent'[o].term > LastTerm(P),
                        <<w, persistent'[o].term, o>> \in grants'
                 PROVE  Starts(persistent'[o].log, P)
        BY DEF VotesHold
    <2> DEFINE log == persistent[o].log
               own == persistent[n].log
    <2>1. /\ role[o] = "candidate" /\ persistent'[o].term = persistent[o].term
          /\ persistent'[o].log = log
        BY <1>1 DEF Calm
    <2>2. CASE <<w, persistent[o].term, o>> \in grants
        BY <2>1, <2>2 DEF Safe, VotesHold
    <2>3. CASE <<w, persistent[o].term, o>> \notin grants
        <3>1. /\ w = n /\ o = m.src /\ persistent[o].term = m.term /\ m.type = "vote"
              /\ UpToDate(m.lastTerm, m.lastIndex, own)
            BY <1>0, <2>1, <2>3, VoteEffect
        <3>2. m.lastIndex = Len(log) /\ m.lastTerm = LastTerm(log)
            BY <1>0, <2>1, <3>1 DEF VoteFits, Is
        <3>3. Starts(own, P)
            BY <3>1 DEF Safe, Holding
        <3>4. Len(own) >= Len(P) /\ LastTerm(own) >= LastTerm(P)
            BY <3>3, HoldsLate
        <3>5. /\ log \in Seq(Entry) /\ own \in Seq(Entry) /\ Len(log) \in Nat /\ Len(own) \in Nat
              /\ Len(P) \in Nat
            BY <1>0, MemberTypes
        <3>6. LogLinks(log) \subseteq Links /\ LogLinks(P) \subseteq Links /\ LinksAfter(P)
            BY LinksOfLog, SafeLinks DEF Safe
        <3> HIDE DEF log, own
        <3>7. LastTerm(log) \in Nat /\ LastTerm(own) \in Nat /\ LastTerm(P) \in Nat
            BY <3>5, LastTermIs
        <3>8. \/ LastTerm(log) > LastTerm(P)
              \/ LastTerm(log) = LastTerm(P) /\ Len(log) >= Len(P)
            BY <3>1, <3>2, <3>4, <3>5, <3>7 DEF UpToDate, LastIndex
        <3>9. Len(log) # 0
            BY <3>5, <3>7, <3>8, LastTermIs
        <3>10. LastTerm(log) = log[Len(log)].term /\ Len(log) \in 1..Len(log)
            BY <3>5, <3>9, LastTermIs
        <3>11. Starts(log, P)
            BY <1>0, <3>5, <3>6, <3>8, <3>10, ChainHolds
        <3> QED
            BY <2>1, <3>11
    <2> QED
        BY <2>2, <2>3
<1> QED
    BY <1>1, <1>2, SafeCalm

\* A candidacy: its only vote is the candidate's own.
LEMMA SafeCampaign ==
    ASSUME LeaderInv, MatchInv', DurableStep, Links' \subseteq Links,
           NEW n \in Node, StartElection(n),
           NEW P \in Seq(Entry), NEW A \in SUBSET Node, Safe(P, A)
    PROVE  Safe(P, A)'
<1>0. TypeOK /\ InStep /\ ElectionInv' /\ CandidacySaved /\ persistent[n].term \in Nat
    BY MemberTypes DEF LeaderInv, MatchInv, ElectionInv, TypeInv
<1>1. /\ \A o \in Node :
            /\ persistent'[o].log = persistent[o].log
            /\ o # n => persistent'[o] = persistent[o] /\ role'[o] = role[o]
      /\ role'[n] = "candidate" /\ persistent'[n].term = persistent[n].term + 1
      /\ grants' = grants \cup {<<n, persistent[n].term + 1, n>>}
      /\ \A m \in rpcs' : m \in rpcs \/ m.type = "vote"
    BY LeaderCampaign
<1>2. LeadersHold(P)' /\ LinksAfter(P)'
    BY <1>1, LeadersKept, LinksKept DEF Safe
<1>3. SentHold(P)'
    BY <1>1, SentKept DEF Safe, Carried, SameRequest
<1>4. VotesHold(P, A)'
    <2> SUFFICES ASSUME NEW o \in Node, NEW w \in A, role'[o] = "candidate",
                        persistent'[o].term > LastTerm(P),
                        <<w, persistent'[o].term, o>> \in grants'
                 PROVE  Starts(persistent'[o].log, P)
        BY DEF VotesHold
    <2>1. CASE o # n
        <3>1. role[o] = "candidate" /\ persistent'[o] = persistent[o]
            BY <1>1, <2>1
        <3>2. <<w, persistent[o].term, o>> \in grants
            BY <1>1, <2>1, <3>1
        <3> QED
            BY <3>1, <3>2 DEF Safe, VotesHold
    <2>2. CASE o = n /\ w = n
        BY <1>1, <2>2 DEF Safe, Holding
    <2>3. CASE o = n /\ w # n
        <3>1. <<w, persistent[n].term + 1, n>> \in grants
            BY <1>1, <2>3
        <3>2. persistent[n].term + 1 <= disk[n].term
            BY <1>0, <3>1 DEF CandidacySaved
        <3> QED
            BY <1>0, <3>2 DEF InStep
    <2> QED
        BY <2>1, <2>2, <2>3
<1>5. \A o \in A : Starts(persistent'[o].log, P)
    BY <1>1 DEF Safe, Holding
<1> QED
    BY <1>0, <1>2, <1>3, <1>4, <1>5, SafeCarried

\* What a leader sends is cut out of a log that begins with P.
LEMMA PieceAgrees ==
    ASSUME LeaderInv, NEW n \in Node, NEW P \in Seq(Entry), Len(P) # 0,
           Starts(persistent[n].log, P), NEW m, m.prevIndex \in Nat, m.entries \in Seq(Entry),
           Piece(m, persistent[n].log)
    PROVE  Agrees(m, P)
<1> DEFINE log == persistent[n].log
<1>0. TypeOK
    BY DEF LeaderInv, MatchInv, ElectionInv, TypeInv
<1>1. log \in Seq(Entry) /\ Len(log) \in Nat /\ Len(P) \in Nat /\ Len(m.entries) \in Nat
    BY <1>0, MemberTypes
<1>2. \A i \in 1..Len(log) : i >= Len(P) => log[i].term >= LastTerm(P)
    BY HoldsLate
<1>3. Starts(log, P) /\ Piece(m, log)
    OBVIOUS
<1> HIDE DEF log
<1>4. ASSUME NEW k \in 1..Len(m.entries), m.prevIndex + k <= Len(P)
      PROVE  m.entries[k] = P[m.prevIndex + k]
    <2>1. m.prevIndex + k \in 1..Len(P) /\ m.entries[k] = log[m.prevIndex + k]
        BY <1>1, <1>3, <1>4 DEF Piece
    <2> QED
        BY <1>3, <2>1 DEF Starts
<1>5. ASSUME m.prevIndex \in 1..Len(P) PROVE m.prevTerm = P[m.prevIndex].term
    <2>1. m.prevIndex # 0
        BY <1>5
    <2> QED
        BY <1>3, <1>5, <2>1 DEF Piece, Starts
<1>6. ASSUME m.prevIndex > Len(P) PROVE m.prevTerm >= LastTerm(P)
    <2>1. m.prevIndex # 0 /\ m.prevIndex \in 1..Len(log) /\ m.prevIndex >= Len(P)
        BY <1>1, <1>3, <1>6 DEF Piece
    <2>2. m.prevTerm = log[m.prevIndex].term
        BY <1>3, <2>1 DEF Piece
    <2> QED
        BY <1>2, <2>1, <2>2
<1> QED
    BY <1>4, <1>5, <1>6 DEF Agrees

\* A heartbeat.
LEMMA SafeHeartbeat ==
    ASSUME LeaderInv, MatchInv', DurableStep, Links' \subseteq Links,
           NEW n \in Node, Heartbeat(n),
           NEW P \in Seq(Entry), Len(P) # 0, NEW A \in SUBSET Node, Safe(P, A)
    PROVE  Safe(P, A)'
<1>0. role[n] = "leader" /\ ElectionInv'
    BY DEF MatchInv, Heartbeat
<1>1. UNCHANGED <<persistent, role, grants>>
    BY DEF Heartbeat, durable, volatile, history
<1>2. \A m \in rpcs' : m \in rpcs \/ \E p \in Node : m = AppendRequest(n, p)
    BY LeaderHeartbeat
<1>3. LeadersHold(P)' /\ LinksAfter(P)' /\ VotesHold(P, A)'
    BY <1>1, LeadersKept, LinksKept, VotesKept DEF Safe
<1>4. SentHold(P)'
    <2> SUFFICES ASSUME NEW m \in rpcs', m.type = "append", m.term >= LastTerm(P)
                 PROVE  Agrees(m, P)
        BY DEF SentHold
    <2>1. CASE m \in rpcs
        BY <2>1 DEF Safe, SentHold
    <2>2. ASSUME NEW p \in Node, m = AppendRequest(n, p) PROVE Agrees(m, P)
        <3>1. /\ m.term = persistent[n].term /\ m.prevIndex \in Nat /\ m.entries \in Seq(Entry)
              /\ Piece(m, persistent[n].log)
            BY <1>0, <2>2, RequestPiece
        <3>2. Starts(persistent[n].log, P)
            BY <1>0, <3>1 DEF Safe, LeadersHold
        <3> QED
            BY <3>1, <3>2, PieceAgrees
    <2> QED
        BY <1>2, <2>1, <2>2
<1>5. \A o \in A : Starts(persistent'[o].log, P)
    BY <1>1 DEF Safe, Holding
<1> QED
    BY <1>0, <1>3, <1>4, <1>5, SafeCarried

\* Those who elected somebody have reached its term.
LEMMA VotersMoved ==
    ASSUME ElectionInv, NEW e \in elected
    PROVE  \E Q \in Quorum : \A w \in Q : /\ persistent[w].term >= e[1]
                                          /\ <<w, e[1], e[2]>> \in grants
<1>1. PICK Q \in SUBSET Node : /\ Cardinality(Q) >= Majority
                               /\ \A w \in Q : <<w, e[1], e[2]>> \in grants
    BY DEF ElectionInv, Won, Backed
<1>2. ASSUME NEW w \in Q PROVE persistent[w].term >= e[1]
    <2>1. <<w, e[1], e[2]>> \in grants /\ w \in Node
        BY <1>1
    <2>2. persistent[w].term \in Nat /\ e[1] \in Nat
        BY Remembered DEF ElectionInv, TypeInv, TypeOK
    <2>3. persistent[w].term > e[1] \/ persistent[w].term = e[1]
        BY <2>1, Remembered
    <2> QED
        BY <2>2, <2>3
<1>3. Q \in Quorum
    BY <1>1 DEF Quorum
<1> QED
    BY <1>1, <1>2, <1>3

\* An election is won with the vote of somebody who has P.
LEMMA SafeCount ==
    ASSUME LeaderInv, MatchInv', DurableStep, Links' \subseteq Links,
           NEW n \in Node, NEW m \in rpcs, CountVote(n, m),
           NEW P \in Seq(Entry), Len(P) # 0, NEW A \in SUBSET Node, A # {}, Safe(P, A),
           ~Dead(LastTerm(P), A)
    PROVE  Safe(P, A)'
<1> DEFINE t == persistent[n].term
<1>0. TypeOK /\ MatchInv /\ ElectionInv' /\ t \in Nat /\ LastTerm(P) \in Nat
    BY MemberTypes, LastTermIs DEF LeaderInv, MatchInv, ElectionInv, TypeInv
<1>1. /\ UNCHANGED <<persistent, grants>>
      /\ rpcs' \subseteq rpcs /\ role[n] = "candidate"
      /\ \/ UNCHANGED <<role, elected>>
         \/ /\ elected' = elected \cup {<<t, n>>}
            /\ \A o \in Node : role'[o] = IF o = n THEN "leader" ELSE role[o]
    BY LeaderCount
<1>2. LinksAfter(P)'
    BY LinksKept DEF Safe
<1>3. SentHold(P)'
    BY <1>1, SentKept DEF Safe, Carried, SameRequest
<1>4. VotesHold(P, A)'
    BY <1>1, VotesKept DEF Safe
<1>5. LeadersHold(P)'
    <2>1. CASE UNCHANGED role
        BY <1>1, <2>1, LeadersKept DEF Safe
    <2>2. ASSUME elected' = elected \cup {<<t, n>>},
                 \A o \in Node : role'[o] = IF o = n THEN "leader" ELSE role[o]
          PROVE  LeadersHold(P)'
        <3>1. ASSUME t >= LastTerm(P) PROVE Starts(persistent[n].log, P)
            <4>1. t # LastTerm(P)
                <5>1. LogLink(P, Len(P)) \in Links /\ LogLink(P, Len(P)).entry.term = LastTerm(P)
                    <6>1. LogLinks(P) \subseteq Links /\ Len(P) \in 1..Len(P)
                                                      /\ LastTerm(P) = P[Len(P)].term
                        BY SafeLinks, LastTermIs
                    <6> QED
                        BY <6>1, LogLinkParts
                <5> QED
                    BY <1>0, <1>1, <2>2, <5>1, FreshTerm
            <4>2. t > LastTerm(P)
                BY <1>0, <3>1, <4>1
            <4>3. \E Q \in Quorum : \A w \in Q : /\ persistent'[w].term >= t
                                                 /\ <<w, t, n>> \in grants'
                <5>1. Won' /\ <<t, n>> \in elected'
                    BY <2>2 DEF MatchInv, ElectionInv
                <5>2. PICK Q \in SUBSET Node : /\ Cardinality(Q) >= Majority
                                               /\ \A w \in Q : <<w, t, n>> \in grants'
                    BY <5>1 DEF Won, Backed
                <5>3. ASSUME NEW w \in Q PROVE persistent[w].term >= t
                    <6>1. <<w, t, n>> \in grants /\ w \in Node
                        BY <1>1, <5>2
                    <6>2. persistent[w].term \in Nat
                        BY <1>0, MemberTypes
                    <6>3. persistent[w].term > t \/ persistent[w].term = t
                        BY <1>0, <6>1, Remembered DEF MatchInv
                    <6> QED
                        BY <1>0, <6>2, <6>3
                <5>4. Q \in Quorum
                    BY <5>2 DEF Quorum
                <5> QED
                    BY <1>1, <5>2, <5>3, <5>4
            <4>4. PICK Q \in Quorum : \A w \in Q : /\ persistent[w].term >= t
                                                   /\ <<w, t, n>> \in grants
                BY <1>1, <4>3
            <4>5. \A w \in Q : w \in Node /\ persistent[w].term > LastTerm(P)
                <5>1. ASSUME NEW w \in Q PROVE w \in Node /\ persistent[w].term > LastTerm(P)
                    <6>1. w \in Node
                        BY DEF Quorum
                    <6>2. persistent[w].term \in Nat
                        BY <1>0, <6>1, MemberTypes
                    <6>3. persistent[w].term >= t
                        BY <4>4
                    <6> HIDE DEF t
                    <6> QED
                        BY <1>0, <4>2, <6>1, <6>2, <6>3
                <5> QED
                    BY <5>1
            <4>6. PICK w \in Q : w \in A
                BY <4>5 DEF Dead
            <4> QED
                BY <1>1, <4>2, <4>4, <4>6 DEF Safe, VotesHold
        <3> QED
            BY <1>1, <2>2, <3>1 DEF Safe, LeadersHold
    <2> QED
        BY <1>1, <2>1, <2>2
<1>6. \A o \in A : Starts(persistent'[o].log, P)
    BY <1>1 DEF Safe, Holding
<1> QED
    BY <1>0, <1>2, <1>3, <1>4, <1>5, <1>6, SafeCarried

\* Accepted entries agree with P.
LEMMA SafeAccept ==
    ASSUME LeaderInv, MatchInv', DurableStep, Links' \subseteq Links,
           NEW n \in Node, NEW m \in rpcs, AcceptAppend(n, m),
           NEW P \in Seq(Entry), NEW A \in SUBSET Node, Safe(P, A)
    PROVE  Safe(P, A)'
<1>0. TypeOK /\ ElectionInv' /\ persistent[n].term \in Nat /\ LastTerm(P) \in Nat
    BY MemberTypes, LastTermIs DEF LeaderInv, MatchInv, ElectionInv, TypeInv
<1>1. /\ m.type = "append" /\ m \in AppendRequests
      /\ m.term \in Nat /\ m.term >= persistent[n].term
      /\ persistent'[n].log \in Seq(Entry)
      /\ Merged(persistent[n].log, m.prevIndex, m.entries, persistent'[n].log)
      /\ \A o \in Node : /\ o # n => persistent'[o] = persistent[o]
                         /\ role'[o] = IF o = n THEN "follower" ELSE role[o]
      /\ \A r \in rpcs' : r \in rpcs \/ Acknowledges(r, m)
      /\ UNCHANGED grants
    BY <1>0, AcceptEffect
<1>2. LeadersHold(P)' /\ LinksAfter(P)' /\ VotesHold(P, A)'
    BY <1>1, LeadersKept, LinksKept, VotesKept DEF Safe
<1>3. SentHold(P)'
    <2>1. \A r \in rpcs' : Carried(r) \/ r.type # "append"
        BY <1>1 DEF Carried, SameRequest, Acknowledges
    <2> QED
        BY <2>1, SentKept DEF Safe
<1>4. ASSUME NEW o \in A PROVE Starts(persistent'[o].log, P)
    <2>1. persistent[o].term >= LastTerm(P) /\ Starts(persistent[o].log, P)
        BY DEF Safe, Holding
    <2>2. CASE o # n
        BY <1>1, <2>1, <2>2
    <2>3. CASE o = n
        <3>1. Agrees(m, P)
            <4>1. m.term >= LastTerm(P)
                BY <1>0, <1>1, <2>1, <2>3
            <4> QED
                BY <1>1, <4>1 DEF Safe, SentHold
        <3>2. persistent[n].log \in Seq(Entry) /\ Len(P) \in Nat
            BY <1>0, MemberTypes
        <3>3. Len(P) <= Len(persistent[n].log)
              /\ \A j \in 1..Len(P) : persistent[n].log[j] = P[j]
            BY <2>1, <2>3 DEF Starts
        <3>4. /\ Len(P) <= Len(persistent'[n].log)
              /\ \A j \in 1..Len(P) : persistent'[n].log[j] = P[j]
            <4> DEFINE a == persistent[n].log
                       b == persistent'[n].log
            <4>1. /\ a \in Seq(Entry) /\ b \in Seq(Entry)
                  /\ Merged(a, m.prevIndex, m.entries, b)
                  /\ Len(P) <= Len(P) /\ Len(P) <= Len(a) /\ \A j \in 1..Len(P) : a[j] = P[j]
                BY <1>1, <3>2, <3>3
            <4> HIDE DEF a, b
            <4>2. Len(P) <= Len(b) /\ \A j \in 1..Len(P) : b[j] = P[j]
                BY <1>1, <3>1, <3>2, <4>1, MergeKeeps
            <4> QED
                BY <4>2 DEF b
        <3> QED
            BY <2>3, <3>4 DEF Starts
    <2> QED
        BY <2>2, <2>3
<1> QED
    BY <1>0, <1>2, <1>3, <1>4, SafeCarried

\* A proposal comes after P.
LEMMA SafePropose ==
    ASSUME LeaderInv, MatchInv', DurableStep, NEW n \in Node, NEW v \in Value, Propose(n, v),
           Links' \subseteq Links \cup {NewLink(n, v)},
           NEW P \in Seq(Entry), Len(P) # 0, NEW A \in SUBSET Node, Safe(P, A)
    PROVE  Safe(P, A)'
<1> DEFINE log == persistent[n].log
           t == persistent[n].term
           e == [term |-> t, cmd |-> v]
<1>0. TypeOK /\ ElectionInv' /\ t \in Nat /\ LastTerm(P) \in Nat /\ Len(P) \in Nat
    BY MemberTypes, LastTermIs DEF LeaderInv, MatchInv, ElectionInv, TypeInv
<1>1. /\ e \in Entry /\ log \in Seq(Entry) /\ role[n] = "leader"
      /\ \A o \in Node : /\ persistent'[o].term = persistent[o].term
                         /\ o # n => persistent'[o] = persistent[o]
      /\ persistent'[n].log = Append(log, e)
      /\ UNCHANGED <<role, rpcs, grants>>
    BY <1>0, ProposeEffect
<1>2. ASSUME NEW o \in Node, Starts(persistent[o].log, P)
      PROVE  Starts(persistent'[o].log, P)
    <2>1. CASE o # n
        BY <1>1, <1>2, <2>1
    <2>2. CASE o = n
        <3>1. Len(Append(log, e)) = Len(log) + 1 /\ Len(log) \in Nat
              /\ \A i \in 1..Len(log) : Append(log, e)[i] = log[i]
            BY <1>1
        <3>2. Len(P) <= Len(log) /\ \A i \in 1..Len(P) : log[i] = P[i]
            BY <1>2, <2>2 DEF Starts
        <3>3. \A i \in 1..Len(P) : i \in 1..Len(log)
            BY <1>0, <3>1, <3>2
        <3>4. Len(P) <= Len(Append(log, e))
            BY <1>0, <3>1, <3>2
        <3> QED
            BY <1>1, <2>2, <3>1, <3>2, <3>3, <3>4 DEF Starts
    <2> QED
        BY <2>1, <2>2
<1>3. LeadersHold(P)'
    BY <1>1, <1>2 DEF Safe, LeadersHold
<1>4. SentHold(P)'
    BY <1>1 DEF Safe, SentHold
<1>5. VotesHold(P, A)'
    BY <1>1, <1>2 DEF Safe, VotesHold
<1>6. LinksAfter(P)'
    <2>1. LinkAfter(NewLink(n, v), P)
        <3>1. /\ NewLink(n, v).index = Len(log) + 1 /\ NewLink(n, v).entry.term = t
              /\ NewLink(n, v).prev = LastTerm(log)
            BY DEF NewLink
        <3>2. ASSUME t > LastTerm(P) PROVE Len(log) + 1 > Len(P) /\ LastTerm(log) >= LastTerm(P)
            <4>1. Starts(log, P)
                BY <1>0, <1>1, <3>2 DEF Safe, LeadersHold
            <4>2. Len(log) >= Len(P) /\ LastTerm(log) >= LastTerm(P)
                BY <4>1, HoldsLate
            <4>3. Len(log) \in Nat
                BY <1>1
            <4> QED
                BY <1>0, <4>2, <4>3
        <3> QED
            BY <3>1, <3>2 DEF LinkAfter
    <2> QED
        BY <2>1 DEF Safe, LinksAfter, LinkAfter
<1>7. \A o \in A : Starts(persistent'[o].log, P)
    BY <1>2 DEF Safe, Holding
<1> QED
    BY <1>0, <1>3, <1>4, <1>5, <1>6, <1>7, SafeCarried

\* Every step keeps what is safe safe, unless a disk write fails.
LEMMA SafeNext ==
    ASSUME ~LateReplies, LeaderInv, [Next]_vars, faults' = 0
    PROVE  SafeStep
<1> SUFFICES ASSUME NEW P \in Seq(Entry), NEW A \in SUBSET Node, Len(P) # 0, A # {},
                    Safe(P, A), ~Dead(LastTerm(P), A)
             PROVE  Safe(P, A)'
    BY DEF SafeStep
<1>0. MatchInv' /\ DurableStep /\ ElectionInv' /\ MatchInv /\ TypeOK
    BY MatchNext, ElectionNext DEF LeaderInv, MatchInv, ElectionInv, TypeInv, ElectionStep
<1>1. faults + 1 # 0
    <2>1. faults \in Nat
        BY <1>0 DEF TypeOK
    <2> QED
        BY <2>1
<1>2. ASSUME UNCHANGED <<persistent, disk, role, grants, elected>>, NoAcks
      PROVE  Safe(P, A)'
    <2>1. Links' \subseteq Links
        BY <1>0, <1>2, MatchIdle
    <2>2. Calm
        BY <1>2, IdleCalm
    <2> QED
        BY <1>0, <1>2, <2>1, <2>2, SafeCalm
<1>3. ASSUME NEW n \in Node, NEW m \in rpcs, HandleRpc(n, m) PROVE Safe(P, A)'
    <2>1. CASE HandleRequestVote(n, m)
        BY <1>0, <2>1, MatchAdopts, SafeVote
    <2>2. CASE RejectMismatchedAppend(n, m) \/ StepDownOnReply(n, m)
        <3>1. Links' \subseteq Links
            BY <1>0, <2>2, MatchAdopts
        <3>2. Calm
            BY <2>2, AdoptCalm
        <3>3. grants' = grants
            BY <2>2 DEF RejectMismatchedAppend, StepDownOnReply, history
        <3> QED
            BY <1>0, <3>1, <3>2, <3>3, SafeCalm
    <2>3. CASE AcceptAppend(n, m)
        BY <1>0, <2>3, MatchMerge, SafeAccept
    <2>4. CASE CountVote(n, m)
        BY <1>0, <2>4, MatchCount, SafeCount
    <2>5. CASE \/ RejectStaleVote(n, m) \/ RejectStaleAppend(n, m) \/ IgnoreReply(n, m)
               \/ AppendSucceeded(n, m) \/ AppendFailed(n, m)
        <3>1. UNCHANGED <<persistent, disk, role, grants, elected>> /\ NoAcks
            BY <2>5, IdleHandlers
        <3> QED
            BY <1>2, <3>1
    <2>6. ~RecordVoteFails(n, m) /\ ~AppendSaveFails(n, m) /\ ~StepDownFails(n, m)
        BY <1>1 DEF RecordVoteFails, AppendSaveFails, StepDownFails
    <2> QED
        BY <1>3, <2>1, <2>2, <2>3, <2>4, <2>5, <2>6 DEF HandleRpc
<1>4. ASSUME NEW n \in Node, Consensus(n) PROVE Safe(P, A)'
    <2>1. CASE StartElection(n)
        BY <1>0, <2>1, MatchCampaign, SafeCampaign
    <2>2. CASE Heartbeat(n)
        BY <1>0, <2>2, MatchHeartbeat, SafeHeartbeat
    <2>3. ~StartElectionFails(n)
        BY <1>1 DEF StartElectionFails
    <2> QED
        BY <1>3, <1>4, <2>1, <2>2, <2>3 DEF Consensus
<1>5. ASSUME NEW n \in Node, NEW v \in Value, Propose(n, v) PROVE Safe(P, A)'
    BY <1>0, <1>5, MatchPropose, SafePropose
<1>6. ASSUME NEW n \in Node, TakeCommitted(n) PROVE Safe(P, A)'
    <2>1. UNCHANGED <<persistent, disk, role, grants, elected>> /\ NoAcks
        BY <1>6, IdleHandlers
    <2> QED
        BY <1>2, <2>1
<1>7. ASSUME NEW n \in Node, Restart(n) PROVE Safe(P, A)'
    <2>1. Links' \subseteq Links
        BY <1>0, <1>7, MatchRestart
    <2>2. Calm /\ grants' = grants
        BY <1>7, RestartCalm
    <2> QED
        BY <1>0, <2>1, <2>2, SafeCalm
<1>8. CASE UNCHANGED vars
    <2>1. UNCHANGED <<persistent, disk, role, grants, elected>> /\ NoAcks
        BY <1>8 DEF vars, durable, volatile, history, NoAcks
    <2> QED
        BY <1>2, <2>1
<1> QED
    BY <1>4, <1>5, <1>6, <1>7, <1>8 DEF Next

-----------------------------------------------------------------------------
(* A leader's own entries are safe for those who acknowledged them.         *)

\* w has acknowledged n's log up to index c, or the acknowledgement is on its
\* way.
Acked(n, w, c) ==
    \/ matchIndex[n][w] >= c
    \/ \E m \in rpcs : /\ m.type = "appended" /\ m.success /\ m.src = w /\ m.dst = n
                       /\ m.term = persistent[n].term /\ m.sentPrev + m.sentLen >= c
Ackers(n, A, c) == n \in A /\ \A w \in A : w = n \/ Acked(n, w, c)

\* P is a piece of leader n's log that ends in an entry of its term.
Own(n, P) ==
    /\ role[n] = "leader" /\ Len(P) # 0 /\ Starts(persistent[n].log, P)
    /\ LastTerm(P) = persistent[n].term

LeaderSafe ==
    \A n \in Node, P \in Seq(Entry), A \in SUBSET Node :
        (Own(n, P) /\ Ackers(n, A, Len(P))) => Dead(LastTerm(P), A) \/ Safe(P, A)

\* A majority that has moved on does not come back.
LEMMA DeadStays ==
    ASSUME LeaderInv, ElectionInv', DurableStep, NEW t \in Nat, NEW A, Dead(t, A)
    PROVE  Dead(t, A)'
<1>1. PICK Q \in Quorum : Q \cap A = {} /\ \A w \in Q : persistent[w].term > t
    BY DEF Dead
<1>2. ASSUME NEW w \in Q PROVE persistent'[w].term > t
    <2>1. w \in Node /\ persistent[w].term > t
        BY <1>1 DEF Quorum
    <2>2. TypeOK /\ TypeOK'
        BY DEF LeaderInv, MatchInv, ElectionInv, TypeInv
    <2>3. persistent[w].term \in Nat /\ persistent'[w].term \in Nat
        BY <2>1, <2>2, PersistentFields DEF TypeOK
    <2>4. persistent'[w].term >= persistent[w].term
        BY <2>1, TermsGrow
    <2> QED
        BY <2>1, <2>3, <2>4
<1> QED
    BY <1>1, <1>2 DEF Dead, Quorum

\* What was the leader's own before.
LEMMA OwnCarried ==
    ASSUME LeaderInv, ElectionInv', DurableStep, SafeStep, LeaderSafe,
           NEW n \in Node, NEW P \in Seq(Entry), NEW A \in SUBSET Node,
           Own(n, P), Ackers(n, A, Len(P))
    PROVE  Dead(LastTerm(P), A)' \/ Safe(P, A)'
<1>1. Dead(LastTerm(P), A) \/ Safe(P, A)
    BY DEF LeaderSafe
<1>2. A # {} /\ Len(P) # 0 /\ LastTerm(P) \in Nat
    BY LastTermIs DEF Ackers, Own
<1> QED
    BY <1>1, <1>2, DeadStays DEF SafeStep

\* Leaders stay as they are and get no new acknowledgement.
AckersStay ==
    \A n \in Node : role'[n] = "leader" =>
        /\ role[n] = "leader" /\ persistent'[n].term = persistent[n].term
        /\ persistent'[n].log = persistent[n].log
        /\ matchIndex'[n] = matchIndex[n]
SameAcks == \A m \in rpcs' : (m.type = "appended" /\ m.success) => m \in rpcs

\* Then its entries are as safe as they were.
LEMMA LeaderSafeCarried ==
    ASSUME LeaderInv, ElectionInv', DurableStep, SafeStep, LeaderSafe, AckersStay, SameAcks
    PROVE  LeaderSafe'
<1> SUFFICES ASSUME NEW n \in Node, NEW P \in Seq(Entry), NEW A \in SUBSET Node,
                    Own(n, P)', Ackers(n, A, Len(P))'
             PROVE  Dead(LastTerm(P), A)' \/ Safe(P, A)'
    BY DEF LeaderSafe
<1>1. /\ role[n] = "leader" /\ persistent'[n].term = persistent[n].term
      /\ persistent'[n].log = persistent[n].log /\ matchIndex'[n] = matchIndex[n]
    BY DEF AckersStay, Own
<1>2. Own(n, P)
    BY <1>1 DEF Own
<1>3. Ackers(n, A, Len(P))
    BY <1>1 DEF Ackers, Acked, SameAcks
<1> QED
    BY <1>2, <1>3, OwnCarried

\* A new leader has no entry of its term yet.
LEMMA OwnCount ==
    ASSUME LeaderInv, MatchInv', DurableStep, Links' \subseteq Links, SafeStep, LeaderSafe,
           NEW n \in Node, NEW m \in rpcs, CountVote(n, m)
    PROVE  LeaderSafe'
<1> DEFINE t == persistent[n].term
<1>0. TypeOK /\ MatchInv /\ ElectionInv'
    BY DEF LeaderInv, MatchInv, ElectionInv, TypeInv
<1>1. /\ UNCHANGED <<persistent, grants>>
      /\ rpcs' \subseteq rpcs /\ role[n] = "candidate"
      /\ \/ UNCHANGED <<role, matchIndex, elected>>
         \/ /\ elected' = elected \cup {<<t, n>>}
            /\ \A o \in Node : /\ role'[o] = IF o = n THEN "leader" ELSE role[o]
                               /\ o # n => matchIndex'[o] = matchIndex[o]
    BY LeaderCount
<1>2. CASE UNCHANGED <<role, matchIndex>>
    BY <1>0, <1>1, <1>2, LeaderSafeCarried DEF AckersStay, SameAcks
<1>3. ASSUME elected' = elected \cup {<<t, n>>},
             \A o \in Node : /\ role'[o] = IF o = n THEN "leader" ELSE role[o]
                             /\ o # n => matchIndex'[o] = matchIndex[o]
      PROVE  LeaderSafe'
    <2> SUFFICES ASSUME NEW o \in Node, NEW P \in Seq(Entry), NEW A \in SUBSET Node,
                        Own(o, P)', Ackers(o, A, Len(P))'
                 PROVE  Dead(LastTerm(P), A)' \/ Safe(P, A)'
        BY DEF LeaderSafe
    <2>1. CASE o # n
        <3>1. Own(o, P)
            BY <1>1, <1>3, <2>1 DEF Own
        <3>2. Ackers(o, A, Len(P))
            BY <1>1, <1>3, <2>1 DEF Ackers, Acked
        <3> QED
            BY <1>0, <3>1, <3>2, OwnCarried
    <2>2. CASE o = n
        <3> DEFINE log == persistent[n].log
        <3>1. log \in Seq(Entry) /\ LogLinks(log) \subseteq Links
            BY <1>0, MemberTypes, LinksOfLog
        <3>2. Starts(log, P) /\ Len(P) # 0 /\ LastTerm(P) = t
            BY <1>1, <2>2 DEF Own
        <3>3. LogLinks(P) \subseteq Links
            BY <3>1, <3>2, PrefixLinks
        <3>4. LogLink(P, Len(P)) \in Links /\ LogLink(P, Len(P)).entry.term = LastTerm(P)
            <4>1. Len(P) \in 1..Len(P) /\ LastTerm(P) = P[Len(P)].term
                BY <3>2, LastTermIs
            <4> QED
                BY <3>3, <4>1, LogLinkParts
        <3>5. \A l \in Links : l.entry.term # t
            BY <1>0, <1>1, <1>3, FreshTerm
        <3> QED
            BY <3>2, <3>4, <3>5
    <2> QED
        BY <2>1, <2>2
<1> QED
    BY <1>1, <1>2, <1>3

\* An acknowledgement counted was on its way.
LEMMA OwnSucceeded ==
    ASSUME ~LateReplies, LeaderInv, ElectionInv', DurableStep, SafeStep, LeaderSafe,
           NEW n \in Node, NEW m \in rpcs, AppendSucceeded(n, m)
    PROVE  /\ LeaderSafe'
           /\ UNCHANGED <<persistent, role, grants, elected, lastApplied>>
           /\ rpcs' \subseteq rpcs /\ role[n] = "leader"
           /\ \A o \in Node : o # n => matchIndex'[o] = matchIndex[o]
           /\ \A w \in Node, c \in Nat : matchIndex'[n][w] >= c => Acked(n, w, c)
<1> DEFINE match == m.sentPrev + m.sentLen
           raised == match > matchIndex[n][m.src]
           matches == IF raised THEN [matchIndex[n] EXCEPT ![m.src] = match]
                      ELSE matchIndex[n]
<1>0. TypeOK
    BY DEF LeaderInv, MatchInv, ElectionInv, TypeInv
<1>1. m \in AppendReplies /\ m.type = "appended" /\ m.dst = n /\ m.src \in Node
    BY <1>0, RpcFields DEF AppendSucceeded, Received, TypeOK
<1>2. /\ matchIndex' = [matchIndex EXCEPT ![n] = matches]
      /\ m.success /\ m.term = persistent[n].term /\ role[n] = "leader"
      /\ rpcs' = rpcs \ {m}
      /\ UNCHANGED <<persistent, role, grants, elected, lastApplied>>
    BY DEF AppendSucceeded, durable
<1>3. matchIndex[n] \in [Node -> Nat] /\ matchIndex'[n] = matches
      /\ \A o \in Node : o # n => matchIndex'[o] = matchIndex[o]
    BY <1>0, <1>2 DEF TypeOK
<1>4. ASSUME NEW w \in Node, NEW c, matches[w] >= c PROVE Acked(n, w, c)
    <2>1. CASE matchIndex[n][w] >= c
        BY <2>1 DEF Acked
    <2>2. CASE ~(matchIndex[n][w] >= c)
        <3>1. w = m.src /\ match >= c
            BY <1>1, <1>3, <1>4, <2>2
        <3> QED
            BY <1>1, <1>2, <3>1 DEF Acked
    <2> QED
        BY <2>1, <2>2
<1>5. \A w \in Node, c \in Nat : matchIndex'[n][w] >= c => Acked(n, w, c)
    <2> HIDE DEF matches
    <2> QED
        BY <1>3, <1>4
<1>6. LeaderSafe'
    <2> SUFFICES ASSUME NEW o \in Node, NEW P \in Seq(Entry), NEW A \in SUBSET Node,
                        Own(o, P)', Ackers(o, A, Len(P))'
                 PROVE  Dead(LastTerm(P), A)' \/ Safe(P, A)'
        BY DEF LeaderSafe
    <2>1. Own(o, P)
        BY <1>2 DEF Own
    <2>2. Ackers(o, A, Len(P))
        <3>0. Len(P) \in Nat
            OBVIOUS
        <3> SUFFICES ASSUME NEW w \in A, w # o PROVE Acked(o, w, Len(P))
            BY DEF Ackers
        <3>1. Acked(o, w, Len(P))'
            BY DEF Ackers
        <3>2. CASE matchIndex'[o][w] >= Len(P)
            BY <1>3, <1>5, <3>0, <3>2 DEF Acked
        <3>3. CASE ~(matchIndex'[o][w] >= Len(P))
            BY <1>2, <3>1, <3>3 DEF Acked
        <3> QED
            BY <3>2, <3>3
    <2> QED
        BY <2>1, <2>2, OwnCarried
<1> QED
    BY <1>2, <1>3, <1>5, <1>6

\* Who accepts the leader's entries joins those who hold them.
LEMMA OwnAccept ==
    ASSUME LeaderInv, MatchInv', DurableStep, Links' \subseteq Links, SafeStep, LeaderSafe,
           NEW n \in Node, NEW m \in rpcs, AcceptAppend(n, m)
    PROVE  LeaderSafe'
<1>0. TypeOK /\ TypeOK' /\ ElectionInv' /\ LinksUnique /\ LinksContiguous
    BY DEF LeaderInv, MatchInv, ElectionInv, TypeInv
<1>1. /\ m.type = "append" /\ m \in AppendRequests /\ m.dst = n /\ m.src \in Node
      /\ m.term \in Nat /\ m.term >= persistent[n].term /\ persistent[n].term \in Nat
      /\ PrevMatches(persistent[n].log, m.prevIndex, m.prevTerm)
      /\ persistent'[n].term = m.term
      /\ persistent'[n].log \in Seq(Entry)
      /\ Merged(persistent[n].log, m.prevIndex, m.entries, persistent'[n].log)
      /\ \A o \in Node : /\ o # n => persistent'[o] = persistent[o]
                         /\ role'[o] = IF o = n THEN "follower" ELSE role[o]
      /\ \A r \in rpcs' : r \in rpcs \/ Acknowledges(r, m)
      /\ UNCHANGED <<matchIndex, grants>>
    BY <1>0, AcceptEffect, MemberTypes
<1> SUFFICES ASSUME NEW o \in Node, NEW P \in Seq(Entry), NEW A \in SUBSET Node,
                    Own(o, P)', Ackers(o, A, Len(P))'
             PROVE  Dead(LastTerm(P), A)' \/ Safe(P, A)'
    BY DEF LeaderSafe
<1>2. o # n /\ Own(o, P) /\ persistent'[o] = persistent[o]
    BY <1>1 DEF Own
<1>3. CASE Ackers(o, A, Len(P))
    BY <1>0, <1>2, <1>3, OwnCarried
<1>4. CASE ~Ackers(o, A, Len(P))
    <2> DEFINE B == A \ {n}
               y == LastTerm(P)
    <2>1. ASSUME NEW w \in A, w # o, ~Acked(o, w, Len(P))
          PROVE  /\ w = n /\ o = m.src /\ persistent[o].term = m.term
                 /\ m.prevIndex + Len(m.entries) >= Len(P)
        <3>1. PICK r \in rpcs' : /\ r.type = "appended" /\ r.success /\ r.src = w /\ r.dst = o
                                 /\ r.term = persistent[o].term
                                 /\ r.sentPrev + r.sentLen >= Len(P) /\ r \notin rpcs
            BY <1>1, <1>2, <2>1 DEF Ackers, Acked
        <3>2. Acknowledges(r, m)
            BY <1>1, <3>1
        <3> QED
            BY <1>1, <3>1, <3>2 DEF Acknowledges
    <2>2. /\ n \in A /\ o = m.src /\ persistent[o].term = m.term
          /\ m.prevIndex + Len(m.entries) >= Len(P)
        BY <1>4, <2>1 DEF Ackers
    <2>3. Ackers(o, B, Len(P)) /\ B \in SUBSET Node /\ B # {} /\ A = B \cup {n}
        BY <1>2, <2>1, <2>2 DEF Ackers
    <2>4. y = m.term /\ Len(P) # 0
        BY <1>2, <2>2 DEF Own
    <2>5. Dead(y, B) \/ Safe(P, B)
        BY <1>2, <2>3 DEF LeaderSafe
    <2>6. CASE Dead(y, B)
        <3>1. PICK Q \in Quorum : Q \cap B = {} /\ \A w \in Q : persistent[w].term > y
            BY <2>6 DEF Dead
        <3>2. n \notin Q
            BY <1>1, <2>4, <3>1
        <3>3. Dead(y, A)
            BY <2>3, <3>1, <3>2 DEF Dead
        <3> QED
            BY <1>0, <1>1, <2>4, <3>3, DeadStays
    <2>7. CASE Safe(P, B) /\ ~Dead(y, B)
        <3>1. Safe(P, B)'
            BY <2>3, <2>4, <2>7 DEF SafeStep
        <3>2. Starts(persistent'[n].log, P)
            <4> DEFINE a == persistent[n].log
                       b == persistent'[n].log
            <4>1. /\ Agrees(m, P) /\ LinksAfter(P) /\ LogLinks(P) \subseteq Links
                <5>1. m.term >= LastTerm(P)
                    BY <1>1, <2>4
                <5> QED
                    BY <1>1, <2>3, <2>7, <5>1, SafeLinks DEF Safe, SentHold
            <4>2. /\ a \in Seq(Entry) /\ b \in Seq(Entry) /\ LogLinks(b) \subseteq Links
                  /\ PrevMatches(a, m.prevIndex, m.prevTerm)
                  /\ Merged(a, m.prevIndex, m.entries, b)
                <5>1. b \in Seq(Entry) /\ a \in Seq(Entry)
                    BY <1>0, <1>1, MemberTypes
                <5>2. LogLinks(b) \subseteq Links'
                    <6>1. LogLinks(b) \subseteq Link
                        BY <5>1, LogLinkParts DEF LogLinks
                    <6> QED
                        BY <6>1 DEF Links, IsLink
                <5> QED
                    BY <1>1, <5>1, <5>2
            <4>3. Len(P) \in 1..Len(P) /\ Len(P) <= m.prevIndex + Len(m.entries)
                <5>1. Len(P) \in Nat /\ Len(m.entries) \in Nat /\ m.prevIndex \in Nat
                    BY <1>1 DEF AppendRequests
                <5> QED
                    BY <2>2, <2>4, <5>1
            <4> HIDE DEF a, b
            <4>4. m \in AppendRequests /\ Len(P) # 0 /\ LinksUnique /\ LinksContiguous
                BY <1>0, <1>1, <2>4
            <4>5. Len(P) <= Len(b) /\ \A j \in 1..Len(P) : b[j] = P[j]
                BY <4>1, <4>2, <4>3, <4>4, AcceptedHolds
            <4> QED
                BY <4>5 DEF Starts, b
        <3>3. Holding(P, A)'
            <4>1. persistent'[n].term >= LastTerm(P)
                BY <1>1, <2>4
            <4> QED
                BY <2>3, <3>1, <3>2, <4>1 DEF Safe, Holding
        <3>4. VotesHold(P, A)'
            <4> SUFFICES ASSUME NEW x \in Node, NEW w \in A, role'[x] = "candidate",
                                persistent'[x].term > LastTerm(P),
                                <<w, persistent'[x].term, x>> \in grants'
                         PROVE  Starts(persistent'[x].log, P)
                BY DEF VotesHold
            <4>1. CASE w \in B
                BY <3>1, <4>1 DEF Safe, VotesHold
            <4>2. CASE w = n
                <5>1. x # n /\ persistent'[x] = persistent[x] /\ persistent[x].term \in Nat
                    BY <1>0, <1>1, MemberTypes
                <5>2. <<n, persistent[x].term, x>> \in grants
                    BY <1>1, <4>2, <5>1
                <5>3. persistent[n].term > persistent[x].term \/ persistent[n].term = persistent[x].term
                    BY <5>2, Remembered DEF LeaderInv, MatchInv
                <5> QED
                    BY <1>1, <2>4, <5>1, <5>3
            <4> QED
                BY <2>3, <4>1, <4>2
        <3> QED
            BY <3>1, <3>3, <3>4 DEF Safe
    <2> QED
        BY <2>5, <2>6, <2>7
<1> QED
    BY <1>3, <1>4

\* Once somebody is elected in a later term, a leader that has not heard of it
\* can commit nothing by itself.
LEMMA Overtaken ==
    ASSUME ElectionInv, NEW n \in Node, NEW e \in elected, e[1] > persistent[n].term
    PROVE  Dead(persistent[n].term, {n})
<1>1. PICK Q \in Quorum : \A w \in Q : persistent[w].term >= e[1]
    BY VotersMoved
<1>2. TypeOK /\ e[1] \in Nat /\ persistent[n].term \in Nat
    BY Remembered DEF ElectionInv, TypeInv, TypeOK
<1>3. ASSUME NEW w \in Q PROVE persistent[w].term > persistent[n].term
    <2>1. w \in Node
        BY DEF Quorum
    <2>2. persistent[w].term \in Nat /\ persistent[w].term >= e[1]
        BY <1>1, <1>2, <2>1, MemberTypes
    <2> QED
        BY <1>2, <2>2
<1>4. n \notin Q
    BY <1>2, <1>3
<1> QED
    BY <1>3, <1>4 DEF Dead

\* A new entry is known to its leader only; if nobody was elected in a later
\* term, nothing contradicts it.
LEMMA OwnPropose ==
    ASSUME LeaderInv, MatchInv', DurableStep, SafeStep, LeaderSafe,
           NEW n \in Node, NEW v \in Value, Propose(n, v)
    PROVE  LeaderSafe'
<1> DEFINE log == persistent[n].log
           t == persistent[n].term
           e == [term |-> t, cmd |-> v]
<1>0. /\ TypeOK /\ ElectionInv' /\ ElectionInv /\ ElectionSafety /\ LeaderFits(n)
      /\ t \in Nat /\ Len(log) \in Nat
    BY MemberTypes, OneLeader DEF LeaderInv, MatchInv, ElectionInv, TypeInv
<1>1. /\ e \in Entry /\ log \in Seq(Entry) /\ role[n] = "leader"
      /\ \A o \in Node : /\ persistent'[o].term = persistent[o].term
                         /\ o # n => persistent'[o] = persistent[o]
      /\ persistent'[n].log = Append(log, e)
      /\ UNCHANGED <<role, rpcs, grants, elected, matchIndex>>
    BY <1>0, ProposeEffect
<1>2. /\ Len(Append(log, e)) = Len(log) + 1
      /\ \A i \in 1..Len(log) : Append(log, e)[i] = log[i]
    BY <1>1
<1>3. <<t, n>> \in elected
    BY <1>1 DEF LeaderInv, MatchInv, LeaderElected
<1> SUFFICES ASSUME NEW o \in Node, NEW P \in Seq(Entry), NEW A \in SUBSET Node,
                    Own(o, P)', Ackers(o, A, Len(P))'
             PROVE  Dead(LastTerm(P), A)' \/ Safe(P, A)'
    BY DEF LeaderSafe
<1>4. /\ role[o] = "leader" /\ Len(P) # 0 /\ Len(P) \in Nat
      /\ Starts(persistent'[o].log, P) /\ LastTerm(P) = persistent[o].term
      /\ Ackers(o, A, Len(P))
    BY <1>1 DEF Own, Ackers, Acked
<1>5. CASE Starts(persistent[o].log, P)
    BY <1>0, <1>4, <1>5, OwnCarried DEF Own
<1>6. CASE ~Starts(persistent[o].log, P)
    <2>1. o = n /\ Starts(Append(log, e), P) /\ LastTerm(P) = t
        BY <1>1, <1>4, <1>6
    <2>2. Len(P) = Len(log) + 1 /\ \A i \in 1..Len(log) : P[i] = log[i]
        <3>1. Len(P) <= Len(log) + 1 /\ \A i \in 1..Len(P) : Append(log, e)[i] = P[i]
            BY <1>2, <2>1 DEF Starts
        <3> HIDE DEF log, e
        <3>2. CASE Len(P) <= Len(log)
            <4>1. \A i \in 1..Len(P) : log[i] = P[i]
                BY <1>0, <1>2, <1>4, <3>1, <3>2
            <4> QED
                BY <1>6, <2>1, <3>2, <4>1 DEF Starts, log
        <3>3. CASE Len(P) = Len(log) + 1
            BY <1>0, <1>2, <3>1, <3>3
        <3> QED
            BY <1>0, <1>4, <3>1, <3>2, <3>3
    <2>3. A = {n}
        <3>1. ASSUME NEW w \in A, w # n PROVE FALSE
            <4>1. Acked(n, w, Len(log) + 1)
                BY <1>4, <2>1, <2>2, <3>1 DEF Ackers
            <4>2. matchIndex[n][w] \in Nat /\ matchIndex[n][w] <= Len(log)
                BY <1>0, <1>1 DEF LeaderFits, TypeOK
            <4>3. PICK m \in rpcs : /\ m.type = "appended" /\ m.success /\ m.dst = n
                                    /\ m.term = t /\ m.sentPrev + m.sentLen >= Len(log) + 1
                BY <1>0, <4>1, <4>2 DEF Acked
            <4>4. m.sentPrev \in Nat /\ m.sentLen \in Nat
                BY <1>0, <4>3, RpcFields DEF TypeOK, AppendReplies
            <4>5. AckFits(m)
                BY DEF LeaderInv, Fits
            <4>6. m.sentPrev + m.sentLen <= Len(log)
                BY <1>1, <4>3, <4>5 DEF AckFits, Is
            <4> QED
                BY <1>0, <4>3, <4>4, <4>6
        <3> QED
            BY <1>4, <2>1, <3>1 DEF Ackers
    <2>4. CASE \E x \in elected : x[1] > t
        <3>1. Dead(t, {n})
            BY <1>0, <2>4, Overtaken
        <3>2. Dead(LastTerm(P), A)
            BY <2>1, <2>3, <3>1
        <3> QED
            BY <1>0, <2>1, <3>2, DeadStays
    <2>5. CASE \A x \in elected : ~(x[1] > t)
        <3>0. \A x \in elected : x[1] \in Nat
            BY <1>0 DEF TypeOK
        <3>1. Holding(P, A)'
            BY <1>0, <1>1, <1>4, <2>1, <2>3 DEF Holding
        <3>2. LeadersHold(P)'
            <4> SUFFICES ASSUME NEW x \in Node, role[x] = "leader", persistent[x].term >= t
                         PROVE  Starts(persistent'[x].log, P)
                BY <1>1, <2>1 DEF LeadersHold
            <4>1. <<persistent[x].term, x>> \in elected /\ persistent[x].term \in Nat
                BY <1>0, MemberTypes DEF LeaderInv, MatchInv, LeaderElected
            <4>2. ~(persistent[x].term > t)
                BY <2>5, <4>1
            <4>3. persistent[x].term = t
                BY <1>0, <4>1, <4>2
            <4>4. x = n
                BY <1>0, <1>3, <4>1, <4>3 DEF ElectionSafety
            <4> QED
                BY <1>4, <2>1, <4>4
        <3>3. SentHold(P)'
            <4> SUFFICES ASSUME NEW m \in rpcs, m.type = "append", m.term >= t
                         PROVE  Agrees(m, P)
                BY <1>1, <2>1 DEF SentHold
            <4>1. SentFits(m) /\ m \in AppendRequests /\ m.term \in Nat
                BY <1>0, RpcFields DEF LeaderInv, Fits, TypeOK
            <4>2. <<m.term, m.src>> \in elected
                BY <4>1 DEF SentFits
            <4>3. ~(m.term > t)
                BY <2>5, <4>2
            <4>4. m.term = t
                BY <1>0, <4>1, <4>3
            <4>5. m.src = n
                BY <1>0, <1>3, <4>2, <4>4 DEF ElectionSafety
            <4>6. Piece(m, log)
                BY <1>1, <4>1, <4>4, <4>5 DEF SentFits, Is
            <4>7. m.prevIndex \in Nat /\ m.entries \in Seq(Entry) /\ Len(m.entries) \in Nat
                BY <4>1 DEF AppendRequests
            <4> HIDE DEF log
            <4>8. m.prevIndex + Len(m.entries) <= Len(log) /\ m.prevIndex <= Len(log)
                BY <1>0, <4>6, <4>7 DEF Piece
            <4>9. ASSUME NEW k \in 1..Len(m.entries)
                  PROVE  m.entries[k] = P[m.prevIndex + k]
                <5>1. m.prevIndex + k \in 1..Len(log)
                    BY <1>0, <4>7, <4>8
                <5> QED
                    BY <2>2, <4>6, <5>1 DEF Piece
            <4>10. m.prevIndex \in 1..Len(P) => m.prevTerm = P[m.prevIndex].term
                <5>1. m.prevIndex \in 1..Len(P) => m.prevIndex \in 1..Len(log) /\ m.prevIndex # 0
                    BY <1>0, <4>7, <4>8
                <5> QED
                    BY <2>2, <4>6, <5>1 DEF Piece
            <4>11. ~(m.prevIndex > Len(P))
                BY <1>0, <2>2, <4>7, <4>8
            <4> QED
                BY <4>9, <4>10, <4>11 DEF Agrees
        <3>4. LinksAfter(P)'
            <4> SUFFICES ASSUME NEW l \in Links', l.entry.term > LastTerm(P) PROVE FALSE
                BY DEF LinksAfter, LinkAfter
            <4>1. PICK x \in elected : x[1] = l.entry.term
                BY <1>1 DEF MatchInv, LinksElected
            <4> QED
                BY <2>1, <2>5, <4>1
        <3>5. VotesHold(P, A)'
            <4> SUFFICES ASSUME NEW x \in Node, persistent[x].term > t,
                                <<n, persistent[x].term, x>> \in grants
                         PROVE  FALSE
                BY <1>1, <2>1, <2>3 DEF VotesHold
            <4>1. t > persistent[x].term \/ t = persistent[x].term
                BY <1>0, Remembered
            <4>2. persistent[x].term \in Nat
                BY <1>0, MemberTypes
            <4> QED
                BY <1>0, <4>1, <4>2
        <3> QED
            BY <3>1, <3>2, <3>3, <3>4, <3>5 DEF Safe
    <2> QED
        BY <2>4, <2>5
<1> QED
    BY <1>5, <1>6

-----------------------------------------------------------------------------
(* What is committed.                                                       *)

\* The first i committed entries are part of a prefix of term t or earlier
\* that is safe for a majority.
Settled(i, t) ==
    i = 0 \/ \E P \in Seq(Entry), A \in Quorum :
                /\ Len(P) # 0 /\ Len(P) >= i /\ Starts(decided, P)
                /\ LastTerm(P) <= t /\ Safe(P, A)

\* So is all that was ever observed to be committed.
DecidedSafe ==
    Len(decided) = 0 \/ \E P \in Seq(Entry), A \in Quorum : P = decided /\ Safe(P, A)

\* What a member has committed and applied is settled and in its log.
Committed(n) ==
    /\ lastApplied[n] <= commitIndex[n] /\ commitIndex[n] <= Len(persistent[n].log)
    /\ \A i \in 1..commitIndex[n] : persistent[n].log[i] = decided[i]
    /\ Settled(commitIndex[n], persistent[n].term)

\* Leaders announce what is settled and within what they send.
SentSettled(m) ==
    m.type = "append" => /\ m.commit <= m.prevIndex + Len(m.entries)
                         /\ Settled(m.commit, m.term)

CommitInv ==
    /\ LeaderInv /\ LeaderSafe /\ DecidedSafe
    /\ \A n \in Node : Committed(n)
    /\ \A m \in rpcs : SentSettled(m)

\* What is settled stays so while the committed log only grows.
LEMMA SettledStays ==
    ASSUME SafeStep, Starts(decided', decided), TypeOK, TypeOK',
           NEW i \in Nat, NEW t \in Nat, NEW u \in Nat, t <= u, Settled(i, t)
    PROVE  \/ i = 0
           \/ \E P \in Seq(Entry), A \in Quorum :
                 /\ Len(P) # 0 /\ Len(P) >= i /\ Starts(decided', P)
                 /\ LastTerm(P) <= u /\ Safe(P, A)'
<1>1. CASE i = 0
    BY <1>1
<1>2. CASE i # 0
    <2>1. PICK P \in Seq(Entry), A \in Quorum :
               /\ Len(P) # 0 /\ Len(P) >= i /\ Starts(decided, P)
               /\ LastTerm(P) <= t /\ Safe(P, A)
        BY <1>2 DEF Settled
    <2>2. A # {} /\ ~Dead(LastTerm(P), A) /\ A \in SUBSET Node
        BY QuorumLives
    <2>3. Safe(P, A)'
        BY <2>1, <2>2 DEF SafeStep
    <2>4. Starts(decided', P)
        <3>1. Len(decided) \in Nat /\ Len(decided') \in Nat /\ Len(P) \in Nat
            BY DEF TypeOK
        <3>2. Len(P) <= Len(decided) /\ Len(decided) <= Len(decided')
            BY <2>1 DEF Starts
        <3>3. \A j \in 1..Len(P) : j \in 1..Len(decided)
            BY <3>1, <3>2
        <3> QED
            BY <2>1, <3>1, <3>2, <3>3 DEF Starts
    <2>5. LastTerm(P) <= u
        <3>1. LastTerm(P) \in Nat
            BY LastTermIs
        <3> QED
            BY <2>1, <3>1
    <2> QED
        BY <2>1, <2>3, <2>4, <2>5
<1> QED
    BY <1>1, <1>2

\* A member that keeps its commit index, or has lost it.
LEMMA CommittedStays ==
    ASSUME CommitInv, LeaderInv', DurableStep, SafeStep, Starts(decided', decided),
           NEW n \in Node,
           lastApplied'[n] <= commitIndex'[n], commitIndex'[n] \in {0, commitIndex[n]},
           commitIndex'[n] <= Len(persistent'[n].log),
           \A i \in 1..commitIndex'[n] : persistent'[n].log[i] = decided[i]
    PROVE  Committed(n)'
<1>0. TypeOK /\ TypeOK' /\ ElectionInv'
    BY DEF CommitInv, LeaderInv, MatchInv, ElectionInv, TypeInv
<1>1. /\ commitIndex[n] \in Nat /\ persistent[n].term \in Nat /\ persistent'[n].term \in Nat
      /\ Len(decided) \in Nat /\ commitIndex'[n] \in Nat
    BY <1>0, PersistentFields DEF TypeOK
<1>2. persistent[n].term <= persistent'[n].term
    BY <1>0, <1>1, TermsGrow DEF CommitInv
<1>3. Settled(commitIndex[n], persistent[n].term) /\ commitIndex[n] <= Len(decided)
    BY DEF CommitInv, Committed, LeaderInv, MatchInv, ElectionInv, TypeInv, CommitObserved
<1>4. \/ commitIndex[n] = 0
      \/ \E P \in Seq(Entry), A \in Quorum :
            /\ Len(P) # 0 /\ Len(P) >= commitIndex[n] /\ Starts(decided', P)
            /\ LastTerm(P) <= persistent'[n].term /\ Safe(P, A)'
    BY <1>0, <1>1, <1>2, <1>3, SettledStays
<1>5. Settled(commitIndex[n], persistent[n].term)'
    BY <1>4 DEF Settled
<1>6. \A i \in 1..commitIndex'[n] : persistent'[n].log[i] = decided'[i]
    <2>1. \A i \in 1..commitIndex'[n] : i \in 1..Len(decided)
        BY <1>1, <1>3
    <2> QED
        BY <2>1 DEF Starts
<1> QED
    BY <1>5, <1>6 DEF Committed

\* A message that was in flight before.
LEMMA SentStays ==
    ASSUME CommitInv, TypeOK', SafeStep, Starts(decided', decided),
           NEW m \in rpcs', Carried(m) \/ m.type # "append"
    PROVE  SentSettled(m)'
<1> SUFFICES ASSUME m.type = "append"
             PROVE  /\ m.commit <= m.prevIndex + Len(m.entries)
                    /\ Settled(m.commit, m.term)'
    BY DEF SentSettled
<1>0. TypeOK
    BY DEF CommitInv, LeaderInv, MatchInv, ElectionInv, TypeInv
<1>1. PICK r \in rpcs : SameRequest(r, m)
    BY DEF Carried
<1>2. /\ r.type = "append" /\ r.term = m.term /\ r.prevIndex = m.prevIndex
      /\ r.entries = m.entries /\ r.commit = m.commit
    BY <1>1 DEF SameRequest
<1>3. m.commit <= m.prevIndex + Len(m.entries) /\ Settled(m.commit, m.term)
    BY <1>2 DEF CommitInv, SentSettled
<1>4. m.commit \in Nat /\ m.term \in Nat
    BY RpcFields DEF TypeOK, AppendRequests
<1>5. \/ m.commit = 0
      \/ \E P \in Seq(Entry), A \in Quorum :
            /\ Len(P) # 0 /\ Len(P) >= m.commit /\ Starts(decided', P)
            /\ LastTerm(P) <= m.term /\ Safe(P, A)'
    <2>1. m.term <= m.term
        BY <1>4
    <2> QED
        BY <1>0, <1>3, <1>4, <2>1, SettledStays
<1> QED
    BY <1>3, <1>5 DEF Settled

\* The committed log itself.
LEMMA DecidedStays ==
    ASSUME CommitInv, SafeStep, decided' = decided
    PROVE  DecidedSafe' /\ Starts(decided', decided)
<1>1. TypeOK
    BY DEF CommitInv, LeaderInv, MatchInv, ElectionInv, TypeInv
<1>2. Starts(decided', decided)
    <2>1. Len(decided) \in Nat
        BY <1>1 DEF TypeOK
    <2> QED
        BY <2>1 DEF Starts
<1>3. DecidedSafe'
    <2>1. CASE Len(decided) = 0
        BY <2>1 DEF DecidedSafe
    <2>2. CASE Len(decided) # 0
        <3>1. PICK P \in Seq(Entry), A \in Quorum : P = decided /\ Safe(P, A)
            BY <2>2 DEF CommitInv, DecidedSafe
        <3>2. Safe(P, A)'
            <4>1. A # {} /\ ~Dead(LastTerm(P), A) /\ A \in SUBSET Node
                BY QuorumLives
            <4> QED
                BY <2>2, <3>1, <4>1 DEF SafeStep
        <3> QED
            BY <3>1, <3>2 DEF DecidedSafe
    <2> QED
        BY <2>1, <2>2
<1> QED
    BY <1>2, <1>3

\* A step that changes no commit index except by forgetting it, no log up to
\* there, and sends no AppendEntries.
Resting(n) ==
    /\ lastApplied'[n] <= commitIndex'[n] /\ commitIndex'[n] \in {0, commitIndex[n]}
    /\ commitIndex'[n] <= Len(persistent'[n].log)
    /\ \A i \in 1..commitIndex'[n] : persistent'[n].log[i] = decided[i]

\* It keeps the invariant.
LEMMA CommitRests ==
    ASSUME CommitInv, LeaderInv', LeaderSafe', DurableStep, SafeStep, decided' = decided,
           \A n \in Node : Resting(n),
           \A m \in rpcs' : Carried(m) \/ m.type # "append"
    PROVE  CommitInv'
<1>1. DecidedSafe' /\ Starts(decided', decided)
    BY DecidedStays
<1>2. ASSUME NEW n \in Node PROVE Committed(n)'
    BY <1>1, CommittedStays DEF Resting
<1>3. TypeOK'
    BY DEF LeaderInv, MatchInv, ElectionInv, TypeInv
<1>4. \A m \in rpcs' : SentSettled(m)'
    BY <1>1, <1>3, SentStays
<1> QED
    BY <1>1, <1>2, <1>4 DEF CommitInv

\* A member whose log and indexes are unchanged rests.
LEMMA Rests ==
    ASSUME CommitInv, NEW n \in Node, persistent'[n].log = persistent[n].log,
           commitIndex'[n] = commitIndex[n],
           lastApplied'[n] \in {lastApplied[n], commitIndex[n]}
    PROVE  Resting(n)
<1>1. Committed(n) /\ TypeOK
    BY DEF CommitInv, LeaderInv, MatchInv, ElectionInv, TypeInv
<1>2. commitIndex[n] \in Nat
    BY <1>1 DEF TypeOK
<1>3. /\ lastApplied[n] <= commitIndex[n] /\ commitIndex[n] <= Len(persistent[n].log)
      /\ \A i \in 1..commitIndex[n] : persistent[n].log[i] = decided[i]
    BY <1>1 DEF Committed
<1> QED
    BY <1>2, <1>3 DEF Resting

-----------------------------------------------------------------------------
(* The steps that commit.                                                   *)

\* The leader and the peers that reach index c.
Holders(n, c) == {n} \cup {p \in Peers(n) : matchIndex'[n][p] >= c}

\* Two prefixes that are safe for majorities are prefixes of one log.
LEMMA SafeAgree ==
    ASSUME TypeOK, NEW P \in Seq(Entry), NEW A \in Quorum, Safe(P, A),
           NEW R \in Seq(Entry), NEW B \in Quorum, Safe(R, B), Len(P) <= Len(R)
    PROVE  Starts(R, P)
<1>1. PICK w \in A : w \in B
    BY QuorumsMeet
<1>2. Starts(persistent[w].log, P) /\ Starts(persistent[w].log, R)
    BY <1>1 DEF Safe, Holding
<1>3. Len(P) \in Nat /\ Len(R) \in Nat
    OBVIOUS
<1> QED
    BY <1>2, <1>3 DEF Starts

\* What the leader commits is safe for the majority it counted.
LEMMA CommitSafe ==
    ASSUME ~LateReplies, CommitInv, ElectionInv', DurableStep, SafeStep,
           NEW n \in Node, NEW m \in rpcs, AppendSucceeded(n, m)
    PROVE  \/ commitIndex'[n] = commitIndex[n] /\ decided' = decided
           \/ \E P \in Seq(Entry), A \in Quorum :
                 /\ Len(P) # 0 /\ Len(P) = commitIndex'[n]
                 /\ Starts(persistent[n].log, P) /\ LastTerm(P) = persistent[n].term
                 /\ Safe(P, A)
                 /\ decided' = IF Len(P) > Len(decided) THEN P ELSE decided
<1> DEFINE log == persistent[n].log
           t == persistent[n].term
           old == commitIndex[n]
           c == commitIndex'[n]
           matches == matchIndex'[n]
<1>0. /\ TypeOK /\ log \in Seq(Entry) /\ t \in Nat /\ Len(log) \in Nat /\ old \in Nat
      /\ old <= Len(decided) /\ Len(decided) \in Nat /\ LeaderSafe /\ LeaderInv
    <2>1. TypeOK /\ CommitObserved
        BY DEF CommitInv, LeaderInv, MatchInv, ElectionInv, TypeInv
    <2>2. log \in Seq(Entry) /\ t \in Nat /\ Len(log) \in Nat
        BY <2>1, MemberTypes
    <2>3. old \in Nat /\ old <= Len(decided) /\ Len(decided) \in Nat
        BY <2>1 DEF CommitObserved, TypeOK
    <2> QED
        BY <2>1, <2>2, <2>3 DEF CommitInv
<1>1. /\ c = AdvanceCommit(log, t, old, matches, Peers(n), Majority)
      /\ Observe(log, c)
    <2> DEFINE match == m.sentPrev + m.sentLen
               raised == match > matchIndex[n][m.src]
               now == IF raised THEN [matchIndex[n] EXCEPT ![m.src] = match]
                      ELSE matchIndex[n]
               d == AdvanceCommit(log, t, old, now, Peers(n), Majority)
    <2>1. /\ matchIndex' = [matchIndex EXCEPT ![n] = now]
          /\ commitIndex' = [commitIndex EXCEPT ![n] = d]
          /\ Observe(log, d)
        BY DEF AppendSucceeded
    <2> HIDE DEF now, d
    <2>2. matches = now /\ c = d
        BY <1>0, <2>1 DEF TypeOK
    <2> QED
        BY <2>1, <2>2 DEF d
<1>2. /\ \A w \in Node, i \in Nat : matches[w] >= i => Acked(n, w, i)
      /\ role[n] = "leader"
    BY <1>0, OwnSucceeded
<1>3. decided' = IF c > Len(decided) THEN SubSeq(log, 1, c) ELSE decided
    BY <1>1 DEF Observe
<1> HIDE DEF c, matches, log, t, old
<1>4. c \in Nat /\ c >= old /\ (c > old => c \in 1..Len(log) /\ log[c].term = t)
    BY <1>0, <1>1, AdvanceCommitBounds
<1>5. CASE c = old
    BY <1>0, <1>3, <1>5 DEF c, old
<1>6. CASE c > old
    <2> DEFINE P == SubSeq(log, 1, c)
               A == Holders(n, c)
    <2>1. c \in 1..Len(log) /\ log[c].term = t /\ c <= Len(log)
        BY <1>0, <1>4, <1>6
    <2>2. P \in Seq(Entry) /\ Len(P) = c /\ \A i \in 1..c : P[i] = log[i]
        <3>1. \A i \in 1..c : log[i] \in Entry
            BY <1>0, <2>1
        <3>2. /\ Len(P) = IF 1 <= c THEN c - 1 + 1 ELSE 0
              /\ \A i \in 1..(c - 1 + 1) : P[i] = log[1 + i - 1]
              /\ P \in Seq(Entry)
            BY <1>0, <1>4, <3>1, SubSeqProperties
        <3>3. c - 1 + 1 = c /\ 1 <= c /\ \A i \in 1..c : 1 + i - 1 = i
            BY <1>4, <2>1
        <3> HIDE DEF P
        <3> QED
            BY <3>2, <3>3
    <2> HIDE DEF P
    <2>3. Len(P) # 0 /\ Starts(log, P) /\ LastTerm(P) = t
        <3>1. Len(P) # 0 /\ Starts(log, P)
            BY <1>4, <2>1, <2>2 DEF Starts
        <3>2. LastTerm(P) = P[Len(P)].term
            BY <2>2, <3>1, LastTermIs
        <3> QED
            BY <2>1, <2>2, <3>1, <3>2
    <2>4. A \in Quorum
        <3> DEFINE S == {p \in Peers(n) : matches[p] >= c}
        <3>1. S \subseteq Node /\ n \notin S /\ IsFiniteSet(S)
            <4>1. S \subseteq Node /\ n \notin S
                BY DEF Peers
            <4> QED
                BY <4>1, NodeAssumption, FS_Subset
        <3>2. A = S \cup {n}
            BY DEF Holders, matches
        <3>3. Cardinality(S) + 1 >= Majority
            BY <1>0, <1>1, <1>6, AdvanceCommitHeld
        <3> HIDE DEF S, A
        <3>4. Cardinality(S \cup {n}) = Cardinality(S) + 1
            BY <3>1, FS_AddElement
        <3> QED
            BY <3>1, <3>2, <3>3, <3>4 DEF Quorum
    <2>5. Ackers(n, A, Len(P))
        <3> SUFFICES ASSUME NEW w \in A, w # n PROVE Acked(n, w, c)
            BY <2>2 DEF Ackers, Holders
        <3>1. w \in Node /\ matches[w] >= c
            BY DEF Holders, Peers, matches
        <3> QED
            BY <1>2, <1>4, <3>1
    <2> HIDE DEF A
    <2>6. Own(n, P)
        BY <1>2, <2>3 DEF Own, log, t
    <2>7. ~Dead(LastTerm(P), A) /\ A \in SUBSET Node
        BY <2>4, QuorumLives
    <2>8. Safe(P, A)
        BY <1>0, <2>2, <2>5, <2>6, <2>7 DEF LeaderSafe
    <2>9. decided' = IF Len(P) > Len(decided) THEN P ELSE decided
        BY <1>3, <2>2 DEF P
    <2> QED
        BY <2>2, <2>3, <2>4, <2>8, <2>9 DEF log, t, c
<1> QED
    BY <1>0, <1>4, <1>5, <1>6

\* The leader's commit extends the committed log or lies within it.
LEMMA CommitSucceeded ==
    ASSUME ~LateReplies, CommitInv, LeaderInv', DurableStep, SafeStep,
           NEW n \in Node, NEW m \in rpcs, AppendSucceeded(n, m)
    PROVE  CommitInv' /\ Starts(decided', decided) /\ lastApplied' = lastApplied
<1>0. TypeOK /\ TypeOK' /\ ElectionInv' /\ LeaderInv /\ LeaderSafe /\ Committed(n)
    BY DEF CommitInv, LeaderInv, MatchInv, ElectionInv, TypeInv
<1>1. /\ LeaderSafe' /\ UNCHANGED <<persistent, lastApplied>> /\ rpcs' \subseteq rpcs
    BY <1>0, OwnSucceeded
<1>2. \A o \in Node : o # n => commitIndex'[o] = commitIndex[o]
    BY <1>0 DEF AppendSucceeded, TypeOK
<1>3. \A r \in rpcs' : Carried(r)
    BY <1>1 DEF Carried, SameRequest
<1>4. CASE commitIndex'[n] = commitIndex[n] /\ decided' = decided
    <2>1. \A o \in Node : Resting(o)
        BY <1>1, <1>2, <1>4, Rests
    <2>2. CommitInv'
        BY <1>1, <1>3, <1>4, <2>1, CommitRests
    <2> QED
        BY <1>1, <1>4, <2>2, DecidedStays
<1>5. ASSUME NEW P \in Seq(Entry), NEW A \in Quorum, Len(P) # 0, Len(P) = commitIndex'[n],
             Starts(persistent[n].log, P), LastTerm(P) = persistent[n].term, Safe(P, A),
             decided' = IF Len(P) > Len(decided) THEN P ELSE decided
      PROVE  CommitInv' /\ Starts(decided', decided) /\ lastApplied' = lastApplied
    <2>0. Len(P) \in Nat /\ Len(decided) \in Nat /\ decided \in Seq(Entry)
        BY <1>0 DEF TypeOK
    <2>1. Safe(P, A)'
        <3>1. A # {} /\ ~Dead(LastTerm(P), A) /\ A \in SUBSET Node
            BY QuorumLives
        <3> QED
            BY <1>5, <3>1 DEF SafeStep
    <2>2. /\ Starts(decided', P) /\ Starts(decided', decided) /\ DecidedSafe'
        <3>1. CASE Len(decided) = 0
            <4>1. decided' = P
                BY <1>5, <2>0, <3>1
            <4> QED
                BY <1>5, <2>0, <2>1, <3>1, <4>1 DEF Starts, DecidedSafe
        <3>2. CASE Len(decided) # 0
            <4>1. PICK R \in Seq(Entry), B \in Quorum : R = decided /\ Safe(R, B)
                BY <3>2 DEF CommitInv, DecidedSafe
            <4>2. CASE Len(P) > Len(decided)
                <5>1. decided' = P /\ Len(R) <= Len(P)
                    BY <1>5, <2>0, <4>1, <4>2
                <5>2. Starts(P, R)
                    BY <1>0, <1>5, <4>1, <5>1, SafeAgree
                <5> QED
                    BY <2>0, <2>1, <4>1, <5>1, <5>2 DEF Starts, DecidedSafe
            <4>3. CASE ~(Len(P) > Len(decided))
                <5>1. decided' = decided /\ Len(P) <= Len(R)
                    BY <1>5, <2>0, <4>1, <4>3
                <5>2. Starts(R, P)
                    BY <1>0, <1>5, <4>1, <5>1, SafeAgree
                <5> QED
                    BY <4>1, <5>1, <5>2, DecidedStays
            <4> QED
                BY <4>2, <4>3
        <3> QED
            BY <3>1, <3>2
    <2>3. ASSUME NEW o \in Node PROVE Committed(o)'
        <3>1. CASE o # n
            <4>1. Resting(o)
                BY <1>1, <1>2, <3>1, Rests
            <4> QED
                BY <2>2, <4>1, CommittedStays DEF Resting
        <3>2. CASE o = n
            <4>1. /\ commitIndex'[n] <= Len(persistent'[n].log)
                  /\ \A i \in 1..commitIndex'[n] : persistent'[n].log[i] = decided'[i]
                BY <1>1, <1>5, <2>2 DEF Starts
            <4>2. lastApplied'[n] <= commitIndex'[n]
                <5>1. commitIndex[n] <= commitIndex'[n]
                    <6> DEFINE match == m.sentPrev + m.sentLen
                               raised == match > matchIndex[n][m.src]
                               now == IF raised THEN [matchIndex[n] EXCEPT ![m.src] = match]
                                      ELSE matchIndex[n]
                               d == AdvanceCommit(persistent[n].log, persistent[n].term,
                                                  commitIndex[n], now, Peers(n), Majority)
                    <6>1. commitIndex' = [commitIndex EXCEPT ![n] = d]
                        BY DEF AppendSucceeded
                    <6> HIDE DEF now
                    <6>2. persistent[n].log \in Seq(Entry) /\ commitIndex[n] \in Nat
                        BY <1>0, MemberTypes DEF TypeOK
                    <6>3. d \in Nat /\ d >= commitIndex[n]
                        BY <6>2, AdvanceCommitBounds
                    <6> HIDE DEF d
                    <6>4. commitIndex'[n] = d
                        BY <1>0, <6>1 DEF TypeOK
                    <6> QED
                        BY <6>2, <6>3, <6>4
                <5>2. /\ lastApplied[n] <= commitIndex[n] /\ lastApplied[n] \in Nat
                      /\ commitIndex[n] \in Nat /\ commitIndex'[n] \in Nat
                    BY <1>0 DEF Committed, TypeOK
                <5> QED
                    BY <1>1, <5>1, <5>2
            <4>3. Settled(commitIndex[n], persistent[n].term)'
                <5>1. /\ Len(P) >= commitIndex'[n] /\ LastTerm(P) <= persistent'[n].term
                    <6>1. persistent[n].term \in Nat
                        BY <1>0, MemberTypes
                    <6> QED
                        BY <1>1, <1>5, <2>0, <6>1
                <5> QED
                    BY <1>5, <2>1, <2>2, <5>1 DEF Settled
            <4> QED
                BY <3>2, <4>1, <4>2, <4>3 DEF Committed
        <3> QED
            BY <3>1, <3>2
    <2>4. \A r \in rpcs' : SentSettled(r)'
        BY <1>0, <1>3, <2>2, SentStays
    <2> QED
        BY <1>1, <2>2, <2>3, <2>4 DEF CommitInv
<1> QED
    BY <1>0, <1>4, <1>5, CommitSafe

\* Heartbeats announce what their leader has committed.
LEMMA CommitHeartbeat ==
    ASSUME CommitInv, LeaderInv', DurableStep, SafeStep, Links' \subseteq Links,
           NEW n \in Node, Heartbeat(n)
    PROVE  CommitInv' /\ UNCHANGED <<decided, lastApplied>>
<1>0. /\ TypeOK /\ TypeOK' /\ ElectionInv' /\ MatchInv' /\ LeaderInv /\ LeaderSafe
      /\ Committed(n) /\ role[n] = "leader"
    BY DEF CommitInv, LeaderInv, MatchInv, ElectionInv, TypeInv, Heartbeat
<1>1. UNCHANGED <<persistent, role, commitIndex, lastApplied, matchIndex, decided>>
    BY DEF Heartbeat, durable, volatile, history
<1>2. \A m \in rpcs' : m \in rpcs \/ \E p \in Node : m = AppendRequest(n, p)
    BY <1>0, LeaderHeartbeat
<1>3. SameAcks
    BY <1>2 DEF SameAcks, AppendRequest
<1>4. LeaderSafe'
    BY <1>0, <1>1, <1>3, LeaderSafeCarried DEF AckersStay
<1>5. DecidedSafe' /\ Starts(decided', decided)
    BY <1>1, DecidedStays
<1>6. ASSUME NEW o \in Node PROVE Committed(o)'
    <2>1. Resting(o)
        BY <1>1, Rests
    <2> QED
        BY <1>5, <2>1, CommittedStays DEF Resting
<1>7. ASSUME NEW m \in rpcs' PROVE SentSettled(m)'
    <2>1. CASE m \in rpcs
        BY <1>0, <1>5, <2>1, SentStays DEF Carried, SameRequest
    <2>2. ASSUME NEW p \in Node, m = AppendRequest(n, p) PROVE SentSettled(m)'
        <3>1. /\ m.term = persistent[n].term /\ m.commit = commitIndex[n]
              /\ m.prevIndex + Len(m.entries) = Len(persistent[n].log)
            BY <1>0, <2>2, RequestPiece
        <3>2. commitIndex[n] <= Len(persistent[n].log)
            BY <1>0 DEF Committed
        <3>3. Settled(commitIndex[n], persistent[n].term)'
            BY <1>6 DEF Committed
        <3>4. Settled(m.commit, m.term)'
            BY <1>1, <3>1, <3>3 DEF Settled
        <3> QED
            BY <3>1, <3>2, <3>4 DEF SentSettled
    <2> QED
        BY <1>2, <2>1, <2>2
<1> QED
    BY <1>1, <1>4, <1>5, <1>6, <1>7 DEF CommitInv

\* A follower commits what its leader announced, and has it.
LEMMA CommitAccept ==
    ASSUME CommitInv, LeaderInv', DurableStep, SafeStep, Links' \subseteq Links,
           NEW n \in Node, NEW m \in rpcs, AcceptAppend(n, m)
    PROVE  CommitInv' /\ UNCHANGED <<decided, lastApplied>>
<1> DEFINE a == persistent[n].log
           b == persistent'[n].log
           old == commitIndex[n]
           c == commitIndex'[n]
<1>0. /\ TypeOK /\ TypeOK' /\ ElectionInv' /\ MatchInv' /\ LeaderInv /\ LeaderSafe
      /\ Committed(n) /\ SentSettled(m) /\ LinksUnique /\ LinksContiguous
    BY DEF CommitInv, LeaderInv, MatchInv, ElectionInv, TypeInv
<1>1. /\ m.type = "append" /\ m \in AppendRequests
      /\ m.term \in Nat /\ m.term >= persistent[n].term
      /\ PrevMatches(a, m.prevIndex, m.prevTerm)
      /\ persistent'[n].term = m.term /\ b \in Seq(Entry)
      /\ Merged(a, m.prevIndex, m.entries, b)
      /\ \A o \in Node : o # n => persistent'[o] = persistent[o]
      /\ commitIndex' = [commitIndex EXCEPT ![n] = FollowerCommit(b, old, m.commit)]
      /\ Observe(b, FollowerCommit(b, old, m.commit))
      /\ \A r \in rpcs' : r \in rpcs \/ Acknowledges(r, m)
      /\ UNCHANGED lastApplied
    BY <1>0, AcceptEffect
<1>2. /\ c = FollowerCommit(b, old, m.commit) /\ Observe(b, c)
      /\ \A o \in Node : o # n => commitIndex'[o] = commitIndex[o]
    BY <1>0, <1>1 DEF TypeOK
<1>3. /\ a \in Seq(Entry) /\ persistent[n].term \in Nat /\ old \in Nat /\ m.commit \in Nat
      /\ m.prevIndex \in Nat /\ Len(m.entries) \in Nat /\ Len(decided) \in Nat
      /\ old <= Len(decided) /\ old <= Len(a) /\ Len(a) \in Nat /\ Len(b) \in Nat
      /\ \A i \in 1..old : a[i] = decided[i]
    <2>1. a \in Seq(Entry) /\ persistent[n].term \in Nat /\ Len(a) \in Nat /\ Len(b) \in Nat
        BY <1>0, <1>1, MemberTypes
    <2>2. m.commit \in Nat /\ m.prevIndex \in Nat /\ Len(m.entries) \in Nat
        BY <1>1 DEF AppendRequests
    <2>3. old \in Nat /\ Len(decided) \in Nat
        BY <1>0 DEF TypeOK
    <2>4. old <= Len(decided)
        BY DEF CommitInv, LeaderInv, MatchInv, ElectionInv, TypeInv, CommitObserved
    <2>5. old <= Len(a) /\ \A i \in 1..old : a[i] = decided[i]
        BY <1>0 DEF Committed
    <2> QED
        BY <2>1, <2>2, <2>3, <2>4, <2>5
<1>4. LogLinks(b) \subseteq Links
    <2>1. LogLinks(b) \subseteq Link
        BY <1>1, LogLinkParts DEF LogLinks
    <2>2. LogLinks(b) \subseteq Links'
        BY <2>1 DEF Links, IsLink
    <2> QED
        BY <2>2
<1>5. ASSUME NEW P \in Seq(Entry), NEW A \in Quorum, LastTerm(P) <= m.term, Safe(P, A)
      PROVE  /\ Agrees(m, P) /\ LinksAfter(P) /\ LogLinks(P) \subseteq Links
    <2>1. A # {} /\ A \in SUBSET Node
        BY QuorumLives
    <2>2. m.term >= LastTerm(P)
        BY <1>1, <1>5, LastTermIs
    <2> QED
        BY <1>0, <1>1, <1>5, <2>1, <2>2, SafeLinks DEF Safe, SentHold
<1>6. Len(b) >= m.prevIndex + Len(m.entries)
    BY <1>1, <1>3, MergedHas
<1> HIDE DEF a, b, old, c
<1>7. /\ old <= Len(b) /\ \A i \in 1..old : b[i] = decided[i]
    <2>1. CASE old = 0
        BY <1>3, <2>1
    <2>2. CASE old # 0
        <3>1. PICK P \in Seq(Entry), A \in Quorum :
                   /\ Len(P) # 0 /\ Len(P) >= old /\ Starts(decided, P)
                   /\ LastTerm(P) <= persistent[n].term /\ Safe(P, A)
            BY <1>0, <2>2 DEF Committed, Settled, old
        <3>2. LastTerm(P) <= m.term
            BY <1>1, <1>3, <3>1, LastTermIs
        <3>3. Agrees(m, P)
            BY <1>5, <3>1, <3>2
        <3>4. old <= Len(P) /\ \A i \in 1..old : a[i] = P[i] /\ decided[i] = P[i]
            <4>1. Len(P) \in Nat
                OBVIOUS
            <4>2. old <= Len(P) /\ \A i \in 1..old : i \in 1..Len(P)
                BY <1>3, <3>1, <4>1
            <4> QED
                BY <1>3, <3>1, <4>2 DEF Starts
        <3>5. old <= Len(b) /\ \A i \in 1..old : b[i] = P[i]
            BY <1>1, <1>3, <3>3, <3>4, MergeKeeps
        <3> QED
            BY <3>4, <3>5
    <2> QED
        BY <2>1, <2>2
<1>8. /\ c >= old /\ c <= Len(b) /\ c <= Len(decided) /\ c \in Nat
      /\ \A i \in 1..c : b[i] = decided[i]
      /\ \/ c = old
         \/ c = m.commit /\ c # 0
    <2>1. CASE m.commit <= old
        <3>1. c = old
            BY <1>2, <2>1 DEF FollowerCommit
        <3> QED
            BY <1>3, <1>7, <3>1
    <2>2. CASE ~(m.commit <= old)
        <3>1. m.commit <= m.prevIndex + Len(m.entries)
            BY <1>0, <1>1 DEF SentSettled
        <3>2. m.commit <= Len(b) /\ m.commit # 0
            BY <1>3, <1>6, <2>2, <3>1
        <3>3. c = m.commit
            BY <1>2, <2>2, <3>2 DEF FollowerCommit, LastIndex
        <3>4. PICK P \in Seq(Entry), A \in Quorum :
                   /\ Len(P) # 0 /\ Len(P) >= m.commit /\ Starts(decided, P)
                   /\ LastTerm(P) <= m.term /\ Safe(P, A)
            BY <1>0, <1>1, <3>2 DEF SentSettled, Settled
        <3>5. Agrees(m, P) /\ LinksAfter(P) /\ LogLinks(P) \subseteq Links
            BY <1>5, <3>4
        <3>6. Len(P) \in Nat /\ m.commit \in 1..Len(P)
            BY <1>3, <3>2, <3>4
        <3>7. m.commit <= Len(b) /\ \A i \in 1..m.commit : b[i] = P[i]
            <4>1. PrevMatches(a, m.prevIndex, m.prevTerm) /\ Merged(a, m.prevIndex, m.entries, b)
                BY <1>1
            <4>2. LinksUnique /\ LinksContiguous /\ m \in AppendRequests /\ b \in Seq(Entry)
                BY <1>0, <1>1
            <4>3. Len(P) # 0 /\ a \in Seq(Entry)
                BY <1>3, <3>4
            <4> QED
                BY <1>4, <3>1, <3>5, <3>6, <4>1, <4>2, <4>3, AcceptedHolds
        <3>8. m.commit <= Len(decided) /\ \A i \in 1..m.commit : decided[i] = P[i]
            <4>1. Len(P) <= Len(decided) /\ \A i \in 1..m.commit : i \in 1..Len(P)
                BY <3>4, <3>6 DEF Starts
            <4> QED
                BY <1>3, <3>4, <3>6, <4>1 DEF Starts
        <3> QED
            BY <1>3, <2>2, <3>2, <3>3, <3>7, <3>8
    <2> QED
        BY <2>1, <2>2
<1>9. decided' = decided
    BY <1>2, <1>3, <1>8 DEF Observe
<1>10. DecidedSafe' /\ Starts(decided', decided)
    BY <1>9, DecidedStays
<1>11. ASSUME NEW o \in Node PROVE Committed(o)'
    <2>1. CASE o # n
        <3>1. Resting(o)
            BY <1>1, <1>2, <2>1, Rests
        <3> QED
            BY <1>10, <3>1, CommittedStays DEF Resting
    <2>2. CASE o = n
        <3>1. lastApplied'[n] <= c
            <4>1. lastApplied[n] <= old /\ lastApplied[n] \in Nat
                BY <1>0 DEF Committed, TypeOK, old
            <4> QED
                BY <1>1, <1>3, <1>8, <4>1
        <3>2. Settled(commitIndex[n], persistent[n].term)'
            <4>1. CASE c = old
                <5>1. persistent[n].term <= m.term
                    BY <1>1, <1>3
                <5>2. Settled(old, persistent[n].term)
                    BY <1>0 DEF Committed, old
                <5>3. \/ old = 0
                      \/ \E P \in Seq(Entry), A \in Quorum :
                            /\ Len(P) # 0 /\ Len(P) >= old /\ Starts(decided', P)
                            /\ LastTerm(P) <= m.term /\ Safe(P, A)'
                    BY <1>0, <1>1, <1>3, <1>10, <5>1, <5>2, SettledStays
                <5> QED
                    BY <1>1, <4>1, <5>3 DEF Settled, c
            <4>2. CASE c = m.commit
                <5>1. Settled(m.commit, m.term) /\ m.term <= m.term
                    BY <1>0, <1>1 DEF SentSettled
                <5>2. \/ m.commit = 0
                      \/ \E P \in Seq(Entry), A \in Quorum :
                            /\ Len(P) # 0 /\ Len(P) >= m.commit /\ Starts(decided', P)
                            /\ LastTerm(P) <= m.term /\ Safe(P, A)'
                    BY <1>0, <1>1, <1>3, <1>10, <5>1, SettledStays
                <5> QED
                    BY <1>1, <4>2, <5>2 DEF Settled, c
            <4> QED
                BY <1>8, <4>1, <4>2
        <3> QED
            BY <1>8, <1>9, <2>2, <3>1, <3>2 DEF Committed, c, b
    <2> QED
        BY <2>1, <2>2
<1>12. \A r \in rpcs' : SentSettled(r)'
    <2>1. \A r \in rpcs' : Carried(r) \/ r.type # "append"
        BY <1>1 DEF Carried, SameRequest, Acknowledges
    <2> QED
        BY <1>0, <1>10, <2>1, SentStays
<1>13. LeaderSafe'
    BY <1>0, OwnAccept
<1> QED
    BY <1>1, <1>9, <1>10, <1>11, <1>12, <1>13 DEF CommitInv

-----------------------------------------------------------------------------
(* The invariant, while no write has failed.                                *)

\* What a step does to the committed log and to what is applied.
LogStep ==
    /\ Starts(decided', decided)
    /\ \/ lastApplied' = lastApplied
       \/ decided' = decided /\ \E n \in Node : TakeCommitted(n) \/ Restart(n)

\* A calm step that moves no match_index.
LEMMA CommitCalm ==
    ASSUME CommitInv, LeaderInv', DurableStep, SafeStep, Calm,
           \A o \in Node : role'[o] = "leader" => matchIndex'[o] = matchIndex[o],
           decided' = decided, \A o \in Node : Resting(o)
    PROVE  CommitInv' /\ Starts(decided', decided)
<1>0. ElectionInv' /\ LeaderInv /\ LeaderSafe
    BY DEF CommitInv, LeaderInv, MatchInv
<1>1. AckersStay
    BY DEF AckersStay, Calm
<1>2. SameAcks
    BY DEF SameAcks, Calm, Carried
<1>3. LeaderSafe'
    BY <1>0, <1>1, <1>2, LeaderSafeCarried
<1> QED
    BY <1>3, CommitRests, DecidedStays DEF Calm

\* Every step keeps the invariant unless a disk write fails.
LEMMA CommitNext ==
    ASSUME ~LateReplies, CommitInv, [Next]_vars, faults' = 0
    PROVE  CommitInv' /\ LogStep
<1>0. LeaderInv' /\ DurableStep /\ SafeStep /\ LeaderInv /\ LeaderSafe
    BY LeaderNext, SafeNext DEF CommitInv
<1>1. MatchInv /\ MatchInv' /\ ElectionInv' /\ TypeOK /\ TypeOK'
    BY <1>0 DEF LeaderInv, MatchInv, ElectionInv, TypeInv
<1>2. faults + 1 # 0
    <2>1. faults \in Nat
        BY <1>1 DEF TypeOK
    <2> QED
        BY <2>1
<1>3. ASSUME Calm, \A o \in Node : role'[o] = "leader" => matchIndex'[o] = matchIndex[o],
             UNCHANGED <<commitIndex, lastApplied, decided>>
      PROVE  CommitInv' /\ LogStep
    <2>1. \A o \in Node : Resting(o)
        BY <1>3, Rests DEF Calm
    <2> QED
        BY <1>0, <1>3, <2>1, CommitCalm DEF LogStep
<1>4. ASSUME CommitInv', UNCHANGED <<decided, lastApplied>> PROVE CommitInv' /\ LogStep
    BY <1>0, <1>4, DecidedStays DEF LogStep
<1>5. ASSUME NEW n \in Node, NEW m \in rpcs, HandleRpc(n, m) PROVE CommitInv' /\ LogStep
    <2>1. CASE \/ HandleRequestVote(n, m) \/ RejectMismatchedAppend(n, m)
               \/ StepDownOnReply(n, m)
        <3>1. Calm /\ IndexesStay /\ UNCHANGED <<commitIndex, lastApplied, decided>>
            BY <1>0, <2>1, AdoptCalm
        <3> QED
            BY <1>3, <3>1 DEF IndexesStay
    <2>2. CASE AcceptAppend(n, m)
        <3>1. Links' \subseteq Links
            BY <1>1, <2>2, MatchMerge
        <3> QED
            BY <1>0, <1>4, <2>2, <3>1, CommitAccept
    <2>3. CASE CountVote(n, m)
        <3>1. Links' \subseteq Links
            BY <1>1, <2>3, MatchCount
        <3>2. /\ UNCHANGED <<persistent, commitIndex, lastApplied, decided>>
              /\ rpcs' \subseteq rpcs
            BY <1>0, <1>1, <2>3, <3>1, LeaderCount
        <3>3. LeaderSafe'
            BY <1>0, <1>1, <2>3, <3>1, OwnCount
        <3>4. \A o \in Node : Resting(o)
            BY <3>2, Rests
        <3>5. \A r \in rpcs' : Carried(r)
            BY <3>2 DEF Carried, SameRequest
        <3>6. CommitInv'
            BY <1>0, <3>2, <3>3, <3>4, <3>5, CommitRests
        <3> QED
            BY <1>4, <3>2, <3>6
    <2>4. CASE AppendSucceeded(n, m)
        BY <1>0, <2>4, CommitSucceeded DEF LogStep
    <2>5. CASE \/ RejectStaleVote(n, m) \/ RejectStaleAppend(n, m) \/ IgnoreReply(n, m)
               \/ AppendFailed(n, m)
        <3>1. UNCHANGED <<persistent, disk, role>> /\ NoAcks
            BY <2>5, IdleHandlers
        <3>2. UNCHANGED <<commitIndex, lastApplied, matchIndex, decided>>
            BY <2>5 DEF RejectStaleVote, RejectStaleAppend, IgnoreReply, AppendFailed,
                        volatile, history
        <3> QED
            BY <1>0, <1>3, <3>1, <3>2, IdleCalm
    <2>6. ~RecordVoteFails(n, m) /\ ~AppendSaveFails(n, m) /\ ~StepDownFails(n, m)
        BY <1>2 DEF RecordVoteFails, AppendSaveFails, StepDownFails
    <2> QED
        BY <1>5, <2>1, <2>2, <2>3, <2>4, <2>5, <2>6 DEF HandleRpc
<1>6. ASSUME NEW n \in Node, StartElection(n) PROVE CommitInv' /\ LogStep
    <2>1. Links' \subseteq Links
        BY <1>1, <1>6, MatchCampaign
    <2>2. /\ \A o \in Node :
                /\ persistent'[o].log = persistent[o].log
                /\ o # n => persistent'[o] = persistent[o] /\ role'[o] = role[o]
          /\ role'[n] = "candidate"
          /\ UNCHANGED <<commitIndex, lastApplied, matchIndex, decided>>
          /\ \A m \in rpcs' : m \in rpcs \/ m.type = "vote"
        BY <1>0, <1>1, <1>6, <2>1, LeaderCampaign
    <2>3. LeaderSafe'
        BY <1>0, <1>1, <2>2, LeaderSafeCarried DEF AckersStay, SameAcks
    <2>4. \A o \in Node : Resting(o)
        BY <2>2, Rests
    <2>5. \A m \in rpcs' : Carried(m) \/ m.type # "append"
        BY <2>2 DEF Carried, SameRequest
    <2>6. CommitInv'
        BY <1>0, <2>2, <2>3, <2>4, <2>5, CommitRests
    <2> QED
        BY <1>4, <2>2, <2>6
<1>7. ASSUME NEW n \in Node, Consensus(n) PROVE CommitInv' /\ LogStep
    <2>1. CASE Heartbeat(n)
        <3>1. Links' \subseteq Links
            BY <1>1, <2>1, MatchHeartbeat
        <3> QED
            BY <1>0, <1>4, <2>1, <3>1, CommitHeartbeat
    <2>2. ~StartElectionFails(n)
        BY <1>2 DEF StartElectionFails
    <2> QED
        BY <1>5, <1>6, <1>7, <2>1, <2>2 DEF Consensus
<1>8. ASSUME NEW n \in Node, NEW v \in Value, Propose(n, v) PROVE CommitInv' /\ LogStep
    <2> DEFINE e == [term |-> persistent[n].term, cmd |-> v]
    <2>1. /\ e \in Entry /\ persistent[n].log \in Seq(Entry)
          /\ \A o \in Node : o # n => persistent'[o] = persistent[o]
          /\ persistent'[n].log = Append(persistent[n].log, e)
          /\ UNCHANGED <<rpcs, commitIndex, lastApplied, decided>>
        BY <1>1, <1>8, ProposeEffect
    <2>2. LeaderSafe'
        BY <1>0, <1>1, <1>8, OwnPropose
    <2>3. ASSUME NEW o \in Node PROVE Resting(o)
        <3>1. CASE o # n
            BY <2>1, <3>1, Rests
        <3>2. CASE o = n
            <4>1. /\ Len(persistent'[n].log) = Len(persistent[n].log) + 1
                  /\ Len(persistent[n].log) \in Nat
                  /\ \A i \in 1..Len(persistent[n].log) :
                        persistent'[n].log[i] = persistent[n].log[i]
                BY <2>1
            <4>2. /\ commitIndex[n] \in Nat /\ lastApplied[n] <= commitIndex[n]
                  /\ commitIndex[n] <= Len(persistent[n].log)
                  /\ \A i \in 1..commitIndex[n] : persistent[n].log[i] = decided[i]
                BY <1>1 DEF CommitInv, Committed, TypeOK
            <4>3. \A i \in 1..commitIndex[n] : i \in 1..Len(persistent[n].log)
                BY <4>1, <4>2
            <4>4. commitIndex[n] <= Len(persistent'[n].log)
                BY <4>1, <4>2
            <4> QED
                BY <2>1, <3>2, <4>1, <4>2, <4>3, <4>4 DEF Resting
        <3> QED
            BY <3>1, <3>2
    <2>4. \A m \in rpcs' : Carried(m)
        BY <2>1 DEF Carried, SameRequest
    <2>5. CommitInv'
        BY <1>0, <2>1, <2>2, <2>3, <2>4, CommitRests
    <2> QED
        BY <1>4, <2>1, <2>5
<1>9. ASSUME NEW n \in Node, TakeCommitted(n) PROVE CommitInv' /\ LogStep
    <2>1. UNCHANGED <<persistent, disk, role>> /\ NoAcks
        BY <1>9, IdleHandlers
    <2>2. /\ UNCHANGED <<commitIndex, matchIndex, decided>>
          /\ lastApplied' = [lastApplied EXCEPT ![n] = commitIndex[n]]
        BY <1>9 DEF TakeCommitted, history
    <2>3. \A o \in Node : lastApplied'[o] \in {lastApplied[o], commitIndex[o]}
        BY <1>1, <2>2 DEF TypeOK
    <2>4. \A o \in Node : Resting(o)
        BY <2>1, <2>2, <2>3, Rests
    <2>5. CommitInv' /\ Starts(decided', decided)
        BY <1>0, <2>1, <2>2, <2>4, IdleCalm, CommitCalm
    <2> QED
        BY <1>9, <2>2, <2>5 DEF LogStep
<1>10. ASSUME NEW n \in Node, Restart(n) PROVE CommitInv' /\ LogStep
    <2>1. Calm /\ IndexesStay /\ UNCHANGED <<persistent, decided>>
        BY <1>0, <1>10, RestartCalm
    <2>2. /\ commitIndex' = [commitIndex EXCEPT ![n] = 0]
          /\ lastApplied' = [lastApplied EXCEPT ![n] = 0]
        BY <1>10 DEF Restart
    <2>3. ASSUME NEW o \in Node PROVE Resting(o)
        <3>1. CASE o # n
            BY <1>1, <2>1, <2>2, <3>1, Rests DEF TypeOK
        <3>2. CASE o = n
            <4>1. commitIndex'[n] = 0 /\ lastApplied'[n] = 0 /\ Len(persistent'[n].log) \in Nat
                BY <1>1, <2>1, <2>2, MemberTypes DEF TypeOK
            <4> QED
                BY <3>2, <4>1 DEF Resting
        <3> QED
            BY <3>1, <3>2
    <2>4. CommitInv' /\ Starts(decided', decided)
        BY <1>0, <2>1, <2>3, CommitCalm DEF IndexesStay
    <2> QED
        BY <1>10, <2>1, <2>4 DEF LogStep
<1>11. CASE UNCHANGED vars
    <2>1. /\ UNCHANGED <<persistent, disk, role, commitIndex, lastApplied, matchIndex, decided>>
          /\ NoAcks
        BY <1>11 DEF vars, durable, volatile, history, NoAcks
    <2> QED
        BY <1>0, <1>3, <2>1, IdleCalm
<1> QED
    BY <1>7, <1>8, <1>9, <1>10, <1>11 DEF Next

\* The invariant holds of a cluster that has never run.
LEMMA CommitInit == Init => CommitInv
<1> SUFFICES ASSUME Init PROVE CommitInv
    OBVIOUS
<1>1. LeaderInv
    BY LeaderInit
<1>2. LeaderSafe
    <2>1. \A n \in Node : role[n] = "follower"
        BY DEF Init
    <2> QED
        BY <2>1 DEF LeaderSafe, Own
<1>3. DecidedSafe
    BY DEF Init, DecidedSafe
<1>4. ASSUME NEW n \in Node PROVE Committed(n)
    <2>1. persistent[n].log = <<>> /\ commitIndex[n] = 0 /\ lastApplied[n] = 0
        BY DEF Init
    <2> QED
        BY <2>1 DEF Committed, Settled
<1>5. rpcs = {}
    BY DEF Init
<1> QED
    BY <1>1, <1>2, <1>3, <1>4, <1>5 DEF CommitInv

\* Failed writes are only ever added to, within their bound.
LEMMA FaultsGrow ==
    ASSUME [Next]_vars
    PROVE  faults' = faults \/ (faults' = faults + 1 /\ faults < MaxFault)
<1> DEFINE G == faults' = faults \/ (faults' = faults + 1 /\ faults < MaxFault)
<1>2. ASSUME NEW n \in Node, NEW m \in rpcs, HandleRpc(n, m) PROVE G
    <2>1. CASE RecordVoteFails(n, m) \/ AppendSaveFails(n, m) \/ StepDownFails(n, m)
        BY <2>1 DEF RecordVoteFails, AppendSaveFails, StepDownFails
    <2>2. CASE \/ RejectStaleVote(n, m) \/ HandleRequestVote(n, m) \/ RejectStaleAppend(n, m)
               \/ RejectMismatchedAppend(n, m) \/ AcceptAppend(n, m)
        BY <2>2 DEF RejectStaleVote, HandleRequestVote, RejectStaleAppend,
                    RejectMismatchedAppend, AcceptAppend, bounds
    <2>3. CASE \/ StepDownOnReply(n, m) \/ CountVote(n, m) \/ AppendSucceeded(n, m)
               \/ AppendFailed(n, m) \/ IgnoreReply(n, m)
        BY <2>3 DEF StepDownOnReply, CountVote, AppendSucceeded, AppendFailed, IgnoreReply,
                    bounds
    <2> QED
        BY <1>2, <2>1, <2>2, <2>3 DEF HandleRpc
<1>3. ASSUME NEW n \in Node, Consensus(n) PROVE G
    <2>1. CASE StartElection(n) \/ StartElectionFails(n) \/ Heartbeat(n)
        BY <2>1 DEF StartElection, StartElectionFails, Heartbeat, bounds
    <2> QED
        BY <1>2, <1>3, <2>1 DEF Consensus
<1>4. ASSUME NEW n \in Node, NEW v \in Value, Propose(n, v) PROVE G
    BY <1>4 DEF Propose, bounds
<1>5. ASSUME NEW n \in Node, TakeCommitted(n) \/ Restart(n) PROVE G
    BY <1>5 DEF TakeCommitted, Restart, bounds
<1>6. CASE UNCHANGED vars
    BY <1>6 DEF vars, bounds
<1> QED
    BY <1>3, <1>4, <1>5, <1>6 DEF Next

\* With a bound of zero the counter stays at zero.
LEMMA NoFaults ==
    ASSUME MaxFault = 0
    PROVE  Spec => [](faults = 0)
<1>1. Init => faults = 0
    BY DEF Init
<1>2. faults = 0 /\ [Next]_vars => (faults = 0)'
    BY FaultsGrow
<1> QED
    BY <1>1, <1>2, PTL DEF Spec

\* So the invariant holds in every state before the first failed write.
THEOREM CommitInvariant ==
    ASSUME ~LateReplies
    PROVE  Spec => [](faults = 0 => CommitInv)
<1>1. Init => (faults = 0 => CommitInv)
    BY CommitInit
<1>2. ASSUME TypeOK, faults = 0 => CommitInv, [Next]_vars
      PROVE  (faults = 0 => CommitInv)'
    <2>1. faults \in Nat
        BY <1>2 DEF TypeOK
    <2>2. faults' = 0 => faults = 0
        BY <1>2, <2>1, FaultsGrow
    <2> QED
        BY <1>2, <2>2, CommitNext
<1> QED
    BY <1>1, <1>2, TypeCorrect, PTL DEF Spec

-----------------------------------------------------------------------------
(* What it means for the runs' properties.                                  *)

\* To begin with P is to have it as a prefix.
LEMMA StartsIsPrefix ==
    ASSUME NEW P \in Seq(Entry), NEW log \in Seq(Entry), Starts(log, P)
    PROVE  IsPrefix(P, log)
<1>1. /\ Len(P) \in Nat /\ Len(P) <= Len(P) /\ Len(P) <= Len(log)
      /\ \A j \in 1..Len(P) : P[j] = log[j]
    BY DEF Starts
<1>2. SubSeq(P, 1, Len(P)) = SubSeq(log, 1, Len(P))
    BY <1>1, SamePrefix
<1> QED
    BY <1>1, <1>2 DEF IsPrefix

\* What members have committed are beginnings of one log.
LEMMA CommitGivesPrefix == CommitInv => CommittedPrefix
<1> SUFFICES ASSUME CommitInv, NEW n \in Node
             PROVE  /\ commitIndex[n] <= Len(persistent[n].log)
                    /\ IsPrefix(SubSeq(persistent[n].log, 1, commitIndex[n]), decided)
    BY DEF CommittedPrefix
<1> DEFINE a == persistent[n].log
           c == commitIndex[n]
<1>0. TypeOK /\ CommitObserved
    BY DEF CommitInv, LeaderInv, MatchInv, ElectionInv, TypeInv
<1>1. a \in Seq(Entry) /\ c \in Nat /\ decided \in Seq(Entry) /\ c <= Len(decided)
    BY <1>0, PersistentFields DEF TypeOK, CommitObserved
<1>2. c <= Len(a) /\ \A i \in 1..c : a[i] = decided[i]
    BY DEF CommitInv, Committed
<1> HIDE DEF a, c
<1>3. /\ SubSeq(a, 1, c) \in Seq(Entry) /\ Len(SubSeq(a, 1, c)) = c
      /\ \A i \in 1..c : SubSeq(a, 1, c)[i] = a[i]
    BY <1>1, <1>2
<1>4. Starts(decided, SubSeq(a, 1, c))
    BY <1>1, <1>2, <1>3 DEF Starts
<1> QED
    BY <1>1, <1>2, <1>3, <1>4, StartsIsPrefix DEF a, c

\* A leader of the latest term has reached the term of the committed log.
LEMMA CommitGivesLeaders == CommitInv => LeaderCompleteness
<1> SUFFICES ASSUME CommitInv, NEW n \in Node, role[n] = "leader",
                    \A o \in Node : persistent[o].term <= persistent[n].term
             PROVE  IsPrefix(decided, persistent[n].log)
    BY DEF LeaderCompleteness
<1>0. TypeOK
    BY DEF CommitInv, LeaderInv, MatchInv, ElectionInv, TypeInv
<1>1. /\ persistent[n].log \in Seq(Entry) /\ decided \in Seq(Entry)
      /\ \A o \in Node : persistent[o].term \in Nat
    BY <1>0, PersistentFields DEF TypeOK
<1>2. Starts(persistent[n].log, decided)
    <2>1. CASE Len(decided) = 0
        BY <1>1, <2>1 DEF Starts
    <2>2. CASE Len(decided) # 0
        <3>1. PICK A \in Quorum : Safe(decided, A)
            BY <2>2 DEF CommitInv, DecidedSafe
        <3>2. PICK w \in A : w \in Node
            BY QuorumLives
        <3>3. persistent[w].term >= LastTerm(decided) /\ LastTerm(decided) \in Nat
            BY <1>1, <2>2, <3>1, <3>2, LastTermIs DEF Safe, Holding
        <3>4. persistent[n].term >= LastTerm(decided)
            BY <1>1, <3>2, <3>3
        <3> QED
            BY <3>1, <3>4 DEF Safe, LeadersHold
    <2> QED
        BY <2>1, <2>2
<1> QED
    BY <1>1, <1>2, StartsIsPrefix

\* The members the committed log is safe for have it on disk.
LEMMA CommitGivesMajority == CommitInv => CommitOnMajority
<1> SUFFICES ASSUME CommitInv, NEW i \in 1..Len(decided)
             PROVE  Cardinality({n \in Node : i <= Len(disk[n].log)
                                              /\ disk[n].log[i] = decided[i]}) >= Majority
    BY DEF CommitOnMajority
<1> DEFINE H == {n \in Node : i <= Len(disk[n].log) /\ disk[n].log[i] = decided[i]}
<1>0. TypeOK /\ disk = persistent
    BY DEF CommitInv, LeaderInv, MatchInv, ElectionInv, TypeInv, InStep
<1>1. decided \in Seq(Entry) /\ \A w \in Node : disk[w].log \in Seq(Entry)
    BY <1>0, PersistentFields DEF TypeOK
<1>2. PICK A \in Quorum : Safe(decided, A)
    BY <1>1 DEF CommitInv, DecidedSafe
<1>3. A \subseteq H
    <2> SUFFICES ASSUME NEW w \in A PROVE w \in H
        OBVIOUS
    <2>1. w \in Node /\ Starts(disk[w].log, decided)
        BY <1>0, <1>2, QuorumLives DEF Safe, Holding
    <2>2. i <= Len(disk[w].log) /\ disk[w].log[i] = decided[i]
        BY <1>1, <2>1 DEF Starts
    <2> QED
        BY <2>1, <2>2
<1>4. IsFiniteSet(H) /\ IsFiniteSet(A) /\ IsFiniteSet(Node)
    BY <1>3, NodeAssumption, FS_Subset
<1>5. Cardinality(A) <= Cardinality(H) /\ Cardinality(A) >= Majority
    BY <1>3, <1>4, FS_Subset DEF Quorum
<1>6. Cardinality(A) \in Nat /\ Cardinality(H) \in Nat /\ Majority \in Nat
    BY <1>4, FS_CardinalityType DEF Majority
<1> QED
    BY <1>5, <1>6

\* What a member has committed is in its log and is a prefix of the one
\* committed log, in every state before the first failed write.
THEOREM CommittedAgree ==
    ASSUME ~LateReplies
    PROVE  Spec => [](faults = 0 => CommittedPrefix)
    BY CommitInvariant, CommitGivesPrefix, PTL

\* A leader of the latest term holds every committed entry, in every state
\* before the first failed write.
THEOREM LeadersComplete ==
    ASSUME ~LateReplies
    PROVE  Spec => [](faults = 0 => LeaderCompleteness)
    BY CommitInvariant, CommitGivesLeaders, PTL

\* A committed entry is on the disks of a majority, in every state before the
\* first failed write.
THEOREM CommitsDurable ==
    ASSUME ~LateReplies
    PROVE  Spec => [](faults = 0 => CommitOnMajority)
    BY CommitInvariant, CommitGivesMajority, PTL

-----------------------------------------------------------------------------
(* The consensus core implements the replicated log.                        *)

\* What was delivered to a member is a prefix of the committed log.
LEMMA DeliveredIs ==
    ASSUME NEW a \in Seq(Entry), NEW D \in Seq(Entry), NEW c \in Nat, NEW k \in Nat,
           k <= c, c <= Len(D), c <= Len(a), \A i \in 1..c : a[i] = D[i]
    PROVE  k <= Len(D) /\ SubSeq(a, 1, k) = SubSeq(D, 1, k)
<1>1. k <= Len(D) /\ k <= Len(a) /\ \A i \in 1..k : a[i] = D[i]
    OBVIOUS
<1> QED
    BY <1>1, SamePrefix

\* Every step of the core before the first failed write is a step of the
\* replicated log, or none.
LEMMA LogRefined ==
    ASSUME CommitInv, CommitInv', LogStep
    PROVE  [Replicated!Next]_<<decided, [n \in Node |-> SubSeq(persistent[n].log, 1, lastApplied[n])]>>
<1> DEFINE d == [n \in Node |-> SubSeq(persistent[n].log, 1, lastApplied[n])]
<1>0. TypeOK /\ CommitObserved /\ TypeOK' /\ CommitObserved'
    BY DEF CommitInv, LeaderInv, MatchInv, ElectionInv, TypeInv
<1>1. /\ decided \in Seq(Entry) /\ decided' \in Seq(Entry)
      /\ lastApplied \in [Node -> Nat] /\ lastApplied' \in [Node -> Nat]
      /\ commitIndex \in [Node -> Nat] /\ commitIndex' \in [Node -> Nat]
    BY <1>0 DEF TypeOK
<1>2. ASSUME NEW n \in Node
      PROVE  /\ d[n] = SubSeq(decided, 1, lastApplied[n]) /\ lastApplied[n] <= Len(decided)
             /\ commitIndex[n] <= Len(decided)
    <2>1. persistent[n].log \in Seq(Entry) /\ commitIndex[n] <= Len(decided)
        BY <1>0, PersistentFields DEF TypeOK, CommitObserved
    <2>2. /\ lastApplied[n] <= commitIndex[n] /\ commitIndex[n] <= Len(persistent[n].log)
          /\ \A i \in 1..commitIndex[n] : persistent[n].log[i] = decided[i]
        BY DEF CommitInv, Committed
    <2>3. /\ SubSeq(persistent[n].log, 1, lastApplied[n]) = SubSeq(decided, 1, lastApplied[n])
          /\ lastApplied[n] <= Len(decided)
        BY <1>1, <2>1, <2>2, DeliveredIs
    <2> QED
        BY <2>1, <2>3
<1>3. ASSUME NEW n \in Node
      PROVE  d'[n] = SubSeq(decided', 1, lastApplied'[n])
    <2>1. persistent'[n].log \in Seq(Entry) /\ commitIndex'[n] <= Len(decided')
        BY <1>0, PersistentFields DEF TypeOK, CommitObserved
    <2>2. /\ lastApplied'[n] <= commitIndex'[n] /\ commitIndex'[n] <= Len(persistent'[n].log)
          /\ \A i \in 1..commitIndex'[n] : persistent'[n].log[i] = decided'[i]
        BY DEF CommitInv, Committed
    <2>3. SubSeq(persistent'[n].log, 1, lastApplied'[n]) = SubSeq(decided', 1, lastApplied'[n])
        BY <1>1, <2>1, <2>2, DeliveredIs
    <2> QED
        BY <2>3
<1>4. /\ d = [n \in Node |-> d[n]] /\ d' = [n \in Node |-> d'[n]]
    OBVIOUS
<1>5. /\ Len(decided) \in Nat /\ Len(decided) <= Len(decided')
      /\ \A i \in 1..Len(decided) : decided'[i] = decided[i]
    BY <1>1 DEF LogStep, Starts
<1> SUFFICES ASSUME <<decided, d>>' # <<decided, d>>
             PROVE  Replicated!Next
    OBVIOUS
<1> HIDE DEF d
<1>6. CASE lastApplied' = lastApplied
    <2>1. ASSUME NEW n \in Node PROVE d'[n] = d[n]
        <3>1. SubSeq(decided', 1, lastApplied[n]) = SubSeq(decided, 1, lastApplied[n])
            BY <1>1, <1>2, <1>5, DeliveredIs
        <3> QED
            BY <1>2, <1>3, <1>6, <3>1
    <2>2. d' = d
        BY <1>4, <2>1
    <2>3. decided' # decided /\ IsPrefix(decided, decided')
        BY <1>1, <2>2, StartsIsPrefix DEF LogStep
    <2>4. Replicated!Decide
        BY <2>2, <2>3 DEF Replicated!Decide, Replicated!IsStrictPrefix,
                              Replicated!IsPrefix, IsPrefix, d
    <2> QED
        BY <2>4 DEF Replicated!Next
<1>7. ASSUME decided' = decided, NEW n \in Node, TakeCommitted(n) \/ Restart(n)
      PROVE  Replicated!Deliver(n) \/ Replicated!Forget(n)
    <2>1. CASE TakeCommitted(n)
        <3>1. /\ lastApplied' = [lastApplied EXCEPT ![n] = commitIndex[n]]
              /\ lastApplied[n] < commitIndex[n]
            BY <2>1 DEF TakeCommitted
        <3>2. /\ d[n] = SubSeq(decided, 1, lastApplied[n])
              /\ Len(d[n]) = lastApplied[n] /\ Starts(decided, d[n]) /\ d[n] \in Seq(Entry)
            <4>1. d[n] = SubSeq(decided, 1, lastApplied[n]) /\ lastApplied[n] <= Len(decided)
                BY <1>2
            <4>2. lastApplied[n] \in Nat
                BY <1>1
            <4> QED
                BY <1>1, <4>1, <4>2 DEF Starts
        <3>3. commitIndex[n] \in (Len(d[n]) + 1)..Len(decided)
            BY <1>1, <1>2, <3>1, <3>2
        <3>4. ASSUME NEW o \in Node
              PROVE  d'[o] = IF o = n THEN SubSeq(decided, 1, commitIndex[n]) ELSE d[o]
            BY <1>1, <1>2, <1>3, <1>7, <3>1
        <3>5. d' = [d EXCEPT ![n] = SubSeq(decided, 1, commitIndex[n])]
            BY <1>4, <3>4
        <3>6. IsPrefix(d[n], decided)
            BY <1>1, <3>2, StartsIsPrefix
        <3> QED
            BY <1>7, <3>3, <3>5, <3>6 DEF Replicated!Deliver, Replicated!IsPrefix, IsPrefix, d
    <2>2. CASE Restart(n)
        <3>1. lastApplied' = [lastApplied EXCEPT ![n] = 0]
            BY <2>2 DEF Restart
        <3>2. SubSeq(decided, 1, 0) = <<>>
            BY <1>1
        <3>3. ASSUME NEW o \in Node PROVE d'[o] = IF o = n THEN <<>> ELSE d[o]
            BY <1>1, <1>2, <1>3, <1>7, <3>1, <3>2
        <3>4. d' = [d EXCEPT ![n] = <<>>]
            BY <1>4, <3>3
        <3> QED
            BY <1>7, <3>4 DEF Replicated!Forget, d
    <2> QED
        BY <1>7, <2>1, <2>2
<1> QED
    BY <1>6, <1>7 DEF LogStep, Replicated!Next

\* Before the first failed write the consensus core implements the replicated
\* log that the apply daemons rely on: one log of committed entries that only
\* grows, handed to every member in order, each entry once per process life.
THEOREM CoreImplementsLog ==
    ASSUME ~LateReplies
    PROVE  Spec /\ [](faults = 0) => ImplementsReplicatedLog
<1> DEFINE d == [n \in Node |-> SubSeq(persistent[n].log, 1, lastApplied[n])]
<1>1. Init => Replicated!Init
    <2> SUFFICES ASSUME Init PROVE Replicated!Init
        OBVIOUS
    <2>1. ASSUME NEW n \in Node PROVE SubSeq(persistent[n].log, 1, lastApplied[n]) = <<>>
        <3>1. persistent[n].log = <<>> /\ lastApplied[n] = 0
            BY DEF Init
        <3>2. SubSeq(<<>>, 1, 0) = <<>>
            OBVIOUS
        <3> QED
            BY <3>1, <3>2
    <2> QED
        BY <2>1 DEF Init, Replicated!Init
<1>2. ASSUME faults = 0 => CommitInv, faults = 0, (faults = 0)', [Next]_vars
      PROVE  [Replicated!Next]_<<decided, d>>
    <2>1. CommitInv /\ CommitInv' /\ LogStep
        BY <1>2, CommitNext
    <2> QED
        BY <2>1, LogRefined
<1> QED
    BY <1>1, <1>2, CommitInvariant, PTL DEF Spec, ImplementsReplicatedLog, Replicated!Spec

\* On disks that never fail the four results hold without proviso.
THEOREM SafeWithoutFaults ==
    ASSUME ~LateReplies, MaxFault = 0
    PROVE  Spec => /\ []CommittedPrefix /\ []LeaderCompleteness /\ []CommitOnMajority
                   /\ ImplementsReplicatedLog
    BY NoFaults, CommittedAgree, LeadersComplete, CommitsDurable, CoreImplementsLog, PTL
=============================================================================
