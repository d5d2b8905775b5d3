------------------------- MODULE RaftReplicationProofs -------------------------
(***************************************************************************)
(* Log matching: two logs that have an entry of the same term at an index  *)
(* are equal up to it.  Proved for any finite cluster with lost, delayed   *)
(* and reordered RPCs, replies that outlive their term, restarts at any    *)
(* moment and disk writes that fail.                                       *)
(*                                                                         *)
(* The proof looks at links: an entry with its index and the term of the   *)
(* entry before it.  Logs in memory, logs on disk and AppendEntries in     *)
(* flight are all made of links, a leader makes new ones, and everything   *)
(* else copies them.                                                       *)
(***************************************************************************)
EXTENDS RaftCoreProofs

LogLink(log, i) == [index |-> i, entry |-> log[i], prev |-> TermAt(log, i - 1)]
LogLinks(log) == {LogLink(log, i) : i \in 1..Len(log)}

\* The links an AppendEntries carries.
SentLink(m, k) ==
    [index |-> m.prevIndex + k, entry |-> m.entries[k],
     prev |-> IF k = 1 THEN m.prevTerm ELSE m.entries[k - 1].term]
SentLinks(m) == {SentLink(m, k) : k \in 1..Len(m.entries)}

\* All links there are.
IsLink(l) ==
    \/ \E n \in Node : l \in LogLinks(persistent[n].log) \/ l \in LogLinks(disk[n].log)
    \/ \E m \in rpcs : m.type = "append" /\ l \in SentLinks(m)
Link == [index : Nat \ {0}, entry : Entry, prev : Nat]
Links == {l \in Link : IsLink(l)}

\* A link is determined by its index and its term.
Unique(L) ==
    \A a, b \in L : (a.index = b.index /\ a.entry.term = b.entry.term) => a = b

-----------------------------------------------------------------------------
(* Links of a log.                                                          *)

\* The parts of a log's link, and its type.
LEMMA LogLinkParts ==
    ASSUME NEW log \in Seq(Entry), NEW i \in 1..Len(log)
    PROVE  /\ LogLink(log, i) \in Link
           /\ LogLink(log, i) \in LogLinks(log)
           /\ LogLink(log, i).index = i
           /\ LogLink(log, i).entry = log[i]
           /\ LogLink(log, i).prev = IF i = 1 THEN 0 ELSE log[i - 1].term
<1>1. log[i] \in Entry /\ i \in Nat \ {0} /\ Len(log) \in Nat
    OBVIOUS
<1>2. TermAt(log, i - 1) = IF i = 1 THEN 0 ELSE log[i - 1].term
    BY <1>1 DEF TermAt
<1>3. TermAt(log, i - 1) \in Nat
    <2>1. i - 1 \in Nat
        BY <1>1
    <2> QED
        BY <2>1, LastTypes
<1> QED
    BY <1>1, <1>2, <1>3 DEF LogLink, LogLinks, Link

\* Logs made of the same unique links are equal up to an index where their
\* terms are.
LEMMA LinksMatch ==
    ASSUME NEW L, Unique(L),
           NEW a \in Seq(Entry), LogLinks(a) \subseteq L,
           NEW b \in Seq(Entry), LogLinks(b) \subseteq L,
           NEW i \in 1..Len(a), i <= Len(b), a[i].term = b[i].term
    PROVE  \A j \in 1..i : a[j] = b[j]
<1> DEFINE D == {j \in 1..i : a[j] # b[j]}
<1>0. i \in Nat /\ Len(a) \in Nat /\ Len(b) \in Nat
    OBVIOUS
<1>1. ASSUME NEW j \in 1..i, a[j].term = b[j].term
      PROVE  LogLink(a, j) = LogLink(b, j) /\ a[j] = b[j]
    <2>1. j \in 1..Len(a) /\ j \in 1..Len(b)
        BY <1>0
    <2>2. LogLink(a, j) \in L /\ LogLink(b, j) \in L
        BY <2>1, LogLinkParts
    <2>3. /\ LogLink(a, j).index = j /\ LogLink(a, j).entry = a[j]
          /\ LogLink(b, j).index = j /\ LogLink(b, j).entry = b[j]
        BY <2>1, LogLinkParts
    <2>4. LogLink(a, j) = LogLink(b, j)
        BY <1>1, <2>2, <2>3 DEF Unique
    <2> QED
        BY <2>3, <2>4
<1> SUFFICES ASSUME D # {} PROVE FALSE
    OBVIOUS
<1>2. D \in SUBSET Nat /\ \A j \in D : j <= i
    OBVIOUS
<1>3. PICK j \in D : \A k \in D : j >= k
    BY <1>0, <1>2, MaxExists
<1>4. j \in 1..i /\ a[j] # b[j] /\ j # i
    BY <1>1
<1>5. j + 1 \in 1..i /\ a[j + 1] = b[j + 1]
    <2>1. j + 1 \in 1..i /\ j + 1 \notin D
        BY <1>3, <1>4
    <2> QED
        BY <2>1
<1>6. LogLink(a, j + 1) = LogLink(b, j + 1)
    BY <1>1, <1>5
<1>7. a[j].term = b[j].term
    <2>1. j + 1 \in 1..Len(a) /\ j + 1 \in 1..Len(b) /\ j + 1 # 1 /\ (j + 1) - 1 = j
        BY <1>0, <1>4, <1>5
    <2>2. LogLink(a, j + 1).prev = a[j].term /\ LogLink(b, j + 1).prev = b[j].term
        BY <2>1, LogLinkParts
    <2> QED
        BY <1>6, <2>2
<1> QED
    BY <1>1, <1>4, <1>7

\* A new entry adds one link.
LEMMA AppendLinks ==
    ASSUME NEW log \in Seq(Entry), NEW e \in Entry
    PROVE  LET new == [index |-> Len(log) + 1, entry |-> e, prev |-> LastTerm(log)]
           IN  /\ LogLinks(Append(log, e)) = LogLinks(log) \cup {new}
               /\ new \in Link
<1> DEFINE new == [index |-> Len(log) + 1, entry |-> e, prev |-> LastTerm(log)]
           q == Append(log, e)
<1>0. /\ q \in Seq(Entry) /\ Len(q) = Len(log) + 1 /\ Len(log) \in Nat
      /\ \A i \in 1..Len(log) : q[i] = log[i]
      /\ q[Len(log) + 1] = e
    OBVIOUS
<1> HIDE DEF q
<1>1. ASSUME NEW i \in 1..Len(log) PROVE LogLink(q, i) = LogLink(log, i)
    <2>1. TermAt(q, i - 1) = TermAt(log, i - 1)
        BY <1>0 DEF TermAt
    <2> QED
        BY <1>0, <2>1 DEF LogLink
<1>2. LogLink(q, Len(log) + 1) = new
    <2>1. TermAt(q, Len(log)) = LastTerm(log)
        <3>1. CASE Len(log) = 0
            BY <1>0, <3>1 DEF TermAt, LastTerm
        <3>2. CASE Len(log) # 0
            <4>1. log # <<>> /\ Len(log) \in 1..Len(log) /\ Len(log) \in 1..Len(q)
                BY <1>0, <3>2
            <4> QED
                BY <1>0, <4>1 DEF TermAt, LastTerm
        <3> QED
            BY <3>1, <3>2
    <2>2. (Len(log) + 1) - 1 = Len(log)
        BY <1>0
    <2> QED
        BY <1>0, <2>1, <2>2 DEF LogLink
<1>3. 1..Len(q) = 1..Len(log) \cup {Len(log) + 1}
    BY <1>0
<1>4. LogLinks(q) = LogLinks(log) \cup {new}
    <2> HIDE DEF new
    <2> QED
        BY <1>1, <1>2, <1>3 DEF LogLinks
<1>5. new \in Link
    BY <1>0, LastTypes DEF Link
<1> QED
    BY <1>4, <1>5 DEF q

\* A message's links are typed.
LEMMA SentLinkParts ==
    ASSUME NEW m \in AppendRequests, NEW k \in 1..Len(m.entries)
    PROVE  /\ SentLink(m, k) \in Link
           /\ SentLink(m, k) \in SentLinks(m)
           /\ SentLink(m, k).index = m.prevIndex + k
           /\ SentLink(m, k).entry = m.entries[k]
           /\ SentLink(m, k).prev = IF k = 1 THEN m.prevTerm ELSE m.entries[k - 1].term
<1>1. m.prevIndex \in Nat /\ m.prevTerm \in Nat /\ m.entries \in Seq(Entry)
    BY DEF AppendRequests
<1>2. k \in Nat \ {0} /\ Len(m.entries) \in Nat /\ m.entries[k] \in Entry
    BY <1>1
<1>3. k # 1 => m.entries[k - 1].term \in Nat
    <2> SUFFICES ASSUME k # 1 PROVE m.entries[k - 1].term \in Nat
        OBVIOUS
    <2>1. k - 1 \in 1..Len(m.entries)
        BY <1>2
    <2>2. m.entries[k - 1] \in Entry
        BY <1>1, <2>1
    <2> QED
        BY <2>2 DEF Entry
<1> DEFINE prev == IF k = 1 THEN m.prevTerm ELSE m.entries[k - 1].term
           index == m.prevIndex + k
<1>4. prev \in Nat /\ index \in Nat \ {0}
    BY <1>1, <1>2, <1>3
<1>5. SentLink(m, k) = [index |-> index, entry |-> m.entries[k], prev |-> prev]
    BY DEF SentLink
<1>6. SentLink(m, k) \in SentLinks(m)
    BY DEF SentLinks
<1> HIDE DEF prev, index
<1>7. SentLink(m, k) \in Link
    BY <1>2, <1>4, <1>5 DEF Link
<1> QED
    BY <1>5, <1>6, <1>7 DEF prev, index

\* The links in a log merged with an AppendEntries come from one of the two.
\* The prev-log check is what makes the first new entry's link the message's.
LEMMA MergeLinks ==
    ASSUME NEW log \in Seq(Entry), NEW m \in AppendRequests,
           PrevMatches(log, m.prevIndex, m.prevTerm),
           m.prevIndex = 0 => m.prevTerm = 0
    PROVE  /\ MergeEntries(log, m.prevIndex, m.entries) \in Seq(Entry)
           /\ LogLinks(MergeEntries(log, m.prevIndex, m.entries))
                 \subseteq LogLinks(log) \cup SentLinks(m)
<1> DEFINE q == MergeEntries(log, m.prevIndex, m.entries)
<1>0. /\ m.prevIndex \in Nat /\ m.prevTerm \in Nat /\ m.entries \in Seq(Entry)
      /\ Len(m.entries) \in Nat /\ Len(log) \in Nat
    BY DEF AppendRequests
<1>1. /\ m.prevIndex <= Len(log)
      /\ m.prevIndex # 0 => m.prevIndex \in 1..Len(log) /\ log[m.prevIndex].term = m.prevTerm
    BY <1>0 DEF PrevMatches
<1>2. q \in Seq(Entry) /\ Merged(log, m.prevIndex, m.entries, q)
    BY <1>0, <1>1, MergeType, MergeShape
<1> HIDE DEF q
<1>3. CASE q = log
    BY <1>2, <1>3 DEF q
<1>4. ASSUME NEW k \in 1..Len(m.entries),
             Len(q) = m.prevIndex + Len(m.entries),
             m.prevIndex + k - 1 <= Len(log),
             \A i \in 1..(m.prevIndex + k - 1) : q[i] = log[i],
             \A i \in (m.prevIndex + k)..Len(q) : q[i] = m.entries[i - m.prevIndex],
             \A j \in 1..(k - 1) : log[m.prevIndex + j].term = m.entries[j].term
      PROVE  LogLinks(q) \subseteq LogLinks(log) \cup SentLinks(m)
    <2> SUFFICES ASSUME NEW i \in 1..Len(q)
                 PROVE  LogLink(q, i) \in LogLinks(log) \cup SentLinks(m)
        BY DEF LogLinks
    <2>0. i \in Nat /\ Len(q) \in Nat /\ k \in Nat /\ i >= 1 /\ k >= 1
        BY <1>0, <1>2
    <2>00. Len(q) = m.prevIndex + Len(m.entries)
        BY <1>4
    <2>1. CASE i <= m.prevIndex + k - 1
        <3>1. i \in 1..Len(log) /\ q[i] = log[i]
            BY <1>0, <1>4, <2>0, <2>1
        <3>2. TermAt(q, i - 1) = TermAt(log, i - 1)
            <4>1. i = 1 \/ (i - 1 \in 1..Len(log) /\ i - 1 \in 1..Len(q) /\ q[i - 1] = log[i - 1])
                BY <1>0, <1>4, <2>0, <2>1
            <4> QED
                BY <1>0, <2>0, <4>1 DEF TermAt
        <3> QED
            BY <3>1, <3>2 DEF LogLink, LogLinks
    <2>2. CASE i >= m.prevIndex + k
        <3> DEFINE j == i - m.prevIndex
        <3>1. j \in 1..Len(m.entries) /\ j >= k /\ j \in Nat /\ m.prevIndex + j = i
            BY <1>0, <2>0, <2>00, <2>2
        <3>2. q[i] = m.entries[j]
            BY <1>0, <1>4, <2>0, <2>2
        <3>3. TermAt(q, i - 1) = IF j = 1 THEN m.prevTerm ELSE m.entries[j - 1].term
            <4>1. CASE j = 1 /\ m.prevIndex = 0
                <5>1. i - 1 = 0
                    BY <3>1, <4>1
                <5> QED
                    BY <1>0, <4>1, <5>1 DEF TermAt
            <4>2. CASE j = 1 /\ m.prevIndex # 0
                <5>1. i - 1 = m.prevIndex /\ k = 1 /\ i - 1 \in 1..Len(q)
                    BY <1>0, <2>0, <3>1, <4>2
                <5>2. q[i - 1] = log[m.prevIndex]
                    BY <1>0, <1>4, <2>0, <4>2, <5>1
                <5> QED
                    BY <1>1, <4>2, <5>1, <5>2 DEF TermAt
            <4>3. CASE j # 1 /\ j = k
                <5>0. k >= 2 /\ i = m.prevIndex + k /\ i <= Len(q)
                    BY <2>0, <3>1, <4>3
                <5>1. /\ i - 1 \in 1..Len(q) /\ i - 1 \in 1..(m.prevIndex + k - 1)
                      /\ j - 1 \in 1..(k - 1) /\ m.prevIndex + (j - 1) = i - 1
                    BY <1>0, <2>0, <4>3, <5>0, SMTT(20)
                <5>2. q[i - 1] = log[i - 1]
                    BY <1>4, <5>1
                <5>3. log[m.prevIndex + (j - 1)].term = m.entries[j - 1].term
                    BY <1>4, <5>1
                <5> QED
                    BY <4>3, <5>1, <5>2, <5>3 DEF TermAt
            <4>4. CASE j # 1 /\ j # k
                <5>0. j >= k + 1 /\ i >= m.prevIndex + k + 1 /\ i <= Len(q)
                    BY <1>0, <2>0, <3>1, <4>4
                <5>1. /\ i - 1 \in 1..Len(q) /\ i - 1 \in (m.prevIndex + k)..Len(q)
                      /\ (i - 1) - m.prevIndex = j - 1
                    BY <1>0, <2>0, <5>0
                <5>2. q[i - 1] = m.entries[j - 1]
                    BY <1>4, <5>1
                <5> QED
                    BY <4>4, <5>1, <5>2 DEF TermAt
            <4> QED
                BY <4>1, <4>2, <4>3, <4>4
        <3> HIDE DEF j
        <3>4. LogLink(q, i) = SentLink(m, j)
            BY <3>1, <3>2, <3>3 DEF LogLink, SentLink
        <3> QED
            BY <3>1, <3>4 DEF SentLinks
    <2> QED
        BY <1>0, <2>0, <2>1, <2>2
<1> QED
    BY <1>2, <1>3, <1>4 DEF q, Merged

\* What tick sends is a piece of the leader's log.  next_index may be beyond
\* the end of the log; then nothing is sent.
LEMMA RequestLinks ==
    ASSUME TypeOK, NEW n \in Node, NEW p \in Node
    PROVE  /\ SentLinks(AppendRequest(n, p)) \subseteq LogLinks(persistent[n].log)
           /\ AppendRequest(n, p).prevIndex = 0 => AppendRequest(n, p).prevTerm = 0
<1> DEFINE m == AppendRequest(n, p)
           log == persistent[n].log
           next == nextIndex[n][p]
           from == IF next = 0 THEN 1 ELSE next
<1>0. log \in Seq(Entry) /\ Len(log) \in Nat /\ next \in Nat
    BY PersistentFields DEF TypeOK
<1>1. /\ m.prevIndex = PrevIndex(next) /\ m.prevTerm = TermAt(log, PrevIndex(next))
      /\ m.entries = SubSeq(log, from, Len(log))
    BY DEF AppendRequest, Suffix
<1> HIDE DEF m, log, next
<1>2. PrevIndex(next) = from - 1 /\ from \in Nat /\ from >= 1
    BY <1>0 DEF PrevIndex
<1>3. /\ Len(m.entries) = IF from <= Len(log) THEN Len(log) - from + 1 ELSE 0
      /\ \A k \in 1..(Len(log) - from + 1) : m.entries[k] = log[from + k - 1]
    <2>1. \A i \in from..Len(log) : log[i] \in Entry
        BY <1>0, <1>2
    <2> QED
        BY <1>0, <1>1, <1>2, <2>1, SubSeqProperties
<1> HIDE DEF from
<1>4. ASSUME NEW k \in 1..Len(m.entries) PROVE SentLink(m, k) \in LogLinks(log)
    <2> DEFINE i == from + k - 1
    <2>1. /\ k \in Nat /\ k >= 1 /\ from <= Len(log) /\ k <= Len(log) - from + 1
        BY <1>0, <1>2, <1>3
    <2>2. i \in 1..Len(log) /\ m.prevIndex + k = i /\ m.entries[k] = log[i]
        BY <1>0, <1>1, <1>2, <1>3, <2>1
    <2>3. TermAt(log, i - 1) = IF k = 1 THEN m.prevTerm ELSE m.entries[k - 1].term
        <3>1. CASE k = 1
            BY <1>1, <1>2, <2>1, <3>1
        <3>2. CASE k # 1
            <4>1. /\ k - 1 \in 1..(Len(log) - from + 1) /\ from + (k - 1) - 1 = i - 1
                  /\ i - 1 \in 1..Len(log)
                BY <1>0, <1>2, <2>1, <2>2, <3>2
            <4> QED
                BY <1>3, <3>2, <4>1 DEF TermAt
        <3> QED
            BY <3>1, <3>2
    <2> HIDE DEF i
    <2>4. SentLink(m, k) = LogLink(log, i)
        BY <2>2, <2>3 DEF SentLink, LogLink
    <2> QED
        BY <2>2, <2>4 DEF LogLinks
<1>5. m.prevIndex = 0 => m.prevTerm = 0
    BY <1>0, <1>1, <1>2 DEF TermAt
<1> QED
    BY <1>4, <1>5 DEF m, log, SentLinks

-----------------------------------------------------------------------------
(* The inductive invariant.                                                 *)

LinksUnique == Unique(Links)

\* An entry's term is one whose election was won.
LinksElected == \A l \in Links : \E e \in elected : e[1] = l.entry.term

\* A leader has won its term, and holds every entry of it there is; a
\* candidate has not won its term.
LeaderElected ==
    \A n \in Node : role[n] = "leader" => <<persistent[n].term, n>> \in elected
LeaderHolds ==
    \A n \in Node : role[n] = "leader" =>
        \A l \in Links : l.entry.term = persistent[n].term
                            => l \in LogLinks(persistent[n].log)
CandidateFresh ==
    \A n \in Node : role[n] = "candidate" => <<persistent[n].term, n>> \notin elected

\* An AppendEntries from the start of the log names term 0 before it.
Rooted(m) == m.type = "append" => (m.prevIndex = 0 => m.prevTerm = 0)
SentRooted == \A m \in rpcs : Rooted(m)

MatchInv ==
    /\ ElectionInv /\ LinksUnique /\ LinksElected /\ LeaderElected
    /\ LeaderHolds /\ CandidateFresh /\ SentRooted

\* The links in memory, on disk and in flight, with their types.
LEMMA LinkSources ==
    ASSUME TypeOK
    PROVE  /\ \A n \in Node : /\ LogLinks(persistent[n].log) \subseteq Links
                              /\ LogLinks(disk[n].log) \subseteq Links
           /\ \A m \in rpcs : m.type = "append" => SentLinks(m) \subseteq Links
<1>1. ASSUME NEW log \in Seq(Entry) PROVE LogLinks(log) \subseteq Link
    BY LogLinkParts DEF LogLinks
<1>2. ASSUME NEW n \in Node
      PROVE  LogLinks(persistent[n].log) \subseteq Links /\ LogLinks(disk[n].log) \subseteq Links
    <2>1. persistent[n].log \in Seq(Entry) /\ disk[n].log \in Seq(Entry)
        BY PersistentFields DEF TypeOK
    <2> QED
        BY <1>1, <2>1 DEF Links, IsLink
<1>3. ASSUME NEW m \in rpcs, m.type = "append" PROVE SentLinks(m) \subseteq Links
    <2>1. m \in AppendRequests
        BY <1>3, RpcFields DEF TypeOK
    <2>2. SentLinks(m) \subseteq Link
        BY <2>1, SentLinkParts DEF SentLinks
    <2> QED
        BY <1>3, <2>2 DEF Links, IsLink
<1> QED
    BY <1>2, <1>3

\* Whoever has won a term has saved it: its own candidacy was asked for only
\* then.
LEMMA ElectedSaved ==
    ASSUME ElectionInv, NEW e \in elected
    PROVE  e[1] <= disk[e[2]].term
<1>1. PICK Q \in SUBSET Node : /\ Cardinality(Q) >= Majority
                               /\ \A v \in Q : <<v, e[1], e[2]>> \in grants
    BY DEF ElectionInv, Won, Backed
<1>2. Q # {}
    <2>1. Cardinality(Node) \in Nat
        BY NodeAssumption, FS_CardinalityType
    <2>2. Majority \in Nat /\ Majority >= 1
        BY <2>1 DEF Majority
    <2>3. Cardinality({}) = 0
        BY FS_EmptySet
    <2> QED
        BY <1>1, <2>2, <2>3
<1>3. PICK v \in Q : <<v, e[1], e[2]>> \in grants
    BY <1>1, <1>2
<1> QED
    BY <1>3 DEF ElectionInv, CandidacySaved

\* No leader is newly made, and none has its term or log changed.
LeadersStay ==
    \A o \in Node : role'[o] = "leader" =>
        /\ role[o] = "leader"
        /\ persistent'[o].term = persistent[o].term
        /\ persistent'[o].log = persistent[o].log

\* A candidate was one in its term, or has just campaigned.
CandidatesStay ==
    \A o \in Node : role'[o] = "candidate" =>
        \/ role[o] = "candidate" /\ persistent'[o].term = persistent[o].term
        \/ persistent'[o].term > persistent[o].term

\* Each AppendEntries in flight is an old one or is made of the links there
\* are.
AppendsCopied ==
    \A m \in rpcs' : m.type = "append" => SentLinks(m) \subseteq Links /\ Rooted(m)

\* A step that elects nobody and only copies links.
LEMMA MatchCarried ==
    ASSUME MatchInv, ElectionInv', elected' = elected,
           LeadersStay, CandidatesStay, AppendsCopied,
           \A o \in Node : /\ LogLinks(persistent'[o].log) \subseteq Links
                           /\ LogLinks(disk'[o].log) \subseteq Links
    PROVE  MatchInv' /\ Links' \subseteq Links
<1>1. Links' \subseteq Links
    BY DEF Links, IsLink, AppendsCopied
<1>2. LinksUnique'
    BY <1>1 DEF MatchInv, LinksUnique, Unique
<1>3. LinksElected'
    BY <1>1 DEF MatchInv, LinksElected
<1>4. LeaderElected'
    BY DEF MatchInv, LeaderElected, LeadersStay
<1>5. LeaderHolds'
    <2> SUFFICES ASSUME NEW n \in Node, role'[n] = "leader", NEW l \in Links',
                        l.entry.term = persistent'[n].term
                 PROVE  l \in LogLinks(persistent'[n].log)
        BY DEF LeaderHolds
    <2>1. /\ role[n] = "leader" /\ persistent'[n].term = persistent[n].term
          /\ persistent'[n].log = persistent[n].log
        BY DEF LeadersStay
    <2>2. l \in LogLinks(persistent[n].log)
        BY <1>1, <2>1 DEF MatchInv, LeaderHolds
    <2> QED
        BY <2>1, <2>2
<1>6. CandidateFresh'
    <2> SUFFICES ASSUME NEW n \in Node, role'[n] = "candidate",
                        <<persistent'[n].term, n>> \in elected
                 PROVE  FALSE
        BY DEF CandidateFresh
    <2>1. CASE role[n] = "candidate" /\ persistent'[n].term = persistent[n].term
        BY <2>1 DEF MatchInv, CandidateFresh
    <2>2. CASE persistent'[n].term > persistent[n].term
        <3>1. ElectionInv
            BY DEF MatchInv
        <3>2. persistent'[n].term <= disk[n].term
            BY <3>1, ElectedSaved
        <3>3. disk[n].term \in Nat /\ persistent[n].term \in Nat /\ disk[n].term <= persistent[n].term
            BY <3>1, Remembered
        <3>4. persistent'[n].term \in Nat
            BY PersistentFields DEF ElectionInv, TypeInv, TypeOK
        <3> QED
            BY <2>2, <3>2, <3>3, <3>4
    <2> QED
        BY <2>1, <2>2 DEF CandidatesStay
<1>7. SentRooted'
    BY DEF SentRooted, AppendsCopied, Rooted
<1> QED
    BY <1>1, <1>2, <1>3, <1>4, <1>5, <1>6, <1>7 DEF MatchInv

\* Messages that were in flight before, and messages of other kinds.
LEMMA OldAppends ==
    ASSUME MatchInv, \A m \in rpcs' : m \in rpcs \/ m.type # "append"
    PROVE  AppendsCopied
<1>1. TypeOK /\ SentRooted
    BY DEF MatchInv, ElectionInv, TypeInv
<1> QED
    BY <1>1, LinkSources DEF AppendsCopied, SentRooted

\* A handler of member n that keeps q in memory, and wrote s on the way or
\* nothing.
LEMMA MatchHandler ==
    ASSUME MatchInv, ElectionInv', NEW n \in Node, NEW q, NEW s,
           Keep(n, q), Save(n, s) \/ UNCHANGED disk,
           LogLinks(q.log) \subseteq Links, LogLinks(s.log) \subseteq Links,
           elected' = elected,
           \A o \in Peers(n) : role'[o] = role[o],
           \/ role'[n] = "follower"
           \/ role'[n] = role[n] /\ q.term = persistent[n].term /\ q.log = persistent[n].log
           \/ role'[n] = "candidate" /\ q.term > persistent[n].term,
           \A m \in rpcs' : m \in rpcs \/ m.type # "append"
    PROVE  MatchInv' /\ Links' \subseteq Links
<1>1. TypeOK
    BY DEF MatchInv, ElectionInv, TypeInv
<1>2. AppendsCopied
    BY OldAppends
<1>3. ASSUME NEW o \in Node
      PROVE  /\ persistent'[o] = IF o = n THEN q ELSE persistent[o]
             /\ disk'[o] = disk[o] \/ (o = n /\ disk'[o] = s)
    BY <1>1 DEF TypeOK, Keep, Save
<1>4. \A o \in Node : o = n \/ o \in Peers(n)
    BY DEF Peers
<1>5. LeadersStay /\ CandidatesStay
    BY <1>3, <1>4 DEF LeadersStay, CandidatesStay
<1>6. \A o \in Node : /\ LogLinks(persistent'[o].log) \subseteq Links
                      /\ LogLinks(disk'[o].log) \subseteq Links
    BY <1>1, <1>3, LinkSources
<1> QED
    BY <1>2, <1>5, <1>6, MatchCarried

-----------------------------------------------------------------------------
(* What the handlers do to memory, disk, roles and AppendEntries in flight. *)

\* A handler adds neither a request nor an acknowledgement of entries.
NoAcks ==
    \A m \in rpcs' : \/ m \in rpcs \/ m.type = "voted"
                     \/ m.type = "appended" /\ ~m.success

\* A handler of message m on member n that may take over a term: it keeps q,
\* wrote s or nothing, and leaves the log alone.
Adopts(n, m, q, s) ==
    /\ m.term >= persistent[n].term
    /\ q \in Persistent /\ q.term = m.term /\ q.log = persistent[n].log
    /\ s \in Persistent /\ s.log = persistent[n].log
    /\ Keep(n, q) /\ (Save(n, s) \/ UNCHANGED disk)
    /\ \/ role' = [role EXCEPT ![n] = "follower"]
       \/ role' = role /\ m.term = persistent[n].term

\* The answer is the only new message.
LEMMA AnswersReply ==
    ASSUME NEW m, NEW reply, Answer(m, reply),
           reply.type = "voted" \/ (reply.type = "appended" /\ ~reply.success)
    PROVE  NoAcks
    BY AnswerMessages DEF NoAcks

\* Votes, step downs and refused appends take over a term, not more.
LEMMA AdoptingHandlers ==
    ASSUME TypeOK, NEW n \in Node, NEW m \in rpcs,
           \/ HandleRequestVote(n, m) \/ RecordVoteFails(n, m)
           \/ RejectMismatchedAppend(n, m)
           \/ StepDownOnReply(n, m) \/ StepDownFails(n, m)
    PROVE  /\ \E q, s \in Persistent : Adopts(n, m, q, s)
           /\ NoAcks
           /\ UNCHANGED <<elected, decided>>
<1> DEFINE p == WithTerm(persistent[n], m.term)
<1>0. m.src \in Node /\ m.term \in Nat /\ persistent[n] \in Persistent /\ persistent[n].term \in Nat
    BY RpcFields, PersistentFields DEF TypeOK
<1>1. p \in Persistent /\ p.term = m.term /\ p.log = persistent[n].log
    BY <1>0, WithTermType
<1>2. m.term >= persistent[n].term
    <2>1. \/ m.term >= persistent[n].term
          \/ m.term > persistent[n].term
          \/ StepsDown(n, m)
        BY DEF HandleRequestVote, RecordVoteFails, RejectMismatchedAppend,
               StepDownOnReply, StepDownFails
    <2> QED
        BY <1>0, <2>1 DEF StepsDown
<1>3. UNCHANGED <<elected, decided>>
    BY DEF HandleRequestVote, RecordVoteFails, RejectMismatchedAppend,
           StepDownOnReply, StepDownFails, history
<1> DEFINE v == [p EXCEPT !.vote = m.src]
<1>4. v \in Persistent /\ v.term = m.term /\ v.log = persistent[n].log
    <2> HIDE DEF p
    <2> QED
        BY <1>0, <1>1 DEF Persistent
<1>5. ~StepsDown(n, m) => m.term = persistent[n].term
    BY <1>0, <1>2 DEF StepsDown
<1>6. CASE HandleRequestVote(n, m)
    <2> DEFINE granted == /\ CanVoteFor(p, m.src)
                          /\ UpToDate(m.lastTerm, m.lastIndex, p.log)
               q == IF granted THEN v ELSE p
    <2>1. /\ Keep(n, q) /\ (Save(n, q) \/ UNCHANGED disk)
          /\ IF StepsDown(n, m) THEN BecomeFollower(n, None)
             ELSE UNCHANGED <<role, leaderId, votesReceived>>
          /\ Answer(m, VoteReply(m, q.term, granted))
        BY <1>6 DEF HandleRequestVote
    <2>2. VoteReply(m, q.term, granted).type = "voted"
        BY DEF VoteReply
    <2> HIDE DEF p, v, granted
    <2>3. q \in Persistent /\ q.term = m.term /\ q.log = persistent[n].log
        BY <1>1, <1>4
    <2> HIDE DEF q
    <2>4. NoAcks
        BY <2>1, <2>2, AnswersReply
    <2>5. Adopts(n, m, q, q)
        BY <1>2, <1>5, <2>1, <2>3 DEF Adopts, BecomeFollower
    <2> QED
        BY <1>3, <2>3, <2>4, <2>5
<1>7. CASE RecordVoteFails(n, m)
    <2>1. /\ Keep(n, v) /\ rpcs' = rpcs \ {m}
          /\ IF StepsDown(n, m) THEN Save(n, p) /\ BecomeFollower(n, None)
             ELSE UNCHANGED <<disk, role, leaderId, votesReceived>>
        BY <1>7 DEF RecordVoteFails
    <2> HIDE DEF p, v
    <2>2. Adopts(n, m, v, p)
        BY <1>1, <1>2, <1>4, <1>5, <2>1 DEF Adopts, BecomeFollower
    <2> QED
        BY <1>1, <1>3, <1>4, <2>1, <2>2 DEF NoAcks
<1>8. CASE RejectMismatchedAppend(n, m)
    <2> DEFINE reply == AppendReply(m, p.term, FALSE, ConflictIndex(p.log, m.prevIndex))
    <2>1. /\ Keep(n, p) /\ (Save(n, p) \/ UNCHANGED disk)
          /\ Follow(n, m) /\ Answer(m, reply)
        BY <1>8 DEF RejectMismatchedAppend
    <2>2. reply.type = "appended" /\ ~reply.success
        BY DEF AppendReply
    <2> HIDE DEF p, reply
    <2>3. NoAcks
        BY <2>1, <2>2, AnswersReply
    <2>4. Adopts(n, m, p, p)
        BY <1>1, <1>2, <2>1 DEF Adopts, Follow
    <2> QED
        BY <1>1, <1>3, <2>3, <2>4
<1>9. CASE StepDownOnReply(n, m) \/ StepDownFails(n, m)
    <2>1. /\ Keep(n, p) /\ (Save(n, p) \/ UNCHANGED disk) /\ rpcs' = rpcs \ {m}
          /\ \E l : BecomeFollower(n, l)
        BY <1>9 DEF StepDownOnReply, StepDownFails
    <2> HIDE DEF p
    <2>2. Adopts(n, m, p, p)
        BY <1>1, <1>2, <2>1 DEF Adopts, BecomeFollower
    <2> QED
        BY <1>1, <1>3, <2>1, <2>2 DEF NoAcks
<1> QED
    BY <1>6, <1>7, <1>8, <1>9

\* Stale requests, replies to AppendEntries and the apply daemon touch neither
\* records nor roles.
LEMMA IdleHandlers ==
    ASSUME NEW n \in Node,
           \/ TakeCommitted(n)
           \/ \E m \in rpcs : \/ RejectStaleVote(n, m) \/ RejectStaleAppend(n, m)
                              \/ AppendSucceeded(n, m) \/ AppendFailed(n, m)
                              \/ IgnoreReply(n, m)
           \/ UNCHANGED vars
    PROVE  UNCHANGED <<persistent, disk, role, grants, elected>> /\ NoAcks
<1>1. CASE TakeCommitted(n)
    BY <1>1 DEF TakeCommitted, durable, history, NoAcks
<1>2. ASSUME NEW m \in rpcs, RejectStaleVote(n, m) \/ RejectStaleAppend(n, m)
      PROVE  UNCHANGED <<persistent, disk, role, grants, elected>> /\ NoAcks
    <2> DEFINE a == VoteReply(m, persistent[n].term, FALSE)
               b == AppendReply(m, persistent[n].term, FALSE, 0)
    <2>1. a.type = "voted" /\ b.type = "appended" /\ ~b.success
        BY DEF VoteReply, AppendReply
    <2>2. Answer(m, a) \/ Answer(m, b)
        BY <1>2 DEF RejectStaleVote, RejectStaleAppend
    <2>3. UNCHANGED <<persistent, disk, role, grants, elected>>
        BY <1>2 DEF RejectStaleVote, RejectStaleAppend, durable, volatile, history
    <2> HIDE DEF a, b
    <2> QED
        BY <2>1, <2>2, <2>3, AnswersReply
<1>3. ASSUME NEW m \in rpcs,
             AppendSucceeded(n, m) \/ AppendFailed(n, m) \/ IgnoreReply(n, m)
      PROVE  UNCHANGED <<persistent, disk, role, grants, elected>> /\ NoAcks
    <2>1. UNCHANGED <<persistent, disk, role, grants, elected>>
        BY <1>3 DEF AppendSucceeded, AppendFailed, IgnoreReply, durable, volatile, history
    <2>2. rpcs' = rpcs \ {m}
        BY <1>3 DEF AppendSucceeded, AppendFailed, IgnoreReply
    <2> QED
        BY <2>1, <2>2 DEF NoAcks
<1>4. CASE UNCHANGED vars
    BY <1>4 DEF vars, durable, volatile, history, NoAcks
<1> QED
    BY <1>1, <1>2, <1>3, <1>4

\* A candidacy, saved or not, leaves the log alone and only asks for votes.
LEMMA Campaigning ==
    ASSUME TypeOK, NEW n \in Node, StartElection(n) \/ StartElectionFails(n)
    PROVE  /\ Campaign(persistent[n], n) \in Persistent
           /\ Campaign(persistent[n], n).term = persistent[n].term + 1
           /\ Campaign(persistent[n], n).log = persistent[n].log
           /\ Keep(n, Campaign(persistent[n], n))
           /\ Save(n, Campaign(persistent[n], n)) \/ UNCHANGED disk
           /\ role' = [role EXCEPT ![n] = "candidate"]
           /\ \A m \in rpcs' : m \in rpcs \/ \E q \in Peers(n) : m = VoteRequest(n, q)
           /\ UNCHANGED <<elected, decided>>
<1> DEFINE p == Campaign(persistent[n], n)
<1>1. persistent[n] \in Persistent
    BY DEF TypeOK
<1>2. p \in Persistent /\ p.term = persistent[n].term + 1 /\ p.log = persistent[n].log
    BY <1>1, CampaignType
<1>3. /\ Keep(n, p) /\ (Save(n, p) \/ UNCHANGED disk)
      /\ role' = [role EXCEPT ![n] = "candidate"]
      /\ UNCHANGED <<elected, decided>>
    BY DEF StartElection, StartElectionFails, history
<1>4. \A m \in rpcs' : m \in rpcs \/ \E q \in Peers(n) : m = VoteRequest(n, q)
    <2>1. CASE StartElection(n)
        <3>1. Transmit({}, {VoteRequest(n, q) : q \in Peers(n)})
            BY <2>1 DEF StartElection
        <3> QED
            BY <3>1 DEF Transmit
    <2>2. CASE StartElectionFails(n)
        BY <2>2 DEF StartElectionFails
    <2> QED
        BY <2>1, <2>2
<1> QED
    BY <1>2, <1>3, <1>4

-----------------------------------------------------------------------------
(* The actions.                                                             *)

\* Handlers that take over a term.
LEMMA MatchAdopts ==
    ASSUME MatchInv, ElectionInv', NEW n \in Node, NEW m \in rpcs,
           \/ HandleRequestVote(n, m) \/ RecordVoteFails(n, m)
           \/ RejectMismatchedAppend(n, m)
           \/ StepDownOnReply(n, m) \/ StepDownFails(n, m)
    PROVE  MatchInv' /\ Links' \subseteq Links
<1>0. TypeOK
    BY DEF MatchInv, ElectionInv, TypeInv
<1>1. PICK q, s \in Persistent : Adopts(n, m, q, s)
    BY <1>0, AdoptingHandlers
<1>2. NoAcks /\ elected' = elected
    BY <1>0, AdoptingHandlers
<1>3. \A r \in rpcs' : r \in rpcs \/ r.type # "append"
    BY <1>2 DEF NoAcks
<1>4. /\ Keep(n, q) /\ (Save(n, s) \/ UNCHANGED disk)
      /\ q.log = persistent[n].log /\ s.log = persistent[n].log
    BY <1>1 DEF Adopts
<1>5. LogLinks(q.log) \subseteq Links /\ LogLinks(s.log) \subseteq Links
    BY <1>0, <1>4, LinkSources
<1>6. /\ \A o \in Peers(n) : role'[o] = role[o]
      /\ \/ role'[n] = "follower"
         \/ role'[n] = role[n] /\ q.term = persistent[n].term
    BY <1>0, <1>1 DEF Adopts, TypeOK, Peers
<1> QED
    BY <1>2, <1>3, <1>4, <1>5, <1>6, MatchHandler

\* Steps that change no record.
LEMMA MatchIdle ==
    ASSUME MatchInv, ElectionInv', UNCHANGED <<persistent, disk, role, elected>>, NoAcks
    PROVE  MatchInv' /\ Links' \subseteq Links
<1>0. TypeOK
    BY DEF MatchInv, ElectionInv, TypeInv
<1>1. AppendsCopied
    BY OldAppends DEF NoAcks
<1>2. LeadersStay /\ CandidatesStay
    BY DEF LeadersStay, CandidatesStay
<1> QED
    BY <1>0, <1>1, <1>2, LinkSources, MatchCarried

\* Campaigning, saved or not.
LEMMA MatchCampaign ==
    ASSUME MatchInv, ElectionInv', NEW n \in Node, StartElection(n) \/ StartElectionFails(n)
    PROVE  MatchInv' /\ Links' \subseteq Links
<1> DEFINE p == Campaign(persistent[n], n)
<1>0. TypeOK /\ persistent[n].term \in Nat
    BY PersistentFields DEF MatchInv, ElectionInv, TypeInv, TypeOK
<1>1. /\ p.term = persistent[n].term + 1 /\ p.log = persistent[n].log
      /\ Keep(n, p) /\ (Save(n, p) \/ UNCHANGED disk)
      /\ role' = [role EXCEPT ![n] = "candidate"]
      /\ \A m \in rpcs' : m \in rpcs \/ \E q \in Peers(n) : m = VoteRequest(n, q)
      /\ elected' = elected
    BY <1>0, Campaigning
<1>2. \A m \in rpcs' : m \in rpcs \/ m.type # "append"
    BY <1>1 DEF VoteRequest
<1> HIDE DEF p
<1>3. LogLinks(p.log) \subseteq Links
    BY <1>0, <1>1, LinkSources
<1>4. /\ \A o \in Peers(n) : role'[o] = role[o]
      /\ role'[n] = "candidate" /\ p.term > persistent[n].term
    BY <1>0, <1>1 DEF TypeOK, Peers
<1> QED
    BY <1>1, <1>2, <1>3, <1>4, MatchHandler

\* A leader's heartbeats carry pieces of its log.
LEMMA MatchHeartbeat ==
    ASSUME MatchInv, ElectionInv', NEW n \in Node, Heartbeat(n)
    PROVE  MatchInv' /\ Links' \subseteq Links
<1>0. TypeOK /\ SentRooted
    BY DEF MatchInv, ElectionInv, TypeInv
<1>1. /\ UNCHANGED <<persistent, disk, role, elected>>
      /\ Transmit({}, {AppendRequest(n, p) : p \in Peers(n)})
    BY DEF Heartbeat, durable, volatile, history
<1>2. AppendsCopied
    <2> SUFFICES ASSUME NEW m \in rpcs', m.type = "append"
                 PROVE  SentLinks(m) \subseteq Links /\ Rooted(m)
        BY DEF AppendsCopied
    <2>1. CASE m \in rpcs
        BY <1>0, <2>1, LinkSources DEF SentRooted
    <2>2. ASSUME NEW p \in Peers(n), m = AppendRequest(n, p)
          PROVE  SentLinks(m) \subseteq Links /\ Rooted(m)
        <3>1. p \in Node
            BY DEF Peers
        <3>2. /\ SentLinks(m) \subseteq LogLinks(persistent[n].log)
              /\ m.prevIndex = 0 => m.prevTerm = 0
            BY <1>0, <2>2, <3>1, RequestLinks
        <3> QED
            BY <1>0, <3>2, LinkSources DEF Rooted
    <2> QED
        BY <1>1, <2>1, <2>2 DEF Transmit
<1>3. LeadersStay /\ CandidatesStay
    BY <1>1 DEF LeadersStay, CandidatesStay
<1> QED
    BY <1>0, <1>1, <1>2, <1>3, LinkSources, MatchCarried

\* A merge copies links of the log and of the message; a write that fails
\* leaves them in memory only.
LEMMA MatchMerge ==
    ASSUME MatchInv, ElectionInv', NEW n \in Node, NEW m \in rpcs,
           AcceptAppend(n, m) \/ AppendSaveFails(n, m)
    PROVE  MatchInv' /\ Links' \subseteq Links
<1> DEFINE p == WithTerm(persistent[n], m.term)
           q == [p EXCEPT !.log = MergeEntries(p.log, m.prevIndex, m.entries)]
<1>0. TypeOK /\ SentRooted
    BY DEF MatchInv, ElectionInv, TypeInv
<1>1. m.type = "append" /\ m \in AppendRequests /\ m.term \in Nat
    BY <1>0, RpcFields DEF AcceptAppend, AppendSaveFails, Received, TypeOK
<1>2. p \in Persistent /\ p.log = persistent[n].log
    BY <1>0, <1>1, WithTermType DEF TypeOK
<1>3. PrevMatches(p.log, m.prevIndex, m.prevTerm)
    BY DEF AcceptAppend, AppendSaveFails
<1>4. /\ Keep(n, q) /\ (Save(n, q) \/ Save(n, p) \/ UNCHANGED disk)
      /\ Follow(n, m) /\ elected' = elected
    BY DEF AcceptAppend, AppendSaveFails, history
<1>5. \A r \in rpcs' : r \in rpcs \/ r.type # "append"
    <2>1. CASE AcceptAppend(n, m)
        <3> DEFINE reply == AppendReply(m, q.term, TRUE, 0)
        <3>1. Answer(m, reply)
            BY <2>1 DEF AcceptAppend
        <3>2. reply.type = "appended"
            BY DEF AppendReply
        <3> HIDE DEF reply
        <3> QED
            BY <3>1, <3>2, AnswerMessages
    <2>2. CASE AppendSaveFails(n, m)
        BY <2>2 DEF AppendSaveFails
    <2> QED
        BY <2>1, <2>2
<1> HIDE DEF p
<1>6. q.log = MergeEntries(p.log, m.prevIndex, m.entries)
    BY <1>1, <1>2, <1>3, MergedType
<1> HIDE DEF q
<1>7. LogLinks(q.log) \subseteq Links /\ LogLinks(p.log) \subseteq Links
    <2>1. p.log \in Seq(Entry)
        BY <1>2, PersistentFields
    <2>2. m.prevIndex = 0 => m.prevTerm = 0
        BY <1>0, <1>1 DEF SentRooted, Rooted
    <2>3. LogLinks(q.log) \subseteq LogLinks(p.log) \cup SentLinks(m)
        BY <1>1, <1>3, <1>6, <2>1, <2>2, MergeLinks
    <2>4. LogLinks(p.log) \subseteq Links /\ SentLinks(m) \subseteq Links
        BY <1>0, <1>1, <1>2, LinkSources
    <2> QED
        BY <2>3, <2>4
<1>8. role'[n] = "follower" /\ \A o \in Peers(n) : role'[o] = role[o]
    BY <1>0, <1>4 DEF Follow, TypeOK, Peers
<1>9. CASE Save(n, q)
    BY <1>4, <1>5, <1>7, <1>8, <1>9, MatchHandler
<1>10. CASE Save(n, p) \/ UNCHANGED disk
    BY <1>4, <1>5, <1>7, <1>8, <1>10, MatchHandler
<1> QED
    BY <1>4, <1>9, <1>10

\* Closing a request changes nothing of what it says.
SameRequest(r, m) ==
    /\ r.type = m.type /\ r.src = m.src /\ r.dst = m.dst /\ r.term = m.term
    /\ m.type = "append" => /\ r.prevIndex = m.prevIndex /\ r.prevTerm = m.prevTerm
                            /\ r.entries = m.entries /\ r.commit = m.commit
    /\ m.type = "vote" => r.lastIndex = m.lastIndex /\ r.lastTerm = m.lastTerm

\* What is in flight after a restart was in flight before it: requests may be
\* closed, replies are untouched.
LEMMA RestartMessages ==
    ASSUME TypeOK, NEW n \in Node, Restart(n), NEW m \in rpcs'
    PROVE  /\ \E r \in rpcs : SameRequest(r, m)
           /\ m.type \in {"voted", "appended"} => m \in rpcs
<1> DEFINE closed(x) == IF x.type \in {"vote", "append"} /\ x.src = n
                        THEN [x EXCEPT !.open = FALSE] ELSE x
           left == {r \in rpcs : ~(r.type \in {"voted", "appended"} /\ r.dst = n)}
<1>1. rpcs' = {closed(r) : r \in left}
    BY Zenon DEF Restart
<1>2. PICK r \in left : m = closed(r)
    BY <1>1
<1>3. r \in rpcs /\ r \in Rpc
    BY DEF TypeOK
<1>4. CASE r.type = "vote"
    <2>1. SameRequest(r, closed(r)) /\ closed(r).type = "vote"
        BY <1>3, <1>4, RpcFields DEF VoteRequests, SameRequest
    <2> QED
        BY <1>2, <1>3, <2>1
<1>5. CASE r.type = "append"
    <2>1. SameRequest(r, closed(r)) /\ closed(r).type = "append"
        BY <1>3, <1>5, RpcFields DEF AppendRequests, SameRequest
    <2> QED
        BY <1>2, <1>3, <2>1
<1>6. CASE r.type \notin {"vote", "append"}
    <2>1. m = r
        BY <1>2, <1>6
    <2> QED
        BY <1>3, <2>1 DEF SameRequest
<1> QED
    BY <1>4, <1>5, <1>6

\* A restart brings the log of the disk back.
LEMMA MatchRestart ==
    ASSUME MatchInv, ElectionInv', NEW n \in Node, Restart(n)
    PROVE  MatchInv' /\ Links' \subseteq Links
<1>0. TypeOK /\ SentRooted
    BY DEF MatchInv, ElectionInv, TypeInv
<1>1. /\ Keep(n, disk[n]) /\ UNCHANGED <<disk, elected>>
      /\ role' = [role EXCEPT ![n] = "follower"]
    BY DEF Restart, BecomeFollower, history
<1>2. AppendsCopied
    <2> SUFFICES ASSUME NEW m \in rpcs', m.type = "append"
                 PROVE  SentLinks(m) \subseteq Links /\ Rooted(m)
        BY DEF AppendsCopied
    <2>1. PICK r \in rpcs : SameRequest(r, m)
        BY <1>0, RestartMessages
    <2>2. SentLinks(m) = SentLinks(r) /\ (Rooted(r) => Rooted(m)) /\ r.type = "append"
        BY <2>1 DEF SameRequest, SentLinks, SentLink, Rooted
    <2> QED
        BY <1>0, <2>2, LinkSources DEF SentRooted
<1>3. ASSUME NEW o \in Node
      PROVE  /\ persistent'[o] = IF o = n THEN disk[o] ELSE persistent[o]
             /\ role'[o] = IF o = n THEN "follower" ELSE role[o]
    BY <1>0, <1>1 DEF TypeOK, Keep
<1>4. LeadersStay /\ CandidatesStay
    BY <1>3 DEF LeadersStay, CandidatesStay
<1>5. \A o \in Node : /\ LogLinks(persistent'[o].log) \subseteq Links
                      /\ LogLinks(disk'[o].log) \subseteq Links
    BY <1>0, <1>1, <1>3, LinkSources
<1> QED
    BY <1>1, <1>2, <1>4, <1>5, MatchCarried

\* Who wins an election finds no entry of its term anywhere.
LEMMA FreshTerm ==
    ASSUME MatchInv, ElectionInv', NEW n \in Node, role[n] = "candidate",
           elected' = elected \cup {<<persistent[n].term, n>>}
    PROVE  /\ \A l \in Links : l.entry.term # persistent[n].term
           /\ \A e \in elected : e[1] # persistent[n].term
<1>1. ASSUME NEW e \in elected, e[1] = persistent[n].term PROVE FALSE
    <2>1. ElectionSafety'
        BY OneLeader, PTL
    <2>2. e \in elected' /\ <<persistent[n].term, n>> \in elected'
        OBVIOUS
    <2>3. e[2] = n
        BY <1>1, <2>1, <2>2 DEF ElectionSafety
    <2>4. e = <<e[1], e[2]>>
        <3>1. e \in Nat \X Node
            BY DEF MatchInv, ElectionInv, TypeInv, TypeOK
        <3> QED
            BY <3>1
    <2> QED
        BY <1>1, <2>3, <2>4 DEF MatchInv, CandidateFresh
<1> QED
    BY <1>1 DEF MatchInv, LinksElected

\* Counting a vote, the last one included.
LEMMA MatchCount ==
    ASSUME MatchInv, ElectionInv', NEW n \in Node, NEW m \in rpcs, CountVote(n, m)
    PROVE  MatchInv' /\ Links' \subseteq Links
<1>0. TypeOK
    BY DEF MatchInv, ElectionInv, TypeInv
<1>1. /\ UNCHANGED <<persistent, disk, grants, decided>> /\ rpcs' = rpcs \ {m}
      /\ role[n] = "candidate"
      /\ BecomeLeader(n) \/ UNCHANGED <<role, elected>>
    BY DEF CountVote, durable
<1>2. CASE UNCHANGED <<role, elected>>
    BY <1>1, <1>2, MatchIdle DEF NoAcks
<1>3. CASE BecomeLeader(n)
    <2> DEFINE t == persistent[n].term
    <2>1. /\ role' = [role EXCEPT ![n] = "leader"]
          /\ elected' = elected \cup {<<t, n>>}
        BY <1>3 DEF BecomeLeader
    <2>2. Links' \subseteq Links
        BY <1>1 DEF Links, IsLink
    <2>3. \A l \in Links : l.entry.term # t
        BY <1>1, <2>1, FreshTerm
    <2>4. \A o \in Node : role'[o] = IF o = n THEN "leader" ELSE role[o]
        BY <1>0, <2>1 DEF TypeOK
    <2>5. LinksUnique'
        BY <2>2 DEF MatchInv, LinksUnique, Unique
    <2>6. LinksElected'
        BY <2>1, <2>2 DEF MatchInv, LinksElected
    <2>7. LeaderElected'
        BY <1>1, <2>1, <2>4 DEF MatchInv, LeaderElected
    <2>8. LeaderHolds'
        BY <1>1, <2>2, <2>3, <2>4 DEF MatchInv, LeaderHolds
    <2>9. CandidateFresh'
        <3> SUFFICES ASSUME NEW o \in Node, role'[o] = "candidate",
                            <<persistent[o].term, o>> \in elected'
                     PROVE  FALSE
            BY <1>1 DEF CandidateFresh
        <3>1. o # n /\ role[o] = "candidate"
            BY <2>4
        <3>2. <<persistent[o].term, o>> \in elected
            BY <2>1, <3>1
        <3> QED
            BY <3>1, <3>2 DEF MatchInv, CandidateFresh
    <2>10. SentRooted'
        BY <1>1 DEF MatchInv, SentRooted
    <2> QED
        BY <2>2, <2>5, <2>6, <2>7, <2>8, <2>9, <2>10 DEF MatchInv
<1> QED
    BY <1>1, <1>2, <1>3

\* The one link propose makes.
NewLink(n, v) ==
    [index |-> Len(persistent[n].log) + 1,
     entry |-> [term |-> persistent[n].term, cmd |-> v],
     prev |-> LastTerm(persistent[n].log)]

\* What propose does to the leader's record.
LEMMA ProposeEffect ==
    ASSUME TypeOK, NEW n \in Node, NEW v \in Value, Propose(n, v)
    PROVE  LET e == [term |-> persistent[n].term, cmd |-> v]
               log == persistent[n].log
           IN  /\ e \in Entry /\ log \in Seq(Entry) /\ role[n] = "leader"
               /\ Len(log) < MaxLog
               /\ \A o \in Node :
                     /\ persistent'[o].term = persistent[o].term
                     /\ o # n => persistent'[o] = persistent[o]
                     /\ disk'[o] = IF o = n THEN persistent'[n] ELSE disk[o]
               /\ persistent'[n].log = Append(log, e)
               /\ UNCHANGED <<role, rpcs, grants, elected, decided, commitIndex,
                              lastApplied, nextIndex, matchIndex, votesReceived>>
<1> DEFINE e == [term |-> persistent[n].term, cmd |-> v]
           r == persistent[n]
           log == Append(r.log, e)
           p == [r EXCEPT !.log = log]
<1>1. r \in Persistent /\ r.term \in Nat /\ r.log \in Seq(Entry)
    BY PersistentFields DEF TypeOK
<1>2. e \in Entry
    BY <1>1 DEF Entry
<1>3. /\ Keep(n, p) /\ Save(n, p) /\ role[n] = "leader" /\ Len(r.log) < MaxLog
      /\ UNCHANGED <<role, rpcs, grants, elected, decided, commitIndex,
                     lastApplied, nextIndex, matchIndex, votesReceived>>
    BY DEF Propose, volatile, history
<1>4. p.term = r.term /\ p.log = log
    <2> HIDE DEF log, r
    <2> QED
        BY <1>1 DEF Persistent
<1> HIDE DEF p
<1>5. ASSUME NEW o \in Node
      PROVE  /\ persistent'[o] = IF o = n THEN p ELSE persistent[o]
             /\ disk'[o] = IF o = n THEN p ELSE disk[o]
    BY <1>3 DEF Keep, Save, TypeOK
<1> QED
    BY <1>1, <1>2, <1>3, <1>4, <1>5

\* A proposal makes a link nobody has: only the term's leader makes links of
\* the term, and it has kept them all.
LEMMA MatchPropose ==
    ASSUME MatchInv, ElectionInv', NEW n \in Node, NEW v \in Value, Propose(n, v)
    PROVE  /\ MatchInv' /\ Links' \subseteq Links \cup {NewLink(n, v)}
           /\ LogLinks(persistent'[n].log) = LogLinks(persistent[n].log) \cup {NewLink(n, v)}
<1> DEFINE e == [term |-> persistent[n].term, cmd |-> v]
           log == persistent[n].log
           new == NewLink(n, v)
<1>0. TypeOK /\ TypeOK'
    BY DEF MatchInv, ElectionInv, TypeInv
<1>1. /\ e \in Entry /\ log \in Seq(Entry) /\ role[n] = "leader"
      /\ \A o \in Node :
            /\ persistent'[o].term = persistent[o].term
            /\ o # n => persistent'[o].log = persistent[o].log
            /\ disk'[o] = IF o = n THEN persistent'[n] ELSE disk[o]
      /\ persistent'[n].log = Append(log, e)
      /\ UNCHANGED <<role, rpcs, elected>>
    BY <1>0, ProposeEffect
<1>2. LogLinks(persistent'[n].log) = LogLinks(log) \cup {new} /\ new \in Link
    BY <1>1, AppendLinks DEF NewLink
<1>3. /\ new.index = Len(log) + 1 /\ new.entry.term = persistent[n].term
      /\ Len(log) \in Nat
    BY <1>1 DEF NewLink
<1> HIDE DEF new
<1>4. \A o \in Node : /\ LogLinks(persistent[o].log) \subseteq Links
                      /\ LogLinks(disk[o].log) \subseteq Links
    BY <1>0, LinkSources
<1>5. Links' \subseteq Links \cup {new}
    <2> SUFFICES ASSUME NEW l \in Links' PROVE l \in Links \/ l = new
        OBVIOUS
    <2>1. CASE \E m \in rpcs : m.type = "append" /\ l \in SentLinks(m)
        BY <2>1 DEF Links, IsLink
    <2>2. ASSUME NEW o \in Node,
                 l \in LogLinks(persistent'[o].log) \/ l \in LogLinks(disk'[o].log)
          PROVE  l \in Links \/ l = new
        BY <1>1, <1>2, <1>4, <2>2
    <2> QED
        BY <1>1, <2>1, <2>2 DEF Links, IsLink
<1>6. \A l \in Links : l.entry.term = persistent[n].term => l \in LogLinks(log) /\ l.index <= Len(log)
    <2> SUFFICES ASSUME NEW l \in Links, l.entry.term = persistent[n].term
                 PROVE  l \in LogLinks(log) /\ l.index <= Len(log)
        OBVIOUS
    <2>1. l \in LogLinks(log)
        BY <1>1 DEF MatchInv, LeaderHolds
    <2>2. PICK i \in 1..Len(log) : l = LogLink(log, i)
        BY <2>1 DEF LogLinks
    <2>3. l.index = i
        BY <1>1, <2>2, LogLinkParts
    <2> QED
        BY <1>3, <2>1, <2>3
<1>7. LinksUnique'
    <2> SUFFICES ASSUME NEW a \in Links', NEW b \in Links',
                        a.index = b.index, a.entry.term = b.entry.term
                 PROVE  a = b
        BY DEF LinksUnique, Unique
    <2>1. (a \in Links \/ a = new) /\ (b \in Links \/ b = new)
        BY <1>5
    <2>2. CASE a \in Links /\ b \in Links
        BY <2>2 DEF MatchInv, LinksUnique, Unique
    <2>3. CASE a = new /\ b \in Links
        BY <1>3, <1>6, <2>3
    <2>4. CASE a \in Links /\ b = new
        BY <1>3, <1>6, <2>4
    <2> QED
        BY <2>1, <2>2, <2>3, <2>4
<1>8. <<persistent[n].term, n>> \in elected
    BY <1>1 DEF MatchInv, LeaderElected
<1>9. LinksElected'
    BY <1>1, <1>3, <1>5, <1>8 DEF MatchInv, LinksElected
<1>10. LeaderElected' /\ CandidateFresh' /\ SentRooted'
    BY <1>1 DEF MatchInv, LeaderElected, CandidateFresh, SentRooted
<1>11. LeaderHolds'
    <2> SUFFICES ASSUME NEW o \in Node, role[o] = "leader", NEW l \in Links',
                        l.entry.term = persistent[o].term
                 PROVE  l \in LogLinks(persistent'[o].log)
        BY <1>1 DEF LeaderHolds
    <2>1. CASE o = n
        BY <1>2, <1>5, <1>6, <2>1
    <2>2. CASE o # n
        <3>1. persistent[o].term # persistent[n].term
            <4>1. <<persistent[o].term, o>> \in elected
                BY DEF MatchInv, LeaderElected
            <4>2. ElectionSafety
                BY OneLeader DEF MatchInv
            <4> QED
                BY <1>8, <2>2, <4>1, <4>2 DEF ElectionSafety
        <3>2. l \in Links
            BY <1>3, <1>5, <3>1
        <3>3. l \in LogLinks(persistent[o].log)
            BY <3>2 DEF MatchInv, LeaderHolds
        <3> QED
            BY <1>1, <2>2, <3>3
    <2> QED
        BY <2>1, <2>2
<1> QED
    BY <1>2, <1>5, <1>7, <1>9, <1>10, <1>11 DEF MatchInv, new

-----------------------------------------------------------------------------
(* The theorem.                                                             *)

\* A cluster that has never run has no links.
LEMMA MatchInit == Init => MatchInv
<1> SUFFICES ASSUME Init PROVE MatchInv
    OBVIOUS
<1>1. ElectionInv
    BY ElectionInit
<1>2. ASSUME NEW n \in Node PROVE LogLinks(persistent[n].log) = {} /\ LogLinks(disk[n].log) = {}
    <2>1. persistent[n].log = <<>> /\ disk[n].log = <<>>
        BY DEF Init
    <2> QED
        BY <2>1 DEF LogLinks
<1>3. Links = {}
    BY <1>2 DEF Links, IsLink, Init
<1>4. LinksUnique /\ LinksElected /\ LeaderHolds
    BY <1>3 DEF LinksUnique, Unique, LinksElected, LeaderHolds
<1>5. LeaderElected /\ CandidateFresh /\ SentRooted
    BY DEF Init, LeaderElected, CandidateFresh, SentRooted
<1> QED
    BY <1>1, <1>4, <1>5 DEF MatchInv

\* Every step keeps the invariant.
LEMMA MatchNext == MatchInv /\ [Next]_vars => MatchInv'
<1> SUFFICES ASSUME MatchInv, [Next]_vars PROVE MatchInv'
    OBVIOUS
<1>0. ElectionInv'
    BY ElectionNext DEF MatchInv, ElectionStep
<1>1. ASSUME NEW n \in Node, Consensus(n) PROVE MatchInv'
    <2>1. CASE StartElection(n) \/ StartElectionFails(n)
        BY <1>0, <2>1, MatchCampaign
    <2>2. CASE Heartbeat(n)
        BY <1>0, <2>2, MatchHeartbeat
    <2>3. ASSUME NEW m \in rpcs, HandleRpc(n, m) PROVE MatchInv'
        <3>1. CASE \/ HandleRequestVote(n, m) \/ RecordVoteFails(n, m)
                   \/ RejectMismatchedAppend(n, m)
                   \/ StepDownOnReply(n, m) \/ StepDownFails(n, m)
            BY <1>0, <3>1, MatchAdopts
        <3>2. CASE AcceptAppend(n, m) \/ AppendSaveFails(n, m)
            BY <1>0, <3>2, MatchMerge
        <3>3. CASE CountVote(n, m)
            BY <1>0, <3>3, MatchCount
        <3>4. CASE \/ RejectStaleVote(n, m) \/ RejectStaleAppend(n, m)
                   \/ AppendSucceeded(n, m) \/ AppendFailed(n, m) \/ IgnoreReply(n, m)
            BY <1>0, <3>4, IdleHandlers, MatchIdle
        <3> QED
            BY <2>3, <3>1, <3>2, <3>3, <3>4 DEF HandleRpc
    <2> QED
        BY <1>1, <2>1, <2>2, <2>3 DEF Consensus
<1>2. ASSUME NEW n \in Node, NEW v \in Value, Propose(n, v) PROVE MatchInv'
    BY <1>0, <1>2, MatchPropose
<1>3. ASSUME NEW n \in Node, TakeCommitted(n) PROVE MatchInv'
    BY <1>0, <1>3, IdleHandlers, MatchIdle
<1>4. ASSUME NEW n \in Node, Restart(n) PROVE MatchInv'
    BY <1>0, <1>4, MatchRestart
<1>5. CASE UNCHANGED vars
    <2>1. UNCHANGED <<persistent, disk, role, elected, rpcs>>
        BY <1>5 DEF vars, durable, volatile, history
    <2> QED
        BY <1>0, <2>1, MatchIdle DEF NoAcks
<1> QED
    BY <1>1, <1>2, <1>3, <1>4, <1>5 DEF Next

\* Sequences that agree up to an index have the same prefix.
LEMMA SamePrefix ==
    ASSUME NEW a \in Seq(Entry), NEW b \in Seq(Entry), NEW i \in Nat,
           i <= Len(a), i <= Len(b), \A j \in 1..i : a[j] = b[j]
    PROVE  SubSeq(a, 1, i) = SubSeq(b, 1, i)
<1>1. /\ Len(SubSeq(a, 1, i)) = i /\ Len(SubSeq(b, 1, i)) = i
      /\ \A j \in 1..i : SubSeq(a, 1, i)[j] = a[j] /\ SubSeq(b, 1, i)[j] = b[j]
      /\ SubSeq(a, 1, i) \in Seq(Entry) /\ SubSeq(b, 1, i) \in Seq(Entry)
    OBVIOUS
<1> QED
    BY <1>1

\* Unique links make logs match.
LEMMA LinksGiveMatching == MatchInv => LogMatching
<1> SUFFICES ASSUME MatchInv, NEW n \in Node, NEW o \in Node,
                    NEW i \in 1..Len(persistent[n].log), i <= Len(persistent[o].log),
                    persistent[n].log[i].term = persistent[o].log[i].term
             PROVE  SubSeq(persistent[n].log, 1, i) = SubSeq(persistent[o].log, 1, i)
    BY DEF LogMatching
<1>0. TypeOK /\ Unique(Links)
    BY DEF MatchInv, ElectionInv, TypeInv, LinksUnique
<1> DEFINE a == persistent[n].log
           b == persistent[o].log
<1>1. a \in Seq(Entry) /\ b \in Seq(Entry)
    BY <1>0, PersistentFields DEF TypeOK
<1>2. LogLinks(a) \subseteq Links /\ LogLinks(b) \subseteq Links
    BY <1>0, LinkSources
<1>3. i \in 1..Len(a) /\ i <= Len(b) /\ a[i].term = b[i].term
    OBVIOUS
<1> HIDE DEF a, b
<1>4. \A j \in 1..i : a[j] = b[j]
    BY <1>0, <1>1, <1>2, <1>3, LinksMatch
<1>5. i \in Nat /\ i <= Len(a)
    BY <1>1, <1>3
<1>6. SubSeq(a, 1, i) = SubSeq(b, 1, i)
    BY <1>1, <1>3, <1>4, <1>5, SamePrefix
<1> QED
    BY <1>6 DEF a, b

\* The invariant holds in every reachable state.
THEOREM MatchInvariant == Spec => []MatchInv
    BY MatchInit, MatchNext, PTL DEF Spec

\* Two logs with an entry of the same term at an index are equal up to it,
\* whatever is lost, delayed or reordered, whoever restarts and whichever disk
\* writes fail.
THEOREM LogsMatch == Spec => []LogMatching
    BY MatchInvariant, LinksGiveMatching, PTL

-----------------------------------------------------------------------------
(* What a leader may rely on while no disk write has failed and replies do *)
(* not outlive their term: its log only grows, the AppendEntries of its    *)
(* term in flight are pieces of it, next_index and match_index stay within *)
(* it, and terms in logs do not decrease.  The commit proof builds on it.  *)

\* log begins with P.
Starts(log, P) == Len(P) <= Len(log) /\ \A i \in 1..Len(P) : log[i] = P[i]

\* An AppendEntries cut out of a log.
Piece(m, log) ==
    /\ m.prevIndex + Len(m.entries) <= Len(log)
    /\ \A k \in 1..Len(m.entries) : m.entries[k] = log[m.prevIndex + k]
    /\ m.prevIndex # 0 => m.prevTerm = log[m.prevIndex].term

-----------------------------------------------------------------------------
(* The inductive invariant.                                                 *)

\* No write has failed: state.bin is what memory is.
InStep == disk = persistent

\* A log holds no term later than its member's.
LogFits(n) ==
    \A i \in 1..Len(persistent[n].log) : persistent[n].log[i].term <= persistent[n].term

\* A leader's indexes stay within its log.
LeaderFits(n) ==
    role[n] = "leader" =>
        \A p \in Node : /\ nextIndex[n][p] <= Len(persistent[n].log) + 1
                        /\ matchIndex[n][p] <= Len(persistent[n].log)

\* n plays the part in term t.
Is(n, part, t) == role[n] = part /\ persistent[n].term = t

\* AppendEntries come from the leader of their term; while it leads, they are
\* pieces of its log.
SentFits(m) ==
    m.type = "append" =>
        /\ \A k \in 1..Len(m.entries) : m.entries[k].term <= m.term
        /\ <<m.term, m.src>> \in elected
        /\ Is(m.src, "leader", m.term) => Piece(m, persistent[m.src].log)

\* So do acknowledgements go to it, for entries it has.
AckFits(m) ==
    (m.type = "appended" /\ m.success) =>
        /\ <<m.term, m.dst>> \in elected
        /\ Is(m.dst, "leader", m.term)
              => m.sentPrev + m.sentLen <= Len(persistent[m.dst].log)

\* A RequestVote of a current candidacy describes the candidate's log.
VoteFits(m) ==
    m.type = "vote" =>
        (Is(m.src, "candidate", m.term) =>
            /\ m.lastIndex = Len(persistent[m.src].log)
            /\ m.lastTerm = LastTerm(persistent[m.src].log))

Fits(m) == SentFits(m) /\ AckFits(m) /\ VoteFits(m)

\* Terms do not decrease along a log, and the entries of a term follow one
\* another without a gap.
LinksOrdered == \A l \in Links : l.prev <= l.entry.term
LinksContiguous ==
    \A a, b \in Links :
        (a.entry.term = b.entry.term /\ a.index < b.index) => b.prev = b.entry.term

LeaderInv ==
    /\ MatchInv /\ InStep
    /\ \A n \in Node : LogFits(n) /\ LeaderFits(n)
    /\ \A m \in rpcs : Fits(m)
    /\ LinksOrdered /\ LinksContiguous

-----------------------------------------------------------------------------
(* Logs.                                                                    *)

\* The types a proof about a member uses.
LEMMA MemberTypes ==
    ASSUME TypeOK, NEW n \in Node
    PROVE  /\ persistent[n] \in Persistent /\ persistent[n].term \in Nat
           /\ persistent[n].log \in Seq(Entry) /\ Len(persistent[n].log) \in Nat
           /\ \A i \in 1..Len(persistent[n].log) : /\ persistent[n].log[i] \in Entry
                                                   /\ persistent[n].log[i].term \in Nat
<1>1. persistent[n] \in Persistent
    BY DEF TypeOK
<1>2. persistent[n].term \in Nat /\ persistent[n].log \in Seq(Entry)
    BY <1>1, PersistentFields
<1>3. \A i \in 1..Len(persistent[n].log) : persistent[n].log[i] \in Entry
    BY <1>2
<1> QED
    BY <1>1, <1>2, <1>3 DEF Entry

\* In a log of ordered links terms do not decrease.
LEMMA LogOrdered ==
    ASSUME NEW log \in Seq(Entry), \A l \in LogLinks(log) : l.prev <= l.entry.term,
           NEW i \in 1..Len(log), NEW j \in 1..Len(log), i <= j
    PROVE  log[i].term <= log[j].term
<1>0. /\ Len(log) \in Nat
      /\ \A k \in 1..Len(log) : log[k] \in Entry /\ log[k].term \in Nat
    <2>1. Len(log) \in Nat /\ \A k \in 1..Len(log) : log[k] \in Entry
        OBVIOUS
    <2> QED
        BY <2>1 DEF Entry
<1> DEFINE D == {k \in i..Len(log) : log[k].term < log[i].term}
<1> SUFFICES ASSUME D # {} PROVE FALSE
    <2>1. j \in i..Len(log) /\ j \notin D => ~(log[j].term < log[i].term)
        BY <1>0
    <2> QED
        BY <1>0, <2>1
<1>1. D \in SUBSET Nat
    BY <1>0
<1>2. PICK k \in D : \A x \in D : k <= x
    BY <1>1, MinExists
<1>3. k \in 1..Len(log) /\ k # i /\ k > i /\ k \in Nat /\ log[k].term < log[i].term
    BY <1>0, <1>2
<1>4. k - 1 \in i..Len(log) /\ k - 1 \in 1..Len(log) /\ k - 1 \notin D /\ k # 1
    BY <1>0, <1>2, <1>3
<1>5. log[k - 1].term <= log[k].term
    BY <1>3, <1>4, LogLinkParts
<1>6. ~(log[k - 1].term < log[i].term)
    BY <1>4
<1>7. log[i].term \in Nat /\ log[k].term \in Nat /\ log[k - 1].term \in Nat
    BY <1>0, <1>3, <1>4
<1> HIDE DEF D
<1> QED
    BY <1>3, <1>5, <1>6, <1>7

\* The term of the last entry.
LEMMA LastTermIs ==
    ASSUME NEW log \in Seq(Entry)
    PROVE  /\ Len(log) # 0 => /\ LastTerm(log) = log[Len(log)].term
                              /\ Len(log) \in 1..Len(log)
           /\ Len(log) = 0 => LastTerm(log) = 0
           /\ LastTerm(log) \in Nat
<1>1. Len(log) \in Nat /\ (Len(log) = 0 <=> log = <<>>)
    OBVIOUS
<1>2. LastTerm(log) \in Nat
    BY LastTypes
<1> QED
    BY <1>1, <1>2 DEF LastTerm

\* Links of the logs, with what the invariant says of them.
LEMMA LinksOfLog ==
    ASSUME LeaderInv, NEW n \in Node
    PROVE  /\ LogLinks(persistent[n].log) \subseteq Links
           /\ \A l \in LogLinks(persistent[n].log) : l.prev <= l.entry.term
<1>1. TypeOK /\ LinksOrdered
    BY DEF LeaderInv, MatchInv, ElectionInv, TypeInv
<1>2. LogLinks(persistent[n].log) \subseteq Links
    BY <1>1, LinkSources
<1> QED
    BY <1>1, <1>2 DEF LinksOrdered

-----------------------------------------------------------------------------
(* How the invariant is carried over a step.                                *)

\* With disk and memory in step, no step takes a term back.
LEMMA TermsGrow ==
    ASSUME LeaderInv, ElectionInv', DurableStep, NEW n \in Node
    PROVE  persistent'[n].term >= persistent[n].term
<1>1. TypeOK /\ TypeOK' /\ InStep
    BY DEF LeaderInv, MatchInv, ElectionInv, TypeInv
<1>2. persistent[n].term \in Nat /\ persistent'[n].term \in Nat
    BY <1>1, PersistentFields DEF TypeOK
<1>3. Later(persistent[n], persistent'[n]) \/ persistent'[n] = persistent[n]
    BY <1>1 DEF DurableStep, InStep
<1> QED
    BY <1>2, <1>3 DEF Later

\* A leader was one in its term and its log has only grown, or its election
\* is new; a candidate was one with its log, or its term is new.
MembersStay ==
    \A o \in Node :
        /\ role'[o] = "leader" =>
              \/ /\ role[o] = "leader" /\ persistent'[o].term = persistent[o].term
                 /\ Starts(persistent'[o].log, persistent[o].log)
              \/ <<persistent'[o].term, o>> \notin elected
        /\ role'[o] = "candidate" =>
              \/ /\ role[o] = "candidate" /\ persistent'[o].term = persistent[o].term
                 /\ persistent'[o].log = persistent[o].log
              \/ persistent'[o].term > disk[o].term

\* The message was in flight before, open or not.
Carried(m) ==
    /\ m.type \in {"vote", "append"} => \E r \in rpcs : SameRequest(r, m)
    /\ (m.type = "appended" /\ m.success) => m \in rpcs

\* A piece of a log is one of every log that begins with it.
LEMMA PieceGrows ==
    ASSUME NEW m \in AppendRequests, NEW a \in Seq(Entry), NEW b \in Seq(Entry),
           Piece(m, a), Starts(b, a)
    PROVE  Piece(m, b)
<1>1. /\ m.prevIndex \in Nat /\ m.entries \in Seq(Entry) /\ Len(m.entries) \in Nat
      /\ Len(a) \in Nat /\ Len(b) \in Nat
    BY DEF AppendRequests
<1>2. \A k \in 1..Len(m.entries) : m.prevIndex + k \in 1..Len(a)
    BY <1>1 DEF Piece
<1>3. m.prevIndex # 0 => m.prevIndex \in 1..Len(a)
    BY <1>1 DEF Piece
<1>4. m.prevIndex + Len(m.entries) <= Len(b)
    BY <1>1 DEF Piece, Starts
<1>5. \A k \in 1..Len(m.entries) : m.entries[k] = b[m.prevIndex + k]
    BY <1>2 DEF Piece, Starts
<1>6. m.prevIndex # 0 => m.prevTerm = b[m.prevIndex].term
    BY <1>3 DEF Piece, Starts
<1> QED
    BY <1>4, <1>5, <1>6 DEF Piece

\* A message in flight before fits after the step.
LEMMA FitsCarried ==
    ASSUME LeaderInv, MatchInv', MembersStay, elected \subseteq elected',
           NEW m \in rpcs', Carried(m)
    PROVE  Fits(m)'
<1>0. TypeOK /\ TypeOK' /\ ElectionInv
    BY DEF LeaderInv, MatchInv, ElectionInv, TypeInv
<1>1. m \in Rpc /\ m.src \in Node /\ m.dst \in Node /\ m.term \in Nat
    BY <1>0, RpcFields DEF TypeOK
<1>2. SentFits(m)'
    <2> SUFFICES ASSUME m.type = "append"
                 PROVE  /\ \A k \in 1..Len(m.entries) : m.entries[k].term <= m.term
                        /\ <<m.term, m.src>> \in elected'
                        /\ Is(m.src, "leader", m.term)' => Piece(m, persistent'[m.src].log)
        BY DEF SentFits
    <2>1. PICK r \in rpcs : SameRequest(r, m)
        BY DEF Carried
    <2>2. /\ r.type = "append" /\ r.src = m.src /\ r.term = m.term
          /\ r.entries = m.entries /\ r.prevIndex = m.prevIndex /\ r.prevTerm = m.prevTerm
        BY <2>1 DEF SameRequest
    <2>3. SentFits(r)
        BY DEF LeaderInv, Fits
    <2>4. /\ \A k \in 1..Len(m.entries) : m.entries[k].term <= m.term
          /\ <<m.term, m.src>> \in elected
          /\ Is(m.src, "leader", m.term) => Piece(r, persistent[m.src].log)
        BY <2>2, <2>3 DEF SentFits
    <2>5. Is(m.src, "leader", m.term)' => Piece(m, persistent'[m.src].log)
        <3> SUFFICES ASSUME role'[m.src] = "leader", persistent'[m.src].term = m.term
                     PROVE  Piece(m, persistent'[m.src].log)
            BY DEF Is
        <3>1. /\ role[m.src] = "leader" /\ persistent[m.src].term = m.term
              /\ Starts(persistent'[m.src].log, persistent[m.src].log)
            BY <1>1, <2>4 DEF MembersStay
        <3>2. Piece(m, persistent[m.src].log)
            BY <2>2, <2>4, <3>1 DEF Is, Piece
        <3>3. /\ persistent[m.src].log \in Seq(Entry) /\ persistent'[m.src].log \in Seq(Entry)
              /\ m \in AppendRequests
            BY <1>0, <1>1, RpcFields, PersistentFields DEF TypeOK
        <3> QED
            BY <3>1, <3>2, <3>3, PieceGrows
    <2> QED
        BY <2>4, <2>5
<1>3. AckFits(m)'
    <2> SUFFICES ASSUME m.type = "appended", m.success
                 PROVE  /\ <<m.term, m.dst>> \in elected'
                        /\ Is(m.dst, "leader", m.term)'
                              => m.sentPrev + m.sentLen <= Len(persistent'[m.dst].log)
        BY DEF AckFits
    <2>1. AckFits(m)
        BY DEF LeaderInv, Fits, Carried
    <2>2. /\ <<m.term, m.dst>> \in elected
          /\ Is(m.dst, "leader", m.term) => m.sentPrev + m.sentLen <= Len(persistent[m.dst].log)
        BY <2>1 DEF AckFits
    <2>3. ASSUME Is(m.dst, "leader", m.term)'
          PROVE  m.sentPrev + m.sentLen <= Len(persistent'[m.dst].log)
        <3>1. /\ role[m.dst] = "leader" /\ persistent[m.dst].term = m.term
              /\ Len(persistent[m.dst].log) <= Len(persistent'[m.dst].log)
            BY <1>1, <2>2, <2>3 DEF MembersStay, Is, Starts
        <3>2. /\ Len(persistent[m.dst].log) \in Nat /\ Len(persistent'[m.dst].log) \in Nat
            BY <1>0, <1>1, PersistentFields, LenProperties DEF TypeOK
        <3>3. m.sentPrev \in Nat /\ m.sentLen \in Nat
            BY <1>1, RpcFields DEF AppendReplies
        <3> QED
            BY <2>2, <3>1, <3>2, <3>3 DEF Is
    <2> QED
        BY <2>2, <2>3
<1>4. VoteFits(m)'
    <2> SUFFICES ASSUME m.type = "vote", role'[m.src] = "candidate",
                        persistent'[m.src].term = m.term
                 PROVE  /\ m.lastIndex = Len(persistent'[m.src].log)
                        /\ m.lastTerm = LastTerm(persistent'[m.src].log)
        BY DEF VoteFits, Is
    <2>1. PICK r \in rpcs : SameRequest(r, m)
        BY DEF Carried
    <2>2. /\ r.type = "vote" /\ r.src = m.src /\ r.term = m.term
          /\ r.lastIndex = m.lastIndex /\ r.lastTerm = m.lastTerm
        BY <2>1 DEF SameRequest
    <2>3. VoteFits(r) /\ Solicits(r)
        BY <1>0 DEF LeaderInv, Fits, ElectionInv, MessagesHonest
    <2>4. m.term <= disk[m.src].term
        BY <2>2, <2>3 DEF Solicits
    <2>5. disk[m.src].term \in Nat
        BY <1>0, <1>1, PersistentFields DEF TypeOK
    <2>6. /\ role[m.src] = "candidate" /\ persistent[m.src].term = m.term
          /\ persistent'[m.src].log = persistent[m.src].log
        <3>1. ~(persistent'[m.src].term > disk[m.src].term)
            BY <1>1, <2>4, <2>5
        <3> QED
            BY <1>1, <3>1 DEF MembersStay
    <2> QED
        BY <2>2, <2>3, <2>6 DEF VoteFits, Is
<1> QED
    BY <1>2, <1>3, <1>4 DEF Fits

\* A step that makes no new link.
LEMMA LeaderCarried ==
    ASSUME LeaderInv, MatchInv', InStep', Links' \subseteq Links,
           elected \subseteq elected', MembersStay,
           \A m \in rpcs' : Carried(m) \/ Fits(m)',
           \A n \in Node : LogFits(n)' /\ LeaderFits(n)'
    PROVE  LeaderInv'
<1>1. \A m \in rpcs' : Fits(m)'
    BY FitsCarried
<1>2. LinksOrdered' /\ LinksContiguous'
    BY DEF LeaderInv, LinksOrdered, LinksContiguous
<1> QED
    BY <1>1, <1>2 DEF LeaderInv

\* A member whose log is unchanged.
LEMMA LogFitsKept ==
    ASSUME LeaderInv, ElectionInv', DurableStep, NEW n \in Node,
           persistent'[n].log = persistent[n].log
    PROVE  LogFits(n)'
<1>1. persistent'[n].term >= persistent[n].term
    BY TermsGrow
<1>2. LogFits(n) /\ TypeOK /\ TypeOK'
    BY DEF LeaderInv, MatchInv, ElectionInv, TypeInv
<1>3. persistent[n].term \in Nat /\ persistent'[n].term \in Nat
    BY <1>2, PersistentFields DEF TypeOK
<1>4. \A i \in 1..Len(persistent[n].log) : persistent[n].log[i].term \in Nat
    BY <1>2, MemberTypes
<1> QED
    BY <1>1, <1>2, <1>3, <1>4 DEF LogFits

\* A leader that stays, with its indexes.
LEMMA LeaderFitsKept ==
    ASSUME LeaderInv, MatchInv', NEW n \in Node,
           role'[n] = "leader" =>
              /\ role[n] = "leader" /\ Len(persistent'[n].log) >= Len(persistent[n].log)
              /\ nextIndex'[n] = nextIndex[n] /\ matchIndex'[n] = matchIndex[n]
    PROVE  LeaderFits(n)'
<1>1. TypeOK /\ TypeOK' /\ LeaderFits(n)
    BY DEF LeaderInv, MatchInv, ElectionInv, TypeInv
<1>2. Len(persistent[n].log) \in Nat /\ Len(persistent'[n].log) \in Nat
    BY <1>1, PersistentFields, LenProperties DEF TypeOK
<1>3. \A p \in Node : nextIndex[n][p] \in Nat /\ matchIndex[n][p] \in Nat
    BY <1>1 DEF TypeOK
<1> SUFFICES ASSUME role'[n] = "leader", NEW p \in Node
             PROVE  /\ nextIndex'[n][p] <= Len(persistent'[n].log) + 1
                    /\ matchIndex'[n][p] <= Len(persistent'[n].log)
    BY DEF LeaderFits
<1>4. /\ nextIndex[n][p] <= Len(persistent[n].log) + 1
      /\ matchIndex[n][p] <= Len(persistent[n].log)
    BY <1>1 DEF LeaderFits
<1>5. /\ Len(persistent'[n].log) >= Len(persistent[n].log)
      /\ nextIndex'[n][p] = nextIndex[n][p] /\ matchIndex'[n][p] = matchIndex[n][p]
    OBVIOUS
<1> QED
    BY <1>2, <1>3, <1>4, <1>5

\* A step that changes no log, makes no leader or candidate, and sends no
\* request and no acknowledgement.
Calm ==
    /\ \A o \in Node :
          /\ persistent'[o].log = persistent[o].log
          /\ role'[o] \in {"leader", "candidate"} =>
                role'[o] = role[o] /\ persistent'[o].term = persistent[o].term
    /\ \A m \in rpcs' : Carried(m)

IndexesStay ==
    \A o \in Node : role'[o] = "leader" =>
        nextIndex'[o] = nextIndex[o] /\ matchIndex'[o] = matchIndex[o]

\* Messages that are old, refusals or votes are carried.
LEMMA NoAcksCarried ==
    ASSUME NoAcks, NEW m \in rpcs'
    PROVE  Carried(m)
<1>1. m \in rpcs => SameRequest(m, m)
    BY DEF SameRequest
<1> QED
    BY <1>1 DEF NoAcks, Carried

\* Such a step keeps the invariant.
LEMMA LeaderCalm ==
    ASSUME LeaderInv, MatchInv', DurableStep, InStep', Links' \subseteq Links,
           elected' = elected, Calm, \A n \in Node : LeaderFits(n)'
    PROVE  LeaderInv'
<1>0. ElectionInv'
    BY DEF MatchInv
<1>1. \A n \in Node : LogFits(n)'
    BY <1>0, LogFitsKept DEF Calm
<1>2. MembersStay
    BY DEF Calm, MembersStay, Starts
<1> QED
    BY <1>1, <1>2, LeaderCarried DEF Calm

\* The same when the indexes of leaders are unchanged.
LEMMA IndexesFit ==
    ASSUME LeaderInv, MatchInv', Calm, IndexesStay, NEW n \in Node
    PROVE  LeaderFits(n)'
<1>1. TypeOK
    BY DEF LeaderInv, MatchInv, ElectionInv, TypeInv
<1>2. Len(persistent[n].log) \in Nat /\ persistent'[n].log = persistent[n].log
    BY <1>1, MemberTypes DEF Calm
<1>3. role'[n] = "leader" =>
         /\ role[n] = "leader" /\ Len(persistent'[n].log) >= Len(persistent[n].log)
         /\ nextIndex'[n] = nextIndex[n] /\ matchIndex'[n] = matchIndex[n]
    BY <1>2 DEF Calm, IndexesStay
<1> QED
    BY <1>3, LeaderFitsKept

\* What is kept is also saved, or was there already.
LEMMA StoreInStep ==
    ASSUME TypeOK, InStep, NEW n \in Node, NEW q, Keep(n, q),
           Save(n, q) \/ (UNCHANGED disk /\ q = persistent[n])
    PROVE  InStep'
<1>1. CASE Save(n, q)
    BY <1>1 DEF Keep, Save, InStep
<1>2. CASE UNCHANGED disk /\ q = persistent[n]
    <2>1. persistent' = persistent
        BY <1>2 DEF Keep, TypeOK
    <2> QED
        BY <1>2, <2>1 DEF InStep
<1> QED
    BY <1>1, <1>2

\* Votes, step downs and refused appends are calm.
LEMMA AdoptCalm ==
    ASSUME LeaderInv, NEW n \in Node, NEW m \in rpcs,
           \/ HandleRequestVote(n, m) \/ RejectMismatchedAppend(n, m)
           \/ StepDownOnReply(n, m)
    PROVE  /\ Calm /\ InStep' /\ IndexesStay
           /\ UNCHANGED <<commitIndex, lastApplied, nextIndex, matchIndex, elected, decided>>
<1> DEFINE p == WithTerm(persistent[n], m.term)
<1>0. TypeOK /\ InStep
    BY DEF LeaderInv, MatchInv, ElectionInv, TypeInv
<1>1. PICK q, s \in Persistent : Adopts(n, m, q, s)
    BY <1>0, AdoptingHandlers
<1>2. NoAcks /\ UNCHANGED <<elected, decided>>
    BY <1>0, AdoptingHandlers
<1>3. UNCHANGED <<commitIndex, lastApplied, nextIndex, matchIndex>>
    BY DEF HandleRequestVote, RejectMismatchedAppend, StepDownOnReply
<1>4. Calm
    <2>1. ASSUME NEW o \in Node
          PROVE  /\ persistent'[o] = IF o = n THEN q ELSE persistent[o]
                 /\ \/ role'[o] = "follower"
                    \/ role'[o] = role[o] /\ (o = n => q.term = persistent[n].term)
        BY <1>0, <1>1 DEF Adopts, Keep, TypeOK
    <2>2. q.log = persistent[n].log
        BY <1>1 DEF Adopts
    <2>3. ASSUME NEW o \in Node
          PROVE  /\ persistent'[o].log = persistent[o].log
                 /\ role'[o] \in {"leader", "candidate"} =>
                       role'[o] = role[o] /\ persistent'[o].term = persistent[o].term
        BY <2>1, <2>2
    <2> QED
        BY <1>2, <2>3, NoAcksCarried DEF Calm
<1>5. InStep'
    <2>0. /\ m.term \in Nat /\ m.src \in Node /\ persistent[n] \in Persistent
          /\ persistent[n].term \in Nat
        BY <1>0, RpcFields, MemberTypes DEF TypeOK
    <2>1. (~StepsDown(n, m) /\ m.term >= persistent[n].term) => p = persistent[n]
        BY <2>0, WithTermLater DEF StepsDown
    <2>2. CASE HandleRequestVote(n, m)
        <3> DEFINE granted == /\ CanVoteFor(p, m.src)
                              /\ UpToDate(m.lastTerm, m.lastIndex, p.log)
                   v == [p EXCEPT !.vote = m.src]
                   x == IF granted THEN v ELSE p
        <3>1. /\ Keep(n, x) /\ m.term >= persistent[n].term
              /\ IF StepsDown(n, m) \/ granted THEN Save(n, x) ELSE UNCHANGED disk
            BY <2>2 DEF HandleRequestVote
        <3> HIDE DEF granted, v, p
        <3>2. Save(n, x) \/ (UNCHANGED disk /\ x = persistent[n])
            BY <2>1, <3>1
        <3> HIDE DEF x
        <3> QED
            BY <1>0, <3>1, <3>2, StoreInStep
    <2>3. CASE RejectMismatchedAppend(n, m)
        <3>1. /\ Keep(n, p) /\ m.term >= persistent[n].term
              /\ IF StepsDown(n, m) THEN Save(n, p) ELSE UNCHANGED disk
            BY <2>3 DEF RejectMismatchedAppend
        <3> HIDE DEF p
        <3> QED
            BY <1>0, <2>1, <3>1, StoreInStep
    <2>4. CASE StepDownOnReply(n, m)
        <3>1. Keep(n, p) /\ Save(n, p)
            BY <2>4 DEF StepDownOnReply
        <3> HIDE DEF p
        <3> QED
            BY <1>0, <3>1, StoreInStep
    <2> QED
        BY <2>2, <2>3, <2>4
<1> QED
    BY <1>2, <1>3, <1>4, <1>5 DEF IndexesStay

\* Steps that change no record are calm.
LEMMA IdleCalm ==
    ASSUME LeaderInv, UNCHANGED <<persistent, disk, role>>, NoAcks
    PROVE  Calm /\ InStep'
<1>1. \A m \in rpcs' : Carried(m)
    BY NoAcksCarried
<1>2. InStep'
    BY DEF LeaderInv, InStep
<1> QED
    BY <1>1, <1>2 DEF Calm

\* With disk and memory in step, so is a restart.
LEMMA RestartCalm ==
    ASSUME LeaderInv, NEW n \in Node, Restart(n)
    PROVE  /\ Calm /\ InStep' /\ IndexesStay
           /\ UNCHANGED <<persistent, grants, elected, decided>>
           /\ \A o \in Node : role'[o] = IF o = n THEN "follower" ELSE role[o]
<1>0. TypeOK /\ InStep
    BY DEF LeaderInv, MatchInv, ElectionInv, TypeInv
<1>1. /\ Keep(n, disk[n]) /\ UNCHANGED <<disk, grants, elected, decided>>
      /\ role' = [role EXCEPT ![n] = "follower"]
      /\ nextIndex' = [nextIndex EXCEPT ![n] = [p \in Node |-> 1]]
      /\ matchIndex' = [matchIndex EXCEPT ![n] = [p \in Node |-> 0]]
    BY DEF Restart, BecomeFollower, history
<1>2. persistent' = persistent
    BY <1>0, <1>1 DEF Keep, InStep, TypeOK
<1>3. \A o \in Node : role'[o] = IF o = n THEN "follower" ELSE role[o]
    BY <1>0, <1>1 DEF TypeOK
<1>4. InStep'
    BY <1>0, <1>1, <1>2 DEF InStep
<1>5. IndexesStay
    <2> SUFFICES ASSUME NEW o \in Node, role'[o] = "leader"
                 PROVE  nextIndex'[o] = nextIndex[o] /\ matchIndex'[o] = matchIndex[o]
        BY DEF IndexesStay
    <2>1. o # n
        BY <1>3
    <2> QED
        BY <1>0, <1>1, <2>1 DEF TypeOK
<1>6. ASSUME NEW m \in rpcs' PROVE Carried(m)
    BY <1>0, RestartMessages DEF Carried
<1>7. Calm
    BY <1>2, <1>3, <1>6 DEF Calm
<1> QED
    BY <1>1, <1>2, <1>3, <1>4, <1>5, <1>7

-----------------------------------------------------------------------------
(* The actions.                                                             *)

\* A leader counts an acknowledgement of its term, or moves next_index back.
LEMMA LeaderReplies ==
    ASSUME ~LateReplies, LeaderInv, MatchInv', NEW n \in Node, NEW m \in rpcs,
           AppendSucceeded(n, m) \/ AppendFailed(n, m), NEW o \in Node
    PROVE  LeaderFits(o)'
<1>0. TypeOK /\ TypeOK' /\ LeaderFits(o) /\ LeaderFits(n) /\ AckFits(m)
    BY DEF LeaderInv, MatchInv, ElectionInv, TypeInv, Fits
<1>1. m \in AppendReplies /\ m.type = "appended" /\ m.dst = n /\ m.src \in Node
    BY <1>0, RpcFields DEF AppendSucceeded, AppendFailed, Received, TypeOK
<1>2. UNCHANGED <<persistent, role>> /\ role[n] = "leader"
    BY DEF AppendSucceeded, AppendFailed, durable
<1> DEFINE len == Len(persistent[n].log)
<1>3. len \in Nat /\ Len(persistent[o].log) \in Nat
    BY <1>0, MemberTypes
<1>4. \A p \in Node : /\ nextIndex[n][p] \in Nat /\ matchIndex[n][p] \in Nat
                      /\ nextIndex[n][p] <= len + 1 /\ matchIndex[n][p] <= len
    BY <1>0, <1>2 DEF LeaderFits, TypeOK
<1>5. CASE AppendSucceeded(n, m)
    <2> DEFINE match == m.sentPrev + m.sentLen
               raised == match > matchIndex[n][m.src]
               matches == IF raised THEN [matchIndex[n] EXCEPT ![m.src] = match]
                          ELSE matchIndex[n]
    <2>1. /\ matchIndex' = [matchIndex EXCEPT ![n] = matches]
          /\ nextIndex' = IF raised
                          THEN [nextIndex EXCEPT ![n][m.src] = match + 1] ELSE nextIndex
          /\ m.success
          /\ m.term = persistent[n].term
        BY <1>5 DEF AppendSucceeded
    <2>2. match \in Nat /\ match <= len
        <3>1. m.sentPrev \in Nat /\ m.sentLen \in Nat
            BY <1>1 DEF AppendReplies
        <3> QED
            BY <1>0, <1>1, <1>2, <2>1, <3>1 DEF AckFits, Is
    <2> HIDE DEF match, len
    <2>3. \A p \in Node : matches[p] \in Nat /\ matches[p] <= len
        BY <1>0, <1>1, <1>4, <2>2 DEF TypeOK
    <2>4. \A p \in Node : nextIndex'[n][p] \in {nextIndex[n][p], match + 1}
        BY <1>0, <1>1, <2>1 DEF TypeOK
    <2> HIDE DEF matches
    <2>5. \A p \in Node : nextIndex'[n][p] <= len + 1 /\ matchIndex'[n][p] <= len
        <3>1. matchIndex'[n] = matches
            BY <1>0, <2>1 DEF TypeOK
        <3> QED
            BY <1>3, <1>4, <2>2, <2>3, <2>4, <3>1
    <2>6. o # n => nextIndex'[o] = nextIndex[o] /\ matchIndex'[o] = matchIndex[o]
        BY <1>0, <2>1 DEF TypeOK
    <2> QED
        BY <1>0, <1>2, <2>5, <2>6 DEF LeaderFits, len
<1>6. CASE AppendFailed(n, m)
    <2> DEFINE back == Backtrack(nextIndex[n][m.src], m.conflict)
    <2>1. /\ nextIndex' = [nextIndex EXCEPT ![n][m.src] = back]
          /\ matchIndex' = matchIndex
        BY <1>6 DEF AppendFailed
    <2>2. back \in Nat /\ back <= len + 1
        <3>1. m.conflict \in Nat
            BY <1>1 DEF AppendReplies
        <3>2. nextIndex[n][m.src] \in Nat /\ nextIndex[n][m.src] <= len + 1
            BY <1>1, <1>4
        <3> HIDE DEF len
        <3> QED
            BY <1>3, <3>1, <3>2 DEF Backtrack, PrevIndex
    <2> HIDE DEF back, len
    <2>3. \A p \in Node : nextIndex'[n][p] \in {nextIndex[n][p], back}
        BY <1>0, <1>1, <2>1 DEF TypeOK
    <2>4. \A p \in Node : nextIndex'[n][p] <= len + 1 /\ matchIndex'[n][p] <= len
        BY <1>3, <1>4, <2>1, <2>2, <2>3
    <2>5. o # n => nextIndex'[o] = nextIndex[o] /\ matchIndex'[o] = matchIndex[o]
        BY <1>0, <2>1 DEF TypeOK
    <2> QED
        BY <1>0, <1>2, <2>4, <2>5 DEF LeaderFits, len
<1> QED
    BY <1>5, <1>6

\* What tick sends to a peer: the leader's log from next_index to its end.
LEMMA RequestPiece ==
    ASSUME LeaderInv, NEW n \in Node, role[n] = "leader", NEW p \in Node,
           NEW m, m = AppendRequest(n, p)
    PROVE  /\ m.type = "append" /\ m.src = n /\ m.dst = p
           /\ m.term = persistent[n].term /\ m.commit = commitIndex[n]
           /\ m.prevIndex \in Nat /\ m.entries \in Seq(Entry)
           /\ m.prevIndex + Len(m.entries) = Len(persistent[n].log)
           /\ Piece(m, persistent[n].log)
<1> DEFINE log == persistent[n].log
           next == nextIndex[n][p]
           from == IF next = 0 THEN 1 ELSE next
<1>0. TypeOK /\ LeaderFits(n)
    BY DEF LeaderInv, MatchInv, ElectionInv, TypeInv
<1>1. log \in Seq(Entry) /\ Len(log) \in Nat /\ next \in Nat /\ next <= Len(log) + 1
    BY <1>0, MemberTypes DEF TypeOK, LeaderFits
<1>2. /\ m.type = "append" /\ m.src = n /\ m.dst = p
      /\ m.term = persistent[n].term /\ m.commit = commitIndex[n]
      /\ m.prevIndex = PrevIndex(next) /\ m.prevTerm = TermAt(log, PrevIndex(next))
      /\ m.entries = SubSeq(log, from, Len(log))
    BY DEF AppendRequest, Suffix
<1> HIDE DEF log, next
<1>3. /\ PrevIndex(next) = from - 1 /\ from \in Nat /\ from >= 1 /\ from <= Len(log) + 1
    BY <1>1 DEF PrevIndex
<1>4. /\ Len(m.entries) = Len(log) - from + 1
      /\ \A k \in 1..(Len(log) - from + 1) : m.entries[k] = log[from + k - 1]
      /\ m.entries \in Seq(Entry)
    <2>1. \A i \in from..Len(log) : log[i] \in Entry
        BY <1>1, <1>3
    <2>2. /\ Len(m.entries) = IF from <= Len(log) THEN Len(log) - from + 1 ELSE 0
          /\ \A k \in 1..(Len(log) - from + 1) : m.entries[k] = log[from + k - 1]
          /\ m.entries \in Seq(Entry)
        BY <1>1, <1>2, <1>3, <2>1, SubSeqProperties
    <2> QED
        BY <1>1, <1>3, <2>2
<1> HIDE DEF from
<1>5. m.prevIndex = from - 1 /\ m.prevIndex \in Nat /\ m.prevIndex + Len(m.entries) = Len(log)
    BY <1>1, <1>2, <1>3, <1>4
<1>6. ASSUME NEW k \in 1..Len(m.entries) PROVE m.entries[k] = log[m.prevIndex + k]
    <2>1. k \in 1..(Len(log) - from + 1) /\ from + k - 1 = m.prevIndex + k
        BY <1>1, <1>3, <1>4, <1>5
    <2> QED
        BY <1>4, <2>1
<1>7. m.prevIndex # 0 => m.prevTerm = log[m.prevIndex].term
    <2>1. m.prevIndex # 0 => m.prevIndex \in 1..Len(log)
        BY <1>1, <1>3, <1>5
    <2> QED
        BY <1>2, <2>1 DEF TermAt
<1>8. Piece(m, log)
    BY <1>1, <1>5, <1>6, <1>7 DEF Piece
<1> QED
    BY <1>2, <1>4, <1>5, <1>8 DEF log

\* Heartbeats fit.
LEMMA LeaderHeartbeat ==
    ASSUME LeaderInv, MatchInv', DurableStep, Links' \subseteq Links,
           NEW n \in Node, Heartbeat(n)
    PROVE  /\ LeaderInv'
           /\ \A m \in rpcs' : m \in rpcs \/ \E p \in Node : m = AppendRequest(n, p)
<1>0. TypeOK /\ InStep /\ LogFits(n) /\ role[n] = "leader" /\ ElectionInv'
    BY DEF LeaderInv, MatchInv, ElectionInv, TypeInv, Heartbeat
<1>1. /\ UNCHANGED <<persistent, disk, role, nextIndex, matchIndex, elected>>
      /\ Transmit({}, {AppendRequest(n, p) : p \in Peers(n)})
    BY DEF Heartbeat, durable, volatile, history
<1>2. \A m \in rpcs' : m \in rpcs \/ \E p \in Node : m = AppendRequest(n, p)
    BY <1>1 DEF Transmit, Peers
<1>3. ASSUME NEW m \in rpcs', NEW p \in Node, m = AppendRequest(n, p) PROVE Fits(m)'
    <2>1. /\ m.type = "append" /\ m.src = n /\ m.term = persistent[n].term
          /\ m.prevIndex \in Nat /\ m.entries \in Seq(Entry)
          /\ Piece(m, persistent[n].log)
        BY <1>0, <1>3, RequestPiece
    <2>2. <<m.term, m.src>> \in elected
        BY <1>0, <2>1 DEF LeaderInv, MatchInv, LeaderElected
    <2>3. \A k \in 1..Len(m.entries) : m.entries[k].term <= m.term
        <3>1. Len(m.entries) \in Nat /\ Len(persistent[n].log) \in Nat
            BY <1>0, <2>1, MemberTypes
        <3>2. \A k \in 1..Len(m.entries) : m.prevIndex + k \in 1..Len(persistent[n].log)
            BY <2>1, <3>1 DEF Piece
        <3> QED
            BY <1>0, <2>1, <3>2 DEF Piece, LogFits
    <2> QED
        BY <1>1, <2>1, <2>2, <2>3 DEF Fits, SentFits, AckFits, VoteFits
<1>4. ASSUME NEW m \in rpcs', m \in rpcs PROVE Carried(m)
    BY <1>4 DEF Carried, SameRequest
<1>5. InStep'
    BY <1>0, <1>1 DEF InStep
<1>6. MembersStay
    BY <1>1 DEF MembersStay, Starts
<1>7. \A o \in Node : LogFits(o)'
    BY <1>0, <1>1, LogFitsKept
<1>8. \A o \in Node : LeaderFits(o)'
    BY <1>1 DEF LeaderInv, LeaderFits
<1>9. LeaderInv'
    BY <1>1, <1>2, <1>3, <1>4, <1>5, <1>6, <1>7, <1>8, LeaderCarried
<1> QED
    BY <1>2, <1>9

\* A new candidacy, described by the votes it asks for.
LEMMA LeaderCampaign ==
    ASSUME LeaderInv, MatchInv', DurableStep, Links' \subseteq Links,
           NEW n \in Node, StartElection(n)
    PROVE  /\ LeaderInv'
           /\ \A o \in Node :
                 /\ persistent'[o].log = persistent[o].log
                 /\ o # n => persistent'[o] = persistent[o] /\ role'[o] = role[o]
           /\ role'[n] = "candidate" /\ persistent'[n].term = persistent[n].term + 1
           /\ grants' = grants \cup {<<n, persistent[n].term + 1, n>>}
           /\ UNCHANGED <<commitIndex, lastApplied, nextIndex, matchIndex, elected, decided>>
           /\ \A m \in rpcs' : m \in rpcs \/ m.type = "vote"
<1> DEFINE p == Campaign(persistent[n], n)
<1>0. TypeOK /\ TypeOK' /\ InStep /\ ElectionInv' /\ persistent[n].term \in Nat
    BY MemberTypes DEF LeaderInv, MatchInv, ElectionInv, TypeInv
<1>1. /\ p.term = persistent[n].term + 1 /\ p.log = persistent[n].log
      /\ role' = [role EXCEPT ![n] = "candidate"]
      /\ \A m \in rpcs' : m \in rpcs \/ \E q \in Peers(n) : m = VoteRequest(n, q)
    BY <1>0, Campaigning
<1>2. /\ Keep(n, p) /\ Save(n, p)
      /\ grants' = grants \cup {<<n, p.term, n>>}
      /\ UNCHANGED <<commitIndex, lastApplied, nextIndex, matchIndex, elected, decided>>
    BY DEF StartElection
<1> HIDE DEF p
<1>3. ASSUME NEW o \in Node
      PROVE  /\ persistent'[o] = IF o = n THEN p ELSE persistent[o]
             /\ role'[o] = IF o = n THEN "candidate" ELSE role[o]
    BY <1>0, <1>1, <1>2 DEF Keep, TypeOK
<1>4. InStep'
    BY <1>0, <1>2, StoreInStep
<1>5. MembersStay
    <2>1. p.term > disk[n].term
        BY <1>0, <1>1 DEF InStep
    <2> QED
        BY <1>3, <2>1 DEF MembersStay, Starts
<1>6. ASSUME NEW m \in rpcs', m \in rpcs PROVE Carried(m)
    BY <1>6 DEF Carried, SameRequest
<1>7. ASSUME NEW m \in rpcs', NEW q \in Peers(n), m = VoteRequest(n, q)
      PROVE  Fits(m)' /\ m.type = "vote"
    <2>1. /\ m.type = "vote" /\ m.src = n
          /\ m.lastIndex = LastIndex(persistent'[n].log)
          /\ m.lastTerm = LastTerm(persistent'[n].log)
        BY <1>7 DEF VoteRequest
    <2> QED
        BY <2>1 DEF Fits, SentFits, AckFits, VoteFits, LastIndex
<1>8. \A o \in Node : persistent'[o].log = persistent[o].log
    BY <1>1, <1>3
<1>9. \A o \in Node : LogFits(o)'
    BY <1>0, <1>8, LogFitsKept
<1>10. \A o \in Node : LeaderFits(o)'
    BY <1>2, <1>3, <1>8 DEF LeaderInv, LeaderFits
<1>11. LeaderInv'
    BY <1>1, <1>2, <1>4, <1>5, <1>6, <1>7, <1>9, <1>10, LeaderCarried
<1> QED
    BY <1>1, <1>2, <1>3, <1>7, <1>8, <1>11

\* A vote is counted; with the last one a leader starts with its own log.
LEMMA LeaderCount ==
    ASSUME LeaderInv, MatchInv', DurableStep, Links' \subseteq Links,
           NEW n \in Node, NEW m \in rpcs, CountVote(n, m)
    PROVE  /\ LeaderInv'
           /\ UNCHANGED <<persistent, disk, grants, commitIndex, lastApplied, decided>>
           /\ rpcs' \subseteq rpcs /\ role[n] = "candidate"
           /\ \/ UNCHANGED <<role, nextIndex, matchIndex, elected>>
              \/ /\ elected' = elected \cup {<<persistent[n].term, n>>}
                 /\ \A o \in Node :
                       /\ role'[o] = IF o = n THEN "leader" ELSE role[o]
                       /\ o # n => matchIndex'[o] = matchIndex[o]
<1>0. TypeOK /\ InStep /\ ElectionInv'
    BY DEF LeaderInv, MatchInv, ElectionInv, TypeInv
<1>1. /\ UNCHANGED <<persistent, disk, grants, commitIndex, lastApplied, decided>>
      /\ rpcs' = rpcs \ {m}
      /\ role[n] = "candidate"
      /\ BecomeLeader(n) \/ UNCHANGED <<role, nextIndex, matchIndex, elected>>
    BY DEF CountVote, durable
<1>2. InStep'
    BY <1>0, <1>1 DEF InStep
<1>3. \A r \in rpcs' : Carried(r)
    BY <1>1 DEF Carried, SameRequest
<1>4. \A o \in Node : LogFits(o)'
    BY <1>0, <1>1, LogFitsKept
<1>5. CASE UNCHANGED <<role, nextIndex, matchIndex, elected>>
    <2>1. MembersStay
        BY <1>1, <1>5 DEF MembersStay, Starts
    <2>2. \A o \in Node : LeaderFits(o)'
        BY <1>1, <1>5 DEF LeaderInv, LeaderFits
    <2>3. LeaderInv'
        BY <1>2, <1>3, <1>4, <1>5, <2>1, <2>2, LeaderCarried
    <2> QED
        BY <1>1, <1>5, <2>3
<1>6. CASE BecomeLeader(n)
    <2> DEFINE len == Len(persistent[n].log)
    <2>1. /\ role' = [role EXCEPT ![n] = "leader"]
          /\ elected' = elected \cup {<<persistent[n].term, n>>}
          /\ nextIndex' = [nextIndex EXCEPT ![n] = [p \in Node |-> len + 1]]
          /\ matchIndex' = [matchIndex EXCEPT ![n] = [p \in Node |-> 0]]
        BY <1>6 DEF BecomeLeader, LastIndex
    <2>2. len \in Nat
        BY <1>0, MemberTypes
    <2> HIDE DEF len
    <2>3. ASSUME NEW o \in Node
          PROVE  /\ role'[o] = IF o = n THEN "leader" ELSE role[o]
                 /\ o # n => nextIndex'[o] = nextIndex[o] /\ matchIndex'[o] = matchIndex[o]
        BY <1>0, <2>1 DEF TypeOK
    <2>4. \A p \in Node : nextIndex'[n][p] = len + 1 /\ matchIndex'[n][p] = 0
        BY <1>0, <2>1 DEF TypeOK
    <2>5. MembersStay
        <3>1. <<persistent[n].term, n>> \notin elected
            BY <1>1 DEF LeaderInv, MatchInv, CandidateFresh
        <3> QED
            BY <1>1, <2>3, <3>1 DEF MembersStay, Starts
    <2>6. ASSUME NEW o \in Node PROVE LeaderFits(o)'
        <3>1. CASE o = n
            BY <1>1, <2>2, <2>4, <3>1 DEF LeaderFits, len
        <3>2. CASE o # n
            BY <1>1, <2>3, <3>2 DEF LeaderInv, LeaderFits
        <3> QED
            BY <3>1, <3>2
    <2>7. LeaderInv'
        BY <1>2, <1>3, <1>4, <2>1, <2>5, <2>6, LeaderCarried
    <2> QED
        BY <1>1, <2>1, <2>3, <2>7
<1> QED
    BY <1>1, <1>5, <1>6

\* A reply that acknowledges the entries of m.
Acknowledges(r, m) ==
    /\ r.type = "appended" /\ r.src = m.dst /\ r.dst = m.src /\ r.term = m.term
    /\ r.success /\ r.sentPrev = m.prevIndex /\ r.sentLen = Len(m.entries)

\* What an accepted AppendEntries does.
LEMMA AcceptEffect ==
    ASSUME TypeOK, NEW n \in Node, NEW m \in rpcs, AcceptAppend(n, m)
    PROVE  /\ m.type = "append" /\ m \in AppendRequests /\ m.dst = n /\ m.src \in Node
           /\ m.term \in Nat /\ m.term >= persistent[n].term
           /\ PrevMatches(persistent[n].log, m.prevIndex, m.prevTerm)
           /\ persistent'[n].term = m.term
           /\ persistent'[n].log \in Seq(Entry)
           /\ Merged(persistent[n].log, m.prevIndex, m.entries, persistent'[n].log)
           /\ \A o \in Node : /\ o # n => persistent'[o] = persistent[o]
                              /\ role'[o] = IF o = n THEN "follower" ELSE role[o]
           /\ commitIndex' = [commitIndex EXCEPT ![n] =
                  FollowerCommit(persistent'[n].log, commitIndex[n], m.commit)]
           /\ Observe(persistent'[n].log,
                      FollowerCommit(persistent'[n].log, commitIndex[n], m.commit))
           /\ \A r \in rpcs' : r \in rpcs \/ Acknowledges(r, m)
           /\ UNCHANGED <<lastApplied, nextIndex, matchIndex, grants, elected>>
           /\ InStep => InStep'
<1> DEFINE p == WithTerm(persistent[n], m.term)
           q == [p EXCEPT !.log = MergeEntries(p.log, m.prevIndex, m.entries)]
           reply == AppendReply(m, q.term, TRUE, 0)
<1>1. m.type = "append" /\ m.dst = n /\ m \in AppendRequests /\ m.term \in Nat /\ m.src \in Node
    BY RpcFields DEF AcceptAppend, Received, TypeOK
<1>2. persistent[n] \in Persistent /\ persistent[n].term \in Nat
    BY MemberTypes
<1>3. /\ m.term >= persistent[n].term
      /\ PrevMatches(p.log, m.prevIndex, m.prevTerm)
      /\ Keep(n, q)
      /\ IF StepsDown(n, m) \/ q.log # p.log THEN Save(n, q) ELSE UNCHANGED disk
      /\ role' = [role EXCEPT ![n] = "follower"]
      /\ commitIndex' = [commitIndex EXCEPT ![n] =
                            FollowerCommit(q.log, commitIndex[n], m.commit)]
      /\ Observe(q.log, FollowerCommit(q.log, commitIndex[n], m.commit))
      /\ Answer(m, reply)
      /\ UNCHANGED <<lastApplied, nextIndex, matchIndex, grants, elected>>
    BY DEF AcceptAppend, Follow
<1>4. p \in Persistent /\ p.term = m.term /\ p.log = persistent[n].log
    BY <1>1, <1>2, WithTermType
<1>5. (~StepsDown(n, m) /\ m.term >= persistent[n].term) => p = persistent[n]
    BY <1>1, <1>2, WithTermLater DEF StepsDown
<1>6. reply.type = "appended" /\ reply.src = m.dst /\ reply.dst = m.src /\ reply.term = q.term
      /\ reply.success /\ reply.sentPrev = m.prevIndex /\ reply.sentLen = Len(m.entries)
    BY DEF AppendReply
<1> HIDE DEF p, reply
<1>7. q \in Persistent /\ q.term = m.term /\ q.log = MergeEntries(p.log, m.prevIndex, m.entries)
    BY <1>1, <1>3, <1>4, MergedType
<1>8. q.log = p.log => q = p
    <2>1. [p EXCEPT !.log = p.log] = p
        BY <1>4 DEF Persistent
    <2> QED
        BY <1>7, <2>1
<1> HIDE DEF q
<1>9. q.log \in Seq(Entry) /\ Merged(p.log, m.prevIndex, m.entries, q.log)
    <2>1. /\ p.log \in Seq(Entry) /\ q.log \in Seq(Entry)
          /\ m.entries \in Seq(Entry) /\ m.prevIndex \in Nat
        BY <1>1, <1>4, <1>7, PersistentFields DEF AppendRequests
    <2>2. m.prevIndex <= Len(p.log)
        BY <1>3, <2>1, LenProperties DEF PrevMatches
    <2> QED
        BY <1>7, <2>1, <2>2, MergeShape
<1>10. ASSUME NEW o \in Node
       PROVE  /\ persistent'[o] = IF o = n THEN q ELSE persistent[o]
              /\ role'[o] = IF o = n THEN "follower" ELSE role[o]
    BY <1>3 DEF Keep, TypeOK
<1>11. \A r \in rpcs' : r \in rpcs \/ Acknowledges(r, m)
    <2>1. Acknowledges(reply, m)
        BY <1>6, <1>7 DEF Acknowledges
    <2> QED
        BY <1>3, <2>1, AnswerMessages
<1>12. InStep => InStep'
    <2>1. Save(n, q) \/ (UNCHANGED disk /\ q = persistent[n])
        BY <1>3, <1>5, <1>8
    <2> QED
        BY <1>3, <2>1, StoreInStep
<1> QED
    BY <1>1, <1>3, <1>4, <1>7, <1>9, <1>10, <1>11, <1>12

\* Merged entries come from the log or the message.
LEMMA MergedFrom ==
    ASSUME NEW log \in Seq(Entry), NEW m \in AppendRequests, NEW q \in Seq(Entry),
           Merged(log, m.prevIndex, m.entries, q), NEW i \in 1..Len(q)
    PROVE  \/ i \in 1..Len(log) /\ q[i] = log[i]
           \/ \E k \in 1..Len(m.entries) : q[i] = m.entries[k]
<1>0. /\ m.prevIndex \in Nat /\ m.entries \in Seq(Entry) /\ Len(m.entries) \in Nat
      /\ Len(log) \in Nat /\ Len(q) \in Nat /\ i \in Nat /\ i >= 1 /\ i <= Len(q)
    BY DEF AppendRequests
<1>1. CASE q = log
    BY <1>1
<1>2. ASSUME NEW k \in 1..Len(m.entries),
             Len(q) = m.prevIndex + Len(m.entries),
             m.prevIndex + k - 1 <= Len(log),
             \A j \in 1..(m.prevIndex + k - 1) : q[j] = log[j],
             \A j \in (m.prevIndex + k)..Len(q) : q[j] = m.entries[j - m.prevIndex]
      PROVE  \/ i \in 1..Len(log) /\ q[i] = log[i]
             \/ \E x \in 1..Len(m.entries) : q[i] = m.entries[x]
    <2>0. k \in Nat /\ k >= 1
        BY <1>0
    <2>1. CASE i <= m.prevIndex + k - 1
        <3>1. i \in 1..(m.prevIndex + k - 1) /\ i \in 1..Len(log)
            BY <1>0, <1>2, <2>0, <2>1
        <3> QED
            BY <1>2, <3>1
    <2>2. CASE i >= m.prevIndex + k
        <3>1. i \in (m.prevIndex + k)..Len(q) /\ i - m.prevIndex \in 1..Len(m.entries)
            BY <1>0, <1>2, <2>0, <2>2
        <3> QED
            BY <1>2, <3>1
    <2>3. i <= m.prevIndex + k - 1 \/ i >= m.prevIndex + k
        BY <1>0, <2>0
    <2> QED
        BY <2>1, <2>2, <2>3
<1> QED
    BY <1>1, <1>2 DEF Merged

\* An accepted append keeps terms within the member's, and its
\* acknowledgement fits the leader.
LEMMA LeaderAccept ==
    ASSUME LeaderInv, MatchInv', DurableStep, Links' \subseteq Links,
           NEW n \in Node, NEW m \in rpcs, AcceptAppend(n, m)
    PROVE  LeaderInv'
<1>0. TypeOK /\ InStep /\ ElectionInv' /\ LogFits(n) /\ SentFits(m)
    BY DEF LeaderInv, MatchInv, ElectionInv, TypeInv, Fits
<1>1. /\ m.type = "append" /\ m \in AppendRequests /\ m.dst = n /\ m.src \in Node
      /\ m.term \in Nat /\ m.term >= persistent[n].term
      /\ persistent'[n].term = m.term
      /\ persistent'[n].log \in Seq(Entry)
      /\ Merged(persistent[n].log, m.prevIndex, m.entries, persistent'[n].log)
      /\ \A o \in Node : /\ o # n => persistent'[o] = persistent[o]
                         /\ role'[o] = IF o = n THEN "follower" ELSE role[o]
      /\ \A r \in rpcs' : r \in rpcs \/ Acknowledges(r, m)
      /\ UNCHANGED <<nextIndex, matchIndex, elected>>
      /\ InStep'
    BY <1>0, AcceptEffect
<1>2. MembersStay
    BY <1>1 DEF MembersStay, Starts
<1>3. ASSUME NEW r \in rpcs', r \in rpcs PROVE Carried(r)
    BY <1>3 DEF Carried, SameRequest
<1>4. ASSUME NEW r \in rpcs', Acknowledges(r, m) PROVE Fits(r)'
    <2>1. r.type = "appended" /\ <<r.term, r.dst>> \in elected'
        BY <1>0, <1>1, <1>4 DEF Acknowledges, SentFits
    <2>2. ASSUME Is(r.dst, "leader", r.term)'
          PROVE  r.sentPrev + r.sentLen <= Len(persistent'[r.dst].log)
        <3>1. r.dst = m.src /\ r.term = m.term /\ m.src # n
            BY <1>1, <1>4, <2>2 DEF Acknowledges, Is
        <3>2. Is(m.src, "leader", m.term) /\ persistent'[m.src] = persistent[m.src]
            BY <1>1, <2>2, <3>1 DEF Is
        <3>3. Piece(m, persistent[m.src].log)
            BY <1>0, <1>1, <3>2 DEF SentFits
        <3> QED
            BY <1>4, <3>1, <3>2, <3>3 DEF Piece, Acknowledges
    <2> QED
        BY <2>1, <2>2 DEF Fits, SentFits, AckFits, VoteFits
<1>5. ASSUME NEW o \in Node PROVE LogFits(o)'
    <2>1. CASE o # n
        BY <1>0, <1>1, <2>1, LogFitsKept
    <2>2. CASE o = n
        <3> SUFFICES ASSUME NEW i \in 1..Len(persistent'[n].log)
                     PROVE  persistent'[n].log[i].term <= m.term
            BY <1>1, <2>2 DEF LogFits
        <3>1. /\ persistent[n].log \in Seq(Entry) /\ persistent[n].term \in Nat
              /\ \A x \in 1..Len(persistent[n].log) : persistent[n].log[x].term \in Nat
            BY <1>0, MemberTypes
        <3>2. \/ i \in 1..Len(persistent[n].log) /\ persistent'[n].log[i] = persistent[n].log[i]
              \/ \E k \in 1..Len(m.entries) : persistent'[n].log[i] = m.entries[k]
            BY <1>1, <3>1, MergedFrom
        <3>3. ASSUME i \in 1..Len(persistent[n].log), persistent'[n].log[i] = persistent[n].log[i]
              PROVE  persistent'[n].log[i].term <= m.term
            BY <1>0, <1>1, <3>1, <3>3 DEF LogFits
        <3>4. ASSUME NEW k \in 1..Len(m.entries), persistent'[n].log[i] = m.entries[k]
              PROVE  persistent'[n].log[i].term <= m.term
            BY <1>0, <1>1, <3>4 DEF SentFits
        <3> QED
            BY <3>2, <3>3, <3>4
    <2> QED
        BY <2>1, <2>2
<1>6. ASSUME NEW o \in Node PROVE LeaderFits(o)'
    BY <1>1 DEF LeaderInv, LeaderFits
<1> QED
    BY <1>1, <1>2, <1>3, <1>4, <1>5, <1>6, LeaderCarried

\* A proposal continues the leader's log in its own term.
LEMMA LeaderPropose ==
    ASSUME LeaderInv, MatchInv', NEW n \in Node, NEW v \in Value, Propose(n, v),
           Links' \subseteq Links \cup {NewLink(n, v)}
    PROVE  LeaderInv'
<1> DEFINE log == persistent[n].log
           t == persistent[n].term
           e == [term |-> t, cmd |-> v]
           new == NewLink(n, v)
<1>0. TypeOK /\ TypeOK' /\ InStep /\ LogFits(n)
    BY DEF LeaderInv, MatchInv, ElectionInv, TypeInv
<1>1. /\ e \in Entry /\ log \in Seq(Entry) /\ role[n] = "leader"
      /\ \A o \in Node :
            /\ persistent'[o].term = persistent[o].term
            /\ o # n => persistent'[o] = persistent[o]
            /\ disk'[o] = IF o = n THEN persistent'[n] ELSE disk[o]
      /\ persistent'[n].log = Append(log, e)
      /\ UNCHANGED <<role, rpcs, elected, nextIndex, matchIndex>>
    BY <1>0, ProposeEffect
<1>2. t \in Nat /\ Len(log) \in Nat /\ \A i \in 1..Len(log) : log[i].term \in Nat
    BY <1>0, MemberTypes
<1>3. /\ new.index = Len(log) + 1 /\ new.entry.term = t /\ new.prev = LastTerm(log)
      /\ \A l \in Links' : l \in Links \/ l = new
    BY DEF NewLink
<1>4. /\ Len(persistent'[n].log) = Len(log) + 1
      /\ \A i \in 1..Len(log) : persistent'[n].log[i] = log[i]
      /\ persistent'[n].log[Len(log) + 1] = e
    BY <1>1
<1> HIDE DEF new
<1>5. LastTerm(log) <= t
    BY <1>0, <1>1, <1>2, LastTermIs DEF LogFits
<1>6. \A l \in Links : l.entry.term = t => l \in LogLinks(log)
    BY <1>1 DEF LeaderInv, MatchInv, LeaderHolds
<1>7. ASSUME NEW l \in LogLinks(log) PROVE l.index \in 1..Len(log) /\ l.entry = log[l.index]
    BY <1>1, LogLinkParts DEF LogLinks
<1>8. InStep'
    <2>1. \A o \in Node : disk'[o] = persistent'[o]
        BY <1>0, <1>1 DEF InStep
    <2> QED
        BY <1>0, <2>1 DEF InStep, TypeOK
<1>9. LinksOrdered'
    <2> SUFFICES ASSUME NEW l \in Links' PROVE l.prev <= l.entry.term
        BY DEF LinksOrdered
    <2>1. CASE l \in Links
        BY <2>1 DEF LeaderInv, LinksOrdered
    <2>2. CASE l = new
        BY <1>3, <1>5, <2>2
    <2> QED
        BY <1>3, <2>1, <2>2
<1>10. LinksContiguous'
    <2> SUFFICES ASSUME NEW a \in Links', NEW b \in Links',
                        a.entry.term = b.entry.term, a.index < b.index
                 PROVE  b.prev = b.entry.term
        BY DEF LinksContiguous
    <2>1. CASE a \in Links /\ b \in Links
        BY <2>1 DEF LeaderInv, LinksContiguous
    <2>2. CASE a = new /\ b \in Links
        BY <1>2, <1>3, <1>6, <1>7, <2>2
    <2>3. CASE a \in Links /\ b = new
        <3>1. a.index \in 1..Len(log) /\ log[a.index].term = t
            BY <1>3, <1>6, <1>7, <2>3
        <3>2. LastTerm(log) = log[Len(log)].term /\ Len(log) \in 1..Len(log)
            BY <1>1, <1>2, <3>1, LastTermIs
        <3>3. log[a.index].term <= log[Len(log)].term
            <4>1. a.index <= Len(log) /\ \A l \in LogLinks(log) : l.prev <= l.entry.term
                BY <1>2, <3>1, LinksOfLog
            <4> HIDE DEF log
            <4> QED
                BY <1>1, <3>1, <3>2, <4>1, LogOrdered
        <3>4. LastTerm(log) = t
            BY <1>2, <1>5, <3>1, <3>2, <3>3
        <3> QED
            BY <1>3, <2>3, <3>4
    <2>4. CASE a = new /\ b = new
        BY <1>2, <1>3, <2>4
    <2> QED
        BY <1>3, <2>1, <2>2, <2>3, <2>4
<1>11. MembersStay
    <2>1. Starts(persistent'[n].log, log)
        BY <1>2, <1>4 DEF Starts
    <2>2. \A o \in Node : Starts(persistent'[o].log, persistent[o].log)
        <3>1. \A o \in Node : o # n => Starts(persistent'[o].log, persistent[o].log)
            BY <1>0, <1>1, MemberTypes DEF Starts
        <3> QED
            BY <2>1, <3>1
    <2>3. role[n] # "candidate"
        BY <1>1
    <2> QED
        BY <1>1, <2>2, <2>3 DEF MembersStay
<1>12. \A m \in rpcs' : Fits(m)'
    <2>1. \A m \in rpcs' : Carried(m)
        BY <1>1 DEF Carried, SameRequest
    <2> QED
        BY <1>1, <1>11, <2>1, FitsCarried
<1>13. ASSUME NEW o \in Node PROVE LogFits(o)'
    <2>1. CASE o # n
        BY <1>1, <2>1 DEF LeaderInv, LogFits
    <2>2. CASE o = n
        <3> SUFFICES ASSUME NEW i \in 1..Len(persistent'[n].log)
                     PROVE  persistent'[n].log[i].term <= t
            BY <1>1, <2>2 DEF LogFits
        <3>1. i \in 1..Len(log) \/ i = Len(log) + 1
            BY <1>2, <1>4
        <3>2. CASE i \in 1..Len(log)
            BY <1>0, <1>4, <3>2 DEF LogFits
        <3>3. CASE i = Len(log) + 1
            BY <1>2, <1>4, <3>3
        <3> QED
            BY <3>1, <3>2, <3>3
    <2> QED
        BY <2>1, <2>2
<1>14. ASSUME NEW o \in Node PROVE LeaderFits(o)'
    <2>1. Len(persistent[o].log) \in Nat /\ Len(persistent'[o].log) >= Len(persistent[o].log)
        BY <1>0, <1>1, <1>2, <1>4, MemberTypes
    <2> QED
        BY <1>1, <2>1, LeaderFitsKept
<1> QED
    BY <1>8, <1>9, <1>10, <1>12, <1>13, <1>14 DEF LeaderInv

-----------------------------------------------------------------------------
(* The invariant, while no write has failed.                                *)

\* It holds of a cluster that has never run.
LEMMA LeaderInit == Init => LeaderInv
<1> SUFFICES ASSUME Init PROVE LeaderInv
    OBVIOUS
<1>1. MatchInv /\ InStep
    BY MatchInit DEF Init, InStep
<1>2. ASSUME NEW n \in Node PROVE LogFits(n) /\ LeaderFits(n) /\ LogLinks(persistent[n].log) = {}
    <2>1. persistent[n].log = <<>> /\ role[n] = "follower"
        BY DEF Init
    <2> QED
        BY <2>1 DEF LogFits, LeaderFits, LogLinks
<1>3. Links = {}
    BY <1>1, <1>2 DEF Links, IsLink, Init, InStep
<1>4. LinksOrdered /\ LinksContiguous
    BY <1>3 DEF LinksOrdered, LinksContiguous
<1>5. rpcs = {}
    BY DEF Init
<1> QED
    BY <1>1, <1>2, <1>4, <1>5 DEF LeaderInv

\* A step that changes no log but may raise or lower a leader's indexes.
LEMMA LeaderIdle ==
    ASSUME LeaderInv, MatchInv', DurableStep, Links' \subseteq Links, elected' = elected,
           Calm, InStep', IndexesStay
    PROVE  LeaderInv'
    BY IndexesFit, LeaderCalm

\* Every step keeps it unless a disk write fails.
LEMMA LeaderNext ==
    ASSUME ~LateReplies, LeaderInv, [Next]_vars, faults' = 0
    PROVE  LeaderInv' /\ DurableStep
<1>0. MatchInv' /\ DurableStep /\ ElectionInv' /\ MatchInv /\ TypeOK
    BY MatchNext, ElectionNext DEF LeaderInv, MatchInv, ElectionInv, TypeInv, ElectionStep
<1>1. faults + 1 # 0
    <2>1. faults \in Nat
        BY <1>0 DEF TypeOK
    <2> QED
        BY <2>1
<1>2. ASSUME NEW n \in Node, Consensus(n) PROVE LeaderInv'
    <2>1. CASE StartElection(n)
        BY <1>0, <2>1, MatchCampaign, LeaderCampaign
    <2>2. CASE Heartbeat(n)
        BY <1>0, <2>2, MatchHeartbeat, LeaderHeartbeat
    <2>3. ASSUME NEW m \in rpcs, HandleRpc(n, m) PROVE LeaderInv'
        <3>1. CASE \/ HandleRequestVote(n, m) \/ RejectMismatchedAppend(n, m)
                   \/ StepDownOnReply(n, m)
            <4>1. Links' \subseteq Links
                BY <1>0, <3>1, MatchAdopts
            <4>2. Calm /\ InStep' /\ IndexesStay /\ elected' = elected
                BY <3>1, AdoptCalm
            <4> QED
                BY <1>0, <4>1, <4>2, LeaderIdle
        <3>2. CASE AcceptAppend(n, m)
            BY <1>0, <3>2, MatchMerge, LeaderAccept
        <3>3. CASE CountVote(n, m)
            BY <1>0, <3>3, MatchCount, LeaderCount
        <3>4. CASE \/ RejectStaleVote(n, m) \/ RejectStaleAppend(n, m) \/ IgnoreReply(n, m)
                   \/ AppendSucceeded(n, m) \/ AppendFailed(n, m)
            <4>1. UNCHANGED <<persistent, disk, role, elected>> /\ NoAcks
                BY <3>4, IdleHandlers
            <4>2. Links' \subseteq Links
                BY <1>0, <4>1, MatchIdle
            <4>3. Calm /\ InStep'
                BY <4>1, IdleCalm
            <4>4. CASE \/ RejectStaleVote(n, m) \/ RejectStaleAppend(n, m) \/ IgnoreReply(n, m)
                <5>1. IndexesStay
                    BY <4>4 DEF RejectStaleVote, RejectStaleAppend, IgnoreReply, volatile,
                                IndexesStay
                <5> QED
                    BY <1>0, <4>1, <4>2, <4>3, <5>1, LeaderIdle
            <4>5. CASE AppendSucceeded(n, m) \/ AppendFailed(n, m)
                <5>1. \A o \in Node : LeaderFits(o)'
                    BY <1>0, <4>5, LeaderReplies
                <5> QED
                    BY <1>0, <4>1, <4>2, <4>3, <5>1, LeaderCalm
            <4> QED
                BY <3>4, <4>4, <4>5
        <3>5. ~RecordVoteFails(n, m) /\ ~AppendSaveFails(n, m) /\ ~StepDownFails(n, m)
            BY <1>1 DEF RecordVoteFails, AppendSaveFails, StepDownFails
        <3> QED
            BY <2>3, <3>1, <3>2, <3>3, <3>4, <3>5 DEF HandleRpc
    <2>4. ~StartElectionFails(n)
        BY <1>1 DEF StartElectionFails
    <2> QED
        BY <1>2, <2>1, <2>2, <2>3, <2>4 DEF Consensus
<1>3. ASSUME NEW n \in Node, NEW v \in Value, Propose(n, v) PROVE LeaderInv'
    BY <1>0, <1>3, MatchPropose, LeaderPropose
<1>4. ASSUME NEW n \in Node, TakeCommitted(n) PROVE LeaderInv'
    <2>1. UNCHANGED <<persistent, disk, role, elected>> /\ NoAcks
        BY <1>4, IdleHandlers
    <2>2. Links' \subseteq Links
        BY <1>0, <2>1, MatchIdle
    <2>3. IndexesStay
        BY <1>4 DEF TakeCommitted, IndexesStay
    <2> QED
        BY <1>0, <2>1, <2>2, <2>3, IdleCalm, LeaderIdle
<1>5. ASSUME NEW n \in Node, Restart(n) PROVE LeaderInv'
    <2>1. Links' \subseteq Links
        BY <1>0, <1>5, MatchRestart
    <2> QED
        BY <1>0, <1>5, <2>1, RestartCalm, LeaderIdle
<1>6. CASE UNCHANGED vars
    <2>1. UNCHANGED <<persistent, disk, role, elected, rpcs, nextIndex, matchIndex>>
        BY <1>6 DEF vars, durable, volatile, history
    <2>2. Links' \subseteq Links
        BY <1>0, <2>1, MatchIdle DEF NoAcks
    <2>3. IndexesStay /\ NoAcks
        BY <2>1 DEF IndexesStay, NoAcks
    <2> QED
        BY <1>0, <2>1, <2>2, <2>3, IdleCalm, LeaderIdle
<1> QED
    BY <1>0, <1>2, <1>3, <1>4, <1>5, <1>6 DEF Next
=============================================================================
