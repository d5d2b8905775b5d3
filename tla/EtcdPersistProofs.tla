-------------------------- MODULE EtcdPersistProofs ---------------------------
(***************************************************************************)
(* A crash of an etcd member that interrupts nothing loses nothing, for    *)
(* any keys, values and revisions, with snapshots collected while writes   *)
(* go on, and however often the process dies again while it restores.  It  *)
(* is a theorem of one crash: revisions start over afterwards, and the     *)
(* next crash may lose what the WAL holds.                                 *)
(***************************************************************************)
EXTENDS EtcdPersist, FiniteSetTheorems, SequenceTheorems, TLAPS

-----------------------------------------------------------------------------
(* What replaying a log makes of a key *)

Record == [op : {"put", "delete"}, rev : Nat, key : Key, value : Value \cup {0}]
Call == [op : {"put", "delete"}, step : {"store", "publish"}, key : Key,
         value : Value \cup {0}, rev : Nat]

\* What rows say of the key k: its value, or that there is none.
At(rows, k) == IF k \in DOMAIN rows THEN <<rows[k].value>> ELSE <<>>

\* What a record makes of its key, and whether replay over a snapshot of
\* revision r applies it to k.
After(e) == IF e.op = "put" THEN <<e.value>> ELSE <<>>
Counts(e, r, k) == e.key = k /\ ~(e.rev <= r)

\* Replaying the first n records of s over a snapshot of revision r that says
\* b of k ends with a.
Ends(s, n, r, b, k, a) ==
    \/ \E i \in 1..n : /\ Counts(s[i], r, k) /\ After(s[i]) = a
                       /\ \A j \in (i + 1)..n : ~Counts(s[j], r, k)
    \/ (\A i \in 1..n : ~Counts(s[i], r, k)) /\ a = b

LEMMA AtPut ==
    ASSUME NEW f, NEW k, NEW v, NEW r, NEW x
    PROVE  At(Put(f, k, v, r), x) = IF x = k THEN <<v>> ELSE At(f, x)
BY DEF At, Put

LEMMA AtDelete ==
    ASSUME NEW f, NEW k, NEW x
    PROVE  At(Delete(f, k), x) = IF x = k THEN <<>> ELSE At(f, x)
BY DEF At, Delete

LEMMA KeysPut ==
    ASSUME NEW f, NEW k \in Key, NEW v, NEW r, DOMAIN f \subseteq Key
    PROVE  DOMAIN Put(f, k, v, r) \subseteq Key /\ DOMAIN Delete(f, k) \subseteq Key
BY DEF Put, Delete

LEMMA AtEmpty == DOMAIN Empty = {} /\ \A k : At(Empty, k) = <<>>
BY DEF Empty, At

\* Rows that say the same of every key hold the same values.
LEMMA SameValues ==
    ASSUME NEW f, NEW g, DOMAIN f \subseteq Key, DOMAIN g \subseteq Key,
           \A k \in Key : At(f, k) = At(g, k)
    PROVE  Values(f) = Values(g)
<1>1. \A k \in Key : (k \in DOMAIN f <=> k \in DOMAIN g) /\ (k \in DOMAIN f => f[k].value = g[k].value)
  <2>1. \A x : <<x>> # <<>> /\ <<x>>[1] = x
    OBVIOUS
  <2>2. QED
    BY <2>1 DEF At
<1>2. DOMAIN f = DOMAIN g
  BY <1>1
<1>3. QED
  BY <1>1, <1>2 DEF Values

LEMMA EndsStart ==
    ASSUME NEW s, NEW r, NEW b, NEW k
    PROVE  Ends(s, 0, r, b, k, b)
BY DEF Ends

\* One record more.
LEMMA EndsNext ==
    ASSUME NEW s, NEW n \in Nat, NEW r, NEW b, NEW k, NEW a, Ends(s, n, r, b, k, a)
    PROVE  Ends(s, n + 1, r, b, k, IF Counts(s[n + 1], r, k) THEN After(s[n + 1]) ELSE a)
<1>1. CASE Counts(s[n + 1], r, k)
  <2>1. \A j \in (n + 2)..(n + 1) : FALSE
    OBVIOUS
  <2>2. n + 1 \in 1..(n + 1)
    OBVIOUS
  <2>3. QED
    BY <1>1, <2>1, <2>2 DEF Ends
<1>2. CASE ~Counts(s[n + 1], r, k)
  <2>1. CASE \A i \in 1..n : ~Counts(s[i], r, k)
    <3>1. \A i \in 1..(n + 1) : i \in 1..n \/ i = n + 1
      OBVIOUS
    <3>2. a = b
      BY <2>1 DEF Ends
    <3>3. QED
      BY <1>2, <2>1, <3>1, <3>2 DEF Ends
  <2>2. CASE ~(\A i \in 1..n : ~Counts(s[i], r, k))
    <3>1. PICK i \in 1..n : /\ Counts(s[i], r, k) /\ After(s[i]) = a
                            /\ \A j \in (i + 1)..n : ~Counts(s[j], r, k)
      BY <2>2 DEF Ends
    <3>2. i \in 1..(n + 1) /\ \A j \in (i + 1)..(n + 1) : j \in (i + 1)..n \/ j = n + 1
      OBVIOUS
    <3>3. QED
      BY <1>2, <3>1, <3>2 DEF Ends
  <2>3. QED
    BY <2>1, <2>2
<1>3. QED
  BY <1>1, <1>2

\* Only the records replayed matter.
LEMMA EndsSame ==
    ASSUME NEW s, NEW t, NEW n \in Nat, NEW r, NEW b, NEW k, NEW a,
           \A i \in 1..n : s[i] = t[i], Ends(s, n, r, b, k, a)
    PROVE  Ends(t, n, r, b, k, a)
<1>1. CASE \A i \in 1..n : ~Counts(s[i], r, k)
  BY <1>1 DEF Ends
<1>2. CASE ~(\A i \in 1..n : ~Counts(s[i], r, k))
  <2>1. PICK i \in 1..n : /\ Counts(s[i], r, k) /\ After(s[i]) = a
                          /\ \A j \in (i + 1)..n : ~Counts(s[j], r, k)
    BY <1>2 DEF Ends
  <2>2. \A j \in (i + 1)..n : j \in 1..n
    OBVIOUS
  <2>3. QED
    BY <2>1, <2>2 DEF Ends
<1>3. QED
  BY <1>1, <1>2

\* A log and what it is replayed over determine the outcome.
LEMMA EndsUnique ==
    ASSUME NEW s, NEW n \in Nat, NEW r, NEW b, NEW k, NEW a, NEW c,
           Ends(s, n, r, b, k, a), Ends(s, n, r, b, k, c)
    PROVE  a = c
<1>1. CASE \A i \in 1..n : ~Counts(s[i], r, k)
  BY <1>1 DEF Ends
<1>2. CASE ~(\A i \in 1..n : ~Counts(s[i], r, k))
  <2>1. PICK i \in 1..n : /\ Counts(s[i], r, k) /\ After(s[i]) = a
                          /\ \A j \in (i + 1)..n : ~Counts(s[j], r, k)
    BY <1>2 DEF Ends
  <2>2. PICK j \in 1..n : /\ Counts(s[j], r, k) /\ After(s[j]) = c
                          /\ \A m \in (j + 1)..n : ~Counts(s[m], r, k)
    BY <1>2 DEF Ends
  <2>3. i = j
    <3>1. i < j => j \in (i + 1)..n
      OBVIOUS
    <3>2. j < i => i \in (j + 1)..n
      OBVIOUS
    <3>3. QED
      BY <2>1, <2>2, <3>1, <3>2
  <2>4. QED
    BY <2>1, <2>2, <2>3
<1>3. QED
  BY <1>1, <1>2

LEMMA AppendParts ==
    ASSUME NEW s \in Seq(Record), NEW e \in Record
    PROVE  \A i \in 1..Len(Append(s, e)) :
               Append(s, e)[i] = e \/ (i \in 1..Len(s) /\ Append(s, e)[i] = s[i])
OBVIOUS

\* A published event is the last of the log.
LEMMA LogPublish ==
    ASSUME NEW w \in Seq(Record), NEW q \in Seq(Record), NEW e \in Record
    PROVE  w \o Append(q, e) = (w \o q) \o <<e>>
<1> DEFINE s == w \o Append(q, e)
           t == (w \o q) \o <<e>>
<1>1. s \in Seq(Record) /\ t \in Seq(Record) /\ Len(s) = Len(t)
  OBVIOUS
<1>2. \A i \in 1..Len(t) : s[i] = t[i]
  OBVIOUS
<1>3. QED
  BY <1>1, <1>2, SeqEqual

\* Writing an event moves it within the log.
LEMMA LogMove ==
    ASSUME NEW w \in Seq(Record), NEW q \in Seq(Record), q # <<>>
    PROVE  /\ Append(w, Head(q)) \o Tail(q) = w \o q
           /\ Append(w, Head(q)) \in Seq(Record) /\ Tail(q) \in Seq(Record)
<1>1. Append(w, Head(q)) \in Seq(Record) /\ Tail(q) \in Seq(Record)
  OBVIOUS
<1> DEFINE s == Append(w, Head(q)) \o Tail(q)
           t == w \o q
<1>2. s \in Seq(Record) /\ t \in Seq(Record) /\ Len(s) = Len(t)
  OBVIOUS
<1>3. \A i \in 1..Len(t) : s[i] = t[i]
  OBVIOUS
<1>4. s = t
  BY <1>2, <1>3, SeqEqual
<1>5. QED
  BY <1>1, <1>4

\* What an event at the end of the log does to the outcome.
LEMMA EndsAppend ==
    ASSUME NEW s \in Seq(Record), NEW e \in Record, NEW r, NEW b, NEW k, NEW a,
           Ends(s, Len(s), r, b, k, a)
    PROVE  Ends(Append(s, e), Len(Append(s, e)), r, b, k, IF Counts(e, r, k) THEN After(e) ELSE a)
<1> DEFINE t == Append(s, e)
<1>1. /\ Len(s) \in Nat /\ Len(t) = Len(s) + 1 /\ t[Len(s) + 1] = e
      /\ \A i \in 1..Len(s) : s[i] = t[i]
  OBVIOUS
<1> HIDE DEF t
<1>2. Ends(t, Len(s), r, b, k, a)
  BY <1>1, EndsSame
<1>3. Ends(t, Len(s) + 1, r, b, k, IF Counts(t[Len(s) + 1], r, k) THEN After(t[Len(s) + 1]) ELSE a)
  BY <1>1, <1>2, EndsNext
<1>4. Ends(t, Len(t), r, b, k, IF Counts(e, r, k) THEN After(e) ELSE a)
  BY <1>1, <1>3
<1>5. QED
  BY <1>4 DEF t

\* The last event decides, whatever it is replayed over.
LEMMA EndsLast ==
    ASSUME NEW s \in Seq(Record), NEW e \in Record, NEW r, NEW b, Counts(e, r, e.key)
    PROVE  Ends(Append(s, e), Len(Append(s, e)), r, b, e.key, After(e))
<1> DEFINE t == Append(s, e)
<1>1. Len(t) \in Nat /\ Len(t) \in 1..Len(t) /\ t[Len(t)] = e
  OBVIOUS
<1>2. \A j \in (Len(t) + 1)..Len(t) : FALSE
  BY <1>1
<1> HIDE DEF t
<1>3. Ends(t, Len(t), r, b, e.key, After(e))
  BY <1>1, <1>2 DEF Ends
<1>4. QED
  BY <1>3 DEF t
-----------------------------------------------------------------------------
(* The invariant *)

SnapRev == IF snap = None THEN 0 ELSE snap.rev
SnapRows == IF snap = None THEN Empty ELSE snap.rows

\* The log as it will be: on file, on the channel, and the event of the call
\* that has changed the store.
Event == [op |-> call.op, rev |-> call.rev, key |-> call.key, value |-> call.value]
Told == (wal \o queue) \o (IF call.step = "publish" THEN <<Event>> ELSE <<>>)

\* The log over these rows of revision r is what the store says of k.
Leaves(r, b, k) == Ends(Told, Len(Told), r, b, k, At(current, k))

Drafting == draft # None

FirstType ==
    /\ phase = "up" /\ cursor = 0 /\ claim = NoClaim
    /\ rev \in Nat /\ DOMAIN current \subseteq Key
    /\ call \in Call \cup {Idle} /\ call.rev <= rev
    /\ wal \in Seq(Record) /\ queue \in Seq(Record)
    /\ snap # None => snap.rev \in Nat /\ snap.rev <= rev /\ DOMAIN snap.rows \subseteq Key
    /\ Drafting =>
           /\ draft = [state |-> "rows", rev |-> draft.rev, rows |-> draft.rows, left |-> draft.left]
           /\ draft.rev \in Nat /\ draft.rev <= rev
           /\ draft.left \subseteq Key /\ DOMAIN draft.rows \subseteq Key \ draft.left

\* In the first life of the store, while no event was lost and no snapshot
\* split a call.  A call about to change the store has a revision that no
\* snapshot covers.  The last conjunct speaks of rows yet to be collected
\* too: for them, nothing since the snapshot's revision contradicts the store.
FirstLife ==
    /\ \A i \in 1..Len(Told) : Told[i].rev <= rev
    /\ call.step = "store" => ~(call.rev <= SnapRev) /\ (Drafting => ~(call.rev <= draft.rev))
    /\ \A k \in Key : Leaves(SnapRev, At(SnapRows, k), k)
    /\ Drafting => \A k \in Key :
           Leaves(draft.rev, IF k \in draft.left THEN At(current, k) ELSE At(draft.rows, k), k)

\* After the crash: what it left behind is in the files until the store
\* serves again, and in the store until the next call.
InFiles ==
    /\ wal \in Seq(Record) /\ DOMAIN SnapRows \subseteq Key
    /\ \E rows : /\ DOMAIN rows \subseteq Key /\ claim.values = Values(rows)
                 /\ \A k \in Key :
                        Ends(wal, Len(wal), SnapRev, At(SnapRows, k), k, At(rows, k))

Restoring ==
    /\ cursor \in 0..Len(wal) /\ DOMAIN current \subseteq Key
    /\ \A k \in Key : Ends(wal, cursor, SnapRev, At(SnapRows, k), k, At(current, k))

SecondLife ==
    claim.known =>
        /\ call = Idle /\ queue = <<>>
        /\ phase \in {"up", "down", "replay"}
        /\ phase # "up" => InFiles
        /\ phase = "down" => cursor = 0
        /\ phase = "replay" => Restoring
        /\ phase = "up" => Values(current) = claim.values

First == crashes = 0 /\ FirstType /\ ((lost = {} /\ ~overlapped) => FirstLife)
Second == crashes = 1 /\ SecondLife
PersistInv == First \/ Second

-----------------------------------------------------------------------------
(* The first life *)

LEMMA EventTyped ==
    ASSUME call \in Call
    PROVE  Event \in Record /\ Event.key = call.key /\ Event.rev = call.rev
BY DEF Event, Call, Record

LEMMA ToldTyped ==
    ASSUME FirstType
    PROVE  Told \in Seq(Record) /\ Len(Told) \in Nat
<1>1. call.step = "publish" => Event \in Record
  BY EventTyped DEF FirstType, Idle
<1>2. wal \o queue \in Seq(Record)
  BY DEF FirstType
<1>3. QED
  BY <1>1, <1>2 DEF Told

LEMMA PersistInit == Init => PersistInv
<1> SUFFICES ASSUME Init PROVE First
  BY DEF PersistInv
<1>1. /\ phase = "up" /\ cursor = 0 /\ claim = NoClaim /\ rev = 1 /\ current = Empty
      /\ call = Idle /\ queue = <<>> /\ draft = None /\ wal = <<>> /\ snap = None /\ crashes = 0
  BY DEF Init
<1>2. FirstType
  BY <1>1, AtEmpty DEF FirstType, Idle, Drafting
<1>3. FirstLife
  <2>1. Told = <<>> /\ Len(<<>>) = 0
    BY <1>1 DEF Told, Idle
  <2>2. \A k : Leaves(SnapRev, At(SnapRows, k), k)
    BY <1>1, <2>1, EndsStart DEF Leaves, SnapRows
  <2>3. QED
    BY <1>1, <2>1, <2>2 DEF FirstLife, Idle, Drafting
<1>4. QED
  BY <1>1, <1>2, <1>3 DEF First

LEMMA TakeStep ==
    ASSUME First, NEW op \in {"put", "delete"}, NEW k \in Key, NEW v \in Value \cup {0},
           TakeRevision(op, k, v)
    PROVE  First'
<1>1. /\ call = Idle /\ rev' = rev + 1 /\ claim' = NoClaim
      /\ call' = [op |-> op, step |-> "store", key |-> k, value |-> v, rev |-> rev + 1]
      /\ UNCHANGED <<phase, cursor, current, queue, draft, wal, snap, crashes, lost, overlapped>>
  BY DEF TakeRevision, files
<1>2. rev \in Nat
  BY DEF First, FirstType
<1>3. FirstType'
  <2>1. call' \in Call
    BY <1>1, <1>2 DEF Call
  <2>2. QED
    BY <1>1, <1>2, <2>1 DEF First, FirstType, Drafting
<1>4. ASSUME FirstLife PROVE FirstLife'
  <2>1. Told' = Told
    BY <1>1 DEF Told, Idle
  <2>3. \A i \in 1..Len(Told) : Told[i].rev <= rev + 1
    <3>1. \A i \in 1..Len(Told) : Told[i] \in Record
      BY ToldTyped DEF First
    <3>2. QED
      BY <1>2, <1>4, <3>1 DEF FirstLife, Record
  <2>4. ~(rev + 1 <= SnapRev) /\ (Drafting => ~(rev + 1 <= draft.rev))
    BY <1>2 DEF SnapRev, First, FirstType
  <2>5. /\ \A x \in Key : Leaves(SnapRev, At(SnapRows, x), x)'
        /\ Drafting => \A x \in Key :
               Leaves(draft.rev, IF x \in draft.left THEN At(current, x) ELSE At(draft.rows, x), x)'
    BY <1>1, <1>4, <2>1 DEF FirstLife, Leaves, At, SnapRev, SnapRows
  <2>6. QED
    BY <1>1, <2>1, <2>3, <2>4, <2>5 DEF FirstLife, SnapRev, SnapRows, Drafting, At
<1>5. QED
  BY <1>1, <1>3, <1>4 DEF First

\* The change and the event that will be logged for it come together.
LEMMA StoreStep ==
    ASSUME First, StoreChange
    PROVE  First'
<1> DEFINE c == call.key
           nothing == call.op = "delete" /\ c \notin DOMAIN current
<1>1. /\ call.step = "store"
      /\ current' = IF call.op = "put" THEN Put(current, c, call.value, call.rev)
                    ELSE Delete(current, c)
      /\ call' = IF nothing THEN Idle ELSE [call EXCEPT !.step = "publish"]
      /\ UNCHANGED <<phase, cursor, rev, queue, draft, wal, snap, crashes, lost, overlapped, claim>>
  BY DEF StoreChange, files
<1>2. call \in Call /\ rev \in Nat
  BY <1>1 DEF First, FirstType, Idle
<1>3. /\ c \in Key /\ call.rev \in Nat /\ call.op \in {"put", "delete"}
      /\ call = [op |-> call.op, step |-> "store", key |-> c, value |-> call.value, rev |-> call.rev]
  BY <1>1, <1>2 DEF Call
<1>4. \A x : At(current', x) = IF x = c THEN After(call) ELSE At(current, x)
  BY <1>1, <1>3, AtPut, AtDelete DEF After
<1>5. FirstType'
  <2>1. DOMAIN current' \subseteq Key
    BY <1>1, <1>3, KeysPut DEF First, FirstType
  <2>2. call' \in Call \cup {Idle} /\ call'.rev <= rev
    <3>1. CASE nothing
      BY <1>1, <1>2, <3>1 DEF Idle
    <3>2. CASE ~nothing
      <4>1. call' = [op |-> call.op, step |-> "publish", key |-> c, value |-> call.value, rev |-> call.rev]
        BY <1>1, <1>3, <3>2
      <4>2. call.value \in Value \cup {0}
        BY <1>2 DEF Call
      <4>3. QED
        BY <1>3, <4>1, <4>2 DEF Call, First, FirstType
    <3>3. QED
      BY <3>1, <3>2
  <2>3. QED
    BY <1>1, <2>1, <2>2 DEF First, FirstType, Drafting
<1>6. ASSUME FirstLife, nothing PROVE FirstLife'
  <2>1. Told' = Told
    BY <1>1, <1>6 DEF Told, Idle
  <2>2. \A x : At(current, x)' = At(current, x)
    <3>1. At(current, c) = <<>> /\ After(call) = <<>>
      BY <1>6 DEF At, After
    <3>2. \A x : At(current', x) = At(current, x)
      BY <1>4, <3>1
    <3>3. QED
      BY <3>2 DEF At
  <2>3. call'.step # "store"
    BY <1>1, <1>6 DEF Idle
  <2>4. /\ \A x \in Key : Leaves(SnapRev, At(SnapRows, x), x)'
        /\ Drafting => \A x \in Key :
               Leaves(draft.rev, IF x \in draft.left THEN At(current, x) ELSE At(draft.rows, x), x)'
    <3>1. SnapRev' = SnapRev /\ \A x : At(SnapRows, x)' = At(SnapRows, x) /\ At(draft.rows, x)' = At(draft.rows, x)
      BY <1>1 DEF SnapRev, SnapRows, At
    <3> HIDE DEF c, nothing
    <3>2. QED
      BY <1>1, <1>6, <2>1, <2>2, <3>1 DEF FirstLife, Leaves
  <2>5. QED
    BY <1>1, <1>6, <2>1, <2>3, <2>4 DEF FirstLife, Drafting
<1>7. ASSUME FirstLife, ~nothing PROVE FirstLife'
  <2> DEFINE e == Event
  <2>1. e \in Record /\ e.key = c /\ e.rev = call.rev /\ After(e) = After(call)
    BY <1>2, EventTyped DEF Event, After
  <2>2. Told \in Seq(Record) /\ Told = wal \o queue
    BY <1>1, ToldTyped DEF First, FirstType, Told
  <2>3. Told' = Append(Told, e) /\ call'.step # "store"
    <3>1. call' = [op |-> call.op, step |-> "publish", key |-> c, value |-> call.value, rev |-> call.rev]
      BY <1>1, <1>3, <1>7
    <3>2. Event' = e
      BY <3>1 DEF Event
    <3>3. Told' = (wal \o queue) \o <<e>>
      BY <1>1, <3>1, <3>2 DEF Told
    <3>4. QED
      BY <2>1, <2>2, <3>1, <3>3
  <2> HIDE DEF e, c, nothing
  <2>4. ASSUME NEW r, NEW b, NEW b2, NEW x \in Key, ~(call.rev <= r), Leaves(r, b, x), x # c => b2 = b
        PROVE  Ends(Append(Told, e), Len(Append(Told, e)), r, b2, x, At(current', x))
    <3>1. CASE x = c
      <4>1. Counts(e, r, e.key)
        BY <2>1, <2>4 DEF Counts
      <4>2. QED
        BY <1>4, <2>1, <2>2, <3>1, <4>1, EndsLast
    <3>2. CASE x # c
      <4>1. ~Counts(e, r, x)
        BY <2>1, <3>2 DEF Counts
      <4>2. Ends(Told, Len(Told), r, b2, x, At(current, x))
        BY <2>4, <3>2 DEF Leaves
      <4>3. QED
        BY <1>4, <2>1, <2>2, <3>2, <4>1, <4>2, EndsAppend
    <3>3. QED
      BY <3>1, <3>2
  <2>5. \A x \in Key : Leaves(SnapRev, At(SnapRows, x), x)'
    <3>1. \A x \in Key : Ends(Append(Told, e), Len(Append(Told, e)), SnapRev, At(SnapRows, x), x, At(current', x))
      BY <1>1, <1>7, <2>4 DEF FirstLife
    <3>2. QED
      BY <1>1, <2>3, <3>1 DEF Leaves, SnapRev, SnapRows, At
  <2>6. Drafting => \A x \in Key :
            Leaves(draft.rev, IF x \in draft.left THEN At(current, x) ELSE At(draft.rows, x), x)'
    <3> SUFFICES ASSUME Drafting, NEW x \in Key
                 PROVE  Leaves(draft.rev, IF x \in draft.left THEN At(current, x) ELSE At(draft.rows, x), x)'
      OBVIOUS
    <3> DEFINE b == IF x \in draft.left THEN At(current, x) ELSE At(draft.rows, x)
               b2 == IF x \in draft.left THEN At(current', x) ELSE At(draft.rows, x)
    <3>1. x # c => b2 = b
      BY <1>4
    <3>2. Leaves(draft.rev, b, x) /\ ~(call.rev <= draft.rev)
      BY <1>1, <1>7 DEF FirstLife
    <3> HIDE DEF b, b2
    <3>3. Ends(Append(Told, e), Len(Append(Told, e)), draft.rev, b2, x, At(current', x))
      BY <2>4, <3>1, <3>2
    <3>4. QED
      BY <1>1, <2>3, <3>3 DEF Leaves, At, b2
  <2>7. \A i \in 1..Len(Append(Told, e)) : Append(Told, e)[i].rev <= rev
    <3>1. e.rev <= rev
      BY <2>1 DEF First, FirstType
    <3>2. \A i \in 1..Len(Append(Told, e)) : Append(Told, e)[i] = e \/ (i \in 1..Len(Told) /\ Append(Told, e)[i] = Told[i])
      BY <2>1, <2>2, AppendParts
    <3>3. QED
      BY <1>7, <3>1, <3>2 DEF FirstLife
  <2>8. QED
    BY <1>1, <2>3, <2>5, <2>6, <2>7 DEF FirstLife, Drafting
<1>8. QED
  BY <1>1, <1>5, <1>6, <1>7 DEF First

\* Once an event is lost, or a snapshot has split a call, nothing is claimed.
LEMMA LossStep ==
    ASSUME First, FirstType', lost' # {} \/ overlapped', crashes' = crashes
    PROVE  First'
BY DEF First

\* Steps that keep what is told, the store and the snapshots.
LEMMA SameStep ==
    ASSUME First, FirstType', Told' = Told, call'.step = "store" => call' = call,
           UNCHANGED <<rev, current, draft, snap, crashes, lost, overlapped>>
    PROVE  First'
<1>1. ASSUME FirstLife PROVE FirstLife'
  <2>1. /\ SnapRev' = SnapRev
        /\ \A x : /\ At(SnapRows, x)' = At(SnapRows, x) /\ At(draft.rows, x)' = At(draft.rows, x)
                  /\ At(current, x)' = At(current, x)
    BY DEF SnapRev, SnapRows, At
  <2>2. \A x \in Key : Leaves(SnapRev, At(SnapRows, x), x)'
    BY <1>1, <2>1 DEF FirstLife, Leaves
  <2>3. Drafting => \A x \in Key :
            Leaves(draft.rev, IF x \in draft.left THEN At(current, x) ELSE At(draft.rows, x), x)'
    BY <1>1, <2>1 DEF FirstLife, Leaves
  <2>4. QED
    BY <1>1, <2>1, <2>2, <2>3 DEF FirstLife, Drafting
<1>2. QED
  BY <1>1 DEF First

LEMMA PublishStep ==
    ASSUME First, Publish
    PROVE  First'
<1> DEFINE full == Len(queue) = Cap
<1>1. /\ call.step = "publish" /\ call' = Idle
      /\ queue' = IF ~subscribed THEN queue
                  ELSE Append(IF full THEN Tail(queue) ELSE queue, Event)
      /\ lost' = lost \cup (IF ~subscribed THEN {"early"} ELSE IF full THEN {"lag"} ELSE {})
      /\ UNCHANGED <<phase, cursor, rev, current, draft, wal, snap, crashes, overlapped, claim>>
  BY DEF Publish, store, files, Event
<1>2. Event \in Record /\ queue \in Seq(Record) /\ wal \in Seq(Record) /\ rev \in Nat
  BY <1>1, EventTyped DEF First, FirstType, Idle
<1>3. FirstType'
  <2>1. full => Tail(queue) \in Seq(Record)
    <3>1. full => queue # <<>>
      BY PersistAssumption
    <3>2. QED
      BY <1>2, <3>1
  <2>2. queue' \in Seq(Record)
    BY <1>1, <1>2, <2>1
  <2>3. QED
    BY <1>1, <1>2, <2>2 DEF First, FirstType, Drafting, Idle
<1>4. CASE lost' # {}
  BY <1>1, <1>3, <1>4, LossStep
<1>5. CASE lost' = {}
  <2>1. queue' = Append(queue, Event) /\ lost' = lost
    BY <1>1, <1>5
  <2>2. Told' = wal \o Append(queue, Event)
    <3>1. wal \o Append(queue, Event) \in Seq(Record)
      BY <1>2
    <3>2. Told' = (wal \o Append(queue, Event)) \o <<>>
      BY <1>1, <2>1 DEF Told, Idle
    <3>3. QED
      BY <3>1, <3>2
  <2>3. Told = (wal \o queue) \o <<Event>>
    BY <1>1 DEF Told
  <2>4. wal \o Append(queue, Event) = (wal \o queue) \o <<Event>>
    BY <1>2, LogPublish
  <2>5. QED
    BY <1>1, <1>3, <2>1, <2>2, <2>3, <2>4, SameStep DEF Idle
<1>6. QED
  BY <1>4, <1>5

LEMMA WriterStep ==
    ASSUME First, WriterAppend \/ WriterFails
    PROVE  First'
<1>1. /\ queue # <<>> /\ queue' = Tail(queue)
      /\ UNCHANGED <<phase, cursor, rev, current, call, draft, snap, crashes, overlapped, claim>>
  BY DEF WriterAppend, WriterFails, store, files
<1>2. queue \in Seq(Record) /\ wal \in Seq(Record)
  BY DEF First, FirstType
<1>3. CASE WriterAppend
  <2>1. wal' = Append(wal, Head(queue)) /\ lost' = lost
    BY <1>3 DEF WriterAppend
  <2>2. wal' \o queue' = wal \o queue /\ wal' \in Seq(Record) /\ queue' \in Seq(Record)
    BY <1>1, <1>2, <2>1, LogMove
  <2>3. Told' = Told
    BY <1>1, <2>2 DEF Told, Event
  <2>4. FirstType'
    BY <1>1, <2>2 DEF First, FirstType, Drafting
  <2>5. QED
    BY <1>1, <2>1, <2>3, <2>4, SameStep
<1>4. CASE WriterFails
  <2>1. wal' = wal /\ lost' # {}
    BY <1>4 DEF WriterFails, files
  <2>2. queue' \in Seq(Record)
    BY <1>1, <1>2
  <2>3. FirstType'
    BY <1>1, <2>1, <2>2 DEF First, FirstType, Drafting
  <2>4. QED
    BY <1>1, <2>1, <2>3, LossStep
<1>5. QED
  BY <1>3, <1>4

LEMMA SubscribeStep ==
    ASSUME First, Subscribe \/ UNCHANGED vars
    PROVE  First'
<1>1. UNCHANGED <<phase, cursor, rev, current, call, queue, draft, wal, snap, crashes, lost,
                  overlapped, claim>>
  BY DEF Subscribe, vars, store, files
<1>2. FirstType'
  BY <1>1 DEF First, FirstType, Drafting
<1>3. Told' = Told
  BY <1>1 DEF Told, Event
<1>4. QED
  BY <1>1, <1>2, <1>3, SameStep

\* A snapshot that begins between two calls covers all that was told.
LEMMA SnapRevisionStep ==
    ASSUME First, SnapRevision
    PROVE  First'
<1>1. /\ draft = None /\ overlapped' = (overlapped \/ call.step = "store")
      /\ draft' = [state |-> "rows", rev |-> rev, rows |-> Empty, left |-> Key]
      /\ UNCHANGED <<phase, cursor, rev, current, call, queue, wal, snap, crashes, lost, claim>>
  BY DEF SnapRevision, store, files
<1>2. rev \in Nat /\ draft' # None /\ draft'.rev = rev /\ draft'.left = Key /\ draft'.rows = Empty
  <2>1. draft'.state # None.state
    BY <1>1 DEF None
  <2>2. QED
    BY <1>1, <2>1 DEF First, FirstType
<1>3. FirstType'
  <2>1. (Drafting => /\ draft = [state |-> "rows", rev |-> draft.rev, rows |-> draft.rows, left |-> draft.left]
                     /\ draft.rev \in Nat /\ draft.rev <= rev
                     /\ draft.left \subseteq Key /\ DOMAIN draft.rows \subseteq Key \ draft.left)'
    BY <1>1, <1>2, AtEmpty
  <2>2. QED
    BY <1>1, <2>1 DEF First, FirstType
<1>4. CASE call.step = "store"
  BY <1>1, <1>3, <1>4, LossStep
<1>5. CASE call.step # "store"
  <2>1. ~overlapped' => ~overlapped
    BY <1>1, <1>5
  <2>2. Told' = Told
    BY <1>1 DEF Told, Event
  <2>3. ASSUME FirstLife PROVE FirstLife'
    <3>1. \A x \in Key : Leaves(rev, At(current, x), x)
      BY <2>3 DEF FirstLife, Leaves, Ends, Counts
    <3>2. \A x \in Key : Leaves(draft.rev, IF x \in draft.left THEN At(current, x) ELSE At(draft.rows, x), x)'
      BY <1>1, <1>2, <2>2, <3>1 DEF Leaves, At
    <3>3. \A x \in Key : Leaves(SnapRev, At(SnapRows, x), x)'
      <4>1. SnapRev' = SnapRev /\ \A x : At(SnapRows, x)' = At(SnapRows, x) /\ At(current, x)' = At(current, x)
        BY <1>1 DEF SnapRev, SnapRows, At
      <4>2. QED
        BY <2>2, <2>3, <4>1 DEF FirstLife, Leaves
    <3>4. QED
      BY <1>1, <1>5, <2>2, <2>3, <3>2, <3>3 DEF FirstLife
  <2>4. QED
    BY <1>1, <1>3, <2>1, <2>3 DEF First
<1>6. QED
  BY <1>4, <1>5

LEMMA DraftExcept ==
    ASSUME NEW r, NEW f, NEW l, NEW g, NEW m,
           NEW d, d = [state |-> "rows", rev |-> r, rows |-> f, left |-> l]
    PROVE  [d EXCEPT !.left = m, !.rows = g] = [state |-> "rows", rev |-> r, rows |-> g, left |-> m]
<1> DEFINE e == [d EXCEPT !.left = m, !.rows = g]
           f2 == [state |-> "rows", rev |-> r, rows |-> g, left |-> m]
<1>1. e = [x \in DOMAIN d |-> IF x = "rows" THEN g ELSE IF x = "left" THEN m ELSE d[x]]
  OBVIOUS
<1>2. DOMAIN d = {"state", "rev", "rows", "left"} /\ d["state"] = "rows" /\ d["rev"] = r
  OBVIOUS
<1>3. f2 = [x \in {"state", "rev", "rows", "left"} |-> f2[x]]
  OBVIOUS
<1>4. f2["state"] = "rows" /\ f2["rev"] = r /\ f2["rows"] = g /\ f2["left"] = m
  OBVIOUS
<1> HIDE DEF e, f2
<1>5. e = f2
  BY <1>1, <1>2, <1>3, <1>4
<1>6. QED
  BY <1>5 DEF e, f2

LEMMA SnapRowStep ==
    ASSUME First, NEW k \in Key, SnapRow(k)
    PROVE  First'
<1> DEFINE rows == IF k \in DOMAIN current
                   THEN Put(draft.rows, k, current[k].value, current[k].mod) ELSE draft.rows
<1>1. /\ draft.state = "rows" /\ k \in draft.left
      /\ draft' = [draft EXCEPT !.left = @ \ {k}, !.rows = rows]
      /\ UNCHANGED <<phase, cursor, rev, current, call, queue, wal, snap, crashes, lost, overlapped, claim>>
  BY DEF SnapRow, store, files
<1>2. Drafting
  BY <1>1 DEF Drafting, None
<1>3. /\ draft = [state |-> "rows", rev |-> draft.rev, rows |-> draft.rows, left |-> draft.left]
      /\ draft.rev \in Nat /\ draft.rev <= rev
      /\ draft.left \subseteq Key /\ DOMAIN draft.rows \subseteq Key \ draft.left
  BY <1>2 DEF First, FirstType
<1>4. At(rows, k) = At(current, k) /\ \A x : x # k => At(rows, x) = At(draft.rows, x)
  <2>1. CASE k \in DOMAIN current
    <3>1. At(current, k) = <<current[k].value>>
      BY <2>1 DEF At
    <3>2. QED
      BY <2>1, <3>1, AtPut
  <2>2. CASE k \notin DOMAIN current
    BY <1>1, <1>3, <2>2 DEF At
  <2>3. QED
    BY <2>1, <2>2
<1>5. DOMAIN rows \subseteq Key \ (draft.left \ {k})
  BY <1>3 DEF Put
<1> HIDE DEF rows
<1>6. draft' = [state |-> "rows", rev |-> draft.rev, rows |-> rows, left |-> draft.left \ {k}]
  BY <1>1, <1>3, DraftExcept
<1>7. draft'.rev = draft.rev /\ draft'.rows = rows /\ draft'.left = draft.left \ {k}
  BY <1>6
<1>8. FirstType'
  <2>1. (Drafting => /\ draft = [state |-> "rows", rev |-> draft.rev, rows |-> draft.rows, left |-> draft.left]
                     /\ draft.rev \in Nat /\ draft.rev <= rev
                     /\ draft.left \subseteq Key /\ DOMAIN draft.rows \subseteq Key \ draft.left)'
    <3>1. draft' = [state |-> "rows", rev |-> draft'.rev, rows |-> draft'.rows, left |-> draft'.left]
      BY <1>6, <1>7
    <3>2. QED
      BY <1>1, <1>3, <1>5, <1>7, <3>1
  <2>2. QED
    BY <1>1, <2>1 DEF First, FirstType
<1>9. Told' = Told
  BY <1>1 DEF Told, Event
<1>10. ASSUME FirstLife PROVE FirstLife'
  <2>1. SnapRev' = SnapRev /\ \A x : At(SnapRows, x)' = At(SnapRows, x) /\ At(current, x)' = At(current, x)
    BY <1>1 DEF SnapRev, SnapRows, At
  <2>2. \A x \in Key : Leaves(SnapRev, At(SnapRows, x), x)'
    BY <1>9, <1>10, <2>1 DEF FirstLife, Leaves
  <2>3. \A x \in Key : (IF x \in draft.left THEN At(current, x) ELSE At(draft.rows, x))
                       = IF x \in draft.left \ {k} THEN At(current, x) ELSE At(rows, x)
    BY <1>1, <1>4
  <2>4. \A x \in Key : Leaves(draft.rev, IF x \in draft.left \ {k} THEN At(current, x) ELSE At(rows, x), x)
    BY <1>2, <1>10, <2>3 DEF FirstLife
  <2>5. \A x \in Key : Leaves(draft.rev, IF x \in draft.left THEN At(current, x) ELSE At(draft.rows, x), x)'
    <3>1. \A x : At(draft.rows, x)' = At(rows, x)
      BY <1>7 DEF At
    <3>2. QED
      BY <1>7, <1>9, <2>1, <2>4, <3>1 DEF Leaves
  <2>6. call'.step = "store" => ~(call'.rev <= SnapRev') /\ ~(call'.rev <= draft'.rev)
    BY <1>1, <1>2, <1>7, <1>10, <2>1 DEF FirstLife
  <2>7. QED
    BY <1>1, <1>9, <1>10, <2>2, <2>5, <2>6 DEF FirstLife
<1>11. QED
  BY <1>1, <1>8, <1>10 DEF First

\* A complete draft becomes the snapshot.
LEMMA SnapRenameStep ==
    ASSUME First, SnapRename
    PROVE  First'
<1>1. /\ draft.state = "rows" /\ draft.left = {} /\ draft' = None
      /\ snap' = [state |-> "saved", rev |-> draft.rev, rows |-> draft.rows]
      /\ UNCHANGED <<phase, cursor, rev, current, call, queue, wal, crashes, lost, overlapped, claim>>
  BY DEF SnapRename, store
<1>2. Drafting
  BY <1>1 DEF Drafting, None
<1>3. snap' # None /\ snap'.rev = draft.rev /\ snap'.rows = draft.rows
  <2>1. snap'.state # None.state
    BY <1>1 DEF None
  <2>2. QED
    BY <1>1, <2>1
<1>4. FirstType'
  <2>1. draft.rev \in Nat /\ draft.rev <= rev /\ DOMAIN draft.rows \subseteq Key
    BY <1>2 DEF First, FirstType
  <2>2. QED
    BY <1>1, <1>3, <2>1 DEF First, FirstType, Drafting
<1>5. Told' = Told
  BY <1>1 DEF Told, Event
<1>6. ASSUME FirstLife PROVE FirstLife'
  <2>1. SnapRev' = draft.rev /\ \A x : At(SnapRows, x)' = At(draft.rows, x) /\ At(current, x)' = At(current, x)
    BY <1>1, <1>3 DEF SnapRev, SnapRows, At
  <2>2. \A x \in Key : Leaves(draft.rev, At(draft.rows, x), x)
    BY <1>1, <1>2, <1>6 DEF FirstLife
  <2>3. \A x \in Key : Leaves(SnapRev, At(SnapRows, x), x)'
    BY <1>5, <2>1, <2>2 DEF Leaves
  <2>4. QED
    BY <1>1, <1>2, <1>5, <1>6, <2>1, <2>3 DEF FirstLife, Drafting
<1>7. QED
  BY <1>1, <1>4, <1>6 DEF First

-----------------------------------------------------------------------------
(* The crash and the second life *)

\* What a quiet crash leaves is in the files: nothing was under way.
LEMMA CrashStep ==
    ASSUME First, Crash
    PROVE  Second'
<1>1. /\ crashes' = crashes + 1 /\ phase' = "down" /\ cursor' = 0 /\ call' = Idle /\ queue' = <<>>
      /\ claim' = IF call = Idle /\ queue = <<>> /\ lost = {} /\ ~overlapped
                  THEN [known |-> TRUE, values |-> Values(current)] ELSE NoClaim
      /\ UNCHANGED <<wal, snap>>
  BY DEF Crash, Stop, files
<1>2. crashes' = 1
  BY <1>1 DEF First
<1>3. ASSUME claim'.known PROVE InFiles'
  <2>1. call = Idle /\ queue = <<>> /\ lost = {} /\ ~overlapped /\ claim'.values = Values(current)
    BY <1>1, <1>3 DEF NoClaim
  <2>2. FirstLife /\ FirstType
    BY <2>1 DEF First
  <2>3. Told = wal
    <3>1. Told = (wal \o <<>>) \o <<>> /\ wal \in Seq(Record)
      BY <2>1, <2>2 DEF Told, Idle, FirstType
    <3>2. QED
      BY <3>1
  <2>4. \A k \in Key : Ends(wal, Len(wal), SnapRev, At(SnapRows, k), k, At(current, k))
    BY <2>2, <2>3 DEF FirstLife, Leaves
  <2>5. wal \in Seq(Record) /\ DOMAIN current \subseteq Key /\ DOMAIN SnapRows \subseteq Key
    BY <2>2, AtEmpty DEF FirstType, SnapRows
  <2>6. SnapRev' = SnapRev /\ SnapRows' = SnapRows
    BY <1>1 DEF SnapRev, SnapRows
  <2>7. \A k \in Key : Ends(wal', Len(wal'), SnapRev', At(SnapRows', k), k, At(current, k))
    BY <1>1, <2>4, <2>6
  <2>8. wal' \in Seq(Record) /\ DOMAIN SnapRows' \subseteq Key
    BY <1>1, <2>5, <2>6
  <2>9. \E rows : /\ DOMAIN rows \subseteq Key /\ claim'.values = Values(rows)
                  /\ \A k \in Key : Ends(wal', Len(wal'), SnapRev', At(SnapRows', k), k, At(rows, k))
    BY <2>1, <2>5, <2>7
  <2>10. QED
    BY <2>8, <2>9 DEF InFiles, Ends, Counts, After, At, Values
<1>4. QED
  BY <1>1, <1>2, <1>3 DEF Second, SecondLife

\* Steps that leave the files and what was claimed leave the one in the other.
LEMMA FilesStay ==
    ASSUME InFiles, UNCHANGED <<wal, snap, claim>>
    PROVE  InFiles'
<1>1. SnapRev' = SnapRev /\ SnapRows' = SnapRows
  BY DEF SnapRev, SnapRows
<1>2. PICK rows : /\ DOMAIN rows \subseteq Key /\ claim.values = Values(rows)
                  /\ \A k \in Key : Ends(wal, Len(wal), SnapRev, At(SnapRows, k), k, At(rows, k))
  BY DEF InFiles
<1>3. \E r : /\ DOMAIN r \subseteq Key /\ claim'.values = Values(r)
             /\ \A k \in Key : Ends(wal', Len(wal'), SnapRev', At(SnapRows', k), k, At(r, k))
  BY <1>1, <1>2
<1>4. wal' \in Seq(Record) /\ DOMAIN SnapRows' \subseteq Key
  BY <1>1 DEF InFiles
<1>5. QED
  BY <1>3, <1>4 DEF InFiles, Ends, Counts, After, At, Values

\* A restored row has its value, whatever revision it gets.
LEMMA RestoreAt ==
    ASSUME NEW f
    PROVE  DOMAIN RestoreRows(f).rows = DOMAIN f /\ \A k : At(RestoreRows(f).rows, k) = At(f, k)
BY DEF RestoreRows, At

LEMMA LoadStep ==
    ASSUME SecondLife, claim.known, LoadSnapshot
    PROVE  SecondLife'
<1>1. /\ phase = "down" /\ phase' = "replay"
      /\ IF snap = None THEN current' = Empty ELSE current' = RestoreRows(snap.rows).rows
      /\ UNCHANGED <<cursor, call, queue, wal, snap, claim>>
  BY DEF LoadSnapshot, files
<1>2. InFiles /\ cursor = 0
  BY <1>1 DEF SecondLife
<1>3. InFiles'
  BY <1>1, <1>2, FilesStay
<1>4. DOMAIN current' = DOMAIN SnapRows /\ \A k : At(current', k) = At(SnapRows, k)
  BY <1>1, RestoreAt DEF SnapRows
<1>5. Restoring'
  <2>1. SnapRev' = SnapRev /\ SnapRows' = SnapRows
    BY <1>1 DEF SnapRev, SnapRows
  <2>2. \A k \in Key : Ends(wal', 0, SnapRev', At(SnapRows', k), k, At(current', k))
    BY <1>4, <2>1, EndsStart
  <2>3. cursor' = 0 /\ 0 \in 0..Len(wal') /\ DOMAIN current' \subseteq Key
    BY <1>1, <1>2, <1>4 DEF InFiles
  <2>4. QED
    BY <2>2, <2>3 DEF Restoring, Ends, Counts, After, At
<1>6. QED
  BY <1>1, <1>3, <1>5 DEF SecondLife

LEMMA ReplayStep ==
    ASSUME SecondLife, claim.known, ReplayRecord
    PROVE  SecondLife'
<1> DEFINE e == wal[cursor + 1]
<1>1. /\ phase = "replay" /\ cursor < Len(wal) /\ cursor' = cursor + 1
      /\ IF e.rev <= SnapRev THEN current' = current
         ELSE current' = IF e.op = "put" THEN Put(current, e.key, e.value, rev + 1)
                         ELSE Delete(current, e.key)
      /\ UNCHANGED <<phase, call, queue, wal, snap, claim>>
  BY DEF ReplayRecord, ReplayPut, SnapRev, files, store
<1>2. InFiles /\ Restoring
  BY <1>1 DEF SecondLife
<1>3. InFiles'
  BY <1>1, <1>2, FilesStay
<1>4. cursor \in Nat /\ cursor + 1 \in 0..Len(wal) /\ e \in Record
  BY <1>1, <1>2 DEF InFiles, Restoring
<1>5. e.key \in Key /\ e.op \in {"put", "delete"}
  BY <1>4 DEF Record
<1>6. \A k \in Key : At(current', k) = IF Counts(e, SnapRev, k) THEN After(e) ELSE At(current, k)
  <2>1. CASE e.rev <= SnapRev
    BY <1>1, <2>1 DEF Counts
  <2>2. CASE ~(e.rev <= SnapRev)
    BY <1>1, <1>5, <2>2, AtPut, AtDelete DEF Counts, After
  <2>3. QED
    BY <2>1, <2>2
<1>7. DOMAIN current' \subseteq Key
  BY <1>1, <1>2, <1>5, KeysPut DEF Restoring
<1> HIDE DEF e
<1>8. \A k \in Key : Ends(wal, cursor + 1, SnapRev, At(SnapRows, k), k, At(current', k))
  <2> SUFFICES ASSUME NEW k \in Key
               PROVE  Ends(wal, cursor + 1, SnapRev, At(SnapRows, k), k, At(current', k))
    OBVIOUS
  <2>1. Ends(wal, cursor, SnapRev, At(SnapRows, k), k, At(current, k))
    BY <1>2 DEF Restoring
  <2>2. Ends(wal, cursor + 1, SnapRev, At(SnapRows, k), k,
             IF Counts(e, SnapRev, k) THEN After(e) ELSE At(current, k))
    BY <1>4, <2>1, EndsNext DEF e
  <2>3. QED
    BY <1>6, <2>2
<1>9. Restoring'
  <2>1. SnapRev' = SnapRev /\ SnapRows' = SnapRows
    BY <1>1 DEF SnapRev, SnapRows
  <2>2. \A k \in Key : Ends(wal', cursor', SnapRev', At(SnapRows', k), k, At(current', k))
    BY <1>1, <1>8, <2>1
  <2>3. cursor' \in 0..Len(wal')
    BY <1>1, <1>4
  <2>4. QED
    BY <1>7, <2>2, <2>3 DEF Restoring, Ends, Counts, After, At
<1>10. QED
  BY <1>1, <1>3, <1>9 DEF SecondLife

\* A finished replay has given back what was claimed.
LEMMA ServeStep ==
    ASSUME SecondLife, claim.known, Serve
    PROVE  SecondLife'
<1>1. /\ phase = "replay" /\ cursor = Len(wal) /\ phase' = "up"
      /\ UNCHANGED <<current, call, queue, claim>>
  BY DEF Serve, store
<1>2. InFiles /\ Restoring
  BY <1>1 DEF SecondLife
<1>3. PICK rows : /\ DOMAIN rows \subseteq Key /\ claim.values = Values(rows)
                  /\ \A k \in Key : Ends(wal, Len(wal), SnapRev, At(SnapRows, k), k, At(rows, k))
  BY <1>2 DEF InFiles
<1>4. Len(wal) \in Nat
  BY <1>2 DEF InFiles
<1>5. \A k \in Key : Ends(wal, Len(wal), SnapRev, At(SnapRows, k), k, At(current, k))
  BY <1>1, <1>2 DEF Restoring
<1>6. \A k \in Key : At(current, k) = At(rows, k)
  BY <1>3, <1>4, <1>5, EndsUnique
<1>7. Values(current) = claim.values
  BY <1>2, <1>3, <1>6, SameValues DEF Restoring
<1>8. QED
  BY <1>1, <1>7 DEF SecondLife, Values

\* Only a crash claims something.
LEMMA ClaimStep ==
    ASSUME [Next]_vars
    PROVE  Crash \/ (crashes' = crashes /\ (claim' = claim \/ claim' = NoClaim))
BY DEF Next, vars, TakeRevision, SnapRow, StoreChange, Publish, Subscribe, WriterAppend,
       WriterFails, SnapRevision, SnapRename, CrashInRestore, LoadSnapshot, ReplayRecord, Serve

LEMMA SecondStep ==
    ASSUME Second, MaxCrashes <= 1, [Next]_vars
    PROVE  Second'
<1>1. ~Crash
  BY PersistAssumption DEF Second, Crash
<1>2. crashes' = 1 /\ (claim' = claim \/ claim' = NoClaim)
  BY <1>1, ClaimStep DEF Second
<1>3. CASE ~claim'.known
  BY <1>2, <1>3 DEF Second, SecondLife
<1>4. CASE claim'.known
  <2>1. claim' = claim /\ claim.known /\ SecondLife
    BY <1>2, <1>4 DEF NoClaim, Second
  <2>2. call = Idle /\ queue = <<>> /\ call.step = "idle"
    BY <2>1 DEF SecondLife, Idle
  <2>3. CASE \/ Subscribe \/ SnapRevision \/ SnapRename \/ UNCHANGED vars
             \/ \E k \in Key : SnapRow(k)
    <3>1. UNCHANGED <<phase, cursor, current, call, queue>> /\ (phase # "up" => UNCHANGED <<wal, snap>>)
      BY <2>3 DEF Subscribe, SnapRevision, SnapRename, SnapRow, vars, store, files
    <3>2. phase # "up" => InFiles'
      BY <2>1, <3>1, FilesStay DEF SecondLife
    <3>3. phase = "replay" => Restoring'
      <4> HAVE phase = "replay"
      <4>1. Restoring /\ UNCHANGED <<wal, snap>>
        BY <2>1, <3>1 DEF SecondLife
      <4>2. SnapRev' = SnapRev /\ SnapRows' = SnapRows
        BY <4>1 DEF SnapRev, SnapRows
      <4>3. QED
        BY <3>1, <4>1, <4>2 DEF Restoring, Ends, Counts, After, At
    <3>4. QED
      BY <1>2, <2>1, <3>1, <3>2, <3>3 DEF Second, SecondLife, Values
  <2>4. CASE \/ StoreChange \/ Publish \/ WriterAppend \/ WriterFails
             \/ \E op, k, v : TakeRevision(op, k, v)
    <3>1. ~StoreChange /\ ~Publish /\ ~WriterAppend /\ ~WriterFails
      BY <2>2 DEF StoreChange, Publish, WriterAppend, WriterFails
    <3>2. ~\E op, k, v : TakeRevision(op, k, v)
      BY <1>4 DEF TakeRevision, NoClaim
    <3>3. QED
      BY <2>4, <3>1, <3>2
  <2>5. CASE CrashInRestore
    <3>1. /\ phase = "replay" /\ phase' = "down" /\ cursor' = 0 /\ call' = Idle /\ queue' = <<>>
          /\ UNCHANGED <<wal, snap, claim>>
      BY <2>5 DEF CrashInRestore, Stop, files
    <3>2. InFiles'
      BY <2>1, <3>1, FilesStay DEF SecondLife
    <3>3. QED
      BY <1>2, <3>1, <3>2 DEF Second, SecondLife
  <2>6. CASE LoadSnapshot \/ ReplayRecord \/ Serve
    BY <1>2, <2>1, <2>6, LoadStep, ReplayStep, ServeStep DEF Second
  <2>7. QED
    BY <1>1, <2>3, <2>4, <2>5, <2>6 DEF Next
<1>5. QED
  BY <1>3, <1>4

LEMMA FirstStep ==
    ASSUME First, [Next]_vars
    PROVE  First' \/ Second'
<1>1. phase = "up"
  BY DEF First, FirstType
<1>2. ~CrashInRestore /\ ~LoadSnapshot /\ ~ReplayRecord /\ ~Serve
  BY <1>1 DEF CrashInRestore, LoadSnapshot, ReplayRecord, Serve
<1>3. CASE \E k \in Key : TakeRevision("delete", k, 0)
  BY <1>3, TakeStep
<1>4. CASE \E k \in Key, v \in Value : TakeRevision("put", k, v)
  BY <1>4, TakeStep
<1>5. CASE \E k \in Key : SnapRow(k)
  BY <1>5, SnapRowStep
<1>6. CASE StoreChange \/ Publish \/ WriterAppend \/ WriterFails \/ Subscribe \/ UNCHANGED vars
  BY <1>6, StoreStep, PublishStep, WriterStep, SubscribeStep
<1>7. CASE SnapRevision \/ SnapRename \/ Crash
  BY <1>7, SnapRevisionStep, SnapRenameStep, CrashStep
<1>8. QED
  BY <1>2, <1>3, <1>4, <1>5, <1>6, <1>7 DEF Next

-----------------------------------------------------------------------------
(* The theorem *)

\* The store's first crash, if it interrupts nothing, loses nothing: whatever
\* was written, whichever snapshots were collected while writes went on, and
\* however often the process dies again while it restores, the member that
\* serves again has the values the clients saw (restore_etcd_store).
THEOREM FirstCrashLosesNothing ==
    ASSUME MaxCrashes <= 1
    PROVE  Spec => []QuietCrashLosesNothing
<1>1. Init => PersistInv
  BY PersistInit
<1>2. PersistInv /\ [Next]_vars => PersistInv'
  BY FirstStep, SecondStep DEF PersistInv
<1>3. PersistInv => QuietCrashLosesNothing
  <2>1. First => QuietCrashLosesNothing
    BY DEF First, FirstType, QuietCrashLosesNothing, NoClaim
  <2>2. Second => QuietCrashLosesNothing
    BY DEF Second, SecondLife, QuietCrashLosesNothing
  <2>3. QED
    BY <2>1, <2>2 DEF PersistInv
<1>4. QED
  BY <1>1, <1>2, <1>3, PTL DEF Spec

-----------------------------------------------------------------------------
(* Types, through any number of crashes *)

\* What the log is made of: a put carries a value.
Logged == {e \in Record : e.op = "put" => e.value \in Value}

\* Rows of a store or of a snapshot, and a store's rows at revision r.
IsRows(f) ==
    /\ IsFiniteSet(DOMAIN f) /\ DOMAIN f \subseteq Key
    /\ \A k \in DOMAIN f : f[k].value \in Value /\ f[k].mod \in Nat
IsStore(f, r) == IsRows(f) /\ \A k \in DOMAIN f : f[k].mod \in 2..r

\* The call in progress: its revision is one the store has taken.
IsCall ==
    \/ call = Idle
    \/ /\ call \in Call /\ call.rev \in 2..rev
       /\ call.op = "put" => call.value \in Value

IsDraft(d) ==
    /\ d = [state |-> "rows", rev |-> d.rev, rows |-> d.rows, left |-> d.left]
    /\ IsRows(d.rows)

PersistType ==
    /\ phase \in {"up", "down", "replay"} /\ subscribed \in BOOLEAN /\ overlapped \in BOOLEAN
    /\ lost \subseteq {"early", "lag", "failed"}
    /\ rev \in Nat \ {0} /\ IsStore(current, rev)
    /\ IsCall /\ (phase # "up" => call = Idle)
    /\ wal \in Seq(Logged) /\ cursor \in 0..Len(wal)
    /\ queue \in Seq(Logged) /\ Len(queue) <= Cap
    /\ snap # None => IsRows(snap.rows)
    /\ draft # None => IsDraft(draft)
    /\ crashes \in 0..MaxCrashes

LEMMA EmptyRows == IsRows(Empty) /\ \A r : IsStore(Empty, r)
BY AtEmpty, FS_EmptySet DEF IsRows, IsStore

LEMMA RowsPut ==
    ASSUME NEW f, IsRows(f), NEW k \in Key, NEW v \in Value, NEW m \in Nat
    PROVE  IsRows(Put(f, k, v, m))
<1>1. DOMAIN Put(f, k, v, m) = DOMAIN f \cup {k}
  BY DEF Put
<1>2. IsFiniteSet(DOMAIN f \cup {k})
  BY FS_AddElement DEF IsRows
<1>3. QED
  BY <1>1, <1>2 DEF IsRows, Put

LEMMA RowsDelete ==
    ASSUME NEW f, IsRows(f), NEW k
    PROVE  IsRows(Delete(f, k))
<1>1. DOMAIN Delete(f, k) = DOMAIN f \ {k}
  BY DEF Delete
<1>2. IsFiniteSet(DOMAIN f \ {k})
  BY FS_RemoveElement DEF IsRows
<1>3. QED
  BY <1>1, <1>2 DEF IsRows, Delete

\* A store that has put or deleted k at a revision up to q.
LEMMA StorePut ==
    ASSUME NEW f, NEW r \in Nat, NEW q \in Nat, r <= q, IsStore(f, r),
           NEW k \in Key, NEW v \in Value, NEW m \in 2..q
    PROVE  IsStore(Put(f, k, v, m), q)
<1>1. IsRows(Put(f, k, v, m))
  BY RowsPut DEF IsStore
<1>2. \A x \in DOMAIN Put(f, k, v, m) : Put(f, k, v, m)[x].mod \in 2..q
  BY DEF IsStore, Put
<1>3. QED
  BY <1>1, <1>2 DEF IsStore

LEMMA StoreDelete ==
    ASSUME NEW f, NEW r \in Nat, NEW q \in Nat, r <= q, IsStore(f, r), NEW k
    PROVE  IsStore(Delete(f, k), q) /\ IsStore(f, q)
<1>1. IsRows(Delete(f, k))
  BY RowsDelete DEF IsStore
<1>2. \A x \in DOMAIN Delete(f, k) : Delete(f, k)[x].mod \in 2..q
  BY DEF IsStore, Delete
<1>3. QED
  BY <1>1, <1>2 DEF IsStore

\* Restored rows have the revisions from 2 on of the store they are put into.
LEMMA RestoredStore ==
    ASSUME NEW f, IsRows(f)
    PROVE  RestoreRows(f).rev \in Nat \ {0} /\ IsStore(RestoreRows(f).rows, RestoreRows(f).rev)
<1> DEFINE Upto(k) == {x \in DOMAIN f : f[x].mod <= f[k].mod}
           g == [k \in DOMAIN f |-> [value |-> f[k].value, mod |-> 1 + Cardinality(Upto(k))]]
<1>1. RestoreRows(f).rows = g /\ RestoreRows(f).rev = 1 + Cardinality(DOMAIN f)
  BY DEF RestoreRows
<1>2. IsFiniteSet(DOMAIN f) /\ Cardinality(DOMAIN f) \in Nat
  BY FS_CardinalityType DEF IsRows
<1>3. ASSUME NEW k \in DOMAIN f PROVE 1 + Cardinality(Upto(k)) \in 2..(1 + Cardinality(DOMAIN f))
  <2>1. Upto(k) \subseteq DOMAIN f /\ k \in Upto(k)
    BY <1>3 DEF IsRows
  <2> HIDE DEF Upto
  <2>2. IsFiniteSet(Upto(k)) /\ Cardinality(Upto(k)) <= Cardinality(DOMAIN f)
    BY <1>2, <2>1, FS_Subset
  <2>3. Cardinality(Upto(k)) \in Nat /\ Cardinality(Upto(k)) # 0
    BY <2>1, <2>2, FS_EmptySet, FS_CardinalityType
  <2>4. QED
    BY <1>2, <2>2, <2>3
<1> HIDE DEF Upto
<1>4. DOMAIN g = DOMAIN f /\ \A k \in DOMAIN f : g[k].value = f[k].value /\ g[k].mod = 1 + Cardinality(Upto(k))
  OBVIOUS
<1> HIDE DEF g
<1>5. IsStore(g, 1 + Cardinality(DOMAIN f))
  <2>1. IsRows(g)
    BY <1>2, <1>3, <1>4 DEF IsRows
  <2>2. QED
    BY <1>3, <1>4, <2>1 DEF IsStore
<1>6. QED
  BY <1>1, <1>2, <1>5

LEMMA TypeInit == Init => PersistType
<1> SUFFICES ASSUME Init PROVE PersistType
  OBVIOUS
<1>1. IsStore(current, rev) /\ rev \in Nat \ {0}
  BY EmptyRows DEF Init
<1>2. queue \in Seq(Logged) /\ Len(queue) <= Cap /\ wal \in Seq(Logged) /\ cursor \in 0..Len(wal)
  BY PersistAssumption DEF Init
<1>3. crashes \in 0..MaxCrashes /\ IsCall
  BY PersistAssumption DEF Init, IsCall
<1>4. QED
  BY <1>1, <1>2, <1>3 DEF Init, PersistType

LEMMA TypeCalls ==
    ASSUME PersistType,
           \/ \E k \in Key : TakeRevision("delete", k, 0)
           \/ \E k \in Key, v \in Value : TakeRevision("put", k, v)
           \/ StoreChange \/ Publish
    PROVE  PersistType'
<1>1. rev \in Nat /\ rev >= 1
  BY DEF PersistType
<1>2. ASSUME NEW op \in {"put", "delete"}, NEW k \in Key, NEW v \in Value \cup {0},
             op = "put" => v \in Value, TakeRevision(op, k, v)
      PROVE  PersistType'
  <2>1. /\ phase = "up" /\ rev' = rev + 1
        /\ call' = [op |-> op, step |-> "store", key |-> k, value |-> v, rev |-> rev + 1]
        /\ UNCHANGED <<phase, cursor, current, subscribed, queue, draft, wal, snap, crashes, lost, overlapped>>
    BY <1>2 DEF TakeRevision, files
  <2>2. IsStore(current', rev')
    BY <1>1, <2>1, StoreDelete DEF PersistType
  <2>3. call' \in Call /\ call'.rev \in 2..rev' /\ (call'.op = "put" => call'.value \in Value)
    BY <1>1, <1>2, <2>1 DEF Call
  <2>4. QED
    BY <1>1, <2>1, <2>2, <2>3 DEF PersistType, IsCall
<1>3. CASE StoreChange
  <2> DEFINE nothing == call.op = "delete" /\ call.key \notin DOMAIN current
  <2>1. /\ phase = "up" /\ call.step = "store"
        /\ current' = IF call.op = "put" THEN Put(current, call.key, call.value, call.rev)
                      ELSE Delete(current, call.key)
        /\ call' = IF nothing THEN Idle ELSE [call EXCEPT !.step = "publish"]
        /\ UNCHANGED <<phase, cursor, rev, subscribed, queue, draft, wal, snap, crashes, lost, overlapped>>
    BY <1>3 DEF StoreChange, files
  <2>2. call \in Call /\ call.rev \in 2..rev /\ (call.op = "put" => call.value \in Value)
    BY <2>1 DEF PersistType, IsCall, Idle
  <2>3. IsStore(current', rev)
    <3>1. CASE call.op = "put"
      BY <1>1, <2>1, <2>2, <3>1, StorePut DEF PersistType, Call
    <3>2. CASE call.op # "put"
      BY <1>1, <2>1, <3>2, StoreDelete DEF PersistType
    <3>3. QED
      BY <3>1, <3>2
  <2>4. IsCall'
    BY <2>1, <2>2 DEF IsCall, Call
  <2>5. QED
    BY <2>1, <2>3, <2>4 DEF PersistType
<1>4. CASE Publish
  <2> DEFINE full == Len(queue) = Cap
  <2>1. /\ call.step = "publish" /\ call' = Idle
        /\ queue' = IF ~subscribed THEN queue
                    ELSE Append(IF full THEN Tail(queue) ELSE queue, Event)
        /\ lost' = lost \cup (IF ~subscribed THEN {"early"} ELSE IF full THEN {"lag"} ELSE {})
        /\ UNCHANGED <<phase, cursor, rev, current, subscribed, draft, wal, snap, crashes, overlapped>>
    BY <1>4 DEF Publish, store, files, Event
  <2>2. Event \in Logged
    <3>1. call \in Call /\ (call.op = "put" => call.value \in Value)
      BY <2>1 DEF PersistType, IsCall, Idle
    <3>2. QED
      BY <3>1, EventTyped DEF Logged, Event
  <2>3. queue' \in Seq(Logged) /\ Len(queue') <= Cap
    <3>1. queue \in Seq(Logged) /\ Len(queue) \in Nat /\ Len(queue) <= Cap /\ Cap \in Nat \ {0}
      BY PersistAssumption DEF PersistType
    <3>2. full => Tail(queue) \in Seq(Logged) /\ Len(Tail(queue)) = Cap - 1
      BY <3>1
    <3>3. QED
      BY <2>1, <2>2, <3>1, <3>2
  <2>4. QED
    BY <2>1, <2>3 DEF PersistType, IsCall
<1>5. QED
  BY <1>2, <1>3, <1>4

LEMMA TypeWriter ==
    ASSUME PersistType, Subscribe \/ WriterAppend \/ WriterFails \/ UNCHANGED vars
    PROVE  PersistType'
<1>1. UNCHANGED <<phase, cursor, rev, current, call, draft, snap, crashes, overlapped>>
  BY DEF Subscribe, WriterAppend, WriterFails, vars, store, files
<1>2. queue \in Seq(Logged) /\ wal \in Seq(Logged) /\ Len(queue) <= Cap /\ cursor \in 0..Len(wal)
  BY DEF PersistType
<1>3. CASE Subscribe \/ UNCHANGED vars
  BY <1>1, <1>3 DEF PersistType, IsCall, Subscribe, vars, files
<1>4. CASE WriterAppend \/ WriterFails
  <2>1. /\ queue # <<>> /\ queue' = Tail(queue) /\ subscribed' = subscribed
        /\ wal' = wal \/ wal' = Append(wal, Head(queue))
        /\ lost' \subseteq lost \cup {"failed"}
    BY <1>4 DEF WriterAppend, WriterFails, files
  <2>2. queue' \in Seq(Logged) /\ Len(queue') <= Cap
    BY <1>2, <2>1, PersistAssumption
  <2>3. wal' \in Seq(Logged) /\ cursor' \in 0..Len(wal')
    <3>1. Head(queue) \in Logged
      BY <1>2, <2>1
    <3>2. QED
      BY <1>1, <1>2, <2>1, <3>1
  <2>4. QED
    BY <1>1, <2>1, <2>2, <2>3 DEF PersistType, IsCall
<1>5. QED
  BY <1>3, <1>4

LEMMA TypeSnapshots ==
    ASSUME PersistType, SnapRevision \/ SnapRename \/ \E k \in Key : SnapRow(k)
    PROVE  PersistType'
<1>1. UNCHANGED <<phase, cursor, rev, current, call, subscribed, queue, wal, crashes, lost>>
  BY DEF SnapRevision, SnapRename, SnapRow, store, files
<1>2. CASE SnapRevision
  <2>1. draft' = [state |-> "rows", rev |-> rev, rows |-> Empty, left |-> Key]
        /\ overlapped' = (overlapped \/ call.step = "store") /\ snap' = snap
    BY <1>2 DEF SnapRevision, files
  <2>2. IsDraft(draft')
    BY <2>1, EmptyRows DEF IsDraft
  <2>3. QED
    BY <1>1, <2>1, <2>2 DEF PersistType, IsCall
<1>3. CASE SnapRename
  <2>1. /\ draft.state = "rows" /\ draft' = None /\ overlapped' = overlapped
        /\ snap' = [state |-> "saved", rev |-> draft.rev, rows |-> draft.rows]
    BY <1>3 DEF SnapRename
  <2>2. IsRows(draft.rows)
    BY <2>1 DEF PersistType, IsDraft, None
  <2>3. QED
    BY <1>1, <2>1, <2>2 DEF PersistType, IsCall
<1>4. ASSUME NEW k \in Key, SnapRow(k) PROVE PersistType'
  <2> DEFINE rows == IF k \in DOMAIN current
                     THEN Put(draft.rows, k, current[k].value, current[k].mod) ELSE draft.rows
  <2>1. /\ draft.state = "rows" /\ overlapped' = overlapped /\ snap' = snap
        /\ draft' = [draft EXCEPT !.left = draft.left \ {k}, !.rows = rows]
    BY <1>4 DEF SnapRow, files
  <2>2. IsDraft(draft)
    BY <2>1 DEF PersistType, None
  <2>3. IsRows(rows)
    <3>1. k \in DOMAIN current => current[k].value \in Value /\ current[k].mod \in Nat
      BY DEF PersistType, IsStore, IsRows
    <3>2. QED
      BY <2>2, <3>1, RowsPut DEF IsDraft
  <2> HIDE DEF rows
  <2>4. draft' = [state |-> "rows", rev |-> draft.rev, rows |-> rows, left |-> draft.left \ {k}]
    BY <2>1, <2>2, DraftExcept DEF IsDraft
  <2>5. IsDraft(draft')
    BY <2>3, <2>4 DEF IsDraft
  <2>6. QED
    BY <1>1, <2>1, <2>5 DEF PersistType, IsCall
<1>5. QED
  BY <1>2, <1>3, <1>4

LEMMA TypeRestore ==
    ASSUME PersistType, Crash \/ CrashInRestore \/ LoadSnapshot \/ ReplayRecord \/ Serve
    PROVE  PersistType'
<1>1. rev \in Nat /\ rev >= 1 /\ wal \in Seq(Logged) /\ Len(wal) \in Nat /\ cursor \in 0..Len(wal)
  BY DEF PersistType
<1>2. CASE Crash \/ CrashInRestore
  <2>1. Stop /\ crashes' \in 0..MaxCrashes
    BY <1>2, PersistAssumption DEF Crash, CrashInRestore, PersistType
  <2>2. IsStore(current', rev') /\ rev' = 1
    BY <2>1, EmptyRows DEF Stop
  <2>3. /\ phase' = "down" /\ cursor' = 0 /\ call' = Idle /\ subscribed' = FALSE /\ queue' = <<>>
        /\ draft' = None /\ UNCHANGED <<wal, snap, lost, overlapped>>
    BY <2>1 DEF Stop, files
  <2>4. cursor' \in 0..Len(wal') /\ queue' \in Seq(Logged) /\ Len(queue') <= Cap
    BY <1>1, <2>3, PersistAssumption
  <2>5. IsCall'
    BY <2>3 DEF IsCall
  <2>6. subscribed' \in BOOLEAN /\ overlapped' \in BOOLEAN /\ lost' \subseteq {"early", "lag", "failed"}
    BY <2>3 DEF PersistType
  <2>7. rev' \in Nat \ {0} /\ wal' \in Seq(Logged) /\ (snap' # None => IsRows(snap'.rows))
    BY <2>2, <2>3 DEF PersistType
  <2>8. QED
    BY <2>1, <2>2, <2>3, <2>4, <2>5, <2>6, <2>7 DEF PersistType
<1>3. CASE LoadSnapshot
  <2>1. /\ phase = "down" /\ phase' = "replay"
        /\ IF snap = None THEN rev' = 1 /\ current' = Empty
           ELSE rev' = RestoreRows(snap.rows).rev /\ current' = RestoreRows(snap.rows).rows
        /\ UNCHANGED <<cursor, call, subscribed, queue, draft, wal, snap, crashes, lost, overlapped>>
    BY <1>3 DEF LoadSnapshot, files
  <2>2. rev' \in Nat \ {0} /\ IsStore(current', rev')
    BY <2>1, EmptyRows, RestoredStore DEF PersistType
  <2>3. QED
    BY <2>1, <2>2 DEF PersistType, IsCall
<1>4. CASE ReplayRecord
  <2> DEFINE e == wal[cursor + 1]
  <2>1. /\ phase = "replay" /\ cursor < Len(wal) /\ cursor' = cursor + 1
        /\ \/ rev' = rev /\ current' = current
           \/ /\ rev' = rev + 1
              /\ current' = IF e.op = "put" THEN Put(current, e.key, e.value, rev + 1)
                            ELSE Delete(current, e.key)
        /\ UNCHANGED <<phase, call, subscribed, queue, draft, wal, snap, crashes, lost, overlapped>>
    BY <1>4 DEF ReplayRecord, ReplayPut, files, store
  <2>2. e \in Logged /\ cursor' \in 0..Len(wal)
    BY <1>1, <2>1
  <2>3. e.key \in Key /\ (e.op = "put" => e.value \in Value)
    BY <2>2 DEF Logged, Record
  <2> HIDE DEF e
  <2>4. IsStore(current, rev)
    BY DEF PersistType
  <2>5. rev' \in Nat \ {0} /\ IsStore(current', rev')
    <3>1. e.op = "put" => IsStore(Put(current, e.key, e.value, rev + 1), rev + 1)
      BY <1>1, <2>3, <2>4, StorePut
    <3>2. IsStore(Delete(current, e.key), rev + 1)
      BY <1>1, <2>4, StoreDelete
    <3>3. QED
      BY <1>1, <2>1, <2>4, <3>1, <3>2
  <2>6. call' = Idle /\ IsCall'
    BY <2>1 DEF PersistType, IsCall
  <2>7. QED
    BY <2>1, <2>2, <2>5, <2>6 DEF PersistType
<1>5. CASE Serve
  <2>1. phase' = "up" /\ cursor' = 0
        /\ UNCHANGED <<rev, current, call, subscribed, queue, draft, wal, snap, crashes, lost, overlapped>>
    BY <1>5 DEF Serve, store, files
  <2>2. QED
    BY <1>1, <2>1 DEF PersistType, IsCall
<1>6. QED
  BY <1>2, <1>3, <1>4, <1>5

\* The store, the files and the tasks between them keep their types through
\* any number of crashes: in particular a restored row, and a replayed one,
\* has a revision that the store that serves it has taken.
THEOREM PersistTypes == Spec => []TypeOK
<1>1. PersistType /\ [Next]_vars => PersistType'
  BY TypeCalls, TypeWriter, TypeSnapshots, TypeRestore DEF Next
<1>2. PersistType => TypeOK
  BY DEF PersistType, TypeOK, IsStore, IsRows, IsCall, Call, Idle
<1>3. QED
  BY <1>1, <1>2, TypeInit, PTL DEF Spec
=============================================================================
