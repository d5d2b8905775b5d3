---------------------------- MODULE ApiStoreProofs ----------------------------
(***************************************************************************)
(* What the API server's store was at a crash is what restore brings back, *)
(* but for the resources whose changes were not all in the WAL: for any    *)
(* number of handlers beside the apply daemon, of names, crashes and       *)
(* snapshots, also when the crash tears the WAL's last record.             *)
(***************************************************************************)
EXTENDS ApiStore, SequenceTheorems, TLAPS

-----------------------------------------------------------------------------
(* Definitions *)

Op == {"create", "update", "delete"}
Record == [op : Op, name : Name, value : Value]
Call ==
    [op : {"create", "update"}, step : {"insert"}, name : Name, value : Value]
        \cup [op : Op, step : {"publish"}, name : Name, value : Value]

\* The contents a store or a snapshot can have.
IsRows(f) ==
    /\ f = [n \in DOMAIN f |-> f[n]]
    /\ DOMAIN f \subseteq Name
    /\ \A n \in DOMAIN f : f[n] \in Value

ApiType ==
    /\ phase \in {"up", "down", "replay"}
    /\ cursor \in 0..Len(wal) /\ (phase # "replay" => cursor = 0)
    /\ IsRows(resources) /\ IsRows(snap) /\ IsRows(claim.rows)
    /\ job \in [Process -> Call \cup {Idle}]
    /\ \A i \in DOMAIN torn : torn[i] \in Readings
    /\ wal \in Seq(Record) /\ queue \in Seq(Record)
    /\ draft = [on |-> draft.on, rows |-> draft.rows, left |-> draft.left]
    /\ IsRows(draft.rows) /\ draft.left \subseteq Name
    /\ claim = [why |-> claim.why, rows |-> claim.rows, settled |-> claim.settled]
    /\ claim.settled \subseteq Name

\* What rows say of the resource n: its content, or that there is none.
At(rows, n) == IF n \in DOMAIN rows THEN <<rows[n]>> ELSE <<>>

\* What a record, or a call, makes of its resource.
After(e) == IF e.op = "delete" THEN <<>> ELSE <<e.value>>

\* Replaying the first k records of s over a store that says b of n ends
\* with a: the last record about n decides, and b where there is none.
Ends(s, k, b, n, a) ==
    \/ \E i \in 1..k : /\ s[i].name = n /\ After(s[i]) = a
                       /\ \A j \in (i + 1)..k : s[j].name # n
    \/ (\A i \in 1..k : s[i].name # n) /\ a = b

\* A call has changed n and has not published it.
Pending(n) == \E c \in Process : job[c].step = "publish" /\ job[c].name = n

\* What is logged and will be, replayed over these rows, is the store.
Leaves(rows, n) ==
    LET log == wal \o queue IN Ends(log, Len(log), At(rows, n), n, At(resources, n))

\* While the store serves and no event was lost: the snapshot and the log
\* hold what it says of each resource, or the call that changed it last will
\* log it; and so does the part of the next snapshot that is collected.
Running ==
    (phase = "up" /\ lost = {}) =>
        \A n \in Name :
            /\ ~Pending(n) =>
                   /\ Leaves(snap, n)
                   /\ (draft.on /\ n \notin draft.left) => Leaves(draft.rows, n)
            /\ \A c \in Process :
                   (job[c].step = "publish" /\ job[c].name = n) =>
                       At(resources, n) = After(job[c])

Drafting == draft.on => \A n \in draft.left : n \notin DOMAIN draft.rows

\* As long as nothing is lost, no record is torn and no two calls are on one
\* resource.
Whole ==
    lost = {} => /\ DOMAIN torn = {}
                 /\ \A a, b \in Process :
                        (a # b /\ job[a].step # "idle" /\ job[b].step # "idle") =>
                            job[a].name # job[b].name

\* What the files tell of n is what they told when they were written.
Told(n) == lost = {} \/ (claim.why = {} /\ n \in claim.settled)

\* restore has come as far as the cursor.
Replaying ==
    phase = "replay" =>
        \A n \in Name : Told(n) => Ends(wal, cursor, At(snap, n), n, At(resources, n))

Stopped ==
    phase # "up" => /\ queue = <<>> /\ draft = NoDraft
                    /\ \A c \in Process : job[c] = Idle

\* What a crash left behind of the resources whose changes were all in the
\* WAL is in the files until the store serves again, behind them at most a
\* torn record about another resource, and in the store until the next call.
Claimed ==
    claim.why = {} =>
        /\ phase = "up" => Quiet /\ \A n \in claim.settled : At(resources, n) = At(claim.rows, n)
        /\ phase # "up" =>
               /\ \A i \in DOMAIN torn : i = Len(wal) /\ wal[i].name \notin claim.settled
               /\ \A n \in claim.settled :
                      Ends(wal, Len(wal), At(snap, n), n, At(claim.rows, n))

ApiInv == ApiType /\ Running /\ Drafting /\ Whole /\ Replaying /\ Stopped /\ Claimed

-----------------------------------------------------------------------------
(* Rows and what a log makes of them *)

\* Set and Unset change what rows say of one resource.
LEMMA AtSet ==
    ASSUME NEW f, NEW m, NEW v, NEW n
    PROVE  At(Set(f, m, v), n) = IF n = m THEN <<v>> ELSE At(f, n)
BY DEF At, Set

LEMMA AtUnset ==
    ASSUME NEW f, NEW m, NEW n
    PROVE  At(Unset(f, m), n) = IF n = m THEN <<>> ELSE At(f, n)
BY DEF At, Unset

LEMMA SetRows ==
    ASSUME NEW f, IsRows(f), NEW n \in Name, NEW v \in Value
    PROVE  IsRows(Set(f, n, v))
BY DEF IsRows, Set

LEMMA UnsetRows ==
    ASSUME NEW f, IsRows(f), NEW n
    PROVE  IsRows(Unset(f, n))
BY DEF IsRows, Unset

LEMMA EmptyRows == IsRows(Empty) /\ \A n : At(Empty, n) = <<>>
BY DEF IsRows, Empty, At

\* Rows that say the same of a resource agree on it.
LEMMA AtSame ==
    ASSUME NEW f, NEW g, NEW n, At(f, n) = At(g, n)
    PROVE  (n \in DOMAIN f <=> n \in DOMAIN g) /\ (n \in DOMAIN f => f[n] = g[n])
<1>1. \A x : <<x>> # <<>> /\ <<x>>[1] = x
  OBVIOUS
<1>2. QED
  BY <1>1 DEF At

\* One record: upsert, or delete if present.
LEMMA AtReplayed ==
    ASSUME NEW f, NEW e, NEW n
    PROVE  At(Replayed(f, e), n) = IF n = e.name THEN After(e) ELSE At(f, n)
BY AtSet, AtUnset DEF Replayed, After

LEMMA ReplayedRows ==
    ASSUME NEW f, IsRows(f), NEW e \in Record
    PROVE  IsRows(Replayed(f, e))
BY SetRows, UnsetRows DEF Replayed, Record

\* Nothing replayed changes nothing.
LEMMA EndsStart ==
    ASSUME NEW s, NEW b, NEW n
    PROVE  Ends(s, 0, b, n, b)
BY DEF Ends

\* One record more.
LEMMA EndsNext ==
    ASSUME NEW s, NEW k \in Nat, NEW b, NEW n, NEW a, Ends(s, k, b, n, a)
    PROVE  Ends(s, k + 1, b, n, IF s[k + 1].name = n THEN After(s[k + 1]) ELSE a)
<1>1. CASE s[k + 1].name = n
  <2>1. \A j \in (k + 2)..(k + 1) : FALSE
    OBVIOUS
  <2>2. k + 1 \in 1..(k + 1)
    OBVIOUS
  <2>3. QED
    BY <1>1, <2>1, <2>2 DEF Ends
<1>2. CASE s[k + 1].name # n
  <2>1. CASE \A i \in 1..k : s[i].name # n
    <3>1. \A i \in 1..(k + 1) : i \in 1..k \/ i = k + 1
      OBVIOUS
    <3>2. a = b
      BY <2>1 DEF Ends
    <3>3. QED
      BY <1>2, <2>1, <3>1, <3>2 DEF Ends
  <2>2. CASE ~(\A i \in 1..k : s[i].name # n)
    <3>1. PICK i \in 1..k : /\ s[i].name = n /\ After(s[i]) = a
                            /\ \A j \in (i + 1)..k : s[j].name # n
      BY <2>2 DEF Ends
    <3>2. i \in 1..(k + 1) /\ \A j \in (i + 1)..(k + 1) : j \in (i + 1)..k \/ j = k + 1
      OBVIOUS
    <3>3. QED
      BY <1>2, <3>1, <3>2 DEF Ends
  <2>3. QED
    BY <2>1, <2>2
<1>3. QED
  BY <1>1, <1>2

\* Only the records replayed matter.
LEMMA EndsSame ==
    ASSUME NEW s, NEW t, NEW k \in Nat, NEW b, NEW n, NEW a,
           \A i \in 1..k : s[i] = t[i], Ends(s, k, b, n, a)
    PROVE  Ends(t, k, b, n, a)
<1>1. CASE \A i \in 1..k : s[i].name # n
  BY <1>1 DEF Ends
<1>2. CASE ~(\A i \in 1..k : s[i].name # n)
  <2>1. PICK i \in 1..k : /\ s[i].name = n /\ After(s[i]) = a
                          /\ \A j \in (i + 1)..k : s[j].name # n
    BY <1>2 DEF Ends
  <2>2. \A j \in (i + 1)..k : j \in 1..k
    OBVIOUS
  <2>3. QED
    BY <2>1, <2>2 DEF Ends
<1>3. QED
  BY <1>1, <1>2

\* A log and what it is replayed over determine the outcome.
LEMMA EndsUnique ==
    ASSUME NEW s, NEW k \in Nat, NEW b, NEW n, NEW a, NEW c,
           Ends(s, k, b, n, a), Ends(s, k, b, n, c)
    PROVE  a = c
<1>1. CASE \A i \in 1..k : s[i].name # n
  BY <1>1 DEF Ends
<1>2. CASE ~(\A i \in 1..k : s[i].name # n)
  <2>1. PICK i \in 1..k : /\ s[i].name = n /\ After(s[i]) = a
                          /\ \A j \in (i + 1)..k : s[j].name # n
    BY <1>2 DEF Ends
  <2>2. PICK j \in 1..k : /\ s[j].name = n /\ After(s[j]) = c
                          /\ \A m \in (j + 1)..k : s[m].name # n
    BY <1>2 DEF Ends
  <2>3. i = j
    <3>1. i < j => j \in (i + 1)..k
      OBVIOUS
    <3>2. j < i => i \in (j + 1)..k
      OBVIOUS
    <3>3. QED
      BY <2>1, <2>2, <3>1, <3>2
  <2>4. QED
    BY <2>1, <2>2, <2>3
<1>3. QED
  BY <1>1, <1>2

\* Replaying over rows that are the outcome already leads to it again.
LEMMA EndsOver ==
    ASSUME NEW s, NEW k, NEW b, NEW n, NEW a, Ends(s, k, b, n, a)
    PROVE  Ends(s, k, a, n, a)
BY DEF Ends

-----------------------------------------------------------------------------
(* The log *)

\* A published event is the last of the log.
LEMMA LogAppend ==
    ASSUME NEW w \in Seq(Record), NEW q \in Seq(Record), NEW e \in Record
    PROVE  LET s == w \o q
               t == w \o Append(q, e)
           IN  /\ Len(s) \in Nat /\ Len(t) = Len(s) + 1 /\ t[Len(s) + 1] = e
               /\ \A i \in 1..Len(s) : s[i] = t[i]
OBVIOUS

\* Writing an event moves it within the log.
LEMMA LogMove ==
    ASSUME NEW w \in Seq(Record), NEW q \in Seq(Record), q # <<>>
    PROVE  /\ Append(w, Head(q)) \o Tail(q) = w \o q
           /\ Append(w, Head(q)) \in Seq(Record) /\ Tail(q) \in Seq(Record)
<1>1. Append(w, Head(q)) \in Seq(Record) /\ Tail(q) \in Seq(Record)
  OBVIOUS
<1> DEFINE s == Append(w, Head(q)) \o Tail(q)
           t == w \o q
<1>2. s \in Seq(Record) /\ t \in Seq(Record) /\ Len(s) = Len(t)
  OBVIOUS
<1>3. \A i \in 1..Len(t) : s[i] = t[i]
  OBVIOUS
<1>4. s = t
  BY <1>2, <1>3, SeqEqual
<1>5. QED
  BY <1>1, <1>4

\* What an event does to the outcome of the log.
LEMMA EndsAppend ==
    ASSUME NEW w \in Seq(Record), NEW q \in Seq(Record), NEW e \in Record,
           NEW b, NEW n, NEW a, Ends(w \o q, Len(w \o q), b, n, a)
    PROVE  LET t == w \o Append(q, e)
           IN  Ends(t, Len(t), b, n, IF e.name = n THEN After(e) ELSE a)
<1> DEFINE s == w \o q
           t == w \o Append(q, e)
<1>1. /\ Len(s) \in Nat /\ Len(t) = Len(s) + 1 /\ t[Len(s) + 1] = e
      /\ \A i \in 1..Len(s) : s[i] = t[i]
  BY LogAppend
<1>2. Ends(s, Len(s), b, n, a)
  OBVIOUS
<1> HIDE DEF s, t
<1>3. Ends(t, Len(s), b, n, a)
  BY <1>1, <1>2, EndsSame
<1>4. Ends(t, Len(s) + 1, b, n, IF t[Len(s) + 1].name = n THEN After(t[Len(s) + 1]) ELSE a)
  BY <1>1, <1>3, EndsNext
<1>5. Ends(t, Len(t), b, n, IF e.name = n THEN After(e) ELSE a)
  BY <1>1, <1>4
<1>6. QED
  BY <1>5 DEF t

\* The last record of a log about n decides what is left of n.
LEMMA EndsLast ==
    ASSUME NEW w \in Seq(Record), NEW q \in Seq(Record), NEW e \in Record, NEW b
    PROVE  LET t == w \o Append(q, e) IN Ends(t, Len(t), b, e.name, After(e))
<1> DEFINE s == w \o q
           t == w \o Append(q, e)
<1>1. Len(s) \in Nat /\ Len(t) = Len(s) + 1 /\ t[Len(s) + 1] = e
  BY LogAppend
<1>2. Len(t) \in 1..Len(t) /\ \A j \in (Len(t) + 1)..Len(t) : FALSE
  BY <1>1
<1>3. QED
  BY <1>1, <1>2 DEF Ends

\* Events of other resources do not matter.
LEMMA EndsWithout ==
    ASSUME NEW w \in Seq(Record), NEW q \in Seq(Record), NEW b, NEW n, NEW a,
           \A i \in DOMAIN q : q[i].name # n, Ends(w \o q, Len(w \o q), b, n, a)
    PROVE  Ends(w, Len(w), b, n, a)
<1> DEFINE s == w \o q
           k == Len(w)
<1>1. /\ k \in Nat /\ Len(s) \in Nat /\ k <= Len(s)
      /\ \A i \in 1..k : s[i] = w[i]
  OBVIOUS
<1>2. \A i \in 1..Len(s) : i > k => s[i].name # n
  <2> SUFFICES ASSUME NEW i \in 1..Len(s), i > k PROVE s[i].name # n
    OBVIOUS
  <2>1. s[i] = q[i - k] /\ i - k \in DOMAIN q
    OBVIOUS
  <2>2. QED
    BY <2>1
<1>3. Ends(s, Len(s), b, n, a)
  OBVIOUS
<1> HIDE DEF s, k
<1>4. CASE \A i \in 1..Len(s) : s[i].name # n
  <2>1. \A i \in 1..k : i \in 1..Len(s)
    BY <1>1
  <2>2. \A i \in 1..k : w[i].name # n
    BY <1>1, <1>4, <2>1
  <2>3. a = b
    BY <1>3, <1>4 DEF Ends
  <2>4. QED
    BY <2>2, <2>3 DEF Ends, k
<1>5. CASE ~(\A i \in 1..Len(s) : s[i].name # n)
  <2>1. PICK i \in 1..Len(s) : /\ s[i].name = n /\ After(s[i]) = a
                               /\ \A j \in (i + 1)..Len(s) : s[j].name # n
    BY <1>3, <1>5 DEF Ends
  <2>2. i \in 1..k
    BY <1>1, <1>2, <2>1
  <2>3. \A j \in (i + 1)..k : w[j].name # n
    <3>1. \A j \in (i + 1)..k : j \in 1..k /\ j \in (i + 1)..Len(s)
      BY <1>1
    <3>2. QED
      BY <1>1, <2>1, <3>1
  <2>4. w[i].name = n /\ After(w[i]) = a
    BY <1>1, <2>1, <2>2
  <2>5. QED
    BY <2>2, <2>3, <2>4 DEF Ends, k
<1>6. QED
  BY <1>4, <1>5

-----------------------------------------------------------------------------
(* Steps *)

LEMMA ApiInit == Init => ApiInv
<1> SUFFICES ASSUME Init PROVE ApiInv
  OBVIOUS
<1>1. /\ phase = "up" /\ cursor = 0 /\ resources = Empty /\ job = [c \in Process |-> Idle]
      /\ queue = <<>> /\ wal = <<>> /\ snap = Empty /\ torn = Empty
      /\ draft = NoDraft /\ claim = NoClaim
  BY DEF Init
<1>2. ApiType
  BY <1>1, EmptyRows DEF ApiType, NoDraft, NoClaim, Idle, Empty
<1>3. Running
  <2>1. wal \o queue = <<>> /\ Len(<<>>) = 0
    BY <1>1
  <2>2. \A n \in Name : Leaves(snap, n)
    BY <1>1, <2>1, EndsStart DEF Leaves
  <2>3. \A c \in Process : job[c].step # "publish"
    BY <1>1 DEF Idle
  <2>4. QED
    BY <1>1, <2>2, <2>3 DEF Running, NoDraft
<1>4. Drafting /\ Whole /\ Replaying /\ Stopped /\ Claimed
  BY <1>1 DEF Drafting, Whole, Replaying, Told, Stopped, Claimed, NoDraft, NoClaim, Empty, Idle
<1>5. QED
  BY <1>2, <1>3, <1>4 DEF ApiInv

\* A call on a resource that no other is on, or one is lost.
LEMMA StartApart ==
    ASSUME ApiInv, NEW c \in Process, NEW op, NEW step, NEW n, NEW v, Start(c, op, step, n, v),
           UNCHANGED torn
    PROVE  lost' = {} => lost = {} /\ Whole'
<1> SUFFICES ASSUME lost' = {} PROVE lost = {} /\ Whole'
  OBVIOUS
<1>1. lost' = lost \cup {"overlap" : x \in {y \in Process : job[y] # Idle /\ job[y].name = n}}
  BY DEF Start
<1>2. lost = {}
  BY <1>1
<1>3. \A y \in Process : job[y] # Idle => job[y].name # n
  <2> SUFFICES ASSUME NEW y \in Process, job[y] # Idle, job[y].name = n PROVE FALSE
    OBVIOUS
  <2>1. "overlap" \in lost'
    BY <1>1
  <2>2. QED
    BY <2>1
<1>4. \A x \in Process : job'[x] = IF x = c THEN [op |-> op, step |-> step, name |-> n, value |-> v]
                                 ELSE job[x]
  BY DEF Start, ApiInv, ApiType
<1>5. \A x \in Process : job[x].step # "idle" => job[x] # Idle
  BY DEF Idle
<1>6. \A x \in Process : (x # c /\ job'[x].step # "idle") => job'[x].name # job'[c].name
  BY <1>3, <1>4, <1>5
<1>7. QED
  BY <1>2, <1>4, <1>6 DEF ApiInv, Whole

\* A call that has checked and changed nothing yet.
LEMMA BeginStep ==
    ASSUME ApiInv, NEW c \in Caller, NEW n \in Name, NEW v \in Value,
           NEW op \in {"create", "update"}, Start(c, op, "insert", n, v),
           UNCHANGED <<phase, cursor, resources, subscribed, queue, files, draft, crashes>>
    PROVE  ApiInv'
<1>0. c \in Process
  BY DEF Process
<1>1. /\ phase = "up" /\ job[c] = Idle /\ claim' = NoClaim
      /\ job' = [job EXCEPT ![c] = [op |-> op, step |-> "insert", name |-> n, value |-> v]]
      /\ UNCHANGED <<phase, cursor, resources, queue, wal, snap, torn, draft>>
  BY DEF Start, files
<1>a. lost' = {} => lost = {} /\ Whole'
  BY <1>0, <1>1, StartApart
<1>2. ApiType'
  BY <1>0, <1>1, EmptyRows DEF ApiInv, ApiType, Call, NoClaim
<1>3. \A x \in Process : IF x = c THEN job'[x].step = "insert" /\ job[x].step = "idle"
                                ELSE job'[x] = job[x]
  BY <1>0, <1>1 DEF ApiInv, ApiType, Idle
<1>4. Running'
  <2>1. \A m \in Name : Pending(m)' <=> Pending(m)
    BY <1>3 DEF Pending
  <2>2. \A m : (Leaves(snap, m)' <=> Leaves(snap, m)) /\ (Leaves(draft.rows, m)' <=> Leaves(draft.rows, m))
    BY <1>1 DEF Leaves, At
  <2>3. QED
    BY <1>1, <1>3, <1>a, <2>1, <2>2 DEF ApiInv, Running, At
<1>5. Whole'
  BY <1>a DEF Whole
<1>6. Drafting' /\ Replaying' /\ Stopped' /\ Claimed'
  BY <1>1 DEF ApiInv, Drafting, Replaying, Stopped, Claimed, NoClaim
<1>7. QED
  BY <1>2, <1>4, <1>5, <1>6 DEF ApiInv

\* A call has changed its resource and has yet to publish it.
LEMMA ChangeStep ==
    ASSUME ApiInv, Whole', NEW c \in Process, NEW n \in Name,
           phase = "up", job[c].step # "publish",
           job'[c].step = "publish", job'[c].name = n,
           \A x \in Process : x # c => job'[x] = job[x],
           job' \in [Process -> Call \cup {Idle}], IsRows(resources'),
           \A m : At(resources', m) = IF m = n THEN After(job'[c]) ELSE At(resources, m),
           claim'.why # {},
           claim' = claim \/ claim' = NoClaim, lost' = {} => lost = {},
           UNCHANGED <<phase, cursor, queue, wal, snap, torn, draft>>
    PROVE  ApiInv'
<1>1. ApiType'
  BY EmptyRows DEF ApiInv, ApiType, NoClaim
<1>2. Running'
  <2> SUFFICES ASSUME lost' = {}, NEW m \in Name
               PROVE  /\ ~Pending(m)' =>
                             /\ Leaves(snap, m)'
                             /\ (draft.on /\ m \notin draft.left) => Leaves(draft.rows, m)'
                      /\ \A x \in Process :
                             (job'[x].step = "publish" /\ job'[x].name = m) =>
                                 At(resources', m) = After(job'[x])
    BY DEF Running
  <2>1. CASE m = n
    <3>1. Pending(m)'
      BY <2>1 DEF Pending
    <3>2. \A x \in Process : (job'[x].step = "publish" /\ job'[x].name = m) => x = c
      BY <2>1 DEF Whole
    <3>3. QED
      BY <2>1, <3>1, <3>2
  <2>2. CASE m # n
    <3>1. Pending(m)' <=> Pending(m)
      BY <2>2 DEF Pending
    <3>2. At(resources', m) = At(resources, m)
      BY <2>2
    <3>3. /\ Leaves(snap, m)' <=> Leaves(snap, m)
          /\ Leaves(draft.rows, m)' <=> Leaves(draft.rows, m)
      <4>1. At(resources, m)' = At(resources, m)
        BY <3>2 DEF At
      <4>2. QED
        BY <4>1 DEF Leaves
    <3>4. \A x \in Process : job'[x].name = m => x # c
      BY <2>2
    <3>5. QED
      BY <3>1, <3>2, <3>3, <3>4 DEF ApiInv, Running
  <2>3. QED
    BY <2>1, <2>2
<1>3. Drafting' /\ Replaying' /\ Stopped' /\ Claimed'
  BY DEF ApiInv, Drafting, Replaying, Stopped, Claimed
<1>4. QED
  BY <1>1, <1>2, <1>3 DEF ApiInv

LEMMA InsertStep ==
    ASSUME ApiInv, NEW c \in Process, Insert(c)
    PROVE  ApiInv'
<1>1. /\ phase = "up" /\ job[c].step = "insert"
      /\ resources' = Set(resources, job[c].name, job[c].value)
      /\ job' = [job EXCEPT ![c].step = "publish"]
      /\ claim' = claim
      /\ UNCHANGED <<phase, cursor, queue, wal, snap, torn, draft, lost>>
  BY DEF Insert, files
<1>2. PICK o \in {"create", "update"}, n \in Name, v \in Value :
          job[c] = [op |-> o, step |-> "insert", name |-> n, value |-> v]
  <2>1. job[c] \in Call
    BY <1>1 DEF ApiInv, ApiType, Idle
  <2>2. QED
    BY <1>1, <2>1 DEF Call
<1>3. job' = [job EXCEPT ![c] = [op |-> o, step |-> "publish", name |-> n, value |-> v]]
  <2>1. [job[c] EXCEPT !.step = "publish"] = [op |-> o, step |-> "publish", name |-> n, value |-> v]
    BY <1>2
  <2>2. job' = [job EXCEPT ![c] = [job[c] EXCEPT !.step = "publish"]]
    BY <1>1
  <2>3. QED
    BY <2>1, <2>2
<1>4. /\ job' \in [Process -> Call \cup {Idle}] /\ \A x \in Process : x # c => job'[x] = job[x]
      /\ job'[c] = [op |-> o, step |-> "publish", name |-> n, value |-> v]
  <2>1. [op |-> o, step |-> "publish", name |-> n, value |-> v] \in Call
    BY DEF Call, Op
  <2>2. QED
    BY <1>3, <2>1 DEF ApiInv, ApiType
<1>5. IsRows(resources')
  BY <1>1, <1>2, SetRows DEF ApiInv, ApiType
<1>6. \A m : At(resources', m) = IF m = n THEN After(job'[c]) ELSE At(resources, m)
  BY <1>1, <1>2, <1>4, AtSet DEF After
<1>7. claim'.why # {}
  BY <1>1 DEF ApiInv, Claimed, Quiet, At, Idle
<1>a. Whole'
  <2>1. \A x \in Process : job'[x].name = job[x].name /\ (job'[x].step # "idle" => job[x].step # "idle")
    BY <1>2, <1>4
  <2>2. QED
    BY <1>1, <2>1 DEF ApiInv, Whole
<1>8. QED
  <2>1. /\ job'[c].step = "publish" /\ job'[c].name = n
        /\ job' \in [Process -> Call \cup {Idle}] /\ \A x \in Process : x # c => job'[x] = job[x]
    BY <1>4
  <2>2. /\ phase = "up" /\ job[c].step # "publish" /\ claim' = claim
        /\ UNCHANGED <<phase, cursor, queue, wal, snap, torn, draft, lost>>
    BY <1>1
  <2>3. QED
    BY <1>5, <1>6, <1>7, <1>a, <2>1, <2>2, ChangeStep

LEMMA DeleteStep ==
    ASSUME ApiInv, NEW c \in Process, NEW n \in Name, Delete(c, n)
    PROVE  ApiInv'
<1> DEFINE v == resources[n]
<1>1. /\ phase = "up" /\ job[c] = Idle /\ n \in DOMAIN resources
      /\ resources' = Unset(resources, n)
      /\ job' = [job EXCEPT ![c] = [op |-> "delete", step |-> "publish", name |-> n, value |-> v]]
      /\ claim' = NoClaim
      /\ UNCHANGED <<phase, cursor, queue, wal, snap, torn, draft>>
  BY DEF Delete, Start, files
<1>a. lost' = {} => lost = {} /\ Whole'
  BY <1>1, StartApart DEF Delete
<1>b. Whole'
  BY <1>a DEF Whole
<1>2. v \in Value
  BY <1>1 DEF ApiInv, ApiType, IsRows
<1> HIDE DEF v
<1>3. job' \in [Process -> Call \cup {Idle}] /\ \A x \in Process : x # c => job'[x] = job[x]
  BY <1>1, <1>2 DEF ApiInv, ApiType, Call, Op
<1>4. job'[c] = [op |-> "delete", step |-> "publish", name |-> n, value |-> v]
  BY <1>1, <1>2 DEF ApiInv, ApiType
<1>5. IsRows(resources')
  BY <1>1, UnsetRows DEF ApiInv, ApiType
<1>6. \A m : At(resources', m) = IF m = n THEN After(job'[c]) ELSE At(resources, m)
  BY <1>1, <1>4, AtUnset DEF After
<1>7. claim'.why # {} /\ job[c].step # "publish"
  BY <1>1 DEF NoClaim, Idle
<1>8. QED
  BY <1>1, <1>a, <1>b, <1>3, <1>4, <1>5, <1>6, <1>7, ChangeStep

\* Once a change is lost to the WAL, nothing is claimed of the store.
LEMMA LossStep ==
    ASSUME ApiInv, phase = "up", lost' # {}, IsRows(resources'), queue' \in Seq(Record),
           wal' \in Seq(Record), \A i \in DOMAIN torn' : torn'[i] \in Readings,
           claim'.why # {}, claim' = claim \/ claim' = NoClaim,
           job' \in [Process -> Call \cup {Idle}],
           UNCHANGED <<phase, cursor, snap, draft>>
    PROVE  ApiInv'
<1>1. ApiType'
  BY EmptyRows DEF ApiInv, ApiType, NoClaim
<1>2. Running' /\ Drafting' /\ Whole' /\ Replaying' /\ Stopped' /\ Claimed'
  BY DEF ApiInv, Running, Drafting, Whole, Replaying, Told, Stopped, Claimed
<1>3. QED
  BY <1>1, <1>2 DEF ApiInv

LEMMA UpsertStep ==
    ASSUME ApiInv, NEW n \in Name, NEW v \in Value, Upsert(n, v)
    PROVE  ApiInv'
<1>1. /\ phase = "up" /\ lost' # {} /\ claim' = NoClaim
      /\ resources' = Set(resources, n, v)
      /\ UNCHANGED <<phase, cursor, wal, snap, torn, draft, queue, job>>
  BY DEF Upsert, files
<1>2. /\ IsRows(resources') /\ queue' \in Seq(Record) /\ wal' \in Seq(Record)
      /\ job' \in [Process -> Call \cup {Idle}] /\ \A i \in DOMAIN torn' : torn'[i] \in Readings
  BY <1>1, SetRows DEF ApiInv, ApiType
<1>3. claim'.why # {}
  BY <1>1 DEF NoClaim
<1>4. QED
  BY <1>1, <1>2, <1>3, LossStep

LEMMA TearLog ==
    ASSUME ApiInv, queue # <<>>, Tear
    PROVE  /\ wal' = Append(wal, Head(queue)) /\ wal' \in Seq(Record)
           /\ DOMAIN torn' = DOMAIN torn \cup {Len(wal) + 1}
           /\ \A i \in DOMAIN torn' : torn'[i] \in Readings
<1>1. PICK how \in Readings : torn' = Set(torn, Len(wal) + 1, how)
  BY DEF Tear
<1>2. wal' = Append(wal, Head(queue)) /\ wal' \in Seq(Record)
  BY DEF Tear, ApiInv, ApiType
<1>3. QED
  BY <1>1, <1>2 DEF Set, ApiInv, ApiType

LEMMA WriterFailsStep ==
    ASSUME ApiInv, WriterFails \/ WriterTears
    PROVE  ApiInv'
<1>1. /\ phase = "up" /\ lost' # {} /\ claim' = claim /\ queue # <<>> /\ queue' = Tail(queue)
      /\ UNCHANGED <<phase, cursor, snap, draft, resources, job>>
      /\ UNCHANGED <<wal, torn>> \/ Tear
  BY DEF WriterFails, WriterTears, files
<1>2. /\ IsRows(resources') /\ queue' \in Seq(Record) /\ wal' \in Seq(Record)
      /\ job' \in [Process -> Call \cup {Idle}] /\ \A i \in DOMAIN torn' : torn'[i] \in Readings
  BY <1>1, TearLog DEF ApiInv, ApiType
<1>3. claim'.why # {}
  BY <1>1 DEF ApiInv, Claimed, Quiet, At
<1>4. QED
  BY <1>1, <1>2, <1>3, LossStep

LEMMA PublishStep ==
    ASSUME ApiInv, NEW c \in Process, Publish(c)
    PROVE  ApiInv'
<1> DEFINE e == [op |-> job[c].op, name |-> job[c].name, value |-> job[c].value]
           full == Len(queue) = Cap
<1>1. /\ phase = "up" /\ job[c].step = "publish" /\ claim' = claim
      /\ queue' = IF ~subscribed THEN queue
                  ELSE Append(IF full THEN Tail(queue) ELSE queue, e)
      /\ lost' = lost \cup (IF ~subscribed THEN {"early"} ELSE IF full THEN {"lag"} ELSE {})
      /\ job' = [job EXCEPT ![c] = Idle]
      /\ UNCHANGED <<phase, cursor, resources, wal, snap, torn, draft>>
  BY DEF Publish, files
<1>2. job[c] \in Call
  BY <1>1 DEF ApiInv, ApiType, Idle
<1>3. e \in Record
  <2>1. PICK o \in Op, n \in Name, v \in Value :
            job[c] = [op |-> o, step |-> "publish", name |-> n, value |-> v]
    BY <1>1, <1>2 DEF Call
  <2>2. QED
    BY <2>1 DEF Record
<1>4. e.name = job[c].name /\ After(e) = After(job[c])
  BY DEF After
<1>5. claim'.why # {}
  BY <1>1 DEF ApiInv, Claimed, Quiet, At, Idle
<1>6. queue' \in Seq(Record)
  <2>1. full => Tail(queue) \in Seq(Record)
    <3>1. full => queue # <<>>
      BY ApiAssumption
    <3>2. QED
      BY <3>1 DEF ApiInv, ApiType
  <2>2. QED
    BY <1>1, <1>3, <2>1 DEF ApiInv, ApiType
<1>7. /\ job' \in [Process -> Call \cup {Idle}]
      /\ \A x \in Process : job'[x] = IF x = c THEN Idle ELSE job[x]
  BY <1>1 DEF ApiInv, ApiType
<1> HIDE DEF e
<1>8. CASE lost' # {}
  <2>1. /\ IsRows(resources') /\ wal' \in Seq(Record)
        /\ \A i \in DOMAIN torn' : torn'[i] \in Readings
    BY <1>1 DEF ApiInv, ApiType
  <2>2. QED
    BY <1>1, <1>5, <1>6, <1>7, <1>8, <2>1, LossStep
<1>9. CASE lost' = {}
  <2>1. lost = {} /\ queue' = Append(queue, e)
    BY <1>1, <1>9
  <2>2. ApiType'
    BY <1>1, <1>6, <1>7 DEF ApiInv, ApiType
  <2>3. Running'
    <3>0. \A r, m : Ends(wal \o queue, Len(wal \o queue), At(r, m), m, At(resources, m)) <=> Leaves(r, m)
      BY DEF Leaves
    <3>1. \A r, m : Leaves(r, m) /\ m # e.name =>
              LET t == wal \o Append(queue, e) IN Ends(t, Len(t), At(r, m), m, At(resources, m))
      BY <1>3, <3>0, EndsAppend DEF ApiInv, ApiType
    <3>2. \A r : LET t == wal \o Append(queue, e)
                 IN  Ends(t, Len(t), At(r, e.name), e.name, After(e))
      BY <1>3, EndsLast DEF ApiInv, ApiType
    <3> SUFFICES ASSUME NEW m \in Name
                 PROVE  /\ ~Pending(m)' =>
                               /\ Leaves(snap, m)'
                               /\ (draft.on /\ m \notin draft.left) => Leaves(draft.rows, m)'
                        /\ \A x \in Process :
                               (job'[x].step = "publish" /\ job'[x].name = m) =>
                                   At(resources, m) = After(job'[x])
      BY <1>1 DEF Running, At
    <3>3. At(resources, e.name) = After(e)
      <4>1. job[c].name \in Name
        BY <1>2 DEF Call
      <4>2. QED
        BY <1>1, <1>4, <2>1, <4>1 DEF ApiInv, Running
    <3>4. \A r : LET t == wal \o Append(queue, e)
                 IN  Leaves(r, m) \/ m = e.name => Ends(t, Len(t), At(r, m), m, At(resources, m))
      BY <3>1, <3>2, <3>3
    <3>5. /\ Leaves(snap, m) \/ m = e.name => Leaves(snap, m)'
          /\ Leaves(draft.rows, m) \/ m = e.name => Leaves(draft.rows, m)'
      BY <1>1, <2>1, <3>4 DEF Leaves, At
    <3>6. m # e.name => (Pending(m)' <=> Pending(m))
      BY <1>4, <1>7 DEF Pending, Idle
    <3>7. \A x \in Process : job'[x].step = "publish" => x # c /\ job'[x] = job[x]
      BY <1>7 DEF Idle
    <3>8. QED
      BY <1>1, <2>1, <3>5, <3>6, <3>7 DEF ApiInv, Running
  <2>4. Whole'
    BY <1>1, <1>7, <2>1 DEF ApiInv, Whole, Idle
  <2>5. Drafting' /\ Replaying' /\ Stopped' /\ Claimed'
    BY <1>1, <1>5 DEF ApiInv, Drafting, Replaying, Stopped, Claimed
  <2>6. QED
    BY <2>2, <2>3, <2>4, <2>5 DEF ApiInv
<1>10. QED
  BY <1>8, <1>9

\* Steps that leave the store, the calls, the log and the files alone.
LEMMA SubscribeStep ==
    ASSUME ApiInv, Subscribe \/ UNCHANGED vars
    PROVE  ApiInv'
<1>1. UNCHANGED <<phase, cursor, resources, job, queue, wal, snap, torn, draft, lost, claim>>
  BY DEF Subscribe, vars, files
<1>2. QED
  BY <1>1 DEF ApiInv, ApiType, Running, Drafting, Whole, Replaying, Told, Stopped, Claimed, Leaves, Pending, At, Quiet

LEMMA WriterAppendStep ==
    ASSUME ApiInv, WriterAppend
    PROVE  ApiInv'
<1>1. /\ phase = "up" /\ queue # <<>>
      /\ wal' = Append(wal, Head(queue)) /\ queue' = Tail(queue)
      /\ UNCHANGED <<phase, cursor, resources, job, snap, torn, draft, lost, claim>>
  BY DEF WriterAppend
<1>2. wal' \o queue' = wal \o queue /\ wal' \in Seq(Record) /\ queue' \in Seq(Record)
  BY <1>1, LogMove DEF ApiInv, ApiType
<1>3. ApiType'
  <2>1. cursor' \in 0..Len(wal')
    BY <1>1, <1>2 DEF ApiInv, ApiType
  <2>2. QED
    BY <1>1, <1>2, <2>1 DEF ApiInv, ApiType
<1>4. Running'
  BY <1>1, <1>2 DEF ApiInv, Running, Leaves, Pending, At
<1>5. Drafting' /\ Whole' /\ Replaying' /\ Stopped' /\ Claimed'
  BY <1>1 DEF ApiInv, Drafting, Whole, Replaying, Told, Stopped, Claimed, Quiet, At
<1>6. QED
  BY <1>3, <1>4, <1>5 DEF ApiInv

\* The snapshot's steps change neither the store nor the log.
LEMMA SnapBeginStep ==
    ASSUME ApiInv, SnapBegin
    PROVE  ApiInv'
<1>1. /\ phase = "up" /\ draft' = [on |-> TRUE, rows |-> Empty, left |-> Name]
      /\ UNCHANGED <<phase, cursor, resources, job, queue, wal, snap, torn, lost, claim>>
  BY DEF SnapBegin, files
<1>2. ApiType'
  BY <1>1, EmptyRows DEF ApiInv, ApiType
<1>3. Running'
  BY <1>1 DEF ApiInv, Running, Leaves, Pending, At
<1>4. Drafting' /\ Whole' /\ Replaying' /\ Stopped' /\ Claimed'
  BY <1>1 DEF ApiInv, Drafting, Whole, Replaying, Told, Stopped, Claimed, Quiet, At, Empty
<1>5. QED
  BY <1>2, <1>3, <1>4 DEF ApiInv

LEMMA SnapRowStep ==
    ASSUME ApiInv, NEW n \in Name, SnapRow(n)
    PROVE  ApiInv'
<1> DEFINE rows == IF n \in DOMAIN resources THEN Set(draft.rows, n, resources[n]) ELSE draft.rows
<1>1. /\ phase = "up" /\ n \in draft.left
      /\ UNCHANGED <<phase, cursor, resources, job, queue, wal, snap, torn, lost, claim>>
  BY DEF SnapRow, files
<1>2. draft' = [on |-> draft.on, rows |-> rows, left |-> draft.left \ {n}]
  BY DEF SnapRow, ApiInv, ApiType
<1>3. ApiType'
  <2>1. IsRows(rows)
    BY SetRows DEF ApiInv, ApiType, IsRows
  <2>2. QED
    BY <1>1, <1>2, <2>1 DEF ApiInv, ApiType
<1>4. draft.on => n \notin DOMAIN draft.rows
  BY <1>1 DEF ApiInv, Drafting
<1>5. \A m : m # n => At(rows, m) = At(draft.rows, m)
  BY AtSet
<1>6. draft.on => At(rows, n) = At(resources, n)
  <2>1. CASE n \in DOMAIN resources
    <3>1. At(Set(draft.rows, n, resources[n]), n) = <<resources[n]>>
      BY AtSet
    <3>2. At(resources, n) = <<resources[n]>>
      BY <2>1 DEF At
    <3>3. QED
      BY <2>1, <3>1, <3>2
  <2>2. CASE n \notin DOMAIN resources
    BY <1>4, <2>2 DEF At
  <2>3. QED
    BY <2>1, <2>2
<1>7. draft.on => \A m \in draft.left \ {n} : m \notin DOMAIN rows
  BY DEF ApiInv, Drafting, Set
<1> HIDE DEF rows
<1>8. Running'
  <2>1. \A m \in Name : Leaves(snap, m)' <=> Leaves(snap, m)
    BY <1>1 DEF Leaves, At
  <2>2. \A m \in Name : m # n => (Leaves(draft.rows, m)' <=> Leaves(draft.rows, m))
    <3>1. \A m : m # n => (At(draft.rows, m)' = At(draft.rows, m))
      BY <1>2, <1>5 DEF At
    <3>2. QED
      BY <1>1, <3>1 DEF Leaves, At
  <2>3. draft.on => (Leaves(snap, n) => Leaves(draft.rows, n)')
    <3>1. Leaves(snap, n) => LET log == wal \o queue
                             IN  Ends(log, Len(log), At(resources, n), n, At(resources, n))
      BY EndsOver DEF Leaves
    <3>2. draft.on => At(draft.rows, n)' = At(resources, n)
      BY <1>2, <1>6 DEF At
    <3>3. QED
      BY <1>1, <3>1, <3>2 DEF Leaves, At
  <2>4. \A m \in Name : Pending(m)' <=> Pending(m)
    BY <1>1 DEF Pending
  <2>5. QED
    BY <1>1, <1>2, <2>1, <2>2, <2>3, <2>4 DEF ApiInv, Running, At
<1>9. Drafting' /\ Whole' /\ Replaying' /\ Stopped' /\ Claimed'
  BY <1>1, <1>2, <1>7 DEF ApiInv, Drafting, Whole, Replaying, Told, Stopped, Claimed, Quiet, At
<1>10. QED
  BY <1>3, <1>8, <1>9 DEF ApiInv

LEMMA SnapRenameStep ==
    ASSUME ApiInv, SnapRename
    PROVE  ApiInv'
<1>1. /\ phase = "up" /\ draft.on /\ draft.left = {} /\ snap' = draft.rows /\ draft' = NoDraft
      /\ UNCHANGED <<phase, cursor, resources, job, queue, wal, torn, lost, claim>>
  BY DEF SnapRename
<1>2. ApiType'
  BY <1>1, EmptyRows DEF ApiInv, ApiType, NoDraft
<1>3. Running'
  <2>1. \A m : Leaves(snap, m)' <=> Leaves(draft.rows, m)
    BY <1>1 DEF Leaves, At
  <2>2. \A m : Pending(m)' <=> Pending(m)
    BY <1>1 DEF Pending
  <2>3. QED
    BY <1>1, <2>1, <2>2 DEF ApiInv, Running, At, NoDraft
<1>4. Drafting' /\ Whole' /\ Replaying' /\ Stopped' /\ Claimed'
  BY <1>1 DEF ApiInv, Drafting, Whole, Replaying, Told, Stopped, Claimed, Quiet, At, NoDraft
<1>5. QED
  BY <1>2, <1>3, <1>4 DEF ApiInv

\* A crash leaves in the files what was all in the WAL.
LEMMA CrashClaim ==
    ASSUME ApiInv, Crash, phase = "up", lost = {}
    PROVE  /\ \A i \in DOMAIN torn' : i = Len(wal') /\ wal'[i].name \notin claim'.settled
           /\ \A n \in claim'.settled :
                  Ends(wal', Len(wal'), At(snap, n), n, At(resources, n))
<1>1. claim' = [why |-> lost, rows |-> resources, settled |-> {n \in Name : Settled(n)}]
  BY DEF Crash
<1>2. \A n \in claim'.settled :
          /\ n \in Name /\ ~Pending(n) /\ \A i \in DOMAIN queue : queue[i].name # n
  BY <1>1 DEF Settled, Pending
<1>3. DOMAIN torn = {} /\ wal \in Seq(Record) /\ queue \in Seq(Record) /\ Len(wal) \in Nat
  BY DEF ApiInv, Whole, ApiType
<1>4. \A n \in claim'.settled : Ends(wal, Len(wal), At(snap, n), n, At(resources, n))
  <2> SUFFICES ASSUME NEW n \in claim'.settled
               PROVE  Ends(wal, Len(wal), At(snap, n), n, At(resources, n))
    OBVIOUS
  <2>1. Leaves(snap, n)
    BY <1>2 DEF ApiInv, Running
  <2>2. Ends(wal \o queue, Len(wal \o queue), At(snap, n), n, At(resources, n))
    BY <2>1 DEF Leaves
  <2>3. QED
    BY <1>2, <1>3, <2>2, EndsWithout
<1>5. CASE UNCHANGED files
  BY <1>3, <1>4, <1>5 DEF files
<1>6. CASE queue # <<>> /\ Tear
  <2>1. /\ wal' = Append(wal, Head(queue)) /\ DOMAIN torn' = {Len(wal) + 1}
    BY <1>3, <1>6, TearLog
  <2>2. /\ Len(wal') = Len(wal) + 1 /\ wal'[Len(wal) + 1] = Head(queue)
        /\ \A i \in 1..Len(wal) : wal[i] = wal'[i]
    BY <1>3, <1>6, <2>1
  <2>3. Head(queue) = queue[1] /\ 1 \in DOMAIN queue
    BY <1>3, <1>6
  <2>4. \A n \in claim'.settled : wal'[Len(wal) + 1].name # n
    BY <1>2, <2>2, <2>3
  <2>5. ASSUME NEW n \in claim'.settled
        PROVE  Ends(wal', Len(wal'), At(snap, n), n, At(resources, n))
    <3>1. Ends(wal', Len(wal), At(snap, n), n, At(resources, n))
      BY <1>3, <1>4, <2>2, EndsSame
    <3>2. Ends(wal', Len(wal) + 1, At(snap, n), n,
               IF wal'[Len(wal) + 1].name = n THEN After(wal'[Len(wal) + 1]) ELSE At(resources, n))
      BY <1>3, <3>1, EndsNext
    <3>3. QED
      BY <2>2, <2>4, <3>2
  <2>6. QED
    BY <2>1, <2>2, <2>4, <2>5
<1>7. QED
  BY <1>5, <1>6 DEF Crash

LEMMA CrashStep ==
    ASSUME ApiInv, Crash
    PROVE  ApiInv'
<1>1. /\ phase # "down" /\ phase' = "down" /\ cursor' = 0 /\ resources' = Empty
      /\ job' = [c \in Process |-> Idle] /\ queue' = <<>> /\ draft' = NoDraft
      /\ snap' = snap /\ lost' = {"torn" : i \in DOMAIN torn'}
  BY DEF Crash, files
<1>2. claim' = IF phase = "replay" THEN claim
               ELSE [why |-> lost, rows |-> resources, settled |-> {n \in Name : Settled(n)}]
  BY DEF Crash
<1>3. UNCHANGED <<wal, torn>> \/ (phase = "up" /\ queue # <<>> /\ Tear)
  BY DEF Crash, files
<1>4. ApiType'
  <2>1. /\ claim' = [why |-> claim'.why, rows |-> claim'.rows, settled |-> claim'.settled]
        /\ IsRows(claim'.rows) /\ claim'.settled \subseteq Name
    BY <1>2 DEF ApiInv, ApiType
  <2>2. wal' \in Seq(Record) /\ \A i \in DOMAIN torn' : torn'[i] \in Readings
    BY <1>3, TearLog DEF ApiInv, ApiType
  <2>3. QED
    BY <1>1, <2>1, <2>2, EmptyRows DEF ApiInv, ApiType, NoDraft
<1>5. Claimed'
  <2>1. CASE phase = "replay"
    BY <1>1, <1>2, <1>3, <2>1 DEF ApiInv, Claimed, At
  <2>2. CASE phase = "up" /\ lost = {}
    <3>1. claim'.rows = resources
      BY <1>2, <2>2
    <3>2. QED
      BY <1>1, <2>2, <3>1, CrashClaim DEF Claimed, At
  <2>3. CASE phase = "up" /\ lost # {}
    BY <1>2, <2>3 DEF Claimed
  <2>4. QED
    BY <1>1, <2>1, <2>2, <2>3 DEF ApiInv, ApiType
<1>6. Whole'
  <2>1. lost' = {} => DOMAIN torn' = {}
    BY <1>1
  <2>2. \A x \in Process : job'[x].step = "idle"
    BY <1>1 DEF Idle
  <2>3. QED
    BY <2>1, <2>2 DEF Whole
<1>7. Running' /\ Drafting' /\ Replaying' /\ Stopped'
  BY <1>1 DEF Running, Drafting, Replaying, Stopped, NoDraft
<1>8. QED
  BY <1>4, <1>5, <1>6, <1>7 DEF ApiInv

LEMMA LoadStep ==
    ASSUME ApiInv, LoadSnapshot
    PROVE  ApiInv'
<1>1. /\ phase = "down" /\ phase' = "replay" /\ resources' = snap
      /\ UNCHANGED <<cursor, job, queue, wal, snap, torn, draft, lost, claim>>
  BY DEF LoadSnapshot, files
<1>2. ApiType'
  BY <1>1 DEF ApiInv, ApiType
<1>3. Replaying'
  <2>1. cursor' = 0
    BY <1>1 DEF ApiInv, ApiType
  <2>2. QED
    BY <1>1, <2>1, EndsStart DEF Replaying, At
<1>4. Running' /\ Drafting' /\ Whole' /\ Stopped' /\ Claimed'
  BY <1>1 DEF ApiInv, Running, Drafting, Whole, Stopped, Claimed, At
<1>5. QED
  BY <1>2, <1>3, <1>4 DEF ApiInv

LEMMA MinOfTwo == \A x, y \in Nat : Min({x, y}) \in Nat /\ Min({x, y}) <= y
<1> SUFFICES ASSUME NEW x \in Nat, NEW y \in Nat
             PROVE  Min({x, y}) \in Nat /\ Min({x, y}) <= y
  OBVIOUS
<1>1. \E m \in {x, y} : \A z \in {x, y} : m <= z
  OBVIOUS
<1>2. Min({x, y}) \in {x, y} /\ \A z \in {x, y} : Min({x, y}) <= z
  BY <1>1 DEF Min
<1>3. QED
  BY <1>2

\* A torn record at the end is about none of the resources that are told; one
\* elsewhere leaves none told.
LEMMA ReplayStep ==
    ASSUME ApiInv, ReplayRecord
    PROVE  ApiInv'
<1> DEFINE k == cursor + 1
           e == wal[k]
<1>1. /\ phase = "replay" /\ cursor < Len(wal)
      /\ UNCHANGED <<phase, job, queue, wal, snap, torn, draft, lost, claim>>
  BY DEF ReplayRecord, files
<1>2. \/ k \notin DOMAIN torn /\ resources' = Replayed(resources, e) /\ cursor' = k
      \/ k \in DOMAIN torn /\ k = Len(wal) /\ resources' = resources /\ cursor' = k
      \/ /\ k \in DOMAIN torn /\ k < Len(wal)
         /\ resources' \in {resources, Replayed(resources, e)}
         /\ cursor' = Min({k + torn[k].misses, Len(wal)})
  BY DEF ReplayRecord
<1>3. e \in Record /\ cursor \in Nat /\ k \in Nat /\ k <= Len(wal) /\ Len(wal) \in Nat
  BY <1>1 DEF ApiInv, ApiType
<1>4. ApiType'
  <2>1. cursor' \in 0..Len(wal')
    <3>1. k \in DOMAIN torn => k + torn[k].misses \in Nat
      BY <1>3, ApiAssumption DEF ApiInv, ApiType
    <3> HIDE DEF k
    <3>2. QED
      BY <1>1, <1>2, <1>3, <3>1, MinOfTwo
  <2>2. IsRows(resources')
    BY <1>2, <1>3, ReplayedRows DEF ApiInv, ApiType
  <2>3. QED
    BY <1>1, <2>1, <2>2 DEF ApiInv, ApiType
<1>5. Replaying'
  <2> SUFFICES ASSUME NEW n \in Name, Told(n)
               PROVE  Ends(wal, cursor', At(snap, n), n, At(resources', n))
    BY <1>1 DEF Replaying, Told, At
  <2>1. Ends(wal, cursor, At(snap, n), n, At(resources, n))
    BY <1>1 DEF ApiInv, Replaying
  <2>2. Ends(wal, k, At(snap, n), n, IF e.name = n THEN After(e) ELSE At(resources, n))
    BY <1>3, <2>1, EndsNext
  <2>3. CASE k \notin DOMAIN torn
    <3>1. At(resources', n) = IF e.name = n THEN After(e) ELSE At(resources, n)
      BY <1>2, <2>3, AtReplayed
    <3>2. QED
      BY <1>2, <2>2, <2>3, <3>1
  <2>4. CASE k \in DOMAIN torn
    <3>1. claim.why = {} /\ n \in claim.settled
      BY <2>4 DEF Told, ApiInv, Whole
    <3>2. k = Len(wal) /\ e.name # n
      BY <1>1, <2>4, <3>1 DEF ApiInv, Claimed
    <3>3. cursor' = k /\ resources' = resources
      BY <1>2, <1>3, <2>4, <3>2
    <3>4. QED
      BY <2>2, <3>2, <3>3
  <2>5. QED
    BY <2>3, <2>4
<1>6. Running' /\ Drafting' /\ Whole' /\ Stopped' /\ Claimed'
  BY <1>1 DEF ApiInv, Running, Drafting, Whole, Stopped, Claimed, At
<1>7. QED
  BY <1>4, <1>5, <1>6 DEF ApiInv

\* restore has replayed the WAL to its end: the store is what the files say.
LEMMA ServeStep ==
    ASSUME ApiInv, Serve
    PROVE  ApiInv'
<1>1. /\ phase = "replay" /\ cursor = Len(wal) /\ phase' = "up" /\ cursor' = 0
      /\ UNCHANGED <<resources, job, queue, wal, snap, torn, draft, lost, claim>>
  BY DEF Serve, files
<1>2. queue = <<>> /\ draft = NoDraft /\ \A c \in Process : job[c] = Idle
  BY <1>1 DEF ApiInv, Stopped
<1>3. ApiType'
  BY <1>1 DEF ApiInv, ApiType
<1>4. \A n \in Name : Told(n) => Ends(wal, Len(wal), At(snap, n), n, At(resources, n))
  BY <1>1 DEF ApiInv, Replaying
<1>5. Running'
  <2> SUFFICES ASSUME lost = {} PROVE Running'
    BY <1>1 DEF Running
  <2>1. wal' \o queue' = wal
    BY <1>1, <1>2 DEF ApiInv, ApiType
  <2>2. \A n \in Name : Leaves(snap, n)'
    BY <1>1, <1>4, <2>1 DEF Leaves, At, Told
  <2>3. \A c \in Process : job'[c].step # "publish"
    BY <1>1, <1>2 DEF Idle
  <2>4. QED
    BY <1>1, <1>2, <2>2, <2>3 DEF Running, NoDraft
<1>6. Claimed'
  <2> SUFFICES ASSUME claim.why = {}
               PROVE  Quiet /\ \A n \in claim.settled : At(resources, n) = At(claim.rows, n)
    BY <1>1 DEF Claimed, Quiet, At
  <2>1. \A n \in claim.settled : Ends(wal, Len(wal), At(snap, n), n, At(claim.rows, n))
    BY <1>1 DEF ApiInv, Claimed
  <2>2. Len(wal) \in Nat /\ claim.settled \subseteq Name
    BY DEF ApiInv, ApiType
  <2>3. \A n \in claim.settled : Ends(wal, Len(wal), At(snap, n), n, At(resources, n))
    BY <1>4, <2>2 DEF Told
  <2>4. \A n \in claim.settled : At(resources, n) = At(claim.rows, n)
    BY <2>1, <2>2, <2>3, EndsUnique
  <2>5. QED
    BY <1>2, <2>4 DEF Quiet
<1>7. Drafting' /\ Whole' /\ Replaying' /\ Stopped'
  BY <1>1, <1>2 DEF ApiInv, Drafting, Whole, Replaying, Stopped, NoDraft
<1>8. QED
  BY <1>3, <1>5, <1>6, <1>7 DEF ApiInv

LEMMA ApiStep ==
    ASSUME ApiInv, [Next]_vars
    PROVE  ApiInv'
<1>1. ASSUME NEW c \in Process, Insert(c) PROVE ApiInv'
  BY <1>1, InsertStep
<1>2. ASSUME NEW c \in Process, Publish(c) PROVE ApiInv'
  BY <1>2, PublishStep
<1>3. ASSUME NEW c \in Process, NEW n \in Name, Delete(c, n) PROVE ApiInv'
  BY <1>3, DeleteStep
<1>4. ASSUME NEW c \in Caller, NEW n \in Name, NEW v \in Value, Create(c, n, v) PROVE ApiInv'
  BY <1>4, BeginStep DEF Create
<1>5. ASSUME NEW c \in Caller, NEW n \in Name, NEW v \in Value, Update(c, n, v) PROVE ApiInv'
  BY <1>5, BeginStep DEF Update
<1>6. ASSUME NEW n \in Name, SnapRow(n) PROVE ApiInv'
  BY <1>6, SnapRowStep
<1>7. ASSUME NEW n \in Name, NEW v \in Value, Upsert(n, v) PROVE ApiInv'
  BY <1>7, UpsertStep
<1>8. CASE Subscribe \/ UNCHANGED vars
  BY <1>8, SubscribeStep
<1>9. CASE WriterAppend \/ WriterFails \/ WriterTears
  BY <1>9, WriterAppendStep, WriterFailsStep
<1>10. CASE SnapBegin \/ SnapRename
  BY <1>10, SnapBeginStep, SnapRenameStep
<1>11. CASE Crash \/ LoadSnapshot \/ ReplayRecord \/ Serve
  BY <1>11, CrashStep, LoadStep, ReplayStep, ServeStep
<1>12. QED
  BY <1>1, <1>2, <1>3, <1>4, <1>5, <1>6, <1>7, <1>8, <1>9, <1>10, <1>11 DEF Next

-----------------------------------------------------------------------------
(* Theorems *)

\* The store that serves again after a crash is the one that crashed, on
\* every resource whose changes were all in the WAL: for any number of
\* handlers beside the apply daemon, whatever the crash interrupts (a write of
\* the WAL, a snapshot that is being collected, a restore), if the process
\* that crashed had found no torn record, lost no event, applied no upsert and
\* had no two calls on one resource at a time.
THEOREM RestoreKeepsResources == Spec => []ResourcesSurvive
<1>1. ApiInv => ResourcesSurvive
  <2>1. ApiInv /\ claim.why = {} /\ phase = "up" =>
            \A n \in claim.settled : At(resources, n) = At(claim.rows, n)
    BY DEF ApiInv, Claimed
  <2>2. QED
    BY <2>1, AtSame DEF ResourcesSurvive, Survived
<1>2. QED
  BY ApiInit, ApiStep, <1>1, PTL DEF Spec
=============================================================================
