------------------------------- MODULE KvProofs -------------------------------
(***************************************************************************)
(* Proofs about the etcd store: concurrent callers of one store, for any   *)
(* number of callers, any keys, leases and calls; one caller after the     *)
(* other, for any keys, values, leases, transactions and compactions, with *)
(* the invariant StoreInv that every operation keeps; and the stores of a  *)
(* cluster that apply one log beside their members' own writes, for any    *)
(* number of members and any log.                                          *)
(***************************************************************************)
EXTENDS KvStore, KvConcurrent, KvReplicas,
        FiniteSetTheorems, SequenceTheorems, WellFoundedInduction, TLAPS

-----------------------------------------------------------------------------
(* Types *)

\* A function, a sequence.
IsMap(f) == f = [x \in DOMAIN f |-> f[x]]
IsSequence(s) == \E S : s \in Seq(S)

\* A caller's call with its local variables, whatever they hold, and what
\* the steps of a call make of them.
Made(call, a, t, o, r, k, p, s, l) ==
    [call |-> call, asks |-> a, todo |-> t, op |-> o, rev |-> r,
     key |-> k, prev |-> p, scan |-> s, left |-> l]
IsJob(j) == j = Made(j.call, j.asks, j.todo, j.op, j.rev, j.key, j.prev, j.scan, j.left)
Called(j, call, a, t, o, l) == Made(call, a, t, o, j.rev, j.key, j.prev, j.scan, l)
Asked(j, a, t) == Made(j.call, a, t, j.op, j.rev, j.key, j.prev, j.scan, j.left)
Found(j, k, p, l) == Made(j.call, j.asks, j.todo, j.op, j.rev, k, p, j.scan, l)
Noted(j, s, l) == Made(j.call, j.asks, j.todo, j.op, j.rev, j.key, j.prev, s, l)
Numbered(j, r) == Made(j.call, j.asks, j.todo, j.op, r, j.key, j.prev, j.scan, j.left)

\* Where a call can be, and with what.
PutSteps == {"read", "detach", "insert", "index", "history", "attach", "dispatch"}
DeleteSteps == {"detach", "index", "history", "dispatch"}
RevokeSteps == {"remove", "take", "index", "history", "dispatch"}
Putting(p, j) ==
    /\ p \in PutSteps /\ j.op \in CallOp /\ j.op.op = "put"
    /\ j.key = j.op.key /\ j.scan = {} /\ j.left = {}
Scanning(p, j) ==
    /\ p = "scan" /\ j.op \in CallOp /\ j.op.op = "range"
    /\ j.scan \subseteq Key /\ j.left \subseteq Key
Choosing(p, j) ==
    /\ p = "remove" /\ j.op \in CallOp /\ j.op.op \in {"delete", "range"} /\ j.scan = {}
    /\ j.left \subseteq Key /\ (j.op.op = "delete" => j.left \subseteq {j.op.key})
Removing(p, j) ==
    /\ p \in DeleteSteps /\ j.op \in CallOp /\ j.op.op \in {"delete", "range"} /\ j.scan = {}
    /\ j.left \subseteq Key /\ (j.op.op = "delete" => j.left = {})
    /\ j.key \in Key /\ j.key \notin j.left
Revoking(p, j) == p \in RevokeSteps /\ j.op.op = "revoke"
Fits(p, j) ==
    \/ p \in {"idle", "next"} \/ (p = "compare" /\ j.call \in Jobs)
    \/ Putting(p, j) \/ Scanning(p, j) \/ Choosing(p, j) \/ Removing(p, j) \/ Revoking(p, j)

Sound(p, j) == IsJob(j) /\ j.rev \in Nat /\ j.todo \in Seq(CallOp) /\ Fits(p, j)

StoreType ==
    /\ rev \in Nat \ {0}
    /\ IsMap(current) /\ IsMap(history) /\ IsSequence(feed)
    /\ index \in [Key -> Seq(Nat)]
LocalType ==
    /\ pc = [c \in Caller |-> pc[c]] /\ job = [c \in Caller |-> job[c]]
    /\ \A c \in Caller : Sound(pc[c], job[c])
CallsType == StoreType /\ LocalType

-----------------------------------------------------------------------------
(* The helpers of KvOps *)

\* What a map holds once a key is set.
LEMMA ExtendIs ==
    ASSUME NEW f, NEW x, NEW y
    PROVE  /\ IsMap(Extend(f, x, y)) /\ DOMAIN Extend(f, x, y) = DOMAIN f \cup {x}
           /\ Extend(f, x, y)[x] = y
           /\ \A z \in DOMAIN f : z # x => Extend(f, x, y)[z] = f[z]
BY DEF Extend, IsMap

\* What a map holds once keys are removed.
LEMMA WithoutIs ==
    ASSUME NEW f, NEW S
    PROVE  /\ IsMap(Without(f, S)) /\ DOMAIN Without(f, S) = DOMAIN f \ S
           /\ \A z \in DOMAIN f \ S : Without(f, S)[z] = f[z]
BY DEF Without, Restrict, IsMap

\* A sequence grows by one.
LEMMA AppendIs ==
    ASSUME NEW s, IsSequence(s), NEW e
    PROVE  /\ IsSequence(Append(s, e))
           /\ \A i \in DOMAIN Append(s, e) :
                 \/ i \in DOMAIN s /\ Append(s, e)[i] = s[i]
                 \/ Append(s, e)[i] = e
<1>1. PICK S : s \in Seq(S)
  BY DEF IsSequence
<1>2. s \in Seq(S \cup {e}) /\ e \in S \cup {e}
  BY <1>1, SeqMonotonic
<1>3. Append(s, e) \in Seq(S \cup {e}) /\ Len(Append(s, e)) = Len(s) + 1
      /\ (\A i \in 1..Len(s) : Append(s, e)[i] = s[i]) /\ Append(s, e)[Len(s) + 1] = e
  BY <1>2, AppendProperties
<1>4. Len(s) \in Nat /\ DOMAIN s = 1..Len(s) /\ DOMAIN Append(s, e) = 1..(Len(s) + 1)
  BY <1>1, <1>3, LenProperties
<1> QED BY <1>3, <1>4 DEF IsSequence

-----------------------------------------------------------------------------
(* What a step does to its caller *)

\* What the EXCEPTs of the steps make of a call.
LEMMA AskedIs ==
    ASSUME NEW j, IsJob(j), NEW x, NEW y, NEW w, w = [j EXCEPT !.asks = x, !.todo = y]
    PROVE  w = Asked(j, x, y)
<1>1. [j EXCEPT !.asks = x] = Asked(j, x, j.todo)
  BY DEF IsJob, Made, Asked
<1>2. w = [Asked(j, x, j.todo) EXCEPT !.todo = y]
  BY <1>1
<1> QED BY <1>2 DEF Made, Asked

LEMMA AsksIs ==
    ASSUME NEW j, IsJob(j), NEW x, NEW w, w = [j EXCEPT !.asks = x]
    PROVE  w = Asked(j, x, j.todo)
BY DEF IsJob, Made, Asked

LEMMA PrevIs ==
    ASSUME NEW j, IsJob(j), NEW x, NEW w, w = [j EXCEPT !.prev = x]
    PROVE  w = Found(j, j.key, x, j.left)
BY DEF IsJob, Made, Found

LEMMA LeftIs ==
    ASSUME NEW j, IsJob(j), NEW x, NEW w, w = [j EXCEPT !.left = x]
    PROVE  w = Found(j, j.key, j.prev, x)
BY DEF IsJob, Made, Found

LEMMA KeyFoundIs ==
    ASSUME NEW j, IsJob(j), NEW x, NEW y, NEW z, NEW w, w = [j EXCEPT !.left = x, !.key = y, !.prev = z]
    PROVE  w = Found(j, y, z, x)
<1>0. [j EXCEPT !.left = x] = Found(j, j.key, j.prev, x)
  BY DEF IsJob, Made, Found
<1>1. w = [[Found(j, j.key, j.prev, x) EXCEPT !.key = y] EXCEPT !.prev = z]
  BY <1>0
<1>2. [Found(j, j.key, j.prev, x) EXCEPT !.key = y] = Found(j, y, j.prev, x)
  BY DEF Made, Found
<1>3. [Found(j, y, j.prev, x) EXCEPT !.prev = z] = Found(j, y, z, x)
  BY DEF Made, Found
<1> QED BY <1>1, <1>2, <1>3, Zenon

LEMMA NotedIs ==
    ASSUME NEW j, IsJob(j), NEW x, NEW y, NEW w, w = [j EXCEPT !.scan = x, !.left = y]
    PROVE  w = Noted(j, x, y)
<1>1. [j EXCEPT !.scan = x] = Noted(j, x, j.left)
  BY DEF IsJob, Made, Noted
<1>2. w = [Noted(j, x, j.left) EXCEPT !.left = y]
  BY <1>1
<1> QED BY <1>2 DEF Made, Noted

LEMMA NumberedIs ==
    ASSUME NEW j, IsJob(j), NEW x, NEW w, w = [j EXCEPT !.rev = x]
    PROVE  w = Numbered(j, x)
BY DEF IsJob, Made, Numbered

\* A call's fields.
LEMMA MadeIs ==
    ASSUME NEW f1, NEW f2, NEW f3, NEW f4, NEW f5, NEW f6, NEW f7, NEW f8, NEW f9, NEW m,
           m = Made(f1, f2, f3, f4, f5, f6, f7, f8, f9)
    PROVE  /\ IsJob(m) /\ m.call = f1 /\ m.asks = f2 /\ m.todo = f3 /\ m.op = f4 /\ m.rev = f5
           /\ m.key = f6 /\ m.prev = f7 /\ m.scan = f8 /\ m.left = f9
BY DEF Made, IsJob

\* Caller c goes from step p to step q with call w; the others stay.
Move(c, p, q, w) ==
    /\ pc[c] = p /\ pc'[c] = q /\ job'[c] = w
    /\ \A d \in Caller : d # c => pc'[d] = pc[d] /\ job'[d] = job[d]
    /\ pc' = [d \in Caller |-> pc'[d]] /\ job' = [d \in Caller |-> job'[d]]

LEMMA MoveIs ==
    ASSUME CallsType, NEW c \in Caller, NEW q, NEW w,
           pc' = [pc EXCEPT ![c] = q], job' = [job EXCEPT ![c] = w]
    PROVE  Move(c, pc[c], q, w)
BY DEF CallsType, LocalType, Move

\* The same where the step or the call stays as it was.
LEMMA StayIs ==
    ASSUME CallsType, NEW c \in Caller
    PROVE  /\ \A w : (pc' = pc /\ job' = [job EXCEPT ![c] = w]) => Move(c, pc[c], pc[c], w)
           /\ \A q : (pc' = [pc EXCEPT ![c] = q] /\ job' = job) => Move(c, pc[c], q, job[c])
BY DEF CallsType, LocalType, Move

\* The calls as they begin.
LEMMA NoJobIs ==
    IsJob(NoJob) /\ NoJob.rev = 0 /\ NoJob.todo = <<>> /\ NoJob.op.op # "revoke"
<1>1. ASSUME NEW f1, NEW f2, NEW f3, NEW f4, NEW f5, NEW f6, NEW f7, NEW f8, NEW f9
      PROVE  /\ IsJob(Made(f1, f2, f3, f4, f5, f6, f7, f8, f9))
             /\ Made(f1, f2, f3, f4, f5, f6, f7, f8, f9).rev = f5
             /\ Made(f1, f2, f3, f4, f5, f6, f7, f8, f9).todo = f3
  BY DEF Made, IsJob
<1>2. NoJob = Made(NoCall, <<>>, <<>>, NoOp, 0, 0, Absent, {}, {})
  BY Zenon DEF NoJob, Made
<1>3. IsJob(Made(NoCall, <<>>, <<>>, NoOp, 0, 0, Absent, {}, {}))
  BY <1>1, Zenon
<1>4. NoJob.rev = 0 /\ NoJob.todo = <<>> /\ NoJob.op.op # "revoke"
  BY DEF NoJob, NoOp
<1> QED BY <1>2, <1>3, <1>4, Zenon

LEMMA PlainCalled ==
    ASSUME NEW n, IsJob(n), NEW j, NEW x, NEW w, w = [n EXCEPT !.call = j, !.todo = x]
    PROVE  w = Called(n, j, n.asks, x, n.op, n.left)
<1>1. [n EXCEPT !.call = j] = Called(n, j, n.asks, n.todo, n.op, n.left)
  BY DEF IsJob, Made, Called
<1>2. w = [Called(n, j, n.asks, n.todo, n.op, n.left) EXCEPT !.todo = x]
  BY <1>1
<1> QED BY <1>2 DEF Made, Called

LEMMA TxnCalled ==
    ASSUME NEW n, IsJob(n), NEW j, NEW x, NEW w, w = [n EXCEPT !.call = j, !.asks = x]
    PROVE  w = Called(n, j, x, n.todo, n.op, n.left)
<1>1. [n EXCEPT !.call = j] = Called(n, j, n.asks, n.todo, n.op, n.left)
  BY DEF IsJob, Made, Called
<1>2. w = [Called(n, j, n.asks, n.todo, n.op, n.left) EXCEPT !.asks = x]
  BY <1>1
<1> QED BY <1>2 DEF Made, Called

LEMMA RevokeCalled ==
    ASSUME NEW n, IsJob(n), NEW j, NEW o, NEW x, NEW w,
           w = [n EXCEPT !.call = j, !.op = o, !.left = x]
    PROVE  w = Called(n, j, n.asks, n.todo, o, x)
<1>1. [n EXCEPT !.call = j] = Called(n, j, n.asks, n.todo, n.op, n.left)
  BY DEF IsJob, Made, Called
<1>2. w = [[Called(n, j, n.asks, n.todo, n.op, n.left) EXCEPT !.op = o] EXCEPT !.left = x]
  BY <1>1
<1>3. [Called(n, j, n.asks, n.todo, n.op, n.left) EXCEPT !.op = o] = Called(n, j, n.asks, n.todo, o, n.left)
  BY DEF Made, Called
<1>4. w = [Called(n, j, n.asks, n.todo, o, n.left) EXCEPT !.left = x]
  BY <1>2, <1>3, Zenon
<1> QED BY <1>4 DEF Made, Called

\* How a call begins, goes through its compares and operations and ends.
LEMMA CallMoves ==
    ASSUME CallsType, NEW c \in Caller
    PROVE  /\ \A j \in Jobs : Begin(c, j) =>
                 Move(c, "idle", "next", Called(NoJob, j, NoJob.asks, j.success, NoJob.op, NoJob.left))
           /\ \A j \in Jobs : BeginTxn(c, j) =>
                 Move(c, "idle", "compare", Called(NoJob, j, j.compares, NoJob.todo, NoJob.op, NoJob.left))
           /\ \A j \in Jobs : BeginRevoke(c, j) =>
                 \E o : o.op = "revoke"
                        /\ Move(c, "idle", "remove", Called(NoJob, j, NoJob.asks, NoJob.todo, o, leases[j.lease]))
           /\ Compare(c) =>
                 \/ \E ops \in {job[c].call.success, job[c].call.failure} :
                       Move(c, "compare", "next", Asked(job[c], <<>>, ops))
                 \/ Move(c, "compare", "compare", Asked(job[c], Tail(job[c].asks), job[c].todo))
           /\ NextOp(c) =>
                 /\ job[c].todo # <<>> /\ rev < MaxCallRev
                 /\ Move(c, "next", FirstStep[Head(job[c].todo).op],
                         Started(job[c], Head(job[c].todo), rev + 1))
           /\ EndCall(c) => Move(c, "next", "idle", NoJob)
<1>1. ASSUME NEW j \in Jobs, Begin(c, j)
      PROVE  Move(c, "idle", "next", Called(NoJob, j, NoJob.asks, j.success, NoJob.op, NoJob.left))
  <2> DEFINE w == [NoJob EXCEPT !.call = j, !.todo = j.success]
  <2>0. w = Called(NoJob, j, NoJob.asks, j.success, NoJob.op, NoJob.left)
    BY NoJobIs, PlainCalled, Zenon
  <2>1. job' = [job EXCEPT ![c] = w]
    BY <1>1 DEF Begin
  <2> HIDE DEF w
  <2>2. Move(c, "idle", "next", w)
    BY <1>1, <2>1, MoveIs DEF Begin, Goto
  <2> QED BY <2>0, <2>2
<1>2. ASSUME NEW j \in Jobs, BeginTxn(c, j)
      PROVE  Move(c, "idle", "compare", Called(NoJob, j, j.compares, NoJob.todo, NoJob.op, NoJob.left))
  <2> DEFINE w == [NoJob EXCEPT !.call = j, !.asks = j.compares]
  <2>0. w = Called(NoJob, j, j.compares, NoJob.todo, NoJob.op, NoJob.left)
    BY NoJobIs, TxnCalled, Zenon
  <2>1. job' = [job EXCEPT ![c] = w]
    BY <1>2 DEF BeginTxn
  <2> HIDE DEF w
  <2>2. Move(c, "idle", "compare", w)
    BY <1>2, <2>1, MoveIs DEF BeginTxn, Goto
  <2> QED BY <2>0, <2>2
<1>3. ASSUME NEW j \in Jobs, BeginRevoke(c, j)
      PROVE  \E o : o.op = "revoke"
                    /\ Move(c, "idle", "remove", Called(NoJob, j, NoJob.asks, NoJob.todo, o, leases[j.lease]))
  <2> DEFINE o == [NoOp EXCEPT !.op = "revoke", !.lease = j.lease]
             w == [NoJob EXCEPT !.call = j, !.op = o, !.left = leases[j.lease]]
  <2>1. o.op = "revoke"
    BY DEF NoOp
  <2>2. job' = [job EXCEPT ![c] = w]
    BY <1>3 DEF BeginRevoke
  <2>3. w = Called(NoJob, j, NoJob.asks, NoJob.todo, o, leases[j.lease])
    BY NoJobIs, RevokeCalled, Zenon
  <2> HIDE DEF o, w
  <2>4. Move(c, "idle", "remove", w)
    BY <1>3, <2>2, MoveIs DEF BeginRevoke, Goto
  <2> QED BY <2>1, <2>3, <2>4
<1>j. IsJob(job[c])
  BY DEF CallsType, LocalType, Sound
<1>4. ASSUME Compare(c)
      PROVE  \/ \E ops \in {job[c].call.success, job[c].call.failure} :
                   Move(c, "compare", "next", Asked(job[c], <<>>, ops))
             \/ Move(c, "compare", "compare", Asked(job[c], Tail(job[c].asks), job[c].todo))
  <2>0. pc[c] = "compare"
    BY <1>4 DEF Compare
  <2>1. ASSUME NEW ops \in {job[c].call.success, job[c].call.failure},
               Goto(c, "next"), job' = [job EXCEPT ![c].asks = <<>>, ![c].todo = ops]
        PROVE  Move(c, "compare", "next", Asked(job[c], <<>>, ops))
    <3> DEFINE w == [job[c] EXCEPT !.asks = <<>>, !.todo = ops]
    <3>1. job' = [job EXCEPT ![c] = w]
      BY <2>1 DEF CallsType, LocalType
    <3>2. w = Asked(job[c], <<>>, ops)
      BY <1>j, AskedIs, Zenon
    <3> HIDE DEF w
    <3>3. pc' = [pc EXCEPT ![c] = "next"]
      BY <2>1 DEF Goto
    <3>4. Move(c, pc[c], "next", w)
      BY <3>1, <3>3, MoveIs
    <3> QED BY <2>0, <3>2, <3>4
  <2>2. ASSUME job' = [job EXCEPT ![c].asks = Tail(@)], pc' = pc
        PROVE  Move(c, "compare", "compare", Asked(job[c], Tail(job[c].asks), job[c].todo))
    <3> DEFINE w == [job[c] EXCEPT !.asks = Tail(job[c].asks)]
    <3>1. job' = [job EXCEPT ![c] = w]
      BY <2>2 DEF CallsType, LocalType
    <3>2. w = Asked(job[c], Tail(job[c].asks), job[c].todo)
      BY <1>j, AsksIs, Zenon
    <3> HIDE DEF w
    <3>3. Move(c, "compare", "compare", w)
      BY <2>0, <2>2, <3>1, StayIs
    <3> QED BY <3>2, <3>3
  <2> QED BY <1>4, <2>1, <2>2 DEF Compare
<1>5. ASSUME NextOp(c)
      PROVE  /\ job[c].todo # <<>> /\ rev < MaxCallRev
             /\ Move(c, "next", FirstStep[Head(job[c].todo).op],
                     Started(job[c], Head(job[c].todo), rev + 1))
  <2>1. job' = [job EXCEPT ![c] = Started(job[c], Head(job[c].todo), rev + 1)]
    BY <1>5 DEF NextOp, CallsType, LocalType
  <2> QED BY <1>5, <2>1, MoveIs DEF NextOp, Goto
<1>6. ASSUME EndCall(c) PROVE Move(c, "next", "idle", NoJob)
  BY <1>6, MoveIs DEF EndCall, Goto
<1> QED BY <1>1, <1>2, <1>3, <1>4, <1>5, <1>6

\* How an operation goes on.
LEMMA OpMoves ==
    ASSUME CallsType, NEW c \in Caller
    PROVE  /\ ReadPrev(c) => Move(c, "read", "detach", Found(job[c], job[c].key, Row(current, job[c].key), job[c].left))
           /\ Detach(c) => Move(c, "detach", IF Deleting(c) THEN "index" ELSE "insert", job[c])
           /\ Insert(c) => Move(c, "insert", "index", job[c])
           /\ Attach(c) => Move(c, "attach", "dispatch", job[c])
           /\ IndexPush(c) => Move(c, "index", "history", job[c])
           /\ HistoryInsert(c) => Move(c, "history", IF Deleting(c) THEN "dispatch" ELSE "attach", job[c])
           /\ Dispatch(c) => Move(c, "dispatch", IF Deleting(c) THEN "remove" ELSE "next", job[c])
           /\ TakeRevision(c) => rev < MaxCallRev /\ Move(c, "take", "index", Numbered(job[c], rev + 1))
<1>j. IsJob(job[c])
  BY DEF CallsType, LocalType, Sound
<1>1. ASSUME ReadPrev(c)
      PROVE  Move(c, "read", "detach", Found(job[c], job[c].key, Row(current, job[c].key), job[c].left))
  <2> DEFINE w == [job[c] EXCEPT !.prev = Row(current, job[c].key)]
  <2>1. job' = [job EXCEPT ![c] = w]
    BY <1>1 DEF ReadPrev, CallsType, LocalType
  <2>2. w = Found(job[c], job[c].key, Row(current, job[c].key), job[c].left)
    BY <1>j, PrevIs, Zenon
  <2> HIDE DEF w
  <2>a. pc[c] = "read" /\ pc' = [pc EXCEPT ![c] = "detach"]
    BY <1>1 DEF ReadPrev, Goto
  <2>3. Move(c, "read", "detach", w)
    BY <2>a, <2>1, MoveIs
  <2> QED BY <2>2, <2>3
<1>2. ASSUME Detach(c) PROVE Move(c, "detach", IF Deleting(c) THEN "index" ELSE "insert", job[c])
  BY <1>2, StayIs DEF Detach, Goto
<1>3. ASSUME Insert(c) PROVE Move(c, "insert", "index", job[c])
  BY <1>3, StayIs DEF Insert, Goto
<1>4. ASSUME Attach(c) PROVE Move(c, "attach", "dispatch", job[c])
  BY <1>4, StayIs DEF Attach, Goto
<1>5. ASSUME IndexPush(c) PROVE Move(c, "index", "history", job[c])
  BY <1>5, StayIs DEF IndexPush, Goto
<1>6. ASSUME HistoryInsert(c)
      PROVE  Move(c, "history", IF Deleting(c) THEN "dispatch" ELSE "attach", job[c])
  BY <1>6, StayIs DEF HistoryInsert, Goto
<1>7. ASSUME Dispatch(c) PROVE Move(c, "dispatch", IF Deleting(c) THEN "remove" ELSE "next", job[c])
  BY <1>7, StayIs DEF Dispatch, Goto
<1>8. ASSUME TakeRevision(c)
      PROVE  rev < MaxCallRev /\ Move(c, "take", "index", Numbered(job[c], rev + 1))
  <2> DEFINE w == [job[c] EXCEPT !.rev = rev + 1]
  <2>1. job' = [job EXCEPT ![c] = w]
    BY <1>8 DEF TakeRevision, CallsType, LocalType
  <2>2. w = Numbered(job[c], rev + 1)
    BY <1>j, NumberedIs, Zenon
  <2> HIDE DEF w
  <2>a. pc[c] = "take" /\ pc' = [pc EXCEPT ![c] = "index"]
    BY <1>8 DEF TakeRevision, Goto
  <2>3. Move(c, "take", "index", w)
    BY <2>a, <2>1, MoveIs
  <2>4. rev < MaxCallRev
    BY <1>8 DEF TakeRevision
  <2> QED BY <2>2, <2>3, <2>4
<1> QED BY <1>1, <1>2, <1>3, <1>4, <1>5, <1>6, <1>7, <1>8

\* How a range is gone through.
LEMMA VisitMoves ==
    ASSUME CallsType, NEW c \in Caller, Visit(c)
    PROVE  \/ \E k \in job[c].scan :
                 Move(c, "scan", "scan", Noted(job[c], job[c].scan \ {k},
                                               job[c].left \cup ({k} \cap DOMAIN current)))
           \/ job[c].scan = {} /\ Move(c, "scan", "remove", job[c])
<1>j. IsJob(job[c])
  BY DEF CallsType, LocalType, Sound
<1>0. pc[c] = "scan"
  BY DEF Visit
<1>1. ASSUME NEW k \in job[c].scan, pc' = pc,
             job' = [job EXCEPT ![c].scan = @ \ {k}, ![c].left = @ \cup ({k} \cap DOMAIN current)]
      PROVE  Move(c, "scan", "scan", Noted(job[c], job[c].scan \ {k},
                                           job[c].left \cup ({k} \cap DOMAIN current)))
  <2> DEFINE s == job[c].scan \ {k}
             l == job[c].left \cup ({k} \cap DOMAIN current)
  <2>1. job' = [job EXCEPT ![c] = [job[c] EXCEPT !.scan = s, !.left = [job[c] EXCEPT !.scan = s].left \cup ({k} \cap DOMAIN current)]]
    BY <1>1 DEF CallsType, LocalType
  <2>2. [job[c] EXCEPT !.scan = s].left = job[c].left
    BY <1>j DEF IsJob
  <2> DEFINE w == [job[c] EXCEPT !.scan = s, !.left = l]
  <2>3. job' = [job EXCEPT ![c] = w]
    BY <2>1, <2>2, Zenon
  <2> HIDE DEF s, l
  <2>4. w = Noted(job[c], s, l)
    BY <1>j, NotedIs, Zenon
  <2> HIDE DEF w
  <2>5. Move(c, "scan", "scan", w)
    BY <1>0, <1>1, <2>3, StayIs
  <2> QED BY <2>4, <2>5 DEF s, l
<1>2. ASSUME Goto(c, "remove"), job' = job PROVE Move(c, "scan", "remove", job[c])
  BY <1>0, <1>2, StayIs DEF Goto
<1> QED BY <1>1, <1>2 DEF Visit

\* How the next key is deleted, or passed over.
Removes(c, k) ==
    /\ k \in job[c].left \cap DOMAIN current /\ current' = Without(current, {k})
    /\ Move(c, "remove", IF job[c].op.op = "revoke" THEN "take" ELSE "detach",
            Found(job[c], k, current[k], job[c].left \ {k}))
Passes(c, k) ==
    /\ k \in job[c].left \ DOMAIN current /\ current' = current
    /\ Move(c, "remove", "remove", Found(job[c], job[c].key, job[c].prev, job[c].left \ {k}))

LEMMA RemoveMoves ==
    ASSUME CallsType, NEW c \in Caller, RemoveKey(c)
    PROVE  \/ \E k : Removes(c, k) \/ Passes(c, k)
           \/ job[c].left = {} /\ current' = current /\ Move(c, "remove", "next", job[c])
<1>j. IsJob(job[c])
  BY DEF CallsType, LocalType, Sound
<1>0. pc[c] = "remove"
  BY DEF RemoveKey
<1>1. ASSUME NEW k \in job[c].left \cap DOMAIN current, current' = Without(current, {k}),
             job' = [job EXCEPT ![c].left = @ \ {k}, ![c].key = k, ![c].prev = current[k]],
             Goto(c, IF job[c].op.op = "revoke" THEN "take" ELSE "detach")
      PROVE  Removes(c, k)
  <2> DEFINE l == job[c].left \ {k}
             p == current[k]
             w == [job[c] EXCEPT !.left = l, !.key = k, !.prev = p]
             q == IF job[c].op.op = "revoke" THEN "take" ELSE "detach"
  <2>1. job' = [job EXCEPT ![c] = w]
    BY <1>1 DEF CallsType, LocalType
  <2> HIDE DEF l, p
  <2>2. w = Found(job[c], k, p, l)
    BY <1>j, KeyFoundIs, Zenon
  <2> HIDE DEF w
  <2>3. pc' = [pc EXCEPT ![c] = q]
    BY <1>1 DEF Goto
  <2> HIDE DEF q
  <2>4. Move(c, "remove", q, w)
    BY <1>0, <2>1, <2>3, MoveIs
  <2> QED BY <1>1, <2>2, <2>4 DEF Removes, l, p, q
<1>2. ASSUME NEW k \in job[c].left \ DOMAIN current, current' = current, pc' = pc,
             job' = [job EXCEPT ![c].left = @ \ {k}]
      PROVE  Passes(c, k)
  <2> DEFINE l == job[c].left \ {k}
             w == [job[c] EXCEPT !.left = l]
  <2>1. job' = [job EXCEPT ![c] = w]
    BY <1>2 DEF CallsType, LocalType
  <2> HIDE DEF l
  <2>2. w = Found(job[c], job[c].key, job[c].prev, l)
    BY <1>j, LeftIs, Zenon
  <2> HIDE DEF w
  <2>3. Move(c, "remove", "remove", w)
    BY <1>0, <1>2, <2>1, StayIs
  <2> QED BY <1>2, <2>2, <2>3 DEF Passes, l
<1>3. ASSUME Goto(c, "next"), job' = job PROVE Move(c, "remove", "next", job[c])
  BY <1>0, <1>3, StayIs DEF Goto
<1> QED BY <1>1, <1>2, <1>3 DEF RemoveKey

-----------------------------------------------------------------------------
(* Every step keeps the types *)

\* What a step says of the call that is at it.
LEMMA FitsAt ==
    ASSUME NEW p, NEW j, Fits(p, j)
    PROVE  /\ p = "compare" => j.call \in Jobs
           /\ p \in {"read", "insert", "attach"} => Putting(p, j)
           /\ p = "detach" => Putting(p, j) \/ Removing(p, j)
           /\ p = "scan" => Scanning(p, j)
           /\ p = "remove" => Choosing(p, j) \/ Revoking(p, j)
           /\ p = "take" => Revoking(p, j)
           /\ p \in {"index", "history", "dispatch"} =>
                 Putting(p, j) \/ Removing(p, j) \/ Revoking(p, j)
BY DEF Fits, Putting, Scanning, Choosing, Removing, Revoking, PutSteps, DeleteSteps, RevokeSteps

\* An operation as it begins.
LEMMA StartedIs ==
    ASSUME NEW j, NEW r, NEW o \in CallOp, NEW w, w = Started(j, o, r)
    PROVE  /\ IsJob(w) /\ w.rev = r /\ w.op = o /\ w.key = o.key /\ w.todo = Tail(j.todo)
           /\ o.op = "put" => w.scan = {} /\ w.left = {} /\ FirstStep[o.op] = "read"
           /\ o.op = "delete" => w.scan = {} /\ w.left = {o.key} /\ FirstStep[o.op] = "remove"
           /\ o.op = "range" => w.scan \subseteq Key /\ w.left = {} /\ FirstStep[o.op] = "scan"
           /\ o.op \in {"put", "delete", "range"}
<1> DEFINE s == IF o.op = "range" THEN {k \in Key : InRange(k, o.key, o.end)} ELSE {}
           l == IF o.op = "delete" THEN {o.key} ELSE {}
           e == <<>>
           a == Absent
<1>1. w = Made(j.call, e, Tail(j.todo), o, r, o.key, a, s, l)
  BY DEF Started, Made
<1>2. /\ o.op \in {"put", "delete", "range"} /\ s \subseteq Key
      /\ o.op # "range" => s = {}
      /\ l = IF o.op = "delete" THEN {o.key} ELSE {}
  BY DEF CallOp
<1> HIDE DEF s, l, e, a
<1>3. /\ IsJob(w) /\ w.rev = r /\ w.op = o /\ w.key = o.key /\ w.todo = Tail(j.todo)
      /\ w.scan = s /\ w.left = l
  BY <1>1, MadeIs
<1>4. FirstStep["put"] = "read" /\ FirstStep["delete"] = "remove" /\ FirstStep["range"] = "scan"
  BY DEF FirstStep
<1> QED BY <1>2, <1>3, <1>4

\* A caller's move to a sound place keeps the calls typed.
LEMMA MoveKeeps ==
    ASSUME LocalType, NEW c \in Caller, NEW p, NEW q, NEW w, Move(c, p, q, w), Sound(q, w)
    PROVE  LocalType'
<1>1. ASSUME NEW d \in Caller PROVE Sound(pc'[d], job'[d])
  <2>1. CASE d = c
    BY <2>1 DEF Move
  <2>2. CASE d # c
    BY <2>2 DEF Move, LocalType
  <2> QED BY <2>1, <2>2
<1> QED BY <1>1 DEF Move, LocalType

\* The steps with which calls begin, go on and end.
LEMMA CallTyped ==
    ASSUME CallsType, NEW c \in Caller,
           (\E j \in Jobs : Begin(c, j) \/ BeginTxn(c, j) \/ BeginRevoke(c, j))
              \/ Compare(c) \/ NextOp(c) \/ EndCall(c)
    PROVE  LocalType'
<1>0. Sound(pc[c], job[c]) /\ LocalType
  BY DEF CallsType, LocalType
<1>n. <<>> \in Seq(CallOp)
  BY EmptySeq
<1>1. ASSUME NEW j \in Jobs, Begin(c, j) PROVE LocalType'
  <2> DEFINE w == Called(NoJob, j, NoJob.asks, j.success, NoJob.op, NoJob.left)
  <2>1. Move(c, "idle", "next", w)
    BY <1>1, CallMoves
  <2>2. IsJob(w) /\ w.rev = 0 /\ w.todo = j.success
    BY MadeIs, NoJobIs DEF Called
  <2>3. j.success \in Seq(CallOp)
    BY JobAssumption
  <2> HIDE DEF w
  <2>4. Sound("next", w)
    BY <2>2, <2>3 DEF Sound, Fits
  <2> QED BY <1>0, <2>1, <2>4, MoveKeeps
<1>2. ASSUME NEW j \in Jobs, BeginTxn(c, j) PROVE LocalType'
  <2> DEFINE w == Called(NoJob, j, j.compares, NoJob.todo, NoJob.op, NoJob.left)
  <2>1. Move(c, "idle", "compare", w)
    BY <1>2, CallMoves
  <2>2. IsJob(w) /\ w.rev = 0 /\ w.todo = <<>> /\ w.call = j
    BY MadeIs, NoJobIs DEF Called
  <2> HIDE DEF w
  <2>4. Sound("compare", w)
    BY <1>n, <2>2 DEF Sound, Fits
  <2> QED BY <1>0, <2>1, <2>4, MoveKeeps
<1>3. ASSUME NEW j \in Jobs, BeginRevoke(c, j) PROVE LocalType'
  <2>0. PICK o : o.op = "revoke"
                 /\ Move(c, "idle", "remove", Called(NoJob, j, NoJob.asks, NoJob.todo, o, leases[j.lease]))
    BY <1>3, CallMoves
  <2> DEFINE w == Called(NoJob, j, NoJob.asks, NoJob.todo, o, leases[j.lease])
  <2>2. IsJob(w) /\ w.rev = 0 /\ w.todo = <<>> /\ w.op = o
    BY MadeIs, NoJobIs DEF Called
  <2>3. Move(c, "idle", "remove", w)
    BY <2>0
  <2> HIDE DEF w
  <2>4. Sound("remove", w)
    BY <1>n, <2>0, <2>2 DEF Sound, Fits, Revoking, RevokeSteps
  <2> QED BY <1>0, <2>3, <2>4, MoveKeeps
<1>4. ASSUME Compare(c) PROVE LocalType'
  <2>0. pc[c] = "compare"
    BY <1>4 DEF Compare
  <2>1. job[c].call \in Jobs
    BY <1>0, <2>0, FitsAt DEF Sound
  <2>2. ASSUME NEW ops \in {job[c].call.success, job[c].call.failure},
               Move(c, "compare", "next", Asked(job[c], <<>>, ops))
        PROVE  LocalType'
    <3> DEFINE e == <<>>
               w == Asked(job[c], e, ops)
    <3>1. Move(c, "compare", "next", w)
      BY <2>2
    <3> HIDE DEF e
    <3>2. IsJob(w) /\ w.rev = job[c].rev /\ w.todo = ops
      BY MadeIs DEF Asked
    <3>3. ops \in Seq(CallOp)
      BY <2>1, JobAssumption
    <3> HIDE DEF w
    <3>4. Sound("next", w)
      BY <1>0, <3>2, <3>3 DEF Sound, Fits
    <3> QED BY <1>0, <3>1, <3>4, MoveKeeps
  <2>3. ASSUME Move(c, "compare", "compare", Asked(job[c], Tail(job[c].asks), job[c].todo))
        PROVE  LocalType'
    <3> DEFINE w == Asked(job[c], Tail(job[c].asks), job[c].todo)
    <3>2. IsJob(w) /\ w.rev = job[c].rev /\ w.todo = job[c].todo /\ w.call = job[c].call
      BY MadeIs DEF Asked
    <3>1. Move(c, "compare", "compare", w)
      BY <2>3
    <3> HIDE DEF w
    <3>4. Sound("compare", w)
      BY <1>0, <2>1, <3>2 DEF Sound, Fits
    <3> QED BY <1>0, <3>1, <3>4, MoveKeeps
  <2> QED BY <1>4, <2>2, <2>3, CallMoves
<1>5. ASSUME NextOp(c) PROVE LocalType'
  <2> DEFINE o == Head(job[c].todo)
             w == Started(job[c], o, rev + 1)
             q == FirstStep[o.op]
  <2>0. job[c].todo # <<>> /\ Move(c, "next", q, w)
    BY <1>5, CallMoves
  <2>1. job[c].todo \in Seq(CallOp) /\ rev + 1 \in Nat
    BY <1>0 DEF Sound, CallsType, StoreType
  <2>2. o \in CallOp /\ Tail(job[c].todo) \in Seq(CallOp)
    BY <2>0, <2>1, HeadTailProperties
  <2> HIDE DEF o
  <2>3. /\ IsJob(w) /\ w.rev = rev + 1 /\ w.op = o /\ w.key = o.key /\ w.todo = Tail(job[c].todo)
        /\ o.op = "put" => w.scan = {} /\ w.left = {} /\ FirstStep[o.op] = "read"
        /\ o.op = "delete" => w.scan = {} /\ w.left = {o.key} /\ FirstStep[o.op] = "remove"
        /\ o.op = "range" => w.scan \subseteq Key /\ w.left = {} /\ FirstStep[o.op] = "scan"
        /\ o.op \in {"put", "delete", "range"}
    BY <2>2, StartedIs
  <2>k. o.key \in Key
    BY <2>2 DEF CallOp
  <2> HIDE DEF w
  <2>4. Fits(q, w)
    <3>1. CASE o.op = "put"
      <4>1. Putting(q, w)
        BY <2>2, <2>3, <3>1 DEF Putting, PutSteps
      <4> QED BY <4>1 DEF Fits
    <3>2. CASE o.op = "delete"
      <4>1. Choosing(q, w)
        BY <2>2, <2>3, <2>k, <3>2 DEF Choosing
      <4> QED BY <4>1 DEF Fits
    <3>3. CASE o.op = "range"
      <4>1. Scanning(q, w)
        BY <2>2, <2>3, <3>3 DEF Scanning
      <4> QED BY <4>1 DEF Fits
    <3> QED BY <2>3, <3>1, <3>2, <3>3
  <2> HIDE DEF q
  <2>5. Sound(q, w)
    BY <2>1, <2>2, <2>3, <2>4 DEF Sound
  <2> QED BY <1>0, <2>0, <2>5, MoveKeeps
<1>6. ASSUME EndCall(c) PROVE LocalType'
  <2>1. Move(c, "next", "idle", NoJob)
    BY <1>6, CallMoves
  <2>2. Sound("idle", NoJob)
    BY <1>n, NoJobIs DEF Sound, Fits
  <2> QED BY <1>0, <2>1, <2>2, MoveKeeps
<1> QED BY <1>1, <1>2, <1>3, <1>4, <1>5, <1>6

\* The steps of an operation.
LEMMA OpTyped ==
    ASSUME CallsType, NEW c \in Caller,
           \/ ReadPrev(c) \/ Detach(c) \/ Insert(c) \/ Attach(c) \/ TakeRevision(c)
           \/ IndexPush(c) \/ HistoryInsert(c) \/ Dispatch(c)
    PROVE  LocalType'
<1>0. Sound(pc[c], job[c]) /\ LocalType
  BY DEF CallsType, LocalType
<1>m. ASSUME NEW p, NEW q, Move(c, p, q, job[c]), Fits(q, job[c]) PROVE LocalType'
  <2>1. Sound(q, job[c])
    BY <1>0, <1>m DEF Sound
  <2> QED BY <1>0, <1>m, <2>1, MoveKeeps
<1>f. pc[c] = pc[c] /\ Fits(pc[c], job[c])
  BY <1>0 DEF Sound
<1>1. ASSUME ReadPrev(c) PROVE LocalType'
  <2> DEFINE w == Found(job[c], job[c].key, Row(current, job[c].key), job[c].left)
  <2>1. Move(c, "read", "detach", w)
    BY <1>1, OpMoves
  <2>2. /\ IsJob(w) /\ w.rev = job[c].rev /\ w.todo = job[c].todo /\ w.op = job[c].op
        /\ w.key = job[c].key /\ w.scan = job[c].scan /\ w.left = job[c].left
    BY MadeIs DEF Found
  <2> HIDE DEF w
  <2>3. Putting("read", job[c])
    BY <1>f, <2>1, FitsAt DEF Move
  <2>4. Putting("detach", w)
    BY <2>2, <2>3 DEF Putting, PutSteps
  <2>5. Sound("detach", w)
    BY <1>0, <2>2, <2>4 DEF Sound, Fits
  <2> QED BY <1>0, <2>1, <2>5, MoveKeeps
<1>2. ASSUME Detach(c) PROVE LocalType'
  <2> DEFINE q == IF Deleting(c) THEN "index" ELSE "insert"
  <2>1. Move(c, "detach", q, job[c])
    BY <1>2, OpMoves
  <2>2. Putting("detach", job[c]) \/ Removing("detach", job[c])
    BY <1>f, <2>1, FitsAt DEF Move
  <2>3. CASE Putting("detach", job[c])
    <3>1. q = "insert" /\ Putting("insert", job[c])
      BY <2>3 DEF Putting, PutSteps, Deleting
    <3> QED BY <1>m, <2>1, <3>1 DEF Fits
  <2>4. CASE Removing("detach", job[c])
    <3>1. q = "index" /\ Removing("index", job[c])
      BY <2>4 DEF Removing, DeleteSteps, Deleting
    <3> QED BY <1>m, <2>1, <3>1 DEF Fits
  <2> QED BY <2>2, <2>3, <2>4
<1>3. ASSUME Insert(c) PROVE LocalType'
  <2>1. Move(c, "insert", "index", job[c])
    BY <1>3, OpMoves
  <2>2. Putting("insert", job[c])
    BY <1>f, <2>1, FitsAt DEF Move
  <2>3. Putting("index", job[c])
    BY <2>2 DEF Putting, PutSteps
  <2> QED BY <1>m, <2>1, <2>3 DEF Fits
<1>4. ASSUME Attach(c) PROVE LocalType'
  <2>1. Move(c, "attach", "dispatch", job[c])
    BY <1>4, OpMoves
  <2>2. Putting("attach", job[c])
    BY <1>f, <2>1, FitsAt DEF Move
  <2>3. Putting("dispatch", job[c])
    BY <2>2 DEF Putting, PutSteps
  <2> QED BY <1>m, <2>1, <2>3 DEF Fits
<1>5. ASSUME TakeRevision(c) PROVE LocalType'
  <2> DEFINE w == Numbered(job[c], rev + 1)
  <2>1. Move(c, "take", "index", w)
    BY <1>5, OpMoves
  <2>2. IsJob(w) /\ w.rev = rev + 1 /\ w.todo = job[c].todo /\ w.op = job[c].op
    BY MadeIs DEF Numbered
  <2> HIDE DEF w
  <2>3. Revoking("take", job[c])
    BY <1>f, <2>1, FitsAt DEF Move
  <2>4. Revoking("index", w)
    BY <2>2, <2>3 DEF Revoking, RevokeSteps
  <2>5. rev + 1 \in Nat
    BY DEF CallsType, StoreType
  <2>6. Sound("index", w)
    BY <1>0, <2>2, <2>4, <2>5 DEF Sound, Fits
  <2> QED BY <1>0, <2>1, <2>6, MoveKeeps
<1>6. ASSUME IndexPush(c) PROVE LocalType'
  <2>1. Move(c, "index", "history", job[c])
    BY <1>6, OpMoves
  <2>2. Putting("index", job[c]) \/ Removing("index", job[c]) \/ Revoking("index", job[c])
    BY <1>f, <2>1, FitsAt DEF Move
  <2>3. Putting("history", job[c]) \/ Removing("history", job[c]) \/ Revoking("history", job[c])
    BY <2>2 DEF Putting, PutSteps, Removing, DeleteSteps, Revoking, RevokeSteps
  <2> QED BY <1>m, <2>1, <2>3 DEF Fits
<1>7. ASSUME HistoryInsert(c) PROVE LocalType'
  <2> DEFINE q == IF Deleting(c) THEN "dispatch" ELSE "attach"
  <2>1. Move(c, "history", q, job[c])
    BY <1>7, OpMoves
  <2>2. Putting("history", job[c]) \/ Removing("history", job[c]) \/ Revoking("history", job[c])
    BY <1>f, <2>1, FitsAt DEF Move
  <2>3. Putting(q, job[c]) \/ Removing(q, job[c]) \/ Revoking(q, job[c])
    BY <2>2 DEF Putting, PutSteps, Removing, DeleteSteps, Revoking, RevokeSteps, Deleting
  <2> QED BY <1>m, <2>1, <2>3 DEF Fits
<1>8. ASSUME Dispatch(c) PROVE LocalType'
  <2> DEFINE q == IF Deleting(c) THEN "remove" ELSE "next"
  <2>1. Move(c, "dispatch", q, job[c])
    BY <1>8, OpMoves
  <2>2. Putting("dispatch", job[c]) \/ Removing("dispatch", job[c]) \/ Revoking("dispatch", job[c])
    BY <1>f, <2>1, FitsAt DEF Move
  <2>3. CASE Putting("dispatch", job[c])
    BY <1>m, <2>1, <2>3 DEF Fits, Putting, Deleting
  <2>4. CASE Removing("dispatch", job[c])
    <3>1. q = "remove" /\ Choosing("remove", job[c])
      BY <2>4 DEF Removing, Choosing, Deleting
    <3> QED BY <1>m, <2>1, <3>1 DEF Fits
  <2>5. CASE Revoking("dispatch", job[c])
    <3>1. q = "remove" /\ Revoking("remove", job[c])
      BY <2>5 DEF Revoking, RevokeSteps, Deleting
    <3> QED BY <1>m, <2>1, <3>1 DEF Fits
  <2> QED BY <2>2, <2>3, <2>4, <2>5
<1> QED BY <1>1, <1>2, <1>3, <1>4, <1>5, <1>6, <1>7, <1>8

\* The steps of a loop over keys.
LEMMA LoopTyped ==
    ASSUME CallsType, NEW c \in Caller, Visit(c) \/ RemoveKey(c)
    PROVE  LocalType'
<1>0. Sound(pc[c], job[c]) /\ LocalType
  BY DEF CallsType, LocalType
<1>f. Fits(pc[c], job[c])
  BY <1>0 DEF Sound
<1>m. ASSUME NEW p, NEW q, Move(c, p, q, job[c]), Fits(q, job[c]) PROVE LocalType'
  <2>1. Sound(q, job[c])
    BY <1>0, <1>m DEF Sound
  <2> QED BY <1>0, <1>m, <2>1, MoveKeeps
<1>1. ASSUME Visit(c) PROVE LocalType'
  <2>0. pc[c] = "scan"
    BY <1>1 DEF Visit
  <2>1. Scanning("scan", job[c])
    BY <1>f, <2>0, FitsAt
  <2>2. ASSUME NEW k \in job[c].scan,
               Move(c, "scan", "scan", Noted(job[c], job[c].scan \ {k},
                                             job[c].left \cup ({k} \cap DOMAIN current)))
        PROVE  LocalType'
    <3> DEFINE s == job[c].scan \ {k}
               l == job[c].left \cup ({k} \cap DOMAIN current)
               w == Noted(job[c], s, l)
    <3>1. Move(c, "scan", "scan", w)
      BY <2>2
    <3>2. s \subseteq Key /\ l \subseteq Key
      BY <2>1 DEF Scanning
    <3> HIDE DEF s, l
    <3>3. /\ IsJob(w) /\ w.rev = job[c].rev /\ w.todo = job[c].todo /\ w.op = job[c].op
          /\ w.scan = s /\ w.left = l
      BY MadeIs DEF Noted
    <3> HIDE DEF w
    <3>4. Scanning("scan", w)
      BY <2>1, <3>2, <3>3 DEF Scanning
    <3>5. Sound("scan", w)
      BY <1>0, <3>3, <3>4 DEF Sound, Fits
    <3> QED BY <1>0, <3>1, <3>5, MoveKeeps
  <2>3. ASSUME job[c].scan = {}, Move(c, "scan", "remove", job[c])
        PROVE  LocalType'
    <3>1. Choosing("remove", job[c])
      BY <2>1, <2>3 DEF Scanning, Choosing
    <3> QED BY <1>m, <2>3, <3>1 DEF Fits
  <2> QED BY <1>1, <2>2, <2>3, VisitMoves
<1>2. ASSUME RemoveKey(c) PROVE LocalType'
  <2>0. pc[c] = "remove"
    BY <1>2 DEF RemoveKey
  <2>1. Choosing("remove", job[c]) \/ Revoking("remove", job[c])
    BY <1>f, <2>0, FitsAt
  <2>2. ASSUME NEW k, Removes(c, k) PROVE LocalType'
    <3> DEFINE l == job[c].left \ {k}
               p == current[k]
               w == Found(job[c], k, p, l)
               q == IF job[c].op.op = "revoke" THEN "take" ELSE "detach"
    <3>1. Move(c, "remove", q, w) /\ k \in job[c].left
      BY <2>2 DEF Removes
    <3>2. k \notin l /\ l \subseteq job[c].left
      OBVIOUS
    <3>a. \A x : job[c].left \subseteq {x} => l = {}
      BY <3>1
    <3> HIDE DEF l, p
    <3>3. /\ IsJob(w) /\ w.rev = job[c].rev /\ w.todo = job[c].todo /\ w.op = job[c].op
          /\ w.scan = job[c].scan /\ w.left = l /\ w.key = k
      BY MadeIs DEF Found
    <3> HIDE DEF w
    <3>4. CASE Choosing("remove", job[c])
      <4>1. q = "detach" /\ Removing("detach", w)
        BY <3>1, <3>2, <3>a, <3>3, <3>4 DEF Choosing, Removing, DeleteSteps
      <4>2. Sound("detach", w)
        BY <1>0, <3>3, <4>1 DEF Sound, Fits
      <4> QED BY <1>0, <3>1, <4>1, <4>2, MoveKeeps
    <3>5. CASE Revoking("remove", job[c])
      <4>1. q = "take" /\ Revoking("take", w)
        BY <3>3, <3>5 DEF Revoking, RevokeSteps
      <4>2. Sound("take", w)
        BY <1>0, <3>3, <4>1 DEF Sound, Fits
      <4> QED BY <1>0, <3>1, <4>1, <4>2, MoveKeeps
    <3> QED BY <2>1, <3>4, <3>5
  <2>3. ASSUME NEW k, Passes(c, k) PROVE LocalType'
    <3> DEFINE l == job[c].left \ {k}
               w == Found(job[c], job[c].key, job[c].prev, l)
    <3>1. Move(c, "remove", "remove", w)
      BY <2>3 DEF Passes
    <3>2. l \subseteq job[c].left
      OBVIOUS
    <3> HIDE DEF l
    <3>3. /\ IsJob(w) /\ w.rev = job[c].rev /\ w.todo = job[c].todo /\ w.op = job[c].op
          /\ w.scan = job[c].scan /\ w.left = l
      BY MadeIs DEF Found
    <3> HIDE DEF w
    <3>4. Choosing("remove", w) \/ Revoking("remove", w)
      BY <2>1, <3>2, <3>3 DEF Choosing, Revoking
    <3>5. Sound("remove", w)
      BY <1>0, <3>3, <3>4 DEF Sound, Fits
    <3> QED BY <1>0, <3>1, <3>5, MoveKeeps
  <2>4. ASSUME Move(c, "remove", "next", job[c]) PROVE LocalType'
    BY <1>m, <2>4 DEF Fits
  <2> QED BY <1>2, <2>2, <2>3, <2>4, RemoveMoves
<1> QED BY <1>1, <1>2

\* The store.
LEMMA StoreTyped ==
    ASSUME CallsType, NEW c \in Caller, Step(c)
    PROVE  StoreType'
<1>0. StoreType /\ Sound(pc[c], job[c])
  BY DEF CallsType, LocalType
<1>u. ASSUME UNCHANGED <<rev, current, index, history, feed>> PROVE StoreType'
  BY <1>0, <1>u DEF StoreType
<1>1. ASSUME NEW j \in Jobs, Begin(c, j) \/ BeginTxn(c, j) \/ BeginRevoke(c, j) PROVE StoreType'
  BY <1>1, <1>u DEF Begin, BeginTxn, BeginRevoke, storeVars
<1>2. ASSUME Compare(c) \/ EndCall(c) \/ ReadPrev(c) \/ Detach(c) \/ Attach(c) \/ Visit(c) PROVE StoreType'
  BY <1>2, <1>u DEF Compare, EndCall, ReadPrev, Detach, Attach, Visit, storeVars
<1>3. ASSUME NextOp(c) \/ TakeRevision(c) PROVE StoreType'
  BY <1>0, <1>3 DEF NextOp, TakeRevision, StoreType
<1>4. ASSUME Insert(c) PROVE StoreType'
  <2>1. current' = Extend(current, job[c].key, NewKv(c)) /\ UNCHANGED <<rev, index, history, feed>>
    BY <1>4 DEF Insert
  <2>2. IsMap(current')
    BY <2>1, ExtendIs
  <2> QED BY <1>0, <2>1, <2>2 DEF StoreType
<1>5. ASSUME RemoveKey(c) PROVE StoreType'
  <2>1. UNCHANGED <<rev, index, history, feed>>
    BY <1>5 DEF RemoveKey
  <2>2. current' = current \/ \E k : current' = Without(current, {k})
    BY <1>5 DEF RemoveKey
  <2>3. IsMap(current')
    <3>1. ASSUME NEW k, current' = Without(current, {k}) PROVE IsMap(current')
      BY <3>1, WithoutIs
    <3>2. IsMap(current)
      BY <1>0 DEF StoreType
    <3> QED BY <2>2, <3>1, <3>2
  <2> QED BY <1>0, <2>1, <2>3 DEF StoreType
<1>6. ASSUME IndexPush(c) PROVE StoreType'
  <2>1. index' = [index EXCEPT ![job[c].key] = Append(@, job[c].rev)] /\ UNCHANGED <<rev, current, history, feed>>
    BY <1>6 DEF IndexPush
  <2>2. job[c].rev \in Nat /\ index \in [Key -> Seq(Nat)]
    BY <1>0 DEF Sound, StoreType
  <2>3. \A k \in Key : Append(index[k], job[c].rev) \in Seq(Nat)
    BY <2>2, AppendProperties
  <2>4. index' \in [Key -> Seq(Nat)]
    BY <2>1, <2>2, <2>3
  <2> QED BY <1>0, <2>1, <2>4 DEF StoreType
<1>7. ASSUME HistoryInsert(c) PROVE StoreType'
  <2>1. history' = Extend(history, job[c].rev, EventOf(c)) /\ UNCHANGED <<rev, current, index, feed>>
    BY <1>7 DEF HistoryInsert
  <2>2. IsMap(history')
    BY <2>1, ExtendIs
  <2> QED BY <1>0, <2>1, <2>2 DEF StoreType
<1>8. ASSUME Dispatch(c) PROVE StoreType'
  <2>1. feed' = Append(feed, EventOf(c)) /\ UNCHANGED <<rev, current, index, history>>
    BY <1>8 DEF Dispatch
  <2>2. IsSequence(feed')
    BY <1>0, <2>1, AppendIs DEF StoreType
  <2> QED BY <1>0, <2>1, <2>2 DEF StoreType
<1> QED BY <1>1, <1>2, <1>3, <1>4, <1>5, <1>6, <1>7, <1>8 DEF Step

\* A watch stream's own steps touch nothing else.
LEMMA WatchSteps == Replay \/ Subscribe => UNCHANGED <<storeVars, lock, pc, job, plain>>
BY DEF Replay, Subscribe

LEMMA TypeStart == CallsInit => CallsType
<1> SUFFICES ASSUME CallsInit PROVE CallsType
  OBVIOUS
<1>1. StoreType
  <2>1. IsMap(EmptyMap)
    BY DEF EmptyMap, IsMap
  <2>2. IsSequence(<<>>)
    <3>1. <<>> \in Seq({})
      BY EmptySeq
    <3> QED BY <3>1 DEF IsSequence
  <2>3. [k \in Key |-> <<>>] \in [Key -> Seq(Nat)]
    OBVIOUS
  <2> QED BY <2>1, <2>2, <2>3 DEF CallsInit, StoreType
<1>2. LocalType
  <2>1. Sound("idle", NoJob)
    BY NoJobIs, EmptySeq DEF Sound, Fits
  <2>2. pc = [c \in Caller |-> "idle"] /\ job = [c \in Caller |-> NoJob]
    BY DEF CallsInit
  <2> QED BY <2>1, <2>2 DEF LocalType
<1> QED BY <1>1, <1>2 DEF CallsType

LEMMA TypeStep == CallsType /\ [CallsNext]_callVars => CallsType'
<1> SUFFICES ASSUME CallsType, [CallsNext]_callVars PROVE CallsType'
  OBVIOUS
<1>1. ASSUME NEW c \in Caller, Step(c) PROVE CallsType'
  <2>1. LocalType'
    BY <1>1, CallTyped, OpTyped, LoopTyped DEF Step
  <2> QED BY <1>1, <2>1, StoreTyped DEF CallsType
<1>2. ASSUME UNCHANGED <<storeVars, lock, pc, job, plain>> PROVE CallsType'
  BY <1>2 DEF CallsType, StoreType, LocalType, storeVars
<1>3. UNCHANGED callVars => UNCHANGED <<storeVars, lock, pc, job, plain>>
  BY DEF callVars
<1> QED BY <1>1, <1>2, <1>3, WatchSteps DEF CallsNext

-----------------------------------------------------------------------------
(* Revisions and the history *)

\* The steps at which an operation has a revision, all its own.
Held(p, j) ==
    \/ p \in {"read", "detach", "insert", "index", "history", "attach", "dispatch", "scan"}
    \/ p = "remove" /\ j.op.op # "revoke"

\* The event of call j.
EventIn(j) ==
    [key |-> j.key, prev |-> j.prev,
     type |-> IF j.op.op # "put" THEN "delete" ELSE "put",
     kv |-> IF j.op.op # "put" THEN Tombstone(j.prev, j.rev)
            ELSE NextKv(j.prev, "a", j.op.lease, j.rev),
     op |-> j.op]

\* What history h holds at the revision of call j at step p: its event, once
\* it is written; nothing before, but for a range delete, which finds the
\* row of its last key there.  (A delete of one key that is done keeps its
\* revision for one more step.)
Own(p, j, h) ==
    \/ /\ p \in {"attach", "dispatch"}
       /\ j.rev \in DOMAIN h /\ h[j.rev] = EventIn(j)
    \/ /\ p \notin {"attach", "dispatch"}
       /\ \/ j.rev \notin DOMAIN h
          \/ p = "remove" /\ j.op.op = "delete" /\ j.left = {}
          \/ /\ j.op.op = "range" /\ j.rev \in DOMAIN h
             /\ h[j.rev].op = j.op /\ h[j.rev].type = "delete"

\* No two operations share a revision.
RevisionsOwn ==
    /\ \A r \in DOMAIN history : r \in Nat /\ r <= rev
    /\ \A c \in Caller : Held(pc[c], job[c]) =>
          /\ job[c].rev >= 2 /\ job[c].rev <= rev /\ job[c].rev <= MaxCallRev
          /\ Own(pc[c], job[c], history)
    /\ \A c, d \in Caller : (c # d /\ Held(pc[c], job[c]) /\ Held(pc[d], job[d])) =>
                                job[c].rev # job[d].rev

LEMMA EventIs ==
    ASSUME NEW j
    PROVE  /\ EventIn(j).kv.mod = j.rev /\ EventIn(j).op = j.op /\ EventIn(j).key = j.key
           /\ j.op.op = "put" => /\ EventIn(j).type = "put"
                                 /\ EventIn(j).kv = NextKv(j.prev, "a", j.op.lease, j.rev)
           /\ j.op.op # "put" => EventIn(j).type = "delete"
BY DEF EventIn, Tombstone, NextKv

LEMMA EventOfIs == ASSUME NEW c PROVE EventOf(c) = EventIn(job[c])
BY DEF EventOf, EventIn, Deleting, NewKv

\* A step that takes no revision and writes no history.
LEMMA Keeping ==
    ASSUME CallsType, RevisionsOwn, NEW c \in Caller, NEW p, NEW q, NEW w, Move(c, p, q, w),
           history' = history, rev' = rev,
           Held(q, w) => Held(p, job[c]) /\ w.rev = job[c].rev /\ Own(q, w, history)
    PROVE  RevisionsOwn'
<1>1. ASSUME NEW d \in Caller, Held(pc'[d], job'[d])
      PROVE  Held(pc[d], job[d]) /\ job'[d].rev = job[d].rev /\ Own(pc'[d], job'[d], history)
  <2>1. CASE d = c
    BY <1>1, <2>1 DEF Move
  <2>2. CASE d # c
    BY <1>1, <2>2 DEF Move, RevisionsOwn
  <2> QED BY <2>1, <2>2
<1> QED BY <1>1 DEF RevisionsOwn

\* A step that takes the next revision.
LEMMA Taking ==
    ASSUME CallsType, RevisionsOwn, NEW c \in Caller, NEW p, NEW q, NEW w, Move(c, p, q, w),
           history' = history, rev' = rev + 1, rev < MaxCallRev, w.rev = rev + 1,
           q \notin {"attach", "dispatch"}
    PROVE  RevisionsOwn'
<1>0. rev \in Nat /\ rev >= 1 /\ MaxCallRev \in Nat
  BY LimitAssumption DEF CallsType, StoreType
<1>1. \A r \in DOMAIN history : r \in Nat /\ r <= rev /\ r # rev + 1
  BY <1>0 DEF RevisionsOwn
<1>2. Own(q, w, history)
  BY <1>1 DEF Own
<1>3. ASSUME NEW d \in Caller
      PROVE  /\ d = c => job'[d].rev = rev + 1 /\ Own(pc'[d], job'[d], history)
             /\ (d # c /\ Held(pc'[d], job'[d])) =>
                   /\ Held(pc[d], job[d]) /\ job'[d].rev = job[d].rev
                   /\ job[d].rev \in Nat /\ job[d].rev <= rev /\ job[d].rev >= 2
                   /\ job[d].rev <= MaxCallRev
                   /\ Own(pc'[d], job'[d], history)
  <2>1. CASE d = c
    BY <1>2, <2>1 DEF Move
  <2>2. CASE d # c
    <3>1. job[d].rev \in Nat
      BY DEF CallsType, LocalType, Sound
    <3>2. pc'[d] = pc[d] /\ job'[d] = job[d]
      BY <2>2 DEF Move
    <3> QED BY <2>2, <3>1, <3>2 DEF RevisionsOwn
  <2> QED BY <2>1, <2>2
<1>4. \A r \in DOMAIN history' : r \in Nat /\ r <= rev'
  BY <1>0, <1>1
<1>5. \A d \in Caller : Held(pc'[d], job'[d]) =>
          /\ job'[d].rev >= 2 /\ job'[d].rev <= rev' /\ job'[d].rev <= MaxCallRev
          /\ Own(pc'[d], job'[d], history')
  BY <1>0, <1>3
<1>6. \A d, e \in Caller : (d # e /\ Held(pc'[d], job'[d]) /\ Held(pc'[e], job'[e])) =>
                                job'[d].rev # job'[e].rev
  <2> SUFFICES ASSUME NEW d \in Caller, NEW e \in Caller, d # e,
                      Held(pc'[d], job'[d]), Held(pc'[e], job'[e])
               PROVE  job'[d].rev # job'[e].rev
    OBVIOUS
  <2>1. CASE d = c
    BY <1>0, <1>3, <2>1
  <2>2. CASE e = c
    BY <1>0, <1>3, <2>2
  <2>3. CASE d # c /\ e # c
    BY <1>3, <2>3 DEF RevisionsOwn
  <2> QED BY <2>1, <2>2, <2>3
<1> QED BY <1>4, <1>5, <1>6 DEF RevisionsOwn

\* The step that writes the history.
LEMMA Writing ==
    ASSUME CallsType, RevisionsOwn, NEW c \in Caller, HistoryInsert(c)
    PROVE  RevisionsOwn'
<1> DEFINE q == IF Deleting(c) THEN "dispatch" ELSE "attach"
           r == job[c].rev
           e == EventIn(job[c])
<1>1. Move(c, "history", q, job[c])
  BY OpMoves
<1>2. history' = Extend(history, r, e) /\ rev' = rev
  BY EventOfIs DEF HistoryInsert
<1> HIDE DEF r, e
<1>e. /\ DOMAIN Extend(history, r, e) = DOMAIN history \cup {r} /\ Extend(history, r, e)[r] = e
      /\ \A x \in DOMAIN history : x # r => Extend(history, r, e)[x] = history[x]
  BY DEF Extend
<1>3. /\ DOMAIN history' = DOMAIN history \cup {r} /\ history'[r] = e
      /\ \A x \in DOMAIN history : x # r => history'[x] = history[x]
  BY <1>2, <1>e, Zenon
<1>4. Held(pc[c], job[c]) /\ r \in Nat /\ r >= 2 /\ r <= rev /\ r <= MaxCallRev
  <2>1. pc[c] = "history"
    BY <1>1 DEF Move
  <2>2. Held(pc[c], job[c])
    BY <2>1 DEF Held
  <2> QED BY <2>2 DEF RevisionsOwn, CallsType, LocalType, Sound, r
<1>5. q \in {"attach", "dispatch"}
  OBVIOUS
<1> HIDE DEF q
<1>6. Own(q, job[c], history')
  BY <1>3, <1>5 DEF Own, r, e
<1>7. ASSUME NEW d \in Caller, Held(pc'[d], job'[d])
      PROVE  /\ Held(pc[d], job[d]) /\ job'[d].rev = job[d].rev
             /\ Own(pc'[d], job'[d], history')
  <2>1. CASE d = c
    BY <1>1, <1>4, <1>6, <2>1 DEF Move
  <2>2. CASE d # c
    <3>1. pc'[d] = pc[d] /\ job'[d] = job[d]
      BY <1>1, <2>2 DEF Move
    <3>2. job[d].rev # r /\ Own(pc[d], job[d], history)
      BY <1>4, <1>7, <2>2, <3>1 DEF RevisionsOwn, r
    <3>3. Own(pc[d], job[d], history')
      BY <1>3, <3>2 DEF Own
    <3> QED BY <1>7, <3>1, <3>3
  <2> QED BY <2>1, <2>2
<1>8. \A x \in DOMAIN history' : x \in Nat /\ x <= rev'
  BY <1>2, <1>3, <1>4 DEF RevisionsOwn
<1> QED BY <1>2, <1>7, <1>8 DEF RevisionsOwn

\* Each step keeps, takes or writes.
LEMMA RevisionStep ==
    ASSUME CallsType, RevisionsOwn, NEW c \in Caller, Step(c)
    PROVE  RevisionsOwn'
<1>0. Sound(pc[c], job[c])
  BY DEF CallsType, LocalType
<1>f. Fits(pc[c], job[c])
  BY <1>0 DEF Sound
<1>h. Held(pc[c], job[c]) => Own(pc[c], job[c], history)
  BY DEF RevisionsOwn
<1>n. ASSUME NEW p, NEW q, NEW w, Move(c, p, q, w), q \in {"idle", "next", "compare", "take"},
             history' = history, rev' = rev
      PROVE  RevisionsOwn'
  <2>1. ~Held(q, w)
    BY <1>n DEF Held
  <2> QED BY <1>n, <2>1, Keeping
<1>1. ASSUME NEW j \in Jobs, Begin(c, j) PROVE RevisionsOwn'
  <2>1. history' = history /\ rev' = rev
    BY <1>1 DEF Begin, storeVars
  <2> QED BY <1>1, <1>n, <2>1, CallMoves
<1>2. ASSUME NEW j \in Jobs, BeginTxn(c, j) PROVE RevisionsOwn'
  <2>1. history' = history /\ rev' = rev
    BY <1>2 DEF BeginTxn, storeVars
  <2> QED BY <1>2, <1>n, <2>1, CallMoves
<1>3. ASSUME NEW j \in Jobs, BeginRevoke(c, j) PROVE RevisionsOwn'
  <2>1. history' = history /\ rev' = rev
    BY <1>3 DEF BeginRevoke
  <2>2. PICK o : o.op = "revoke"
                 /\ Move(c, "idle", "remove", Called(NoJob, j, NoJob.asks, NoJob.todo, o, leases[j.lease]))
    BY <1>3, CallMoves
  <2> DEFINE w == Called(NoJob, j, NoJob.asks, NoJob.todo, o, leases[j.lease])
  <2>3. w.op = o
    BY MadeIs DEF Called
  <2>4. Move(c, "idle", "remove", w)
    BY <2>2
  <2> HIDE DEF w
  <2>5. ~Held("remove", w)
    BY <2>2, <2>3 DEF Held
  <2> QED BY <2>1, <2>4, <2>5, Keeping
<1>4. ASSUME Compare(c) PROVE RevisionsOwn'
  <2>1. history' = history /\ rev' = rev
    BY <1>4 DEF Compare, storeVars
  <2> QED BY <1>4, <1>n, <2>1, CallMoves
<1>5. ASSUME NextOp(c) PROVE RevisionsOwn'
  <2> DEFINE o == Head(job[c].todo)
             w == Started(job[c], o, rev + 1)
             q == FirstStep[o.op]
  <2>0. job[c].todo # <<>> /\ Move(c, "next", q, w) /\ rev < MaxCallRev
    BY <1>5, CallMoves
  <2>1. history' = history /\ rev' = rev + 1
    BY <1>5 DEF NextOp
  <2>2. o \in CallOp
    BY <1>0, <2>0, HeadTailProperties DEF Sound
  <2> HIDE DEF o
  <2>3. w.rev = rev + 1 /\ q \in {"read", "remove", "scan"}
    BY <2>2, StartedIs
  <2> HIDE DEF w, q
  <2> QED BY <2>0, <2>1, <2>3, Taking
<1>6. ASSUME EndCall(c) PROVE RevisionsOwn'
  <2>1. history' = history /\ rev' = rev
    BY <1>6 DEF EndCall, storeVars
  <2> QED BY <1>6, <1>n, <2>1, CallMoves
<1>7. ASSUME ReadPrev(c) PROVE RevisionsOwn'
  <2> DEFINE w == Found(job[c], job[c].key, Row(current, job[c].key), job[c].left)
  <2>1. Move(c, "read", "detach", w) /\ pc[c] = "read"
    BY <1>7, OpMoves DEF Move
  <2>2. w.rev = job[c].rev /\ w.op = job[c].op
    BY MadeIs DEF Found
  <2>3. history' = history /\ rev' = rev
    BY <1>7 DEF ReadPrev, storeVars
  <2> HIDE DEF w
  <2>4. Held(pc[c], job[c])
    BY <2>1 DEF Held
  <2>5. Own("detach", w, history)
    BY <1>h, <2>1, <2>2, <2>4 DEF Own
  <2> QED BY <2>1, <2>2, <2>3, <2>4, <2>5, Keeping
<1>m. ASSUME NEW q, Move(c, pc[c], q, job[c]), Held(pc[c], job[c]),
             pc[c] \notin {"attach", "dispatch", "remove"}, q \notin {"attach", "dispatch"},
             history' = history, rev' = rev
      PROVE  RevisionsOwn'
  <2>1. Own(q, job[c], history)
    BY <1>h, <1>m DEF Own
  <2> QED BY <1>m, <2>1, Keeping
<1>8. ASSUME Detach(c) PROVE RevisionsOwn'
  <2>1. history' = history /\ rev' = rev /\ pc[c] = "detach"
    BY <1>8 DEF Detach
  <2>2. Held(pc[c], job[c])
    BY <2>1 DEF Held
  <2>3. Move(c, pc[c], IF Deleting(c) THEN "index" ELSE "insert", job[c])
    BY <1>8, <2>1, OpMoves
  <2> QED BY <1>m, <2>1, <2>2, <2>3
<1>9. ASSUME Insert(c) PROVE RevisionsOwn'
  <2>1. history' = history /\ rev' = rev /\ pc[c] = "insert"
    BY <1>9 DEF Insert
  <2>2. Held(pc[c], job[c])
    BY <2>1 DEF Held
  <2>3. Move(c, pc[c], "index", job[c])
    BY <1>9, <2>1, OpMoves
  <2> QED BY <1>m, <2>1, <2>2, <2>3
<1>10. ASSUME IndexPush(c) PROVE RevisionsOwn'
  <2>1. history' = history /\ rev' = rev /\ pc[c] = "index"
    BY <1>10 DEF IndexPush
  <2>2. Held(pc[c], job[c])
    BY <2>1 DEF Held
  <2>3. Move(c, pc[c], "history", job[c])
    BY <1>10, <2>1, OpMoves
  <2> QED BY <1>m, <2>1, <2>2, <2>3
<1>11. ASSUME Attach(c) PROVE RevisionsOwn'
  <2>1. history' = history /\ rev' = rev /\ pc[c] = "attach"
    BY <1>11 DEF Attach
  <2>2. Held(pc[c], job[c])
    BY <2>1 DEF Held
  <2>3. Move(c, pc[c], "dispatch", job[c])
    BY <1>11, <2>1, OpMoves
  <2>4. Own("dispatch", job[c], history)
    BY <1>h, <2>1, <2>2 DEF Own
  <2> QED BY <2>1, <2>2, <2>3, <2>4, Keeping
<1>12. ASSUME TakeRevision(c) PROVE RevisionsOwn'
  <2> DEFINE w == Numbered(job[c], rev + 1)
  <2>1. Move(c, "take", "index", w) /\ rev < MaxCallRev
    BY <1>12, OpMoves
  <2>2. w.rev = rev + 1
    BY MadeIs DEF Numbered
  <2>3. history' = history /\ rev' = rev + 1
    BY <1>12 DEF TakeRevision
  <2> HIDE DEF w
  <2> QED BY <2>1, <2>2, <2>3, Taking
<1>13. ASSUME HistoryInsert(c) PROVE RevisionsOwn'
  BY <1>13, Writing
<1>14. ASSUME Dispatch(c) PROVE RevisionsOwn'
  <2> DEFINE q == IF Deleting(c) THEN "remove" ELSE "next"
  <2>1. history' = history /\ rev' = rev /\ pc[c] = "dispatch"
    BY <1>14 DEF Dispatch
  <2>2. Held(pc[c], job[c])
    BY <2>1 DEF Held
  <2>3. Move(c, "dispatch", q, job[c])
    BY <1>14, OpMoves
  <2>4. job[c].rev \in DOMAIN history /\ history[job[c].rev] = EventIn(job[c])
    BY <1>h, <2>1, <2>2 DEF Own
  <2>5. ASSUME Held(q, job[c]) PROVE Own(q, job[c], history)
    <3>1. q = "remove" /\ job[c].op.op # "revoke" /\ job[c].op.op # "put"
      BY <2>5 DEF Held, Deleting
    <3>2. Removing("dispatch", job[c])
      BY <1>f, <2>1, <3>1, FitsAt DEF Putting, Revoking
    <3>3. /\ job[c].op.op \in {"delete", "range"}
          /\ job[c].op.op = "delete" => job[c].left = {}
      BY <3>2 DEF Removing
    <3>4. history[job[c].rev].op = job[c].op /\ history[job[c].rev].type = "delete"
      BY <2>4, <3>1, EventIs
    <3> QED BY <2>4, <3>1, <3>3, <3>4 DEF Own
  <2> HIDE DEF q
  <2> QED BY <2>1, <2>2, <2>3, <2>5, Keeping
<1>15. ASSUME Visit(c) PROVE RevisionsOwn'
  <2>1. history' = history /\ rev' = rev /\ pc[c] = "scan"
    BY <1>15 DEF Visit, storeVars
  <2>2. Held(pc[c], job[c])
    BY <2>1 DEF Held
  <2>3. ASSUME NEW s, NEW l, Move(c, "scan", "scan", Noted(job[c], s, l)) PROVE RevisionsOwn'
    <3> DEFINE w == Noted(job[c], s, l)
    <3>1. w.rev = job[c].rev /\ w.op = job[c].op
      BY MadeIs DEF Noted
    <3>2. Move(c, "scan", "scan", w)
      BY <2>3
    <3> HIDE DEF w
    <3>3. Own("scan", w, history)
      BY <1>h, <2>1, <2>2, <3>1 DEF Own
    <3> QED BY <2>1, <2>2, <3>1, <3>2, <3>3, Keeping
  <2>4. ASSUME Move(c, "scan", "remove", job[c]) PROVE RevisionsOwn'
    BY <1>m, <2>1, <2>2, <2>4
  <2> QED BY <1>15, <2>3, <2>4, VisitMoves
<1>16. ASSUME RemoveKey(c) PROVE RevisionsOwn'
  <2>1. history' = history /\ rev' = rev /\ pc[c] = "remove"
    BY <1>16 DEF RemoveKey
  <2>2. ASSUME NEW k, Removes(c, k) PROVE RevisionsOwn'
    <3> DEFINE w == Found(job[c], k, current[k], job[c].left \ {k})
               q == IF job[c].op.op = "revoke" THEN "take" ELSE "detach"
    <3>1. Move(c, "remove", q, w) /\ k \in job[c].left
      BY <2>2 DEF Removes
    <3>2. w.rev = job[c].rev /\ w.op = job[c].op
      BY MadeIs DEF Found
    <3> HIDE DEF w
    <3>3. ASSUME Held(q, w) PROVE Held("remove", job[c]) /\ Own(q, w, history)
      <4>1. q = "detach" /\ job[c].op.op # "revoke"
        BY <3>3 DEF Held
      <4>2. Held("remove", job[c])
        BY <4>1 DEF Held
      <4> QED BY <1>h, <2>1, <3>1, <3>2, <4>1, <4>2 DEF Own
    <3> HIDE DEF q
    <3> QED BY <2>1, <3>1, <3>2, <3>3, Keeping
  <2>3. ASSUME NEW k, Passes(c, k) PROVE RevisionsOwn'
    <3> DEFINE w == Found(job[c], job[c].key, job[c].prev, job[c].left \ {k})
    <3>1. Move(c, "remove", "remove", w) /\ k \in job[c].left
      BY <2>3 DEF Passes
    <3>2. w.rev = job[c].rev /\ w.op = job[c].op
      BY MadeIs DEF Found
    <3> HIDE DEF w
    <3>3. ASSUME Held("remove", w) PROVE Held("remove", job[c]) /\ Own("remove", w, history)
      <4>2. Held("remove", job[c])
        BY <3>2, <3>3 DEF Held
      <4> QED BY <1>h, <2>1, <3>1, <3>2, <4>2 DEF Own
    <3> QED BY <2>1, <3>1, <3>2, <3>3, Keeping
  <2>4. ASSUME Move(c, "remove", "next", job[c]) PROVE RevisionsOwn'
    BY <1>n, <2>1, <2>4
  <2> QED BY <1>16, <2>2, <2>3, <2>4, RemoveMoves
<1> QED BY <1>1, <1>2, <1>3, <1>4, <1>5, <1>6, <1>7, <1>8, <1>9, <1>10, <1>11, <1>12, <1>13,
           <1>14, <1>15, <1>16 DEF Step

\* A new row at the revision of call c leaves what was heard recorded.
LEMMA RowWritten ==
    ASSUME CallsType, RevisionsOwn, HeardIsRecorded, NEW c \in Caller, HistoryInsert(c)
    PROVE  HeardIsRecorded'
<1> DEFINE r == job[c].rev
           e == EventIn(job[c])
<1>1. history' = Extend(history, r, e) /\ feed' = feed /\ pc[c] = "history"
  BY EventOfIs DEF HistoryInsert
<1>a. e.op = job[c].op /\ (job[c].op.op = "range" => e.type = "delete")
  BY EventIs
<1>2. Own("history", job[c], history)
  BY <1>1 DEF RevisionsOwn, Held
<1>b. \/ r \notin DOMAIN history
      \/ /\ job[c].op.op = "range" /\ r \in DOMAIN history
         /\ history[r].op = job[c].op /\ history[r].type = "delete"
  BY <1>2 DEF Own
<1> HIDE DEF r, e
<1>e. /\ DOMAIN Extend(history, r, e) = DOMAIN history \cup {r} /\ Extend(history, r, e)[r] = e
      /\ \A x \in DOMAIN history : x # r => Extend(history, r, e)[x] = history[x]
  BY DEF Extend
<1>3. /\ DOMAIN history' = DOMAIN history \cup {r} /\ history'[r] = e
      /\ \A x \in DOMAIN history : x # r => history'[x] = history[x]
  BY <1>1, <1>e, Zenon
<1>4. ASSUME NEW i \in DOMAIN feed
      PROVE  /\ feed[i].kv.mod \in DOMAIN history'
             /\ \/ history'[feed[i].kv.mod] = feed[i]
                \/ /\ feed[i].op.op = "range" /\ history'[feed[i].kv.mod].op = feed[i].op
                   /\ history'[feed[i].kv.mod].type = "delete"
  <2> DEFINE f == feed[i]
             m == f.kv.mod
  <2>1. /\ m \in DOMAIN history
        /\ \/ history[m] = f
           \/ f.op.op = "range" /\ history[m].op = f.op /\ history[m].type = "delete"
    BY DEF HeardIsRecorded
  <2> HIDE DEF f, m
  <2>2. CASE m # r
    <3>1. m \in DOMAIN history' /\ history'[m] = history[m]
      BY <1>3, <2>1, <2>2
    <3> QED BY <2>1, <3>1 DEF f, m
  <2>3. CASE m = r
    <3>1. job[c].op.op = "range" /\ history[m].op = job[c].op
      BY <1>b, <2>1, <2>3
    <3>2. f.op = job[c].op
      BY <2>1, <3>1
    <3>3. m \in DOMAIN history' /\ history'[m] = e
      BY <1>3, <2>3
    <3> QED BY <1>a, <3>1, <3>2, <3>3 DEF f, m
  <2> QED BY <2>2, <2>3
<1> QED BY <1>1, <1>4 DEF HeardIsRecorded

\* An event is sent once it is recorded.
LEMMA EventSent ==
    ASSUME CallsType, RevisionsOwn, HeardIsRecorded, NEW c \in Caller, Dispatch(c)
    PROVE  HeardIsRecorded'
<1> DEFINE e == EventIn(job[c])
<1>1. feed' = Append(feed, e) /\ history' = history /\ pc[c] = "dispatch"
  BY EventOfIs DEF Dispatch
<1>2. Own("dispatch", job[c], history)
  BY <1>1 DEF RevisionsOwn, Held
<1>3. e.kv.mod = job[c].rev /\ job[c].rev \in DOMAIN history /\ history[job[c].rev] = e
  BY <1>2, EventIs DEF Own
<1>s. IsSequence(feed)
  BY DEF CallsType, StoreType
<1> HIDE DEF e
<1>4. \A i \in DOMAIN feed' : (i \in DOMAIN feed /\ feed'[i] = feed[i]) \/ feed'[i] = e
  BY <1>s, <1>1, AppendIs
<1>5. ASSUME NEW i \in DOMAIN feed'
      PROVE  /\ feed'[i].kv.mod \in DOMAIN history
             /\ \/ history[feed'[i].kv.mod] = feed'[i]
                \/ /\ feed'[i].op.op = "range" /\ history[feed'[i].kv.mod].op = feed'[i].op
                   /\ history[feed'[i].kv.mod].type = "delete"
  <2>1. CASE feed'[i] = e
    BY <1>3, <2>1
  <2>2. CASE i \in DOMAIN feed /\ feed'[i] = feed[i]
    BY <2>2 DEF HeardIsRecorded
  <2> QED BY <1>4, <2>1, <2>2
<1> QED BY <1>1, <1>5 DEF HeardIsRecorded

\* What is heard is in the history because only a range delete replaces a
\* row, and only its own.
RecordInv == CallsType /\ RevisionsOwn /\ HeardIsRecorded

LEMMA RecordStart == CallsInit => RecordInv
<1> SUFFICES ASSUME CallsInit PROVE RecordInv
  OBVIOUS
<1>1. history = EmptyMap /\ feed = <<>> /\ \A c \in Caller : pc[c] = "idle"
  BY DEF CallsInit
<1>2. DOMAIN history = {} /\ DOMAIN feed = {}
  BY <1>1 DEF EmptyMap
<1>3. \A c \in Caller : ~Held(pc[c], job[c])
  BY <1>1 DEF Held
<1> QED BY <1>2, <1>3, TypeStart DEF RecordInv, RevisionsOwn, HeardIsRecorded

LEMMA RecordStep == RecordInv /\ [CallsNext]_callVars => RecordInv'
<1> SUFFICES ASSUME RecordInv, [CallsNext]_callVars PROVE RecordInv'
  OBVIOUS
<1>0. CallsType /\ RevisionsOwn /\ HeardIsRecorded
  BY DEF RecordInv
<1>t. CallsType'
  BY <1>0, TypeStep
<1>1. ASSUME NEW c \in Caller, Step(c) PROVE RevisionsOwn' /\ HeardIsRecorded'
  <2>1. RevisionsOwn'
    BY <1>0, <1>1, RevisionStep
  <2>2. CASE HistoryInsert(c)
    BY <1>0, <2>1, <2>2, RowWritten
  <2>3. CASE Dispatch(c)
    BY <1>0, <2>1, <2>3, EventSent
  <2>4. CASE history' = history /\ feed' = feed
    BY <1>0, <2>1, <2>4 DEF HeardIsRecorded
  <2>5. HistoryInsert(c) \/ Dispatch(c) \/ (history' = history /\ feed' = feed)
    BY <1>1 DEF Step, Begin, BeginTxn, BeginRevoke, Compare, NextOp, EndCall, ReadPrev, Detach,
                Insert, Attach, Visit, RemoveKey, TakeRevision, IndexPush, storeVars
  <2> QED BY <2>2, <2>3, <2>4, <2>5
<1>2. ASSUME UNCHANGED <<storeVars, lock, pc, job, plain>> PROVE RevisionsOwn' /\ HeardIsRecorded'
  BY <1>0, <1>2 DEF RevisionsOwn, HeardIsRecorded, storeVars
<1>3. UNCHANGED callVars => UNCHANGED <<storeVars, lock, pc, job, plain>>
  BY DEF callVars
<1> QED BY <1>t, <1>1, <1>2, <1>3, WatchSteps DEF CallsNext, RecordInv

\* Whoever hears of a write on the watch channel finds it in the history at
\* its revision, or, for a key of a range delete, the delete of another key
\* of that range, whatever callers run side by side: every operation has a
\* revision of its own (NextOp, TakeRevision), only a range delete writes a
\* row twice (HistoryInsert), and Dispatch comes after it.
THEOREM EventsRecorded == CallsSpec => []HeardIsRecorded
<1>1. RecordInv => HeardIsRecorded
  BY DEF RecordInv
<1> QED BY <1>1, RecordStart, RecordStep, PTL DEF CallsSpec

-----------------------------------------------------------------------------
(* Transactions *)

\* The keys at which call j has yet to push its revision.
Ahead(p, j) ==
    j.scan \cup j.left \cup (IF p \in {"read", "detach", "insert", "index"} THEN {j.key} ELSE {})

\* Between its write of `current` and its row in the history.
Busy(p, j) == p \in {"index", "history"} \/ (p = "detach" /\ j.op.op # "put")

\* What call j at step p relies on, with index x and pairs m.
Ready(p, j, x, m) ==
    /\ \A k \in Key : k \in Ahead(p, j) => \A i \in DOMAIN x[k] : x[k][i] < j.rev
    /\ (j.op.op = "put" /\ p \in {"read", "detach", "insert"}) => \A k \in DOMAIN m : m[k].mod < j.rev
    /\ (j.op.op = "put" /\ p \in {"detach", "insert"}) => j.prev = Row(m, j.key)
    /\ Busy(p, j) => Row(m, j.key) = IF j.op.op = "put" THEN EventIn(j).kv ELSE Absent
    /\ p = "history" => x[j.key] # <<>> /\ x[j.key][Len(x[j.key])] = j.rev

\* A key with index entries s, history h and pair v: the newest entry leads
\* to what is there.
Shown(s, h, v) ==
    IF s = <<>> THEN v = Absent
    ELSE /\ s[Len(s)] \in DOMAIN h
         /\ v = IF h[s[Len(s)]].type = "delete" THEN Absent ELSE h[s[Len(s)]].kv

\* Transactions take turns,
Alone == \A c \in Caller : pc[c] # "idle" => lock = c /\ job[c].op.op # "revoke"
\* no revision is above the newest,
RevsBounded ==
    /\ \A k \in Key : \A i \in DOMAIN index[k] : index[k][i] <= rev
    /\ \A k \in DOMAIN current : current[k].mod \in Nat /\ current[k].mod <= rev
\* and every key but the one being written is shown.
KeysShown ==
    \A k \in Key : (\A c \in Caller : ~(Busy(pc[c], job[c]) /\ job[c].key = k)) =>
                       Shown(index[k], history, Row(current, k))

TxnsInv ==
    /\ Alone /\ EveryIndexSorted /\ RevsBounded /\ KeysShown
    /\ \A c \in Caller : Held(pc[c], job[c]) => Ready(pc[c], job[c], index, current)

\* Nobody else is in a call.
LEMMA OthersIdle ==
    ASSUME TxnsInv, NEW c \in Caller, Step(c), plain' = FALSE
    PROVE  \A d \in Caller : d # c => pc[d] = "idle"
<1>1. CASE pc[c] # "idle"
  BY <1>1 DEF TxnsInv, Alone
<1>2. CASE pc[c] = "idle"
  <2>1. \E j \in Jobs : BeginTxn(c, j)
    BY <1>2 DEF Step, Begin, BeginRevoke, Compare, NextOp, EndCall, ReadPrev, Detach, Insert, Attach,
                Visit, RemoveKey, TakeRevision, IndexPush, HistoryInsert, Dispatch
  <2>2. lock = Free
    BY <2>1 DEF BeginTxn
  <2> QED BY <2>2, CallerAssumption DEF TxnsInv, Alone
<1> QED BY <1>1, <1>2

\* A move of the one that is in a call.
LEMMA TxnMove ==
    ASSUME TxnsInv, NEW c \in Caller, NEW p, NEW q, NEW w, Move(c, p, q, w),
           \A d \in Caller : d # c => pc[d] = "idle",
           q = "idle" \/ (lock' = c /\ w.op.op # "revoke"),
           EveryIndexSorted', RevsBounded',
           Held(q, w) => Ready(q, w, index', current'),
           \A k \in Key : ~(Busy(q, w) /\ w.key = k) => Shown(index'[k], history', Row(current', k))
    PROVE  TxnsInv'
<1>1. /\ pc'[c] = q /\ job'[c] = w
      /\ \A d \in Caller : d # c => pc'[d] = "idle"
  BY DEF Move
<1>2. Alone'
  BY <1>1 DEF Alone
<1>3. KeysShown'
  BY <1>1 DEF KeysShown
<1>4. \A d \in Caller : d # c => ~Held(pc'[d], job'[d])
  BY <1>1 DEF Held
<1>5. \A d \in Caller : Held(pc'[d], job'[d]) => Ready(pc'[d], job'[d], index', current')
  BY <1>1, <1>4
<1> QED BY <1>2, <1>3, <1>5 DEF TxnsInv

\* A step that leaves what the store holds.
LEMMA TxnStays ==
    ASSUME TxnsInv, NEW c \in Caller, NEW p, NEW q, NEW w, Move(c, p, q, w),
           \A d \in Caller : d # c => pc[d] = "idle",
           q = "idle" \/ (lock' = c /\ w.op.op # "revoke"),
           UNCHANGED <<rev, current, index, history>>,
           Held(q, w) => Ready(q, w, index, current),
           Busy(p, job[c]) => Busy(q, w) /\ w.key = job[c].key
    PROVE  TxnsInv'
<1>1. EveryIndexSorted' /\ RevsBounded'
  BY DEF TxnsInv, EveryIndexSorted, RevsBounded
<1>2. \A d \in Caller : d # c => ~Busy(pc[d], job[d])
  BY DEF Busy
<1>3. pc[c] = p
  BY DEF Move
<1>4. \A k \in Key : ~(Busy(q, w) /\ w.key = k) => Shown(index[k], history, Row(current, k))
  BY <1>2, <1>3 DEF TxnsInv, KeysShown
<1> QED BY <1>1, <1>4, TxnMove

\* A transaction begins, compares, goes to its next operation and ends.
LEMMA TxnGoesOn ==
    ASSUME RecordInv, TxnsInv, NEW c \in Caller, \A d \in Caller : d # c => pc[d] = "idle",
           (\E j \in Jobs : BeginTxn(c, j)) \/ Compare(c) \/ NextOp(c) \/ EndCall(c)
    PROVE  TxnsInv'
<1>0. CallsType /\ RevisionsOwn /\ Sound(pc[c], job[c])
  BY DEF RecordInv, CallsType, LocalType
<1>a. pc[c] # "idle" => lock = c /\ job[c].op.op # "revoke"
  BY DEF TxnsInv, Alone
<1>b. \A p \in {"idle", "next", "compare"} : \A j : ~Busy(p, j) /\ ~Held(p, j)
  BY DEF Busy, Held
<1>1. ASSUME NEW j \in Jobs, BeginTxn(c, j) PROVE TxnsInv'
  <2> DEFINE w == Called(NoJob, j, j.compares, NoJob.todo, NoJob.op, NoJob.left)
  <2>1. Move(c, "idle", "compare", w)
    BY <1>0, <1>1, CallMoves
  <2>2. w.op.op # "revoke"
    BY MadeIs, NoJobIs DEF Called
  <2>3. lock' = c /\ UNCHANGED <<rev, current, index, history>>
    BY <1>1 DEF BeginTxn, storeVars
  <2> HIDE DEF w
  <2> QED BY <1>b, <2>1, <2>2, <2>3, TxnStays
<1>2. ASSUME Compare(c) PROVE TxnsInv'
  <2>1. lock' = lock /\ UNCHANGED <<rev, current, index, history>> /\ pc[c] = "compare"
    BY <1>2 DEF Compare, storeVars
  <2>2. ASSUME NEW a, NEW t, NEW q \in {"next", "compare"}, Move(c, "compare", q, Asked(job[c], a, t))
        PROVE  TxnsInv'
    <3> DEFINE w == Asked(job[c], a, t)
    <3>1. Move(c, "compare", q, w)
      BY <2>2
    <3>2. w.op = job[c].op
      BY MadeIs DEF Asked
    <3> HIDE DEF w
    <3> QED BY <1>a, <1>b, <2>1, <3>1, <3>2, TxnStays
  <2>3. \/ \E ops : Move(c, "compare", "next", Asked(job[c], <<>>, ops))
        \/ Move(c, "compare", "compare", Asked(job[c], Tail(job[c].asks), job[c].todo))
    BY <1>0, <1>2, CallMoves
  <2> QED BY <2>2, <2>3
<1>3. ASSUME NextOp(c) PROVE TxnsInv'
  <2> DEFINE o == Head(job[c].todo)
             w == Started(job[c], o, rev + 1)
             q == FirstStep[o.op]
  <2>0. job[c].todo # <<>> /\ Move(c, "next", q, w) /\ pc[c] = "next"
    BY <1>0, <1>3, CallMoves DEF Move
  <2>1. /\ rev' = rev + 1 /\ rev \in Nat /\ lock' = lock
        /\ UNCHANGED <<current, index, history>>
    BY <1>0, <1>3 DEF NextOp, CallsType, StoreType
  <2>2. o \in CallOp
    BY <1>0, <2>0, HeadTailProperties DEF Sound
  <2> HIDE DEF o
  <2>3. /\ w.rev = rev + 1 /\ w.op = o /\ w.op.op # "revoke"
        /\ q \in {"read", "remove", "scan"}
    BY <2>2, StartedIs
  <2> HIDE DEF w, q
  <2>4. index \in [Key -> Seq(Nat)]
    BY <1>0 DEF CallsType, StoreType
  <2>5. \A k \in Key : \A i \in DOMAIN index[k] : index[k][i] \in Nat /\ index[k][i] <= rev
    BY <2>4, ElementOfSeq, LenProperties DEF TxnsInv, RevsBounded
  <2>6. \A k \in DOMAIN current : current[k].mod \in Nat /\ current[k].mod <= rev
    BY DEF TxnsInv, RevsBounded
  <2>7. RevsBounded'
    BY <2>1, <2>5, <2>6 DEF RevsBounded
  <2>8. EveryIndexSorted'
    BY <2>1 DEF TxnsInv, EveryIndexSorted
  <2>9. Ready(q, w, index, current)
    <3>1. \A k \in Key : \A i \in DOMAIN index[k] : index[k][i] < w.rev
      BY <2>1, <2>3, <2>5
    <3>2. \A k \in DOMAIN current : current[k].mod < w.rev
      BY <2>1, <2>3, <2>6
    <3>3. ~Busy(q, w)
      BY <2>3 DEF Busy
    <3> QED BY <2>3, <3>1, <3>2, <3>3 DEF Ready
  <2>10. \A k \in Key : Shown(index[k], history, Row(current, k))
    BY <1>b, <2>0 DEF TxnsInv, KeysShown
  <2> QED BY <1>a, <2>0, <2>1, <2>3, <2>7, <2>8, <2>9, <2>10, TxnMove
<1>4. ASSUME EndCall(c) PROVE TxnsInv'
  <2>1. UNCHANGED <<rev, current, index, history>>
    BY <1>4 DEF EndCall, storeVars
  <2>2. Move(c, "next", "idle", NoJob)
    BY <1>0, <1>4, CallMoves
  <2> QED BY <1>b, <2>1, <2>2, TxnStays
<1> QED BY <1>1, <1>2, <1>3, <1>4

\* The steps of an operation that leave what the store holds.
LEMMA TxnReads ==
    ASSUME RecordInv, TxnsInv, NEW c \in Caller, \A d \in Caller : d # c => pc[d] = "idle",
           ReadPrev(c) \/ Detach(c) \/ Attach(c) \/ Dispatch(c) \/ Visit(c)
    PROVE  TxnsInv'
<1>0. CallsType /\ RevisionsOwn /\ Sound(pc[c], job[c])
  BY DEF RecordInv, CallsType, LocalType
<1>f. Fits(pc[c], job[c])
  BY <1>0 DEF Sound
<1>a. pc[c] # "idle" => lock = c /\ job[c].op.op # "revoke"
  BY DEF TxnsInv, Alone
<1>r. Held(pc[c], job[c]) => Ready(pc[c], job[c], index, current)
  BY DEF TxnsInv
<1>1. ASSUME ReadPrev(c) PROVE TxnsInv'
  <2> DEFINE p == Row(current, job[c].key)
             w == Found(job[c], job[c].key, p, job[c].left)
  <2>1. Move(c, "read", "detach", w) /\ pc[c] = "read"
    BY <1>0, <1>1, OpMoves DEF Move
  <2>2. lock' = lock /\ UNCHANGED <<rev, current, index, history>>
    BY <1>1 DEF ReadPrev, storeVars
  <2> HIDE DEF p
  <2>3. /\ w.op = job[c].op /\ w.rev = job[c].rev /\ w.key = job[c].key
        /\ w.scan = job[c].scan /\ w.left = job[c].left /\ w.prev = p
    BY MadeIs DEF Found
  <2> HIDE DEF w
  <2>4. job[c].op.op = "put"
    BY <1>f, <2>1, FitsAt DEF Putting
  <2>5. Ready("read", job[c], index, current)
    BY <1>r, <2>1 DEF Held
  <2>6. Ready("detach", w, index, current)
    <3>1. Ahead("detach", w) = Ahead("read", job[c])
      BY <2>3 DEF Ahead
    <3>2. ~Busy("detach", w)
      BY <2>3, <2>4 DEF Busy
    <3> QED BY <2>3, <2>4, <2>5, <3>1, <3>2 DEF Ready, p
  <2>7. ~Busy("read", job[c])
    BY DEF Busy
  <2> QED BY <1>a, <2>1, <2>2, <2>3, <2>6, <2>7, TxnStays
<1>2. ASSUME Detach(c) PROVE TxnsInv'
  <2> DEFINE q == IF Deleting(c) THEN "index" ELSE "insert"
  <2>1. Move(c, "detach", q, job[c]) /\ pc[c] = "detach"
    BY <1>0, <1>2, OpMoves DEF Move
  <2>2. lock' = lock /\ UNCHANGED <<rev, current, index, history>>
    BY <1>2 DEF Detach
  <2>3. Ready("detach", job[c], index, current)
    BY <1>r, <2>1 DEF Held
  <2>4. Ready(q, job[c], index, current)
    <3>1. Ahead(q, job[c]) = Ahead("detach", job[c])
      BY DEF Ahead
    <3>2. Busy(q, job[c]) => Busy("detach", job[c])
      BY DEF Busy, Deleting
    <3> QED BY <2>3, <3>1, <3>2 DEF Ready, Deleting
  <2>5. Busy("detach", job[c]) => Busy(q, job[c])
    BY DEF Busy, Deleting
  <2> HIDE DEF q
  <2> QED BY <1>a, <2>1, <2>2, <2>4, <2>5, TxnStays
<1>3. ASSUME Attach(c) PROVE TxnsInv'
  <2>1. Move(c, "attach", "dispatch", job[c]) /\ pc[c] = "attach"
    BY <1>0, <1>3, OpMoves DEF Move
  <2>2. lock' = lock /\ UNCHANGED <<rev, current, index, history>>
    BY <1>3 DEF Attach
  <2>3. Ready("attach", job[c], index, current)
    BY <1>r, <2>1 DEF Held
  <2>4. Ready("dispatch", job[c], index, current)
    BY <2>3 DEF Ready, Ahead, Busy
  <2>5. ~Busy("attach", job[c])
    BY DEF Busy
  <2> QED BY <1>a, <2>1, <2>2, <2>4, <2>5, TxnStays
<1>4. ASSUME Dispatch(c) PROVE TxnsInv'
  <2> DEFINE q == IF Deleting(c) THEN "remove" ELSE "next"
  <2>1. Move(c, "dispatch", q, job[c]) /\ pc[c] = "dispatch"
    BY <1>0, <1>4, OpMoves DEF Move
  <2>2. lock' = lock /\ UNCHANGED <<rev, current, index, history>>
    BY <1>4 DEF Dispatch
  <2>3. Ready("dispatch", job[c], index, current)
    BY <1>r, <2>1 DEF Held
  <2>4. Ready(q, job[c], index, current)
    BY <2>3 DEF Ready, Ahead, Busy
  <2>5. ~Busy("dispatch", job[c])
    BY DEF Busy
  <2> HIDE DEF q
  <2> QED BY <1>a, <2>1, <2>2, <2>4, <2>5, TxnStays
<1>5. ASSUME Visit(c) PROVE TxnsInv'
  <2>1. lock' = lock /\ UNCHANGED <<rev, current, index, history>> /\ pc[c] = "scan"
    BY <1>5 DEF Visit, storeVars
  <2>2. Ready("scan", job[c], index, current)
    BY <1>r, <2>1 DEF Held
  <2>b. \A j : ~Busy("scan", j) /\ ~Busy("remove", j)
    BY DEF Busy
  <2>3. ASSUME NEW k \in job[c].scan,
               Move(c, "scan", "scan", Noted(job[c], job[c].scan \ {k},
                                             job[c].left \cup ({k} \cap DOMAIN current)))
        PROVE  TxnsInv'
    <3> DEFINE s == job[c].scan \ {k}
               l == job[c].left \cup ({k} \cap DOMAIN current)
               w == Noted(job[c], s, l)
    <3>1. Move(c, "scan", "scan", w)
      BY <2>3
    <3>2. s \cup l \subseteq job[c].scan \cup job[c].left
      BY <2>3
    <3> HIDE DEF s, l
    <3>3. w.op = job[c].op /\ w.rev = job[c].rev /\ w.scan = s /\ w.left = l
      BY MadeIs DEF Noted
    <3> HIDE DEF w
    <3>4. Ready("scan", w, index, current)
      <4>1. Ahead("scan", w) \subseteq Ahead("scan", job[c])
        BY <3>2, <3>3 DEF Ahead
      <4> QED BY <2>2, <2>b, <3>3, <4>1 DEF Ready
    <3> QED BY <1>a, <2>1, <2>b, <3>1, <3>3, <3>4, TxnStays
  <2>4. ASSUME Move(c, "scan", "remove", job[c]) PROVE TxnsInv'
    <3>1. Ready("remove", job[c], index, current)
      BY <2>2, <2>b DEF Ready, Ahead
    <3> QED BY <1>a, <2>1, <2>b, <2>4, <3>1, TxnStays
  <2> QED BY <1>0, <1>5, <2>3, <2>4, VisitMoves
<1> QED BY <1>1, <1>2, <1>3, <1>4, <1>5

\* A put writes its pair.
LEMMA TxnInserts ==
    ASSUME RecordInv, TxnsInv, NEW c \in Caller, \A d \in Caller : d # c => pc[d] = "idle", Insert(c)
    PROVE  TxnsInv'
<1> DEFINE k == job[c].key
           v == EventIn(job[c]).kv
<1>0. CallsType /\ RevisionsOwn /\ Sound(pc[c], job[c])
  BY DEF RecordInv, CallsType, LocalType
<1>1. Move(c, "insert", "index", job[c]) /\ pc[c] = "insert"
  BY <1>0, OpMoves DEF Move
<1>2. lock = c /\ job[c].op.op # "revoke"
  BY <1>1 DEF TxnsInv, Alone
<1>3. job[c].op.op = "put"
  BY <1>0, <1>1, FitsAt DEF Sound, Putting
<1>4. v.mod = job[c].rev /\ v = NewKv(c)
  BY <1>3, EventIs DEF NewKv
<1>5. /\ current' = Extend(current, k, v)
      /\ UNCHANGED <<rev, index, history, lock>>
  BY <1>4 DEF Insert
<1>6. Held(pc[c], job[c])
  BY <1>1 DEF Held
<1>7. Ready("insert", job[c], index, current) /\ job[c].rev \in Nat /\ job[c].rev <= rev
  BY <1>0, <1>1, <1>6 DEF TxnsInv, RevisionsOwn, Sound
<1> HIDE DEF k, v
<1>8. DOMAIN current' = DOMAIN current \cup {k} /\ current'[k] = v
      /\ \A x \in DOMAIN current : x # k => current'[x] = current[x]
  BY <1>5 DEF Extend
<1>9. /\ Row(current', k) = v
      /\ \A x : x # k => Row(current', x) = Row(current, x)
  BY <1>8 DEF Row
<1>10. RevsBounded'
  BY <1>4, <1>5, <1>7, <1>8 DEF TxnsInv, RevsBounded
<1>11. EveryIndexSorted'
  BY <1>5 DEF TxnsInv, EveryIndexSorted
<1>12. Ready("index", job[c], index', current')
  <2>1. Ahead("index", job[c]) = Ahead("insert", job[c])
    BY DEF Ahead
  <2> QED BY <1>3, <1>5, <1>7, <1>9, <2>1 DEF Ready, k, v
<1>13. \A d \in Caller : ~Busy(pc[d], job[d])
  BY <1>1 DEF Busy
<1>14. \A x \in Key : Shown(index[x], history, Row(current, x))
  BY <1>13 DEF TxnsInv, KeysShown
<1>15. Busy("index", job[c])
  BY DEF Busy
<1>16. \A x \in Key : ~(Busy("index", job[c]) /\ job[c].key = x) => Shown(index'[x], history', Row(current', x))
  BY <1>5, <1>9, <1>14, <1>15 DEF k
<1> QED BY <1>1, <1>2, <1>5, <1>10, <1>11, <1>12, <1>16, TxnMove

\* A delete goes to its next key.
LEMMA TxnRemoves ==
    ASSUME RecordInv, TxnsInv, NEW c \in Caller, \A d \in Caller : d # c => pc[d] = "idle", RemoveKey(c)
    PROVE  TxnsInv'
<1>0. CallsType /\ RevisionsOwn /\ Sound(pc[c], job[c])
  BY DEF RecordInv, CallsType, LocalType
<1>1. pc[c] = "remove" /\ UNCHANGED <<rev, index, history, lock>>
  BY DEF RemoveKey
<1>2. lock = c /\ job[c].op.op # "revoke"
  BY <1>1 DEF TxnsInv, Alone
<1>3. Ready("remove", job[c], index, current)
  BY <1>1, <1>2 DEF TxnsInv, Held
<1>b. \A j : ~Busy("remove", j) /\ ~Busy("next", j) /\ ~Held("next", j)
  BY DEF Busy, Held
<1>4. ASSUME NEW k, Removes(c, k) PROVE TxnsInv'
  <2> DEFINE l == job[c].left \ {k}
             v == current[k]
             w == Found(job[c], k, v, l)
  <2>1. /\ Move(c, "remove", "detach", w) /\ k \in job[c].left
        /\ current' = Without(current, {k})
    BY <1>2, <1>4 DEF Removes
  <2>2. l \cup {k} = job[c].left
    BY <2>1
  <2> HIDE DEF l, v
  <2>3. /\ w.op = job[c].op /\ w.rev = job[c].rev /\ w.key = k
        /\ w.scan = job[c].scan /\ w.left = l
    BY MadeIs DEF Found
  <2> HIDE DEF w
  <2>4. /\ DOMAIN current' \subseteq DOMAIN current
        /\ \A x \in DOMAIN current' : current'[x] = current[x]
    BY <2>1 DEF Without, Restrict
  <2>5. /\ Row(current', k) = Absent
        /\ \A x : x # k => Row(current', x) = Row(current, x)
    BY <2>1 DEF Row, Without, Restrict
  <2>6. RevsBounded'
    BY <1>1, <2>4 DEF TxnsInv, RevsBounded
  <2>7. EveryIndexSorted'
    BY <1>1 DEF TxnsInv, EveryIndexSorted
  <2>8. job[c].op.op # "put"
    BY <1>0, <1>1, FitsAt DEF Sound, Choosing, Revoking
  <2>9. Ready("detach", w, index', current')
    <3>1. Ahead("detach", w) = Ahead("remove", job[c])
      BY <2>2, <2>3 DEF Ahead
    <3> QED BY <1>1, <1>3, <2>3, <2>5, <2>8, <3>1 DEF Ready
  <2>10. Busy("detach", w)
    BY <2>3, <2>8 DEF Busy
  <2>11. \A d \in Caller : ~Busy(pc[d], job[d])
    BY <1>1 DEF Busy
  <2>12. \A x \in Key : Shown(index[x], history, Row(current, x))
    BY <2>11 DEF TxnsInv, KeysShown
  <2>13. \A x \in Key : ~(Busy("detach", w) /\ w.key = x) => Shown(index'[x], history', Row(current', x))
    BY <1>1, <2>3, <2>5, <2>10, <2>12
  <2> QED BY <1>1, <1>2, <2>1, <2>3, <2>6, <2>7, <2>9, <2>13, TxnMove
<1>5. ASSUME NEW k, Passes(c, k) PROVE TxnsInv'
  <2> DEFINE l == job[c].left \ {k}
             w == Found(job[c], job[c].key, job[c].prev, l)
  <2>1. Move(c, "remove", "remove", w) /\ current' = current
    BY <1>5 DEF Passes
  <2>2. l \subseteq job[c].left
    OBVIOUS
  <2> HIDE DEF l
  <2>3. w.op = job[c].op /\ w.rev = job[c].rev /\ w.scan = job[c].scan /\ w.left = l
    BY MadeIs DEF Found
  <2> HIDE DEF w
  <2>4. Ready("remove", w, index, current)
    <3>1. Ahead("remove", w) \subseteq Ahead("remove", job[c])
      BY <2>2, <2>3 DEF Ahead
    <3> QED BY <1>3, <1>b, <2>3, <3>1 DEF Ready
  <2> QED BY <1>1, <1>2, <1>b, <2>1, <2>3, <2>4, TxnStays
<1>6. ASSUME Move(c, "remove", "next", job[c]), current' = current PROVE TxnsInv'
  BY <1>1, <1>2, <1>b, <1>6, TxnStays
<1> QED BY <1>0, <1>4, <1>5, <1>6, RemoveMoves

\* A key's index gets the operation's revision.
LEMMA TxnPushes ==
    ASSUME RecordInv, TxnsInv, NEW c \in Caller, \A d \in Caller : d # c => pc[d] = "idle", IndexPush(c)
    PROVE  TxnsInv'
<1> DEFINE k == job[c].key
           r == job[c].rev
<1>0. CallsType /\ RevisionsOwn /\ Sound(pc[c], job[c]) /\ index \in [Key -> Seq(Nat)]
  BY DEF RecordInv, CallsType, LocalType, StoreType
<1>1. Move(c, "index", "history", job[c]) /\ pc[c] = "index"
  BY <1>0, OpMoves DEF Move
<1>2. lock = c /\ job[c].op.op # "revoke"
  BY <1>1 DEF TxnsInv, Alone
<1>3. Putting("index", job[c]) \/ Removing("index", job[c])
  BY <1>0, <1>1, <1>2, FitsAt DEF Sound, Revoking
<1>4. k \in Key /\ k \notin job[c].scan \cup job[c].left
  BY <1>3 DEF Putting, Removing, CallOp
<1>5. index' = [index EXCEPT ![k] = Append(index[k], r)] /\ UNCHANGED <<rev, current, history, lock>>
  BY DEF IndexPush
<1>6. Held(pc[c], job[c])
  BY <1>1 DEF Held
<1>7. Ready("index", job[c], index, current) /\ r \in Nat /\ r <= rev
  BY <1>0, <1>1, <1>6 DEF TxnsInv, RevisionsOwn, Sound
<1>a. \A i \in DOMAIN index[k] : index[k][i] < r
  BY <1>4, <1>7 DEF Ready, Ahead
<1> HIDE DEF k, r
<1> DEFINE s == index[k]
           t == Append(s, r)
           n == Len(s)
<1>8. s \in Seq(Nat) /\ n \in Nat /\ DOMAIN s = 1..n
  BY <1>0, <1>4, LenProperties
<1>9. /\ t \in Seq(Nat) /\ Len(t) = n + 1 /\ DOMAIN t = 1..(n + 1)
      /\ t[n + 1] = r /\ \A i \in 1..n : t[i] = s[i]
  BY <1>7, <1>8, AppendProperties, LenProperties
<1>10. index'[k] = t /\ \A x \in Key : x # k => index'[x] = index[x]
  BY <1>0, <1>4, <1>5
<1>11. RevsBounded'
  <2>1. \A i \in DOMAIN s : s[i] <= rev
    BY <1>4 DEF TxnsInv, RevsBounded
  <2>2. \A i \in DOMAIN t : t[i] <= rev
    <3> HIDE DEF s, t, n
    <3>1. \A i \in DOMAIN t : i = n + 1 \/ i \in 1..n
      BY <1>8, <1>9
    <3>2. t[n + 1] <= rev
      BY <1>7, <1>9
    <3>3. \A i \in 1..n : t[i] <= rev
      BY <1>8, <1>9, <2>1
    <3> QED BY <3>1, <3>2, <3>3
  <2> HIDE DEF s, t, n
  <2>3. \A x \in Key : \A i \in DOMAIN index'[x] : index'[x][i] <= rev
    BY <1>10, <2>2 DEF TxnsInv, RevsBounded
  <2> QED BY <1>5, <2>3 DEF TxnsInv, RevsBounded
<1>12. EveryIndexSorted'
  <2>1. \A i, j \in DOMAIN s : i < j => s[i] < s[j]
    BY <1>4 DEF TxnsInv, EveryIndexSorted
  <2>2. \A i \in DOMAIN s : s[i] < r
    BY <1>a
  <2> HIDE DEF s, t, n
  <2>3. ASSUME NEW i \in DOMAIN t, NEW j \in DOMAIN t, i < j PROVE t[i] < t[j]
    <3>1. i \in 1..n
      BY <1>8, <1>9, <2>3
    <3>2. CASE j \in 1..n
      BY <1>8, <1>9, <2>1, <2>3, <3>1, <3>2
    <3>3. CASE j = n + 1
      BY <1>8, <1>9, <2>2, <3>1, <3>3
    <3> QED BY <1>8, <1>9, <2>3, <3>2, <3>3
  <2> QED BY <1>10, <2>3 DEF TxnsInv, EveryIndexSorted
<1> HIDE DEF s, t
<1>e. t # <<>> /\ t[Len(t)] = r
  BY <1>8, <1>9
<1>13. Ready("history", job[c], index', current')
  <2>1. \A x \in Ahead("history", job[c]) : x # k /\ x \in Ahead("index", job[c])
    BY <1>4 DEF Ahead
  <2>2. Busy("index", job[c])
    BY DEF Busy
  <2>3. \A x \in Key : x \in Ahead("history", job[c]) =>
            \A i \in DOMAIN index'[x] : index'[x][i] < job[c].rev
    BY <1>7, <1>10, <2>1 DEF Ready
  <2>4. index'[job[c].key] # <<>> /\ index'[job[c].key][Len(index'[job[c].key])] = job[c].rev
    BY <1>10, <1>e DEF k, r
  <2> QED BY <1>5, <1>7, <2>2, <2>3, <2>4 DEF Ready
<1>14. Busy("history", job[c]) /\ Busy(pc[c], job[c])
  BY <1>1 DEF Busy
<1>15. \A d \in Caller : d # c => ~Busy(pc[d], job[d])
  BY DEF Busy
<1>16. \A x \in Key : x # k => Shown(index[x], history, Row(current, x))
  BY <1>15 DEF TxnsInv, KeysShown, k
<1>17. \A x \in Key : ~(Busy("history", job[c]) /\ job[c].key = x) => Shown(index'[x], history', Row(current', x))
  BY <1>5, <1>10, <1>14, <1>16 DEF k
<1> QED BY <1>1, <1>2, <1>5, <1>11, <1>12, <1>13, <1>17, TxnMove

\* The operation's row is written.
LEMMA TxnWrites ==
    ASSUME RecordInv, TxnsInv, NEW c \in Caller, \A d \in Caller : d # c => pc[d] = "idle", HistoryInsert(c)
    PROVE  TxnsInv'
<1> DEFINE k == job[c].key
           r == job[c].rev
           e == EventIn(job[c])
           q == IF Deleting(c) THEN "dispatch" ELSE "attach"
<1>0. CallsType /\ RevisionsOwn
  BY DEF RecordInv
<1>1. Move(c, "history", q, job[c]) /\ pc[c] = "history"
  BY <1>0, OpMoves DEF Move
<1>2. lock = c /\ job[c].op.op # "revoke"
  BY <1>1 DEF TxnsInv, Alone
<1>3. history' = Extend(history, r, e) /\ UNCHANGED <<rev, current, index, lock>>
  BY EventOfIs DEF HistoryInsert
<1>4. Held(pc[c], job[c])
  BY <1>1 DEF Held
<1>5. Ready("history", job[c], index, current) /\ Own("history", job[c], history)
  BY <1>0, <1>1, <1>4 DEF TxnsInv, RevisionsOwn
<1>6. \/ r \notin DOMAIN history
      \/ job[c].op.op = "range" /\ r \in DOMAIN history /\ history[r].type = "delete"
  BY <1>5 DEF Own
<1>7. /\ Row(current, k) = IF job[c].op.op = "put" THEN e.kv ELSE Absent
      /\ index[k] # <<>> /\ index[k][Len(index[k])] = r
  BY <1>5 DEF Ready, Busy
<1>8. /\ job[c].op.op = "put" => e.type = "put"
      /\ job[c].op.op # "put" => e.type = "delete"
  BY EventIs
<1> HIDE DEF k, r, e
<1>9. /\ DOMAIN history' = DOMAIN history \cup {r} /\ history'[r] = e
      /\ \A x \in DOMAIN history : x # r => history'[x] = history[x]
  BY <1>3 DEF Extend
<1>10. EveryIndexSorted' /\ RevsBounded'
  BY <1>3 DEF TxnsInv, EveryIndexSorted, RevsBounded
<1>11. Ready(q, job[c], index', current')
  <2>1. ~Busy(q, job[c])
    BY DEF Busy
  <2>2. Ahead(q, job[c]) = Ahead("history", job[c])
    BY DEF Ahead
  <2> QED BY <1>3, <1>5, <2>1, <2>2 DEF Ready
<1>12. \A d \in Caller : d # c => ~Busy(pc[d], job[d])
  BY DEF Busy
<1>13. \A x \in Key : x # k => Shown(index[x], history, Row(current, x))
  BY <1>12 DEF TxnsInv, KeysShown, k
<1>14. ASSUME NEW x \in Key PROVE Shown(index[x], history', Row(current, x))
  <2>1. CASE x = k
    BY <1>7, <1>8, <1>9, <2>1 DEF Shown
  <2>2. CASE x # k
    <3> DEFINE s == index[x]
               n == s[Len(s)]
               v == Row(current, x)
    <3>1. Shown(s, history, v)
      BY <1>13, <2>2
    <3> HIDE DEF s, v
    <3>2. ASSUME s = <<>> PROVE Shown(s, history', v)
      BY <3>1, <3>2 DEF Shown
    <3>3. ASSUME s # <<>> /\ n # r PROVE Shown(s, history', v)
      <4>1. n \in DOMAIN history
        BY <3>1, <3>3 DEF Shown
      <4>2. n \in DOMAIN history' /\ history'[n] = history[n]
        BY <1>9, <3>3, <4>1
      <4> QED BY <3>1, <3>3, <4>2 DEF Shown
    <3>4. ASSUME s # <<>> /\ n = r PROVE Shown(s, history', v)
      <4>1. r \in DOMAIN history /\ job[c].op.op = "range" /\ history[r].type = "delete"
        BY <1>6, <3>1, <3>4 DEF Shown
      <4>2. v = Absent
        BY <3>1, <3>4, <4>1 DEF Shown
      <4>3. n \in DOMAIN history' /\ history'[n].type = "delete"
        BY <1>8, <1>9, <3>4, <4>1
      <4> QED BY <3>4, <4>2, <4>3 DEF Shown
    <3>5. Shown(s, history', v)
      BY <3>2, <3>3, <3>4
    <3> QED BY <3>5 DEF s, v
  <2> QED BY <2>1, <2>2
<1> HIDE DEF q
<1>15. \A x \in Key : Shown(index'[x], history', Row(current', x))
  BY <1>3, <1>14
<1> QED BY <1>1, <1>2, <1>3, <1>10, <1>11, <1>15, TxnMove

LEMMA TxnsStep ==
    ASSUME RecordInv, TxnsInv, NEW c \in Caller, Step(c), plain' = FALSE
    PROVE  TxnsInv'
<1>1. \A d \in Caller : d # c => pc[d] = "idle"
  BY OthersIdle
<1>2. \A j \in Jobs : ~Begin(c, j) /\ ~BeginRevoke(c, j)
  BY DEF Begin, BeginRevoke
<1>3. ~TakeRevision(c)
  <2> SUFFICES ASSUME pc[c] = "take" PROVE FALSE
    BY DEF TakeRevision
  <2>1. Revoking("take", job[c])
    BY FitsAt DEF RecordInv, CallsType, LocalType, Sound
  <2> QED BY <2>1 DEF Revoking, TxnsInv, Alone
<1>4. \/ (\E j \in Jobs : BeginTxn(c, j)) \/ Compare(c) \/ NextOp(c) \/ EndCall(c)
      \/ ReadPrev(c) \/ Detach(c) \/ Attach(c) \/ Dispatch(c) \/ Visit(c)
      \/ Insert(c) \/ RemoveKey(c) \/ IndexPush(c) \/ HistoryInsert(c)
  BY <1>2, <1>3 DEF Step
<1> QED BY <1>1, <1>4, TxnGoesOn, TxnReads, TxnInserts, TxnRemoves, TxnPushes, TxnWrites

-----------------------------------------------------------------------------
(* The invariant of all calls *)

CallsInv == RecordInv /\ plain \in BOOLEAN /\ (plain = FALSE => TxnsInv)

LEMMA CallsStart == CallsInit => CallsInv
<1> SUFFICES ASSUME CallsInit PROVE CallsInv
  OBVIOUS
<1>0. /\ index = [k \in Key |-> <<>>] /\ current = EmptyMap /\ plain = FALSE
      /\ \A c \in Caller : pc[c] = "idle"
  BY DEF CallsInit
<1>1. DOMAIN current = {} /\ \A k \in Key : index[k] = <<>> /\ DOMAIN index[k] = {}
  BY <1>0 DEF EmptyMap
<1>2. EveryIndexSorted /\ RevsBounded
  BY <1>1 DEF EveryIndexSorted, RevsBounded
<1>3. KeysShown
  BY <1>1 DEF KeysShown, Shown, Row
<1>4. \A c \in Caller : ~Held(pc[c], job[c])
  BY <1>0 DEF Held
<1>5. Alone
  BY <1>0 DEF Alone
<1> QED BY <1>0, <1>2, <1>3, <1>4, <1>5, RecordStart DEF CallsInv, TxnsInv

LEMMA CallsStep == CallsInv /\ [CallsNext]_callVars => CallsInv'
<1> SUFFICES ASSUME CallsInv, [CallsNext]_callVars PROVE CallsInv'
  OBVIOUS
<1>0. RecordInv /\ RecordInv'
  BY RecordStep DEF CallsInv
<1>1. ASSUME NEW c \in Caller, Step(c) PROVE plain' \in BOOLEAN /\ (plain' = FALSE => TxnsInv')
  <2>1. plain' = TRUE \/ plain' = plain
    BY <1>1 DEF Step, Begin, BeginTxn, BeginRevoke, Compare, NextOp, EndCall, ReadPrev, Detach,
                Insert, Attach, Visit, RemoveKey, TakeRevision, IndexPush, HistoryInsert, Dispatch
  <2>2. ASSUME plain' = FALSE PROVE TxnsInv'
    <3>1. TxnsInv
      BY <2>1, <2>2 DEF CallsInv
    <3> QED BY <1>0, <1>1, <2>2, <3>1, TxnsStep
  <2> QED BY <2>1, <2>2 DEF CallsInv
<1>2. ASSUME UNCHANGED <<storeVars, lock, pc, job, plain>>
      PROVE  plain' \in BOOLEAN /\ (plain' = FALSE => TxnsInv')
  BY <1>2 DEF CallsInv, TxnsInv, Alone, EveryIndexSorted, RevsBounded, KeysShown, storeVars
<1>3. UNCHANGED callVars => UNCHANGED <<storeVars, lock, pc, job, plain>>
  BY DEF callVars
<1> QED BY <1>0, <1>1, <1>2, <1>3, WatchSteps DEF CallsNext, CallsInv

\* The calls keep CallsInv, however they interleave: the revisions are their
\* operations' own, and while only transactions have been called, each
\* writes above and over what is there.
THEOREM CallsInvariant == CallsSpec => []CallsInv
BY CallsStart, CallsStep, PTL DEF CallsSpec

\* As long as every call is a transaction, each key's list of revisions is
\* sorted, which get_at_revision and compact_v2 rely on.
THEOREM IndexStaysSorted == CallsSpec => []IndexSorted
<1>1. CallsInv => IndexSorted
  BY DEF CallsInv, IndexSorted, OnlyTxns, TxnsInv
<1> QED BY <1>1, CallsInvariant, PTL

\* As long as every call is a transaction, a read at the newest revision
\* finds what a plain read finds when no call is under way: no write is
\* undone by an older one, and the one row that a range delete keeps
\* (HistoryInsert) is a delete for every key whose index leads to it.
THEOREM CurrentShowsNewest == CallsSpec => []CurrentIsNewest
<1>1. CallsInv => CurrentIsNewest
  <2> DEFINE st == [index |-> index, history |-> history]
  <2> SUFFICES ASSUME CallsInv, Quiet, OnlyTxns, NEW k \in Key
               PROVE  GetAt(st, k, rev) = Row(current, k)
    BY DEF CurrentIsNewest
  <2>1. TxnsInv /\ CallsType
    BY DEF CallsInv, OnlyTxns, RecordInv
  <2>2. \A c \in Caller : ~Busy(pc[c], job[c])
    BY DEF Quiet, Busy
  <2> DEFINE s == index[k]
             n == Len(s)
             I == {i \in 1..n : s[i] <= rev}
             i0 == IF I # {} THEN Max(I) ELSE 0
             v == Row(current, k)
  <2>3. Shown(s, history, v)
    BY <2>1, <2>2 DEF TxnsInv, KeysShown
  <2>4. s \in Seq(Nat) /\ n \in Nat /\ DOMAIN s = 1..n
    BY <2>1, LenProperties DEF CallsType, StoreType
  <2>5. \A i \in 1..n : s[i] <= rev
    BY <2>1, <2>4 DEF TxnsInv, RevsBounded
  <2>6. I = 1..n
    BY <2>5
  <2>7. i0 = n
    <3> HIDE DEF s, n
    <3>1. CASE n = 0
      BY <2>6, <3>1
    <3>2. CASE n # 0
      <4>1. I # {} /\ n \in I /\ \A i \in I : n >= i
        BY <2>4, <2>6, <3>2
      <4>2. Max(I) \in I /\ \A i \in I : Max(I) >= i
        BY <4>1 DEF Max
      <4>3. Max(I) = n
        BY <2>4, <2>6, <4>1, <4>2
      <4> QED BY <4>1, <4>3
    <3> QED BY <3>1, <3>2
  <2>8. st.index = index /\ st.history = history
    OBVIOUS
  <2>9. GetAt(st, k, rev) = IF i0 = 0 \/ s[i0] \notin DOMAIN history \/ history[s[i0]].type = "delete"
                            THEN Absent ELSE history[s[i0]].kv
    BY <2>8 DEF GetAt, SelectLastInSeq
  <2> HIDE DEF I, i0, v, st
  <2>10. n = 0 <=> s = <<>>
    BY <2>4
  <2>11. v = IF n = 0 \/ s[n] \notin DOMAIN history \/ history[s[n]].type = "delete"
             THEN Absent ELSE history[s[n]].kv
    BY <2>3, <2>10 DEF Shown
  <2> QED BY <2>7, <2>9, <2>11 DEF v
<1> QED BY <1>1, CallsInvariant, PTL

\* As long as callers write through transactions they implement AtomicKv:
\* every change of `current` is one atomic put, on the pair that is there
\* and at a revision above every pair's (Insert), or one atomic delete
\* (RemoveKey).
THEOREM TxnsImplementAtomicKv == CallsSpec => ImplementsAtomicKv
<1>1. CallsInit => Atomic!AtomicInit
  BY DEF CallsInit, Atomic!AtomicInit, Atomic!EmptyMap, EmptyMap
<1>2. CallsInv /\ CallsInv' /\ [CallsNext]_callVars => [OnlyTxns' => Atomic!AtomicNext]_current
  <2> SUFFICES ASSUME CallsInv, CallsInv', [CallsNext]_callVars, OnlyTxns', current' # current
               PROVE  Atomic!AtomicNext
    OBVIOUS
  <2>1. PICK c \in Caller : Step(c)
    BY WatchSteps DEF CallsNext, callVars, storeVars
  <2>2. CallsType /\ RevisionsOwn /\ Sound(pc[c], job[c])
    BY DEF CallsInv, RecordInv, CallsType, LocalType
  <2>3. Insert(c) \/ RemoveKey(c)
    BY <2>1 DEF Step, Begin, BeginTxn, BeginRevoke, Compare, NextOp, EndCall, ReadPrev, Detach,
                Attach, Visit, TakeRevision, IndexPush, HistoryInsert, Dispatch, storeVars
  <2>4. plain' = plain
    BY <2>3 DEF Insert, RemoveKey
  <2>5. TxnsInv
    BY <2>4 DEF CallsInv, OnlyTxns
  <2>6. CASE Insert(c)
    <3>1. pc[c] = "insert" /\ current' = Extend(current, job[c].key, NewKv(c))
      BY <2>6 DEF Insert
    <3>2. Putting("insert", job[c])
      BY <2>2, <3>1, FitsAt DEF Sound
    <3>3. /\ job[c].op.op = "put" /\ job[c].key \in Key
          /\ job[c].op.lease \in LeaseId \cup {NoLease}
      BY <3>2 DEF Putting, CallOp
    <3>4. Held(pc[c], job[c])
      BY <3>1 DEF Held
    <3>5. job[c].rev \in 2..MaxCallRev
      BY <2>2, <3>4, LimitAssumption DEF RevisionsOwn, Sound
    <3>6. /\ \A x \in DOMAIN current : current[x].mod < job[c].rev
          /\ job[c].prev = Row(current, job[c].key)
      BY <2>5, <3>1, <3>3, <3>4 DEF TxnsInv, Ready
    <3>7. current' = Atomic!Extend(current, job[c].key,
                        Atomic!NextKv(Atomic!Row(current, job[c].key), "a", job[c].op.lease, job[c].rev))
      BY <3>1, <3>6 DEF NewKv, Extend, NextKv, Row, Absent,
           Atomic!Extend, Atomic!NextKv, Atomic!Row, Atomic!Absent
    <3>8. Atomic!AtomicPut(job[c].key, "a", job[c].op.lease)
      BY <3>5, <3>6, <3>7 DEF Atomic!AtomicPut
    <3> QED BY <3>3, <3>8, ValueAssumption DEF Atomic!AtomicNext
  <2>7. CASE RemoveKey(c)
    <3>1. pc[c] = "remove"
      BY <2>7 DEF RemoveKey
    <3>2. PICK k \in job[c].left \cap DOMAIN current : current' = Without(current, {k})
      BY <2>7 DEF RemoveKey
    <3>3. Choosing("remove", job[c])
      BY <2>2, <2>5, <3>1, FitsAt DEF Sound, Revoking, TxnsInv, Alone
    <3>4. k \in Key
      BY <3>2, <3>3 DEF Choosing
    <3>5. Atomic!AtomicDelete(k)
      BY <3>2 DEF Atomic!AtomicDelete, Atomic!Without, Atomic!Restrict, Without, Restrict
    <3> QED BY <3>4, <3>5 DEF Atomic!AtomicNext
  <2> QED BY <2>3, <2>6, <2>7
<1> QED BY <1>1, <1>2, CallsInvariant, PTL DEF CallsSpec, ImplementsAtomicKv

-----------------------------------------------------------------------------
(* Loops over a list *)

\* What holds at 0 and is handed on from each position to the next holds at
\* every position.
LEMMA Induct ==
    ASSUME NEW n \in Nat, NEW S, 0 \in S, \A i \in 0..n : (i + 1 \in 0..n /\ i \in S) => i + 1 \in S
    PROVE  \A i \in 0..n : i \in S
<1> SUFFICES ASSUME NEW b \in 0..n, b \notin S PROVE FALSE
  OBVIOUS
<1> DEFINE T == {i \in 0..n : i \notin S}
           Less == {p \in Nat \X Nat : p[1] < p[2]}
<1>1. IsWellFoundedOn(Less, Nat)
  BY NatLessThanWellFounded, Zenon DEF OpToRel
<1>2. T \subseteq Nat /\ T # {}
  OBVIOUS
<1> HIDE DEF Less, T
<1>3. PICK x \in T : \A y \in T : ~(<<y, x>> \in Less)
  BY <1>1, <1>2, WFMin
<1>4. \A y \in T : ~(y < x)
  BY <1>2, <1>3 DEF Less
<1>5. x \in 0..n /\ x \notin S /\ x # 0
  BY <1>3 DEF T
<1>6. x - 1 \in 0..n /\ (x - 1) + 1 = x
  BY <1>5
<1>7. x - 1 \notin S
  BY <1>5, <1>6
<1>8. x - 1 \in T /\ x - 1 < x
  BY <1>6, <1>7 DEF T
<1>9. QED
  BY <1>4, <1>8

Ascending(q) == \A i, j \in DOMAIN q : i < j => q[i] < q[j]

LEMMA AppendSet ==
    ASSUME NEW S, NEW q \in Seq(S), NEW e \in S
    PROVE  /\ Append(q, e) \in Seq(S) /\ ToSet(Append(q, e)) = ToSet(q) \cup {e}
           /\ \A i \in DOMAIN Append(q, e) :
                  \/ i \in DOMAIN q /\ Append(q, e)[i] = q[i]
                  \/ i = Len(q) + 1 /\ Append(q, e)[i] = e
<1> DEFINE a == Append(q, e)
<1>1. /\ a \in Seq(S) /\ Len(a) = Len(q) + 1 /\ Len(q) \in Nat /\ a[Len(q) + 1] = e
      /\ DOMAIN a = 1..Len(a) /\ DOMAIN q = 1..Len(q) /\ \A i \in 1..Len(q) : a[i] = q[i]
  OBVIOUS
<1> HIDE DEF a
<1>2. DOMAIN a = DOMAIN q \cup {Len(q) + 1}
  BY <1>1
<1>3. \A i \in DOMAIN a : \/ i \in DOMAIN q /\ a[i] = q[i]
                          \/ i = Len(q) + 1 /\ a[i] = e
  BY <1>1, <1>2
<1>4. ToSet(a) = ToSet(q) \cup {e}
  BY <1>1, <1>2, <1>3 DEF ToSet
<1>5. QED
  BY <1>1, <1>3, <1>4 DEF a

\* The loop of Dropping, position by position.
Drops(h, s, D) ==
    /\ h[0] = <<>>
    /\ \A i \in 1..Len(s) : h[i] = IF s[i] \in D THEN h[i - 1] ELSE Append(h[i - 1], s[i])

LEMMA DroppingTrace ==
    ASSUME NEW s, Len(s) \in Nat, NEW D
    PROVE  \E h : Drops(h, s, D) /\ Dropping(s, D) = h[Len(s)]
<1> DEFINE Turn(h, i) == IF i = 0 THEN <<>>
                         ELSE IF s[i] \in D THEN h[i - 1] ELSE Append(h[i - 1], s[i])
           S == {n \in 0..Len(s) : \E h : h = [i \in 0..n |-> Turn(h, i)]}
<1>0. ASSUME NEW h, NEW n PROVE h = [i \in 0..n |-> Turn(h, i)] => \A i \in 0..n : h[i] = Turn(h, i)
  <2> HIDE DEF Turn
  <2>1. QED
    BY Zenon
<1>1. 0 \in S
  <2> DEFINE g == [i \in 0..0 |-> <<>>]
  <2>1. g = [i \in 0..0 |-> Turn(g, i)]
    OBVIOUS
  <2> HIDE DEF g, Turn
  <2>2. QED
    BY <2>1
<1>2. ASSUME NEW n \in 0..Len(s), n + 1 \in 0..Len(s), n \in S PROVE n + 1 \in S
  <2>1. PICK h : h = [i \in 0..n |-> Turn(h, i)]
    BY <1>2
  <2>2. \A i \in 0..n : h[i] = Turn(h, i)
    BY <1>0, <2>1
  <2> DEFINE g == [i \in 0..(n + 1) |-> IF i = n + 1 THEN Turn(h, i) ELSE h[i]]
  <2>3. \A i \in 0..(n + 1) : i = 0 \/ g[i - 1] = h[i - 1]
    OBVIOUS
  <2>4. \A i \in 0..(n + 1) : Turn(g, i) = Turn(h, i)
    <3> HIDE DEF g
    <3>1. QED
      BY <2>3
  <2>5. \A i \in 0..(n + 1) : i = n + 1 \/ i \in 0..n
    OBVIOUS
  <2> HIDE DEF Turn
  <2>6. \A i \in 0..(n + 1) : g[i] = Turn(g, i)
    BY <2>2, <2>4, <2>5
  <2>7. g = [i \in 0..(n + 1) |-> Turn(g, i)]
    BY <2>6
  <2> HIDE DEF g
  <2>8. QED
    BY <1>2, <2>7
<1>3. Len(s) \in S
  <2> HIDE DEF S
  <2>1. \A i \in 0..Len(s) : i \in S
    BY <1>1, <1>2, Induct
  <2>2. QED
    BY <2>1
<1>4. PICK h : h = [i \in 0..Len(s) |-> Turn(h, i)] /\ Dropping(s, D) = h[Len(s)]
  BY <1>3 DEF Dropping
<1>5. \A i \in 0..Len(s) : h[i] = Turn(h, i)
  BY <1>0, <1>4
<1> HIDE DEF S
<1>6. h[0] = <<>> /\ \A i \in 1..Len(s) : h[i] = IF s[i] \in D THEN h[i - 1] ELSE Append(h[i - 1], s[i])
  BY <1>5
<1>7. QED
  BY <1>4, <1>6 DEF Drops

\* What Dropping keeps: the elements not dropped, in their order.
LEMMA DroppingKeeps ==
    ASSUME NEW T, NEW s \in Seq(T), NEW D
    PROVE  /\ Dropping(s, D) \in Seq(T)
           /\ ToSet(Dropping(s, D)) = ToSet(s) \ D
<1>1. Len(s) \in Nat /\ DOMAIN s = 1..Len(s) /\ \A i \in 1..Len(s) : s[i] \in T
  OBVIOUS
<1>2. PICK h : Drops(h, s, D) /\ Dropping(s, D) = h[Len(s)]
  BY <1>1, DroppingTrace, Zenon
<1> DEFINE Upto(n) == {s[i] : i \in 1..n}
           S == {n \in 0..Len(s) : h[n] \in Seq(T) /\ ToSet(h[n]) = Upto(n) \ D}
<1>3. 0 \in S
  <2>1. <<>> \in Seq(T) /\ ToSet(<<>>) = {} /\ Upto(0) = {}
    BY DEF ToSet
  <2>2. h[0] = <<>> /\ 0 \in 0..Len(s)
    BY <1>1, <1>2 DEF Drops
  <2>3. QED
    BY <2>1, <2>2
<1>4. ASSUME NEW n \in 0..Len(s), n + 1 \in 0..Len(s), n \in S PROVE n + 1 \in S
  <2>1. n + 1 \in 1..Len(s) /\ (n + 1) - 1 = n
    BY <1>1, <1>4
  <2>2. Upto(n + 1) = Upto(n) \cup {s[n + 1]}
    <3>1. \A i \in 1..(n + 1) : i \in 1..n \/ i = n + 1
      OBVIOUS
    <3>2. \A i \in 1..n : i \in 1..(n + 1)
      OBVIOUS
    <3>3. QED
      BY <2>1, <3>1, <3>2
  <2>3. h[n + 1] = IF s[n + 1] \in D THEN h[n] ELSE Append(h[n], s[n + 1])
    BY <1>2, <2>1 DEF Drops
  <2>4. h[n] \in Seq(T) /\ ToSet(h[n]) = Upto(n) \ D /\ s[n + 1] \in T
    BY <1>1, <1>4, <2>1
  <2> HIDE DEF Upto
  <2>5. h[n + 1] \in Seq(T) /\ ToSet(h[n + 1]) = Upto(n + 1) \ D
    BY <2>2, <2>3, <2>4, AppendSet
  <2>6. QED
    BY <1>4, <2>5
<1> HIDE DEF S
<1>5. \A i \in 0..Len(s) : i \in S
  BY <1>1, <1>3, <1>4, Induct
<1>6. Len(s) \in S
  BY <1>1, <1>5
<1>7. Upto(Len(s)) = ToSet(s)
  BY <1>1 DEF ToSet
<1>8. QED
  BY <1>2, <1>6, <1>7 DEF S

LEMMA DroppingSorted ==
    ASSUME NEW s \in Seq(Nat), Ascending(s), NEW D
    PROVE  Ascending(Dropping(s, D))
<1>1. Len(s) \in Nat /\ DOMAIN s = 1..Len(s) /\ \A i \in 1..Len(s) : s[i] \in Nat
  OBVIOUS
<1>2. PICK h : Drops(h, s, D) /\ Dropping(s, D) = h[Len(s)]
  BY <1>1, DroppingTrace, Zenon
<1> DEFINE S == {n \in 0..Len(s) : h[n] \in Seq(Nat) /\ Ascending(h[n])
                                   /\ \A x \in ToSet(h[n]) : \E j \in 1..n : x = s[j]}
<1>3. 0 \in S
  <2>1. <<>> \in Seq(Nat) /\ ToSet(<<>>) = {} /\ Ascending(<<>>)
    BY DEF ToSet, Ascending
  <2>2. h[0] = <<>> /\ 0 \in 0..Len(s)
    BY <1>1, <1>2 DEF Drops
  <2>3. QED
    BY <2>1, <2>2
<1>4. ASSUME NEW n \in 0..Len(s), n + 1 \in 0..Len(s), n \in S PROVE n + 1 \in S
  <2>1. n + 1 \in 1..Len(s) /\ (n + 1) - 1 = n /\ \A j \in 1..n : j \in 1..Len(s) /\ j < n + 1 /\ j \in 1..(n + 1)
    BY <1>1, <1>4
  <2>2. h[n + 1] = IF s[n + 1] \in D THEN h[n] ELSE Append(h[n], s[n + 1])
    BY <1>2, <2>1 DEF Drops
  <2>3. h[n] \in Seq(Nat) /\ Ascending(h[n]) /\ s[n + 1] \in Nat /\ \A x \in ToSet(h[n]) : \E j \in 1..n : x = s[j]
    BY <1>1, <1>4, <2>1
  <2>4. CASE s[n + 1] \in D
    BY <1>4, <2>1, <2>2, <2>3, <2>4
  <2>5. CASE s[n + 1] \notin D
    <3> DEFINE q == h[n]
               a == Append(q, s[n + 1])
    <3>1. a \in Seq(Nat) /\ ToSet(a) = ToSet(q) \cup {s[n + 1]}
          /\ \A i \in DOMAIN a : \/ i \in DOMAIN q /\ a[i] = q[i]
                                 \/ i = Len(q) + 1 /\ a[i] = s[n + 1]
      BY <2>3, AppendSet
    <3>2. \A i \in DOMAIN q : i \in Nat /\ i < Len(q) + 1 /\ Len(q) + 1 \in Nat
      <4>1. q \in Seq(Nat)
        BY <2>3
      <4> HIDE DEF q
      <4>2. Len(q) \in Nat /\ DOMAIN q = 1..Len(q)
        BY <4>1
      <4>3. QED
        BY <4>2
    <3>3. \A x \in ToSet(q) : x < s[n + 1]
      BY <1>1, <2>1, <2>3 DEF Ascending
    <3>4. \A i \in DOMAIN q : q[i] \in ToSet(q)
      BY DEF ToSet
    <3>5. \A x \in ToSet(a) : \E j \in 1..(n + 1) : x = s[j]
      <4>1. n + 1 \in 1..(n + 1)
        BY <2>1
      <4>2. QED
        BY <2>1, <2>3, <3>1, <4>1
    <3> HIDE DEF a, q
    <3>6. Ascending(a)
      <4>1. Ascending(q)
        BY <2>3 DEF q
      <4> SUFFICES ASSUME NEW i \in DOMAIN a, NEW j \in DOMAIN a, i < j PROVE a[i] < a[j]
        BY DEF Ascending
      <4>2. CASE j \in DOMAIN q /\ a[j] = q[j]
        <5>1. i \in DOMAIN q /\ a[i] = q[i]
          BY <3>1, <3>2, <4>2
        <5>2. QED
          BY <4>1, <4>2, <5>1 DEF Ascending
      <4>3. CASE j = Len(q) + 1 /\ a[j] = s[n + 1]
        <5>1. i \in DOMAIN q /\ a[i] = q[i]
          <6>1. Len(q) \in Nat
            BY <2>3 DEF q
          <6>2. i # Len(q) + 1
            BY <4>3, <6>1
          <6>3. QED
            BY <3>1, <6>2
        <5>2. QED
          BY <3>3, <3>4, <4>3, <5>1
      <4>4. QED
        BY <3>1, <4>2, <4>3
    <3>7. QED
      BY <1>4, <2>2, <2>5, <3>1, <3>5, <3>6 DEF a, q
  <2>6. QED
    BY <2>4, <2>5
<1> HIDE DEF S
<1>5. \A i \in 0..Len(s) : i \in S
  BY <1>1, <1>3, <1>4, Induct
<1>6. Len(s) \in S
  BY <1>1, <1>5
<1>7. QED
  BY <1>2, <1>6 DEF S

\* The loop of RunOps, position by position.
Runs(h, s, ops) ==
    h[0] = s /\ \A i \in 1..Len(ops) : h[i] = RunOp(h[i - 1], ops[i])

LEMMA RunOpsTrace ==
    ASSUME NEW s, NEW ops, Len(ops) \in Nat
    PROVE  \E h : Runs(h, s, ops) /\ RunOps(s, ops) = h[Len(ops)]
<1> DEFINE Turn(h, i) == IF i = 0 THEN s ELSE RunOp(h[i - 1], ops[i])
           S == {n \in 0..Len(ops) : \E h : h = [i \in 0..n |-> Turn(h, i)]}
<1>0. ASSUME NEW h, NEW n PROVE h = [i \in 0..n |-> Turn(h, i)] => \A i \in 0..n : h[i] = Turn(h, i)
  <2> HIDE DEF Turn
  <2>1. QED
    BY Zenon
<1>1. 0 \in S
  <2> DEFINE g == [i \in 0..0 |-> s]
  <2>1. g = [i \in 0..0 |-> Turn(g, i)]
    OBVIOUS
  <2> HIDE DEF g, Turn
  <2>2. QED
    BY <2>1
<1>2. ASSUME NEW n \in 0..Len(ops), n + 1 \in 0..Len(ops), n \in S PROVE n + 1 \in S
  <2>1. PICK h : h = [i \in 0..n |-> Turn(h, i)]
    BY <1>2
  <2>2. \A i \in 0..n : h[i] = Turn(h, i)
    BY <1>0, <2>1
  <2> DEFINE g == [i \in 0..(n + 1) |-> IF i = n + 1 THEN Turn(h, i) ELSE h[i]]
  <2>3. \A i \in 0..(n + 1) : i = 0 \/ g[i - 1] = h[i - 1]
    OBVIOUS
  <2>4. \A i \in 0..(n + 1) : Turn(g, i) = Turn(h, i)
    <3> HIDE DEF g
    <3>1. QED
      BY <2>3
  <2>5. \A i \in 0..(n + 1) : i = n + 1 \/ i \in 0..n
    OBVIOUS
  <2> HIDE DEF Turn
  <2>6. \A i \in 0..(n + 1) : g[i] = Turn(g, i)
    BY <2>2, <2>4, <2>5
  <2>7. g = [i \in 0..(n + 1) |-> Turn(g, i)]
    BY <2>6
  <2> HIDE DEF g
  <2>8. QED
    BY <1>2, <2>7
<1>3. Len(ops) \in S
  <2> HIDE DEF S
  <2>1. \A i \in 0..Len(ops) : i \in S
    BY <1>1, <1>2, Induct
  <2>2. QED
    BY <2>1
<1>4. PICK h : h = [i \in 0..Len(ops) |-> Turn(h, i)] /\ RunOps(s, ops) = h[Len(ops)]
  BY <1>3 DEF RunOps
<1>5. \A i \in 0..Len(ops) : h[i] = Turn(h, i)
  BY <1>0, <1>4
<1> HIDE DEF S
<1>6. h[0] = s /\ \A i \in 1..Len(ops) : h[i] = RunOp(h[i - 1], ops[i])
  BY <1>5
<1>7. QED
  BY <1>4, <1>6 DEF Runs

\* The loop of RevokeKeys, position by position.
Removals(h, s, keys) ==
    h[0] = s /\ \A i \in 1..Len(keys) : h[i] = RevokeKey(h[i - 1], keys[i])

LEMMA RevokeKeysTrace ==
    ASSUME NEW s, NEW keys, Len(keys) \in Nat
    PROVE  \E h : Removals(h, s, keys) /\ RevokeKeys(s, keys) = h[Len(keys)]
<1> DEFINE Turn(h, i) == IF i = 0 THEN s ELSE RevokeKey(h[i - 1], keys[i])
           S == {n \in 0..Len(keys) : \E h : h = [i \in 0..n |-> Turn(h, i)]}
<1>0. ASSUME NEW h, NEW n PROVE h = [i \in 0..n |-> Turn(h, i)] => \A i \in 0..n : h[i] = Turn(h, i)
  <2> HIDE DEF Turn
  <2>1. QED
    BY Zenon
<1>1. 0 \in S
  <2> DEFINE g == [i \in 0..0 |-> s]
  <2>1. g = [i \in 0..0 |-> Turn(g, i)]
    OBVIOUS
  <2> HIDE DEF g, Turn
  <2>2. QED
    BY <2>1
<1>2. ASSUME NEW n \in 0..Len(keys), n + 1 \in 0..Len(keys), n \in S PROVE n + 1 \in S
  <2>1. PICK h : h = [i \in 0..n |-> Turn(h, i)]
    BY <1>2
  <2>2. \A i \in 0..n : h[i] = Turn(h, i)
    BY <1>0, <2>1
  <2> DEFINE g == [i \in 0..(n + 1) |-> IF i = n + 1 THEN Turn(h, i) ELSE h[i]]
  <2>3. \A i \in 0..(n + 1) : i = 0 \/ g[i - 1] = h[i - 1]
    OBVIOUS
  <2>4. \A i \in 0..(n + 1) : Turn(g, i) = Turn(h, i)
    <3> HIDE DEF g
    <3>1. QED
      BY <2>3
  <2>5. \A i \in 0..(n + 1) : i = n + 1 \/ i \in 0..n
    OBVIOUS
  <2> HIDE DEF Turn
  <2>6. \A i \in 0..(n + 1) : g[i] = Turn(g, i)
    BY <2>2, <2>4, <2>5
  <2>7. g = [i \in 0..(n + 1) |-> Turn(g, i)]
    BY <2>6
  <2> HIDE DEF g
  <2>8. QED
    BY <1>2, <2>7
<1>3. Len(keys) \in S
  <2> HIDE DEF S
  <2>1. \A i \in 0..Len(keys) : i \in S
    BY <1>1, <1>2, Induct
  <2>2. QED
    BY <2>1
<1>4. PICK h : h = [i \in 0..Len(keys) |-> Turn(h, i)] /\ RevokeKeys(s, keys) = h[Len(keys)]
  BY <1>3 DEF RevokeKeys
<1>5. \A i \in 0..Len(keys) : h[i] = Turn(h, i)
  BY <1>0, <1>4
<1> HIDE DEF S
<1>6. h[0] = s /\ \A i \in 1..Len(keys) : h[i] = RevokeKey(h[i - 1], keys[i])
  BY <1>5
<1>7. QED
  BY <1>4, <1>6 DEF Removals

\* The loop of RevokeLeases, position by position.
Revokes(h, s, ids) ==
    h[0] = s /\ \A i \in 1..Len(ids) : h[i] = LeaseRevoke(h[i - 1], ids[i])

LEMMA RevokeLeasesTrace ==
    ASSUME NEW s, NEW ids, Len(ids) \in Nat
    PROVE  \E h : Revokes(h, s, ids) /\ RevokeLeases(s, ids) = h[Len(ids)]
<1> DEFINE Turn(h, i) == IF i = 0 THEN s ELSE LeaseRevoke(h[i - 1], ids[i])
           S == {n \in 0..Len(ids) : \E h : h = [i \in 0..n |-> Turn(h, i)]}
<1>0. ASSUME NEW h, NEW n PROVE h = [i \in 0..n |-> Turn(h, i)] => \A i \in 0..n : h[i] = Turn(h, i)
  <2> HIDE DEF Turn
  <2>1. QED
    BY Zenon
<1>1. 0 \in S
  <2> DEFINE g == [i \in 0..0 |-> s]
  <2>1. g = [i \in 0..0 |-> Turn(g, i)]
    OBVIOUS
  <2> HIDE DEF g, Turn
  <2>2. QED
    BY <2>1
<1>2. ASSUME NEW n \in 0..Len(ids), n + 1 \in 0..Len(ids), n \in S PROVE n + 1 \in S
  <2>1. PICK h : h = [i \in 0..n |-> Turn(h, i)]
    BY <1>2
  <2>2. \A i \in 0..n : h[i] = Turn(h, i)
    BY <1>0, <2>1
  <2> DEFINE g == [i \in 0..(n + 1) |-> IF i = n + 1 THEN Turn(h, i) ELSE h[i]]
  <2>3. \A i \in 0..(n + 1) : i = 0 \/ g[i - 1] = h[i - 1]
    OBVIOUS
  <2>4. \A i \in 0..(n + 1) : Turn(g, i) = Turn(h, i)
    <3> HIDE DEF g
    <3>1. QED
      BY <2>3
  <2>5. \A i \in 0..(n + 1) : i = n + 1 \/ i \in 0..n
    OBVIOUS
  <2> HIDE DEF Turn
  <2>6. \A i \in 0..(n + 1) : g[i] = Turn(g, i)
    BY <2>2, <2>4, <2>5
  <2>7. g = [i \in 0..(n + 1) |-> Turn(g, i)]
    BY <2>6
  <2> HIDE DEF g
  <2>8. QED
    BY <1>2, <2>7
<1>3. Len(ids) \in S
  <2> HIDE DEF S
  <2>1. \A i \in 0..Len(ids) : i \in S
    BY <1>1, <1>2, Induct
  <2>2. QED
    BY <2>1
<1>4. PICK h : h = [i \in 0..Len(ids) |-> Turn(h, i)] /\ RevokeLeases(s, ids) = h[Len(ids)]
  BY <1>3 DEF RevokeLeases
<1>5. \A i \in 0..Len(ids) : h[i] = Turn(h, i)
  BY <1>0, <1>4
<1> HIDE DEF S
<1>6. h[0] = s /\ \A i \in 1..Len(ids) : h[i] = LeaseRevoke(h[i - 1], ids[i])
  BY <1>5
<1>7. QED
  BY <1>4, <1>6 DEF Revokes

-----------------------------------------------------------------------------
(* What each operation does to a store *)

\* A store is a record of these fields.
IsStore(s) ==
    /\ s = [rev |-> s.rev, current |-> s.current, index |-> s.index,
            history |-> s.history, compacted |-> s.compacted, leases |-> s.leases,
            nextLease |-> s.nextLease, past |-> s.past, lost |-> s.lost]
    /\ s.index = [k \in Key |-> s.index[k]]

\* Store t is what a put makes of s.
PutForm(s, t, k, v, l) ==
    LET r == s.rev + 1
        prev == Row(s.current, k)
        kv == NextKv(prev, v, l, r)
    IN  /\ IsStore(t)
        /\ t.rev = r /\ t.compacted = s.compacted /\ t.lost = s.lost
        /\ t.current = Extend(s.current, k, kv)
        /\ t.index = [s.index EXCEPT ![k] = Append(@, r)]
        /\ t.history = Extend(s.history, r, [key |-> k, type |-> "put", kv |-> kv])
        /\ t.leases = Reattach(s.leases, k, prev.lease, l)
        /\ t.nextLease = s.nextLease
        /\ t.past = Append(s.past, t.current)

LEMMA PutIs ==
    ASSUME NEW s, IsStore(s), NEW k, NEW v, NEW l, NEW t, t = Put(s, k, v, l)
    PROVE  PutForm(s, t, k, v, l)
<1> DEFINE r == s.rev + 1
           prev == Row(s.current, k)
           kv == NextKv(prev, v, l, r)
           row == [key |-> k, type |-> "put", kv |-> kv]
<1>1. t =
          [rev |-> r, current |-> Extend(s.current, k, kv),
           index |-> [s.index EXCEPT ![k] = Append(@, r)],
           history |-> Extend(s.history, r, row),
           compacted |-> s.compacted, leases |-> Reattach(s.leases, k, prev.lease, l),
           nextLease |-> s.nextLease, past |-> Append(s.past, Extend(s.current, k, kv)),
           lost |-> s.lost]
  BY DEF Put, IsStore
<1> HIDE DEF r, prev, kv, row
<1>2. t.index = [x \in Key |-> t.index[x]]
  <2>1. t.index = [s.index EXCEPT ![k] = Append(@, r)]
    BY <1>1
  <2>2. s.index = [x \in Key |-> s.index[x]]
    BY DEF IsStore
  <2>3. QED
    BY <2>1, <2>2
<1>3. IsStore(t)
  BY <1>1, <1>2 DEF IsStore
<1>4. QED
  BY <1>1, <1>3 DEF PutForm, r, prev, kv, row

\* Store t is what removing keys makes of s.
RemoveForm(s, t, D, r, last) ==
    /\ IsStore(t)
    /\ t.rev = r /\ t.compacted = s.compacted /\ t.lost = s.lost
    /\ t.current = Without(s.current, D)
    /\ t.index = [k \in Key |-> IF k \in D THEN Append(s.index[k], r) ELSE s.index[k]]
    /\ t.history = IF D = {} THEN s.history
                   ELSE Extend(s.history, r, [key |-> last, type |-> "delete",
                                              kv |-> Tombstone(s.current[last], r)])
    /\ t.leases = DetachKeys(s.leases, D, s.current)
    /\ t.nextLease = s.nextLease
    /\ t.past = Append(s.past, t.current)

LEMMA RemoveKeysIs ==
    ASSUME NEW s, IsStore(s), NEW D, NEW r, NEW last, NEW t, t = RemoveKeys(s, D, r, last)
    PROVE  RemoveForm(s, t, D, r, last)
<1> DEFINE hist == IF D = {} THEN s.history
                   ELSE Extend(s.history, r, [key |-> last, type |-> "delete",
                                              kv |-> Tombstone(s.current[last], r)])
           held == DetachKeys(s.leases, D, s.current)
           listed == [k \in Key |-> IF k \in D THEN Append(s.index[k], r) ELSE s.index[k]]
<1>1. t =
          [rev |-> r, current |-> Without(s.current, D), index |-> listed, history |-> hist,
           compacted |-> s.compacted, leases |-> held,
           nextLease |-> s.nextLease, past |-> Append(s.past, Without(s.current, D)), lost |-> s.lost]
  BY DEF RemoveKeys, IsStore
<1>2. listed = [k \in Key |-> listed[k]]
  OBVIOUS
<1> HIDE DEF hist, held, listed
<1>3. QED
  BY <1>1, <1>2 DEF RemoveForm, IsStore, hist, held, listed

\* Store t is what compacting makes of s.
DropForm(s, t, r) ==
    /\ IsStore(t)
    /\ t.rev = s.rev /\ t.compacted = r /\ t.lost = IF r > s.lost THEN r ELSE s.lost
    /\ t.current = s.current /\ t.index = s.index
    /\ t.history = [x \in {y \in DOMAIN s.history : y >= r} |-> s.history[x]]
    /\ t.leases = s.leases /\ t.nextLease = s.nextLease /\ t.past = s.past

LEMMA DropHistoryIs ==
    ASSUME NEW s, IsStore(s), NEW r, NEW t, t = DropHistory(s, r)
    PROVE  DropForm(s, t, r)
<1> DEFINE kept == [x \in {y \in DOMAIN s.history : y >= r} |-> s.history[x]]
<1>1. t = [s EXCEPT !.history = kept, !.compacted = r,
                                    !.lost = IF r > @ THEN r ELSE @]
  BY DEF DropHistory, RestrictDomain, Restrict
<1> HIDE DEF kept
<1>2. t =
          [rev |-> s.rev, current |-> s.current, index |-> s.index, history |-> kept,
           compacted |-> r, leases |-> s.leases, nextLease |-> s.nextLease, past |-> s.past,
           lost |-> IF r > s.lost THEN r ELSE s.lost]
  BY <1>1 DEF IsStore
<1>3. QED
  BY <1>2 DEF DropForm, IsStore, kept

\* Store t differs from s in the index only.
ReindexForm(s, t, f) ==
    /\ IsStore(t) /\ t.index = f
    /\ t.rev = s.rev /\ t.compacted = s.compacted /\ t.lost = s.lost
    /\ t.current = s.current /\ t.history = s.history
    /\ t.leases = s.leases /\ t.nextLease = s.nextLease /\ t.past = s.past

LEMMA ReindexIs ==
    ASSUME NEW s, IsStore(s), NEW f, f = [k \in Key |-> f[k]],
           NEW t, t = [s EXCEPT !.index = f]
    PROVE  ReindexForm(s, t, f)
BY DEF ReindexForm, IsStore

\* Store t differs from s in the leases and the lease counter only.
LeasesForm(s, t, f, n) ==
    /\ IsStore(t) /\ t.leases = f /\ t.nextLease = n
    /\ t.rev = s.rev /\ t.compacted = s.compacted /\ t.lost = s.lost
    /\ t.current = s.current /\ t.history = s.history
    /\ t.index = s.index /\ t.past = s.past

LEMMA LeasesAre ==
    ASSUME NEW s, IsStore(s), NEW f, NEW n,
           NEW t, t = [s EXCEPT !.leases = f, !.nextLease = n]
    PROVE  LeasesForm(s, t, f, n)
<1>1. t =
          [rev |-> s.rev, current |-> s.current, index |-> s.index, history |-> s.history,
           compacted |-> s.compacted, leases |-> f, nextLease |-> n, past |-> s.past, lost |-> s.lost]
  BY DEF IsStore
<1>2. QED
  BY <1>1 DEF LeasesForm, IsStore

-----------------------------------------------------------------------------
(* The invariant of a store *)

\* What a lease and the pairs of a revision are made of; a live pair was put
\* at least once, which tells it from an absent one.
Lease == [keys : Seq(Key), ttl : Nat, granted : Nat]
IsRows(m) == DOMAIN m \subseteq Key /\ \A k \in DOMAIN m : m[k] \in Kv /\ m[k].ver >= 1

\* The type of a store, with what the past knows of the present.
Counted(s) ==
    /\ s.rev \in Nat \ {0} /\ s.compacted \in Nat /\ s.lost \in Nat /\ s.compacted <= s.lost
Dated(s) ==
    /\ IsSequence(s.past) /\ Len(s.past) = s.rev /\ s.past[s.rev] = s.current
    /\ \A r \in 1..s.rev : IsRows(s.past[r]) /\ \A k \in DOMAIN s.past[r] : s.past[r][k].mod <= r
Listed(s) ==
    s.index \in [Key -> Seq(2..s.rev)] /\ DOMAIN s.history \subseteq 2..s.rev
Leased(s) ==
    /\ DOMAIN s.leases \subseteq LeaseId /\ IsFiniteSet(DOMAIN s.leases)
    /\ \A id \in DOMAIN s.leases : s.leases[id] \in Lease
Typed(s) == IsStore(s) /\ Counted(s) /\ Dated(s) /\ Listed(s) /\ Leased(s)

\* LeaseOwnsItsKeys of a store.
Owned(s) ==
    \A id \in DOMAIN s.leases : \A k \in ToSet(s.leases[id].keys) :
        k \in Live(s) /\ s.current[k].lease = id

\* PairTellsItsLife of a store: creation is a revision that was taken.
Puts(s, k, c) == {r \in c..s.rev : Row(s.past[r], k).mod = r}
LifeTold(s, k) ==
    LET kv == s.current[k]
    IN  /\ kv.create \in 2..s.rev
        /\ \A r \in kv.create..s.rev : Row(s.past[r], k).create = kv.create
        /\ k \notin DOMAIN s.past[kv.create - 1]
        /\ kv.ver = Cardinality(Puts(s, k, kv.create))
Lives(s) == \A k \in Live(s) : LifeTold(s, k)

\* The history row e of revision x tells the pair a key had.
Shows(e, row, x) ==
    \/ e.type = "delete" /\ row = Absent
    \/ e.type = "put" /\ e.kv = row /\ row.mod = x

\* A pair the index or the history may have forgotten.
Old(s, row) == row = Absent \/ row.mod < s.lost

\* What the index and the history tell of key k at revision r: the newest
\* index entry not above r leads to the pair the key had then.
Newer(X, x, r) == \E y \in X : y <= r /\ y > x
Told(s, k, r) ==
    LET X == ToSet(s.index[k])
        row == Row(s.past[r], k)
    IN  /\ \A x \in X : x <= r /\ ~Newer(X, x, r) =>
               IF x \in DOMAIN s.history THEN Shows(s.history[x], row, x) ELSE Old(s, row)
        /\ (\A x \in X : x > r) => Old(s, row)
Indexed(s) == \A k \in Key : Ascending(s.index[k]) /\ \A r \in 1..s.rev : Told(s, k, r)

StoreInv(s) == Typed(s) /\ Owned(s) /\ Lives(s) /\ Indexed(s)

-----------------------------------------------------------------------------
(* A write: store s takes one more revision, at which the keys D change,   *)
(* and becomes t                                                           *)

Rewritten(s, t, k) ==
    \E v \in Value, l \in LeaseId \cup {NoLease} :
        t.current[k] = NextKv(Row(s.current, k), v, l, t.rev)

Recorded(s, t, D) ==
    \/ D = {} /\ t.history = s.history
    \/ \E e : /\ t.history = Extend(s.history, t.rev, e)
              /\ \A k \in D : Shows(e, Row(t.current, k), t.rev)

Advance(s, t, D) ==
    /\ t.rev = s.rev + 1 /\ t.compacted = s.compacted /\ t.lost = s.lost
    /\ t.past = Append(s.past, t.current)
    /\ D \subseteq Key /\ Live(t) \subseteq Live(s) \cup D
    /\ \A k \in Key \ D : /\ k \in Live(s) => k \in Live(t) /\ t.current[k] = s.current[k]
                          /\ t.index[k] = s.index[k]
    /\ \A k \in D : /\ k \in Live(t) => Rewritten(s, t, k)
                    /\ t.index[k] = Append(s.index[k], t.rev)
    /\ Recorded(s, t, D)

\* A key of a store is live, with a pair that is not the absent one, or not
\* there.
LEMMA RowIs ==
    ASSUME NEW m, IsRows(m), NEW k
    PROVE  \/ k \in DOMAIN m /\ Row(m, k) = m[k] /\ m[k] \in Kv /\ m[k] # Absent /\ m[k].ver >= 1
           \/ k \notin DOMAIN m /\ Row(m, k) = Absent
<1>1. Absent.ver = 0
  BY DEF Absent
<1>2. CASE k \in DOMAIN m
  <2>1. m[k] \in Kv /\ m[k].ver >= 1 /\ m[k].ver \in Nat
    BY <1>2 DEF IsRows, Kv
  <2>2. m[k] # Absent
    BY <1>1, <2>1
  <2>3. QED
    BY <1>2, <2>1, <2>2 DEF Row
<1>3. CASE k \notin DOMAIN m
  BY <1>3 DEF Row
<1>4. QED
  BY <1>2, <1>3

LEMMA CurrentRows ==
    ASSUME NEW s, Counted(s), Dated(s)
    PROVE  IsRows(s.current) /\ \A k \in Live(s) : s.current[k].mod <= s.rev
<1>1. s.rev \in 1..s.rev
  BY DEF Counted
<1>2. QED
  BY <1>1 DEF Dated, Live

\* The counters of the absent pair.
LEMMA AbsentIs ==
    /\ Absent.mod = 0 /\ Absent.ver = 0 /\ Absent.lease = NoLease
BY DEF Absent

\* The pair a put leaves at revision r over the pair prev.
PutOver(kv, prev, r) ==
    /\ kv \in Kv /\ kv.ver = prev.ver + 1 /\ kv.ver >= 1 /\ kv.mod = r
    /\ kv.create = IF prev = Absent THEN r ELSE prev.create

LEMMA NextKvIs ==
    ASSUME NEW prev \in Kv \cup {Absent}, NEW v \in Value,
           NEW l \in LeaseId \cup {NoLease}, NEW r \in Nat
    PROVE  PutOver(NextKv(prev, v, l, r), prev, r) /\ NextKv(prev, v, l, r).lease = l
<1>1. prev.ver \in Nat /\ (prev = Absent \/ prev.create \in Nat)
  BY DEF Kv, Absent
<1>2. QED
  BY <1>1 DEF NextKv, Kv, PutOver

\* A sequence with one more element.
LEMMA AppendGrows ==
    ASSUME NEW q, IsSequence(q), NEW e
    PROVE  /\ IsSequence(Append(q, e)) /\ Len(q) \in Nat /\ Len(Append(q, e)) = Len(q) + 1
           /\ Append(q, e)[Len(q) + 1] = e /\ \A i \in 1..Len(q) : Append(q, e)[i] = q[i]
<1>1. PICK S : q \in Seq(S)
  BY DEF IsSequence
<1>2. q \in Seq(S \cup {e}) /\ e \in S \cup {e}
  BY <1>1, SeqMonotonic
<1>3. QED
  BY <1>2, AppendProperties DEF IsSequence

\* The past is one longer, and the rest of it stays.
LEMMA PastGrows ==
    ASSUME NEW s, Counted(s), Dated(s), NEW t, NEW D, Advance(s, t, D)
    PROVE  /\ t.rev = s.rev + 1 /\ s.rev \in Nat \ {0} /\ t.rev \in Nat
           /\ IsSequence(t.past) /\ Len(t.past) = t.rev /\ t.past[t.rev] = t.current
           /\ \A r \in 1..s.rev : t.past[r] = s.past[r]
           /\ \A r \in 1..t.rev : r \in 1..s.rev \/ r = t.rev
<1>1. /\ t.rev = s.rev + 1 /\ s.rev \in Nat \ {0} /\ t.past = Append(s.past, t.current)
      /\ IsSequence(s.past) /\ Len(s.past) = s.rev
  BY DEF Advance, Counted, Dated
<1>2. /\ IsSequence(t.past) /\ Len(t.past) = t.rev /\ t.past[t.rev] = t.current
      /\ \A r \in 1..s.rev : t.past[r] = s.past[r]
  BY <1>1, AppendGrows
<1>3. QED
  BY <1>1, <1>2

\* What becomes of the pair of a key.
LEMMA PairMoves ==
    ASSUME NEW s, Counted(s), Dated(s), NEW t, NEW D, Advance(s, t, D), NEW k \in Key
    PROVE  /\ k \notin D => Row(t.current, k) = Row(s.current, k) /\ (k \in Live(t) <=> k \in Live(s))
           /\ k \in Live(t) => t.current[k] \in Kv /\ t.current[k].ver >= 1
           /\ k \in Live(t) /\ k \in D => PutOver(t.current[k], Row(s.current, k), t.rev)
<1>1. IsRows(s.current)
  BY CurrentRows
<1>2. CASE k \notin D
  <2>1. k \in Live(t) <=> k \in Live(s)
    BY <1>2 DEF Advance
  <2>2. k \in Live(s) => t.current[k] = s.current[k]
    BY <1>2 DEF Advance
  <2>3. QED
    BY <1>1, <1>2, <2>1, <2>2 DEF Row, Live, IsRows
<1>3. CASE k \in D /\ k \in Live(t)
  <2>1. PICK v \in Value, l \in LeaseId \cup {NoLease} :
            t.current[k] = NextKv(Row(s.current, k), v, l, t.rev)
    BY <1>3 DEF Advance, Rewritten
  <2>2. Row(s.current, k) \in Kv \cup {Absent}
    BY <1>1, RowIs
  <2>3. t.rev \in Nat
    BY PastGrows
  <2>4. PutOver(t.current[k], Row(s.current, k), t.rev)
    BY <2>1, <2>2, <2>3, NextKvIs
  <2>5. QED
    BY <1>3, <2>4 DEF PutOver
<1>4. CASE k \in D /\ k \notin Live(t)
  BY <1>4
<1>5. QED
  BY <1>2, <1>3, <1>4

LEMMA AdvanceDated ==
    ASSUME NEW s, Counted(s), Dated(s), NEW t, NEW D, Advance(s, t, D)
    PROVE  Counted(t) /\ Dated(t)
<1>1. Live(t) \subseteq Key
  BY CurrentRows DEF Advance, IsRows, Live
<1>2. IsRows(t.current)
  BY <1>1, PairMoves DEF IsRows, Live
<1>3. \A k \in Live(t) : t.current[k].mod <= t.rev
  <2> TAKE k \in Live(t)
  <2>1. k \in Key /\ t.rev = s.rev + 1 /\ s.rev \in Nat
    BY <1>1, PastGrows
  <2>2. CASE k \in D
    BY <2>1, <2>2, PairMoves DEF PutOver
  <2>3. CASE k \notin D
    <3>1. k \in Live(s) /\ t.current[k] = s.current[k]
      BY <2>1, <2>3 DEF Advance
    <3>2. s.current[k].mod <= s.rev /\ s.current[k].mod \in Nat
      BY <3>1, CurrentRows DEF IsRows, Kv, Live
    <3>3. QED
      BY <2>1, <3>1, <3>2
  <2>4. QED
    BY <2>2, <2>3
<1>4. \A r \in 1..t.rev : IsRows(t.past[r]) /\ \A k \in DOMAIN t.past[r] : t.past[r][k].mod <= r
  <2> TAKE r \in 1..t.rev
  <2>1. CASE r \in 1..s.rev
    <3>1. t.past[r] = s.past[r]
      BY <2>1, PastGrows
    <3>2. IsRows(s.past[r]) /\ \A k \in DOMAIN s.past[r] : s.past[r][k].mod <= r
      BY <2>1 DEF Dated
    <3>3. QED
      BY <3>1, <3>2
  <2>2. CASE r = t.rev
    BY <1>2, <1>3, <2>2, PastGrows DEF Live
  <2>3. QED
    BY <2>1, <2>2, PastGrows
<1>5. Counted(t)
  BY PastGrows DEF Counted, Advance
<1>6. QED
  BY <1>4, <1>5, PastGrows DEF Dated

\* The history keeps its rows and has one more, if any.
LEMMA HistoryGrows ==
    ASSUME NEW s, NEW t, NEW D, Advance(s, t, D)
    PROVE  /\ DOMAIN s.history \subseteq DOMAIN t.history
           /\ DOMAIN t.history \subseteq DOMAIN s.history \cup {t.rev}
           /\ \A x \in DOMAIN s.history : x # t.rev => t.history[x] = s.history[x]
<1>1. Recorded(s, t, D)
  BY DEF Advance
<1>2. CASE t.history = s.history
  BY <1>2
<1>3. ASSUME NEW e, t.history = Extend(s.history, t.rev, e)
      PROVE  /\ DOMAIN t.history = DOMAIN s.history \cup {t.rev}
             /\ \A x \in DOMAIN s.history : x # t.rev => t.history[x] = s.history[x]
  BY <1>3 DEF Extend
<1>4. QED
  BY <1>1, <1>2, <1>3 DEF Recorded

LEMMA ElementIs ==
    ASSUME NEW S, NEW q \in Seq(S)
    PROVE  \A i \in DOMAIN q : q[i] \in S
OBVIOUS

\* The index of a key keeps its entries and has one more, if any.
LEMMA IndexMoves ==
    ASSUME NEW s, Counted(s), Listed(s), NEW t, NEW D, Advance(s, t, D), NEW k \in Key
    PROVE  /\ s.index[k] \in Seq(2..s.rev) /\ s.index[k] \in Seq(Nat)
           /\ s.index[k] \in Seq(2..t.rev) /\ t.rev \in 2..t.rev
           /\ t.index[k] = IF k \in D THEN Append(s.index[k], t.rev) ELSE s.index[k]
<1>1. t.rev = s.rev + 1 /\ s.rev \in Nat \ {0}
  BY DEF Advance, Counted
<1>2. t.rev \in 2..t.rev /\ 2..s.rev \subseteq 2..t.rev /\ 2..s.rev \subseteq Nat
  BY <1>1
<1>3. s.index[k] \in Seq(2..s.rev)
  BY DEF Listed
<1>4. s.index[k] \in Seq(2..t.rev) /\ s.index[k] \in Seq(Nat)
  BY <1>2, <1>3, SeqMonotonic
<1>5. QED
  BY <1>2, <1>3, <1>4 DEF Advance

LEMMA IndexGrows ==
    ASSUME NEW s, Counted(s), Listed(s), NEW t, NEW D, Advance(s, t, D), NEW k \in Key
    PROVE  /\ \A x \in ToSet(s.index[k]) : x \in Nat /\ x <= s.rev
           /\ ToSet(t.index[k]) = IF k \in D THEN ToSet(s.index[k]) \cup {t.rev} ELSE ToSet(s.index[k])
<1>1. \A i \in DOMAIN s.index[k] : s.index[k][i] \in 2..s.rev
  BY IndexMoves, ElementIs
<1>2. \A x \in 2..s.rev : x \in Nat /\ x <= s.rev
  BY DEF Counted
<1>3. \A x \in ToSet(s.index[k]) : x \in Nat /\ x <= s.rev
  BY <1>1, <1>2 DEF ToSet
<1>4. t.rev \in Nat
  BY DEF Counted, Advance
<1>5. ToSet(Append(s.index[k], t.rev)) = ToSet(s.index[k]) \cup {t.rev}
  <2>1. s.index[k] \in Seq(Nat)
    BY IndexMoves
  <2>2. QED
    BY <1>4, <2>1, AppendSet
<1>6. CASE k \in D
  <2>1. t.index[k] = Append(s.index[k], t.rev)
    BY <1>6 DEF Advance
  <2>2. QED
    BY <1>3, <1>5, <1>6, <2>1
<1>7. CASE k \notin D
  <2>1. t.index[k] = s.index[k]
    BY <1>7 DEF Advance
  <2>2. QED
    BY <1>3, <1>7, <2>1
<1>8. QED
  BY <1>6, <1>7

LEMMA AdvanceListed ==
    ASSUME NEW s, Counted(s), Listed(s), NEW t, NEW D, Advance(s, t, D), IsStore(t)
    PROVE  Listed(t)
<1>1. t.rev = s.rev + 1 /\ s.rev \in Nat \ {0} /\ t.rev \in 2..t.rev
  BY DEF Advance, Counted
<1>2. \A x : x \in 2..s.rev => x \in 2..t.rev
  BY <1>1
<1>3. ASSUME NEW k \in Key PROVE t.index[k] \in Seq(2..t.rev)
  <2>1. CASE k \notin D
    BY <2>1, IndexMoves
  <2>2. CASE k \in D
    <3>1. t.index[k] = Append(s.index[k], t.rev)
      BY <2>2 DEF Advance
    <3>2. s.index[k] \in Seq(2..t.rev)
      BY IndexMoves
    <3>3. QED
      BY <1>1, <3>1, <3>2, AppendProperties
  <2>3. QED
    BY <2>1, <2>2
<1>4. t.index \in [Key -> Seq(2..t.rev)]
  <2>1. t.index = [k \in Key |-> t.index[k]]
    BY DEF IsStore
  <2>2. QED
    BY <1>3, <2>1
<1>5. DOMAIN t.history \subseteq DOMAIN s.history \cup {t.rev}
  BY HistoryGrows
<1>6. QED
  BY <1>1, <1>2, <1>4, <1>5 DEF Listed

\* A key that is not among the written ones: its life goes on as it was.
LEMMA LifeGoesOn ==
    ASSUME NEW s, Counted(s), Dated(s), NEW t, NEW D, Advance(s, t, D),
           NEW k \in Live(t), k \notin D, k \in Key, Lives(s)
    PROVE  LifeTold(t, k)
<1> DEFINE c == s.current[k].create
<1>1. k \in Live(s) /\ t.current[k] = s.current[k] /\ Row(t.current, k) = t.current[k]
  BY PairMoves DEF Advance, Row, Live
<1>2. /\ c \in 2..s.rev /\ \A r \in c..s.rev : Row(s.past[r], k).create = c
      /\ k \notin DOMAIN s.past[c - 1] /\ s.current[k].ver = Cardinality(Puts(s, k, c))
  BY <1>1 DEF Lives, LifeTold
<1>3. s.current[k].mod <= s.rev /\ s.current[k].mod \in Nat
  BY <1>1, CurrentRows DEF IsRows, Kv, Live
<1>4. t.current[k].create = c
  BY <1>1
<1> HIDE DEF c
<1>5. c \in 2..t.rev /\ c - 1 \in 1..s.rev /\ c \in Nat
  BY <1>2, PastGrows
<1>6. \A r \in c..t.rev : (r \in c..s.rev /\ r \in 1..s.rev) \/ r = t.rev
  BY <1>5, PastGrows
<1>7. \A r \in c..s.rev : r \in c..t.rev /\ r \in 1..s.rev /\ r # t.rev
  BY <1>5, PastGrows
<1>8. \A r \in c..t.rev : Row(t.past[r], k).create = c
  BY <1>1, <1>2, <1>4, <1>6, PastGrows
<1>9. Row(t.past[t.rev], k).mod # t.rev
  BY <1>1, <1>3, PastGrows
<1>10. \A r \in c..s.rev : t.past[r] = s.past[r]
  BY <1>7, PastGrows
<1>11. Puts(t, k, c) = Puts(s, k, c)
  BY <1>6, <1>7, <1>9, <1>10 DEF Puts
<1>12. k \notin DOMAIN t.past[c - 1]
  BY <1>2, <1>5, PastGrows
<1>13. QED
  BY <1>1, <1>2, <1>4, <1>5, <1>8, <1>11, <1>12 DEF LifeTold

\* A key put again: its creation stays, its version counts one more.
LEMMA LifeCounts ==
    ASSUME NEW s, Counted(s), Dated(s), NEW t, NEW D, Advance(s, t, D),
           NEW k \in Live(t), k \in D, k \in Key, k \in Live(s), Lives(s)
    PROVE  LifeTold(t, k)
<1> DEFINE c == s.current[k].create
<1>1. Row(t.current, k) = t.current[k]
  BY DEF Row, Live
<1>2. /\ c \in 2..s.rev /\ \A r \in c..s.rev : Row(s.past[r], k).create = c
      /\ k \notin DOMAIN s.past[c - 1] /\ s.current[k].ver = Cardinality(Puts(s, k, c))
  BY DEF Lives, LifeTold
<1>3. Row(s.current, k) = s.current[k] /\ s.current[k] # Absent
  BY CurrentRows, RowIs DEF Live
<1>4. t.current[k].create = c /\ t.current[k].ver = s.current[k].ver + 1 /\ t.current[k].mod = t.rev
  BY <1>3, PairMoves DEF PutOver
<1> HIDE DEF c
<1>5. c \in 2..t.rev /\ c - 1 \in 1..s.rev /\ c \in Nat /\ t.rev \in c..t.rev
  BY <1>2, PastGrows
<1>6. \A r \in c..t.rev : (r \in c..s.rev /\ r \in 1..s.rev) \/ r = t.rev
  BY <1>5, PastGrows
<1>7. \A r \in c..s.rev : r \in c..t.rev /\ r \in 1..s.rev /\ r # t.rev
  BY <1>5, PastGrows
<1>8. \A r \in c..t.rev : Row(t.past[r], k).create = c
  BY <1>1, <1>2, <1>4, <1>6, PastGrows
<1>9. Row(t.past[t.rev], k).mod = t.rev
  BY <1>1, <1>4, PastGrows
<1>10. \A r \in c..s.rev : t.past[r] = s.past[r]
  BY <1>7, PastGrows
<1>11. Puts(t, k, c) = Puts(s, k, c) \cup {t.rev}
  BY <1>5, <1>6, <1>7, <1>9, <1>10 DEF Puts
<1>12. IsFiniteSet(Puts(s, k, c)) /\ t.rev \notin Puts(s, k, c)
  <2>1. IsFiniteSet(c..s.rev)
    <3>1. c \in Int /\ s.rev \in Int
      BY <1>5, PastGrows
    <3>2. QED
      BY <3>1, FS_Interval
  <2>2. Puts(s, k, c) \subseteq c..s.rev
    BY DEF Puts
  <2>3. QED
    BY <1>7, <2>1, <2>2, FS_Subset
<1>13. Cardinality(Puts(t, k, c)) = Cardinality(Puts(s, k, c)) + 1
  BY <1>11, <1>12, FS_AddElement
<1>14. k \notin DOMAIN t.past[c - 1]
  BY <1>2, <1>5, PastGrows
<1>15. QED
  BY <1>2, <1>4, <1>5, <1>8, <1>13, <1>14 DEF LifeTold

\* A key put when it was not there: its life begins.
LEMMA LifeBegins ==
    ASSUME NEW s, Counted(s), Dated(s), NEW t, NEW D, Advance(s, t, D),
           NEW k \in Live(t), k \in D, k \in Key, k \notin Live(s)
    PROVE  LifeTold(t, k)
<1>1. Row(t.current, k) = t.current[k] /\ Row(s.current, k) = Absent
  BY DEF Row, Live
<1>2. t.current[k].create = t.rev /\ t.current[k].ver = 1 /\ t.current[k].mod = t.rev
  BY <1>1, PairMoves, AbsentIs DEF PutOver
<1>3. t.rev \in Nat /\ t.rev \in 2..t.rev /\ t.rev - 1 = s.rev /\ s.rev \in 1..s.rev
  BY PastGrows
<1>4. \A r \in t.rev..t.rev : r = t.rev
  BY <1>3
<1>5. t.rev \in t.rev..t.rev
  BY <1>3
<1>6. Puts(t, k, t.rev) = {t.rev}
  BY <1>1, <1>2, <1>4, <1>5, PastGrows DEF Puts
<1>7. Cardinality(Puts(t, k, t.rev)) = 1
  BY <1>6, FS_Singleton
<1>8. t.past[t.rev - 1] = s.current
  <2>1. \A r \in 1..s.rev : t.past[r] = s.past[r]
    BY PastGrows
  <2>2. s.past[s.rev] = s.current
    BY DEF Dated
  <2>3. QED
    BY <1>3, <2>1, <2>2
<1>9. \A r \in t.rev..t.rev : Row(t.past[r], k).create = t.rev
  BY <1>1, <1>2, <1>4, PastGrows
<1>10. QED
  BY <1>2, <1>3, <1>7, <1>8, <1>9 DEF LifeTold, Live

LEMMA AdvanceLives ==
    ASSUME NEW s, Counted(s), Dated(s), Lives(s), NEW t, NEW D, Advance(s, t, D)
    PROVE  Lives(t)
<1> SUFFICES ASSUME NEW k \in Live(t) PROVE LifeTold(t, k)
  BY DEF Lives
<1>1. k \in Key
  BY CurrentRows DEF Advance, IsRows, Live
<1>2. QED
  BY <1>1, LifeGoesOn, LifeCounts, LifeBegins

\* What was told of an earlier revision is told still.
LEMMA ToldStays ==
    ASSUME NEW s, Counted(s), Dated(s), Listed(s), NEW t, NEW D, Advance(s, t, D),
           NEW k \in Key, NEW r \in 1..s.rev, Told(s, k, r)
    PROVE  Told(t, k, r)
<1> DEFINE X == ToSet(s.index[k])
           Y == ToSet(t.index[k])
           row == Row(s.past[r], k)
<1>1. Row(t.past[r], k) = row /\ t.lost = s.lost
  <2>1. t.past[r] = s.past[r]
    BY PastGrows
  <2>2. QED
    BY <2>1 DEF Advance
<1>2. Y = X \/ Y = X \cup {t.rev}
  <2>1. CASE k \in D
    BY <2>1, IndexGrows
  <2>2. CASE k \notin D
    <3>1. t.index[k] = s.index[k]
      BY <2>2 DEF Advance
    <3>2. QED
      BY <3>1
  <2>3. QED
    BY <2>1, <2>2
<1>3. ~(t.rev <= r) /\ t.rev > r
  BY PastGrows
<1>4. \A x \in DOMAIN s.history : x \in DOMAIN t.history /\ t.history[x] = s.history[x]
  <2>1. \A x \in DOMAIN s.history : x # t.rev
    BY PastGrows DEF Listed
  <2>2. QED
    BY <2>1, HistoryGrows
<1>5. \A x \in DOMAIN t.history : x \in DOMAIN s.history \/ x = t.rev
  BY HistoryGrows
<1> HIDE DEF X, Y, row
<1>6. ASSUME NEW x \in Y, x <= r, ~Newer(Y, x, r)
      PROVE  IF x \in DOMAIN t.history THEN Shows(t.history[x], row, x) ELSE Old(t, row)
  <2>1. x \in X /\ x # t.rev
    BY <1>2, <1>3, <1>6
  <2>2. ~Newer(X, x, r)
    BY <1>2, <1>6 DEF Newer
  <2>3. IF x \in DOMAIN s.history THEN Shows(s.history[x], row, x) ELSE Old(s, row)
    BY <1>6, <2>1, <2>2 DEF Told, X, row
  <2>4. QED
    BY <1>1, <1>4, <1>5, <2>1, <2>3 DEF Old
<1>7. ASSUME \A x \in Y : x > r PROVE Old(t, row)
  <2>1. \A x \in X : x > r
    BY <1>2, <1>7
  <2>2. Old(s, row)
    BY <2>1 DEF Told, X, row
  <2>3. QED
    BY <1>1, <2>2 DEF Old
<1>8. QED
  BY <1>1, <1>6, <1>7 DEF Told, X, Y, row

\* What is told of the new revision.
LEMMA ToldNow ==
    ASSUME NEW s, Counted(s), Dated(s), Listed(s), NEW t, NEW D, Advance(s, t, D),
           NEW k \in Key, Told(s, k, s.rev)
    PROVE  Told(t, k, t.rev)
<1> DEFINE X == ToSet(s.index[k])
           Y == ToSet(t.index[k])
           row == Row(t.current, k)
<1>1. t.past[t.rev] = t.current /\ t.lost = s.lost /\ t.rev = s.rev + 1 /\ s.rev \in Nat
  BY PastGrows DEF Advance
<1>2. \A x \in X : x \in Nat /\ x <= s.rev
  BY IndexGrows
<1>3. CASE k \in D
  <2>1. Y = X \cup {t.rev}
    BY <1>3, IndexGrows
  <2>2. PICK e : t.history = Extend(s.history, t.rev, e) /\ \A j \in D : Shows(e, Row(t.current, j), t.rev)
    BY <1>3 DEF Advance, Recorded
  <2>3. t.rev \in DOMAIN t.history /\ t.history[t.rev] = e
    BY <2>2 DEF Extend
  <2>4. Shows(e, row, t.rev)
    BY <1>3, <2>2
  <2> HIDE DEF X, Y, row
  <2>5. \A x \in Y : x <= t.rev /\ ~Newer(Y, x, t.rev) => x = t.rev
    BY <1>1, <1>2, <2>1 DEF Newer
  <2>6. ~(\A x \in Y : x > t.rev)
    BY <1>1, <2>1
  <2>7. QED
    BY <1>1, <2>3, <2>4, <2>5, <2>6 DEF Told, Y, row
<1>4. CASE k \notin D
  <2>1. Y = X /\ row = Row(s.current, k)
    <3>1. t.index[k] = s.index[k]
      BY <1>4 DEF Advance
    <3>2. QED
      BY <1>4, <3>1, PairMoves
  <2>2. Row(s.past[s.rev], k) = row
    BY <2>1 DEF Dated
  <2>3. \A x \in DOMAIN s.history : x \in DOMAIN t.history /\ t.history[x] = s.history[x]
    <3>1. \A x \in DOMAIN s.history : x # t.rev
      BY PastGrows DEF Listed
    <3>2. QED
      BY <3>1, HistoryGrows
  <2>4. \A x \in DOMAIN t.history : x \in DOMAIN s.history \/ x = t.rev
    BY HistoryGrows
  <2> HIDE DEF row
  <2>5. ASSUME NEW x \in Y, x <= t.rev, ~Newer(Y, x, t.rev)
        PROVE  IF x \in DOMAIN t.history THEN Shows(t.history[x], row, x) ELSE Old(t, row)
    <3>1. x \in X /\ x <= s.rev /\ x # t.rev
      BY <1>1, <1>2, <2>1, <2>5
    <3>2. ~Newer(X, x, s.rev)
      <4> HIDE DEF X, Y
      <4>1. \A y \in X : y <= s.rev => y <= t.rev
        BY <1>1, <1>2
      <4>2. QED
        BY <2>1, <2>5, <4>1 DEF Newer
    <3>3. IF x \in DOMAIN s.history THEN Shows(s.history[x], row, x) ELSE Old(s, row)
      BY <2>2, <3>1, <3>2 DEF Told
    <3>4. QED
      BY <1>1, <2>3, <2>4, <3>1, <3>3 DEF Old
  <2>6. ASSUME \A x \in Y : x > t.rev PROVE Old(t, row)
    <3>1. \A x \in X : x > s.rev
      <4> HIDE DEF X, Y
      <4>1. QED
        BY <1>1, <1>2, <2>1, <2>6
    <3>2. Old(s, row)
      BY <2>2, <3>1 DEF Told
    <3>3. QED
      BY <1>1, <3>2 DEF Old
  <2>7. QED
    BY <1>1, <2>5, <2>6 DEF Told, row
<1>5. QED
  BY <1>3, <1>4

LEMMA AdvanceIndexed ==
    ASSUME NEW s, Counted(s), Dated(s), Listed(s), Indexed(s), NEW t, NEW D, Advance(s, t, D)
    PROVE  Indexed(t)
<1> SUFFICES ASSUME NEW k \in Key PROVE Ascending(t.index[k]) /\ \A r \in 1..t.rev : Told(t, k, r)
  BY DEF Indexed
<1>1. Ascending(t.index[k])
  <2>1. s.index[k] \in Seq(2..s.rev) /\ Ascending(s.index[k])
    BY DEF Listed, Indexed
  <2>2. CASE t.index[k] = s.index[k]
    BY <2>1, <2>2
  <2>3. CASE t.index[k] = Append(s.index[k], t.rev)
    <3> DEFINE q == s.index[k]
               a == t.index[k]
    <3>1. q \in Seq(Nat) /\ t.rev \in Nat /\ \A i \in DOMAIN q : q[i] < t.rev
      BY <2>1, PastGrows
    <3>2. /\ DOMAIN q = 1..Len(q) /\ Len(q) \in Nat
          /\ \A i \in DOMAIN a : \/ i \in DOMAIN q /\ a[i] = q[i]
                                 \/ i = Len(q) + 1 /\ a[i] = t.rev
      BY <2>3, <3>1, AppendSet
    <3> HIDE DEF q, a
    <3>3. \A i, j \in DOMAIN a : i < j => a[i] < a[j]
      <4> SUFFICES ASSUME NEW i \in DOMAIN a, NEW j \in DOMAIN a, i < j PROVE a[i] < a[j]
        OBVIOUS
      <4>1. i \in DOMAIN q /\ a[i] = q[i]
        BY <3>2
      <4>2. CASE j \in DOMAIN q /\ a[j] = q[j]
        BY <2>1, <4>1, <4>2 DEF Ascending, q
      <4>3. CASE a[j] = t.rev
        BY <3>1, <4>1, <4>3
      <4>4. QED
        BY <3>2, <4>2, <4>3
    <3>4. QED
      BY <3>3 DEF Ascending, a
  <2>4. QED
    BY <2>2, <2>3 DEF Advance
<1>2. \A r \in 1..s.rev : Told(s, k, r)
  BY DEF Indexed
<1>3. \A r \in 1..s.rev : Told(t, k, r)
  BY <1>2, ToldStays
<1>4. Told(t, k, t.rev)
  <2>1. s.rev \in 1..s.rev
    BY PastGrows
  <2>2. QED
    BY <1>2, <2>1, ToldNow
<1>5. QED
  BY <1>1, <1>3, <1>4, PastGrows

-----------------------------------------------------------------------------
(* Every operation keeps the invariant of the store *)

\* A lease with another list of keys.
LEMMA LeaseWith ==
    ASSUME NEW e \in Lease, NEW q \in Seq(Key), NEW f, f = [e EXCEPT !.keys = q]
    PROVE  f \in Lease /\ f.keys = q
BY DEF Lease

\* What the leases hold after a put of key k.
Reattached(ls, ms, k, old, new) ==
    /\ DOMAIN ms = DOMAIN ls
    /\ \A id \in DOMAIN ls :
          /\ ms[id] \in Lease
          /\ \A j \in ToSet(ms[id].keys) :
                \/ j # k /\ j \in ToSet(ls[id].keys)
                \/ j = k /\ (id = new \/ (id # old /\ j \in ToSet(ls[id].keys)))

LEMMA ReattachIs ==
    ASSUME NEW ls, \A id \in DOMAIN ls : ls[id] \in Lease, NEW k \in Key, NEW old, NEW new
    PROVE  Reattached(ls, Reattach(ls, k, old, new), k, old, new)
<1> DEFINE ms == Reattach(ls, k, old, new)
<1>1. DOMAIN ms = DOMAIN ls
  BY DEF Reattach
<1>2. ASSUME NEW id \in DOMAIN ls
      PROVE  /\ ms[id] \in Lease
             /\ \A j \in ToSet(ms[id].keys) :
                   \/ j # k /\ j \in ToSet(ls[id].keys)
                   \/ j = k /\ (id = new \/ (id # old /\ j \in ToSet(ls[id].keys)))
  <2> DEFINE e == ls[id]
             q == e.keys
  <2>1. e \in Lease /\ q \in Seq(Key)
    BY <1>2 DEF Lease
  <2>2. CASE id = new /\ ~Contains(q, k)
    <3>1. ms[id] = [e EXCEPT !.keys = Append(q, k)]
      BY <1>2, <2>2 DEF Reattach
    <3> HIDE DEF e, q
    <3>2. Append(q, k) \in Seq(Key) /\ ToSet(Append(q, k)) = ToSet(q) \cup {k}
      BY <2>1, AppendSet
    <3>3. ms[id] \in Lease /\ ms[id].keys = Append(q, k)
      BY <2>1, <3>1, <3>2, LeaseWith
    <3>4. QED
      BY <2>2, <3>2, <3>3 DEF e, q
  <2>3. CASE id = old /\ id # new
    <3>1. ms[id] = [e EXCEPT !.keys = Dropping(q, {k})]
      BY <1>2, <2>3 DEF Reattach
    <3> HIDE DEF e, q
    <3>2. Dropping(q, {k}) \in Seq(Key) /\ ToSet(Dropping(q, {k})) = ToSet(q) \ {k}
      BY <2>1, DroppingKeeps
    <3>3. ms[id] \in Lease /\ ms[id].keys = Dropping(q, {k})
      BY <2>1, <3>1, <3>2, LeaseWith
    <3>4. QED
      BY <3>2, <3>3 DEF e, q
  <2>4. CASE ~(id = new /\ ~Contains(q, k)) /\ ~(id = old /\ id # new)
    <3>1. ms[id] = e
      BY <1>2, <2>4 DEF Reattach
    <3>2. QED
      BY <2>1, <2>4, <3>1
  <2>5. QED
    BY <2>2, <2>3, <2>4
<1>3. QED
  BY <1>1, <1>2 DEF Reattached

\* What the leases hold after a delete of the keys D.
Detached(ls, ms, D, rows) ==
    /\ DOMAIN ms = DOMAIN ls
    /\ \A id \in DOMAIN ls :
          /\ ms[id] \in Lease
          /\ ToSet(ms[id].keys) = ToSet(ls[id].keys) \ {k \in D : rows[k].lease = id}

LEMMA DetachKeysIs ==
    ASSUME NEW ls, \A id \in DOMAIN ls : ls[id] \in Lease, NEW D, NEW rows
    PROVE  Detached(ls, DetachKeys(ls, D, rows), D, rows)
<1> DEFINE ms == DetachKeys(ls, D, rows)
<1>1. DOMAIN ms = DOMAIN ls
  BY DEF DetachKeys
<1>2. ASSUME NEW id \in DOMAIN ls
      PROVE  /\ ms[id] \in Lease
             /\ ToSet(ms[id].keys) = ToSet(ls[id].keys) \ {k \in D : rows[k].lease = id}
  <2> DEFINE e == ls[id]
             q == e.keys
             gone == {k \in D : rows[k].lease = id}
  <2>1. e \in Lease /\ q \in Seq(Key)
    BY <1>2 DEF Lease
  <2>2. ms[id] = [e EXCEPT !.keys = Dropping(q, gone)]
    BY <1>2 DEF DetachKeys
  <2> HIDE DEF e, q, gone
  <2>3. Dropping(q, gone) \in Seq(Key) /\ ToSet(Dropping(q, gone)) = ToSet(q) \ gone
    BY <2>1, DroppingKeeps
  <2>4. ms[id] \in Lease /\ ms[id].keys = Dropping(q, gone)
    BY <2>1, <2>2, <2>3, LeaseWith
  <2>5. QED
    BY <2>3, <2>4 DEF e, q, gone
<1>3. QED
  BY <1>1, <1>2 DEF Detached

\* A write that keeps the leases' types and keys keeps all of it.
LEMMA AdvanceKeeps ==
    ASSUME NEW s, StoreInv(s), NEW t, NEW D, Advance(s, t, D), IsStore(t), Leased(t), Owned(t)
    PROVE  StoreInv(t)
<1>1. Counted(s) /\ Dated(s) /\ Listed(s) /\ Lives(s) /\ Indexed(s)
  BY DEF StoreInv, Typed
<1>2. Counted(t) /\ Dated(t)
  BY <1>1, AdvanceDated
<1>3. Listed(t)
  BY <1>1, AdvanceListed
<1>4. Lives(t)
  BY <1>1, AdvanceLives
<1>5. Indexed(t)
  BY <1>1, AdvanceIndexed
<1>6. QED
  BY <1>2, <1>3, <1>4, <1>5 DEF StoreInv, Typed

LEMMA PutAdvances ==
    ASSUME NEW s, StoreInv(s), NEW k \in Key, NEW v \in Value, NEW l \in LeaseId \cup {NoLease},
           NEW t, t = Put(s, k, v, l)
    PROVE  Advance(s, t, {k})
<1> DEFINE kv == NextKv(Row(s.current, k), v, l, s.rev + 1)
           e == [key |-> k, type |-> "put", kv |-> kv]
<1>1. IsStore(s) /\ Counted(s) /\ Dated(s) /\ Listed(s)
  BY DEF StoreInv, Typed
<1>2. /\ t.rev = s.rev + 1 /\ t.compacted = s.compacted /\ t.lost = s.lost
      /\ t.current = Extend(s.current, k, kv)
      /\ t.index = [s.index EXCEPT ![k] = Append(@, t.rev)]
      /\ t.history = Extend(s.history, t.rev, e)
      /\ t.past = Append(s.past, t.current)
  <2>1. PutForm(s, t, k, v, l)
    BY <1>1, PutIs
  <2>2. QED
    BY <2>1 DEF PutForm
<1>3. kv.mod = s.rev + 1
  BY DEF NextKv
<1> HIDE DEF kv
<1>4. /\ Live(t) = Live(s) \cup {k} /\ t.current[k] = kv
      /\ \A j \in Live(s) : j # k => t.current[j] = s.current[j]
  BY <1>2 DEF Extend, Live
<1>5. \A j \in Key : t.index[j] = IF j = k THEN Append(s.index[j], t.rev) ELSE s.index[j]
  BY <1>1, <1>2 DEF Listed
<1>6. Row(t.current, k) = kv
  BY <1>4 DEF Row, Live
<1>7. Shows(e, Row(t.current, k), t.rev)
  BY <1>2, <1>3, <1>6 DEF Shows
<1> HIDE DEF e
<1>8. Recorded(s, t, {k})
  BY <1>2, <1>7 DEF Recorded
<1>9. Rewritten(s, t, k)
  BY <1>2, <1>4 DEF Rewritten, kv
<1>10. QED
  BY <1>2, <1>4, <1>5, <1>8, <1>9 DEF Advance

LEMMA PutKeeps ==
    ASSUME NEW s, StoreInv(s), NEW k \in Key, NEW v \in Value, NEW l \in LeaseId \cup {NoLease},
           NEW t, t = Put(s, k, v, l)
    PROVE  StoreInv(t)
<1> DEFINE kv == NextKv(Row(s.current, k), v, l, s.rev + 1)
           old == Row(s.current, k).lease
<1>1. IsStore(s) /\ Leased(s) /\ Owned(s)
  BY DEF StoreInv, Typed
<1>2. /\ IsStore(t) /\ t.current = Extend(s.current, k, kv)
      /\ t.leases = Reattach(s.leases, k, old, l)
  <2>1. PutForm(s, t, k, v, l)
    BY <1>1, PutIs
  <2>2. QED
    BY <2>1 DEF PutForm
<1>3. kv.lease = l
  BY DEF NextKv
<1> HIDE DEF kv
<1>4. /\ Live(t) = Live(s) \cup {k} /\ t.current[k].lease = l
      /\ \A j \in Live(s) : j # k => t.current[j] = s.current[j]
  BY <1>2, <1>3 DEF Extend, Live
<1>5. k \in Live(s) => old = s.current[k].lease
  BY DEF Row, Live
<1> HIDE DEF old
<1>6. \A id \in DOMAIN s.leases : s.leases[id] \in Lease
  BY <1>1 DEF Leased
<1>7. Reattached(s.leases, t.leases, k, old, l)
  BY <1>2, <1>6, ReattachIs
<1>8. Leased(t)
  BY <1>1, <1>7 DEF Leased, Reattached
<1>9. Owned(t)
  BY <1>1, <1>4, <1>5, <1>7 DEF Owned, Reattached
<1>10. QED
  BY <1>2, <1>8, <1>9, PutAdvances, AdvanceKeeps

LEMMA RemoveAdvances ==
    ASSUME NEW s, StoreInv(s), NEW D, D \subseteq Live(s), NEW last,
           NEW t, t = RemoveKeys(s, D, s.rev + 1, last)
    PROVE  Advance(s, t, D)
<1> DEFINE e == [key |-> last, type |-> "delete", kv |-> Tombstone(s.current[last], s.rev + 1)]
<1>1. IsStore(s) /\ Counted(s) /\ Dated(s)
  BY DEF StoreInv, Typed
<1>2. /\ t.rev = s.rev + 1 /\ t.compacted = s.compacted /\ t.lost = s.lost
      /\ t.current = Without(s.current, D)
      /\ t.index = [k \in Key |-> IF k \in D THEN Append(s.index[k], t.rev) ELSE s.index[k]]
      /\ t.history = IF D = {} THEN s.history ELSE Extend(s.history, t.rev, e)
      /\ t.past = Append(s.past, t.current)
  <2>1. RemoveForm(s, t, D, s.rev + 1, last)
    BY <1>1, RemoveKeysIs
  <2>2. QED
    BY <2>1 DEF RemoveForm
<1>3. e.type = "delete"
  OBVIOUS
<1> HIDE DEF e
<1>4. D \subseteq Key
  BY <1>1, CurrentRows DEF IsRows, Live
<1>5. Live(t) = Live(s) \ D /\ \A j \in Live(s) \ D : t.current[j] = s.current[j]
  BY <1>2 DEF Without, Restrict, Live
<1>6. \A j \in Key : t.index[j] = IF j \in D THEN Append(s.index[j], t.rev) ELSE s.index[j]
  BY <1>2
<1>7. \A k \in D : Shows(e, Row(t.current, k), t.rev)
  BY <1>3, <1>5 DEF Shows, Row, Live
<1>8. Recorded(s, t, D)
  BY <1>2, <1>7 DEF Recorded
<1>9. QED
  BY <1>2, <1>4, <1>5, <1>6, <1>8 DEF Advance

LEMMA RemoveKeeps ==
    ASSUME NEW s, StoreInv(s), NEW D, D \subseteq Live(s), NEW last,
           NEW t, t = RemoveKeys(s, D, s.rev + 1, last)
    PROVE  StoreInv(t) /\ DOMAIN t.leases = DOMAIN s.leases
<1>1. IsStore(s) /\ Leased(s) /\ Owned(s)
  BY DEF StoreInv, Typed
<1>2. /\ IsStore(t) /\ t.current = Without(s.current, D)
      /\ t.leases = DetachKeys(s.leases, D, s.current)
  <2>1. RemoveForm(s, t, D, s.rev + 1, last)
    BY <1>1, RemoveKeysIs
  <2>2. QED
    BY <2>1 DEF RemoveForm
<1>3. Live(t) = Live(s) \ D /\ \A j \in Live(s) \ D : t.current[j] = s.current[j]
  BY <1>2 DEF Without, Restrict, Live
<1>4. \A id \in DOMAIN s.leases : s.leases[id] \in Lease
  BY <1>1 DEF Leased
<1>5. Detached(s.leases, t.leases, D, s.current)
  BY <1>2, <1>4, DetachKeysIs
<1>6. Leased(t)
  BY <1>1, <1>5 DEF Leased, Detached
<1>7. Owned(t)
  BY <1>1, <1>3, <1>5 DEF Owned, Detached
<1>8. QED
  BY <1>2, <1>5, <1>6, <1>7, RemoveAdvances, AdvanceKeeps DEF Detached

\* A set of numbers that is not empty has a least one.
LEMMA LeastIs ==
    ASSUME NEW T, T \subseteq Nat, T # {}
    PROVE  \E m \in T : \A n \in T : m <= n
<1> DEFINE Less == {p \in Nat \X Nat : p[1] < p[2]}
<1>1. IsWellFoundedOn(Less, Nat)
  BY NatLessThanWellFounded, Zenon DEF OpToRel
<1> HIDE DEF Less
<1>2. PICK m \in T : \A n \in T : ~(<<n, m>> \in Less)
  BY <1>1, WFMin
<1>3. \A n \in T : ~(n < m)
  BY <1>2 DEF Less
<1>4. QED
  BY <1>3

\* Of the numbers in X that are not above r there is a greatest.
LEMMA GreatestIs ==
    ASSUME NEW X, X \subseteq Nat, NEW r \in Nat, NEW z \in X, z <= r
    PROVE  \E x \in X : x <= r /\ ~Newer(X, x, r)
<1> DEFINE T == {n \in Nat : n <= r /\ r - n \in X}
<1>1. r - z \in T /\ T \subseteq Nat
  OBVIOUS
<1> HIDE DEF T
<1>2. PICK m \in T : \A n \in T : m <= n
  BY <1>1, LeastIs
<1>3. m \in Nat /\ m <= r /\ r - m \in X /\ r - m <= r
  BY <1>2 DEF T
<1>4. ASSUME NEW y \in X, y <= r, y > r - m PROVE FALSE
  <2>1. y \in Nat
    BY <1>4
  <2>2. r - y \in Nat /\ r - y <= r /\ r - (r - y) = y /\ r - y < m
    BY <1>3, <1>4, <2>1
  <2>3. r - y \in T
    BY <1>4, <2>2 DEF T
  <2>4. QED
    BY <1>2, <1>3, <2>2, <2>3
<1>5. QED
  BY <1>3, <1>4 DEF Newer

\* What does not depend on index, history and leases stays with the past.
LEMMA SameTime ==
    ASSUME NEW s, NEW t, t.rev = s.rev, t.current = s.current, t.past = s.past
    PROVE  (Dated(s) => Dated(t)) /\ (Lives(s) => Lives(t))
BY DEF Dated, Lives, LifeTold, Puts, Live

\* Leases come, go and are renewed: with the keys they had, or none.
LEMMA LeasesKeep ==
    ASSUME NEW s, StoreInv(s), NEW t, NEW f, NEW n, LeasesForm(s, t, f, n), Leased(t),
           \A id \in DOMAIN f : \/ ToSet(f[id].keys) = {}
                                \/ id \in DOMAIN s.leases /\ f[id].keys = s.leases[id].keys
    PROVE  StoreInv(t)
<1>1. IsStore(s) /\ Counted(s) /\ Dated(s) /\ Listed(s) /\ Owned(s) /\ Lives(s) /\ Indexed(s)
  BY DEF StoreInv, Typed
<1>2. /\ IsStore(t) /\ t.leases = f
      /\ t.rev = s.rev /\ t.compacted = s.compacted /\ t.lost = s.lost
      /\ t.current = s.current /\ t.history = s.history
      /\ t.index = s.index /\ t.past = s.past
  BY DEF LeasesForm
<1>3. Dated(t) /\ Lives(t)
  BY <1>1, <1>2, SameTime
<1>4. Counted(t) /\ Listed(t)
  BY <1>1, <1>2 DEF Counted, Listed
<1>5. Indexed(t)
  BY <1>1, <1>2 DEF Indexed, Told, Old
<1>6. Owned(t)
  BY <1>1, <1>2 DEF Owned, Live
<1>7. QED
  BY <1>2, <1>3, <1>4, <1>5, <1>6 DEF StoreInv, Typed

LEMMA LeasesOnly ==
    ASSUME NEW s, IsStore(s), NEW f, NEW t, t = [s EXCEPT !.leases = f]
    PROVE  LeasesForm(s, t, f, s.nextLease)
<1>1. t = [rev |-> s.rev, current |-> s.current, index |-> s.index, history |-> s.history,
           compacted |-> s.compacted, leases |-> f, nextLease |-> s.nextLease, past |-> s.past,
           lost |-> s.lost]
  BY DEF IsStore
<1>2. QED
  BY <1>1 DEF LeasesForm, IsStore

LEMMA GrantLeases ==
    ASSUME NEW s, StoreInv(s), NEW id \in LeaseId, NEW e, e \in Lease, e.keys = <<>>,
           NEW f, f = Extend(s.leases, id, e), NEW t, NEW n, LeasesForm(s, t, f, n)
    PROVE  StoreInv(t)
<1>1. Leased(s)
  BY DEF StoreInv, Typed
<1>2. /\ DOMAIN f = DOMAIN s.leases \cup {id} /\ f[id] = e
      /\ \A i \in DOMAIN s.leases : i # id => f[i] = s.leases[i]
  BY DEF Extend
<1>3. IsFiniteSet(DOMAIN f)
  BY <1>1, <1>2, FS_AddElement DEF Leased
<1>4. \A i \in DOMAIN f : f[i] \in Lease
  BY <1>1, <1>2 DEF Leased
<1>5. t.leases = f
  BY DEF LeasesForm
<1>6. Leased(t)
  BY <1>1, <1>2, <1>3, <1>4, <1>5 DEF Leased
<1>7. ToSet(<<>>) = {}
  BY DEF ToSet
<1>8. \A i \in DOMAIN f : \/ ToSet(f[i].keys) = {}
                          \/ i \in DOMAIN s.leases /\ f[i].keys = s.leases[i].keys
  BY <1>2, <1>7
<1>9. QED
  BY <1>6, <1>8, LeasesKeep

LEMMA RevokeStarts ==
    ASSUME NEW s, StoreInv(s), NEW id, NEW t, t = [s EXCEPT !.leases = Without(@, {id})]
    PROVE  StoreInv(t) /\ DOMAIN t.leases = DOMAIN s.leases \ {id}
<1> DEFINE f == Without(s.leases, {id})
<1>1. IsStore(s) /\ Leased(s)
  BY DEF StoreInv, Typed
<1>2. LeasesForm(s, t, f, s.nextLease)
  <2>1. t = [s EXCEPT !.leases = f]
    OBVIOUS
  <2> HIDE DEF f
  <2>2. QED
    BY <1>1, <2>1, LeasesOnly
<1>3. DOMAIN f = DOMAIN s.leases \ {id} /\ \A i \in DOMAIN f : f[i] = s.leases[i]
  BY DEF Without, Restrict
<1> HIDE DEF f
<1>4. IsFiniteSet(DOMAIN f)
  BY <1>1, <1>3, FS_RemoveElement DEF Leased
<1>5. t.leases = f
  BY <1>2 DEF LeasesForm
<1>6. Leased(t)
  BY <1>1, <1>3, <1>4, <1>5 DEF Leased
<1>7. \A i \in DOMAIN f : i \in DOMAIN s.leases /\ f[i].keys = s.leases[i].keys
  BY <1>3
<1>8. StoreInv(t)
  BY <1>2, <1>6, <1>7, LeasesKeep
<1>9. QED
  BY <1>3, <1>5, <1>8

LEMMA KeepAliveKeeps ==
    ASSUME NEW s, StoreInv(s), NEW id \in DOMAIN s.leases, NEW n \in Nat,
           NEW t, t = [s EXCEPT !.leases[id].granted = n]
    PROVE  StoreInv(t)
<1> DEFINE e == [s.leases[id] EXCEPT !.granted = n]
           f == [s.leases EXCEPT ![id] = e]
<1>1. IsStore(s) /\ Leased(s)
  BY DEF StoreInv, Typed
<1>2. s.leases[id] \in Lease
  BY <1>1 DEF Leased
<1>3. e \in Lease /\ e.keys = s.leases[id].keys
  BY <1>2 DEF Lease
<1>4. t = [s EXCEPT !.leases = f]
  OBVIOUS
<1> HIDE DEF e
<1>5. DOMAIN f = DOMAIN s.leases /\ \A i \in DOMAIN f : f[i] = IF i = id THEN e ELSE s.leases[i]
  OBVIOUS
<1> HIDE DEF f
<1>6. LeasesForm(s, t, f, s.nextLease)
  BY <1>1, <1>4, LeasesOnly
<1>7. t.leases = f
  BY <1>6 DEF LeasesForm
<1>8. Leased(t)
  BY <1>1, <1>3, <1>5, <1>7 DEF Leased
<1>9. \A i \in DOMAIN f : i \in DOMAIN s.leases /\ f[i].keys = s.leases[i].keys
  BY <1>3, <1>5
<1>10. QED
  BY <1>6, <1>8, <1>9, LeasesKeep

\* Compaction: the rows it drops are of pairs older than it.
LEMMA CompactKeeps ==
    ASSUME NEW s, StoreInv(s), NEW r \in Nat, NEW t, t = DropHistory(s, r)
    PROVE  StoreInv(t) /\ t.lost >= r /\ DropForm(s, t, r)
<1>1. /\ IsStore(s) /\ Counted(s) /\ Dated(s) /\ Listed(s) /\ Leased(s)
      /\ Owned(s) /\ Lives(s) /\ Indexed(s)
  BY DEF StoreInv, Typed
<1>2. DropForm(s, t, r)
  BY <1>1, DropHistoryIs
<1>3. /\ IsStore(t) /\ t.rev = s.rev /\ t.compacted = r
      /\ t.current = s.current /\ t.index = s.index /\ t.leases = s.leases /\ t.past = s.past
  BY <1>2 DEF DropForm
<1>4. t.lost \in Nat /\ t.lost >= r /\ t.lost >= s.lost /\ s.lost \in Nat
  BY <1>1, <1>2 DEF DropForm, Counted
<1>5. /\ \A x \in DOMAIN t.history : x \in DOMAIN s.history /\ t.history[x] = s.history[x]
      /\ \A x \in DOMAIN s.history : x \in DOMAIN t.history \/ ~(x >= r)
  BY <1>2 DEF DropForm
<1>6. Dated(t) /\ Lives(t)
  BY <1>1, <1>3, SameTime
<1>7. Counted(t) /\ Listed(t) /\ Leased(t) /\ Owned(t)
  BY <1>1, <1>3, <1>4, <1>5 DEF Counted, Listed, Leased, Owned, Live
<1>8. ASSUME NEW k \in Key, NEW x \in 1..s.rev PROVE Told(t, k, x)
  <2> DEFINE X == ToSet(s.index[k])
             row == Row(s.past[x], k)
  <2>1. Told(s, k, x)
    BY <1>1, <1>8 DEF Indexed
  <2>2. \A y \in X : y \in Nat
    <3>1. s.index[k] \in Seq(2..s.rev)
      BY <1>1 DEF Listed
    <3>2. \A i \in DOMAIN s.index[k] : s.index[k][i] \in 2..s.rev
      BY <3>1, ElementIs
    <3>3. QED
      BY <3>2 DEF ToSet
  <2>3. row = Absent \/ row.mod \in Nat
    <3>1. IsRows(s.past[x])
      BY <1>1 DEF Dated
    <3>2. QED
      BY <3>1, RowIs DEF Kv
  <2>4. ToSet(t.index[k]) = X /\ Row(t.past[x], k) = row
    BY <1>3
  <2>5. /\ \A y \in X : y <= x /\ ~Newer(X, y, x) =>
               IF y \in DOMAIN s.history THEN Shows(s.history[y], row, y) ELSE Old(s, row)
        /\ (\A y \in X : y > x) => Old(s, row)
    BY <2>1 DEF Told
  <2> HIDE DEF X, row
  <2>6. Old(s, row) => Old(t, row)
    BY <1>4, <2>3 DEF Old
  <2>7. ASSUME NEW y \in X, y <= x, ~Newer(X, y, x)
        PROVE  IF y \in DOMAIN t.history THEN Shows(t.history[y], row, y) ELSE Old(t, row)
    <3>1. CASE y \in DOMAIN t.history
      BY <1>5, <2>5, <2>7, <3>1
    <3>2. CASE y \notin DOMAIN s.history
      BY <1>5, <2>5, <2>6, <2>7, <3>2
    <3>3. CASE y \in DOMAIN s.history /\ y \notin DOMAIN t.history
      <4>1. y < t.lost
        BY <1>4, <1>5, <2>2, <3>3
      <4>2. row = Absent \/ row.mod = y
        BY <2>5, <2>7, <3>3 DEF Shows
      <4>3. QED
        BY <3>3, <4>1, <4>2 DEF Old
    <3>4. QED
      BY <3>1, <3>2, <3>3
  <2>8. QED
    BY <2>4, <2>5, <2>6, <2>7 DEF Told
<1>9. Indexed(t)
  BY <1>1, <1>3, <1>8 DEF Indexed
<1>10. QED
  BY <1>2, <1>3, <1>4, <1>6, <1>7, <1>9 DEF StoreInv, Typed

\* An index list p that has lost from q only entries that are older than
\* all it keeps and than the compaction.
Pruned(q, p, lost) ==
    /\ p \in Seq(ToSet(q)) /\ Ascending(p)
    /\ \A y \in ToSet(q) : y \in ToSet(p) \/ (y < lost /\ \A x \in ToSet(p) : y < x)

LEMMA PrunedKeeps ==
    ASSUME NEW s, StoreInv(s), NEW f, f = [k \in Key |-> f[k]],
           \A k \in Key : Pruned(s.index[k], f[k], s.lost),
           NEW t, t = [s EXCEPT !.index = f]
    PROVE  StoreInv(t)
<1>1. /\ IsStore(s) /\ Counted(s) /\ Dated(s) /\ Listed(s) /\ Leased(s)
      /\ Owned(s) /\ Lives(s) /\ Indexed(s)
  BY DEF StoreInv, Typed
<1>2. ReindexForm(s, t, f)
  BY <1>1, ReindexIs
<1>3. /\ IsStore(t) /\ t.index = f /\ t.rev = s.rev /\ t.compacted = s.compacted /\ t.lost = s.lost
      /\ t.current = s.current /\ t.history = s.history /\ t.leases = s.leases /\ t.past = s.past
  BY <1>2 DEF ReindexForm
<1>4. Dated(t) /\ Lives(t)
  BY <1>1, <1>3, SameTime
<1>5. Counted(t) /\ Leased(t) /\ Owned(t)
  BY <1>1, <1>3 DEF Counted, Leased, Owned, Live
<1>6. \A k \in Key : ToSet(s.index[k]) \subseteq 2..s.rev
  <2> TAKE k \in Key
  <2>1. s.index[k] \in Seq(2..s.rev)
    BY <1>1 DEF Listed
  <2>2. \A i \in DOMAIN s.index[k] : s.index[k][i] \in 2..s.rev
    BY <2>1, ElementIs
  <2>3. QED
    BY <2>2 DEF ToSet
<1>7. Listed(t)
  <2>1. \A k \in Key : f[k] \in Seq(2..s.rev)
    <3> TAKE k \in Key
    <3>1. f[k] \in Seq(ToSet(s.index[k]))
      BY DEF Pruned
    <3>2. QED
      BY <1>6, <3>1, SeqMonotonic
  <2>2. f \in [Key -> Seq(2..s.rev)]
    BY <2>1
  <2>3. QED
    BY <1>1, <1>3, <2>2 DEF Listed
<1>8. ASSUME NEW k \in Key, NEW r \in 1..s.rev PROVE Told(t, k, r)
  <2> DEFINE X == ToSet(s.index[k])
             Y == ToSet(f[k])
             row == Row(s.past[r], k)
  <2>1. /\ \A y \in X : y <= r /\ ~Newer(X, y, r) =>
               IF y \in DOMAIN s.history THEN Shows(s.history[y], row, y) ELSE Old(s, row)
        /\ (\A y \in X : y > r) => Old(s, row)
    BY <1>1, <1>8 DEF Indexed, Told
  <2>2. f[k] \in Seq(X) /\ \A y \in X : y \in Y \/ (y < s.lost /\ \A x \in Y : y < x)
    BY DEF Pruned
  <2>3. Y \subseteq X
    <3> HIDE DEF X
    <3>1. \A i \in DOMAIN f[k] : f[k][i] \in X
      BY <2>2, ElementIs
    <3>2. QED
      BY <3>1 DEF ToSet
  <2>4. X \subseteq Nat /\ r \in Nat
    BY <1>6
  <2>5. ToSet(t.index[k]) = Y /\ Row(t.past[r], k) = row
    BY <1>3
  <2>6. Old(t, row) <=> Old(s, row)
    BY <1>3 DEF Old
  <2> HIDE DEF X, Y, row
  <2>7. ASSUME NEW y \in Y, y <= r, ~Newer(Y, y, r)
        PROVE  IF y \in DOMAIN t.history THEN Shows(t.history[y], row, y) ELSE Old(t, row)
    <3>1. ~Newer(X, y, r)
      <4> SUFFICES ASSUME NEW z \in X, z <= r, z > y PROVE FALSE
        BY DEF Newer
      <4>1. z \notin Y
        BY <2>7 DEF Newer
      <4>2. z < y
        BY <2>2, <2>7, <4>1
      <4>3. QED
        BY <2>3, <2>4, <2>7, <4>2
    <3>2. y \in X
      BY <2>3, <2>7
    <3>3. QED
      BY <1>3, <2>1, <2>6, <2>7, <3>1, <3>2
  <2>8. ASSUME \A y \in Y : y > r PROVE Old(t, row)
    <3>1. CASE \A y \in X : y > r
      BY <2>1, <2>6, <3>1
    <3>2. CASE \E y \in X : ~(y > r)
      <4>1. PICK z \in X : z <= r
        BY <2>4, <3>2
      <4>2. PICK x \in X : x <= r /\ ~Newer(X, x, r)
        BY <2>4, <4>1, GreatestIs
      <4>3. x < s.lost
        <5>1. x \notin Y
          BY <2>4, <2>8, <4>2
        <5>2. QED
          BY <2>2, <5>1
      <4>4. IF x \in DOMAIN s.history THEN Shows(s.history[x], row, x) ELSE Old(s, row)
        BY <2>1, <4>2
      <4>5. Old(s, row)
        BY <4>3, <4>4 DEF Shows, Old
      <4>6. QED
        BY <2>6, <4>5
    <3>3. QED
      BY <3>1, <3>2
  <2>9. QED
    BY <2>5, <2>7, <2>8 DEF Told
<1>9. Indexed(t)
  <2>1. \A k \in Key : Ascending(t.index[k])
    BY <1>3 DEF Pruned
  <2>2. QED
    BY <1>3, <1>8, <2>1 DEF Indexed
<1>10. QED
  BY <1>3, <1>4, <1>5, <1>7, <1>9 DEF StoreInv, Typed

\* The entries not above r of an ascending list are its first ones.
LEMMA SplitIs ==
    ASSUME NEW q \in Seq(Nat), Ascending(q), NEW r \in Nat
    PROVE  \E m \in 0..Len(q) : {i \in DOMAIN q : q[i] <= r} = 1..m
<1> DEFINE I == {i \in DOMAIN q : q[i] <= r}
<1>1. DOMAIN q = 1..Len(q) /\ Len(q) \in Nat /\ \A i \in 1..Len(q) : q[i] \in Nat
  OBVIOUS
<1>2. CASE I = {}
  <2>1. 0 \in 0..Len(q) /\ 1..0 = {}
    BY <1>1
  <2>2. QED
    BY <1>2, <2>1
<1>3. CASE I # {}
  <2>1. I \subseteq Nat /\ \A i \in I : i <= Len(q)
    BY <1>1
  <2>2. PICK z \in I : z <= Len(q)
    BY <1>3, <2>1
  <2>3. \A i, j \in DOMAIN q : j \in I /\ i < j => i \in I
    BY <1>1 DEF Ascending
  <2> HIDE DEF I
  <2>4. PICK m \in I : m <= Len(q) /\ ~Newer(I, m, Len(q))
    BY <1>1, <2>1, <2>2, GreatestIs
  <2>5. m \in 1..Len(q) /\ m \in 0..Len(q)
    BY <1>1, <2>4 DEF I
  <2>6. \A i \in I : i \in 1..m
    <3> TAKE i \in I
    <3>1. i \in 1..Len(q) /\ i <= Len(q) /\ i \in Nat
      BY <1>1 DEF I
    <3>2. ~(i > m)
      BY <2>4, <3>1 DEF Newer
    <3>3. QED
      BY <2>5, <3>1, <3>2
  <2>7. \A i \in 1..m : i \in I
    <3> TAKE i \in 1..m
    <3>1. i \in DOMAIN q /\ (i = m \/ i < m) /\ m \in DOMAIN q
      BY <1>1, <2>5
    <3>2. QED
      BY <2>3, <2>4, <3>1
  <2>8. I = 1..m
    BY <2>6, <2>7
  <2>9. QED
    BY <2>5, <2>8 DEF I
<1>4. QED
  BY <1>2, <1>3

\* compact_v2 keeps the newest entry not above r and all above it.
LEMMA PruneIndexIs ==
    ASSUME NEW q \in Seq(Nat), Ascending(q), NEW r \in Nat, NEW lost \in Nat, r <= lost
    PROVE  Pruned(q, PruneIndex(q, r), lost)
<1>1. /\ DOMAIN q = 1..Len(q) /\ Len(q) \in Nat /\ \A i \in 1..Len(q) : q[i] \in Nat
      /\ q \in Seq(ToSet(q)) /\ \A i \in 1..Len(q) : q[i] \in ToSet(q)
  <2>1. DOMAIN q = 1..Len(q) /\ Len(q) \in Nat /\ \A i \in 1..Len(q) : q[i] \in Nat
    OBVIOUS
  <2>2. \A i \in 1..Len(q) : q[i] \in ToSet(q)
    BY <2>1 DEF ToSet
  <2>3. q \in Seq(ToSet(q))
    BY <2>1, <2>2, SeqDef, LenProperties
  <2>4. QED
    BY <2>1, <2>2, <2>3
<1>2. PICK m \in 0..Len(q) : {i \in DOMAIN q : q[i] <= r} = 1..m
  BY SplitIs
<1>3. Cardinality({i \in DOMAIN q : q[i] <= r}) = m
  <2>1. m \in Nat /\ 1 \in Int /\ m \in Int
    BY <1>1
  <2>2. Cardinality(1..m) = IF 1 > m THEN 0 ELSE m - 1 + 1
    BY <2>1, FS_Interval
  <2>3. Cardinality(1..m) = m
    BY <2>1, <2>2
  <2>4. QED
    BY <1>2, <2>3, Zenon
<1>4. PruneIndex(q, r) = IF m <= 1 THEN q ELSE SubSeq(q, m, Len(q))
  BY <1>3 DEF PruneIndex
<1>5. CASE m <= 1
  BY <1>1, <1>4, <1>5 DEF Pruned
<1>6. CASE ~(m <= 1)
  <2> DEFINE n == Len(q)
             p == SubSeq(q, m, n)
  <2>1. m \in 2..n /\ m \in Int /\ n \in Int /\ m <= n /\ n - m + 1 \in Nat
    BY <1>1, <1>6
  <2>2. \A i \in m..n : q[i] \in ToSet(q)
    BY <1>1, <2>1
  <2>3. /\ p \in Seq(ToSet(q)) /\ Len(p) = n - m + 1
        /\ \A i \in 1..(n - m + 1) : p[i] = q[m + i - 1]
    BY <2>1, <2>2, SubSeqProperties
  <2>4. DOMAIN p = 1..(n - m + 1)
    BY <2>3, LenProperties
  <2>5. PruneIndex(q, r) = p
    BY <1>4, <1>6
  <2>6. n = Len(q)
    OBVIOUS
  <2> HIDE DEF n, p
  <2>7. \A i \in DOMAIN p : m + i - 1 \in m..n /\ m + i - 1 \in DOMAIN q
    BY <1>1, <2>1, <2>4, <2>6
  <2>8. Ascending(p)
    <3> SUFFICES ASSUME NEW i \in DOMAIN p, NEW j \in DOMAIN p, i < j PROVE p[i] < p[j]
      BY DEF Ascending
    <3>1. m + i - 1 < m + j - 1
      BY <2>1, <2>4
    <3>2. q[m + i - 1] < q[m + j - 1]
      BY <2>7, <3>1 DEF Ascending
    <3>3. QED
      BY <2>3, <2>4, <3>2
  <2>9. \A j \in m..n : q[j] \in ToSet(p)
    <3> TAKE j \in m..n
    <3>1. j - m + 1 \in DOMAIN p /\ m + (j - m + 1) - 1 = j
      BY <2>1, <2>4
    <3>2. p[j - m + 1] = q[j]
      BY <2>3, <2>4, <3>1
    <3>3. QED
      BY <3>1, <3>2 DEF ToSet
  <2>10. \A x \in ToSet(p) : \E j \in m..n : x = q[j]
    BY <2>3, <2>4, <2>7 DEF ToSet
  <2>11. q[m] <= r /\ m \in DOMAIN q
    BY <1>1, <1>2, <2>1, <2>6
  <2>12. ASSUME NEW y \in ToSet(q), y \notin ToSet(p)
         PROVE  y < lost /\ \A x \in ToSet(p) : y < x
    <3>1. PICK i \in DOMAIN q : y = q[i]
      BY <2>12 DEF ToSet
    <3>2. i \in Nat /\ i < m
      BY <1>1, <2>1, <2>6, <2>9, <2>12, <3>1
    <3>3. \A j \in m..n : j \in DOMAIN q /\ i < j
      BY <1>1, <2>1, <2>6, <3>2
    <3>4. \A j \in m..n : y < q[j]
      BY <3>1, <3>3 DEF Ascending
    <3>5. y < q[m] /\ q[m] \in Nat /\ y \in Nat
      BY <1>1, <2>1, <2>6, <2>11, <3>1, <3>4
    <3>6. y < lost
      BY <2>11, <3>5
    <3>7. QED
      BY <2>10, <3>4, <3>6
  <2>13. QED
    BY <2>3, <2>5, <2>8, <2>12 DEF Pruned
<1>7. QED
  BY <1>5, <1>6

\* defragment drops the entries below the compaction.
LEMMA DefragmentIs ==
    ASSUME NEW q \in Seq(Nat), Ascending(q), NEW c \in Nat, NEW lost \in Nat, c <= lost
    PROVE  Pruned(q, Dropping(q, 0..(c - 1)), lost)
<1> DEFINE D == 0..(c - 1)
<1>1. DOMAIN q = 1..Len(q) /\ Len(q) \in Nat /\ \A i \in 1..Len(q) : q[i] \in Nat
  OBVIOUS
<1>2. \A i \in 1..Len(q) : q[i] \in ToSet(q)
  BY <1>1 DEF ToSet
<1>3. q \in Seq(ToSet(q))
  BY <1>1, <1>2, SeqDef, LenProperties
<1>4. \A x \in ToSet(q) : x \in Nat
  BY <1>1 DEF ToSet
<1> HIDE DEF D
<1>5. Dropping(q, D) \in Seq(ToSet(q)) /\ ToSet(Dropping(q, D)) = ToSet(q) \ D
  BY <1>3, DroppingKeeps
<1>6. Ascending(Dropping(q, D))
  BY DroppingSorted
<1>7. /\ \A y \in D : y \in Nat /\ y < c
      /\ \A x \in Nat : x \notin D => x >= c
  BY DEF D
<1>8. \A y \in ToSet(q) : y \in ToSet(Dropping(q, D))
                          \/ (y < lost /\ \A x \in ToSet(Dropping(q, D)) : y < x)
  BY <1>4, <1>5, <1>7
<1>9. QED
  BY <1>5, <1>6, <1>8 DEF Pruned, D

\* The index lists of a store are ascending lists of numbers.
LEMMA IndexIs ==
    ASSUME NEW s, StoreInv(s), NEW k \in Key
    PROVE  s.index[k] \in Seq(Nat) /\ Ascending(s.index[k])
<1>1. s.index[k] \in Seq(2..s.rev) /\ Ascending(s.index[k]) /\ s.rev \in Nat
  BY DEF StoreInv, Typed, Listed, Counted, Indexed
<1>2. 2..s.rev \subseteq Nat
  BY <1>1
<1>3. QED
  BY <1>1, <1>2, SeqMonotonic

LEMMA CompactV2Keeps ==
    ASSUME NEW s, StoreInv(s), NEW r \in Nat, NEW t, t = CompactV2(s, r)
    PROVE  StoreInv(t) /\ t.rev = s.rev /\ t.compacted = r
<1> DEFINE u == DropHistory(s, r)
           f == [k \in Key |-> PruneIndex(u.index[k], r)]
<1>1. t = [u EXCEPT !.index = f]
  BY DEF CompactV2
<1>2. StoreInv(u) /\ u.lost >= r /\ DropForm(s, u, r)
  BY CompactKeeps
<1> HIDE DEF u
<1>3. u.lost \in Nat /\ IsStore(u)
  BY <1>2 DEF StoreInv, Typed, Counted
<1>4. \A k \in Key : Pruned(u.index[k], f[k], u.lost)
  <2> TAKE k \in Key
  <2>1. u.index[k] \in Seq(Nat) /\ Ascending(u.index[k])
    BY <1>2, IndexIs
  <2>2. Pruned(u.index[k], PruneIndex(u.index[k], r), u.lost)
    BY <1>2, <1>3, <2>1, PruneIndexIs
  <2>3. QED
    BY <2>2
<1>5. f = [k \in Key |-> f[k]]
  OBVIOUS
<1> HIDE DEF f
<1>6. StoreInv(t)
  BY <1>1, <1>2, <1>4, <1>5, PrunedKeeps
<1>7. ReindexForm(u, t, f)
  BY <1>1, <1>3, <1>5, ReindexIs
<1>8. QED
  BY <1>2, <1>6, <1>7 DEF ReindexForm, DropForm

LEMMA DefragmentKeeps ==
    ASSUME NEW s, StoreInv(s), NEW t, t = Defragment(s)
    PROVE  StoreInv(t) /\ t.rev = s.rev /\ t.compacted = s.compacted
<1> DEFINE f == [k \in Key |-> Dropping(s.index[k], 0..(s.compacted - 1))]
<1>1. t = [s EXCEPT !.index = f]
  BY DEF Defragment
<1>2. s.lost \in Nat /\ s.compacted \in Nat /\ s.compacted <= s.lost /\ IsStore(s)
  BY DEF StoreInv, Typed, Counted
<1>3. \A k \in Key : Pruned(s.index[k], f[k], s.lost)
  <2> TAKE k \in Key
  <2>1. s.index[k] \in Seq(Nat) /\ Ascending(s.index[k])
    BY IndexIs
  <2>2. Pruned(s.index[k], Dropping(s.index[k], 0..(s.compacted - 1)), s.lost)
    BY <1>2, <2>1, DefragmentIs
  <2>3. QED
    BY <2>2
<1>4. f = [k \in Key |-> f[k]]
  OBVIOUS
<1> HIDE DEF f
<1>5. StoreInv(t)
  BY <1>1, <1>3, <1>4, PrunedKeeps
<1>6. ReindexForm(s, t, f)
  BY <1>1, <1>2, <1>4, ReindexIs
<1>7. QED
  BY <1>5, <1>6 DEF ReindexForm

\* Writes go on from where the store is: a revision is taken for whatever
\* changes, and what is compacted stays so.
Onward(s, t) ==
    /\ t.compacted = s.compacted /\ s.rev <= t.rev
    /\ t.rev = s.rev => t.current = s.current /\ t.index = s.index

LEMMA OnwardGoesOn ==
    ASSUME NEW s, StoreInv(s), NEW t, StoreInv(t), NEW u, StoreInv(u), Onward(s, t), Onward(t, u)
    PROVE  Onward(s, u)
<1>1. s.rev \in Nat /\ t.rev \in Nat /\ u.rev \in Nat
  BY DEF StoreInv, Typed, Counted
<1>2. s.rev <= t.rev /\ t.rev <= u.rev /\ s.rev <= u.rev
  BY <1>1 DEF Onward
<1>3. u.rev = s.rev => t.rev = s.rev /\ u.rev = t.rev
  BY <1>1, <1>2
<1>4. QED
  BY <1>2, <1>3 DEF Onward

LEMMA OnwardFrom ==
    ASSUME NEW s, StoreInv(s), NEW t, NEW D, Advance(s, t, D)
    PROVE  Onward(s, t)
<1>1. s.rev \in Nat /\ t.rev = s.rev + 1 /\ t.compacted = s.compacted
  BY DEF StoreInv, Typed, Counted, Advance
<1>2. s.rev <= t.rev /\ t.rev # s.rev
  BY <1>1
<1>3. QED
  BY <1>1, <1>2 DEF Onward

LEMMA OnwardSame ==
    ASSUME NEW s, StoreInv(s), NEW t, t.compacted = s.compacted, t.rev = s.rev,
           t.current = s.current, t.index = s.index
    PROVE  Onward(s, t)
<1>1. s.rev \in Nat
  BY DEF StoreInv, Typed, Counted
<1>2. s.rev <= t.rev
  BY <1>1
<1>3. QED
  BY <1>2 DEF Onward

LEMMA PutStays ==
    ASSUME NEW s, StoreInv(s), NEW k \in Key, NEW v \in Value, NEW l \in LeaseId \cup {NoLease},
           NEW t, t = Put(s, k, v, l)
    PROVE  StoreInv(t) /\ Onward(s, t)
BY PutAdvances, PutKeeps, OnwardFrom

LEMMA RemoveStays ==
    ASSUME NEW s, StoreInv(s), NEW D, D \subseteq Live(s), NEW last,
           NEW t, t = RemoveKeys(s, D, s.rev + 1, last)
    PROVE  StoreInv(t) /\ Onward(s, t) /\ DOMAIN t.leases = DOMAIN s.leases
BY RemoveAdvances, RemoveKeeps, OnwardFrom

LEMMA DeleteRangeKeeps ==
    ASSUME NEW s, StoreInv(s), NEW from, NEW end, NEW last,
           NEW t, t = DeleteRange(s, from, end, last)
    PROVE  StoreInv(t) /\ Onward(s, t)
<1> DEFINE D == {k \in Live(s) : InRange(k, from, end)}
<1>1. t = RemoveKeys(s, D, s.rev + 1, last) /\ D \subseteq Live(s)
  BY DEF DeleteRange
<1> HIDE DEF D
<1>2. QED
  BY <1>1, RemoveStays

LEMMA RunOpKeeps ==
    ASSUME NEW s, StoreInv(s), NEW op \in TxnOp, NEW t, t = RunOp(s, op)
    PROVE  StoreInv(t) /\ Onward(s, t)
<1>1. CASE op.op = "put"
  <2>1. op.key \in Key /\ op.val \in Value /\ op.lease \in LeaseId \cup {NoLease}
    BY <1>1 DEF TxnOp
  <2>2. t = Put(s, op.key, op.val, op.lease)
    BY <1>1 DEF RunOp
  <2>3. QED
    BY <2>1, <2>2, PutStays
<1>2. CASE op.op # "put"
  <2>1. \E last : t = DeleteRange(s, op.key, op.end, last)
    BY <1>2 DEF RunOp
  <2>2. QED
    BY <2>1, DeleteRangeKeeps
<1>3. QED
  BY <1>1, <1>2

LEMMA RunOpsKeep ==
    ASSUME NEW s, StoreInv(s), NEW ops \in Seq(TxnOp), NEW t, t = RunOps(s, ops)
    PROVE  StoreInv(t) /\ Onward(s, t)
<1>1. Len(ops) \in Nat /\ \A i \in 1..Len(ops) : ops[i] \in TxnOp
  BY ElementIs
<1>2. PICK h : Runs(h, s, ops) /\ t = h[Len(ops)]
  BY <1>1, RunOpsTrace
<1> DEFINE S == {i \in 0..Len(ops) : StoreInv(h[i]) /\ Onward(s, h[i])}
<1>3. 0 \in S
  BY <1>1, <1>2, OnwardSame DEF Runs
<1>4. ASSUME NEW i \in 0..Len(ops), i + 1 \in 0..Len(ops), i \in S PROVE i + 1 \in S
  <2>1. i + 1 \in 1..Len(ops) /\ (i + 1) - 1 = i
    BY <1>1, <1>4
  <2>2. h[i + 1] = RunOp(h[i], ops[i + 1])
    BY <1>2, <2>1 DEF Runs
  <2>3. StoreInv(h[i + 1]) /\ Onward(h[i], h[i + 1])
    BY <1>1, <1>4, <2>1, <2>2, RunOpKeeps
  <2>4. QED
    BY <1>4, <2>3, OnwardGoesOn
<1> HIDE DEF S
<1>5. \A i \in 0..Len(ops) : i \in S
  BY <1>1, <1>3, <1>4, Induct
<1>6. Len(ops) \in S
  BY <1>1, <1>5
<1>7. QED
  BY <1>2, <1>6 DEF S

LEMMA TxnKeeps ==
    ASSUME NEW s, StoreInv(s), NEW x, {x.success, x.failure} \subseteq Seq(TxnOp),
           NEW t, t = Txn(s, x)
    PROVE  StoreInv(t) /\ Onward(s, t)
<1> DEFINE ops == IF Succeeds(s, x.compares) THEN x.success ELSE x.failure
<1>1. t = RunOps(s, ops)
  BY DEF Txn
<1>2. ops \in Seq(TxnOp)
  OBVIOUS
<1> HIDE DEF ops
<1>3. QED
  BY <1>1, <1>2, RunOpsKeep

\* One key of a revoked lease, all of them, the revoke.
LEMMA RevokeKeyKeeps ==
    ASSUME NEW s, StoreInv(s), NEW k, NEW t, t = RevokeKey(s, k)
    PROVE  StoreInv(t) /\ Onward(s, t) /\ DOMAIN t.leases = DOMAIN s.leases
<1>1. CASE k \in Live(s)
  <2>1. t = RemoveKeys(s, {k}, s.rev + 1, k) /\ {k} \subseteq Live(s)
    BY <1>1 DEF RevokeKey
  <2>2. QED
    BY <2>1, RemoveStays
<1>2. CASE k \notin Live(s)
  BY <1>2, OnwardSame DEF RevokeKey
<1>3. QED
  BY <1>1, <1>2

LEMMA RevokeKeysKeep ==
    ASSUME NEW s, StoreInv(s), NEW keys, Len(keys) \in Nat, NEW t, t = RevokeKeys(s, keys)
    PROVE  StoreInv(t) /\ Onward(s, t) /\ DOMAIN t.leases = DOMAIN s.leases
<1>1. PICK h : Removals(h, s, keys) /\ t = h[Len(keys)]
  BY RevokeKeysTrace
<1> DEFINE S == {i \in 0..Len(keys) : /\ StoreInv(h[i]) /\ Onward(s, h[i])
                                      /\ DOMAIN h[i].leases = DOMAIN s.leases}
<1>2. 0 \in S
  BY <1>1, OnwardSame DEF Removals
<1>3. ASSUME NEW i \in 0..Len(keys), i + 1 \in 0..Len(keys), i \in S PROVE i + 1 \in S
  <2>1. i + 1 \in 1..Len(keys) /\ (i + 1) - 1 = i
    BY <1>3
  <2>2. h[i + 1] = RevokeKey(h[i], keys[i + 1])
    BY <1>1, <2>1 DEF Removals
  <2>3. /\ StoreInv(h[i + 1]) /\ Onward(h[i], h[i + 1])
        /\ DOMAIN h[i + 1].leases = DOMAIN h[i].leases
    BY <1>3, <2>2, RevokeKeyKeeps
  <2>4. QED
    BY <1>3, <2>3, OnwardGoesOn
<1> HIDE DEF S
<1>4. \A i \in 0..Len(keys) : i \in S
  BY <1>2, <1>3, Induct
<1>5. Len(keys) \in S
  BY <1>4
<1>6. QED
  BY <1>1, <1>5 DEF S

LEMMA LeaseRevokeKeeps ==
    ASSUME NEW s, StoreInv(s), NEW id \in DOMAIN s.leases, NEW t, t = LeaseRevoke(s, id)
    PROVE  StoreInv(t) /\ Onward(s, t) /\ DOMAIN t.leases = DOMAIN s.leases \ {id}
<1> DEFINE u == [s EXCEPT !.leases = Without(@, {id})]
           keys == s.leases[id].keys
<1>1. t = RevokeKeys(u, keys)
  BY DEF LeaseRevoke
<1>2. Len(keys) \in Nat
  <2>1. s.leases[id] \in Lease
    BY DEF StoreInv, Typed, Leased
  <2>2. keys \in Seq(Key)
    BY <2>1 DEF Lease
  <2>3. QED
    BY <2>2
<1>3. StoreInv(u) /\ DOMAIN u.leases = DOMAIN s.leases \ {id}
  BY RevokeStarts
<1>4. /\ u.compacted = s.compacted /\ u.rev = s.rev
      /\ u.current = s.current /\ u.index = s.index
  BY DEF StoreInv, Typed, IsStore
<1> HIDE DEF u, keys
<1>5. StoreInv(t) /\ Onward(u, t) /\ DOMAIN t.leases = DOMAIN u.leases
  BY <1>1, <1>2, <1>3, RevokeKeysKeep
<1>6. Onward(s, u)
  BY <1>4, OnwardSame
<1>7. QED
  BY <1>3, <1>5, <1>6, OnwardGoesOn

\* The expiry task goes through distinct leases: each is still there when
\* its turn comes.
LEMMA RevokeLeasesKeep ==
    ASSUME NEW s, StoreInv(s), NEW ids, Len(ids) \in Nat,
           \A i \in 1..Len(ids) : ids[i] \in DOMAIN s.leases,
           \A i, j \in 1..Len(ids) : i # j => ids[i] # ids[j],
           NEW t, t = RevokeLeases(s, ids)
    PROVE  StoreInv(t) /\ Onward(s, t)
<1>1. PICK h : Revokes(h, s, ids) /\ t = h[Len(ids)]
  BY RevokeLeasesTrace
<1> DEFINE S == {i \in 0..Len(ids) :
                    /\ StoreInv(h[i]) /\ Onward(s, h[i])
                    /\ \A j \in 1..Len(ids) : j > i => ids[j] \in DOMAIN h[i].leases}
<1>2. 0 \in S
  BY <1>1, OnwardSame DEF Revokes
<1>3. ASSUME NEW i \in 0..Len(ids), i + 1 \in 0..Len(ids), i \in S PROVE i + 1 \in S
  <2>1. i + 1 \in 1..Len(ids) /\ (i + 1) - 1 = i /\ i + 1 > i
    BY <1>3
  <2>2. h[i + 1] = LeaseRevoke(h[i], ids[i + 1])
    BY <1>1, <2>1 DEF Revokes
  <2>3. ids[i + 1] \in DOMAIN h[i].leases
    BY <1>3, <2>1
  <2>4. /\ StoreInv(h[i + 1]) /\ Onward(h[i], h[i + 1])
        /\ DOMAIN h[i + 1].leases = DOMAIN h[i].leases \ {ids[i + 1]}
    BY <1>3, <2>2, <2>3, LeaseRevokeKeeps
  <2>5. ASSUME NEW j \in 1..Len(ids), j > i + 1 PROVE ids[j] \in DOMAIN h[i + 1].leases
    <3>1. j > i /\ j # i + 1
      BY <2>5
    <3>2. ids[j] \in DOMAIN h[i].leases /\ ids[j] # ids[i + 1]
      BY <1>3, <2>1, <3>1
    <3>3. QED
      BY <2>4, <3>2
  <2>6. QED
    BY <1>3, <2>4, <2>5, OnwardGoesOn
<1> HIDE DEF S
<1>4. \A i \in 0..Len(ids) : i \in S
  BY <1>2, <1>3, Induct
<1>5. Len(ids) \in S
  BY <1>4
<1>6. QED
  BY <1>1, <1>5 DEF S

LEMMA ExpireKeeps ==
    ASSUME NEW s, StoreInv(s), NEW n, NEW ids \in SetToSeqs(Expired(s, n)),
           NEW t, t = RevokeLeases(s, ids)
    PROVE  StoreInv(t) /\ Onward(s, t)
<1> DEFINE E == Expired(s, n)
           c == Cardinality(E)
<1>1. E \subseteq DOMAIN s.leases
  BY DEF Expired
<1>2. IsFiniteSet(E)
  BY <1>1, FS_Subset DEF StoreInv, Typed, Leased
<1>3. c \in Nat
  BY <1>2, FS_CardinalityType
<1>4. ids \in [1..c -> E] /\ \A i, j \in 1..c : i # j => ids[i] # ids[j]
  BY DEF SetToSeqs
<1> HIDE DEF E, c
<1>5. Len(ids) = c
  BY <1>3, <1>4, LenProperties, SeqDef
<1>6. QED
  BY <1>1, <1>3, <1>4, <1>5, RevokeLeasesKeep

LEMMA GrantKeeps ==
    ASSUME NEW s, StoreInv(s), NEW id \in LeaseId, NEW ttl \in Nat, NEW n \in Nat,
           NEW t, t = LeaseGrant(s, id, ttl, n)
    PROVE  StoreInv(t) /\ Onward(s, t) /\ t.rev = s.rev
<1> DEFINE e == [keys |-> <<>>, ttl |-> ttl, granted |-> n]
           f == Extend(s.leases, id, e)
<1>1. t = [s EXCEPT !.leases = f]
  BY DEF LeaseGrant
<1>2. e \in Lease /\ e.keys = <<>>
  BY DEF Lease
<1>3. IsStore(s)
  BY DEF StoreInv, Typed
<1> HIDE DEF e
<1>4. f = Extend(s.leases, id, e)
  OBVIOUS
<1> HIDE DEF f
<1>5. LeasesForm(s, t, f, s.nextLease)
  BY <1>1, <1>3, LeasesOnly
<1>6. StoreInv(t)
  BY <1>2, <1>4, <1>5, GrantLeases
<1>7. QED
  BY <1>5, <1>6, OnwardSame DEF LeasesForm

LEMMA CountKeeps ==
    ASSUME NEW s, StoreInv(s), NEW n, NEW t, t = [s EXCEPT !.nextLease = n]
    PROVE  StoreInv(t) /\ Onward(s, t) /\ t.rev = s.rev
<1>1. IsStore(s) /\ Leased(s)
  BY DEF StoreInv, Typed
<1>2. t = [rev |-> s.rev, current |-> s.current, index |-> s.index, history |-> s.history,
           compacted |-> s.compacted, leases |-> s.leases, nextLease |-> n, past |-> s.past,
           lost |-> s.lost]
  BY <1>1 DEF IsStore
<1>3. LeasesForm(s, t, s.leases, n)
  BY <1>1, <1>2 DEF LeasesForm, IsStore
<1>4. Leased(t)
  BY <1>1, <1>3 DEF Leased, LeasesForm
<1>5. StoreInv(t)
  BY <1>3, <1>4, LeasesKeep
<1>6. QED
  BY <1>3, <1>5, OnwardSame DEF LeasesForm

\* The invariant of KvStore: the store's, with the bounds of the model.
KvInv ==
    /\ StoreInv(store) /\ store.rev <= MaxRev /\ store.compacted <= MaxRev
    /\ now \in 0..MaxNow

LEMMA FreshKeeps == StoreInv(FreshStore)
<1> DEFINE f == FreshStore
<1>1. /\ f.rev = 1 /\ f.compacted = 0 /\ f.lost = 0 /\ f.past = <<EmptyMap>>
      /\ f.current = EmptyMap /\ f.history = EmptyMap /\ f.leases = EmptyMap
      /\ \A k \in Key : f.index[k] = <<>>
      /\ f.index = [k \in Key |-> <<>>] /\ f.nextLease = 1
  BY DEF FreshStore
<1>2. IsStore(f)
  BY <1>1 DEF IsStore, FreshStore
<1>3. DOMAIN EmptyMap = {}
  BY DEF EmptyMap
<1> HIDE DEF f
<1>4. IsSequence(f.past) /\ Len(f.past) = 1 /\ f.past[1] = EmptyMap
  <2>1. f.past \in Seq({EmptyMap}) /\ Len(f.past) = 1 /\ f.past[1] = EmptyMap
    BY <1>1
  <2>2. QED
    BY <2>1 DEF IsSequence
<1>5. \A r \in 1..f.rev : r = 1
  BY <1>1
<1>6. Counted(f) /\ Dated(f)
  BY <1>1, <1>3, <1>4, <1>5 DEF Counted, Dated, IsRows
<1>7. Listed(f)
  <2>1. <<>> \in Seq(2..f.rev)
    OBVIOUS
  <2>2. f.index \in [Key -> Seq(2..f.rev)]
    BY <1>1, <2>1
  <2>3. QED
    BY <1>1, <1>3, <2>2 DEF Listed
<1>8. Leased(f) /\ Owned(f) /\ Lives(f)
  BY <1>1, <1>3, FS_EmptySet DEF Leased, Owned, Lives, Live
<1>9. Indexed(f)
  <2> SUFFICES ASSUME NEW k \in Key PROVE Ascending(f.index[k]) /\ \A r \in 1..f.rev : Told(f, k, r)
    BY DEF Indexed
  <2>1. f.index[k] = <<>>
    BY <1>1
  <2>2. ToSet(f.index[k]) = {}
    BY <2>1 DEF ToSet
  <2>3. Ascending(f.index[k])
    BY <2>1 DEF Ascending
  <2>4. \A r \in 1..f.rev : Row(f.past[r], k) = Absent
    BY <1>3, <1>4, <1>5 DEF Row
  <2>5. QED
    BY <2>2, <2>3, <2>4 DEF Told, Old
<1>10. QED
  BY <1>2, <1>6, <1>7, <1>8, <1>9 DEF StoreInv, Typed, f

LEMMA KvStarts == KvInit => KvInv
<1> SUFFICES ASSUME KvInit PROVE KvInv
  OBVIOUS
<1>1. store = FreshStore /\ now = 0
  BY DEF KvInit
<1>2. FreshStore.rev = 1 /\ FreshStore.compacted = 0
  BY DEF FreshStore
<1>3. now \in 0..MaxNow /\ store.rev <= MaxRev /\ store.compacted <= MaxRev
  BY <1>1, <1>2, StoreBounds
<1>4. QED
  BY <1>1, <1>3, FreshKeeps DEF KvInv

\* One step of each operation.
LEMMA KvStepKeeps == KvInv /\ [KvNext]_kvVars => KvInv'
<1> SUFFICES ASSUME KvInv, [KvNext]_kvVars PROVE KvInv'
  OBVIOUS
<1>0. /\ StoreInv(store) /\ store.rev <= MaxRev /\ store.compacted <= MaxRev
      /\ now \in 0..MaxNow /\ now \in Nat /\ MaxNow \in Nat /\ MaxRev \in Nat /\ Ttl \in Nat
      /\ IsStore(store)
  BY StoreBounds DEF KvInv, StoreInv, Typed
<1>1. ASSUME NEW k \in Key, NEW v \in Value, NEW l \in LeaseId \cup {NoLease}, DoPut(k, v, l)
      PROVE  KvInv'
  <2>1. store' = Put(store, k, v, l) /\ store'.rev <= MaxRev /\ now' = now
    BY <1>1 DEF DoPut, Bounded
  <2>2. StoreInv(store') /\ Onward(store, store')
    BY <1>0, <2>1, PutStays
  <2>3. QED
    BY <1>0, <2>1, <2>2 DEF KvInv, Onward
<1>2. ASSUME NEW k \in Key, NEW e, DoDeleteRange(k, e) PROVE KvInv'
  <2>1. /\ \E last : store' = DeleteRange(store, k, e, last)
        /\ store'.rev <= MaxRev /\ now' = now
    BY <1>2 DEF DoDeleteRange, Bounded
  <2>2. StoreInv(store') /\ Onward(store, store')
    BY <1>0, <2>1, DeleteRangeKeeps
  <2>3. QED
    BY <1>0, <2>1, <2>2 DEF KvInv, Onward
<1>3. ASSUME NEW t \in Txns, DoTxn(t) PROVE KvInv'
  <2>1. store' = Txn(store, t) /\ store'.rev <= MaxRev /\ now' = now
    BY <1>3 DEF DoTxn, Bounded
  <2>2. {t.success, t.failure} \subseteq Seq(TxnOp)
    BY TxnAssumption
  <2>3. StoreInv(store') /\ Onward(store, store')
    BY <1>0, <2>1, <2>2, TxnKeeps
  <2>4. QED
    BY <1>0, <2>1, <2>3 DEF KvInv, Onward
<1>4. CASE DoLeaseGrant
  <2>1. ASSUME NEW id \in LeaseId, store' = LeaseGrant(store, id, Ttl, now)
        PROVE  StoreInv(store') /\ Onward(store, store') /\ store'.rev = store.rev
    BY <1>0, <2>1, GrantKeeps
  <2>2. ASSUME store.nextLease + 1 \in LeaseId,
               store' = [LeaseGrant(store, store.nextLease + 1, Ttl, now)
                            EXCEPT !.nextLease = @ + 1]
        PROVE  StoreInv(store') /\ Onward(store, store') /\ store'.rev = store.rev
    <3> DEFINE u == LeaseGrant(store, store.nextLease + 1, Ttl, now)
    <3> DEFINE id == store.nextLease + 1
    <3>0. id \in LeaseId /\ u = LeaseGrant(store, id, Ttl, now)
      BY <2>2
    <3>1. StoreInv(u) /\ Onward(store, u) /\ u.rev = store.rev
      <4> HIDE DEF id, u
      <4>1. QED
        BY <1>0, <3>0, GrantKeeps
    <3>2. store' = [u EXCEPT !.nextLease = u.nextLease + 1]
      BY <2>2
    <3> HIDE DEF u
    <3>3. StoreInv(store') /\ Onward(u, store') /\ store'.rev = u.rev
      BY <3>1, <3>2, CountKeeps
    <3>4. QED
      BY <1>0, <3>1, <3>3, OnwardGoesOn
  <2>3. now' = now
    BY <1>4 DEF DoLeaseGrant
  <2>4. StoreInv(store') /\ Onward(store, store') /\ store'.rev = store.rev
    BY <1>4, <2>1, <2>2 DEF DoLeaseGrant
  <2>5. QED
    BY <1>0, <2>3, <2>4 DEF KvInv, Onward
<1>5. ASSUME NEW id \in LeaseId, DoLeaseGrantV2(id) PROVE KvInv'
  <2>1. store' = LeaseGrant(store, id, Ttl, now) /\ now' = now
    BY <1>5 DEF DoLeaseGrantV2
  <2>2. StoreInv(store') /\ Onward(store, store') /\ store'.rev = store.rev
    BY <1>0, <2>1, GrantKeeps
  <2>3. QED
    BY <1>0, <2>1, <2>2 DEF KvInv, Onward
<1>6. ASSUME NEW id \in LeaseId, DoLeaseRevoke(id) PROVE KvInv'
  <2>1. /\ id \in DOMAIN store.leases /\ store' = LeaseRevoke(store, id)
        /\ store'.rev <= MaxRev /\ now' = now
    BY <1>6 DEF DoLeaseRevoke, Bounded
  <2>2. StoreInv(store') /\ Onward(store, store')
    BY <1>0, <2>1, LeaseRevokeKeeps
  <2>3. QED
    BY <1>0, <2>1, <2>2 DEF KvInv, Onward
<1>7. ASSUME NEW id \in LeaseId, DoKeepAlive(id) PROVE KvInv'
  <2>1. /\ id \in DOMAIN store.leases /\ store' = [store EXCEPT !.leases[id].granted = now]
        /\ now' = now
    BY <1>7 DEF DoKeepAlive
  <2>2. StoreInv(store')
    BY <1>0, <2>1, KeepAliveKeeps
  <2>3. store'.rev = store.rev /\ store'.compacted = store.compacted
    BY <1>0, <2>1 DEF IsStore
  <2>4. QED
    BY <1>0, <2>1, <2>2, <2>3 DEF KvInv
<1>8. CASE ExpireLeases
  <2>1. PICK order \in SetToSeqs(Expired(store, now)) : store' = RevokeLeases(store, order)
    BY <1>8 DEF ExpireLeases
  <2>2. store'.rev <= MaxRev /\ now' = now
    BY <1>8 DEF ExpireLeases, Bounded
  <2>3. StoreInv(store') /\ Onward(store, store')
    BY <1>0, <2>1, ExpireKeeps
  <2>4. QED
    BY <1>0, <2>2, <2>3 DEF KvInv, Onward
<1>9. ASSUME NEW r \in Compactions, DoCompact(r) PROVE KvInv'
  <2>1. store' = DropHistory(store, r) /\ now' = now /\ r \in Nat /\ r <= MaxRev
    BY <1>9, StoreBounds DEF DoCompact
  <2>2. StoreInv(store') /\ DropForm(store, store', r)
    BY <1>0, <2>1, CompactKeeps
  <2>3. QED
    BY <1>0, <2>1, <2>2 DEF KvInv, DropForm
<1>10. ASSUME NEW r \in CompactionsV2, DoCompactV2(r) PROVE KvInv'
  <2>1. store' = CompactV2(store, r) /\ now' = now /\ r \in Nat /\ r <= MaxRev
    BY <1>10, StoreBounds DEF DoCompactV2
  <2>2. StoreInv(store') /\ store'.rev = store.rev /\ store'.compacted = r
    BY <1>0, <2>1, CompactV2Keeps
  <2>3. QED
    BY <1>0, <2>1, <2>2 DEF KvInv
<1>11. CASE DoDefragment
  <2>1. store' = Defragment(store) /\ now' = now
    BY <1>11 DEF DoDefragment
  <2>2. StoreInv(store') /\ store'.rev = store.rev /\ store'.compacted = store.compacted
    BY <1>0, <2>1, DefragmentKeeps
  <2>3. QED
    BY <1>0, <2>1, <2>2 DEF KvInv
<1>12. CASE Tick
  <2>1. store' = store /\ now' = now + 1 /\ now < MaxNow
    BY <1>12 DEF Tick
  <2>2. now' \in 0..MaxNow
    BY <1>0, <2>1
  <2>3. QED
    BY <1>0, <2>1, <2>2 DEF KvInv
<1>13. CASE UNCHANGED kvVars
  <2>1. store' = store /\ now' = now
    BY <1>13 DEF kvVars
  <2>2. QED
    BY <1>0, <2>1 DEF KvInv
<1>14. QED
  BY <1>1, <1>2, <1>3, <1>4, <1>5, <1>6, <1>7, <1>8, <1>9, <1>10, <1>11, <1>12, <1>13
  DEF KvNext

LEMMA KvHolds == KvSpec => []KvInv
<1>1. QED
  BY KvStarts, KvStepKeeps, PTL DEF KvSpec

\* The index entry a read at revision r finds is the newest not above r.
LEMMA FoundIs ==
    ASSUME NEW q \in Seq(Nat), Ascending(q), NEW r \in Nat,
           NEW m, m = SelectLastInSeq(q, LAMBDA x : x <= r)
    PROVE  \/ m = 0 /\ \A x \in ToSet(q) : x > r
           \/ m # 0 /\ q[m] \in ToSet(q) /\ q[m] <= r /\ ~Newer(ToSet(q), q[m], r)
<1> DEFINE I == {i \in 1..Len(q) : q[i] <= r}
<1>1. m = IF I # {} THEN Max(I) ELSE 0
  BY DEF SelectLastInSeq
<1>2. DOMAIN q = 1..Len(q) /\ Len(q) \in Nat /\ \A i \in 1..Len(q) : q[i] \in Nat
  OBVIOUS
<1>3. CASE I = {}
  <2>1. \A i \in 1..Len(q) : q[i] > r
    BY <1>2, <1>3
  <2>2. m = 0
    BY <1>1, <1>3
  <2>3. QED
    BY <1>2, <2>1, <2>2 DEF ToSet
<1>4. CASE I # {}
  <2>1. I \subseteq Nat /\ \A i \in I : i <= Len(q)
    BY <1>2
  <2>2. PICK z \in I : z <= Len(q)
    BY <1>4, <2>1
  <2> HIDE DEF I
  <2>3. PICK g \in I : g <= Len(q) /\ ~Newer(I, g, Len(q))
    BY <1>2, <2>1, <2>2, GreatestIs
  <2>4. \A i \in I : g >= i
    BY <2>1, <2>3 DEF Newer
  <2>5. m \in I /\ \A i \in I : m >= i
    BY <1>1, <1>4, <2>3, <2>4 DEF Max
  <2>6. m \in 1..Len(q) /\ q[m] <= r /\ m # 0
    BY <1>2, <2>5 DEF I
  <2>7. ASSUME NEW y \in ToSet(q), y <= r, y > q[m] PROVE FALSE
    <3>1. PICK j \in 1..Len(q) : y = q[j]
      BY <1>2 DEF ToSet
    <3>2. j \in I
      BY <2>7, <3>1 DEF I
    <3>3. j = m \/ j < m
      <4>1. m >= j
        BY <2>5, <3>2
      <4>2. m \in Nat /\ j \in Nat
        BY <2>6, <3>1
      <4>3. QED
        BY <4>1, <4>2
    <3>4. q[j] = q[m] \/ q[j] < q[m]
      BY <1>2, <2>6, <3>1, <3>3 DEF Ascending
    <3>5. QED
      BY <1>2, <2>6, <2>7, <3>1, <3>4
  <2>8. QED
    BY <1>2, <2>6, <2>7 DEF ToSet, Newer
<1>5. QED
  BY <1>3, <1>4

LEMMA ReadTells ==
    ASSUME NEW s, StoreInv(s), NEW r \in 1..s.rev, NEW k \in Key
    PROVE  \/ GetAt(s, k, r) = Row(s.past[r], k)
           \/ GetAt(s, k, r) = Absent /\ Row(s.past[r], k).mod < s.lost
<1> DEFINE q == s.index[k]
           m == SelectLastInSeq(q, LAMBDA x : x <= r)
           then == Row(s.past[r], k)
           X == ToSet(q)
<1>1. q \in Seq(Nat) /\ Ascending(q) /\ r \in Nat
  BY IndexIs DEF StoreInv, Typed, Counted
<1>2. \/ m = 0 /\ \A x \in X : x > r
      \/ m # 0 /\ q[m] \in X /\ q[m] <= r /\ ~Newer(X, q[m], r)
  <2> HIDE DEF q
  <2>1. QED
    BY <1>1, FoundIs
<1>3. GetAt(s, k, r) = IF \/ m = 0 \/ q[m] \notin DOMAIN s.history
                          \/ s.history[q[m]].type = "delete"
                       THEN Absent ELSE s.history[q[m]].kv
  BY DEF GetAt
<1>4. /\ \A x \in X : x <= r /\ ~Newer(X, x, r) =>
             IF x \in DOMAIN s.history THEN Shows(s.history[x], then, x) ELSE Old(s, then)
      /\ (\A x \in X : x > r) => Old(s, then)
  BY DEF StoreInv, Indexed, Told
<1> HIDE DEF q, m, then, X
<1>5. Old(s, then) => then = Absent \/ then.mod < s.lost
  BY DEF Old
<1>6. CASE m = 0
  <2>1. Old(s, then)
    BY <1>2, <1>4, <1>6
  <2>2. QED
    BY <1>3, <1>5, <1>6, <2>1 DEF then
<1>7. CASE m # 0 /\ q[m] \notin DOMAIN s.history
  <2>1. Old(s, then)
    BY <1>2, <1>4, <1>7
  <2>2. QED
    BY <1>3, <1>5, <1>7, <2>1 DEF then
<1>8. CASE m # 0 /\ q[m] \in DOMAIN s.history
  <2>1. Shows(s.history[q[m]], then, q[m])
    BY <1>2, <1>4, <1>8
  <2>2. CASE s.history[q[m]].type = "delete"
    BY <1>3, <1>8, <2>1, <2>2 DEF Shows, then
  <2>3. CASE s.history[q[m]].type # "delete"
    BY <1>3, <1>8, <2>1, <2>3 DEF Shows, then
  <2>4. QED
    BY <2>2, <2>3
<1>9. QED
  BY <1>6, <1>7, <1>8

\* Every store the operations reach has the type it should have.
THEOREM KvTypes == KvSpec => []TypeOK
<1>1. KvInv => TypeOK
  <2> SUFFICES ASSUME KvInv PROVE TypeOK
    OBVIOUS
  <2>1. /\ StoreInv(store) /\ store.rev <= MaxRev /\ store.compacted <= MaxRev /\ MaxRev \in Nat
        /\ now \in 0..MaxNow
    BY StoreBounds DEF KvInv
  <2>2. Counted(store) /\ Dated(store) /\ Listed(store) /\ Leased(store)
    BY <2>1 DEF StoreInv, Typed
  <2>3. store.rev \in 1..MaxRev /\ store.compacted \in 0..MaxRev
    BY <2>1, <2>2 DEF Counted
  <2>4. Live(store) \subseteq Key /\ \A k \in Live(store) : store.current[k] \in Kv
    BY <2>2, CurrentRows DEF IsRows, Live
  <2>5. QED
    BY <2>1, <2>2, <2>3, <2>4 DEF TypeOK, Dated, Listed, Leased
<1>2. QED
  BY <1>1, KvHolds, PTL

\* A read at a revision that no compaction has passed tells what the key was
\* then, or nothing when that is older than the compaction.
THEOREM ReadsTellThePast == KvSpec => []ReadAtPast
<1>1. KvInv => ReadAtPast
  <2> SUFFICES ASSUME KvInv, NEW r \in store.lost..store.rev, NEW k \in Key, r >= 1
      PROVE  \/ GetAt(store, k, r) = Row(store.past[r], k)
             \/ GetAt(store, k, r) = Absent /\ Row(store.past[r], k).mod < store.lost
    BY DEF ReadAtPast
  <2>1. StoreInv(store) /\ store.rev \in Nat /\ store.lost \in Nat
    BY DEF KvInv, StoreInv, Typed, Counted
  <2>2. r \in 1..store.rev
    BY <2>1
  <2>3. QED
    BY <2>1, <2>2, ReadTells
<1>2. QED
  BY <1>1, KvHolds, PTL

\* create_revision and version tell how long a key has been live and how
\* often it was put since.
THEOREM PairsTellTheirLives == KvSpec => []PairTellsItsLife
<1>1. KvInv => PairTellsItsLife
  <2> SUFFICES ASSUME KvInv PROVE PairTellsItsLife
    OBVIOUS
  <2>1. \A k \in Live(store) : LifeTold(store, k)
    BY DEF KvInv, StoreInv, Lives
  <2>2. QED
    BY <2>1 DEF PairTellsItsLife, LifeTold, Puts
<1>2. QED
  BY <1>1, KvHolds, PTL

\* What a revoke or an expiry deletes belongs to the lease.
THEOREM LeasesOwnTheirKeys == KvSpec => []LeaseOwnsItsKeys
<1>1. KvInv => LeaseOwnsItsKeys
  BY DEF KvInv, StoreInv, Owned, LeaseOwnsItsKeys
<1>2. QED
  BY <1>1, KvHolds, PTL

-----------------------------------------------------------------------------
(* The members of a cluster *)

\* What of a store the log alone decides.
Shared(s) == <<s.rev, s.current, s.index>>

\* What a command makes of it: neither leases nor history nor the key a
\* range delete visits last have a part in it.
Effect(v, c) ==
    LET r == v[1] + 1
        D == {k \in DOMAIN v[2] : InRange(k, c.key, c.end)}
    IN  IF c.op = "put"
        THEN <<r, Extend(v[2], c.key, NextKv(Row(v[2], c.key), c.val, c.lease, r)),
               [v[3] EXCEPT ![c.key] = Append(@, r)]>>
        ELSE <<r, Without(v[2], D), [k \in Key |-> IF k \in D THEN Append(v[3][k], r) ELSE v[3][k]]>>

\* h is what the log makes of a fresh store, command by command.
Trace(h, s) ==
    /\ h[0] = Shared(FreshStore)
    /\ \A i \in 1..Len(s) : h[i] = Effect(h[i - 1], s[i])

\* What clients can tell of key k among the pairs m, revisions aside.
Look(m, k) == [f \in {"val", "ver", "lease"} |-> Row(m, k)[f]]

\* A member's store s is what the log made it, v, up to its own writes o.
Follows(s, o, v) ==
    /\ o.writes = 0 => Shared(s) = v
    /\ \A k \in Key \ o.keys : Look(s.current, k) = Look(v[2], k)

ReplicasInv ==
    /\ log \in Seq(Commands)
    /\ applied \in [Node -> Nat] /\ \A n \in Node : applied[n] <= Len(log)
    /\ DOMAIN replica = Node /\ \A n \in Node : StoreInv(replica[n])
    /\ DOMAIN own = Node /\ \A n \in Node : own[n].writes \in Nat
    /\ \E h : Trace(h, log) /\ \A n \in Node : Follows(replica[n], own[n], h[applied[n]])

LEMMA LookIs ==
    ASSUME NEW m, NEW p, NEW k
    PROVE  Look(m, k) = Look(p, k) <=> /\ Row(m, k).val = Row(p, k).val
                                       /\ Row(m, k).ver = Row(p, k).ver
                                       /\ Row(m, k).lease = Row(p, k).lease
<1> DEFINE x == Row(m, k)
           y == Row(p, k)
           F == {"val", "ver", "lease"}
<1>1. Look(m, k) = [f \in F |-> x[f]] /\ Look(p, k) = [f \in F |-> y[f]]
  BY DEF Look
<1> HIDE DEF x, y
<1>2. [f \in F |-> x[f]] = [f \in F |-> y[f]] <=> \A f \in F : x[f] = y[f]
  OBVIOUS
<1>3. (\A f \in F : x[f] = y[f]) <=> (x.val = y.val /\ x.ver = y.ver /\ x.lease = y.lease)
  OBVIOUS
<1>4. QED
  BY <1>1, <1>2, <1>3 DEF x, y

\* A command makes the same of a key wherever the key looks the same.
LEMMA EffectOnKey ==
    ASSUME NEW v, NEW w, NEW c, NEW k, Look(v[2], k) = Look(w[2], k)
    PROVE  Look(Effect(v, c)[2], k) = Look(Effect(w, c)[2], k)
<1>1. /\ Row(v[2], k).val = Row(w[2], k).val /\ Row(v[2], k).ver = Row(w[2], k).ver
      /\ Row(v[2], k).lease = Row(w[2], k).lease
  BY LookIs
<1>2. CASE c.op = "put"
  <2>1. ASSUME NEW u PROVE
          Row(Effect(u, c)[2], k) = IF k = c.key
                                    THEN NextKv(Row(u[2], k), c.val, c.lease, u[1] + 1)
                                    ELSE Row(u[2], k)
    <3> DEFINE kv == NextKv(Row(u[2], c.key), c.val, c.lease, u[1] + 1)
    <3>1. Effect(u, c)[2] = Extend(u[2], c.key, kv)
      BY <1>2 DEF Effect
    <3>2. k = c.key => kv = NextKv(Row(u[2], k), c.val, c.lease, u[1] + 1)
      OBVIOUS
    <3> HIDE DEF kv
    <3>3. Row(Extend(u[2], c.key, kv), k) = IF k = c.key THEN kv ELSE Row(u[2], k)
      BY DEF Row, Extend
    <3>4. QED
      BY <3>1, <3>2, <3>3
  <2>2. /\ Row(Effect(v, c)[2], k).val = Row(Effect(w, c)[2], k).val
        /\ Row(Effect(v, c)[2], k).ver = Row(Effect(w, c)[2], k).ver
        /\ Row(Effect(v, c)[2], k).lease = Row(Effect(w, c)[2], k).lease
    <3>1. CASE k = c.key
      <4>1. Row(v[2], k).ver + 1 = Row(w[2], k).ver + 1
        BY <1>1
      <4>2. QED
        <5> DEFINE x == NextKv(Row(v[2], k), c.val, c.lease, v[1] + 1)
                   y == NextKv(Row(w[2], k), c.val, c.lease, w[1] + 1)
        <5>1. Row(Effect(v, c)[2], k) = x /\ Row(Effect(w, c)[2], k) = y
          BY <2>1, <3>1
        <5>2. /\ x.val = c.val /\ x.ver = Row(v[2], k).ver + 1 /\ x.lease = c.lease
              /\ y.val = c.val /\ y.ver = Row(w[2], k).ver + 1 /\ y.lease = c.lease
          BY DEF NextKv
        <5> HIDE DEF x, y
        <5>3. QED
          BY <4>1, <5>1, <5>2
    <3>2. CASE k # c.key
      BY <1>1, <2>1, <3>2
    <3>3. QED
      BY <3>1, <3>2
  <2>3. QED
    BY <2>2, LookIs
<1>3. CASE c.op # "put"
  <2>1. ASSUME NEW u PROVE
          Row(Effect(u, c)[2], k) = IF InRange(k, c.key, c.end) THEN Absent ELSE Row(u[2], k)
    <3> DEFINE D == {j \in DOMAIN u[2] : InRange(j, c.key, c.end)}
    <3>1. Effect(u, c)[2] = Without(u[2], D)
      BY <1>3 DEF Effect
    <3>2. Row(Without(u[2], D), k) = IF InRange(k, c.key, c.end) THEN Absent ELSE Row(u[2], k)
      BY DEF Row, Without, Restrict
    <3>3. QED
      BY <3>1, <3>2
  <2>2. QED
    BY <1>1, <2>1, LookIs
<1>4. QED
  BY <1>2, <1>3

\* What apply_one does to a store.
LEMMA ApplyEffect ==
    ASSUME NEW s, StoreInv(s), NEW c \in Commands, NEW t \in ApplyOne(s, c)
    PROVE  /\ StoreInv(t) /\ Shared(t) = Effect(Shared(s), c)
           /\ DOMAIN t.leases = DOMAIN s.leases
<1>0. IsStore(s)
  BY DEF StoreInv, Typed
<1>1. CASE c.op = "put" /\ c.key \in Key /\ c.val \in Value /\ c.lease \in LeaseId \cup {NoLease}
  <2>1. t = Put(s, c.key, c.val, c.lease)
    BY <1>1 DEF ApplyOne
  <2>2. PutForm(s, t, c.key, c.val, c.lease)
    BY <1>0, <2>1, PutIs
  <2>3. StoreInv(t)
    BY <1>1, <2>1, PutStays
  <2>4. Shared(t) = Effect(Shared(s), c)
    BY <1>1, <2>2 DEF Effect, Shared, PutForm
  <2>5. DOMAIN t.leases = DOMAIN s.leases
    BY <2>2 DEF PutForm, Reattach
  <2>6. QED
    BY <2>3, <2>4, <2>5
<1>2. CASE c.op = "delete"
  <2> DEFINE r == s.rev + 1
             D == {k \in DOMAIN s.current : InRange(k, c.key, c.end)}
  <2>1. PICK last : t = RemoveKeys(s, D, r, last)
    BY <1>2 DEF ApplyOne, DeleteRange, Live
  <2>2. D \subseteq Live(s)
    BY DEF Live
  <2> HIDE DEF D
  <2>3. RemoveForm(s, t, D, r, last)
    BY <1>0, <2>1, RemoveKeysIs
  <2>4. StoreInv(t) /\ DOMAIN t.leases = DOMAIN s.leases
    BY <2>1, <2>2, RemoveKeeps
  <2>5. Shared(t) = Effect(Shared(s), c)
    BY <1>2, <2>3 DEF Effect, Shared, RemoveForm, D
  <2>6. QED
    BY <2>4, <2>5
<1>3. QED
  BY <1>1, <1>2, CommandAssumption

LEMMA ReplicasStart == ReplicasInit => ReplicasInv
<1> SUFFICES ASSUME ReplicasInit PROVE ReplicasInv
  OBVIOUS
<1>1. Trace([i \in {0} |-> Shared(FreshStore)], <<>>)
  BY DEF Trace
<1>2. \A n \in Node : replica[n] = FreshStore /\ applied[n] = 0 /\ own[n].writes = 0
  BY DEF ReplicasInit
<1>3. Shared(FreshStore)[2] = FreshStore.current
  BY DEF Shared
<1>4. \E h : Trace(h, log) /\ \A n \in Node : Follows(replica[n], own[n], h[applied[n]])
  <2>1. WITNESS [i \in {0} |-> Shared(FreshStore)]
  <2>2. \A n \in Node : Follows(replica[n], own[n], [i \in {0} |-> Shared(FreshStore)][applied[n]])
    BY <1>2, <1>3 DEF Follows
  <2>3. QED
    BY <1>1, <2>2 DEF ReplicasInit
<1>5. log \in Seq(Commands) /\ applied \in [Node -> Nat] /\ \A n \in Node : applied[n] <= Len(log)
  BY DEF ReplicasInit
<1>6. QED
  BY <1>2, <1>4, <1>5, FreshKeeps DEF ReplicasInit, ReplicasInv

\* One command more in the log.
LEMMA CommitStep ==
    ASSUME ReplicasInv, NEW c \in Commands, Commit(c)
    PROVE  ReplicasInv'
<1>1. log' = Append(log, c) /\ UNCHANGED <<replica, applied, own>>
  BY DEF Commit
<1>2. PICK h : Trace(h, log) /\ \A n \in Node : Follows(replica[n], own[n], h[applied[n]])
  BY DEF ReplicasInv
<1> DEFINE L == Len(log)
           g == [i \in 0..(L + 1) |-> IF i <= L THEN h[i] ELSE Effect(h[L], c)]
<1>3. L \in Nat /\ log \in Seq(Commands)
  BY DEF ReplicasInv
<1>4. /\ Len(log') = L + 1 /\ log' \in Seq(Commands) /\ log'[L + 1] = c
      /\ \A i \in 1..L : log'[i] = log[i]
  BY <1>1, <1>3
<1> HIDE DEF L
<1>5. /\ \A i \in 0..L : g[i] = h[i]
      /\ g[L + 1] = Effect(h[L], c)
  BY <1>3
<1> HIDE DEF g
<1>6. Trace(g, log')
  <2>1. g[0] = Shared(FreshStore)
    BY <1>2, <1>3, <1>5 DEF Trace
  <2>2. ASSUME NEW i \in 1..L PROVE g[i] = Effect(g[i - 1], log'[i])
    <3>1. i \in 0..L /\ i - 1 \in 0..L
      BY <1>3
    <3>2. h[i] = Effect(h[i - 1], log[i])
      BY <1>2 DEF Trace, L
    <3>3. QED
      BY <1>4, <1>5, <3>1, <3>2
  <2>3. g[L + 1] = Effect(g[L], log'[L + 1])
    BY <1>3, <1>4, <1>5
  <2>4. \A i \in 1..Len(log') : i \in 1..L \/ i = L + 1
    BY <1>3, <1>4
  <2>5. \A i \in 1..Len(log') : g[i] = Effect(g[i - 1], log'[i])
    <3> TAKE i \in 1..Len(log')
    <3>1. CASE i \in 1..L
      BY <2>2, <3>1
    <3>2. CASE i = L + 1
      <4>1. i - 1 = L
        BY <1>3, <3>2
      <4>2. QED
        BY <2>3, <3>2, <4>1
    <3>3. QED
      BY <2>4, <3>1, <3>2
  <2>6. QED
    BY <2>1, <2>5 DEF Trace
<1>7. \A n \in Node : Follows(replica'[n], own'[n], g[applied'[n]])
  <2>1. \A n \in Node : applied[n] \in 0..L
    BY <1>3 DEF ReplicasInv, L
  <2>2. \A n \in Node : g[applied[n]] = h[applied[n]]
    BY <1>5, <2>1
  <2>3. QED
    BY <1>1, <1>2, <2>2
<1>8. \A n \in Node : applied'[n] <= Len(log')
  BY <1>1, <1>3, <1>4 DEF ReplicasInv, L
<1>9. QED
  BY <1>1, <1>4, <1>6, <1>7, <1>8 DEF ReplicasInv

LEMMA MemberApplies ==
    ASSUME ReplicasInv, NEW n \in Node, Apply(n)
    PROVE  /\ ReplicasInv' /\ own' = own
           /\ \A m \in Node : DOMAIN replica'[m].leases = DOMAIN replica[m].leases
<1>1. applied[n] < Len(log) /\ applied' = [applied EXCEPT ![n] = @ + 1] /\ log' = log /\ own' = own
  BY DEF Apply
<1>2. PICK s \in ApplyOne(replica[n], log[applied[n] + 1]) : replica' = [replica EXCEPT ![n] = s]
  BY DEF Apply
<1>3. PICK h : Trace(h, log) /\ \A m \in Node : Follows(replica[m], own[m], h[applied[m]])
  BY DEF ReplicasInv
<1> DEFINE a == applied[n]
           c == log[a + 1]
           v == Shared(replica[n])
<1>4. a + 1 \in 1..Len(log) /\ a \in Nat /\ a + 1 - 1 = a
  BY <1>1 DEF ReplicasInv
<1>5. c \in Commands
  BY <1>4 DEF ReplicasInv
<1>6. StoreInv(s) /\ Shared(s) = Effect(v, c) /\ DOMAIN s.leases = DOMAIN replica[n].leases
  BY <1>2, <1>5, ApplyEffect DEF ReplicasInv
<1>7. h[a + 1] = Effect(h[a], c)
  BY <1>3, <1>4 DEF Trace
<1>8. \A m \in Node : /\ replica'[m] = IF m = n THEN s ELSE replica[m]
                      /\ applied'[m] = IF m = n THEN a + 1 ELSE applied[m]
  BY <1>1, <1>2 DEF ReplicasInv
<1>9. Follows(replica'[n], own'[n], h[applied'[n]])
  <2>1. replica'[n] = s /\ applied'[n] = a + 1
    BY <1>8
  <2>2. /\ own[n].writes = 0 => v = h[a]
        /\ \A k \in Key \ own[n].keys : Look(v[2], k) = Look(h[a][2], k)
    BY <1>3 DEF Follows, Shared
  <2>3. s.current = Effect(v, c)[2]
    BY <1>6 DEF Shared
  <2> HIDE DEF a, c, v
  <2>4. own[n].writes = 0 => Shared(s) = h[a + 1]
    BY <1>6, <1>7, <2>2
  <2>5. \A k \in Key \ own[n].keys : Look(s.current, k) = Look(h[a + 1][2], k)
    BY <1>7, <2>2, <2>3, EffectOnKey
  <2>6. QED
    BY <1>1, <2>1, <2>4, <2>5 DEF Follows
<1>10. \A m \in Node : Follows(replica'[m], own'[m], h[applied'[m]])
  <2> TAKE m \in Node
  <2>1. CASE m = n
    BY <1>9, <2>1
  <2>2. CASE m # n
    <3>1. replica'[m] = replica[m] /\ applied'[m] = applied[m] /\ own' = own
      BY <1>1, <1>8, <2>2
    <3>2. Follows(replica[m], own[m], h[applied[m]])
      BY <1>3
    <3>3. QED
      BY <3>1, <3>2
  <2>3. QED
    BY <2>1, <2>2
<1>11. /\ applied' \in [Node -> Nat] /\ \A m \in Node : applied'[m] <= Len(log)
       /\ DOMAIN replica' = Node
  BY <1>1, <1>2, <1>4, <1>8 DEF ReplicasInv
<1>12. \A m \in Node : /\ StoreInv(replica'[m])
                       /\ DOMAIN replica'[m].leases = DOMAIN replica[m].leases
  BY <1>6, <1>8 DEF ReplicasInv
<1> HIDE DEF a, c, v
<1>13. ReplicasInv'
  BY <1>1, <1>3, <1>10, <1>11, <1>12 DEF ReplicasInv
<1>14. QED
  BY <1>1, <1>12, <1>13

\* A write of a member's own.
LEMMA OwnWrite ==
    ASSUME ReplicasInv, NEW n \in Node, NEW s, StoreInv(s), Becomes(n, s), replica[n].rev <= s.rev,
           s.rev = replica[n].rev => Shared(s) = Shared(replica[n])
    PROVE  ReplicasInv'
<1> DEFINE gap == s.rev - replica[n].rev
           changed == {k \in Key : Row(s.current, k) # Row(replica[n].current, k)}
<1>1. /\ replica' = [replica EXCEPT ![n] = s] /\ log' = log /\ applied' = applied
      /\ own' = [own EXCEPT ![n] = [keys |-> @.keys \cup changed, writes |-> @.writes + gap]]
  BY DEF Becomes
<1>2. /\ gap \in Nat
      /\ gap = 0 => Shared(s) = Shared(replica[n])
  <2>1. s.rev \in Nat /\ replica[n].rev \in Nat /\ replica[n].rev <= s.rev
    BY DEF ReplicasInv, StoreInv, Typed, Counted
  <2>2. gap \in Nat /\ (gap = 0 => s.rev = replica[n].rev)
    BY <2>1
  <2>3. QED
    BY <2>2
<1>3. \A k \in Key : k \in changed \/ Row(s.current, k) = Row(replica[n].current, k)
  OBVIOUS
<1> HIDE DEF gap, changed
<1>4. PICK h : Trace(h, log) /\ \A m \in Node : Follows(replica[m], own[m], h[applied[m]])
  BY DEF ReplicasInv
<1>5. /\ \A m \in Node : m # n => replica'[m] = replica[m] /\ own'[m] = own[m]
      /\ replica'[n] = s /\ own'[n].keys = own[n].keys \cup changed
      /\ own'[n].writes = own[n].writes + gap
      /\ DOMAIN replica' = Node /\ DOMAIN own' = Node /\ own[n].writes \in Nat
  BY <1>1 DEF ReplicasInv
<1>6. own'[n].writes \in Nat /\ (own'[n].writes = 0 => own[n].writes = 0 /\ gap = 0)
  BY <1>2, <1>5
<1>7. Follows(replica'[n], own'[n], h[applied'[n]])
  <2>1. /\ own[n].writes = 0 => Shared(replica[n]) = h[applied[n]]
        /\ \A k \in Key \ own[n].keys : Look(replica[n].current, k) = Look(h[applied[n]][2], k)
    BY <1>4 DEF Follows
  <2>2. own'[n].writes = 0 => Shared(s) = h[applied[n]]
    BY <1>2, <1>6, <2>1
  <2>3. ASSUME NEW k \in Key \ own'[n].keys PROVE Look(s.current, k) = Look(h[applied[n]][2], k)
    <3>1. Row(s.current, k) = Row(replica[n].current, k) /\ k \in Key \ own[n].keys
      BY <1>3, <1>5
    <3>2. Look(s.current, k) = Look(replica[n].current, k)
      BY <3>1 DEF Look
    <3>3. QED
      BY <2>1, <3>1, <3>2
  <2>4. QED
    BY <1>1, <1>5, <2>2, <2>3 DEF Follows
<1>8. \A m \in Node : Follows(replica'[m], own'[m], h[applied'[m]])
  <2> TAKE m \in Node
  <2>1. CASE m = n
    BY <1>7, <2>1
  <2>2. CASE m # n
    <3>1. Follows(replica[m], own[m], h[applied[m]])
      BY <1>4
    <3>2. QED
      BY <1>1, <1>5, <2>2, <3>1
  <2>3. QED
    BY <2>1, <2>2
<1>9. \A m \in Node : StoreInv(replica'[m]) /\ own'[m].writes \in Nat
  BY <1>5, <1>6 DEF ReplicasInv
<1>10. QED
  BY <1>1, <1>4, <1>5, <1>8, <1>9 DEF ReplicasInv

\* The direct routes.
LEMMA TxnRoute ==
    ASSUME ReplicasInv, NEW n \in Node, NEW t \in LocalTxns, KvTxn(n, t)
    PROVE  ReplicasInv'
<1> DEFINE s == Txn(replica[n], t)
<1>1. Becomes(n, s) /\ StoreInv(replica[n])
  BY DEF KvTxn, ReplicasInv
<1>2. {t.success, t.failure} \subseteq Seq(TxnOp)
  BY LocalTxnAssumption
<1>3. StoreInv(s) /\ Onward(replica[n], s)
  BY <1>1, <1>2, TxnKeeps
<1> HIDE DEF s
<1>4. QED
  BY <1>1, <1>3, OwnWrite DEF Onward, Shared

LEMMA CompactRoute ==
    ASSUME ReplicasInv, NEW n \in Node, NEW r \in Nat, KvCompaction(n, r)
    PROVE  /\ ReplicasInv' /\ own'[n].writes = own[n].writes
           /\ \A m \in Node : replica'[m].leases = replica[m].leases
           /\ \A m \in Node \ {n} : own'[m] = own[m]
<1> DEFINE s == DropHistory(replica[n], r)
<1>1. Becomes(n, s) /\ StoreInv(replica[n])
  BY DEF KvCompaction, ReplicasInv
<1>2. StoreInv(s) /\ DropForm(replica[n], s, r)
  BY <1>1, CompactKeeps
<1> HIDE DEF s
<1>3. /\ s.rev = replica[n].rev /\ s.current = replica[n].current /\ s.index = replica[n].index
      /\ s.leases = replica[n].leases /\ s.rev \in Nat
  BY <1>1, <1>2 DEF DropForm, StoreInv, Typed, Counted
<1>4. replica[n].rev <= s.rev /\ s.rev - replica[n].rev = 0
  BY <1>3
<1>5. ReplicasInv'
  BY <1>1, <1>2, <1>3, <1>4, OwnWrite DEF Shared
<1>6. /\ replica' = [replica EXCEPT ![n] = s]
      /\ own' = [own EXCEPT ![n] =
            [keys |-> @.keys \cup {k \in Key : Row(s.current, k) # Row(replica[n].current, k)},
             writes |-> @.writes + (s.rev - replica[n].rev)]]
  BY <1>1 DEF Becomes
<1>7. own'[n].writes = own[n].writes /\ \A m \in Node \ {n} : own'[m] = own[m]
  BY <1>4, <1>6 DEF ReplicasInv
<1>8. \A m \in Node : replica'[m].leases = replica[m].leases
  BY <1>3, <1>6 DEF ReplicasInv
<1>9. QED
  BY <1>5, <1>7, <1>8

LEMMA GrantGoes ==
    ASSUME ReplicasInv, NEW n \in Node, NEW id \in LeaseId, GrantRoute(n, id)
    PROVE  ReplicasInv'
<1> DEFINE s == LeaseGrant(replica[n], id, 1, 0)
<1>1. Becomes(n, s) /\ StoreInv(replica[n])
  BY DEF GrantRoute, ReplicasInv
<1>2. StoreInv(s) /\ Onward(replica[n], s)
  BY <1>1, GrantKeeps
<1> HIDE DEF s
<1>3. QED
  BY <1>1, <1>2, OwnWrite DEF Onward, Shared

LEMMA RevokeGoes ==
    ASSUME ReplicasInv, NEW n \in Node, NEW id \in LeaseId, RevokeOrExpire(n, id)
    PROVE  ReplicasInv'
<1> DEFINE s == LeaseRevoke(replica[n], id)
<1>1. Becomes(n, s) /\ StoreInv(replica[n]) /\ id \in DOMAIN replica[n].leases
  BY DEF RevokeOrExpire, ReplicasInv
<1>2. StoreInv(s) /\ Onward(replica[n], s)
  BY <1>1, LeaseRevokeKeeps
<1> HIDE DEF s
<1>3. QED
  BY <1>1, <1>2, OwnWrite DEF Onward, Shared

LEMMA ReplicasHold == ReplicasSpec => []ReplicasInv
<1>1. ReplicasInv /\ [ReplicasNext]_replicaVars => ReplicasInv'
  <2> SUFFICES ASSUME ReplicasInv, [ReplicasNext]_replicaVars PROVE ReplicasInv'
    OBVIOUS
  <2>1. ASSUME NEW c \in Commands, Commit(c) PROVE ReplicasInv'
    BY <2>1, CommitStep
  <2>2. ASSUME NEW n \in Node, Apply(n) PROVE ReplicasInv'
    BY <2>2, MemberApplies
  <2>3. ASSUME NEW n \in Node, KvCompaction(n, replica[n].rev) PROVE ReplicasInv'
    <3>1. replica[n].rev \in Nat
      BY DEF ReplicasInv, StoreInv, Typed, Counted
    <3>2. QED
      BY <2>3, <3>1, CompactRoute
  <2>4. ASSUME NEW n \in Node, NEW t \in LocalTxns, KvTxn(n, t) PROVE ReplicasInv'
    BY <2>4, TxnRoute
  <2>5. ASSUME NEW n \in Node, NEW id \in LeaseId, GrantRoute(n, id) PROVE ReplicasInv'
    BY <2>5, GrantGoes
  <2>6. ASSUME NEW n \in Node, NEW id \in LeaseId, RevokeOrExpire(n, id) PROVE ReplicasInv'
    BY <2>6, RevokeGoes
  <2>7. CASE UNCHANGED replicaVars
    BY <2>7 DEF ReplicasInv, replicaVars
  <2>8. QED
    BY <2>1, <2>2, <2>3, <2>4, <2>5, <2>6, <2>7 DEF ReplicasNext
<1>2. QED
  BY ReplicasStart, <1>1, PTL DEF ReplicasSpec

\* Whatever routes clients use, the members agree on the value, version and
\* lease of every key that neither of them changed by itself, and on all
\* pairs and revisions as long as neither took a revision by itself: for any
\* cluster, log, transactions and leases.
THEOREM ReplicasAgreeUnlessOwn == ReplicasSpec => []AgreeUnlessOwn
<1>1. ReplicasInv => AgreeUnlessOwn
  <2> SUFFICES ASSUME ReplicasInv, NEW m \in Node, NEW n \in Node, applied[m] = applied[n]
      PROVE  /\ \A k \in Key \ (own[m].keys \cup own[n].keys) : Seen(m, k) = Seen(n, k)
             /\ own[m].writes = 0 /\ own[n].writes = 0 =>
                    /\ replica[m].current = replica[n].current
                    /\ replica[m].index = replica[n].index
                    /\ replica[m].rev = replica[n].rev
    BY DEF AgreeUnlessOwn
  <2>1. PICK v : Follows(replica[m], own[m], v) /\ Follows(replica[n], own[n], v)
    BY DEF ReplicasInv
  <2>2. \A k \in Key \ (own[m].keys \cup own[n].keys) :
            Look(replica[m].current, k) = Look(replica[n].current, k)
    BY <2>1 DEF Follows
  <2>3. \A k \in Key \ (own[m].keys \cup own[n].keys) : Seen(m, k) = Seen(n, k)
    BY <2>2 DEF Seen, Look
  <2>4. own[m].writes = 0 /\ own[n].writes = 0 => Shared(replica[m]) = Shared(replica[n])
    BY <2>1 DEF Follows
  <2>5. QED
    BY <2>3, <2>4 DEF Shared
<1>2. QED
  BY <1>1, ReplicasHold, PTL

\* No member has written by itself, and none has a lease to expire.
NoOwnWrites == \A n \in Node : own[n].writes = 0 /\ DOMAIN replica[n].leases = {}

\* As long as clients use neither the transaction route nor the lease
\* routes, members that have applied the same part of the log hold the same
\* pairs at the same revisions, for any cluster and any log, and whatever
\* each compacts: the two routes are the only ones that part them.
THEOREM UntouchedReplicasAgree ==
    ASSUME Local \subseteq {"compact"}
    PROVE  ReplicasSpec => []ReplicasAgree
<1>1. ReplicasInit => NoOwnWrites
  BY DEF ReplicasInit, NoOwnWrites, FreshStore, EmptyMap
<1>2. ReplicasInv /\ NoOwnWrites /\ [ReplicasNext]_replicaVars => NoOwnWrites'
  <2> SUFFICES ASSUME ReplicasInv, NoOwnWrites, [ReplicasNext]_replicaVars PROVE NoOwnWrites'
    OBVIOUS
  <2>1. ASSUME NEW c \in Commands, Commit(c) PROVE NoOwnWrites'
    BY <2>1 DEF Commit, NoOwnWrites
  <2>2. ASSUME NEW n \in Node, Apply(n) PROVE NoOwnWrites'
    BY <2>2, MemberApplies DEF NoOwnWrites
  <2>3. ASSUME NEW n \in Node, KvCompaction(n, replica[n].rev) PROVE NoOwnWrites'
    <3>1. replica[n].rev \in Nat
      BY DEF ReplicasInv, StoreInv, Typed, Counted
    <3>2. /\ own'[n].writes = own[n].writes
          /\ \A m \in Node : replica'[m].leases = replica[m].leases
          /\ \A m \in Node \ {n} : own'[m] = own[m]
      BY <2>3, <3>1, CompactRoute
    <3>3. QED
      BY <3>2 DEF NoOwnWrites
  <2>4. ASSUME NEW n \in Node, NEW t \in LocalTxns, KvTxn(n, t) PROVE FALSE
    BY <2>4 DEF KvTxn
  <2>5. ASSUME NEW n \in Node, NEW id \in LeaseId, GrantRoute(n, id) \/ RevokeOrExpire(n, id)
        PROVE  FALSE
    BY <2>5 DEF GrantRoute, RevokeOrExpire, NoOwnWrites
  <2>6. CASE UNCHANGED replicaVars
    BY <2>6 DEF NoOwnWrites, replicaVars
  <2>7. QED
    BY <2>1, <2>2, <2>3, <2>4, <2>5, <2>6 DEF ReplicasNext
<1>3. NoOwnWrites /\ AgreeUnlessOwn => ReplicasAgree
  BY DEF NoOwnWrites, AgreeUnlessOwn, ReplicasAgree
<1>4. QED
  BY <1>1, <1>2, <1>3, ReplicasHold, ReplicasAgreeUnlessOwn, PTL DEF ReplicasSpec
=============================================================================
