----------------------------- MODULE MCRaftCore ------------------------------
(***************************************************************************)
(* Model-checking instances of RaftCore.                                   *)
(***************************************************************************)
EXTENDS RaftCore

CONSTANTS n1, n2, n3, write

\* Members are interchangeable: the code compares node ids only for equality.
Symmetric == Permutations(Node)

\* A state the core reaches from Init with three elections and three
\* proposals, and the start of the runs that need more terms than a search
\* from Init can afford: n1 led term 1 and appended two entries nobody else
\* received, n2 led term 2 with n3's vote and appended another entry at the
\* same index, and n1 now leads term 3 with n3's vote (n2 refused: its log is
\* newer).  It knows that n3's log ends before `next`: 3 when it was elected,
\* 1 once n3 has turned two heartbeats down.  `used` restarts are behind them.
Contended(next, used) ==
    LET log(t, len) == [i \in 1..len |-> [term |-> t, cmd |-> write]]
        zero == [n \in Node |-> 0]
    IN  /\ persistent = (n1 :> [term |-> 3, vote |-> n1, log |-> log(1, 2)]) @@
                        (n2 :> [term |-> 3, vote |-> None, log |-> log(2, 1)]) @@
                        (n3 :> [term |-> 3, vote |-> n1, log |-> <<>>])
        /\ disk = persistent
        /\ role = [n \in Node |-> IF n = n1 THEN "leader" ELSE "follower"]
        /\ leaderId = (n1 :> n1) @@ (n2 :> None) @@ (n3 :> n1)
        /\ votesReceived = [n \in Node |-> IF n = n1 THEN {n1, n3} ELSE {}]
        /\ commitIndex = zero /\ lastApplied = zero
        /\ nextIndex = (n1 :> [p \in Node |-> IF p = n3 THEN next ELSE 3]) @@
                       (n2 :> [p \in Node |-> 1]) @@ (n3 :> [p \in Node |-> 1])
        /\ matchIndex = [n \in Node |-> zero]
        /\ driver = [n \in Node |-> TRUE]
        /\ rpcs = {}
        /\ crashes = used /\ faults = 0
        /\ grants = {<<n1, 1, n1>>, <<n3, 1, n1>>, <<n2, 2, n2>>, <<n3, 2, n2>>,
                     <<n1, 3, n1>>, <<n3, 3, n1>>}
        /\ elected = {<<1, n1>>, <<2, n2>>, <<3, n1>>}
        /\ decided = <<>>

ContendedSpec == Contended(1, 0) /\ [][Next]_vars
LiveSpec == Contended(3, 0) /\ [][Next]_vars /\ FairLeader(n1)

\* Two searches in the run with faults: two terms of elections from the start
\* of the program, and what follows the third leader.
FaultsSpec == (Init \/ Contended(1, 0)) /\ [][Next]_vars

FaultsBound ==
    \/ <<3, n1>> \in elected
    \/ \A n \in Node : persistent'[n].term <= 2 /\ persistent'[n].log = <<>>

\* Two searches in the commit run: restarts and the apply daemon with one RPC
\* in flight at a time, and two RPCs in flight with neither (crashes is at its
\* bound from the start).
CommitSpec == (\E used \in {0, 2} : Contended(1, used)) /\ [][Next]_vars

CommitBound ==
    \/ crashes' <= 1 /\ Cardinality(rpcs') <= 1
    \/ crashes = 2 /\ lastApplied' = lastApplied
=============================================================================
