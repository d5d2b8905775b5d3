---------------------------- MODULE ReplicatedLog -----------------------------
(***************************************************************************)
(* What the consensus layer promises the apply daemon of every member      *)
(* (raft_apply.rs, "Idempotency contract"): there is one log of committed  *)
(* commands, it only grows, and each member is handed its entries in       *)
(* order, each once, starting again from the first after a restart of its  *)
(* process.                                                                *)
(***************************************************************************)
EXTENDS Naturals, Sequences, SequencesExt

CONSTANT Node

VARIABLES decided,     \* the committed log
          delivered    \* the entries handed to each member's apply daemon

Init == decided = <<>> /\ delivered = [n \in Node |-> <<>>]

\* More entries are committed, after those already committed.
Decide == /\ IsStrictPrefix(decided, decided')
          /\ UNCHANGED delivered

\* A member is handed the entries that follow the ones it has.
Deliver(n) ==
    /\ \E k \in (Len(delivered[n]) + 1)..Len(decided) :
          delivered' = [delivered EXCEPT ![n] = SubSeq(decided, 1, k)]
    /\ IsPrefix(delivered[n], decided)
    /\ UNCHANGED decided

\* A member's process restarts.
Forget(n) == /\ delivered' = [delivered EXCEPT ![n] = <<>>]
             /\ UNCHANGED decided

Next == Decide \/ \E n \in Node : Deliver(n) \/ Forget(n)

Spec == Init /\ [][Next]_<<decided, delivered>>
=============================================================================
