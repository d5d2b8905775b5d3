------------------------------- MODULE AtomicKv -------------------------------
(***************************************************************************)
(* What a client of the store expects of one key-value map: every put acts *)
(* on the pair that is there (its version grows by one, its creation stays)*)
(* at a revision above every pair's, every delete removes what is there.   *)
(***************************************************************************)
EXTENDS KvOps

CONSTANT Revision    \* the revisions puts may be given

VARIABLE cell        \* live key -> its pair

AtomicInit == cell = EmptyMap

AtomicPut(k, v, l) ==
    \E r \in Revision :
        /\ \A x \in DOMAIN cell : cell[x].mod < r
        /\ cell' = Extend(cell, k, NextKv(Row(cell, k), v, l, r))

AtomicDelete(k) ==
    /\ k \in DOMAIN cell
    /\ cell' = Without(cell, {k})

AtomicNext ==
    \E k \in Key :
        \/ \E v \in Value, l \in LeaseId \cup {NoLease} : AtomicPut(k, v, l)
        \/ AtomicDelete(k)

AtomicSpec == AtomicInit /\ [][AtomicNext]_cell
=============================================================================
