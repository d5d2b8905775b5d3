------------------------------ MODULE MCApiStore ------------------------------
(* Instances of ApiStore for TLC. *)
EXTENDS ApiStore, TLC

\* Callers, names and values are compared for equality only.
Symmetric == Permutations(Caller) \cup Permutations(Name) \cup Permutations(Value)

\* The next record is missed, or the next two while the torn one decodes.
MCReadings == {[decodes |-> FALSE, misses |-> 1], [decodes |-> TRUE, misses |-> 2]}
=============================================================================
