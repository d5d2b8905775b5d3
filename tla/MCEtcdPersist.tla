---------------------------- MODULE MCEtcdPersist ----------------------------
(* Instances of EtcdPersist for TLC. *)
EXTENDS EtcdPersist, TLC

\* Neither keys nor values are ordered or compared but for equality.
Symmetric == Permutations(Key) \cup Permutations(Value)
=============================================================================
