----------------------------- MODULE MCWritePath -----------------------------
(***************************************************************************)
(* Model-checking instances of WritePath.                                  *)
(***************************************************************************)
EXTENDS WritePath

\* Members are interchangeable: the code compares node ids only for equality.
Symmetric == Permutations(Node)

\* Bounds of the run.  With all members taking part, leaders change but
\* nobody restarts and a leader appends one entry; restarts and longer logs
\* happen where one member has not been heard of yet.
OneApart ==
    \E z \in Node :
        /\ persistent'[z] = [term |-> 0, vote |-> None, log |-> <<>>]
        /\ \A m \in rpcs' : z \notin {m.src, m.dst}

PathBound ==
    \/ crashes' = 0 /\ \A n \in Node : Len(persistent'[n].log) <= 1
    \/ OneApart
=============================================================================
