---------------------------- MODULE MCPeerRegistry ----------------------------
(***************************************************************************)
(* The model-checking instance of PeerRegistry: every member is told of    *)
(* every other.                                                            *)
(***************************************************************************)
EXTENDS PeerRegistry

AllKnown == [n \in Node |-> Node \ {n}]
=============================================================================
