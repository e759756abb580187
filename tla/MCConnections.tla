---------------------------- MODULE MCConnections ----------------------------
(* Connections for TLC: connection objects are interchangeable.              *)
EXTENDS Connections, TLC

ConnSymmetry == Permutations(Conns)
==============================================================================
