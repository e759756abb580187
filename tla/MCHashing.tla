------------------------------- MODULE MCHashing -------------------------------
(* Hashing for TLC: a file of two chunks and one of one.                     *)
EXTENDS Hashing

TwoChunks == [f \in Files |-> IF f = 1 THEN 2 ELSE 1]
================================================================================
