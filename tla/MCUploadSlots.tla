----------------------------- MODULE MCUploadSlots -----------------------------
(* UploadSlots for TLC: connections are interchangeable, and so are users    *)
(* as long as none of them is a favorite.                                    *)
EXTENDS UploadSlots, TLC

Symmetry == Permutations(Conns) \cup Permutations(Users)
==============================================================================
