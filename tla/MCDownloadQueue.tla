---------------------------- MODULE MCDownloadQueue ----------------------------
(* DownloadQueue for TLC.                                                     *)
EXTENDS DownloadQueue, Sequences, TLC

SE == INSTANCE SequencesExt

Symmetry == Permutations(Users)

(* QueueItem::addSegment word for word: through the set in its order, each     *)
(* segment is compared with the one before it and, if that reaches it, joined   *)
(* with it.                                                                  *)
Loop(D, s) ==
    LET join(q, t) == IF q # <<>> /\ SE!Last(q).end >= t.start
                      THEN Append(SE!Front(q), Segment(SE!Last(q).start, t.end))
                      ELSE Append(q, t)
    IN  SE!ToSet(SE!FoldLeft(join, <<>>, SE!SetToSortSeq(D \cup {s}, Before)))

(* AddSegment is what that loop does with a set it has left, for every segment *)
(* of a file of four blocks.                                                 *)
Parts == {s \in [start : 0 .. 4, end : 0 .. 4] : s.start < s.end}
ASSUME AddSegmentIsTheLoop ==
    \A D \in SUBSET Parts : Consolidated(D) => \A s \in Parts : AddSegment(D, s) = Loop(D, s)
================================================================================
