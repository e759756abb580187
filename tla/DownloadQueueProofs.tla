-------------------------- MODULE DownloadQueueProofs --------------------------
(***************************************************************************)
(* Proofs about DownloadQueue, for any users, file and number of segments.    *)
(***************************************************************************)
EXTENDS DownloadQueue, Induction

------------------------------------------------------------------------------
(* Segments.                                                                 *)

LEMMA CoveredMember ==
    ASSUME NEW D, NEW x
    PROVE  x \in Covered(D) <=> \E s \in D : x \in s.start .. s.end - 1
BY DEF Covered

(* The neighbours addSegment joins s with, and where what it makes of them      *)
(* begins and ends.                                                          *)
Left(D, s)  == {t \in D : /\ Before(t, s) /\ t.end >= s.start
                          /\ \A r \in D : Before(r, s) => ~Before(t, r)}
Right(D, s) == {t \in D : /\ Before(s, t) /\ s.end >= t.start
                          /\ \A r \in D : Before(s, r) => ~Before(r, t)}
From(D, s)  == IF Left(D, s) = {} THEN s.start ELSE (CHOOSE t \in Left(D, s) : TRUE).start
To(D, s)    == IF Right(D, s) = {} THEN s.end ELSE (CHOOSE t \in Right(D, s) : TRUE).end

LEMMA AddSegmentParts ==
    ASSUME NEW D, NEW s
    PROVE  AddSegment(D, s) =
             (D \ (Left(D, s) \cup Right(D, s) \cup {s})) \cup {Segment(From(D, s), To(D, s))}
BY DEF AddSegment, Left, Right, From, To

LEMMA SegmentFields ==
    ASSUME NEW a, NEW b
    PROVE  Segment(a, b).start = a /\ Segment(a, b).end = b
BY DEF Segment

LEMMA SegmentNumbers ==
    ASSUME NEW s \in Segments
    PROVE  /\ s.start \in Int /\ 0 <= s.start /\ s.start <= Size
           /\ s.end \in Int /\ 0 <= s.end /\ s.end <= Size + 1
BY SizeAssumption DEF Segments

LEMMA OneLeft ==
    ASSUME NEW D \in SUBSET Segments, NEW s \in Segments, NEW t \in Left(D, s)
    PROVE  Left(D, s) = {t} /\ From(D, s) = t.start
<1>1. ASSUME NEW r \in Left(D, s) PROVE r = t
  <2>1. r \in Segments /\ t \in Segments /\ ~Before(r, t) /\ ~Before(t, r)
    BY DEF Left
  <2>2. r.start = t.start /\ r.end = t.end
    BY <2>1, SizeAssumption DEF Before, Segments
  <2> QED BY <2>1, <2>2 DEF Segments
<1>2. Left(D, s) = {t}
  BY <1>1
<1> QED BY <1>2 DEF From

LEMMA OneRight ==
    ASSUME NEW D \in SUBSET Segments, NEW s \in Segments, NEW t \in Right(D, s)
    PROVE  Right(D, s) = {t} /\ To(D, s) = t.end
<1>1. ASSUME NEW r \in Right(D, s) PROVE r = t
  <2>1. r \in Segments /\ t \in Segments /\ ~Before(r, t) /\ ~Before(t, r)
    BY DEF Right
  <2>2. r.start = t.start /\ r.end = t.end
    BY <2>1, SizeAssumption DEF Before, Segments
  <2> QED BY <2>1, <2>2 DEF Segments
<1>2. Right(D, s) = {t}
  BY <1>1
<1> QED BY <1>2 DEF To

(* What was joined: on either side nothing, or one segment that touches s.     *)
LEMMA LeftEnd ==
    ASSUME NEW D \in SUBSET Segments, NEW s \in Segments
    PROVE  \/ Left(D, s) = {} /\ From(D, s) = s.start
           \/ \E t \in D : /\ Left(D, s) = {t} /\ From(D, s) = t.start
                           /\ Before(t, s) /\ t.end >= s.start
<1>1. CASE Left(D, s) = {}
  BY <1>1 DEF From
<1>2. CASE Left(D, s) # {}
  <2>1. PICK t \in Left(D, s) : TRUE
    BY <1>2
  <2>2. t \in D /\ Before(t, s) /\ t.end >= s.start
    BY DEF Left
  <2> QED BY <2>1, <2>2, OneLeft
<1> QED BY <1>1, <1>2

LEMMA RightEnd ==
    ASSUME NEW D \in SUBSET Segments, NEW s \in Segments
    PROVE  \/ Right(D, s) = {} /\ To(D, s) = s.end
           \/ \E t \in D : /\ Right(D, s) = {t} /\ To(D, s) = t.end
                           /\ Before(s, t) /\ s.end >= t.start
<1>1. CASE Right(D, s) = {}
  BY <1>1 DEF To
<1>2. CASE Right(D, s) # {}
  <2>1. PICK t \in Right(D, s) : TRUE
    BY <1>2
  <2>2. t \in D /\ Before(s, t) /\ s.end >= t.start
    BY DEF Right
  <2> QED BY <2>1, <2>2, OneRight
<1> QED BY <1>1, <1>2

LEMMA EndNumbers ==
    ASSUME NEW D \in SUBSET Segments, NEW s \in Segments
    PROVE  From(D, s) \in 0 .. Size /\ To(D, s) \in 0 .. Size + 1
<1>1. From(D, s) \in 0 .. Size
  BY LeftEnd, SegmentNumbers
<1>2. To(D, s) \in 0 .. Size + 1
  BY RightEnd, SegmentNumbers
<1> QED BY <1>1, <1>2

LEMMA AddSegmentType ==
    ASSUME NEW D \in SUBSET Segments, NEW s \in Segments
    PROVE  AddSegment(D, s) \in SUBSET Segments
<1>1. Segment(From(D, s), To(D, s)) \in Segments
  BY EndNumbers DEF Segment, Segments
<1> QED BY <1>1, AddSegmentParts

(* Nothing is finished that was not.                                         *)
LEMMA AddSegmentCovers ==
    ASSUME NEW D \in SUBSET Segments, NEW s \in Segments
    PROVE  Covered(AddSegment(D, s)) \subseteq Covered(D) \cup (s.start .. s.end - 1)
<1> DEFINE new == Segment(From(D, s), To(D, s))
<1>1. ASSUME NEW x \in new.start .. new.end - 1
      PROVE  x \in Covered(D) \/ x \in s.start .. s.end - 1
  <2>1. x \in From(D, s) .. To(D, s) - 1
    BY SegmentFields
  <2>2. From(D, s) \in Int /\ To(D, s) \in Int /\ s.start \in Int /\ s.end \in Int
    BY EndNumbers, SegmentNumbers, SizeAssumption
  <2>3. CASE x < s.start
    <3>0. From(D, s) # s.start
      BY <2>1, <2>2, <2>3
    <3>1. PICK t \in D : From(D, s) = t.start /\ t.end >= s.start
      BY <3>0, LeftEnd
    <3>2. t.start \in Int /\ t.end \in Int
      BY <3>1, SegmentNumbers
    <3> QED BY <2>1, <2>2, <2>3, <3>1, <3>2, CoveredMember
  <2>4. CASE x >= s.end
    <3>0. To(D, s) # s.end
      BY <2>1, <2>2, <2>4
    <3>1. PICK t \in D : To(D, s) = t.end /\ s.end >= t.start
      BY <3>0, RightEnd
    <3>2. t.start \in Int /\ t.end \in Int
      BY <3>1, SegmentNumbers
    <3> QED BY <2>1, <2>2, <2>4, <3>1, <3>2, CoveredMember
  <2> QED BY <2>1, <2>2, <2>3, <2>4
<1>2. ASSUME NEW x \in Covered(AddSegment(D, s))
      PROVE  x \in Covered(D) \/ x \in s.start .. s.end - 1
  <2>1. PICK t \in AddSegment(D, s) : x \in t.start .. t.end - 1
    BY CoveredMember
  <2>2. CASE t = new
    BY <1>1, <2>1, <2>2
  <2>3. CASE t \in D
    BY <2>1, <2>3, CoveredMember
  <2> QED BY <2>1, <2>2, <2>3, AddSegmentParts
<1> QED BY <1>2

(* A segment of the file, and one that has blocks nobody finished.            *)
Proper(s)      == s \in [start : Int, end : Int] /\ 0 <= s.start /\ s.start < s.end /\ s.end <= Size
Unfinished(D, s) == \A x \in s.start .. s.end - 1 : x \notin Covered(D)

LEMMA ProperSegments == ASSUME NEW s, Proper(s) PROVE s \in Segments
BY SizeAssumption DEF Proper, Segments

LEMMA UnfinishedApart ==
    ASSUME NEW D, \A t \in D : Proper(t), NEW s, Proper(s), Unfinished(D, s), NEW t \in D
    PROVE  /\ Before(t, s) => t.end <= s.start
           /\ Before(s, t) => s.end <= t.start
           /\ t # s /\ (Before(t, s) \/ Before(s, t))
<1>1. Proper(t)
  OBVIOUS
<1>2. t.end <= s.start \/ s.end <= t.start
  <2>1. SUFFICES ASSUME t.end > s.start, s.end > t.start PROVE FALSE
    BY <1>1 DEF Proper
  <2> DEFINE x == IF s.start <= t.start THEN t.start ELSE s.start
  <2>2. x \in t.start .. t.end - 1 /\ x \in s.start .. s.end - 1
    BY <1>1, <2>1 DEF Proper
  <2> QED BY <2>2, CoveredMember DEF Unfinished
<1> QED BY <1>1, <1>2 DEF Proper, Before

(* Adding an unfinished segment keeps what there was and leaves the set        *)
(* consolidated.                                                             *)
LEMMA AddSegmentEnds ==
    ASSUME NEW D, \A t \in D : Proper(t), NEW s, Proper(s), Unfinished(D, s)
    PROVE  /\ Proper(Segment(From(D, s), To(D, s)))
           /\ From(D, s) <= s.start /\ s.end <= To(D, s)
           /\ \A t \in Left(D, s) : t.start = From(D, s) /\ t.end <= To(D, s)
           /\ \A t \in Right(D, s) : From(D, s) <= t.start /\ t.end = To(D, s)
<1> DEFINE Low  == /\ From(D, s) \in Int /\ 0 <= From(D, s) /\ From(D, s) <= s.start
                   /\ \A t \in Left(D, s) : t.start = From(D, s) /\ t.end <= s.start
           High == /\ To(D, s) \in Int /\ To(D, s) <= Size /\ s.end <= To(D, s)
                   /\ \A t \in Right(D, s) : s.end <= t.start /\ t.end = To(D, s)
<1>1. D \in SUBSET Segments /\ s \in Segments
  BY ProperSegments
<1>2. Low
  <2>1. CASE Left(D, s) = {} /\ From(D, s) = s.start
    BY <2>1 DEF Proper
  <2>2. ASSUME NEW t \in D, Left(D, s) = {t}, From(D, s) = t.start, Before(t, s)
        PROVE  Low
    BY <2>2, UnfinishedApart DEF Proper
  <2> QED BY <1>1, <2>1, <2>2, LeftEnd
<1>3. High
  <2>1. CASE Right(D, s) = {} /\ To(D, s) = s.end
    BY <2>1 DEF Proper
  <2>2. ASSUME NEW t \in D, Right(D, s) = {t}, To(D, s) = t.end, Before(s, t)
        PROVE  High
    BY <2>2, UnfinishedApart DEF Proper
  <2> QED BY <1>1, <2>1, <2>2, RightEnd
<1>4. Left(D, s) \subseteq D /\ Right(D, s) \subseteq D
  BY DEF Left, Right
<1> QED BY <1>2, <1>3, <1>4 DEF Proper, Segment

LEMMA AddSegmentKeeps ==
    ASSUME NEW D, \A t \in D : Proper(t), NEW s, Proper(s), Unfinished(D, s)
    PROVE  /\ Covered(D) \subseteq Covered(AddSegment(D, s))
           /\ \A t \in AddSegment(D, s) : Proper(t)
<1> DEFINE new == Segment(From(D, s), To(D, s))
<1>1. new \in AddSegment(D, s) /\ new.start = From(D, s) /\ new.end = To(D, s)
  BY AddSegmentParts, SegmentFields
<1>2. ASSUME NEW x \in Covered(D) PROVE x \in Covered(AddSegment(D, s))
  <2>1. PICK t \in D : x \in t.start .. t.end - 1
    BY CoveredMember
  <2>2. CASE t \in Left(D, s) \cup Right(D, s)
    <3>1. From(D, s) <= t.start /\ t.end <= To(D, s)
      BY <2>2, AddSegmentEnds DEF Proper, Segment
    <3>2. Proper(t) /\ Proper(Segment(From(D, s), To(D, s)))
      BY AddSegmentEnds
    <3>3. x \in new.start .. new.end - 1
      BY <1>1, <2>1, <3>1, <3>2 DEF Proper
    <3> QED BY <1>1, <3>3, CoveredMember
  <2>3. CASE t \notin Left(D, s) \cup Right(D, s)
    <3>1. t \in AddSegment(D, s)
      BY <2>3, AddSegmentParts, UnfinishedApart
    <3> QED BY <2>1, <3>1, CoveredMember
  <2> QED BY <2>2, <2>3
<1>3. \A t \in AddSegment(D, s) : Proper(t)
  BY AddSegmentParts, AddSegmentEnds
<1> QED BY <1>2, <1>3

LEMMA AddSegmentConsolidated ==
    ASSUME NEW D, \A t \in D : Proper(t), NEW s, Proper(s), Unfinished(D, s), Consolidated(D)
    PROVE  Consolidated(AddSegment(D, s))
<1> DEFINE new == Segment(From(D, s), To(D, s))
<1>0. new.start = From(D, s) /\ new.end = To(D, s) /\ Proper(new)
  BY SegmentFields, AddSegmentEnds
<1>1. D \in SUBSET Segments /\ s \in Segments
  BY ProperSegments
<1>2. ASSUME NEW t \in D, t \notin Left(D, s), Before(t, s) PROVE t.end < From(D, s)
  <2>1. Proper(t) /\ t.end <= s.start
    BY <1>2, UnfinishedApart
  <2>2. CASE Left(D, s) = {}
    <3>1. SUFFICES ASSUME t.end >= s.start PROVE FALSE
      BY <2>1, <2>2 DEF From, Proper
    <3>2. PICK r \in D : Before(r, s) /\ Before(t, r)
      BY <1>2, <2>2, <3>1 DEF Left
    <3>3. Proper(r) /\ r.end <= s.start /\ t # r /\ Apart(t, r)
      BY <3>2, <2>1, UnfinishedApart DEF Before, Proper, Consolidated
    <3> QED BY <2>1, <3>1, <3>2, <3>3 DEF Apart, Proper, Before
  <2>3. ASSUME NEW l \in D, Left(D, s) = {l}, From(D, s) = l.start PROVE t.end < From(D, s)
    <3>1. Proper(l) /\ t # l /\ Apart(t, l) /\ ~Before(l, t)
      BY <1>2, <2>3 DEF Consolidated, Left
    <3> QED BY <2>1, <2>3, <3>1 DEF Apart, Proper, Before
  <2> QED BY <1>1, <2>2, <2>3, LeftEnd
<1>3. ASSUME NEW t \in D, t \notin Right(D, s), Before(s, t) PROVE To(D, s) < t.start
  <2>1. Proper(t) /\ s.end <= t.start
    BY <1>3, UnfinishedApart
  <2>2. CASE Right(D, s) = {}
    <3>1. SUFFICES ASSUME s.end >= t.start PROVE FALSE
      BY <2>1, <2>2 DEF To, Proper
    <3>2. PICK r \in D : Before(s, r) /\ Before(r, t)
      BY <1>3, <2>2, <3>1 DEF Right
    <3>3. Proper(r) /\ s.end <= r.start /\ t # r /\ Apart(t, r)
      BY <3>2, <2>1, UnfinishedApart DEF Before, Proper, Consolidated
    <3> QED BY <2>1, <3>1, <3>2, <3>3 DEF Apart, Proper, Before
  <2>3. ASSUME NEW l \in D, Right(D, s) = {l}, To(D, s) = l.end PROVE To(D, s) < t.start
    <3>1. Proper(l) /\ t # l /\ Apart(t, l) /\ ~Before(t, l)
      BY <1>3, <2>3 DEF Consolidated, Right
    <3> QED BY <2>1, <2>3, <3>1 DEF Apart, Proper, Before
  <2> QED BY <1>1, <2>2, <2>3, RightEnd
<1>4. ASSUME NEW t \in D, t \notin Left(D, s) \cup Right(D, s) PROVE Apart(t, new) /\ Apart(new, t)
  BY <1>0, <1>2, <1>3, <1>4, UnfinishedApart DEF Apart
<1> QED BY <1>4, AddSegmentParts DEF Consolidated

(* All blocks finished, and the file is.                                     *)
LEMMA AllFinished ==
    ASSUME NEW D, \A t \in D : Proper(t), Consolidated(D), Blocks \subseteq Covered(D)
    PROVE  IsFinished(D)
<1>1. PICK s \in D : 0 \in s.start .. s.end - 1
  BY SizeAssumption, CoveredMember DEF Blocks
<1>2. Proper(s) /\ s.start = 0
  BY <1>1 DEF Proper
<1>3. s.end = Size
  <2> SUFFICES ASSUME s.end # Size PROVE FALSE
    OBVIOUS
  <2>1. s.end \in Blocks
    BY <1>2, SizeAssumption DEF Proper, Blocks
  <2>2. PICK t \in D : s.end \in t.start .. t.end - 1
    BY <2>1, CoveredMember
  <2>3. t # s /\ Proper(t)
    BY <1>2, <2>2 DEF Proper
  <2> QED BY <1>2, <2>2, <2>3 DEF Consolidated, Apart, Proper
<1>4. ASSUME NEW t \in D PROVE t = s
  BY <1>2, <1>3, <1>4 DEF Consolidated, Apart, Proper
<1>5. s = Segment(0, Size)
  BY <1>2, <1>3 DEF Proper, Segment
<1> QED BY <1>4, <1>5 DEF IsFinished

(* A finished set as addSegment leaves it.                                    *)
Tidy(D) == (\A s \in D : Proper(s)) /\ Consolidated(D)

LEMMA TidyEmpty == Tidy({})
BY DEF Tidy, Consolidated

(* The order of the set is a total one, and every set of segments has a first   *)
(* and a last in it.                                                         *)
First(T) == {t \in T : \A r \in T : ~Before(r, t)}
Last(T)  == {t \in T : \A r \in T : ~Before(t, r)}

LEMMA Ordered ==
    ASSUME NEW a \in Segments, NEW b \in Segments
    PROVE  /\ a # b => Before(a, b) \/ Before(b, a)
           /\ Before(a, b) => ~Before(b, a) /\ a # b
           /\ \A c \in Segments : Before(a, b) /\ Before(b, c) => Before(a, c)
           /\ \A c \in Segments : ~Before(b, a) /\ Before(b, c) => Before(a, c)
           /\ \A c \in Segments : Before(a, b) /\ ~Before(c, b) => Before(a, c)
<1>1. a \in [start : Int, end : Int] /\ b \in [start : Int, end : Int]
  BY SizeAssumption DEF Segments
<1>2. a.start = b.start /\ a.end = b.end => a = b
  BY <1>1
<1> QED BY <1>2, SegmentNumbers DEF Before

LEMMA FirstExists ==
    ASSUME NEW T \in SUBSET Segments, T # {}
    PROVE  First(T) # {}
<1>1. PICK a \in {t.start : t \in T} : \A m \in {t.start : t \in T} : a <= m
  <2>1. {t.start : t \in T} \in SUBSET Nat /\ {t.start : t \in T} # {}
    BY SegmentNumbers
  <2> QED BY <2>1, NatMin
<1> DEFINE U == {t \in T : t.start = a}
<1>2. PICK b \in {t.end : t \in U} : \A m \in {t.end : t \in U} : b <= m
  <2>1. {t.end : t \in U} \in SUBSET Nat /\ {t.end : t \in U} # {}
    BY SegmentNumbers
  <2> QED BY <2>1, NatMin
<1>3. PICK t \in T : t.start = a /\ t.end = b
  BY <1>2
<1>4. ASSUME NEW r \in T PROVE ~Before(r, t)
  <2>1. /\ r.start \in Int /\ r.end \in Int /\ t.start \in Int /\ t.end \in Int
        /\ a <= r.start /\ (r.start = a => b <= r.end)
    BY <1>1, <1>2, SegmentNumbers
  <2> QED BY <1>3, <2>1 DEF Before
<1> QED BY <1>3, <1>4 DEF First

LEMMA LastExists ==
    ASSUME NEW T \in SUBSET Segments, T # {}
    PROVE  Last(T) # {}
<1>1. PICK a \in {Size - t.start : t \in T} : \A m \in {Size - t.start : t \in T} : a <= m
  <2>1. {Size - t.start : t \in T} \in SUBSET Nat /\ {Size - t.start : t \in T} # {}
    BY SegmentNumbers, SizeAssumption
  <2> QED BY <2>1, NatMin
<1> DEFINE U == {t \in T : Size - t.start = a}
<1>2. PICK b \in {Size + 1 - t.end : t \in U} : \A m \in {Size + 1 - t.end : t \in U} : b <= m
  <2>1. {Size + 1 - t.end : t \in U} \in SUBSET Nat /\ {Size + 1 - t.end : t \in U} # {}
    BY SegmentNumbers, SizeAssumption
  <2> QED BY <2>1, NatMin
<1>3. PICK t \in T : Size - t.start = a /\ Size + 1 - t.end = b
  BY <1>2
<1>4. ASSUME NEW r \in T PROVE ~Before(t, r)
  <2>1. /\ r.start \in Int /\ r.end \in Int /\ t.start \in Int /\ t.end \in Int
        /\ a <= Size - r.start /\ (Size - r.start = a => b <= Size + 1 - r.end)
    BY <1>1, <1>2, SegmentNumbers
  <2> QED BY <1>3, <2>1, SizeAssumption DEF Before
<1> QED BY <1>3, <1>4 DEF Last

LEMMA OneFirst ==
    ASSUME NEW T \in SUBSET Segments, NEW t \in First(T)
    PROVE  First(T) = {t} /\ t \in T /\ \A r \in T : r = t \/ Before(t, r)
BY Ordered DEF First

LEMMA OneLast ==
    ASSUME NEW T \in SUBSET Segments, NEW t \in Last(T)
    PROVE  Last(T) = {t} /\ t \in T /\ \A r \in T : r = t \/ Before(r, t)
BY Ordered DEF Last

(* Left and Right are the neighbours, if they touch.                          *)
LEMMA Neighbours ==
    ASSUME NEW D \in SUBSET Segments, NEW s \in Segments
    PROVE  /\ Left(D, s)  = {t \in Last({r \in D : Before(r, s)}) : t.end >= s.start}
           /\ Right(D, s) = {t \in First({r \in D : Before(s, r)}) : s.end >= t.start}
BY DEF Left, Right, First, Last

LEMMA ApartBefore ==
    ASSUME NEW s, NEW t, Proper(s), Proper(t), Apart(s, t), Before(s, t)
    PROVE  s.end < t.start
BY DEF Proper, Apart, Before

(* Consolidation works for whatever segment comes, be it finished or overlapping  *)
(* with what is.                                                             *)
LEMMA AddSegmentTidy ==
    ASSUME NEW D, Tidy(D), NEW s, Proper(s)
    PROVE  Tidy(AddSegment(D, s))
<1> DEFINE new == Segment(From(D, s), To(D, s))
<1>1. D \in SUBSET Segments /\ s \in Segments /\ \A t \in D : Proper(t)
  BY ProperSegments DEF Tidy
<1>2. \A t \in D : t # s => t \in Segments /\ (Before(t, s) \/ Before(s, t))
  BY <1>1, Ordered
<1>3. /\ From(D, s) \in Int /\ 0 <= From(D, s) /\ From(D, s) <= s.start
      /\ To(D, s) \in Int /\ s.start < To(D, s) /\ To(D, s) <= Size
  <2>1. From(D, s) \in Int /\ To(D, s) \in Int /\ 0 <= From(D, s)
    BY <1>1, EndNumbers, SizeAssumption
  <2>2. From(D, s) <= s.start
    BY <1>1, LeftEnd DEF Before, Proper
  <2>3. s.start < To(D, s) /\ To(D, s) <= Size
    <3>1. CASE To(D, s) = s.end
      BY <3>1 DEF Proper
    <3>2. ASSUME NEW t \in D, To(D, s) = t.end, Before(s, t) PROVE s.start < To(D, s) /\ To(D, s) <= Size
      <4>1. Proper(t)
        BY <1>1
      <4> QED BY <3>2, <4>1 DEF Before, Proper
    <3> QED BY <1>1, <3>1, <3>2, RightEnd
  <2> QED BY <2>1, <2>2, <2>3
<1>4. new.start = From(D, s) /\ new.end = To(D, s) /\ Proper(new)
  BY <1>3 DEF Proper, Segment
<1>5. ASSUME NEW t \in D, t \notin Left(D, s), Before(t, s) PROVE t.end < From(D, s)
  <2> DEFINE T == {r \in D : Before(r, s)}
  <2>1. PICK l \in Last(T) : TRUE
    BY <1>1, <1>5, LastExists
  <2>2. Last(T) = {l} /\ l \in D /\ Before(l, s) /\ (t = l \/ Before(t, l))
    BY <1>1, <1>5, OneLast
  <2>3. t # l => t.end < l.start
    BY <1>1, <2>2, ApartBefore DEF Tidy, Consolidated
  <2>4. CASE l \in Left(D, s)
    BY <1>1, <1>5, <2>3, <2>4, OneLeft
  <2>5. CASE l \notin Left(D, s)
    <3>0. Left(D, s) = {r \in {l} : r.end >= s.start}
      BY <1>1, <2>2, Neighbours
    <3>1. Left(D, s) = {} /\ l.end < s.start
      <4>1. Left(D, s) = {} /\ ~(l.end >= s.start)
        BY <2>5, <3>0
      <4> QED BY <1>1, <2>2, <4>1, SegmentNumbers
    <3>2. From(D, s) = s.start
      BY <3>1 DEF From
    <3> QED BY <1>1, <2>2, <2>3, <3>1, <3>2 DEF Proper
  <2> QED BY <2>4, <2>5
<1>6. ASSUME NEW t \in D, t \notin Right(D, s), Before(s, t) PROVE To(D, s) < t.start
  <2> DEFINE T == {r \in D : Before(s, r)}
  <2>1. PICK l \in First(T) : TRUE
    BY <1>1, <1>6, FirstExists
  <2>2. First(T) = {l} /\ l \in D /\ Before(s, l) /\ (t = l \/ Before(l, t))
    BY <1>1, <1>6, OneFirst
  <2>3. t # l => l.end < t.start
    BY <1>1, <2>2, ApartBefore DEF Tidy, Consolidated
  <2>4. CASE l \in Right(D, s)
    BY <1>1, <1>6, <2>3, <2>4, OneRight
  <2>5. CASE l \notin Right(D, s)
    <3>0. Right(D, s) = {r \in {l} : s.end >= r.start}
      BY <1>1, <2>2, Neighbours
    <3>1. Right(D, s) = {} /\ s.end < l.start
      <4>1. Right(D, s) = {} /\ ~(s.end >= l.start)
        BY <2>5, <3>0
      <4> QED BY <1>1, <2>2, <4>1, SegmentNumbers
    <3>2. To(D, s) = s.end
      BY <3>1 DEF To
    <3> QED BY <1>1, <2>2, <2>3, <3>1, <3>2 DEF Proper
  <2> QED BY <2>4, <2>5
<1>7. ASSUME NEW t \in D, t \notin Left(D, s) \cup Right(D, s) \cup {s}
      PROVE  Apart(t, new) /\ Apart(new, t)
  BY <1>2, <1>4, <1>5, <1>6, <1>7 DEF Apart
<1> HIDE DEF new
<1>8. AddSegment(D, s) = (D \ (Left(D, s) \cup Right(D, s) \cup {s})) \cup {new}
  BY AddSegmentParts DEF new
<1> QED BY <1>1, <1>4, <1>7, <1>8 DEF Tidy, Consolidated

(* AddBlocks goes from block to block: what it adds for block b - 1.            *)
Found(b) == Segment(b - 1, IF b = Size /\ Ragged THEN Size + 1 ELSE b)

LEMMA FoundSegment ==
    ASSUME NEW b \in 1 .. Size
    PROVE  /\ Found(b) \in Segments
           /\ Found(b).start .. Found(b).end - 1 \subseteq {b - 1, Size}
           /\ ~Ragged => Proper(Found(b))
<1>1. Found(b) \in Segments
  BY SizeAssumption DEF Found, Segment, Segments
<1>2. Found(b).start = b - 1 /\ Found(b).end = IF b = Size /\ Ragged THEN Size + 1 ELSE b
  BY SegmentFields DEF Found
<1>3. ~Ragged => Proper(Found(b))
  BY <1>2, SizeAssumption DEF Found, Segment, Proper
<1> QED BY <1>1, <1>2, <1>3, SizeAssumption

Adds(add, D, M) ==
    /\ add[0] = D /\ AddBlocks(D, M) = add[Size]
    /\ \A b \in 1 .. Size :
           add[b] = IF b - 1 \in M THEN AddSegment(add[b - 1], Found(b)) ELSE add[b - 1]

LEMMA AddBlocksSteps ==
    ASSUME NEW D \in SUBSET Segments, NEW M
    PROVE  \E add \in [0 .. Size -> SUBSET Segments] : Adds(add, D, M)
<1> DEFINE step == [p \in Nat \X SUBSET Segments |->
                       IF p[1] + 1 \in 1 .. Size /\ p[1] \in M
                       THEN AddSegment(p[2], Found(p[1] + 1)) ELSE p[2]]
           Is(add) == add = [b \in 0 .. Size |->
                                IF b = 0 THEN D
                                ELSE IF b - 1 \in M
                                     THEN AddSegment(add[b - 1],
                                            Segment(b - 1, IF b = Size /\ Ragged THEN Size + 1 ELSE b))
                                     ELSE add[b - 1]]
           add == CHOOSE k : Is(k)
<1>1. Size \in Nat
  BY SizeAssumption
<1>2. step \in [Nat \X SUBSET Segments -> SUBSET Segments]
  <2> SUFFICES ASSUME NEW p \in Nat \X SUBSET Segments PROVE step[p] \in SUBSET Segments
    OBVIOUS
  <2>1. p[2] \in SUBSET Segments
    OBVIOUS
  <2>2. p[1] + 1 \in 1 .. Size => AddSegment(p[2], Found(p[1] + 1)) \in SUBSET Segments
    BY <2>1, FoundSegment, AddSegmentType
  <2> QED BY <2>1, <2>2
<1>3. PICK f \in [0 .. Size -> SUBSET Segments] : Recurs(f, Size, D, step)
  <2> HIDE DEF step, Is
  <2> QED BY <1>1, <1>2, RecursionExists
<1>4. ASSUME NEW b \in 1 .. Size
      PROVE  f[b] = IF b - 1 \in M THEN AddSegment(f[b - 1], Found(b)) ELSE f[b - 1]
  <2>1. b - 1 \in 0 .. Size /\ b - 1 \in Nat /\ b - 1 + 1 = b /\ b \in 0 .. Size /\ b # 0
    BY <1>1
  <2>2. <<b - 1, f[b - 1]>> \in Nat \X SUBSET Segments
    BY <2>1
  <2>3. step[<<b - 1, f[b - 1]>>]
          = IF b - 1 \in M THEN AddSegment(f[b - 1], Found(b)) ELSE f[b - 1]
    BY <2>1, <2>2
  <2>4. f[b] = step[<<b - 1, f[b - 1]>>]
    BY <1>3, <2>1 DEF Recurs
  <2> HIDE DEF step
  <2> QED BY <2>3, <2>4
<1>5. Is(f)
  <2>1. f[0] = D
    BY <1>3 DEF Recurs
  <2>2. \A b \in 0 .. Size : b = 0 \/ b \in 1 .. Size
    BY <1>1
  <2>3. \A b \in 0 .. Size :
            f[b] = IF b = 0 THEN D
                   ELSE IF b - 1 \in M
                        THEN AddSegment(f[b - 1],
                               Segment(b - 1, IF b = Size /\ Ragged THEN Size + 1 ELSE b))
                        ELSE f[b - 1]
    <3> HIDE DEF step
    <3> QED BY <1>4, <2>1, <2>2 DEF Found
  <2>4. f = [b \in 0 .. Size |-> f[b]]
    OBVIOUS
  <2> QED BY <2>3, <2>4
<1>6. Is(add)
  <2> HIDE DEF Is
  <2> QED BY <1>5
<1>7. AddBlocks(D, M) = add[Size]
  BY DEF AddBlocks
<1> HIDE DEF add, step
<1>8. /\ DOMAIN add = 0 .. Size
      /\ \A b \in 0 .. Size :
            add[b] = IF b = 0 THEN D
                     ELSE IF b - 1 \in M THEN AddSegment(add[b - 1], Found(b)) ELSE add[b - 1]
  BY <1>6 DEF Found
<1>9. add[0] = D /\ \A b \in 1 .. Size :
          add[b] = IF b - 1 \in M THEN AddSegment(add[b - 1], Found(b)) ELSE add[b - 1]
  <2>1. 0 \in 0 .. Size /\ \A b \in 1 .. Size : b \in 0 .. Size /\ b # 0
    BY <1>1
  <2> QED BY <1>8, <2>1
<1> DEFINE S == {n \in Nat : n <= Size => add[n] \in SUBSET Segments}
<1>10. 0 \in S
  BY <1>9
<1>11. ASSUME NEW n \in Nat, n \in S PROVE n + 1 \in S
  <2> SUFFICES ASSUME n + 1 <= Size PROVE add[n + 1] \in SUBSET Segments
    OBVIOUS
  <2>1. add[n] \in SUBSET Segments /\ n + 1 \in 1 .. Size /\ n + 1 - 1 = n
    BY <1>1, <1>11
  <2>2. AddSegment(add[n], Found(n + 1)) \in SUBSET Segments
    BY <2>1, FoundSegment, AddSegmentType
  <2>3. add[n + 1] = IF n \in M THEN AddSegment(add[n], Found(n + 1)) ELSE add[n]
    BY <1>9, <2>1
  <2> QED BY <2>1, <2>2, <2>3
<1>12. Nat \subseteq S
  <2> HIDE DEF S
  <2> QED BY <1>10, <1>11, SetInduction
<1>13. add \in [0 .. Size -> SUBSET Segments]
  <2>1. add = [b \in 0 .. Size |-> add[b]]
    BY <1>6
  <2>2. \A b \in 0 .. Size : add[b] \in SUBSET Segments
    BY <1>1, <1>12
  <2> QED BY <2>1, <2>2
<1> QED BY <1>7, <1>9, <1>13 DEF Adds

(* What holds of D and is kept by each block that is found holds at the end.    *)
KeptIn(T, M) ==
    \A E \in T \cap SUBSET Segments, b \in 1 .. Size :
        b - 1 \in M => AddSegment(E, Found(b)) \in T

LEMMA AddBlocksInduction ==
    ASSUME NEW D \in SUBSET Segments, NEW M, NEW T, D \in T, KeptIn(T, M)
    PROVE  AddBlocks(D, M) \in T /\ AddBlocks(D, M) \in SUBSET Segments
<1>1. PICK add \in [0 .. Size -> SUBSET Segments] : Adds(add, D, M)
  BY AddBlocksSteps
<1> DEFINE S == {n \in Nat : n <= Size => add[n] \in T}
<1>2. 0 \in S
  BY <1>1 DEF Adds
<1>3. ASSUME NEW n \in Nat, n \in S PROVE n + 1 \in S
  <2> SUFFICES ASSUME n + 1 <= Size PROVE add[n + 1] \in T
    OBVIOUS
  <2>1. add[n] \in T /\ add[n] \in SUBSET Segments /\ n + 1 \in 1 .. Size /\ n + 1 - 1 = n
    BY <1>1, <1>3, SizeAssumption
  <2>2. add[n + 1] = IF n \in M THEN AddSegment(add[n], Found(n + 1)) ELSE add[n]
    BY <1>1, <2>1 DEF Adds
  <2> QED BY <2>1, <2>2 DEF KeptIn
<1>4. Nat \subseteq S
  <2> HIDE DEF S
  <2> QED BY <1>2, <1>3, SetInduction
<1>5. Size \in Nat /\ Size \in 0 .. Size
  BY SizeAssumption
<1> QED BY <1>1, <1>4, <1>5 DEF Adds

LEMMA AddBlocksType ==
    ASSUME NEW D \in SUBSET Segments, NEW M
    PROVE  AddBlocks(D, M) \in SUBSET Segments
<1>1. KeptIn(SUBSET Segments, M)
  BY FoundSegment, AddSegmentType DEF KeptIn
<1> QED BY <1>1, AddBlocksInduction

LEMMA AddBlocksTidy ==
    ASSUME NEW D, Tidy(D), NEW M, ~Ragged
    PROVE  Tidy(AddBlocks(D, M))
<1> DEFINE T == {E \in SUBSET Segments : Tidy(E)}
<1>1. D \in SUBSET Segments
  BY ProperSegments DEF Tidy
<1>2. ASSUME NEW E \in T, NEW b \in 1 .. Size PROVE AddSegment(E, Found(b)) \in T
  BY <1>2, FoundSegment, AddSegmentType, AddSegmentTidy
<1>3. AddBlocks(D, M) \in T
  <2>1. D \in T
    BY <1>1
  <2>2. KeptIn(T, M)
    BY <1>2 DEF KeptIn
  <2> HIDE DEF T
  <2> QED BY <1>1, <2>1, <2>2, AddBlocksInduction
<1> QED BY <1>3

LEMMA AddBlocksCovers ==
    ASSUME NEW D \in SUBSET Segments, NEW M
    PROVE  Covered(AddBlocks(D, M)) \cap Blocks \subseteq Covered(D) \cup M
<1> DEFINE T == {E \in SUBSET Segments : Covered(E) \cap Blocks \subseteq Covered(D) \cup M}
<1>1. ASSUME NEW E \in T, NEW b \in 1 .. Size, b - 1 \in M PROVE AddSegment(E, Found(b)) \in T
  <2>1. AddSegment(E, Found(b)) \in SUBSET Segments
    BY FoundSegment, AddSegmentType
  <2>2. Covered(AddSegment(E, Found(b))) \subseteq Covered(E) \cup {b - 1, Size}
    BY FoundSegment, AddSegmentCovers
  <2>3. Size \notin Blocks
    BY SizeAssumption DEF Blocks
  <2> QED BY <1>1, <2>1, <2>2, <2>3
<1>2. AddBlocks(D, M) \in T
  <2>1. D \in T
    OBVIOUS
  <2>2. KeptIn(T, M)
    BY <1>1 DEF KeptIn
  <2> HIDE DEF T
  <2> QED BY <2>1, <2>2, AddBlocksInduction
<1> QED BY <1>2

------------------------------------------------------------------------------
(* QueueItem::addSegment as it is written, QueueItem.cpp:360: the segment is     *)
(* inserted, and from the second element on each is compared with the one before  *)
(* it. at is the element the iterator is at, none at the end.                  *)
LoopStart(D, s) == LET E == D \cup {s} IN [set |-> E, at |-> First(E \ First(E))]

LoopStep(x, y) ==
    \E i \in x.at : \E prev \in Last({r \in x.set : Before(r, i)}) :
        /\ y.set = IF prev.end >= i.start
                   THEN (x.set \ {prev, i}) \cup {Segment(prev.start, i.end)} ELSE x.set
        /\ y.at = First({r \in x.set : Before(i, r)})

(* What the iterator has not passed.                                          *)
Ahead(x) == {r \in x.set : \E i \in x.at : ~Before(r, i)}

(* In the loop the iterator is not past s yet and nothing was joined; or it is    *)
(* at the next and s was compared with the one before; or it is further on, and    *)
(* everything is done.                                                       *)
Half(D, s) == (D \ (Left(D, s) \cup {s})) \cup {Segment(From(D, s), s.end)}

NotYet(D, s, x) ==
    /\ x.set = D \cup {s}
    /\ \E i \in x.set, p \in D : x.at = {i} /\ ~Before(s, i) /\ Before(p, i)
HalfWay(D, s, x) ==
    x.set = Half(D, s) /\ x.at = First({r \in D : Before(s, r)})
Joined(D, s, x) ==
    /\ x.set = AddSegment(D, s)
    /\ x.at # {} => \E i, p \in x.set : x.at = {i} /\ Before(p, i)
LoopInv(D, s, x) == NotYet(D, s, x) \/ HalfWay(D, s, x) \/ Joined(D, s, x)

LEMMA LoopBegins ==
    ASSUME NEW D, Tidy(D), NEW s, Proper(s)
    PROVE  LoopInv(D, s, LoopStart(D, s))
<1> DEFINE E == D \cup {s}
           x == LoopStart(D, s)
<1>1. D \in SUBSET Segments /\ s \in Segments /\ E \in SUBSET Segments
  BY ProperSegments DEF Tidy
<1>2. PICK f \in First(E) : TRUE
  BY <1>1, FirstExists
<1>3. First(E) = {f} /\ f \in E /\ \A r \in E : r = f \/ Before(f, r)
  BY <1>1, OneFirst
<1>4. x.set = E /\ x.at = First(E \ {f})
  BY <1>3 DEF LoopStart
<1> HIDE DEF x
<1>5. ASSUME f = s PROVE LoopInv(D, s, x)
  <2>1. Left(D, s) = {}
    BY <1>1, <1>3, <1>5, Ordered DEF Left
  <2>2. Segment(From(D, s), s.end) = s
    BY <1>1, <2>1 DEF From, Segment, Segments
  <2>3. E = Half(D, s)
    BY <2>1, <2>2 DEF Half
  <2>4. E \ {f} = {r \in D : Before(s, r)}
    BY <1>1, <1>3, <1>5, Ordered
  <2> QED BY <1>4, <2>3, <2>4 DEF LoopInv, HalfWay
<1>6. ASSUME f # s PROVE LoopInv(D, s, x)
  <2>1. f \in D /\ s \in E \ {f} /\ E \ {f} \in SUBSET Segments
    BY <1>1, <1>3, <1>6
  <2>2. PICK i \in First(E \ {f}) : TRUE
    BY <2>1, FirstExists
  <2>3. x.at = {i} /\ i \in E \ {f} /\ ~Before(s, i)
    BY <1>4, <2>1, <2>2, OneFirst DEF First
  <2>4. Before(f, i)
    BY <1>3, <2>3
  <2> QED BY <1>4, <2>1, <2>3, <2>4 DEF LoopInv, NotYet
<1> QED BY <1>5, <1>6 DEF x

LEMMA LoopBefore ==
    ASSUME NEW D, Tidy(D), NEW s, Proper(s), NEW x, NEW y, NotYet(D, s, x), LoopStep(x, y)
    PROVE  LoopInv(D, s, y)
<1> DEFINE E == D \cup {s}
<1>1. D \in SUBSET Segments /\ s \in Segments /\ E \in SUBSET Segments /\ \A t \in D : Proper(t)
  BY ProperSegments DEF Tidy
<1>2. PICK i \in E : x.set = E /\ x.at = {i} /\ ~Before(s, i)
  BY DEF NotYet
<1>3. PICK prev \in Last({r \in E : Before(r, i)}) :
          /\ y.set = IF prev.end >= i.start
                     THEN (E \ {prev, i}) \cup {Segment(prev.start, i.end)} ELSE E
          /\ y.at = First({r \in E : Before(i, r)})
  BY <1>2 DEF LoopStep
<1>4. prev \in E /\ Before(prev, i) /\ i \in Segments
  BY <1>1, <1>3 DEF Last
<1>5. CASE i # s
  <2>1. Before(i, s) /\ i \in D
    BY <1>1, <1>2, <1>5, Ordered
  <2>2. prev \in D /\ prev # i
    BY <1>1, <1>4, <2>1, Ordered
  <2>3. prev.end < i.start /\ Proper(prev) /\ Proper(i)
    BY <1>1, <1>4, <2>1, <2>2, ApartBefore DEF Tidy, Consolidated
  <2>4. y.set = E
    BY <1>3, <2>3 DEF Proper
  <2> DEFINE T == {r \in E : Before(i, r)}
  <2>5. PICK j \in First(T) : TRUE
    BY <1>1, <2>1, FirstExists
  <2>6. y.at = {j} /\ j \in E /\ Before(i, j)
    BY <1>1, <1>3, <2>5, OneFirst
  <2>7. ~Before(s, j)
    BY <2>1, <2>5 DEF First
  <2> QED BY <2>1, <2>4, <2>6, <2>7 DEF LoopInv, NotYet
<1>6. CASE i = s
  <2> DEFINE B == {r \in D : Before(r, s)}
  <2>1. {r \in E : Before(r, i)} = B /\ {r \in E : Before(i, r)} = {r \in D : Before(s, r)}
    BY <1>1, <1>6, Ordered
  <2>2. Last(B) = {prev} /\ prev \in D /\ Proper(prev) /\ prev # s
    <3>1. prev \in Last(B) /\ B \in SUBSET Segments
      BY <1>1, <1>3, <2>1
    <3>2. Last(B) = {prev} /\ prev \in B
      BY <3>1, OneLast
    <3> QED BY <1>1, <3>2, Ordered
  <2>3. Left(D, s) = {r \in {prev} : r.end >= s.start}
    <3>1. Last({r \in D : Before(r, s)}) = {prev}
      BY <2>2
    <3>2. Left(D, s) = {t \in Last({r \in D : Before(r, s)}) : t.end >= s.start}
      BY <1>1, Neighbours
    <3> QED BY <3>1, <3>2
  <2>4. CASE prev.end >= s.start
    <3>1. prev \in Left(D, s)
      BY <2>3, <2>4
    <3>2. Left(D, s) = {prev} /\ From(D, s) = prev.start
      BY <1>1, <3>1, OneLeft
    <3>3. y.set = Half(D, s)
      BY <1>3, <1>6, <2>4, <3>2 DEF Half
    <3> QED BY <1>3, <2>1, <3>3 DEF LoopInv, HalfWay
  <2>5. CASE ~(prev.end >= s.start)
    <3>1. Left(D, s) = {}
      BY <2>3, <2>5
    <3>2. Segment(From(D, s), s.end) = s
      BY <1>1, <3>1 DEF From, Segment, Segments
    <3>3. y.set = Half(D, s)
      BY <1>3, <1>6, <2>5, <3>1, <3>2 DEF Half
    <3> QED BY <1>3, <2>1, <3>3 DEF LoopInv, HalfWay
  <2> QED BY <2>4, <2>5
<1> QED BY <1>5, <1>6

(* In what is half joined the new segment comes just before the next of D.       *)
LEMMA HalfOrder ==
    ASSUME NEW D, Tidy(D), NEW s, Proper(s), NEW n \in First({r \in D : Before(s, r)})
    PROVE  LET big == Segment(From(D, s), s.end) IN
           /\ Half(D, s) \in SUBSET Segments /\ big \in Half(D, s)
           /\ n \in D /\ n \in Half(D, s) /\ n # big /\ Before(s, n) /\ Before(big, n)
           /\ Last({r \in Half(D, s) : Before(r, n)}) = {big}
           /\ \A r \in Half(D, s) : Before(n, r) => r \in D
<1> DEFINE big == Segment(From(D, s), s.end)
<1>1. D \in SUBSET Segments /\ s \in Segments /\ \A t \in D : Proper(t)
  BY ProperSegments DEF Tidy
<1>2. big.start = From(D, s) /\ big.end = s.end /\ big.start \in 0 .. Size /\ big.start <= s.start
  <2>1. From(D, s) <= s.start
    BY <1>1, LeftEnd DEF Before, Proper
  <2> QED BY <1>1, <2>1, EndNumbers, SegmentFields
<1>3. big \in Segments
  BY <1>1, <1>2 DEF Segment, Segments
<1>4. n \in D /\ Before(s, n) /\ n \in Segments /\ \A r \in D : Before(s, r) => r = n \/ Before(n, r)
  <2> DEFINE T == {r \in D : Before(s, r)}
  <2>1. T \in SUBSET Segments
    BY <1>1
  <2>2. n \in T /\ \A r \in T : r = n \/ Before(n, r)
    BY <2>1, OneFirst
  <2> QED BY <1>1, <2>2
<1>5. Before(big, n)
  BY <1>1, <1>2, <1>4, SegmentNumbers DEF Before
<1>6. n \notin Left(D, s) /\ n # s /\ n # big
  BY <1>1, <1>3, <1>4, <1>5, Ordered DEF Left
<1> HIDE DEF big
<1>7. Half(D, s) = (D \ (Left(D, s) \cup {s})) \cup {big}
  BY DEF Half, big
<1>8. ASSUME NEW r \in D, r \notin Left(D, s), r # s, Before(r, n) PROVE Before(r, big)
  <2>1. Before(r, s)
    BY <1>1, <1>4, <1>8, Ordered
  <2> DEFINE T == {t \in D : Before(t, s)}
  <2>2. PICK l \in Last(T) : TRUE
    BY <1>1, <1>8, <2>1, LastExists
  <2>3. l \in D /\ Before(l, s) /\ (r = l \/ Before(r, l)) /\ Last(T) = {l}
    BY <1>1, <1>8, <2>1, OneLast
  <2>4. CASE l \in Left(D, s)
    <3>1. From(D, s) = l.start /\ r # l
      BY <1>1, <1>8, <2>4, OneLeft
    <3>2. r.end < l.start /\ Proper(r)
      BY <1>1, <2>3, <3>1, ApartBefore DEF Tidy, Consolidated
    <3> QED BY <1>1, <1>2, <3>1, <3>2, SegmentNumbers DEF Before, Proper
  <2>5. CASE l \notin Left(D, s)
    <3>1. Left(D, s) = {t \in {l} : t.end >= s.start}
      BY <1>1, <2>3, Neighbours
    <3>2. Left(D, s) = {}
      BY <2>5, <3>1
    <3>3. From(D, s) = s.start
      BY <3>2 DEF From
    <3> QED BY <1>1, <1>2, <2>1, <3>3 DEF Before
  <2> QED BY <2>4, <2>5
<1>9. Last({r \in Half(D, s) : Before(r, n)}) = {big}
  <2> DEFINE T == {r \in Half(D, s) : Before(r, n)}
  <2>1. T \in SUBSET Segments /\ big \in T
    BY <1>1, <1>3, <1>5, <1>7
  <2>2. \A r \in T : r = big \/ Before(r, big)
    BY <1>7, <1>8
  <2>3. big \in Last(T)
    BY <2>1, <2>2, Ordered DEF Last
  <2> QED BY <2>1, <2>3, OneLast
<1>10. \A r \in Half(D, s) : Before(n, r) => r \in D
  BY <1>3, <1>4, <1>5, <1>7, Ordered
<1>11. Half(D, s) \in SUBSET Segments /\ big \in Half(D, s) /\ n \in Half(D, s)
  BY <1>1, <1>3, <1>4, <1>6, <1>7
<1> QED BY <1>4, <1>5, <1>6, <1>9, <1>10, <1>11 DEF big

LEMMA LoopHalfWay ==
    ASSUME NEW D, Tidy(D), NEW s, Proper(s), NEW x, NEW y, HalfWay(D, s, x), LoopStep(x, y)
    PROVE  Joined(D, s, y)
<1> DEFINE N == First({r \in D : Before(s, r)})
           big == Segment(From(D, s), s.end)
<1>1. D \in SUBSET Segments /\ s \in Segments /\ \A t \in D : Proper(t)
  BY ProperSegments DEF Tidy
<1>2. x.set = Half(D, s) /\ x.at = N
  BY DEF HalfWay
<1>3. PICK n \in N : \E prev \in Last({r \in Half(D, s) : Before(r, n)}) :
          /\ y.set = IF prev.end >= n.start
                     THEN (Half(D, s) \ {prev, n}) \cup {Segment(prev.start, n.end)} ELSE Half(D, s)
          /\ y.at = First({r \in Half(D, s) : Before(n, r)})
  BY <1>2 DEF LoopStep
<1>4. /\ Half(D, s) \in SUBSET Segments /\ big \in Half(D, s)
      /\ n \in D /\ n \in Half(D, s) /\ n # big /\ Before(s, n) /\ Before(big, n)
      /\ Last({r \in Half(D, s) : Before(r, n)}) = {big}
      /\ \A r \in Half(D, s) : Before(n, r) => r \in D
  BY HalfOrder
<1>5. big.start = From(D, s) /\ big.end = s.end
  BY SegmentFields
<1> HIDE DEF big
<1>6. /\ y.set = IF s.end >= n.start
                 THEN (Half(D, s) \ {big, n}) \cup {Segment(From(D, s), n.end)} ELSE Half(D, s)
      /\ y.at = First({r \in Half(D, s) : Before(n, r)})
  BY <1>3, <1>4, <1>5
<1>7. N = {n}
  <2>1. {r \in D : Before(s, r)} \in SUBSET Segments
    BY <1>1
  <2> QED BY <2>1, OneFirst
<1>8. Right(D, s) = {r \in {n} : s.end >= r.start}
  BY <1>1, <1>7, Neighbours
<1>9. Half(D, s) = (D \ (Left(D, s) \cup {s})) \cup {big}
  BY DEF Half, big
<1>10. AddSegment(D, s) = (D \ (Left(D, s) \cup Right(D, s) \cup {s})) \cup {Segment(From(D, s), To(D, s))}
  BY AddSegmentParts
<1>11. Proper(n) /\ n \in Segments /\ From(D, s) \in Int
  BY <1>1, <1>4, EndNumbers
<1>12. CASE s.end >= n.start
  <2>1. n \in Right(D, s)
    BY <1>8, <1>12
  <2>2. Right(D, s) = {n} /\ To(D, s) = n.end
    BY <1>1, <2>1, OneRight
  <2> DEFINE new == Segment(From(D, s), n.end)
  <2>3. new.start = From(D, s) /\ new.end = n.end /\ From(D, s) <= n.start
    <3>1. From(D, s) <= n.start
      BY <1>1, <1>4, <1>5, <1>11, SegmentNumbers DEF Before
    <3> QED BY <3>1, SegmentFields
  <2> HIDE DEF new
  <2>4. y.set = (Half(D, s) \ {big, n}) \cup {new}
    BY <1>6, <1>12 DEF new
  <2>5. AddSegment(D, s) = (D \ (Left(D, s) \cup {n} \cup {s})) \cup {new}
    BY <1>10, <2>2 DEF new
  <2>6. big \notin D \/ big \in Left(D, s) \/ big = s \/ big = n
    (* what is joined reaches n, and segments of D do not *)
    <3>1. SUFFICES ASSUME big \in D, big # n PROVE big \in Left(D, s) \/ big = s
      OBVIOUS
    <3>2. big.end < n.start
      BY <1>1, <1>4, <3>1, ApartBefore DEF Tidy, Consolidated
    <3> QED BY <1>1, <1>5, <1>11, <1>12, <3>2, SegmentNumbers
  <2>7. y.set = AddSegment(D, s)
    BY <1>9, <2>4, <2>5, <2>6
  <2>8. ASSUME NEW r \in Half(D, s), Before(n, r) PROVE r \in y.set /\ Before(new, r)
    <3>1. r \in D /\ r # n /\ r \in Segments /\ Proper(r)
      BY <1>1, <1>4, <2>8, Ordered
    <3>2. r # big
      BY <1>1, <1>4, <2>8, <3>1, Ordered
    <3>3. n.end < r.start
      BY <1>1, <1>4, <1>11, <2>8, <3>1, ApartBefore DEF Tidy, Consolidated
    <3>4. Before(new, r)
      BY <1>11, <2>3, <3>1, <3>3 DEF Before, Proper
    <3> QED BY <2>4, <2>8, <3>1, <3>2, <3>4
  <2> DEFINE T == {r \in Half(D, s) : Before(n, r)}
  <2>9. ASSUME NEW j \in First(T) PROVE y.at = {j} /\ j \in y.set /\ Before(new, j)
    <3>1. T \in SUBSET Segments
      BY <1>4
    <3>2. First(T) = {j} /\ j \in T
      BY <3>1, <2>9, OneFirst
    <3> QED BY <1>6, <2>8, <3>2
  <2>10. new \in y.set
    BY <2>4
  <2> QED BY <1>6, <2>7, <2>9, <2>10 DEF Joined
<1>13. CASE ~(s.end >= n.start)
  <2>1. Right(D, s) = {}
    BY <1>8, <1>13
  <2>2. To(D, s) = s.end
    BY <2>1 DEF To
  <2>3. y.set = AddSegment(D, s) /\ y.set = Half(D, s)
    BY <1>6, <1>9, <1>10, <1>13, <2>1, <2>2 DEF big
  <2> DEFINE T == {r \in Half(D, s) : Before(n, r)}
  <2>4. ASSUME NEW j \in First(T) PROVE y.at = {j} /\ j \in y.set /\ Before(n, j)
    <3>1. T \in SUBSET Segments
      BY <1>4
    <3>2. First(T) = {j} /\ j \in T
      BY <3>1, <2>4, OneFirst
    <3> QED BY <1>6, <2>3, <3>2
  <2> QED BY <1>4, <1>6, <2>3, <2>4 DEF Joined
<1> QED BY <1>12, <1>13

(* After that nothing touches any more.                                       *)
LEMMA LoopAfter ==
    ASSUME NEW D, Tidy(D), NEW s, Proper(s), NEW x, NEW y, Joined(D, s, x), LoopStep(x, y)
    PROVE  Joined(D, s, y)
<1> DEFINE A == AddSegment(D, s)
<1>1. Tidy(A) /\ A \in SUBSET Segments /\ \A t \in A : Proper(t)
  <2>1. Tidy(A)
    BY AddSegmentTidy
  <2> HIDE DEF A
  <2> QED BY <2>1, ProperSegments DEF Tidy
<1>2. PICK i \in A : x.set = A /\ x.at = {i}
  BY DEF Joined, LoopStep
<1> HIDE DEF A
<1>3. PICK prev \in Last({r \in A : Before(r, i)}) :
          /\ y.set = IF prev.end >= i.start
                     THEN (A \ {prev, i}) \cup {Segment(prev.start, i.end)} ELSE A
          /\ y.at = First({r \in A : Before(i, r)})
  BY <1>2 DEF LoopStep
<1>4. prev \in A /\ Before(prev, i)
  BY <1>3 DEF Last
<1>5. prev.end < i.start
  BY <1>1, <1>4, Ordered, ApartBefore DEF Tidy, Consolidated
<1>6. y.set = A
  BY <1>1, <1>3, <1>4, <1>5, SegmentNumbers
<1> DEFINE T == {r \in A : Before(i, r)}
<1>7. ASSUME NEW j \in First(T) PROVE y.at = {j} /\ j \in A /\ Before(i, j)
  <2>1. T \in SUBSET Segments
    BY <1>1
  <2>2. First(T) = {j} /\ j \in T
    BY <2>1, <1>7, OneFirst
  <2> QED BY <1>3, <2>2
<1> QED BY <1>3, <1>6, <1>7 DEF Joined, A

LEMMA LoopKeeps ==
    ASSUME NEW D, Tidy(D), NEW s, Proper(s), NEW x, NEW y, LoopInv(D, s, x), LoopStep(x, y)
    PROVE  LoopInv(D, s, y)
BY LoopBefore, LoopHalfWay, LoopAfter DEF LoopInv

(* At the end the set is what AddSegment says; before it there is a step, and     *)
(* each step leaves less ahead, so that the end comes.                         *)
LEMMA LoopEnd ==
    ASSUME NEW D, Tidy(D), NEW s, Proper(s), NEW x, LoopInv(D, s, x), x.at = {}
    PROVE  x.set = AddSegment(D, s)
<1> DEFINE T == {r \in D : Before(s, r)}
<1>1. D \in SUBSET Segments /\ s \in Segments /\ T \in SUBSET Segments
  BY ProperSegments DEF Tidy
<1>2. CASE HalfWay(D, s, x)
  <2>1. T = {}
    BY <1>1, <1>2, FirstExists DEF HalfWay
  <2>2. Right(D, s) = {}
    BY <2>1 DEF Right
  <2>3. To(D, s) = s.end
    BY <2>2 DEF To
  <2> QED BY <1>2, <2>2, <2>3, AddSegmentParts DEF HalfWay, Half
<1> QED BY <1>2 DEF LoopInv, NotYet, Joined

LEMMA LoopGoesOn ==
    ASSUME NEW D, Tidy(D), NEW s, Proper(s), NEW x, LoopInv(D, s, x)
    PROVE  /\ x.set \in SUBSET Segments /\ x.at \subseteq x.set
           /\ \A i \in x.at : x.at = {i} /\ \E p \in x.set : Before(p, i)
<1>1. D \in SUBSET Segments /\ s \in Segments
  BY ProperSegments DEF Tidy
<1>2. CASE NotYet(D, s, x)
  BY <1>1, <1>2 DEF NotYet
<1>3. CASE HalfWay(D, s, x)
  <2>1. From(D, s) \in 0 .. Size /\ s.end \in 0 .. Size + 1
    BY <1>1, EndNumbers, SegmentNumbers
  <2>2. Half(D, s) \in SUBSET Segments
    BY <1>1, <2>1 DEF Half, Segment, Segments
  <2>3. ASSUME NEW n \in x.at
        PROVE  x.at = {n} /\ n \in x.set /\ \E p \in x.set : Before(p, n)
    <3>1. n \in First({r \in D : Before(s, r)})
      BY <1>3 DEF HalfWay
    <3>2. {r \in D : Before(s, r)} \in SUBSET Segments
      BY <1>1
    <3>3. First({r \in D : Before(s, r)}) = {n}
      BY <3>1, <3>2, OneFirst
    <3> QED BY <1>3, <3>1, <3>3, HalfOrder DEF HalfWay
  <2> QED BY <1>3, <2>2, <2>3 DEF HalfWay
<1>4. CASE Joined(D, s, x)
  <2>1. AddSegment(D, s) \in SUBSET Segments
    BY <1>1, AddSegmentType
  <2> QED BY <1>4, <2>1 DEF Joined
<1> QED BY <1>2, <1>3, <1>4 DEF LoopInv

LEMMA LoopNearer ==
    ASSUME NEW x, NEW y, x.set \in SUBSET Segments, NEW i \in x.set, x.at = {i}, LoopStep(x, y)
    PROVE  Ahead(y) \subseteq Ahead(x) /\ Ahead(y) # Ahead(x)
<1>1. PICK prev \in Last({r \in x.set : Before(r, i)}) :
          /\ y.set = IF prev.end >= i.start
                     THEN (x.set \ {prev, i}) \cup {Segment(prev.start, i.end)} ELSE x.set
          /\ y.at = First({r \in x.set : Before(i, r)})
  BY DEF LoopStep
<1>2. prev \in x.set /\ Before(prev, i) /\ prev \in Segments /\ i \in Segments
  BY <1>1 DEF Last
<1> DEFINE big == Segment(prev.start, i.end)
<1>3. big \in Segments /\ big.start = prev.start /\ big.end = i.end
  BY <1>2, SegmentNumbers DEF Segment, Segments
<1> HIDE DEF big
<1>4. i \in Ahead(x)
  BY <1>2, Ordered DEF Ahead
<1>5. ASSUME NEW j \in y.at PROVE j \in x.set /\ Before(i, j)
  BY <1>1, <1>5 DEF First
<1>6. i \notin Ahead(y)
  BY <1>5 DEF Ahead
<1>7. ASSUME NEW r \in Ahead(y) PROVE r \in Ahead(x)
  <2>1. PICK j \in y.at : r \in y.set /\ ~Before(r, j)
    BY <1>7 DEF Ahead
  <2>2. j \in Segments /\ Before(i, j)
    BY <1>5, <2>1
  <2>3. r # big
    <3>1. i.start <= j.start /\ prev.start <= i.start /\ (i.start = j.start => i.end < j.end)
      BY <1>2, <2>2, SegmentNumbers DEF Before
    <3>2. Before(big, j)
      BY <1>2, <1>3, <2>2, <3>1, SegmentNumbers DEF Before
    <3> QED BY <2>1, <3>2
  <2>4. r \in x.set
    BY <1>1, <2>1, <2>3 DEF big
  <2>5. ~Before(r, i)
    BY <1>2, <2>1, <2>2, <2>4, Ordered
  <2> QED BY <2>4, <2>5 DEF Ahead
<1> QED BY <1>4, <1>6, <1>7

LEMMA LoopHasStep ==
    ASSUME NEW x, x.set \in SUBSET Segments, NEW i \in x.at, NEW p \in x.set, Before(p, i)
    PROVE  \E y : LoopStep(x, y)
<1>1. PICK prev \in Last({r \in x.set : Before(r, i)}) : TRUE
  <2> DEFINE T == {r \in x.set : Before(r, i)}
  <2>1. T \in SUBSET Segments /\ T # {}
    OBVIOUS
  <2> QED BY <2>1, LastExists
<1> DEFINE after == IF prev.end >= i.start
                    THEN (x.set \ {prev, i}) \cup {Segment(prev.start, i.end)} ELSE x.set
           y == [set |-> after, at |-> First({r \in x.set : Before(i, r)})]
<1>2. y.set = after /\ y.at = First({r \in x.set : Before(i, r)})
  OBVIOUS
<1> HIDE DEF y
<1> QED BY <1>1, <1>2 DEF LoopStep

(* After any number of its steps on done segments that are apart, the loop of     *)
(* addSegment (QueueItem.cpp:360) has either ended with AddSegment's set, the one   *)
(* the model takes, or it goes on, and however it does less is ahead of it: the    *)
(* one pass over the set, with the iterator kept over erase and insert, joins all   *)
(* that touches and stops.                                                    *)
THEOREM LoopIsAddSegment ==
    ASSUME NEW D, Tidy(D), NEW s, Proper(s), NEW run, run[0] = LoopStart(D, s), NEW n \in Nat,
           \A k \in Nat : k < n => LoopStep(run[k], run[k + 1])
    PROVE  /\ run[n].at = {} => run[n].set = AddSegment(D, s)
           /\ run[n].at # {} =>
                /\ \E y : LoopStep(run[n], y)
                /\ \A y : LoopStep(run[n], y) =>
                     Ahead(y) \subseteq Ahead(run[n]) /\ Ahead(y) # Ahead(run[n])
<1> DEFINE S == {k \in Nat : k <= n => LoopInv(D, s, run[k])}
<1>1. 0 \in S
  BY LoopBegins
<1>2. ASSUME NEW k \in Nat, k \in S PROVE k + 1 \in S
  <2> SUFFICES ASSUME k + 1 <= n PROVE LoopInv(D, s, run[k + 1])
    OBVIOUS
  <2>1. LoopInv(D, s, run[k]) /\ LoopStep(run[k], run[k + 1])
    BY <1>2
  <2> QED BY <2>1, LoopKeeps
<1>3. Nat \subseteq S
  <2> HIDE DEF S
  <2> QED BY <1>1, <1>2, SetInduction
<1>4. LoopInv(D, s, run[n])
  BY <1>3
<1> DEFINE x == run[n]
<1>5. LoopInv(D, s, x)
  BY <1>4
<1> HIDE DEF x
<1>6. x.at = {} => x.set = AddSegment(D, s)
  BY <1>5, LoopEnd
<1>7. ASSUME x.at # {}
      PROVE  /\ \E y : LoopStep(x, y)
             /\ \A y : LoopStep(x, y) => Ahead(y) \subseteq Ahead(x) /\ Ahead(y) # Ahead(x)
  <2>1. PICK i \in x.at : TRUE
    BY <1>7
  <2>2. x.set \in SUBSET Segments /\ i \in x.set /\ x.at = {i} /\ \E p \in x.set : Before(p, i)
    BY <1>5, <2>1, LoopGoesOn
  <2> QED BY <2>1, <2>2, LoopHasStep, LoopNearer
<1> QED BY <1>6, <1>7 DEF x

------------------------------------------------------------------------------
(* Downloads: what is true of each, whatever may happen.                      *)
Shape(d) ==
    /\ d \in Download
    /\ d.seg.start <= d.seg.end /\ d.seg.end <= Size /\ d.pos <= Length(d.seg)
    /\ d.part # "none" => d.pos < Length(d.seg)
    /\ ~d.started => d.pos = 0 /\ d.part = "none" /\ ~d.wrong
    /\ d.wrong \/ d.part = "bad" => "corrupt" \in Env
    /\ d.wrong => d.whole
    /\ d.overlap => "overlap" \in Env

Base ==
    /\ download \in [Users -> Download] /\ \A u \in Users : Shape(download[u])
    /\ downloads \subseteq Users /\ tree \in BOOLEAN
    /\ \A u \in downloads : present /\ download[u].type # "NONE"

(* The same but for the flag that somebody else sets.                         *)
Alike(d, e) ==
    /\ e \in Download
    /\ e.type = d.type /\ e.seg = d.seg /\ e.whole = d.whole /\ e.pos = d.pos
    /\ e.part = d.part /\ e.wrong = d.wrong /\ e.started = d.started /\ e.overlap = d.overlap

LEMMA SegmentType ==
    ASSUME NEW a \in 0 .. Size, NEW b \in 0 .. Size
    PROVE  Segment(a, b) \in Segments
BY SizeAssumption DEF Segment, Segments

LEMMA NoDownloadShape == Shape(NoDownload) /\ NoDownload.type = "NONE" /\ NoDownload.pos = 0
<1>1. Segment(0, 0) \in Segments
  BY SegmentType, SizeAssumption
<1>2. NoDownload \in Download
  BY <1>1, SizeAssumption DEF NoDownload, NewDownload, Download
<1> QED BY <1>2, SegmentFields, SizeAssumption DEF NoDownload, NewDownload, Shape, Length

LEMMA DownloadFields ==
    ASSUME NEW d \in Download
    PROVE  /\ d.seg \in Segments /\ d.pos \in 0 .. Size /\ d.pos \in Int
           /\ d.seg.start \in Int /\ d.seg.end \in Int /\ 0 <= d.seg.start
           /\ d.type \in {"NONE", "FILE", "TREE"} /\ d.part \in {"none", "good", "bad"}
           /\ d.whole \in BOOLEAN /\ d.wrong \in BOOLEAN /\ d.started \in BOOLEAN
           /\ d.overlap \in BOOLEAN /\ d.overlapped \in BOOLEAN
<1>1. d.seg \in Segments /\ d.pos \in 0 .. Size
  BY DEF Download
<1> QED BY <1>1, SegmentNumbers, SizeAssumption DEF Download

LEMMA AlikeShape == ASSUME NEW d, NEW e, Shape(d), Alike(d, e) PROVE Shape(e)
BY DEF Shape, Alike

LEMMA AlikeItself == ASSUME NEW d, Shape(d) PROVE Alike(d, d)
BY DEF Shape, Alike

LEMMA AlikeMarked ==
    ASSUME NEW d, Shape(d), NEW b \in BOOLEAN
    PROVE  Alike(d, [d EXCEPT !.overlapped = b])
BY DEF Shape, Alike, Download

(* Only the download of u changes.                                           *)
OnlyOf(u) ==
    /\ download' \in [Users -> Download]
    /\ \A v \in Users \ {u} : Alike(download[v], download'[v])

LEMMA GoneEffect ==
    ASSUME Base, NEW u \in Users, Gone(u)
    PROVE  OnlyOf(u) /\ download'[u] = NoDownload
BY NoDownloadShape, AlikeItself DEF Base, Gone, OnlyOf, Shape

LEMMA GivesUpEffect ==
    ASSUME Base, NEW u \in Users, GivesUp(u)
    PROVE  OnlyOf(u) /\ download'[u] = NoDownload
<1>1. CASE Gone(u)
  BY <1>1, GoneEffect
<1>2. ASSUME NEW v \in Users \ {u},
             download' = [download EXCEPT ![u] = NoDownload, ![v].overlapped = FALSE]
      PROVE  OnlyOf(u) /\ download'[u] = NoDownload
  <2>1. Alike(download[v], [download[v] EXCEPT !.overlapped = FALSE])
    BY AlikeMarked DEF Base
  <2>2. [download[v] EXCEPT !.overlapped = FALSE] \in Download
    BY <2>1 DEF Alike
  <2>3. download'[u] = NoDownload /\ download'[v] = [download[v] EXCEPT !.overlapped = FALSE]
        /\ \A w \in Users \ {u, v} : download'[w] = download[w]
    BY <1>2 DEF Base
  <2>4. download' \in [Users -> Download]
    BY <1>2, <2>2, NoDownloadShape DEF Base, Shape
  <2> QED BY <2>1, <2>3, <2>4, AlikeItself DEF Base, OnlyOf
<1>3. Gone(u) \/ \E v \in Users \ {u} :
         download' = [download EXCEPT ![u] = NoDownload, ![v].overlapped = FALSE]
  BY DEF GivesUp, Holding, Base
<1> QED BY <1>1, <1>2, <1>3

(* What a new download asks for: the tree, nothing, a segment that nobody has  *)
(* and is not finished, or the rest of one that somebody has.                 *)
Fresh(d) == d.type \in {"FILE", "TREE"} /\ d.pos = 0 /\ d.part = "none" /\ ~d.wrong /\ ~d.started

LEMMA NeededProper ==
    ASSUME NEW D, NEW whole, NEW s \in Needed(D, whole)
    PROVE  Proper(s) /\ Free(D, s)
<1>1. CASE whole
  BY <1>1, SizeAssumption DEF Needed, Proper, Segment
<1>2. CASE ~whole
  BY <1>2, SizeAssumption DEF Needed, Proper, Segment, Blocks
<1> QED BY <1>1, <1>2

LEMMA TakeOverShape ==
    ASSUME Base, NEW s \in TakeOver
    PROVE  /\ Proper(s) /\ "overlap" \in Env
           /\ \E v \in downloads : s.end = download[v].seg.end /\ download[v].seg.start <= s.start
<1>1. "overlap" \in Env
  BY DEF TakeOver
<1>2. PICK v \in Slow : s = Segment(download[v].seg.start + download[v].pos, download[v].seg.end)
  BY <1>1 DEF TakeOver
<1>3. v \in downloads /\ v \in Users /\ download[v].pos < Length(download[v].seg)
  BY DEF Slow, Base
<1>4. Shape(download[v]) /\ download[v] \in Download
  BY <1>3 DEF Base, Shape
<1>5. s.start = download[v].seg.start + download[v].pos /\ s.end = download[v].seg.end
  BY <1>2, SegmentFields
<1>6. s \in [start : Int, end : Int]
  BY <1>2, <1>4, DownloadFields DEF Segment
<1> QED BY <1>1, <1>3, <1>4, <1>5, <1>6, DownloadFields DEF Proper, Shape, Length

LEMMA NewDownloadShape ==
    ASSUME NEW type \in {"FILE", "TREE"}, NEW s \in Segments, NEW whole \in BOOLEAN,
           NEW over \in BOOLEAN, over => "overlap" \in Env, s.start <= s.end, s.end <= Size
    PROVE  LET d == NewDownload(type, s, whole, over)
           IN  Shape(d) /\ Fresh(d) /\ d.seg = s /\ d.overlap = over
<1> DEFINE d == [type |-> type, seg |-> s, whole |-> whole, pos |-> 0, part |-> "none",
                 wrong |-> FALSE, started |-> FALSE, overlapped |-> over, overlap |-> over]
<1>1. NewDownload(type, s, whole, over) = d
  BY DEF NewDownload
<1>2. d \in Download
  BY SizeAssumption DEF Download
<1>3. 0 <= s.end - s.start
  BY SegmentNumbers
<1>4. Shape(d)
  BY <1>2, <1>3 DEF Shape, Length
<1> QED BY <1>1, <1>4 DEF Fresh

LEMMA NewDownloadsShape ==
    ASSUME Base, NEW u \in Users, NEW D, NEW d \in NewDownloads(u, D)
    PROVE  /\ Shape(d) /\ Fresh(d)
           /\ \/ d.seg = Segment(0, 0) /\ ~d.overlap
              \/ Proper(d.seg) /\ Free(D, d.seg) /\ ~d.overlap
              \/ d.overlap /\ d.seg \in TakeOver
<1> DEFINE next == NextSegment(D, ~tree)
           Kind == \/ d.seg = Segment(0, 0) /\ ~d.overlap
                   \/ Proper(d.seg) /\ Free(D, d.seg) /\ ~d.overlap
                   \/ d.overlap /\ d.seg \in TakeOver
<1>2. Segment(0, 0) \in Segments /\ Segment(0, 0).start <= Segment(0, 0).end
      /\ Segment(0, 0).end <= Size
  BY SegmentType, SegmentFields, SizeAssumption
<1>3. CASE d = NewDownload("TREE", Segment(0, 0), FALSE, FALSE)
  BY <1>2, <1>3, NewDownloadShape DEF Base
<1>4. CASE d = NewDownload("FILE", Segment(0, 0), ~tree, FALSE)
  BY <1>2, <1>4, NewDownloadShape DEF Base
<1>5. ASSUME NEW s \in next.fresh, d = NewDownload("FILE", s, ~tree, FALSE)
      PROVE  Shape(d) /\ Fresh(d) /\ Kind
  <2>1. s \in Needed(D, ~tree)
    BY DEF NextSegment, Wanted
  <2>2. Proper(s) /\ Free(D, s) /\ s \in Segments
    BY <2>1, NeededProper, ProperSegments
  <2>3. s.start <= s.end /\ s.end <= Size
    BY <2>2 DEF Proper
  <2>4. Shape(d) /\ Fresh(d) /\ d.seg = s /\ d.overlap = FALSE
    BY <1>5, <2>2, <2>3, NewDownloadShape DEF Base
  <2> QED BY <2>2, <2>4
<1>6. ASSUME NEW s \in next.slow, d = NewDownload("FILE", s, ~tree, TRUE)
      PROVE  Shape(d) /\ Fresh(d) /\ Kind
  <2>1. s \in TakeOver
    BY DEF NextSegment
  <2>2. Proper(s) /\ "overlap" \in Env /\ s \in Segments
    BY <2>1, TakeOverShape, ProperSegments
  <2>3. s.start <= s.end /\ s.end <= Size
    BY <2>2 DEF Proper
  <2>4. Shape(d) /\ Fresh(d) /\ d.seg = s /\ d.overlap = TRUE
    BY <1>6, <2>2, <2>3, NewDownloadShape DEF Base
  <2> QED BY <2>1, <2>4
<1>7. \/ d = NewDownload("TREE", Segment(0, 0), FALSE, FALSE)
      \/ d = NewDownload("FILE", Segment(0, 0), ~tree, FALSE)
      \/ \E s \in next.fresh : d = NewDownload("FILE", s, ~tree, FALSE)
      \/ \E s \in next.slow : d = NewDownload("FILE", s, ~tree, TRUE)
  BY DEF NewDownloads
<1> QED BY <1>3, <1>4, <1>5, <1>6, <1>7

LEMMA GetDownloadEffect ==
    ASSUME Base, NEW u \in Users, GetDownload(u)
    PROVE  /\ u \notin downloads /\ downloads' = downloads \cup {u} /\ OnlyOf(u)
           /\ present /\ present' /\ u \in queued
           /\ done' = IF Downloaded /\ ~temp THEN {} ELSE done
           /\ download'[u] \in NewDownloads(u, done')
<1> DEFINE D == IF Downloaded /\ ~temp THEN {} ELSE done
<1>1. PICK d \in NewDownloads(u, D) :
         \/ download' = [download EXCEPT ![u] = d]
         \/ \E v \in Holding(u, d.seg) :
               download' = [download EXCEPT ![u] = d, ![v].overlapped = TRUE]
  BY DEF GetDownload
<1>2. d \in Download
  BY NewDownloadsShape DEF Shape
<1>3. ASSUME download' = [download EXCEPT ![u] = d] PROVE OnlyOf(u) /\ download'[u] = d
  BY <1>2, <1>3, AlikeItself DEF Base, OnlyOf
<1>4. ASSUME NEW v \in Holding(u, d.seg),
             download' = [download EXCEPT ![u] = d, ![v].overlapped = TRUE]
      PROVE  OnlyOf(u) /\ download'[u] = d
  <2>0. v \in Users \ {u}
    BY DEF Holding, Base
  <2>1. Alike(download[v], [download[v] EXCEPT !.overlapped = TRUE])
    BY <2>0, AlikeMarked DEF Base
  <2>2. [download[v] EXCEPT !.overlapped = TRUE] \in Download
    BY <2>1 DEF Alike
  <2>3. download'[u] = d /\ download'[v] = [download[v] EXCEPT !.overlapped = TRUE]
        /\ \A w \in Users \ {u, v} : download'[w] = download[w]
    BY <1>4, <2>0 DEF Base
  <2>4. download' \in [Users -> Download]
    BY <1>2, <1>4, <2>0, <2>2 DEF Base
  <2> QED BY <2>0, <2>1, <2>3, <2>4, AlikeItself DEF Base, OnlyOf
<1>5. OnlyOf(u) /\ download'[u] = d
  BY <1>1, <1>3, <1>4
<1>6. /\ u \notin downloads /\ downloads' = downloads \cup {u} /\ present /\ present'
      /\ u \in queued /\ done' = D
  BY DEF GetDownload, Base
<1>7. download'[u] \in NewDownloads(u, done')
  BY <1>1, <1>5, <1>6
<1> QED BY <1>5, <1>6, <1>7

(* A download goes on: it is what it was, and has more.                       *)
Moves(u) ==
    /\ OnlyOf(u) /\ Shape(download'[u])
    /\ LET d == download[u] e == download'[u]
       IN  e.type = d.type /\ e.seg = d.seg /\ e.whole = d.whole /\ e.overlap = d.overlap

LEMMA MovesTo ==
    ASSUME Base, NEW u \in Users, NEW e, Shape(e), download' = [download EXCEPT ![u] = e]
    PROVE  OnlyOf(u) /\ download'[u] = e
BY AlikeItself DEF Base, OnlyOf, Shape

LEMMA StartEffect ==
    ASSUME Base, NEW u \in Users, Start(u)
    PROVE  /\ Moves(u) /\ ~download[u].started /\ download'[u].started
           /\ download'[u].pos = 0 /\ download'[u].part = "none" /\ download'[u].wrong = FALSE
<1> DEFINE d == download[u]
           e == [d EXCEPT !.started = TRUE, !.overlapped = FALSE]
<1>1. Shape(d) /\ d \in Download
  BY DEF Base, Shape
<1>2. /\ e \in Download /\ e.type = d.type /\ e.seg = d.seg /\ e.whole = d.whole
      /\ e.overlap = d.overlap /\ e.pos = d.pos /\ e.part = d.part /\ e.wrong = d.wrong
      /\ e.started = TRUE
  BY <1>1 DEF Download
<1>3. Shape(e)
  BY <1>1, <1>2 DEF Shape
<1>4. download' = [download EXCEPT ![u] = e] /\ ~d.started
  BY DEF Start
<1>5. d.wrong = FALSE /\ d.pos = 0 /\ d.part = "none"
  BY <1>1, <1>4, DownloadFields DEF Shape
<1> QED BY <1>2, <1>3, <1>4, <1>5, MovesTo DEF Moves

LEMMA ReceiveEffect ==
    ASSUME Base, NEW u \in Users, NEW quality \in {"good", "bad"}, Receive(u, quality),
           quality = "bad" => "corrupt" \in Env
    PROVE  /\ Moves(u) /\ download'[u].pos = download[u].pos
           /\ download'[u].wrong = download[u].wrong
           /\ download'[u].started = download[u].started
<1> DEFINE d == download[u]
           e == [d EXCEPT !.part = quality]
<1>1. Shape(d) /\ d \in Download
  BY DEF Base, Shape
<1>2. /\ e \in Download /\ e.type = d.type /\ e.seg = d.seg /\ e.whole = d.whole
      /\ e.overlap = d.overlap /\ e.pos = d.pos /\ e.part = quality /\ e.wrong = d.wrong
      /\ e.started = d.started
  BY <1>1 DEF Download
<1>3. download' = [download EXCEPT ![u] = e] /\ d.started /\ d.pos < Length(d.seg)
  BY DEF Receive
<1>4. Shape(e)
  BY <1>1, <1>2, <1>3 DEF Shape
<1> QED BY <1>2, <1>3, <1>4, MovesTo DEF Moves

LEMMA CompleteEffect ==
    ASSUME Base, NEW u \in Users, Complete(u)
    PROVE  /\ Moves(u) /\ download'[u].pos = download[u].pos + 1
           /\ download'[u].started = download[u].started
           /\ (~download'[u].wrong => ~download[u].wrong /\ download[u].part = "good")
<1> DEFINE d == download[u]
           e == [d EXCEPT !.part = "none", !.pos = @ + 1, !.wrong = @ \/ d.part = "bad"]
<1>1. Shape(d) /\ d \in Download
  BY DEF Base, Shape
<1>2. d.part = "good" \/ (d.part = "bad" /\ d.whole)
  BY DEF Complete
<1>3. d.pos + 1 <= Length(d.seg) /\ d.pos + 1 \in 0 .. Size
  <2>1. d.pos < d.seg.end - d.seg.start /\ d.seg.end <= Size
    BY <1>1, <1>2 DEF Shape, Length
  <2>2. d.pos \in Int /\ 0 <= d.pos /\ d.seg.start \in Int /\ d.seg.end \in Int /\ 0 <= d.seg.start
    BY <1>1, DownloadFields
  <2> QED BY <2>1, <2>2, SizeAssumption DEF Length
<1>4. /\ e \in Download /\ e.type = d.type /\ e.seg = d.seg /\ e.whole = d.whole
      /\ e.overlap = d.overlap /\ e.pos = d.pos + 1 /\ e.part = "none"
      /\ e.wrong = (d.wrong \/ d.part = "bad") /\ e.started = d.started
  BY <1>1, <1>3 DEF Download
<1>5. Shape(e)
  BY <1>1, <1>2, <1>3, <1>4 DEF Shape
<1>6. download' = [download EXCEPT ![u] = e]
  BY DEF Complete
<1> QED BY <1>2, <1>4, <1>5, <1>6, MovesTo DEF Moves

LEMMA BaseStep ==
    ASSUME Base, NEW u \in Users, OnlyOf(u), Shape(download'[u]), tree' \in BOOLEAN,
           downloads' \subseteq downloads \cup {u},
           u \in downloads' => download'[u].type # "NONE", downloads' # {} => present'
    PROVE  Base'
<1>1. ASSUME NEW v \in Users PROVE Shape(download'[v])
  BY AlikeShape DEF Base, OnlyOf
<1>2. ASSUME NEW v \in downloads' PROVE present' /\ download'[v].type # "NONE"
  BY <1>2 DEF Base, OnlyOf, Alike
<1> QED BY <1>1, <1>2 DEF Base, OnlyOf

LEMMA BaseStill ==
    ASSUME Base, download' = download, downloads' \subseteq downloads, tree' \in BOOLEAN,
           downloads' # {} => present'
    PROVE  Base'
BY DEF Base

LEMMA NoDoubleStep ==
    ASSUME Base, NoDoubleWork, NEW u \in Users, OnlyOf(u), downloads' \subseteq downloads,
           u \in downloads' => download'[u].seg = download[u].seg
                               /\ download'[u].overlap = download[u].overlap
    PROVE  NoDoubleWork'
<1>1. ASSUME NEW v \in downloads'
      PROVE  /\ v \in downloads /\ download'[v].seg = download[v].seg
             /\ download'[v].overlap = download[v].overlap
  BY <1>1 DEF Base, OnlyOf, Alike
<1> QED BY <1>1 DEF NoDoubleWork

LEMMA NoDoubleStill ==
    ASSUME NoDoubleWork, download' = download, downloads' \subseteq downloads
    PROVE  NoDoubleWork'
BY DEF NoDoubleWork

(* The step that adds a download.                                            *)
LEMMA NoDoubleGetDownload ==
    ASSUME Base, NoDoubleWork, NEW u \in Users, GetDownload(u)
    PROVE  NoDoubleWork'
<1> DEFINE d == download'[u]
<1>1. d \in NewDownloads(u, done') /\ OnlyOf(u) /\ u \notin downloads
      /\ downloads' = downloads \cup {u}
  BY GetDownloadEffect
<1>2. Shape(d) /\ d \in Download
  BY <1>1, NewDownloadsShape DEF Shape
<1>3. ASSUME NEW v \in downloads
      PROVE  /\ v # u /\ v \in Users /\ v \in downloads' /\ download'[v].seg = download[v].seg
             /\ download'[v].overlap = download[v].overlap
             /\ Shape(download[v]) /\ download[v] \in Download
  BY <1>1 DEF Base, OnlyOf, Alike, Shape
<1>4. ASSUME NEW v \in downloads, Overlaps(d.seg, download[v].seg)
      PROVE  d.overlap /\ d.seg.end = download[v].seg.end
  <2>1. CASE d.seg = Segment(0, 0)
    <3>1. 0 < download[v].seg.end /\ download[v].seg.start < 0
      BY <1>4, <2>1, SegmentFields DEF Overlaps
    <3> QED BY <3>1, <1>3, DownloadFields
  <2>2. CASE Free(done', d.seg)
    BY <1>4, <2>2 DEF Free
  <2>3. CASE d.overlap /\ d.seg \in TakeOver
    <3>1. PICK w \in downloads : d.seg.end = download[w].seg.end
                                 /\ download[w].seg.start <= d.seg.start
      BY <2>3, TakeOverShape
    <3>2. CASE w = v
      BY <2>3, <3>1, <3>2
    <3>3. CASE w # v
      <4>1. Overlaps(download[w].seg, download[v].seg)
        BY <1>2, <1>3, <1>4, <3>1, DownloadFields DEF Overlaps
      <4> QED BY <2>3, <3>1, <3>3, <4>1 DEF NoDoubleWork
    <3> QED BY <3>2, <3>3
  <2> QED BY <1>1, <2>1, <2>2, <2>3, NewDownloadsShape
<1>5. ASSUME NEW v \in downloads, Overlaps(download[v].seg, d.seg) PROVE Overlaps(d.seg, download[v].seg)
  BY <1>5 DEF Overlaps
<1> QED BY <1>1, <1>3, <1>4, <1>5 DEF NoDoubleWork

Both == Base /\ NoDoubleWork

LEMMA BothGone ==
    ASSUME Both, NEW u \in Users, OnlyOf(u), download'[u] = NoDownload,
           downloads' \subseteq downloads \ {u}, tree' \in BOOLEAN,
           downloads' # {} => present'
    PROVE  Both'
<1>1. Base'
  BY BaseStep, NoDownloadShape DEF Both
<1>2. NoDoubleWork'
  BY NoDoubleStep DEF Both
<1> QED BY <1>1, <1>2 DEF Both

LEMMA BothMoves ==
    ASSUME Both, NEW u \in Users, Moves(u), UNCHANGED <<downloads, tree, present>>
    PROVE  Both'
<1>1. downloads' # {} => present'
  BY DEF Both, Base
<1>2. u \in downloads' => download'[u].type # "NONE"
  BY DEF Both, Base, Moves
<1>3. Base'
  BY <1>1, <1>2, BaseStep DEF Both, Base, Moves
<1>4. NoDoubleWork'
  BY NoDoubleStep DEF Both, Moves
<1> QED BY <1>3, <1>4 DEF Both

LEMMA BothStill ==
    ASSUME Both, download' = download, downloads' \subseteq downloads, tree' = tree,
           downloads' # {} => present'
    PROVE  Both'
BY BaseStill, NoDoubleStill DEF Both, Base

LEMMA BothInit == Init => Both
BY NoDownloadShape DEF Init, Both, Base, NoDoubleWork, Shape

LEMMA BothNext == Both /\ [Next]_vars => Both'
<1> SUFFICES ASSUME Both, [Next]_vars PROVE Both'
  OBVIOUS
<1>0. /\ Base /\ tree \in BOOLEAN /\ (downloads # {} => present)
  BY DEF Both, Base
<1>1. ASSUME NEW u \in Users, GetDownload(u) PROVE Both'
  <2>1. Shape(download'[u]) /\ download'[u].type # "NONE"
    BY <1>0, <1>1, GetDownloadEffect, NewDownloadsShape DEF Fresh
  <2>2. OnlyOf(u) /\ downloads' = downloads \cup {u} /\ present'
    BY <1>0, <1>1, GetDownloadEffect
  <2>3. tree' = tree /\ present' = present
    BY <1>1 DEF GetDownload
  <2>4. Base'
    BY <1>0, <2>1, <2>2, <2>3, BaseStep
  <2> QED BY <1>1, <2>4, NoDoubleGetDownload DEF Both
<1>2. ASSUME NEW u \in Users, Start(u) PROVE Both'
  BY <1>0, <1>2, StartEffect, BothMoves DEF Start, item
<1>3. ASSUME NEW u \in Users, NEW quality \in {"good", "bad"}, Receive(u, quality),
             quality = "bad" => "corrupt" \in Env
      PROVE  Both'
  BY <1>0, <1>3, ReceiveEffect, BothMoves DEF Receive, item
<1>4. ASSUME NEW u \in Users, Complete(u) PROVE Both'
  BY <1>0, <1>4, CompleteEffect, BothMoves DEF Complete, item
<1>5. ASSUME NEW u \in Users, EndData(u) PROVE Both'
  <2>1. OnlyOf(u) /\ download'[u] = NoDownload
    BY <1>0, <1>5, GoneEffect DEF EndData
  <2>2. tree' = tree
    BY <1>5 DEF EndData
  <2>3. downloads' \subseteq downloads \ {u} /\ (downloads' # {} => present')
    BY <1>0, <1>5 DEF EndData, ItemLeaves, item
  <2> QED BY <1>0, <2>1, <2>2, <2>3, BothGone
<1>6. ASSUME NEW u \in Users, TreeDone(u) PROVE Both'
  <2>1. OnlyOf(u) /\ download'[u] = NoDownload
    BY <1>0, <1>6, GoneEffect DEF TreeDone
  <2>2. tree' \in BOOLEAN
    BY <1>0, <1>6 DEF TreeDone
  <2>3. downloads' = downloads \ {u} /\ present' = present
    BY <1>6 DEF TreeDone, item
  <2> QED BY <1>0, <2>1, <2>2, <2>3, BothGone
<1>7. ASSUME NEW u \in Users, BadTree(u) PROVE Both'
  <2>1. OnlyOf(u) /\ download'[u] = NoDownload
    BY <1>0, <1>7, GoneEffect DEF BadTree
  <2>2. downloads' = downloads \ {u} /\ present' = present /\ tree' = tree
    BY <1>7 DEF BadTree
  <2> QED BY <1>0, <2>1, <2>2, BothGone
<1>8. ASSUME NEW u \in Users, Fail(u) PROVE Both'
  <2>1. OnlyOf(u) /\ download'[u] = NoDownload
    BY <1>0, <1>8, GivesUpEffect DEF Fail
  <2>2. downloads' = downloads \ {u} /\ present' = present /\ tree' = tree
    BY <1>8 DEF Fail
  <2> QED BY <1>0, <2>1, <2>2, BothGone
<1>9. ASSUME NEW u \in Users, FileNotAvailable(u) PROVE Both'
  <2>1. OnlyOf(u) /\ download'[u] = NoDownload
    BY <1>0, <1>9, GivesUpEffect DEF FileNotAvailable
  <2>2. downloads' = downloads \ {u} /\ present' = present /\ tree' = tree
    BY <1>9 DEF FileNotAvailable
  <2> QED BY <1>0, <2>1, <2>2, BothGone
<1>10. ASSUME NEW u \in Users, AddSource(u) PROVE Both'
  BY <1>0, <1>10, BothStill DEF AddSource
<1>11. ASSUME NEW u \in Users, RemoveSource(u) PROVE Both'
  BY <1>0, <1>11, BothStill DEF RemoveSource
<1>12. CASE SetPriority
  BY <1>0, <1>12, BothStill DEF SetPriority
<1>13. CASE Remove
  BY <1>0, <1>13, BothStill DEF Remove, ItemLeaves
<1>14. CASE TempGone
  BY <1>0, <1>14, BothStill DEF TempGone, item
<1>15. CASE RecheckTest
  BY <1>0, <1>15, BothStill DEF RecheckTest, item
<1>r. CASE RecheckTree \/ RecheckRead \/ RecheckReadEnds
  BY <1>0, <1>r, BothStill DEF RecheckTree, RecheckRead, RecheckReadEnds, item
<1>16. CASE RecheckClear
  BY <1>0, <1>16, BothStill DEF RecheckClear
<1>17. CASE RecheckFind
  BY <1>0, <1>17, BothStill DEF RecheckFind, ItemLeaves, item
<1>18. CASE Save
  BY <1>0, <1>18, BothStill DEF Save, item
<1>19. CASE Crash
  BY <1>0, <1>19, NoDownloadShape DEF Crash, Both, Base, NoDoubleWork, Shape
<1>20. CASE UNCHANGED vars
  BY <1>0, <1>20, BothStill DEF vars
<1> QED BY <1>1, <1>2, <1>3, <1>4, <1>5, <1>6, <1>7, <1>8, <1>9, <1>10, <1>11, <1>12, <1>13,
           <1>14, <1>15, <1>r, <1>16, <1>17, <1>18, <1>19, <1>20
        DEF Next, Transfer, Wrong

(* Two downloads of one item never work on the same block, but for the one     *)
(* that takes over the rest of a slow one (QueueItem::getNextSegment).         *)
THEOREM NoDoubleWorkAlways == Spec => []NoDoubleWork
<1>1. Both => NoDoubleWork
  BY DEF Both
<1> QED BY <1>1, BothInit, BothNext, PTL DEF Spec

------------------------------------------------------------------------------
(* What is finished, when nobody takes over from somebody else, no source is   *)
(* removed while it downloads, nothing is rechecked and no file is added again *)
(* while what is left of its older item goes on: no download works on what is  *)
(* finished.                                                                 *)
Alone == Env \cap {"overlap", "drop", "recheck", "readd"} = {}

AllListed == present => \A u \in Users : download[u].type # "NONE" => u \in downloads

Sole ==
    /\ AllListed
    /\ \A u \in downloads : Unfinished(done, download[u].seg)
    /\ Tidy(done) /\ Tidy(saved.done)

LEMMA Disjoint ==
    ASSUME Alone, Both, NEW u \in downloads, NEW v \in downloads, u # v
    PROVE  ~Overlaps(download[u].seg, download[v].seg)
BY DEF Alone, Both, Base, Shape, NoDoubleWork

LEMMA UnfinishedEmpty == ASSUME NEW s PROVE Unfinished({}, s)
BY CoveredMember DEF Unfinished

(* u ends and what it has, from its start, is finished.                       *)
LEMMA SoleAdds ==
    ASSUME Alone, Both, Sole, NEW u \in downloads, NEW s, Proper(s),
           s.start = download[u].seg.start, s.end <= download[u].seg.end,
           done' = AddSegment(done, s), downloads' = downloads \ {u}, OnlyOf(u),
           download'[u] = NoDownload, UNCHANGED <<present, saved>>
    PROVE  Sole' /\ Unfinished(done, s) /\ Covered(done) \subseteq Covered(done')
<1>1. Unfinished(done, s)
  <2>1. \A x \in s.start .. s.end - 1 : x \in download[u].seg.start .. download[u].seg.end - 1
    BY DownloadFields DEF Proper, Both, Base
  <2> QED BY <2>1 DEF Sole, Unfinished
<1>2. Tidy(done')
  BY <1>1, AddSegmentKeeps, AddSegmentConsolidated DEF Sole, Tidy
<1>3. Covered(done) \subseteq Covered(done')
  BY <1>1, AddSegmentKeeps DEF Sole, Tidy
<1>4. Covered(done') \subseteq Covered(done) \cup (s.start .. s.end - 1)
  BY AddSegmentCovers, ProperSegments DEF Sole, Tidy
<1>5. ASSUME NEW v \in downloads' PROVE Unfinished(done', download'[v].seg)
  <2>1. v \in downloads /\ v # u /\ download'[v].seg = download[v].seg
    BY DEF Both, Base, OnlyOf, Alike
  <2>2. ASSUME NEW x \in download[v].seg.start .. download[v].seg.end - 1,
               x \in s.start .. s.end - 1
        PROVE  FALSE
    <3>1. download[u].seg.end > x /\ x >= download[u].seg.start
      BY <2>2, DownloadFields DEF Proper, Both, Base
    <3>2. download[v].seg.end > x /\ x >= download[v].seg.start
      BY <2>1, <2>2, DownloadFields DEF Both, Base
    <3>3. Overlaps(download[u].seg, download[v].seg)
      BY <2>1, <2>2, <3>1, <3>2, DownloadFields DEF Overlaps, Both, Base, Proper
    <3> QED BY <2>1, <3>3, Disjoint
  <2> QED BY <1>4, <2>1, <2>2 DEF Sole, Unfinished
<1>6. AllListed'
  BY NoDownloadShape DEF Sole, AllListed, Both, Base, OnlyOf, Alike
<1> QED BY <1>1, <1>2, <1>3, <1>5, <1>6 DEF Sole

(* u ends and nothing is.                                                    *)
LEMMA SoleGone ==
    ASSUME Both, Sole, NEW u \in Users, OnlyOf(u), download'[u] = NoDownload,
           downloads' = downloads \ {u}, UNCHANGED <<present, done, saved>>
    PROVE  Sole'
<1>1. AllListed'
  BY NoDownloadShape DEF Sole, AllListed, Both, Base, OnlyOf, Alike
<1>2. ASSUME NEW v \in downloads' PROVE Unfinished(done', download'[v].seg)
  BY DEF Sole, Both, Base, OnlyOf, Alike
<1> QED BY <1>1, <1>2 DEF Sole

LEMMA SoleMoves ==
    ASSUME Both, Sole, NEW u \in Users, Moves(u), UNCHANGED <<downloads, present, done, saved>>
    PROVE  Sole'
<1>1. \A v \in Users : download'[v].type = download[v].type /\ download'[v].seg = download[v].seg
  BY DEF Moves, OnlyOf, Alike
<1> QED BY <1>1 DEF Sole, AllListed, Both, Base

(* The item leaves.                                                          *)
LEMMA SoleLeaves == ASSUME Sole, ItemLeaves, UNCHANGED saved PROVE Sole'
BY TidyEmpty DEF Sole, ItemLeaves, AllListed

LEMMA SoleStill ==
    ASSUME Sole, UNCHANGED <<downloads, download, present, done>>, Tidy(saved'.done)
    PROVE  Sole'
BY DEF Sole, AllListed

LEMMA SoleGetDownload ==
    ASSUME Alone, Both, Sole, NEW u \in Users, GetDownload(u)
    PROVE  Sole'
<1> DEFINE d == download'[u]
<1>1. d \in NewDownloads(u, done') /\ OnlyOf(u) /\ downloads' = downloads \cup {u} /\ present
  BY GetDownloadEffect DEF Both
<1>2. Shape(d) /\ d \in Download
  BY <1>1, NewDownloadsShape DEF Shape, Both
<1>3. done' = done \/ done' = {}
  BY DEF GetDownload
<1>4. Tidy(done')
  BY <1>3, TidyEmpty DEF Sole
<1>5. Unfinished(done', d.seg)
  <2>1. CASE d.seg = Segment(0, 0)
    BY <2>1, SegmentFields DEF Unfinished
  <2>2. CASE Proper(d.seg) /\ Free(done', d.seg)
    <3>1. ASSUME NEW x \in d.seg.start .. d.seg.end - 1, NEW t \in done', x \in t.start .. t.end - 1
          PROVE  FALSE
      <4>1. Proper(t)
        BY <1>4 DEF Tidy
      <4>2. CASE d.seg.end = d.seg.start + 1
        BY <2>2, <3>1, <4>1, <4>2 DEF Free, Proper
      <4>3. CASE d.seg.end # d.seg.start + 1
        BY <2>2, <3>1, <4>1, <4>3 DEF Free, Proper, Overlaps
      <4> QED BY <4>2, <4>3
    <3> QED BY <3>1, CoveredMember DEF Unfinished
  <2>3. ~d.overlap
    BY <1>2 DEF Shape, Alone
  <2> QED BY <1>1, <2>1, <2>2, <2>3, NewDownloadsShape DEF Both
<1>6. ASSUME NEW v \in downloads \ {u} PROVE Unfinished(done', download'[v].seg)
  <2>1. download'[v].seg = download[v].seg
    BY <1>1 DEF Both, Base, OnlyOf, Alike
  <2> QED BY <1>3, <2>1, UnfinishedEmpty DEF Sole
<1>7. AllListed'
  BY <1>1 DEF Sole, AllListed, Both, Base, OnlyOf, Alike
<1>8. saved' = saved
  BY DEF GetDownload
<1> QED BY <1>1, <1>4, <1>5, <1>6, <1>7, <1>8 DEF Sole

LEMMA ShapeProper ==
    ASSUME NEW d, Shape(d), d.seg.start < d.seg.end
    PROVE  Proper(d.seg)
<1>1. d.seg \in [start : Int, end : Int]
  <2>1. d.seg \in Segments
    BY DownloadFields DEF Shape
  <2> QED BY <2>1, SizeAssumption DEF Segments
<1> QED BY <1>1, DownloadFields DEF Shape, Proper

LEMMA CreditFacts ==
    ASSUME NEW d, Shape(d), NEW credit \in Credits(d)
    PROVE  /\ credit \in Int /\ 0 <= credit /\ credit <= d.pos
           /\ Segment(d.seg.start, d.seg.start + credit).start = d.seg.start
           /\ Segment(d.seg.start, d.seg.start + credit).end = d.seg.start + credit
           /\ d.seg.start + credit <= d.seg.end
           /\ credit > 0 => Proper(Segment(d.seg.start, d.seg.start + credit))
<1>1. credit = 0 \/ credit = Aligned(d)
  BY DEF Credits
<1>2. /\ d.pos \in Int /\ 0 <= d.pos /\ d.pos <= d.seg.end - d.seg.start
      /\ d.seg.start \in Int /\ d.seg.end \in Int /\ 0 <= d.seg.start /\ d.seg.end <= Size
  BY DownloadFields DEF Shape, Length
<1>3. credit \in Int /\ 0 <= credit /\ credit <= d.pos
  <2>1. Aligned(d) \in {0, d.pos} \/ (Aligned(d) = d.pos - 1 /\ d.pos > 0)
    BY DEF Aligned
  <2> QED BY <1>1, <1>2, <2>1
<1> DEFINE s == Segment(d.seg.start, d.seg.start + credit)
<1>4. s.start = d.seg.start /\ s.end = d.seg.start + credit
  BY SegmentFields
<1>5. s \in [start : Int, end : Int]
  BY <1>2, <1>3 DEF Segment
<1> HIDE DEF s
<1>6. d.seg.start + credit <= d.seg.end /\ (credit > 0 => Proper(s))
  BY SizeAssumption, <1>2, <1>3, <1>4, <1>5 DEF Proper
<1> QED BY <1>3, <1>4, <1>6 DEF s

LEMMA EndDataFacts ==
    ASSUME Both, NEW u \in Users, EndData(u)
    PROVE  Proper(download[u].seg) /\ download[u].type = "FILE"
<1>1. Shape(download[u]) /\ download[u].pos > 0 /\ download[u].pos = Length(download[u].seg)
  BY DEF Both, Base, EndData
<1>2. download[u].seg.start < download[u].seg.end
  BY <1>1, DownloadFields DEF Shape, Length
<1> QED BY <1>1, <1>2, ShapeProper DEF EndData

LEMMA SoleEndData ==
    ASSUME Alone, Both, Sole, NEW u \in Users, EndData(u)
    PROVE  Sole'
<1>0. OnlyOf(u) /\ download'[u] = NoDownload /\ saved' = saved
  BY GoneEffect DEF EndData, Both
<1>1. CASE ~present
  <2>1. downloads = {}
    BY <1>1 DEF Both, Base
  <2> QED BY <1>0, <1>1, <2>1, SoleGone DEF EndData, item
<1>2. CASE present /\ IsFinished(AddSegment(done, download[u].seg))
  BY <1>0, <1>2, SoleLeaves DEF EndData
<1>3. CASE present /\ ~IsFinished(AddSegment(done, download[u].seg))
  <2>1. u \in downloads
    BY <1>3, EndDataFacts DEF Sole, AllListed
  <2>2. done' = AddSegment(done, download[u].seg) /\ downloads' = downloads \ {u}
        /\ present' = present
    BY <1>3 DEF EndData
  <2>3. download[u].seg.end <= download[u].seg.end
    BY EndDataFacts DEF Proper
  <2> QED BY <1>0, <2>1, <2>2, <2>3, EndDataFacts, SoleAdds
<1> QED BY <1>1, <1>2, <1>3

LEMMA FailCases ==
    ASSUME Both, AllListed, NEW u \in Users, Fail(u)
    PROVE  /\ OnlyOf(u) /\ download'[u] = NoDownload /\ downloads' = downloads \ {u}
           /\ UNCHANGED <<present, paused, source, queued, tree, saved>>
           /\ \/ done' = done /\ download[u].type = "FILE" /\ ~present /\ DeleteTemp
              \/ done' = done /\ UNCHANGED <<temp, disk>>
              \/ \E credit \in Credits(download[u]) :
                    /\ u \in downloads /\ present /\ credit > 0 /\ download[u].type = "FILE"
                    /\ done' = AddSegment(done, Segment(download[u].seg.start,
                                                        download[u].seg.start + credit))
                    /\ UNCHANGED <<temp, disk>>
<1>1. OnlyOf(u) /\ download'[u] = NoDownload
  BY GivesUpEffect DEF Fail, Both
<1>2. present /\ download[u].type = "FILE" => u \in downloads
  BY DEF AllListed
<1> QED BY <1>1, <1>2 DEF Fail

LEMMA SoleFail ==
    ASSUME Alone, Both, Sole, NEW u \in Users, Fail(u)
    PROVE  Sole'
<1>0. AllListed
  BY DEF Sole
<1>1. CASE done' = done
  BY <1>0, <1>1, FailCases, SoleGone
<1>2. ASSUME NEW credit \in Credits(download[u]), u \in downloads, credit > 0,
             done' = AddSegment(done, Segment(download[u].seg.start, download[u].seg.start + credit))
      PROVE  Sole'
  <2>1. Shape(download[u])
    BY DEF Both, Base
  <2> QED BY <1>0, <1>2, <2>1, FailCases, CreditFacts, SoleAdds
<1> QED BY <1>0, <1>1, <1>2, FailCases

Still == recheck = NoRecheck

LEMMA StillNext == ASSUME "recheck" \notin Env, Still, [Next]_vars PROVE Still'
<1>1. ASSUME NEW u \in Users,
             GetDownload(u) \/ Start(u) \/ Transfer(u) \/ FileNotAvailable(u)
             \/ AddSource(u) \/ RemoveSource(u)
      PROVE  Still'
  BY <1>1 DEF Still, GetDownload, Start, Transfer, Receive, Wrong, Complete, EndData, TreeDone,
              BadTree, Fail, FileNotAvailable, AddSource, RemoveSource
<1>2. CASE SetPriority \/ Remove \/ TempGone \/ Save \/ Crash \/ UNCHANGED vars
  BY <1>2 DEF Still, SetPriority, Remove, TempGone, Save, Crash, vars
<1>3. recheck.at = "idle"
  BY DEF Still, NoRecheck
<1> QED BY <1>1, <1>2, <1>3 DEF Next, RecheckTest, RecheckTree, RecheckClear, RecheckRead,
                               RecheckReadEnds, RecheckFind

LEMMA SoleInit == Init => Sole
BY TidyEmpty DEF Init, Sole, AllListed, NoDownload, NewDownload

LEMMA SoleNext == Alone /\ Still /\ Both /\ Sole /\ [Next]_vars => Sole'
<1> SUFFICES ASSUME Alone, Still, Both, Sole, [Next]_vars PROVE Sole'
  OBVIOUS
<1>0. Base /\ Tidy(done) /\ Tidy(saved.done)
  BY DEF Both, Sole
<1>1. ASSUME NEW u \in Users, GetDownload(u) PROVE Sole'
  BY <1>1, SoleGetDownload
<1>2. ASSUME NEW u \in Users, Start(u) PROVE Sole'
  BY <1>0, <1>2, StartEffect, SoleMoves DEF Start, item
<1>3. ASSUME NEW u \in Users, NEW quality \in {"good", "bad"}, Receive(u, quality),
             quality = "bad" => "corrupt" \in Env
      PROVE  Sole'
  BY <1>0, <1>3, ReceiveEffect, SoleMoves DEF Receive, item
<1>4. ASSUME NEW u \in Users, Complete(u) PROVE Sole'
  BY <1>0, <1>4, CompleteEffect, SoleMoves DEF Complete, item
<1>5. ASSUME NEW u \in Users, EndData(u) PROVE Sole'
  BY <1>5, SoleEndData
<1>6. ASSUME NEW u \in Users, TreeDone(u) PROVE Sole'
  BY <1>0, <1>6, GoneEffect, SoleGone DEF TreeDone, item
<1>7. ASSUME NEW u \in Users, BadTree(u) PROVE Sole'
  BY <1>0, <1>7, GoneEffect, SoleGone DEF BadTree
<1>8. ASSUME NEW u \in Users, Fail(u) PROVE Sole'
  BY <1>8, SoleFail
<1>9. ASSUME NEW u \in Users, FileNotAvailable(u) PROVE Sole'
  BY <1>0, <1>9, GivesUpEffect, SoleGone DEF FileNotAvailable
<1>10. ASSUME NEW u \in Users, AddSource(u) PROVE Sole'
  <2>1. CASE present
    <3>1. present' = TRUE /\ UNCHANGED <<downloads, download, done, saved>>
      BY <1>10 DEF AddSource
    <3> QED BY <2>1, <3>1 DEF Sole, AllListed
  <2>2. CASE ~present
    <3>1. \A v \in Users : download[v].type = "NONE"
      BY <1>10, <2>2 DEF AddSource, Idle, Alone
    <3> QED BY <1>10, <3>1 DEF AddSource, Sole, AllListed
  <2> QED BY <2>1, <2>2
<1>11. ASSUME NEW u \in Users, RemoveSource(u) PROVE Sole'
  <2>1. u \notin downloads
    BY <1>11 DEF RemoveSource, Alone
  <2> QED BY <1>0, <1>11, <2>1, SoleStill DEF RemoveSource
<1>12. CASE SetPriority
  <2>1. UNCHANGED <<downloads, download, present, done, saved>>
    BY <1>12 DEF SetPriority
  <2> QED BY <1>0, <2>1, SoleStill
<1>13. CASE Remove
  BY <1>13, SoleLeaves DEF Remove
<1>14. CASE TempGone
  BY <1>0, <1>14, SoleStill DEF TempGone, item
<1>15. CASE RecheckTest
  BY <1>15 DEF RecheckTest, Alone
<1>r. CASE RecheckTree \/ RecheckRead \/ RecheckReadEnds
  BY <1>r DEF RecheckTree, RecheckRead, RecheckReadEnds, Still, NoRecheck
<1>16. CASE RecheckClear
  BY <1>16 DEF RecheckClear, Still, NoRecheck
<1>17. CASE RecheckFind
  BY <1>17 DEF RecheckFind, Still, NoRecheck
<1>18. CASE Save
  <2>1. saved'.done = done
    BY <1>18 DEF Save
  <2> QED BY <1>0, <1>18, <2>1, SoleStill DEF Save, item
<1>19. CASE Crash
  <2>1. Tidy({s \in saved.done : s.end <= Size})
    BY <1>0 DEF Tidy, Consolidated
  <2> QED BY <1>0, <1>19, <2>1, NoDownloadShape DEF Crash, Sole, AllListed
<1>20. CASE UNCHANGED vars
  BY <1>0, <1>20, SoleStill DEF vars
<1> QED BY <1>1, <1>2, <1>3, <1>4, <1>5, <1>6, <1>7, <1>8, <1>9, <1>10, <1>11, <1>12, <1>13,
           <1>14, <1>15, <1>r, <1>16, <1>17, <1>18, <1>19, <1>20
        DEF Next, Transfer, Wrong

AloneInv == Still /\ Both /\ Sole

LEMMA AloneInit == Init => AloneInv
BY SoleInit, BothInit DEF Init, AloneInv, Still

LEMMA AloneNext == ASSUME Alone PROVE AloneInv /\ [Next]_vars => AloneInv'
BY BothNext, SoleNext, StillNext DEF AloneInv, Alone

(* The finished segments are apart and inside the file whatever may happen, but  *)
(* for a recheck of a file whose last block is short: what it finds there ends a   *)
(* block behind the end of the file.                                           *)
Inside == "recheck" \notin Env \/ ~Ragged

TidyInv ==
    Both /\ ("recheck" \notin Env => Still) /\ Tidy(done) /\ Tidy(saved.done)

LEMMA TidyFail ==
    ASSUME Both, Tidy(done), NEW u \in Users, Fail(u)
    PROVE  Tidy(done')
<1>1. Shape(download[u])
  BY DEF Both, Base
<1>2. ASSUME NEW credit \in Credits(download[u]), credit > 0
      PROVE  Proper(Segment(download[u].seg.start, download[u].seg.start + credit))
  BY <1>1, <1>2, CreditFacts
<1> QED BY <1>2, AddSegmentTidy DEF Fail

LEMMA TidyNext ==
    ASSUME Inside
    PROVE  TidyInv /\ [Next]_vars => TidyInv'
<1> SUFFICES ASSUME TidyInv, [Next]_vars PROVE TidyInv'
  OBVIOUS
<1>0. Both /\ Both' /\ ("recheck" \notin Env => Still /\ Still') /\ Tidy(done) /\ Tidy(saved.done)
  BY BothNext, StillNext DEF TidyInv
<1>1. ASSUME done' = done \/ done' = {}, saved' = saved PROVE Tidy(done') /\ Tidy(saved'.done)
  BY <1>0, <1>1, TidyEmpty
<1> SUFFICES Tidy(done') /\ Tidy(saved'.done)
  BY <1>0 DEF TidyInv
<1>2. ASSUME NEW u \in Users,
             \/ GetDownload(u) \/ Start(u) \/ Receive(u, "good") \/ Receive(u, "bad")
             \/ Complete(u) \/ TreeDone(u) \/ BadTree(u) \/ FileNotAvailable(u)
             \/ AddSource(u) \/ RemoveSource(u)
      PROVE  Tidy(done') /\ Tidy(saved'.done)
  <2>1. (done' = done \/ done' = {}) /\ saved' = saved
    BY <1>2 DEF GetDownload, Start, Receive, Complete, TreeDone, BadTree, FileNotAvailable,
                AddSource, RemoveSource, item
  <2> QED BY <1>1, <2>1
<1>3. ASSUME NEW u \in Users, EndData(u) PROVE Tidy(done') /\ Tidy(saved'.done)
  <2>1. done' = done \/ done' = {} \/ done' = AddSegment(done, download[u].seg)
    BY <1>3 DEF EndData, ItemLeaves, item
  <2>2. Tidy(AddSegment(done, download[u].seg)) /\ saved' = saved
    BY <1>0, <1>3, EndDataFacts, AddSegmentTidy DEF EndData
  <2> QED BY <1>0, <2>1, <2>2, TidyEmpty
<1>4. ASSUME NEW u \in Users, Fail(u) PROVE Tidy(done') /\ Tidy(saved'.done)
  <2>1. saved' = saved
    BY <1>4 DEF Fail
  <2> QED BY <1>0, <1>4, <2>1, TidyFail
<1>5. CASE \/ SetPriority \/ Remove \/ TempGone
           \/ RecheckTest \/ RecheckTree \/ RecheckClear \/ RecheckRead \/ RecheckReadEnds
  <2>1. (done' = done \/ done' = {}) /\ saved' = saved
    BY <1>5 DEF SetPriority, Remove, TempGone, RecheckTest, RecheckTree, RecheckClear,
                RecheckRead, RecheckReadEnds, ItemLeaves, item
  <2> QED BY <1>1, <2>1
<1>6. CASE RecheckFind
  <2>1. ~Ragged /\ saved' = saved
    BY <1>0, <1>6 DEF RecheckFind, Still, NoRecheck, Inside
  <2>2. done' = done \/ done' = {} \/ \E right : done' = AddBlocks(done, right)
    BY <1>6 DEF RecheckFind, ItemLeaves, item
  <2> QED BY <1>0, <2>1, <2>2, TidyEmpty, AddBlocksTidy
<1>7. CASE Save
  BY <1>0, <1>7 DEF Save, item
<1>8. CASE Crash
  BY <1>0, <1>8 DEF Crash, Tidy, Consolidated
<1>9. CASE UNCHANGED vars
  BY <1>0, <1>9 DEF vars
<1> QED BY <1>2, <1>3, <1>4, <1>5, <1>6, <1>7, <1>8, <1>9 DEF Next, Transfer, Wrong

(* A file of which every block is finished is one finished segment: however    *)
(* its segments came in, two downloads' overlapping, a source's that was dropped,  *)
(* those of Queue.xml or found by a recheck, consolidation has joined them all    *)
(* (QueueItem::addSegment, QueueItem::isFinished).                            *)
THEOREM ExactlyFinishedAlways == ASSUME Inside PROVE Spec => []ExactlyFinished
<1>1. Init => TidyInv
  BY BothInit, TidyEmpty DEF Init, TidyInv, Still
<1>2. TidyInv => ExactlyFinished
  BY AllFinished DEF TidyInv, Tidy, ExactlyFinished, Finished
<1> QED BY <1>1, <1>2, TidyNext, PTL DEF Spec

LEMMA ProgressEndData ==
    ASSUME Alone, AloneInv, NEW u \in Users, EndData(u)
    PROVE  Covered(done) \subseteq Covered(done') \/ ~present'
<1>1. CASE present /\ ~IsFinished(AddSegment(done, download[u].seg))
  <2>1. u \in downloads
    BY <1>1, EndDataFacts DEF AloneInv, Sole, AllListed
  <2>2. /\ done' = AddSegment(done, download[u].seg) /\ downloads' = downloads \ {u}
        /\ present' = present /\ saved' = saved
    BY <1>1 DEF EndData
  <2>3. OnlyOf(u) /\ download'[u] = NoDownload
    BY GoneEffect DEF EndData, AloneInv, Both
  <2>4. download[u].seg.end <= download[u].seg.end
    BY EndDataFacts DEF Proper, AloneInv
  <2> QED BY <2>1, <2>2, <2>3, <2>4, EndDataFacts, SoleAdds DEF AloneInv
<1> QED BY <1>1 DEF EndData, ItemLeaves, item

LEMMA ProgressFail ==
    ASSUME Alone, AloneInv, NEW u \in Users, Fail(u)
    PROVE  Covered(done) \subseteq Covered(done')
<1>0. Both /\ AllListed /\ Sole
  BY DEF AloneInv, Sole
<1>1. ASSUME NEW credit \in Credits(download[u]), u \in downloads, credit > 0,
             done' = AddSegment(done, Segment(download[u].seg.start, download[u].seg.start + credit))
      PROVE  Covered(done) \subseteq Covered(done')
  <2>1. Shape(download[u])
    BY <1>0 DEF Both, Base
  <2> QED BY <1>0, <1>1, <2>1, FailCases, CreditFacts, SoleAdds
<1> QED BY <1>0, <1>1, FailCases

(* What is finished stays finished until the item leaves, its file is found    *)
(* gone, or the program dies; then it is what Queue.xml says                   *)
(* (QueueManager::putDownload, getDownload, loadQueue).                       *)
THEOREM ProgressIsAlwaysKept == ASSUME Alone PROVE Spec => ProgressIsKept
<1> DEFINE P == \/ Covered(done) \subseteq Covered(done') \/ ~present'
                \/ (~temp /\ done' = {}) \/ (Crash /\ done' = saved.done)
<1>1. AloneInv /\ [Next]_vars => [P]_vars
  <2> SUFFICES ASSUME AloneInv, Next PROVE P
    OBVIOUS
  <2>1. ASSUME NEW u \in Users,
               \/ GetDownload(u) \/ Start(u) \/ Receive(u, "good") \/ Receive(u, "bad")
               \/ Complete(u) \/ TreeDone(u) \/ BadTree(u) \/ FileNotAvailable(u)
               \/ AddSource(u) \/ RemoveSource(u)
        PROVE  P
    BY <2>1 DEF GetDownload, Start, Receive, Complete, TreeDone, BadTree, FileNotAvailable,
                AddSource, RemoveSource, item
  <2>2. ASSUME NEW u \in Users, EndData(u) PROVE P
    BY <2>2, ProgressEndData
  <2>3. ASSUME NEW u \in Users, Fail(u) PROVE P
    BY <2>3, ProgressFail
  <2>4. CASE Crash
    <3>1. \A s \in saved.done : s.end <= Size
      BY DEF AloneInv, Sole, Tidy, Proper
    <3>2. {s \in saved.done : s.end <= Size} = saved.done
      BY <3>1
    <3> QED BY <2>4, <3>2 DEF Crash
  <2>5. CASE SetPriority \/ Remove \/ TempGone \/ RecheckTest \/ Save
    BY <2>5 DEF SetPriority, Remove, TempGone, RecheckTest, Save, ItemLeaves, item
  <2>6. CASE RecheckTree \/ RecheckClear \/ RecheckRead \/ RecheckReadEnds \/ RecheckFind
    BY <2>6 DEF RecheckTree, RecheckClear, RecheckRead, RecheckReadEnds, RecheckFind, AloneInv,
                Still, NoRecheck
  <2> QED BY <2>1, <2>2, <2>3, <2>4, <2>5, <2>6 DEF Next, Transfer, Wrong
<1> QED BY <1>1, AloneInit, AloneNext, PTL DEF Spec, ProgressIsKept

------------------------------------------------------------------------------
(* The lists of the users.                                                   *)
Kinds == {"none", "good", "notree", "bad", "badnotree"}
NoSource == [u \in Users |-> "none"]

Listed ==
    /\ UserQueueIsCache
    /\ source \in [Users -> Kinds]
    /\ ~present => done = {} /\ source = NoSource
    /\ saved.sources \subseteq Users
    /\ ~saved.present => saved.done = {} /\ saved.sources = {}

LEMMA EmptyUnfinished == ~IsFinished({})
BY DEF IsFinished

LEMMA NoSourceNone == ASSUME source = NoSource PROVE Sources = {}
BY DEF Sources, NoSource

LEMMA ListedLeaves ==
    ASSUME Listed, ItemLeaves, queued' = {}, saved' = saved
    PROVE  Listed'
BY DEF Listed, ItemLeaves, UserQueueIsCache, NoSource, Kinds

(* Only the segments change, and whether the item is finished does not.       *)
LEMMA ListedStill ==
    ASSUME Listed, UNCHANGED <<present, source, queued, saved>>,
           (present /\ ~Finished /\ ~IsFinished(done')) \/ done' = done
    PROVE  Listed'
BY DEF Listed, UserQueueIsCache, Finished, Sources

LEMMA ListedMakeBad ==
    ASSUME Listed, present, NEW u \in Sources, MakeBad(u), UNCHANGED <<present, done, saved>>
    PROVE  Listed'
<1>1. u \in Users /\ source' \in [Users -> Kinds] /\ Sources' = Sources \ {u}
  BY DEF MakeBad, Listed, Sources, Kinds
<1> QED BY <1>1 DEF Listed, UserQueueIsCache, Finished, MakeBad

LEMMA ListedAddSource ==
    ASSUME Listed, NEW u \in Users, AddSource(u)
    PROVE  Listed'
<1>1. source' \in [Users -> Kinds] /\ Sources' = Sources \cup {u}
  BY DEF AddSource, Listed, Sources, Kinds
<1>2. CASE ~present
  BY <1>1, <1>2, NoSourceNone, EmptyUnfinished DEF AddSource, Listed, UserQueueIsCache, Finished
<1>3. CASE present
  BY <1>1, <1>3 DEF AddSource, Listed, UserQueueIsCache, Finished
<1> QED BY <1>2, <1>3

LEMMA ListedEndData ==
    ASSUME Alone, AloneInv, Listed, NEW u \in Users, EndData(u)
    PROVE  Listed'
<1>1. CASE ~present
  BY <1>1, ListedStill DEF EndData, item
<1>2. CASE present
  <2>1. u \in downloads /\ Proper(download[u].seg)
    BY <1>2, EndDataFacts DEF AloneInv, Sole, AllListed
  <2>2. ~Finished
    <3>1. download[u].seg.start \notin Covered(done)
      BY <2>1 DEF AloneInv, Sole, Unfinished, Proper
    <3>2. ASSUME Finished PROVE download[u].seg.start \in Covered(done)
      <4>1. Segment(0, Size) \in done /\ download[u].seg.start \in 0 .. Size - 1
        BY <2>1, <3>2, SizeAssumption DEF Finished, IsFinished, Proper
      <4> QED BY <4>1, CoveredMember, SegmentFields
    <3> QED BY <3>1, <3>2
  <2>3. CASE IsFinished(AddSegment(done, download[u].seg))
    BY <1>2, <2>2, <2>3, ListedLeaves DEF EndData, Listed, UserQueueIsCache
  <2>4. CASE ~IsFinished(AddSegment(done, download[u].seg))
    BY <1>2, <2>2, <2>4, ListedStill DEF EndData
  <2> QED BY <2>3, <2>4
<1> QED BY <1>1, <1>2

(* A download that fails does not finish the file: its last block is missing.  *)
LEMMA ListedFail ==
    ASSUME Alone, "late" \notin Env, AloneInv, Listed, NEW u \in Users, Fail(u)
    PROVE  Listed'
<1> DEFINE d == download[u]
<1>0. Both /\ AllListed /\ Sole
  BY DEF AloneInv, Sole
<1>1. UNCHANGED <<present, source, queued, saved>>
  BY DEF Fail
<1>2. ASSUME NEW credit \in Credits(d), u \in downloads, present, credit > 0, d.type = "FILE",
             done' = AddSegment(done, Segment(d.seg.start, d.seg.start + credit))
      PROVE  Listed'
  <2> DEFINE s == Segment(d.seg.start, d.seg.start + credit)
             x == d.seg.end - 1
  <2>1. Shape(d) /\ d.pos \in Int /\ d.seg.start \in Int /\ d.seg.end \in Int /\ 0 <= d.seg.start
    BY <1>0, DownloadFields DEF Both, Base, Shape
  <2>2. Proper(s) /\ s.start = d.seg.start /\ s.end = d.seg.start + credit /\ credit <= d.pos
        /\ credit \in Int
    BY <1>2, <2>1, CreditFacts
  <2>3. d.pos < d.seg.end - d.seg.start
    <3>1. Breaks(d)
      BY <1>2 DEF Credits
    <3>2. d.pos > 0
      BY <1>2, <2>1, <2>2
    <3> QED BY <1>2, <2>1, <3>1, <3>2 DEF Breaks, Shape, Length
  <2>4. x \in d.seg.start .. d.seg.end - 1 /\ x \in 0 .. Size - 1 /\ x \notin s.start .. s.end - 1
    <3>1. d.seg.end <= Size
      BY <2>1 DEF Shape
    <3>2. credit > 0 /\ Size \in Int
      BY <1>2, SizeAssumption
    <3> HIDE DEF d, s
    <3>3. s.end - 1 < x /\ x \in Int /\ s.end \in Int
      BY <2>1, <2>2, <2>3
    <3>4. d.seg.start <= x
      BY <2>1, <2>2, <2>3, <3>2
    <3> QED BY <2>1, <3>1, <3>2, <3>3, <3>4
  <2>5. x \notin Covered(done)
    BY <1>0, <1>2, <2>4 DEF Sole, Unfinished
  <2>6. x \notin Covered(done')
    <3>1. done \in SUBSET Segments /\ s \in Segments
      BY <1>0, <2>2, ProperSegments DEF Sole, Tidy
    <3> QED BY <1>2, <2>4, <2>5, <3>1, AddSegmentCovers
  <2>7. ASSUME NEW D, IsFinished(D) PROVE x \in Covered(D)
    <3>1. Segment(0, Size) \in D
      BY <2>7 DEF IsFinished
    <3> QED BY <2>4, <3>1, CoveredMember, SegmentFields
  <2>8. ~Finished /\ ~IsFinished(done')
    BY <2>5, <2>6, <2>7 DEF Finished
  <2> QED BY <1>1, <1>2, <2>8, ListedStill
<1> QED BY <1>0, <1>1, <1>2, FailCases, ListedStill

LEMMA ListedCrash == ASSUME Listed, Crash PROVE Listed'
<1> DEFINE D == {s \in saved.done : s.end <= Size}
<1>1. source' \in [Users -> Kinds] /\ Sources' = saved.sources /\ done' = D
  BY DEF Crash, Listed, Sources, Kinds
<1>2. present' = saved.present /\ saved' = saved
      /\ queued' = IF IsFinished(D) THEN {} ELSE saved.sources
  BY DEF Crash
<1>3. ~present' => done' = {} /\ source' = NoSource
  BY <1>1, <1>2 DEF Crash, Listed, NoSource
<1>4. UserQueueIsCache'
  BY <1>1, <1>2 DEF UserQueueIsCache, Finished, Listed
<1> QED BY <1>1, <1>2, <1>3, <1>4 DEF Listed

LEMMA ListedInit == Init => Listed
BY DEF Init, Listed, UserQueueIsCache, NoSource, Kinds

LEMMA ListedNext ==
    ASSUME Alone, "late" \notin Env
    PROVE  AloneInv /\ Listed /\ [Next]_vars => Listed'
<1> SUFFICES ASSUME AloneInv, Listed, [Next]_vars PROVE Listed'
  OBVIOUS
<1>1. ASSUME NEW u \in Users, GetDownload(u) PROVE Listed'
  <2>1. present /\ ~Finished
    BY <1>1 DEF GetDownload, Listed, UserQueueIsCache
  <2> QED BY <1>1, <2>1, EmptyUnfinished, ListedStill DEF GetDownload
<1>2. ASSUME NEW u \in Users,
             \/ Start(u) \/ Receive(u, "good") \/ Receive(u, "bad") \/ Complete(u) \/ TreeDone(u)
      PROVE  Listed'
  BY <1>2, ListedStill DEF Start, Receive, Complete, TreeDone, item
<1>3. ASSUME NEW u \in Users, EndData(u) PROVE Listed'
  BY <1>3, ListedEndData
<1>4. ASSUME NEW u \in Users, Fail(u) PROVE Listed'
  BY <1>4, ListedFail
<1>5. ASSUME NEW u \in Users, BadTree(u) PROVE Listed'
  BY <1>5, ListedStill, ListedMakeBad DEF BadTree
<1>6. ASSUME NEW u \in Users, FileNotAvailable(u) PROVE Listed'
  <2>0. UNCHANGED <<present, done, saved>>
    BY <1>6 DEF FileNotAvailable
  <2>1. CASE UNCHANGED <<source, queued>>
    BY <2>0, <2>1, ListedStill
  <2>2. CASE present /\ u \in Sources /\ MakeBad(u)
    BY <2>0, <2>2, ListedMakeBad
  <2>3. CASE present /\ u \in Sources /\ source' = [source EXCEPT ![u] = "notree"]
             /\ queued' = queued
    <3>1. source' \in [Users -> Kinds] /\ Sources' = Sources
      BY <2>3 DEF Listed, Sources, Kinds
    <3> QED BY <2>0, <2>3, <3>1 DEF Listed, UserQueueIsCache, Finished
  <2> QED BY <1>6, <2>1, <2>2, <2>3 DEF FileNotAvailable
<1>7. ASSUME NEW u \in Users, AddSource(u) PROVE Listed'
  BY <1>7, ListedAddSource
<1>8. ASSUME NEW u \in Users, RemoveSource(u) PROVE Listed'
  BY <1>8, ListedMakeBad DEF RemoveSource
<1>9. CASE SetPriority
  <2>1. queued' = queued
    BY <1>9 DEF SetPriority, Listed, UserQueueIsCache
  <2> QED BY <1>9, <2>1, ListedStill DEF SetPriority
<1>10. CASE Remove
  <2>1. queued' = {}
    BY <1>10 DEF Remove, Listed, UserQueueIsCache
  <2> QED BY <1>10, <2>1, ListedLeaves DEF Remove
<1>11. CASE TempGone \/ RecheckTest
  BY <1>11, ListedStill DEF TempGone, RecheckTest, item
<1>12. CASE RecheckTree \/ RecheckClear \/ RecheckRead \/ RecheckReadEnds \/ RecheckFind
  BY <1>12 DEF RecheckTree, RecheckClear, RecheckRead, RecheckReadEnds, RecheckFind, AloneInv,
               Still, NoRecheck
<1>13. CASE Save
  BY <1>13, NoSourceNone DEF Save, item, Listed, UserQueueIsCache, Finished, Sources
<1>14. CASE Crash
  BY <1>14, ListedCrash
<1>15. CASE UNCHANGED vars
  BY <1>15, ListedStill DEF vars
<1> QED BY <1>1, <1>2, <1>3, <1>4, <1>5, <1>6, <1>7, <1>8, <1>9, <1>10, <1>11, <1>12, <1>13,
           <1>14, <1>15
        DEF Next, Transfer, Wrong

(* The lists that UserQueue keeps of the users are those of the item's         *)
(* sources, whatever ends, fails, is removed or restarts; a download that      *)
(* fails with all its bytes (late) or takes over (overlap) would not keep      *)
(* them, nor does the recheck (QueueManager.h, UserQueue).                    *)
THEOREM UserQueueIsAlwaysCache ==
    ASSUME Alone, "late" \notin Env
    PROVE  Spec => []UserQueueIsCache
<1>1. Listed => UserQueueIsCache
  BY DEF Listed
<1> QED BY <1>1, AloneInit, AloneNext, ListedInit, ListedNext, PTL DEF Spec

------------------------------------------------------------------------------
(* Types.                                                                    *)
Typed == Both /\ TypeOK

LEMMA TypedKinds ==
    ASSUME TypeOK
    PROVE  source \in [Users -> Kinds] /\ Sources \subseteq Users
BY DEF TypeOK, Sources, Kinds

Steps == recheck \in Recheck

LEMMA StepsNext == ASSUME TypeOK, [Next]_vars PROVE Steps'
<1>1. ASSUME NEW u \in Users,
             GetDownload(u) \/ Start(u) \/ Transfer(u) \/ FileNotAvailable(u)
             \/ AddSource(u) \/ RemoveSource(u)
      PROVE  recheck' = recheck
  BY <1>1 DEF GetDownload, Start, Transfer, Receive, Wrong, Complete, EndData, TreeDone,
              BadTree, Fail, FileNotAvailable, AddSource, RemoveSource
<1>2. CASE SetPriority \/ Remove \/ TempGone \/ Save \/ UNCHANGED vars
  BY <1>2 DEF SetPriority, Remove, TempGone, Save, vars, TypeOK, Steps
<1>3. NoRecheck \in Recheck /\ recheck \in Recheck
  BY SizeAssumption DEF NoRecheck, Recheck, TypeOK
<1>4. CASE RecheckTest \/ RecheckTree \/ RecheckClear \/ RecheckFind \/ Crash
  BY <1>3, <1>4 DEF RecheckTest, RecheckTree, RecheckClear, RecheckFind, Crash, Steps, Recheck
<1>5. CASE RecheckRead
  <2>1. recheck.pos + 1 \in 0 .. Size /\ recheck.pos \in Blocks /\ recheck.found \subseteq Blocks
    BY <1>3, <1>5, SizeAssumption DEF RecheckRead, Recheck, Blocks
  <2> DEFINE next(F) == [recheck EXCEPT !.pos = @ + 1, !.found = F]
  <2>2. next(recheck.found) \in Recheck /\ next(recheck.found \cup {recheck.pos}) \in Recheck
    BY <1>3, <2>1 DEF Recheck
  <2>3. recheck' = next(recheck.found) \/ recheck' = next(recheck.found \cup {recheck.pos})
    BY <1>5 DEF RecheckRead
  <2> QED BY <2>2, <2>3 DEF Steps
<1>6. CASE RecheckReadEnds
  <2>1. [recheck EXCEPT !.at = "read", !.pos = 0] \in Recheck
    <3>1. 0 \in 0 .. Size
      BY SizeAssumption
    <3> QED BY <1>3, <3>1 DEF Recheck
  <2> QED BY <1>6, <2>1 DEF RecheckReadEnds, Steps
<1> QED BY <1>1, <1>2, <1>3, <1>4, <1>5, <1>6 DEF Next, Steps

LEMMA TypedStill ==
    ASSUME TypeOK, Both', Steps', UNCHANGED <<present, paused, done, source, queued, temp, disk, saved>>,
           dirty' \in BOOLEAN
    PROVE  TypeOK'
BY DEF TypeOK, Both, Base, Steps

LEMMA TypedItem ==
    ASSUME TypeOK, Both', Steps', UNCHANGED saved,
           present' \in BOOLEAN, paused' \in BOOLEAN, done' \subseteq Segments,
           source' \in [Users -> Kinds], queued' \subseteq Users,
           temp' \in BOOLEAN, disk' \subseteq Blocks, dirty' \in BOOLEAN
    PROVE  TypeOK'
BY DEF TypeOK, Both, Base, Steps, Kinds

LEMMA TypedMakeBad ==
    ASSUME TypeOK, NEW u \in Users, MakeBad(u)
    PROVE  source' \in [Users -> Kinds] /\ queued' \subseteq Users /\ dirty' = TRUE
BY DEF TypeOK, MakeBad, Kinds

LEMMA TypedFail ==
    ASSUME TypeOK, Both, NEW u \in Users, Fail(u)
    PROVE  done' \subseteq Segments
<1>1. Shape(download[u])
  BY DEF Both, Base
<1>2. ASSUME NEW credit \in Credits(download[u]), credit > 0
      PROVE  Segment(download[u].seg.start, download[u].seg.start + credit) \in Segments
  BY <1>1, <1>2, CreditFacts, ProperSegments
<1>3. done \in SUBSET Segments
  BY DEF TypeOK
<1> QED BY <1>2, <1>3, AddSegmentType DEF Fail

LEMMA TypedNext == Typed /\ [Next]_vars => Typed'
<1> SUFFICES ASSUME Typed, [Next]_vars PROVE Typed'
  OBVIOUS
<1>0. TypeOK /\ Both /\ Both' /\ Steps'
  BY BothNext, StepsNext DEF Typed
<1>a. /\ present \in BOOLEAN /\ paused \in BOOLEAN /\ done \subseteq Segments
      /\ source \in [Users -> Kinds] /\ queued \subseteq Users /\ Sources \subseteq Users
      /\ temp \in BOOLEAN /\ disk \subseteq Blocks /\ dirty \in BOOLEAN
  BY <1>0, TypedKinds DEF TypeOK
<1>b. NoSource \in [Users -> Kinds] /\ {} \subseteq Segments
  BY DEF NoSource, Kinds
<1> SUFFICES TypeOK'
  BY <1>0 DEF Typed
<1>1. ASSUME NEW u \in Users, GetDownload(u) PROVE TypeOK'
  BY <1>0, <1>a, <1>b, <1>1, TypedItem DEF GetDownload
<1>2. ASSUME NEW u \in Users, Start(u) PROVE TypeOK'
  <2>1. temp' \in BOOLEAN
    BY <1>2, <1>a DEF Start
  <2> QED BY <1>0, <1>a, <1>2, <2>1, TypedItem DEF Start, item
<1>3. ASSUME NEW u \in Users, NEW quality \in {"good", "bad"}, Receive(u, quality) PROVE TypeOK'
  BY <1>0, <1>a, <1>3, TypedItem DEF Receive, item
<1>4. ASSUME NEW u \in Users, Complete(u) PROVE TypeOK'
  <2> DEFINE d == download[u]
  <2>1. Shape(d) /\ d.part # "none"
    BY <1>0, <1>4 DEF Complete, Both, Base
  <2>2. d.seg.start + d.pos \in Blocks
    <3>1. d.pos < d.seg.end - d.seg.start /\ d.seg.end <= Size
      BY <2>1 DEF Shape, Length
    <3>2. /\ d.pos \in Int /\ 0 <= d.pos /\ d.seg.start \in Int /\ d.seg.end \in Int
          /\ 0 <= d.seg.start
      BY <2>1, DownloadFields DEF Shape
    <3> QED BY <3>1, <3>2, SizeAssumption DEF Blocks
  <2>3. disk' \subseteq Blocks
    BY <1>a, <1>4, <2>2 DEF Complete
  <2> QED BY <1>0, <1>a, <1>4, <2>3, TypedItem DEF Complete, item
<1>5. ASSUME NEW u \in Users, EndData(u) PROVE TypeOK'
  <2>1. AddSegment(done, download[u].seg) \subseteq Segments
    <3>1. download[u].seg \in Segments
      BY <1>0, <1>5, EndDataFacts, ProperSegments
    <3> QED BY <3>1, <1>a, AddSegmentType
  <2>2. saved' = saved /\ paused' = paused /\ present' \in BOOLEAN /\ dirty' \in BOOLEAN
    BY <1>5, <1>a DEF EndData, ItemLeaves, item
  <2>3. done' \subseteq Segments /\ source' \in [Users -> Kinds] /\ queued' \subseteq Users
    BY <1>5, <1>a, <1>b, <2>1 DEF EndData, ItemLeaves, item, NoSource
  <2>4. temp' \in BOOLEAN /\ disk' \subseteq Blocks
    BY <1>5, <1>a DEF EndData, DeleteTemp, NoTempFile
  <2> QED BY <1>0, <1>a, <2>2, <2>3, <2>4, TypedItem
<1>6. ASSUME NEW u \in Users, TreeDone(u) PROVE TypeOK'
  BY <1>0, <1>a, <1>6, TypedStill DEF TreeDone, item
<1>7. ASSUME NEW u \in Users, BadTree(u) PROVE TypeOK'
  <2>1. source' \in [Users -> Kinds] /\ queued' \subseteq Users /\ dirty' \in BOOLEAN
    BY <1>0, <1>a, <1>7, TypedMakeBad DEF BadTree
  <2> QED BY <1>0, <1>a, <1>7, <2>1, TypedItem DEF BadTree
<1>8. ASSUME NEW u \in Users, Fail(u) PROVE TypeOK'
  <2>1. done' \subseteq Segments
    BY <1>0, <1>8, TypedFail
  <2>2. temp' \in BOOLEAN /\ disk' \subseteq Blocks /\ dirty' \in BOOLEAN
    BY <1>8, <1>a DEF Fail, DeleteTemp, NoTempFile
  <2> QED BY <1>0, <1>a, <1>8, <2>1, <2>2, TypedItem DEF Fail
<1>9. ASSUME NEW u \in Users, FileNotAvailable(u) PROVE TypeOK'
  <2>1. source' \in [Users -> Kinds] /\ queued' \subseteq Users /\ dirty' \in BOOLEAN
    BY <1>0, <1>a, <1>9, TypedMakeBad DEF FileNotAvailable, Kinds
  <2>2. temp' \in BOOLEAN /\ disk' \subseteq Blocks
    BY <1>9, <1>a DEF FileNotAvailable, DeleteTemp, NoTempFile
  <2> QED BY <1>0, <1>a, <1>9, <2>1, <2>2, TypedItem DEF FileNotAvailable
<1>10. ASSUME NEW u \in Users, AddSource(u) PROVE TypeOK'
  <2>1. source' \in [Users -> Kinds] /\ queued' \subseteq Users /\ paused' \in BOOLEAN
    BY <1>a, <1>10 DEF AddSource, Kinds
  <2> QED BY <1>0, <1>a, <1>10, <2>1, TypedItem DEF AddSource
<1>11. ASSUME NEW u \in Users, RemoveSource(u) PROVE TypeOK'
  BY <1>0, <1>a, <1>11, TypedMakeBad, TypedItem DEF RemoveSource
<1>12. CASE SetPriority
  BY <1>0, <1>a, <1>12, TypedItem DEF SetPriority
<1>13. CASE Remove
  <2>1. temp' \in BOOLEAN /\ disk' \subseteq Blocks /\ queued' \subseteq Users
    BY <1>13, <1>a DEF Remove, DeleteTemp, NoTempFile
  <2> QED BY <1>0, <1>a, <1>b, <1>13, <2>1, TypedItem DEF Remove, ItemLeaves, NoSource
<1>14. CASE TempGone
  BY <1>0, <1>a, <1>14, TypedItem DEF TempGone, NoTempFile, item
<1>15. CASE RecheckTest \/ RecheckTree \/ RecheckClear \/ RecheckRead \/ RecheckReadEnds
  <2>1. done' \subseteq Segments
    BY <1>15, <1>a DEF RecheckTest, RecheckTree, RecheckClear, RecheckRead, RecheckReadEnds, item
  <2> QED BY <1>0, <1>a, <1>15, <2>1, TypedItem
          DEF RecheckTest, RecheckTree, RecheckClear, RecheckRead, RecheckReadEnds, item
<1>16. CASE RecheckFind
  <2>1. \A right : AddBlocks(done, right) \in SUBSET Segments
    BY <1>a, AddBlocksType
  <2>2. done' \subseteq Segments /\ source' \in [Users -> Kinds] /\ queued' \subseteq Users
    BY <1>16, <1>a, <1>b, <2>1 DEF RecheckFind, ItemLeaves, item, NoSource
  <2>3. temp' \in BOOLEAN /\ disk' \subseteq Blocks /\ dirty' \in BOOLEAN
    BY <1>16, <1>a DEF RecheckFind, NoTempFile
  <2>4. saved' = saved /\ paused' = paused /\ present' \in BOOLEAN
    BY <1>16, <1>a DEF RecheckFind, ItemLeaves, item
  <2> QED BY <1>0, <1>a, <2>2, <2>3, <2>4, TypedItem
<1>17. CASE Save
  <2>1. saved' \in Saved
    BY <1>a, <1>17 DEF Save, Saved
  <2> QED BY <1>0, <1>17, <2>1 DEF Save, TypeOK, item, Both, Base, Steps
<1>18. CASE Crash
  <2>1. saved \in Saved
    BY <1>0 DEF TypeOK
  <2>2. /\ saved.present \in BOOLEAN /\ saved.paused \in BOOLEAN
        /\ saved.done \subseteq Segments /\ saved.sources \subseteq Users
    BY <2>1 DEF Saved
  <2>3. source' \in [Users -> Kinds] /\ queued' \subseteq Users /\ done' \subseteq Segments
    BY <1>18, <2>2 DEF Crash, Kinds
  <2> QED BY <1>0, <1>a, <1>18, <2>2, <2>3, TypedItem DEF Crash
<1>19. CASE UNCHANGED vars
  BY <1>0, <1>a, <1>19, TypedStill DEF vars
<1> QED BY <1>1, <1>2, <1>3, <1>4, <1>5, <1>6, <1>7, <1>8, <1>9, <1>10, <1>11, <1>12, <1>13,
           <1>14, <1>15, <1>16, <1>17, <1>18, <1>19
        DEF Next, Transfer, Wrong

LEMMA TypedInit == Init => Typed
<1>1. Init => TypeOK
  <2> SUFFICES ASSUME Init PROVE TypeOK
    OBVIOUS
  <2>1. download \in [Users -> Download]
    BY NoDownloadShape DEF Init, Shape
  <2>2. saved \in Saved
    BY DEF Init, Saved
  <2>3. NoRecheck \in Recheck
    BY SizeAssumption DEF NoRecheck, Recheck
  <2> QED BY <2>1, <2>2, <2>3 DEF Init, TypeOK
<1> QED BY <1>1, BothInit DEF Typed

(* Types, for any users, file and environment.                                *)
THEOREM TypesAlways == Spec => []TypeOK
<1>1. Typed => TypeOK
  BY DEF Typed
<1> QED BY <1>1, TypedInit, TypedNext, PTL DEF Spec

------------------------------------------------------------------------------
(* What is finished is on the disk, when nothing stale is loaded, nobody else     *)
(* deletes a file that is rechecked or adds it again before the recheck ends      *)
(* (else its blocks are credited to a file that is not the one that was read), and *)
(* peers who send wrong data find no recheck, nothing added again and no one that  *)
(* takes over, is dropped, or fails with all its bytes.                          *)
Honest == /\ "crash" \notin Env
          /\ "recheck" \in Env => Env \cap {"gone", "stale"} = {}
          /\ "corrupt" \in Env => Alone /\ "late" \notin Env

LEMMA HonestAlone == ASSUME Honest, "corrupt" \in Env PROVE Alone
BY DEF Honest

Has(u) == download[u].type = "FILE" /\ download[u].started
Had(d) == d.seg.start .. d.seg.start + d.pos - 1

(* What an open download wrote is in the temporary file, if there still is one; of *)
(* an item that was removed too, if it can be added again before.             *)
Written ==
    present \/ "readd" \in Env =>
        \A u \in Users : Has(u) /\ temp /\ ~download[u].wrong => Had(download[u]) \subseteq disk

OnDisk ==
    /\ DoneIsGood /\ Written
    /\ ~present => done = {}
    /\ done \subseteq Segments

(* What the recheck has found of an item that is still there is right.        *)
Rechecked ==
    /\ recheck.at = "idle" => recheck.found = {}
    /\ present /\ recheck.at # "idle" => temp /\ recheck.found \subseteq disk

(* Sole, where wrong data can arrive.                                        *)
HonestInv == /\ Both /\ TypeOK /\ ("recheck" \notin Env => Still) /\ ("corrupt" \in Env => Sole)
             /\ OnDisk /\ Rechecked

LEMMA NothingCovered == Covered({}) = {}
BY DEF Covered

(* The downloads stay what they are, or one ends.                             *)
NoneBegins == \A v \in Users : Has(v)' => /\ Has(v) /\ Had(download[v])' = Had(download[v])
                                          /\ download'[v].wrong = download[v].wrong

LEMMA OnDiskGone ==
    ASSUME Both, NEW u \in Users, OnlyOf(u), download'[u] = NoDownload
    PROVE  NoneBegins
BY NoDownloadShape DEF NoneBegins, OnlyOf, Has, Had, Alike

LEMMA OnDiskLeaves ==
    ASSUME OnDisk, ItemLeaves, (UNCHANGED <<temp, disk>> /\ present /\ NoneBegins) \/ NoTempFile
    PROVE  OnDisk'
BY DEF OnDisk, ItemLeaves, DoneIsGood, NoTempFile, Written, NoneBegins

(* And nothing new is finished.                                              *)
LEMMA OnDiskStill ==
    ASSUME OnDisk, present' = present, done' = done \/ done' = {}, UNCHANGED <<temp, disk>>,
           NoneBegins
    PROVE  OnDisk'
<1>1. Covered(done') \subseteq Covered(done) /\ done' \subseteq Segments
  BY NothingCovered DEF OnDisk
<1>2. DoneIsGood'
  BY <1>1 DEF OnDisk, DoneIsGood
<1>3. Written'
  BY DEF OnDisk, Written, NoneBegins
<1> QED BY <1>1, <1>2, <1>3 DEF OnDisk

(* The temporary file of an item that is not there is deleted.                *)
LEMMA OnDiskDelete ==
    ASSUME OnDisk, ~present, DeleteTemp, UNCHANGED <<present, done>>, NoneBegins
    PROVE  OnDisk'
<1>1. CASE NoTempFile
  BY <1>1 DEF OnDisk, NoTempFile, DoneIsGood, Written
<1>2. CASE UNCHANGED <<temp, disk>>
  BY <1>2, OnDiskStill
<1> QED BY <1>1, <1>2 DEF DeleteTemp

(* u ends, and what it has had of its segment counts.                         *)
LEMMA OnDiskAdds ==
    ASSUME OnDisk, Both, NEW u \in Users, OnlyOf(u), download'[u] = NoDownload,
           NEW s, Proper(s), Has(u), ~download[u].wrong,
           s.start .. s.end - 1 \subseteq Had(download[u]),
           present, done' = AddSegment(done, s), UNCHANGED <<present, temp, disk>>
    PROVE  OnDisk'
<1>1. s \in Segments /\ done \in SUBSET Segments
  BY ProperSegments DEF OnDisk
<1>2. done' \subseteq Segments
  BY <1>1, AddSegmentType
<1>3. Covered(done') \subseteq Covered(done) \cup (s.start .. s.end - 1)
  BY <1>1, AddSegmentCovers
<1>4. temp => s.start .. s.end - 1 \subseteq disk
  BY DEF OnDisk, Written
<1>5. DoneIsGood'
  BY <1>3, <1>4 DEF OnDisk, DoneIsGood
<1>6. Written'
  BY OnDiskGone DEF OnDisk, Written, NoneBegins
<1> QED BY <1>2, <1>5, <1>6 DEF OnDisk

LEMMA OnDiskGetDownload ==
    ASSUME OnDisk, Both, NEW u \in Users, GetDownload(u)
    PROVE  OnDisk'
<1>1. OnlyOf(u) /\ ~download'[u].started
  <2>1. OnlyOf(u) /\ download'[u] \in NewDownloads(u, done')
    BY GetDownloadEffect DEF Both
  <2> QED BY <2>1 DEF NewDownloads, NewDownload
<1>2. NoneBegins
  BY <1>1 DEF NoneBegins, OnlyOf, Has, Had, Alike
<1> QED BY <1>2, OnDiskStill DEF GetDownload

LEMMA OnDiskStart ==
    ASSUME OnDisk, Both, NEW u \in Users, Start(u)
    PROVE  OnDisk'
<1>1. /\ Moves(u) /\ download'[u].pos = 0 /\ download'[u].type = download[u].type
      /\ done' = done /\ present' = present
      /\ \/ download[u].type = "FILE" /\ ~temp /\ ~Open /\ temp' = TRUE
         \/ UNCHANGED <<temp, disk>>
      /\ download[u].type = "FILE" => present /\ (Downloaded => temp)
  BY StartEffect DEF Both, Start, item, Moves, Base, Shape
<1>2. ASSUME NEW v \in Users \ {u}
      PROVE  /\ Has(v)' = Has(v) /\ Had(download[v])' = Had(download[v])
             /\ download'[v].wrong = download[v].wrong
  BY <1>1 DEF Moves, OnlyOf, Alike, Has, Had
<1>3. Had(download[u])' = {}
  <2>1. download'[u].seg.start \in Int
    BY <1>1, DownloadFields DEF Moves, OnlyOf
  <2> QED BY <1>1, <2>1 DEF Had
<1>4. CASE UNCHANGED <<temp, disk>>
  <2>1. DoneIsGood'
    BY <1>1, <1>4 DEF OnDisk, DoneIsGood
  <2>2. Written'
    BY <1>1, <1>2, <1>3, <1>4 DEF OnDisk, Written
  <2> QED BY <1>1, <1>4, <2>1, <2>2 DEF OnDisk
<1>5. CASE ~UNCHANGED <<temp, disk>>
  <2>1. ~temp /\ download[u].type = "FILE" /\ ~Open /\ done = {} /\ \A v \in Users : ~Has(v)
    <3>1. ~temp /\ download[u].type = "FILE" /\ ~Open
      BY <1>1, <1>5
    <3>2. done = {}
      BY <1>1, <3>1 DEF Downloaded
    <3> QED BY <3>1, <3>2 DEF Open, Has
  <2>2. DoneIsGood'
    BY <1>1, <2>1, NothingCovered DEF DoneIsGood
  <2>3. Written'
    BY <1>2, <1>3, <2>1 DEF Written
  <2> QED BY <1>1, <2>1, <2>2, <2>3 DEF OnDisk
<1> QED BY <1>4, <1>5

LEMMA OnDiskReceive ==
    ASSUME Honest, HonestInv, NEW u \in Users, NEW quality \in {"good", "bad"},
           Receive(u, quality), quality = "bad" => "corrupt" \in Env
    PROVE  OnDisk'
<1> DEFINE x == download[u].seg.start + download[u].pos
<1>0. OnDisk /\ Both /\ Base
  BY DEF HonestInv, Both
<1>1. /\ Moves(u) /\ download'[u].pos = download[u].pos /\ download'[u].wrong = download[u].wrong
      /\ download'[u].started = download[u].started
  BY <1>0, ReceiveEffect
<1>2. UNCHANGED <<present, done, temp>>
  BY DEF Receive, item
<1>3. \A v \in Users : /\ Has(v)' = Has(v) /\ Had(download[v])' = Had(download[v])
                       /\ download'[v].wrong = download[v].wrong
  BY <1>1 DEF Moves, OnlyOf, Alike, Has, Had
<1>4. CASE quality = "good"
  BY <1>0, <1>2, <1>3, <1>4, OnDiskStill DEF Receive, NoneBegins
<1>5. CASE quality = "bad" /\ present
  <2>1. Sole /\ Alone /\ u \in downloads
    BY <1>5, HonestAlone DEF HonestInv, Sole, AllListed, Receive
  <2>2. /\ download[u].pos \in Int /\ 0 <= download[u].pos
        /\ download[u].seg.start \in Int /\ download[u].seg.end \in Int
        /\ download[u].pos < download[u].seg.end - download[u].seg.start
    BY <1>0, DownloadFields DEF Receive, Length, Base
  <2>3. x \in download[u].seg.start .. download[u].seg.end - 1
    BY <2>2
  <2>4. x \notin Covered(done)
    BY <2>1, <2>3 DEF Sole, Unfinished
  <2>5. ASSUME NEW v \in Users, Has(v) PROVE x \notin Had(download[v])
    <3>1. v \in downloads
      BY <1>5, <2>1, <2>5 DEF Sole, AllListed, Has
    <3>2. /\ download[v].pos \in Int /\ 0 <= download[v].pos
          /\ download[v].seg.start \in Int /\ download[v].seg.end \in Int
          /\ download[v].pos <= download[v].seg.end - download[v].seg.start
      BY <1>0, DownloadFields DEF Base, Shape, Length
    <3>3. CASE v = u
      BY <2>2, <3>3 DEF Had
    <3>4. CASE v # u
      <4>1. ~Overlaps(download[u].seg, download[v].seg)
        BY <1>0, <2>1, <3>1, <3>4, Disjoint
      <4> QED BY <2>2, <2>3, <3>2, <4>1 DEF Had, Overlaps
    <3> QED BY <3>3, <3>4
  <2>6. disk' = disk \ {x}
    BY <1>5 DEF Receive
  <2> HIDE DEF x
  <2>7. DoneIsGood'
    BY <1>0, <1>2, <2>4, <2>6 DEF OnDisk, DoneIsGood
  <2>8. Written'
    BY <1>0, <1>2, <1>3, <1>5, <2>5, <2>6 DEF OnDisk, Written
  <2> QED BY <1>0, <1>2, <2>6, <2>7, <2>8 DEF OnDisk
<1>6. CASE quality = "bad" /\ ~present
  <2>1. "readd" \notin Env
    BY <1>6, HonestAlone DEF Alone
  <2> QED BY <1>0, <1>2, <1>6, <2>1 DEF OnDisk, DoneIsGood, Written, Receive
<1> QED BY <1>4, <1>5, <1>6

LEMMA OnDiskComplete ==
    ASSUME OnDisk, Both, NEW u \in Users, Complete(u)
    PROVE  OnDisk'
<1> DEFINE x == download[u].seg.start + download[u].pos
<1>0. Base /\ Shape(download[u]) /\ download[u].part # "none"
  BY DEF Both, Base, Complete
<1>1. /\ Moves(u) /\ download'[u].pos = download[u].pos + 1
      /\ download'[u].started = download[u].started
      /\ ~download'[u].wrong => ~download[u].wrong /\ download[u].part = "good"
  BY <1>0, CompleteEffect
<1>2. UNCHANGED <<present, done, temp>>
  BY DEF Complete, item
<1>3. \A v \in Users \ {u} : /\ Has(v)' = Has(v) /\ Had(download[v])' = Had(download[v])
                             /\ download'[v].wrong = download[v].wrong
  BY <1>1 DEF Moves, OnlyOf, Alike, Has, Had
<1>4. Has(u)' = Has(u) /\ Had(download[u])' = Had(download[u]) \cup {x}
  <2>1. /\ download[u].pos \in Int /\ 0 <= download[u].pos /\ download[u].seg.start \in Int
        /\ download'[u].seg = download[u].seg /\ download'[u].type = download[u].type
    BY <1>0, <1>1, DownloadFields DEF Shape, Moves
  <2>2. download[u].seg.start .. download[u].seg.start + (download[u].pos + 1) - 1
          = (download[u].seg.start .. download[u].seg.start + download[u].pos - 1) \cup {x}
    <3>1. ASSUME NEW a \in Int, NEW n \in Int, 0 <= n
          PROVE  a .. a + (n + 1) - 1 = (a .. a + n - 1) \cup {a + n}
      BY <3>1
    <3> QED BY <2>1, <3>1
  <2> QED BY <1>1, <2>1, <2>2 DEF Has, Had
<1>5. disk' = IF (temp \/ Held) /\ download[u].part = "good" THEN disk \cup {x} ELSE disk
  BY DEF Complete
<1> HIDE DEF x
<1>6. DoneIsGood'
  BY <1>2, <1>5 DEF OnDisk, DoneIsGood
<1>7. Written'
  BY <1>1, <1>2, <1>3, <1>4, <1>5 DEF OnDisk, Written
<1> QED BY <1>2, <1>5, <1>6, <1>7 DEF OnDisk

LEMMA OnDiskEndData ==
    ASSUME OnDisk, Both, NEW u \in Users, EndData(u)
    PROVE  OnDisk'
<1>0. OnlyOf(u) /\ download'[u] = NoDownload
  BY GoneEffect DEF EndData, Both
<1>1. CASE ~present
  BY <1>1, <1>0, OnDiskGone, OnDiskDelete DEF EndData, item
<1>2. CASE present /\ IsFinished(AddSegment(done, download[u].seg))
  BY <1>2, OnDiskLeaves DEF EndData
<1>3. CASE present /\ ~IsFinished(AddSegment(done, download[u].seg))
  <2>1. Has(u) /\ ~download[u].wrong /\ Proper(download[u].seg)
    <3>1. Proper(download[u].seg)
      BY EndDataFacts
    <3>2. download[u].started
      BY DEF EndData
    <3>3. ~download[u].wrong
      BY DEF EndData
    <3> QED BY <3>1, <3>2, <3>3, EndDataFacts DEF Has
  <2>2. download[u].seg.start .. download[u].seg.end - 1 \subseteq Had(download[u])
    <3>1. download[u].pos = download[u].seg.end - download[u].seg.start
      BY DEF EndData, Length
    <3> QED BY <2>1, <3>1 DEF Had, Proper
  <2> QED BY <1>0, <1>3, <2>1, <2>2, OnDiskAdds DEF EndData
<1> QED BY <1>1, <1>2, <1>3

(* What a download that failed is credited with was had, and nothing of it is  *)
(* wrong.                                                                    *)
LEMMA CreditIsHad ==
    ASSUME Honest, NEW d, Shape(d), d.type = "FILE", NEW credit \in Credits(d), credit > 0
    PROVE  /\ d.started /\ ~d.wrong
           /\ d.seg.start .. d.seg.start + credit - 1 \subseteq Had(d)
<1>1. credit \in Int /\ credit <= d.pos /\ d.pos \in Int /\ d.seg.start \in Int
  BY CreditFacts, DownloadFields DEF Shape
<1>2. d.pos > 0 /\ d.started
  BY <1>1 DEF Shape
<1>3. ~d.wrong
  <2> SUFFICES ASSUME d.wrong PROVE FALSE
    OBVIOUS
  <2>1. d.whole /\ "late" \notin Env
    BY DEF Shape, Honest
  <2>2. credit = Aligned(d) /\ Breaks(d)
    BY DEF Credits
  <2>3. d.pos # Length(d.seg)
    <3>1. d.pos < Length(d.seg)
      BY <1>2, <2>1, <2>2 DEF Breaks
    <3> QED BY <1>1, <3>1, DownloadFields DEF Length, Shape
  <2> QED BY <2>1, <2>2, <2>3 DEF Aligned
<1> QED BY <1>1, <1>2, <1>3 DEF Had

LEMMA OnDiskFail ==
    ASSUME Honest, OnDisk, Both, NEW u \in Users, Fail(u)
    PROVE  OnDisk'
<1>0. OnlyOf(u) /\ download'[u] = NoDownload /\ Shape(download[u])
  BY GivesUpEffect DEF Fail, Both, Base
<1>1. CASE ~present /\ UNCHANGED <<present, done>> /\ DeleteTemp
  BY <1>0, <1>1, OnDiskGone, OnDiskDelete
<1>2. CASE UNCHANGED <<present, done, temp, disk>>
  BY <1>0, <1>2, OnDiskGone, OnDiskStill
<1>3. ASSUME NEW credit \in Credits(download[u]), credit > 0, present,
             download[u].type = "FILE", UNCHANGED <<present, temp, disk>>,
             done' = AddSegment(done, Segment(download[u].seg.start,
                                              download[u].seg.start + credit))
      PROVE  OnDisk'
  <2>0. PICK s : s = Segment(download[u].seg.start, download[u].seg.start + credit)
    OBVIOUS
  <2>1. s.start = download[u].seg.start /\ s.end = download[u].seg.start + credit /\ Proper(s)
    BY <1>0, <1>3, <2>0, CreditFacts
  <2>2. download[u].seg.start .. download[u].seg.start + credit - 1 \subseteq Had(download[u])
    BY <1>0, <1>3, CreditIsHad
  <2>3. download[u].started /\ ~download[u].wrong
    BY <1>0, <1>3, CreditIsHad
  <2>4. s.start .. s.end - 1 \subseteq Had(download[u])
    <3>1. s.start \in Int /\ s.end \in Int /\ download[u].seg.start \in Int /\ credit \in Int
      BY <1>0, <1>3, <2>1, CreditFacts, DownloadFields DEF Shape, Proper
    <3>2. s.start .. s.end - 1 = download[u].seg.start .. download[u].seg.start + credit - 1
      BY <2>1, <3>1
    <3> QED BY <2>2, <3>2
  <2>5. Has(u)
    BY <1>3, <2>3 DEF Has
  <2> QED BY <1>0, <1>3, <2>0, <2>1, <2>3, <2>4, <2>5, OnDiskAdds
<1> QED BY <1>1, <1>2, <1>3 DEF Fail

(* A recheck adds what is on the disk to what has been finished since it began.   *)
LEMMA OnDiskFind ==
    ASSUME OnDisk, Rechecked, RecheckFind
    PROVE  OnDisk'
<1> DEFINE right == recheck.found
<1>s. NoneBegins
  BY DEF RecheckFind, Has, Had, NoneBegins
<1>1. CASE ItemLeaves /\ NoTempFile
  BY <1>1, OnDiskLeaves
<1>2. CASE UNCHANGED <<present, done, temp, disk>>
  BY <1>2, <1>s, OnDiskStill DEF RecheckFind
<1>3. CASE done' = AddBlocks(done, right) /\ present /\ UNCHANGED <<present, temp, disk>>
  <2>0. temp /\ right \subseteq disk
    BY <1>3 DEF RecheckFind, Rechecked
  <2>1. done \in SUBSET Segments
    BY DEF OnDisk
  <2>2. done' \subseteq Segments
    BY <1>3, <2>1, AddBlocksType
  <2>3. Covered(done') \cap Blocks \subseteq Covered(done) \cup right
    BY <1>3, <2>1, AddBlocksCovers
  <2>4. DoneIsGood'
    BY <1>3, <2>0, <2>3 DEF OnDisk, DoneIsGood
  <2>5. Written'
    BY <1>3, <1>s DEF OnDisk, Written, NoneBegins
  <2> QED BY <1>3, <2>2, <2>4, <2>5 DEF OnDisk
<1> QED BY <1>1, <1>2, <1>3 DEF RecheckFind, item

LEMMA OnDiskInit == Init => OnDisk
BY NothingCovered, NoDownloadShape DEF Init, OnDisk, DoneIsGood, Written, Has

LEMMA OnDiskNext == ASSUME Honest, HonestInv, [Next]_vars PROVE OnDisk'
<1>0. OnDisk /\ Both
  BY DEF HonestInv
<1>s. download' = download => NoneBegins
  BY DEF Has, Had, NoneBegins
<1>1. ASSUME NEW u \in Users, GetDownload(u) PROVE OnDisk'
  BY <1>0, <1>1, OnDiskGetDownload
<1>2. ASSUME NEW u \in Users, Start(u) PROVE OnDisk'
  BY <1>0, <1>2, OnDiskStart
<1>3. ASSUME NEW u \in Users, NEW quality \in {"good", "bad"}, Receive(u, quality),
             quality = "bad" => "corrupt" \in Env
      PROVE  OnDisk'
  BY <1>3, OnDiskReceive
<1>4. ASSUME NEW u \in Users, Complete(u) PROVE OnDisk'
  BY <1>0, <1>4, OnDiskComplete
<1>5. ASSUME NEW u \in Users, EndData(u) PROVE OnDisk'
  BY <1>0, <1>5, OnDiskEndData
<1>6. ASSUME NEW u \in Users, TreeDone(u) \/ BadTree(u) PROVE OnDisk'
  <2>1. OnlyOf(u) /\ download'[u] = NoDownload
    BY <1>0, <1>6, GoneEffect DEF TreeDone, BadTree, Both
  <2> QED BY <1>0, <1>6, <2>1, OnDiskGone, OnDiskStill DEF TreeDone, BadTree, item
<1>7. ASSUME NEW u \in Users, Fail(u) PROVE OnDisk'
  BY <1>0, <1>7, OnDiskFail
<1>8. ASSUME NEW u \in Users, FileNotAvailable(u) PROVE OnDisk'
  <2>1. OnlyOf(u) /\ download'[u] = NoDownload
    BY <1>0, <1>8, GivesUpEffect DEF FileNotAvailable, Both
  <2>2. CASE DeleteTemp /\ ~present
    BY <1>0, <1>8, <2>1, <2>2, OnDiskGone, OnDiskDelete DEF FileNotAvailable
  <2>3. CASE UNCHANGED <<temp, disk>>
    BY <1>0, <1>8, <2>1, <2>3, OnDiskGone, OnDiskStill DEF FileNotAvailable
  <2> QED BY <1>8, <2>2, <2>3 DEF FileNotAvailable
<1>9. ASSUME NEW u \in Users, AddSource(u) PROVE OnDisk'
  <2>1. CASE present
    <3>1. present' = present
      BY <1>9, <2>1 DEF AddSource
    <3> QED BY <1>0, <1>9, <1>s, <3>1, OnDiskStill DEF AddSource
  <2>2. CASE ~present
    <3>1. CASE "readd" \in Env
      BY <1>0, <1>9, <1>s, <2>2, <3>1, NothingCovered
         DEF AddSource, OnDisk, DoneIsGood, Written, NoneBegins
    <3>2. CASE "readd" \notin Env
      <4>1. \A v \in Users : ~Has(v)'
        BY <1>9, <2>2, <3>2 DEF AddSource, Idle, Has
      <4> QED BY <1>0, <1>9, <2>2, <4>1, NothingCovered DEF AddSource, OnDisk, DoneIsGood, Written
    <3> QED BY <3>1, <3>2
  <2> QED BY <2>1, <2>2
<1>10. ASSUME NEW u \in Users, RemoveSource(u) PROVE OnDisk'
  BY <1>0, <1>10, <1>s, OnDiskStill DEF RemoveSource
<1>11. CASE SetPriority
  BY <1>0, <1>11, <1>s, OnDiskStill DEF SetPriority
<1>12. CASE Remove
  BY <1>0, <1>12, <1>s, OnDiskLeaves DEF Remove, DeleteTemp
<1>13. CASE TempGone
  <2>1. \A v \in Users : ~Has(v)'
    BY <1>13 DEF TempGone, Has
  <2> QED BY <1>0, <1>13, <2>1 DEF TempGone, item, OnDisk, DoneIsGood, Written, NoTempFile
<1>14. CASE RecheckTest \/ RecheckTree \/ RecheckClear \/ RecheckRead \/ RecheckReadEnds
  BY <1>0, <1>14, <1>s, OnDiskStill
     DEF RecheckTest, RecheckTree, RecheckClear, RecheckRead, RecheckReadEnds, item
<1>15. CASE RecheckFind
  BY <1>0, <1>15, OnDiskFind DEF HonestInv
<1>c. CASE Crash
  BY <1>c DEF Crash, Honest
<1>16. CASE Save
  BY <1>16 DEF Save, Honest
<1>17. CASE UNCHANGED vars
  BY <1>0, <1>17, <1>s, OnDiskStill DEF vars
<1> QED BY <1>1, <1>2, <1>3, <1>4, <1>5, <1>6, <1>7, <1>8, <1>9, <1>10, <1>11, <1>12, <1>13,
           <1>14, <1>15, <1>16, <1>17, <1>c
        DEF Next, Transfer, Wrong

(* Nothing of the file is lost while its item is there and is rechecked.       *)
LEMMA RecheckedKeeps ==
    ASSUME Rechecked, recheck' = recheck,
           present' => present /\ (temp => temp') /\ disk \subseteq disk'
    PROVE  Rechecked'
BY DEF Rechecked

LEMMA RecheckedNext == ASSUME Honest, HonestInv, "recheck" \in Env, [Next]_vars PROVE Rechecked'
<1>0. Rechecked /\ recheck \in Recheck /\ "corrupt" \notin Env /\ "crash" \notin Env /\ "gone" \notin Env
      /\ "stale" \notin Env
  BY DEF HonestInv, Honest, Alone, TypeOK
<1>1. ASSUME NEW u \in Users,
             \/ GetDownload(u) \/ Start(u) \/ Receive(u, "good") \/ Complete(u) \/ EndData(u)
             \/ TreeDone(u) \/ BadTree(u) \/ Fail(u) \/ FileNotAvailable(u) \/ RemoveSource(u)
      PROVE  Rechecked'
  <2>1. recheck' = recheck
    BY <1>1 DEF GetDownload, Start, Receive, Complete, EndData, TreeDone, BadTree, Fail,
                FileNotAvailable, RemoveSource
  <2>2. CASE \/ GetDownload(u) \/ Start(u) \/ Receive(u, "good") \/ Complete(u)
             \/ TreeDone(u) \/ BadTree(u) \/ RemoveSource(u)
    <3>1. CASE Complete(u) \/ Receive(u, "good")
      BY <1>0, <2>1, <3>1, RecheckedKeeps DEF Complete, Receive, item
    <3>2. CASE Start(u)
      <4>1. present' = present /\ (UNCHANGED <<temp, disk>> \/ ~temp)
        BY <3>2 DEF Start, item
      <4>2. CASE present /\ recheck.at # "idle"
        BY <1>0, <2>1, <4>1, <4>2 DEF Rechecked
      <4>3. CASE ~(present /\ recheck.at # "idle")
        BY <1>0, <2>1, <4>1, <4>3 DEF Rechecked
      <4> QED BY <4>2, <4>3
    <3>3. CASE GetDownload(u) \/ TreeDone(u) \/ BadTree(u) \/ RemoveSource(u)
      BY <1>0, <2>1, <3>3, RecheckedKeeps DEF GetDownload, TreeDone, BadTree, RemoveSource, item
    <3> QED BY <2>2, <3>1, <3>2, <3>3
  <2>3. CASE EndData(u) \/ Fail(u) \/ FileNotAvailable(u)
    <3>1. present' => present /\ UNCHANGED <<temp, disk>>
      BY <2>3 DEF EndData, Fail, FileNotAvailable, ItemLeaves, item
    <3> QED BY <1>0, <2>1, <3>1, RecheckedKeeps
  <2> QED BY <1>1, <2>2, <2>3
<1>2. ASSUME NEW u \in Users, AddSource(u) PROVE Rechecked'
  <2>1. UNCHANGED <<recheck, temp, disk>> /\ (present \/ recheck.at = "idle")
    BY <1>0, <1>2 DEF AddSource
  <2> QED BY <1>0, <2>1 DEF Rechecked
<1>3. CASE SetPriority \/ Remove \/ UNCHANGED vars
  <2>1. recheck' = recheck /\ (present' => present /\ UNCHANGED <<temp, disk>>)
    BY <1>3 DEF SetPriority, Remove, ItemLeaves, vars
  <2> QED BY <1>0, <2>1, RecheckedKeeps
<1>4. CASE RecheckTest
  BY <1>0, <1>4 DEF RecheckTest, Rechecked, Recheck, item
<1>5. CASE RecheckTree
  BY <1>0, <1>5 DEF RecheckTree, Rechecked, Recheck, item
<1>6. CASE RecheckClear
  <2>1. CASE recheck.at = "tree" /\ present /\ recheck' = [recheck EXCEPT !.at = IF temp THEN "reading" ELSE "read"]
    BY <1>0, <1>6, <2>1 DEF RecheckClear, Rechecked, Recheck
  <2>2. CASE recheck' = NoRecheck
    BY <2>2 DEF Rechecked, NoRecheck
  <2> QED BY <1>6, <2>1, <2>2 DEF RecheckClear
<1>7. CASE RecheckRead
  <2>1. UNCHANGED <<present, temp, disk>> /\ recheck'.at = "reading" /\ recheck.at = "reading"
    BY <1>0, <1>7 DEF RecheckRead, Recheck, item
  <2>2. present => temp /\ recheck.found \subseteq disk
    BY <1>0, <2>1 DEF Rechecked
  <2>3. recheck'.found \subseteq recheck.found \cup disk
    BY <1>0, <1>7 DEF RecheckRead, Recheck
  <2> QED BY <2>1, <2>2, <2>3 DEF Rechecked
<1>8. CASE RecheckReadEnds
  BY <1>0, <1>8 DEF RecheckReadEnds, Rechecked, Recheck, item
<1>9. CASE RecheckFind
  BY <1>9 DEF RecheckFind, Rechecked, NoRecheck
<1> QED BY <1>0, <1>1, <1>2, <1>3, <1>4, <1>5, <1>6, <1>7, <1>8, <1>9
        DEF Next, Transfer, Wrong, TempGone, Save, Crash

LEMMA HonestInit == Init => HonestInv
<1>1. Init => Still /\ Rechecked
  BY DEF Init, Still, Rechecked, NoRecheck
<1> QED BY <1>1, BothInit, TypedInit, SoleInit, OnDiskInit DEF HonestInv, Typed

LEMMA HonestNext == ASSUME Honest PROVE HonestInv /\ [Next]_vars => HonestInv'
<1> SUFFICES ASSUME HonestInv, [Next]_vars PROVE HonestInv'
  OBVIOUS
<1>1. Both' /\ TypeOK' /\ OnDisk'
  BY BothNext, TypedNext, OnDiskNext DEF HonestInv, Typed
<1>2. "recheck" \notin Env => Still'
  BY StillNext DEF HonestInv
<1>3. "corrupt" \in Env => Sole'
  <2>1. "corrupt" \in Env => Alone /\ "recheck" \notin Env
    BY HonestAlone DEF Alone
  <2> QED BY <2>1, SoleNext DEF HonestInv
<1>4. Rechecked'
  <2>1. CASE "recheck" \in Env
    BY <2>1, RecheckedNext
  <2>2. CASE "recheck" \notin Env
    BY <1>2, <2>2 DEF Still, NoRecheck, Rechecked
  <2> QED BY <2>1, <2>2
<1> QED BY <1>1, <1>2, <1>3, <1>4 DEF HonestInv

(* Blocks of finished segments are right on the disk: what is written before it  *)
(* is checked, or after it failed, is never counted (MerkleCheckOutputStream,      *)
(* QueueManager::putDownload), nor is anything that a recheck reads, with nothing  *)
(* locked, while downloads start and write (Rechecker::run), if the item is not    *)
(* replaced under it.                                                         *)
THEOREM DoneIsAlwaysGood == ASSUME Honest PROVE Spec => []DoneIsGood
<1>1. HonestInv => DoneIsGood
  BY DEF HonestInv, OnDisk
<1> QED BY <1>1, HonestInit, HonestNext, PTL DEF Spec
================================================================================
