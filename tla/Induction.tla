------------------------------- MODULE Induction -------------------------------
(***************************************************************************)
(* Induction over numbers and sequences, stated with a set in the place of a    *)
(* predicate, and the existence of functions that are defined by recursion: what  *)
(* the proofs about recursively defined helpers rest on.                      *)
(***************************************************************************)
EXTENDS Integers, Sequences, FiniteSetTheorems, SequenceTheorems, WellFoundedInduction, TLAPS

(* A set of numbers that is not empty has a smallest one.                    *)
LEMMA NatMin ==
    ASSUME NEW T \in SUBSET Nat, T # {}
    PROVE  \E n \in T : \A m \in T : n <= m
<1> DEFINE below == {0 .. n : n \in T}
<1>1. below \subseteq FiniteSubsetsOf(Nat)
  <2> SUFFICES ASSUME NEW n \in T PROVE 0 .. n \in FiniteSubsetsOf(Nat)
    OBVIOUS
  <2>1. IsFiniteSet(0 .. n)
    BY FS_Interval
  <2>2. 0 .. n \in SUBSET Nat
    OBVIOUS
  <2> QED BY <2>1, <2>2 DEF FiniteSubsetsOf
<1>2. below # {}
  OBVIOUS
<1>3. IsWellFoundedOn(StrictSubsetOrdering(Nat), FiniteSubsetsOf(Nat))
  BY FS_StrictSubsetOrderingWellFounded
<1>4. \E b \in below : \A y \in below : ~ (<<y, b>> \in StrictSubsetOrdering(Nat))
  <2> HIDE DEF below
  <2> QED BY <1>1, <1>2, <1>3, WFMin
<1>5. PICK n \in T : \A m \in T : ~ (<<0 .. m, 0 .. n>> \in StrictSubsetOrdering(Nat))
  BY <1>4
<1>6. ASSUME NEW m \in T, m < n PROVE FALSE
  <2>1. 0 .. m \in SUBSET Nat /\ 0 .. n \in SUBSET Nat
    OBVIOUS
  <2>2. 0 .. m \subseteq 0 .. n
    BY <1>6
  <2>3. n \in 0 .. n /\ n \notin 0 .. m
    BY <1>6
  <2> QED BY <1>5, <2>1, <2>2, <2>3 DEF StrictSubsetOrdering
<1> QED BY <1>6

(* A set with 0 in it, and with each n also n + 1, holds all numbers.           *)
THEOREM SetInduction ==
    ASSUME NEW S, 0 \in S, \A n \in Nat : n \in S => n + 1 \in S
    PROVE  Nat \subseteq S
<1> SUFFICES ASSUME Nat \ S # {} PROVE FALSE
  OBVIOUS
<1>1. PICK n \in Nat \ S : \A m \in Nat \ S : n <= m
  BY NatMin
<1> QED BY <1>1

(* f is defined by recursion up to N: it begins with x, and step leads on.       *)
Recurs(f, N, x, step) ==
    /\ f[0] = x
    /\ \A n \in 0 .. N : n # 0 => f[n] = step[<<n - 1, f[n - 1]>>]

(* Such a function exists.                                                     *)
THEOREM RecursionExists ==
    ASSUME NEW X, NEW x \in X, NEW step \in [Nat \X X -> X], NEW N \in Nat
    PROVE  \E f \in [0 .. N -> X] : Recurs(f, N, x, step)
<1> DEFINE S == {k \in Nat : \E f \in [0 .. k -> X] : Recurs(f, k, x, step)}
<1>1. 0 \in S
  <2> DEFINE f == [n \in 0 .. 0 |-> x]
  <2>1. f \in [0 .. 0 -> X] /\ Recurs(f, 0, x, step)
    BY DEF Recurs
  <2> QED BY <2>1
<1>2. ASSUME NEW k \in Nat, k \in S PROVE k + 1 \in S
  <2>1. PICK f \in [0 .. k -> X] : Recurs(f, k, x, step)
    BY <1>2
  <2> DEFINE g == [n \in 0 .. k + 1 |-> IF n = k + 1 THEN step[<<k, f[k]>>] ELSE f[n]]
  <2>2. g \in [0 .. k + 1 -> X]
    OBVIOUS
  <2>3. g[0] = x
    BY <2>1 DEF Recurs
  <2>4. ASSUME NEW n \in 0 .. k + 1, n # 0 PROVE g[n] = step[<<n - 1, g[n - 1]>>]
    <3>1. CASE n = k + 1
      <4>1. g[n - 1] = f[k] /\ n - 1 = k
        BY <3>1
      <4> QED BY <3>1, <4>1
    <3>2. CASE n # k + 1
      <4>1. n \in 0 .. k /\ n - 1 \in 0 .. k
        BY <3>2, <2>4
      <4>2. g[n] = f[n] /\ g[n - 1] = f[n - 1]
        BY <3>2, <4>1
      <4> QED BY <2>1, <2>4, <4>1, <4>2 DEF Recurs
    <3> QED BY <3>1, <3>2
  <2>5. Recurs(g, k + 1, x, step)
    BY <2>3, <2>4 DEF Recurs
  <2> HIDE DEF g
  <2> QED BY <2>2, <2>5
<1>3. Nat \subseteq S
  <2> HIDE DEF S
  <2> QED BY <1>1, <1>2, SetInduction
<1> QED BY <1>3

(* A set with <<>> in it, and with each sequence also those one longer, holds all. *)
THEOREM SeqInduction ==
    ASSUME NEW A, NEW S, <<>> \in S,
           \A s \in Seq(A), a \in A : s \in S => Append(s, a) \in S
    PROVE  Seq(A) \subseteq S
<1> DEFINE N == {n \in Nat : \A s \in Seq(A) : Len(s) = n => s \in S}
<1>1. 0 \in N
  <2> SUFFICES ASSUME NEW s \in Seq(A), Len(s) = 0 PROVE s \in S
    OBVIOUS
  <2>1. s = <<>>
    BY EmptySeq
  <2> QED BY <2>1
<1>2. ASSUME NEW n \in Nat, n \in N PROVE n + 1 \in N
  <2> SUFFICES ASSUME NEW s \in Seq(A), Len(s) = n + 1 PROVE s \in S
    OBVIOUS
  <2>1. s # <<>> /\ Len(s) \in 1 .. Len(s)
    OBVIOUS
  <2> DEFINE front == SubSeq(s, 1, Len(s) - 1)
  <2>2. front \in Seq(A) /\ Len(front) = n /\ s[Len(s)] \in A
    BY <2>1, ElementOfSeq
  <2>3. s = Append(front, s[Len(s)])
    OBVIOUS
  <2>4. front \in S
    BY <1>2, <2>2
  <2> HIDE DEF front
  <2> QED BY <2>2, <2>3, <2>4
<1>3. Nat \subseteq N
  <2> HIDE DEF N
  <2> QED BY <1>1, <1>2, SetInduction
<1> QED BY <1>3
================================================================================
