---------------------------- MODULE FoldInduction ----------------------------
(***************************************************************************)
(* Induction along a sequence that is folded from the left: what holds of  *)
(* the base, and is kept by the folded operator at every element, holds of *)
(* the result.  The operator and what holds are CONSTANTS, so that a       *)
(* module that instantiates this one with its own gets a lemma without     *)
(* operator parameters.                                                    *)
(***************************************************************************)
EXTENDS SequencesExt, WellFoundedInduction, TLAPS

CONSTANTS
    op(_, _, _),    \* of what was folded so far, an element and a parameter
    Holds(_, _, _)  \* of what was folded so far, of how many elements, and a parameter

Folded(base, s, d) == FoldLeft(LAMBDA acc, x : op(acc, x, d), base, s)

-----------------------------------------------------------------------------
(* The least element of a set of numbers, and from it induction.           *)

LEMMA Smallest ==
    ASSUME NEW N, N \subseteq Nat, N # {}
    PROVE  \E x \in N : \A y \in N : x <= y
  <1> DEFINE R == OpToRel(<, Nat)
  <1>1. IsWellFoundedOn(R, Nat)
      BY NatLessThanWellFounded
  <1>2. R = {ss \in Nat \X Nat : ss[1] < ss[2]}
      BY DEF OpToRel
  <1> HIDE DEF R
  <1>3. PICK x \in N : \A y \in N : ~(<<y, x>> \in R)
      BY <1>1, WFMin
  <1>4. ASSUME NEW y \in N PROVE x <= y
    <2>1. x \in Nat /\ y \in Nat
        BY <1>4
    <2>2. y < x => <<y, x>> \in R
        BY <1>2, <2>1
    <2> QED BY <1>3, <2>1, <2>2
  <1> QED BY <1>4

LEMMA UpTo ==
    ASSUME NEW n \in Nat, NEW A, 0 \in A, \A k \in 0..(n - 1) : k \in A => k + 1 \in A
    PROVE  \A k \in 0..n : k \in A
  <1> DEFINE N == {k \in 0..n : k \notin A}
  <1> SUFFICES ASSUME N # {} PROVE FALSE
      OBVIOUS
  <1>0. N \subseteq Nat
      OBVIOUS
  <1>1. PICK x \in N : \A y \in N : x <= y
      BY <1>0, Smallest
  <1>2. x - 1 \in 0..(n - 1) /\ x - 1 + 1 = x
      BY <1>1
  <1>3. x - 1 \in A
      BY <1>1, <1>2
  <1> QED BY <1>1, <1>2, <1>3

-----------------------------------------------------------------------------
(* The recursive function behind a fold exists.                            *)

Folds(it, N, base, s, d) ==
    it = [t \in SUBSET N |->
            IF t = {} THEN base ELSE op(it[t \ {Max(t)}], s[Max(t)], d)]

LEMMA Greatest ==
    ASSUME NEW k \in Nat, NEW t, t \subseteq 1..k, k \in t
    PROVE  Max(t) = k
  <1>1. \A x \in t : k >= x /\ (x >= k => x = k)
      OBVIOUS
  <1>2. Max(t) \in t /\ \A y \in t : Max(t) >= y
      BY <1>1 DEF Max
  <1> QED BY <1>1, <1>2

LEMMA FoldExists ==
    ASSUME NEW n \in Nat, NEW base, NEW s, NEW d
    PROVE  \E it : Folds(it, 1..n, base, s, d)
  <1> DEFINE A == {k \in 0..n : \E it : Folds(it, 1..k, base, s, d)}
  <1>1. 0 \in A
    <2>1. SUBSET (1..0) = {{}}
        OBVIOUS
    <2>2. Folds([t \in {{}} |-> base], 1..0, base, s, d)
        BY <2>1 DEF Folds
    <2> QED BY <2>2
  <1>2. ASSUME NEW k \in 0..(n - 1), k \in A PROVE k + 1 \in A
    <2>1. PICK it : Folds(it, 1..k, base, s, d)
        BY <1>2
    <2> DEFINE more == [t \in SUBSET (1..(k + 1)) |->
                          IF k + 1 \notin t THEN it[t] ELSE op(it[t \ {k + 1}], s[k + 1], d)]
    <2>2. \A t \in SUBSET (1..k) : t \in SUBSET (1..(k + 1)) /\ k + 1 \notin t
        OBVIOUS
    <2>3. \A t \in SUBSET (1..(k + 1)) : t \ {k + 1} \in SUBSET (1..k)
        OBVIOUS
    <2>4. \A t \in SUBSET (1..k) : more[t] = it[t]
        BY <2>2
    <2>5. ASSUME NEW t \in SUBSET (1..(k + 1))
          PROVE  more[t] = IF t = {} THEN base ELSE op(more[t \ {Max(t)}], s[Max(t)], d)
      <3>1. CASE k + 1 \in t
        <4>1. Max(t) = k + 1
          <5>1. k + 1 \in Nat
              OBVIOUS
          <5> QED BY <3>1, <5>1, Greatest
        <4>2. more[t] = op(it[t \ {k + 1}], s[k + 1], d)
            BY <3>1
        <4>3. it[t \ {k + 1}] = more[t \ {k + 1}]
            BY <2>3, <2>4
        <4> HIDE DEF more
        <4> QED BY <3>1, <4>1, <4>2, <4>3
      <3>2. CASE k + 1 \notin t
        <4>1. t \in SUBSET (1..k)
            BY <2>3, <3>2
        <4>2. t \ {Max(t)} \in SUBSET (1..k)
            BY <4>1
        <4>3. it[t] = IF t = {} THEN base ELSE op(it[t \ {Max(t)}], s[Max(t)], d)
            BY <2>1, <4>1 DEF Folds
        <4>4. more[t] = it[t] /\ more[t \ {Max(t)}] = it[t \ {Max(t)}]
            BY <2>4, <4>1, <4>2
        <4> HIDE DEF more
        <4> QED BY <4>3, <4>4
      <3> QED BY <3>1, <3>2
    <2>6. more = [t \in SUBSET (1..(k + 1)) |->
                    IF t = {} THEN base ELSE op(more[t \ {Max(t)}], s[Max(t)], d)]
      <3>1. more = [t \in SUBSET (1..(k + 1)) |-> more[t]]
          OBVIOUS
      <3> HIDE DEF more
      <3> QED BY <2>5, <3>1
    <2>7. Folds(more, 1..(k + 1), base, s, d)
        BY <2>6 DEF Folds
    <2> QED BY <2>7
  <1> HIDE DEF A
  <1>3. n \in A
      BY <1>1, <1>2, UpTo
  <1> QED BY <1>3 DEF A

-----------------------------------------------------------------------------
(* What a fold keeps holds of its result.                                  *)
LEMMA FoldKeeps ==
    ASSUME NEW S, NEW s \in Seq(S), NEW base, NEW d, NEW c, Holds(base, 0, c),
           \A k \in 0..(Len(s) - 1) : \A acc :
               Holds(acc, k, c) => Holds(op(acc, s[k + 1], d), k + 1, c)
    PROVE  Holds(Folded(base, s, d), Len(s), c)
  <1> DEFINE n == Len(s)
             fold == CHOOSE it : Folds(it, 1..n, base, s, d)
  <1>1. n \in Nat /\ DOMAIN s = 1..n
      OBVIOUS
  <1>2. Folded(base, s, d) = fold[1..n]
      BY <1>1 DEF Folded, FoldLeft, MapThenFoldSet, Folds
  <1>3. Folds(fold, 1..n, base, s, d)
      BY <1>1, FoldExists
  <1> HIDE DEF fold
  <1>4. fold[{}] = base
      BY <1>3 DEF Folds
  <1>5. ASSUME NEW k \in 0..(n - 1) PROVE fold[1..(k + 1)] = op(fold[1..k], s[k + 1], d)
    <2>1. 1..(k + 1) \in SUBSET (1..n) /\ k + 1 \in 1..(k + 1) /\ k + 1 \in Nat
        BY <1>1
    <2>2. Max(1..(k + 1)) = k + 1
        BY <2>1, Greatest
    <2>3. (1..(k + 1)) \ {k + 1} = 1..k
        OBVIOUS
    <2>4. fold[1..(k + 1)] = op(fold[(1..(k + 1)) \ {Max(1..(k + 1))}], s[Max(1..(k + 1))], d)
        BY <1>3, <2>1 DEF Folds
    <2> QED BY <2>2, <2>3, <2>4
  <1> DEFINE A == {k \in 0..n : Holds(fold[1..k], k, c)}
  <1>6. 0 \in A
    <2>1. 1..0 = {}
        OBVIOUS
    <2> QED BY <1>4, <2>1
  <1>7. ASSUME NEW k \in 0..(n - 1), k \in A PROVE k + 1 \in A
    <2>1. k + 1 \in 1..Len(s) /\ k + 1 \in 0..n
        OBVIOUS
    <2> QED BY <1>5, <1>7, <2>1
  <1> HIDE DEF A
  <1>8. n \in A
    <2>1. \A k \in 0..n : k \in A
        BY <1>1, <1>6, <1>7, UpTo
    <2>2. n \in 0..n
        BY <1>1
    <2> QED BY <2>1, <2>2
  <1> QED BY <1>2, <1>8 DEF A
==============================================================================
