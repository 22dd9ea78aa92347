------------------------- MODULE InductionTheorems -------------------------
(***************************************************************************)
(* Induction in a form the installed provers can use: over a set, not over *)
(* a predicate, so that no operator has to be instantiated.  A predicate P *)
(* is proved of all naturals by taking {n \in Nat : P(n)} for S.  And what *)
(* that gives for the doubling backoff: its recursive definition, and that *)
(* its closed form is what keeping and doubling the last one computes.     *)
(***************************************************************************)
EXTENDS Backoff, Integers, FiniteSetTheorems, WellFoundedInduction, TLAPS

-----------------------------------------------------------------------------
(* Induction. *)

\* A nonempty set of naturals has a least element.
THEOREM LeastElement ==
  ASSUME NEW T, T \subseteq Nat, T # {}
  PROVE  \E x \in T : \A y \in T : x <= y
<1>1. PICK x \in T : \A y \in T : ~(<<y, x>> \in OpToRel(<, Nat))
  BY NatLessThanWellFounded, WFMin
<1>2. ASSUME NEW y \in T PROVE x <= y
  <2>1. x \in Nat /\ y \in Nat
    OBVIOUS
  <2>2. ~(y < x)
    BY <1>1, <2>1 DEF OpToRel
  <2>3. QED
    BY <2>1, <2>2
<1>3. QED
  BY <1>2

\* A set that has 0 and with every natural its successor has all of them:
\* a least natural outside would have its predecessor inside.
THEOREM NatSetInduction ==
  ASSUME NEW S, 0 \in S, \A n \in Nat : n \in S => n + 1 \in S
  PROVE  Nat \subseteq S
<1> SUFFICES ASSUME Nat \ S # {} PROVE FALSE
  OBVIOUS
<1>1. PICK x \in Nat \ S : \A y \in Nat \ S : x <= y
  BY LeastElement
<1>2. x # 0 /\ x - 1 \in Nat /\ ~(x <= x - 1)
  OBVIOUS
<1>3. x - 1 \in S
  BY <1>1, <1>2
<1>4. QED
  BY <1>2, <1>3

-----------------------------------------------------------------------------
(***************************************************************************)
(* PowerOfTwo is the function its equation describes.  A recursive         *)
(* function stands for a CHOOSE, so that there is such a function has to   *)
(* be shown: it is put together from initial pieces, which exist and agree.*)
(***************************************************************************)
IsPiece(f, n) ==
  f \in [0 .. n -> Nat] /\ f[0] = 1 /\ \A i \in 1 .. n : f[i] = 2 * f[i - 1]

LEMMA PieceExists == \A n \in Nat : \E f : IsPiece(f, n)
<1> DEFINE S == {n \in Nat : \E f : IsPiece(f, n)}
<1>1. 0 \in S
  <2>1. IsPiece([i \in 0 .. 0 |-> 1], 0)
    BY DEF IsPiece
  <2>2. QED
    BY <2>1
<1>2. ASSUME NEW n \in Nat, n \in S PROVE n + 1 \in S
  <2>1. PICK f : IsPiece(f, n)
    BY <1>2
  <2>2. IsPiece([i \in 0 .. n + 1 |-> IF i = n + 1 THEN 2 * f[n] ELSE f[i]], n + 1)
    BY <2>1 DEF IsPiece
  <2>3. QED
    BY <2>2
<1> HIDE DEF S
<1>3. Nat \subseteq S
  BY <1>1, <1>2, NatSetInduction
<1>4. QED
  BY <1>3 DEF S

LEMMA PiecesAgree ==
  ASSUME NEW n \in Nat, NEW m \in Nat, NEW f, NEW g, IsPiece(f, n), IsPiece(g, m)
  PROVE  \A i \in Nat : i <= n /\ i <= m => f[i] = g[i]
<1> DEFINE S == {i \in Nat : i <= n /\ i <= m => f[i] = g[i]}
<1>1. 0 \in S
  BY DEF IsPiece
<1>2. ASSUME NEW i \in Nat, i \in S PROVE i + 1 \in S
  BY <1>2 DEF IsPiece
<1> HIDE DEF S
<1>3. Nat \subseteq S
  BY <1>1, <1>2, NatSetInduction
<1>4. QED
  BY <1>3 DEF S

\* PowerOfTwo meets its own equation.
THEOREM PowerOfTwoDef ==
  PowerOfTwo = [n \in Nat |-> IF n = 0 THEN 1 ELSE 2 * PowerOfTwo[n - 1]]
<1> DEFINE piece(n) == CHOOSE f : IsPiece(f, n)
           whole == [n \in Nat |-> piece(n)[n]]
<1>1. \A n \in Nat : IsPiece(piece(n), n)
  BY PieceExists
<1> HIDE DEF piece
<1>2. whole[0] = 1
  BY <1>1 DEF IsPiece
<1>3. ASSUME NEW n \in Nat, n # 0 PROVE whole[n] = 2 * whole[n - 1]
  <2>1. n - 1 \in Nat /\ n \in 1 .. n
    BY <1>3
  <2>2. IsPiece(piece(n), n) /\ IsPiece(piece(n - 1), n - 1)
    BY <1>1, <2>1
  <2>3. piece(n)[n] = 2 * piece(n)[n - 1]
    BY <2>1, <2>2 DEF IsPiece
  <2>4. piece(n)[n - 1] = piece(n - 1)[n - 1]
    BY <2>1, <2>2, PiecesAgree
  <2>5. QED
    BY <2>1, <2>3, <2>4
<1>4. whole = [n \in Nat |-> whole[n]]
  OBVIOUS
<1> HIDE DEF whole
<1>5. whole = [n \in Nat |-> IF n = 0 THEN 1 ELSE 2 * whole[n - 1]]
  BY <1>2, <1>3, <1>4
<1>6. QED
  BY <1>5 DEF PowerOfTwo

LEMMA PowerOfTwoType == \A n \in Nat : PowerOfTwo[n] \in Nat \ {0}
<1> DEFINE S == {n \in Nat : PowerOfTwo[n] \in Nat \ {0}}
<1>1. 0 \in S
  BY PowerOfTwoDef
<1>2. ASSUME NEW n \in Nat, n \in S PROVE n + 1 \in S
  <2>1. PowerOfTwo[n + 1] = 2 * PowerOfTwo[n]
    BY PowerOfTwoDef
  <2>2. QED
    BY <1>2, <2>1
<1> HIDE DEF S
<1>3. Nat \subseteq S
  BY <1>1, <1>2, NatSetInduction
<1>4. QED
  BY <1>3 DEF S

-----------------------------------------------------------------------------
\* The closed form of the backoff is what a client gets that starts from
\* nothing, keeps the last backoff, doubles it at each failure and caps it
\* (recordRefreshFailure, recordBootstrapFailure): once at the cap it stays
\* there, although the doubled value goes on growing.
THEOREM BackoffDoubles ==
  ASSUME NEW first \in Nat \ {0}, NEW cap \in Nat, first <= cap
  PROVE  /\ BackoffAfter(first, cap, 1) = first
         /\ \A k \in Nat \ {0} :
              LET last == BackoffAfter(first, cap, k)
              IN  /\ last \in first .. cap
                  /\ BackoffAfter(first, cap, k + 1) = IF 2 * last < cap THEN 2 * last ELSE cap
<1>1. PowerOfTwo[0] = 1
  BY PowerOfTwoDef
<1>2. BackoffAfter(first, cap, 1) = first
  BY <1>1 DEF BackoffAfter
<1>3. ASSUME NEW k \in Nat \ {0}
      PROVE  /\ BackoffAfter(first, cap, k) \in first .. cap
             /\ BackoffAfter(first, cap, k + 1) =
                  IF 2 * BackoffAfter(first, cap, k) < cap
                  THEN 2 * BackoffAfter(first, cap, k) ELSE cap
  <2> DEFINE doubled == first * PowerOfTwo[k - 1]
  <2>1. PICK p \in Nat \ {0} : p = PowerOfTwo[k - 1]
    BY PowerOfTwoType
  <2>2. PowerOfTwo[k] = 2 * p
    BY <2>1, PowerOfTwoDef
  <2>3. doubled \in Nat /\ doubled >= first
    BY <2>1
  <2>4. first * PowerOfTwo[k] = 2 * doubled
    BY <2>1, <2>2
  <2>5. /\ BackoffAfter(first, cap, k) = IF doubled < cap THEN doubled ELSE cap
        /\ BackoffAfter(first, cap, k + 1) = IF 2 * doubled < cap THEN 2 * doubled ELSE cap
    BY <2>4 DEF BackoffAfter
  <2> HIDE DEF doubled
  <2>6. QED
    BY <2>3, <2>5
<1>4. QED
  BY <1>2, <1>3
=============================================================================
