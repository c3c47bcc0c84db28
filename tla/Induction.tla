------------------------------- MODULE Induction -------------------------------
(***************************************************************************)
(* Induction over the natural numbers, stated about sets instead of        *)
(* predicates: the least element of a set, a set that is closed under      *)
(* successor, and the existence of a function defined by recursion.  The   *)
(* proofs about loops over a vector cite these.                            *)
(***************************************************************************)
EXTENDS Integers, FiniteSetTheorems, WellFoundedInduction, TLAPS

-----------------------------------------------------------------------------
(* A set of naturals that has an element has a least one.                    *)
LEMMA LeastNatural ==
  ASSUME NEW T \in SUBSET Nat, T # {}
  PROVE  \E x \in T : \A y \in T : x <= y
<1> DEFINE R == {p \in Nat \X Nat : p[1] < p[2]}
<1>1. OpToRel(<, Nat) = R
  BY DEF OpToRel
<1>2. IsWellFoundedOn(R, Nat)
  BY <1>1, NatLessThanWellFounded
<1>3. PICK x \in T : \A y \in T : ~(<<y, x>> \in R)
  BY <1>2, WFMin
<1>4. \A y \in T : ~(y < x)
  BY <1>3
<1> QED
  BY <1>4

(* A set of numbers between 0 and n that has an element has a greatest one.  *)
LEMMA GreatestUpTo ==
  ASSUME NEW n \in Nat, NEW T \in SUBSET (0 .. n), T # {}
  PROVE  \E x \in T : \A y \in T : y <= x
<1> DEFINE U == {u \in 0 .. n : n - u \in T}
<1>1. U \in SUBSET Nat /\ U # {}
  <2>1. PICK t \in T : TRUE
    OBVIOUS
  <2>2. n - t \in U
    BY <2>1
  <2> QED
    BY <2>2
<1>2. PICK u \in U : \A v \in U : u <= v
  BY <1>1, LeastNatural
<1>3. ASSUME NEW y \in T PROVE y <= n - u
  <2>1. n - y \in U
    OBVIOUS
  <2> QED
    BY <1>2, <2>1
<1> QED
  BY <1>2, <1>3

(* A set that has 0, and with each number below n the next one, has all the  *)
(* numbers up to n.                                                          *)
LEMMA UpTo ==
  ASSUME NEW n \in Nat, NEW S, 0 \in S,
         \A i \in 0 .. n - 1 : i \in S => i + 1 \in S
  PROVE  0 .. n \subseteq S
<1> DEFINE T == (0 .. n) \ S
<1> SUFFICES ASSUME T # {} PROVE FALSE
  OBVIOUS
<1>0. T \in SUBSET Nat
  OBVIOUS
<1>1. PICK x \in T : \A y \in T : x <= y
  <2> HIDE DEF T
  <2> QED
    BY <1>0, LeastNatural
<1>2. x # 0 /\ x - 1 \in 0 .. n - 1
  OBVIOUS
<1>3. x - 1 \in S
  BY <1>1, <1>2
<1>4. x \in S
  BY <1>2, <1>3
<1> QED
  BY <1>4

(* The same without a bound.                                                 *)
LEMMA Always ==
  ASSUME NEW S, 0 \in S, \A i \in Nat : i \in S => i + 1 \in S
  PROVE  Nat \subseteq S
<1> SUFFICES ASSUME NEW n \in Nat PROVE n \in S
  OBVIOUS
<1>1. 0 .. n \subseteq S
  BY UpTo
<1> QED
  BY <1>1

(* The runs of n steps over T that start at c: step i applies F[i].          *)
Steps(n, T) == [1 .. n -> [T -> T]]
Runs(n, T, c, F) ==
  {g \in [0 .. n -> T] : g[0] = c /\ \A i \in 1 .. n : g[i] = F[i][g[i - 1]]}

(* A function defined by recursion over 0 .. n exists.                       *)
LEMMA Recursion ==
  ASSUME NEW n \in Nat, NEW T, NEW c \in T, NEW F \in Steps(n, T)
  PROVE  Runs(n, T, c, F) # {}
<1> USE DEF Steps
<1> DEFINE Good(m) == \E g \in [0 .. m -> T] :
                        g[0] = c /\ \A i \in 1 .. m : g[i] = F[i][g[i - 1]]
           S == {m \in 0 .. n : Good(m)}
<1>1. 0 \in S
  <2> DEFINE g == [i \in 0 .. 0 |-> c]
  <2>1. g \in [0 .. 0 -> T] /\ g[0] = c /\ \A i \in 1 .. 0 : g[i] = F[i][g[i - 1]]
    OBVIOUS
  <2>2. Good(0)
    BY <2>1
  <2> HIDE DEF Good
  <2> QED
    BY <2>2
<1>2. ASSUME NEW m \in 0 .. n - 1, m \in S PROVE m + 1 \in S
  <2>1. PICK g \in [0 .. m -> T] : g[0] = c /\ \A i \in 1 .. m : g[i] = F[i][g[i - 1]]
    BY <1>2
  <2> DEFINE h == [i \in 0 .. m + 1 |-> IF i = m + 1 THEN F[m + 1][g[m]] ELSE g[i]]
  <2>2. F[m + 1] \in [T -> T] /\ g[m] \in T
    OBVIOUS
  <2>3. h \in [0 .. m + 1 -> T]
    BY <2>2
  <2>4. h[0] = c
    BY <2>1
  <2>5. ASSUME NEW i \in 1 .. m + 1 PROVE h[i] = F[i][h[i - 1]]
    <3>1. CASE i = m + 1
      BY <3>1
    <3>2. CASE i # m + 1
      BY <3>2, <2>1
    <3> QED
      BY <3>1, <3>2
  <2>6. Good(m + 1)
    BY <2>3, <2>4, <2>5
  <2> HIDE DEF Good
  <2> QED
    BY <2>6
<1> HIDE DEF Good
<1>3. 0 .. n \subseteq S
  BY <1>1, <1>2, UpTo
<1>4. Good(n)
  BY <1>3
<1> QED
  BY <1>4 DEF Good, Runs

(* A function that starts at c and goes on by F where F is defined is a run. *)
LEMMA Follows ==
  ASSUME NEW n \in Nat, NEW T, NEW c \in T, NEW F \in Steps(n, T), NEW a,
         a = [i \in 0 .. n |-> a[i]], a[0] = c,
         \A i \in 1 .. n : a[i - 1] \in T => a[i] = F[i][a[i - 1]]
  PROVE  a \in Runs(n, T, c, F)
<1> DEFINE S == {i \in 0 .. n : a[i] \in T}
<1>1. 0 \in S
  OBVIOUS
<1>2. ASSUME NEW i \in 0 .. n - 1, i \in S PROVE i + 1 \in S
  <2>1. i + 1 \in 1 .. n /\ (i + 1) - 1 = i
    OBVIOUS
  <2>2. F[i + 1] \in [T -> T] /\ a[i + 1] = F[i + 1][a[i]]
    BY <1>2, <2>1 DEF Steps
  <2> QED
    BY <1>2, <2>1, <2>2
<1>3. 0 .. n \subseteq S
  <2> HIDE DEF S
  <2> QED
    BY <1>1, <1>2, UpTo
<1>4. \A i \in 0 .. n : a[i] \in T
  BY <1>3
<1>5. a \in [0 .. n -> T]
  BY <1>4
<1>6. \A i \in 1 .. n : a[i] = F[i][a[i - 1]]
  BY <1>4
<1> QED
  BY <1>5, <1>6 DEF Runs

-----------------------------------------------------------------------------
(* Powers of two, counted as subsets.                                        *)

(* 2 to the 0 is 1.                                                          *)
LEMMA PowerOfZero == 2 ^ 0 = 1
<1>1. Cardinality(SUBSET {}) = 2 ^ Cardinality({}) /\ Cardinality({}) = 0
  BY FS_EmptySet, FS_SUBSET
<1>2. SUBSET {} = {{}}
  OBVIOUS
<1> QED
  BY <1>1, <1>2, FS_Singleton

(* One more doubles the power.                                               *)
LEMMA PowerDoubles ==
  ASSUME NEW n \in Nat
  PROVE  2 ^ n \in Nat /\ 2 ^ (n + 1) = 2 * 2 ^ n
<1> DEFINE S == 1 .. n
           T == 1 .. n + 1
           A == SUBSET S
           B == {t \in SUBSET T : n + 1 \in t}
           f == [s \in A |-> s \cup {n + 1}]
<1>1. IsFiniteSet(S) /\ Cardinality(S) = n /\ IsFiniteSet(T) /\ Cardinality(T) = n + 1
  BY FS_Interval
<1>2. /\ IsFiniteSet(A) /\ Cardinality(A) = 2 ^ n
      /\ Cardinality(SUBSET T) = 2 ^ (n + 1)
  BY <1>1, FS_SUBSET
<1>3. f \in Bijection(A, B)
  <2>1. ASSUME NEW s \in A PROVE f[s] \in B
    BY DEF A
  <2>2. \A s, t \in A : f[s] = f[t] => s = t
    BY n + 1 \notin S
  <2>3. ASSUME NEW t \in B PROVE \E s \in A : f[s] = t
    <3>1. t \ {n + 1} \in A /\ (t \ {n + 1}) \cup {n + 1} = t
      OBVIOUS
    <3> QED
      BY <3>1
  <2> QED
    BY <2>1, <2>2, <2>3 DEF Bijection, Injection, Surjection, IsInjective
<1>4. IsFiniteSet(B) /\ Cardinality(B) = Cardinality(A)
  <2> HIDE DEF f, A, B
  <2> QED
    BY <1>2, <1>3, FS_Bijection DEF ExistsBijection
<1>5. SUBSET T = A \cup B /\ A \cap B = {}
  OBVIOUS
<1>6. Cardinality(A) \in Nat
  BY <1>2, FS_CardinalityType
<1> HIDE DEF A, B
<1>7. Cardinality(A \cup B) = Cardinality(A) + Cardinality(B) - Cardinality({})
  <2>1. Cardinality(A \cup B)
          = Cardinality(A) + Cardinality(B) - Cardinality(A \cap B)
    BY <1>2, <1>4, FS_Union
  <2> QED
    BY <1>5, <2>1, Zenon
<1>8. Cardinality(SUBSET T) = 2 * Cardinality(A)
  <2> HIDE DEF T
  <2>1. Cardinality(SUBSET T) = Cardinality(A \cup B)
    BY <1>5, Zenon
  <2> QED
    BY <1>4, <1>6, <1>7, <2>1, FS_EmptySet
<1> HIDE DEF S, T
<1> QED
  BY <1>2, <1>6, <1>8, Zenon
=============================================================================
