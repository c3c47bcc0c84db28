----------------------------- MODULE ParetoOrder -----------------------------
(***************************************************************************)
(* The comparison of property records that the Pareto-associative table    *)
(* (PAT) of Gamma/Data/ctree.c is built on.  A record has one number per   *)
(* property; a number can be missing (NaN).  Numbers are integers here:    *)
(* the table only compares them and shifts them by the declared margins.   *)
(***************************************************************************)
EXTENDS Integers

CONSTANTS
  Props,         \* the properties declared after the "|" of PAT((sizes|props))
  LessIsBetter,  \* the properties declared with a leading "-" (factor -1)
  Margin,        \* margin declared after the "?" of each property
  Values,        \* the numbers a property can take
  NaN            \* a missing number

ASSUME OrderAssumption ==
  /\ LessIsBetter \subseteq Props
  /\ Values \subseteq Int
  /\ \A v \in Values : -v \in Values
  /\ Margin \in [Props -> Int]
  /\ NaN \notin Int

Point == [Props -> Values \cup {NaN}]

(* "Negate all properties that are 'less is better'": multiplying by the     *)
(* factor leaves NaN a NaN.                                                  *)
Normalised(raw) ==
  [j \in Props |-> IF raw[j] # NaN /\ j \in LessIsBetter THEN -raw[j] ELSE raw[j]]

-----------------------------------------------------------------------------
(* The flags one pass of the comparison loop leaves behind.  A flag starts   *)
(* at 1 and is cleared by any property that contradicts it; a comparison     *)
(* with a NaN is false.                                                      *)

BothKnown(p, q, j) == p[j] # NaN /\ q[j] # NaN

Dominates(new, old) ==
  \A j \in Props :
    /\ ~(new[j] = NaN /\ old[j] # NaN)
    /\ ~(BothKnown(new, old, j) /\ new[j] < old[j])

\* Mutant: equal numbers clear the flag (>= where the code has >).
DominatedStrictly(new, old) ==
  \A j \in Props :
    /\ ~(new[j] # NaN /\ old[j] = NaN)
    /\ ~(BothKnown(new, old, j) /\ new[j] >= old[j])

Dominated(new, old) ==
  \A j \in Props :
    /\ ~(new[j] # NaN /\ old[j] = NaN)
    /\ ~(BothKnown(new, old, j) /\ new[j] > old[j])

SignificantlyBetter(new, old) ==
  \E j \in Props : BothKnown(new, old, j) /\ new[j] - Margin[j] > old[j]

-----------------------------------------------------------------------------
(* Reference definition: a missing number is worse than every number.  This  *)
(* is the order the properties of the table are stated in.                   *)
AtMost(p, q) ==
  \A j \in Props : p[j] = NaN \/ (q[j] # NaN /\ p[j] <= q[j])

Complete(p) == \A j \in Props : p[j] # NaN

(* The specifications a record satisfies.                                    *)
Below(p) == {q \in Point : AtMost(q, p)}
=============================================================================
