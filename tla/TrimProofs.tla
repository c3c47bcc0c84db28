------------------------------ MODULE TrimProofs ------------------------------
(***************************************************************************)
(* Machine-checked proofs about the commands that narrow a table: PAT      *)
(* unique, the loop that compares every pair of slots and deletes the      *)
(* later slot of a close pair, PAT stars, which keeps the best circuit of  *)
(* each property, and specific front queries: what a query shows, what     *)
(* undo shows again, and when the stack of bits in the flags overflows;    *)
(* for every factor, record, threshold, table, top limit and width of      *)
(* flags.                                                                  *)
(***************************************************************************)
EXTENDS ParetoProofs, Induction

-----------------------------------------------------------------------------
(* Closeness, as a function of the command record the loop carries.          *)

Near(o, p, q) ==
  \A j \in Props :
    ~(/\ p[j] # NaN /\ q[j] # NaN
      /\ o.known[j] # {}
      /\ \A v, w \in o.known[j] : Distance(p[j], q[j]) * o.f > Distance(v, w))

(* Both Same, which the loop tests, and Twins, which the properties speak    *)
(* of, are closeness for the command in progress.                            *)
LEMMA NearIsSame ==
  ASSUME NEW p, NEW q
  PROVE  (Same(p, q) <=> Near(op, p, q)) /\ (Twins(p, q) <=> Near(op, p, q))
BY DEF Same, Twins, Near, BothKnown, Apart

(* A circuit is close to itself: an interval is never negative.              *)
LEMMA NearItself ==
  ASSUME NEW o \in UniqueOp, NEW p \in Point
  PROVE  Near(o, p, p)
<1> SUFFICES ASSUME NEW j \in Props, p[j] # NaN, o.known[j] # {},
                    \A v, w \in o.known[j] : Distance(p[j], p[j]) * o.f > Distance(v, w)
             PROVE  FALSE
  BY DEF Near
<1>1. PICK v \in o.known[j] : TRUE
  OBVIOUS
<1>2. v \in Int /\ o.f \in Nat /\ p[j] \in Int
  BY NumberOrMissing, OrderAssumption, TableAssumption
  DEF UniqueOp, OrderAssumption, TableAssumption
<1>3. Distance(p[j], p[j]) = 0 /\ Distance(v, v) = 0
  BY <1>2 DEF Distance
<1>4. Distance(p[j], p[j]) * o.f > Distance(v, v)
  OBVIOUS
<1> QED
  BY <1>2, <1>3, <1>4

(* Closeness does not depend on which circuit comes first.                   *)
LEMMA NearBothWays ==
  ASSUME NEW o \in UniqueOp, NEW p \in Point, NEW q \in Point, Near(o, p, q)
  PROVE  Near(o, q, p)
<1>1. ASSUME NEW j \in Props, p[j] # NaN, q[j] # NaN
      PROVE  Distance(p[j], q[j]) = Distance(q[j], p[j])
  BY <1>1, NumberOrMissing DEF Distance
<1> QED
  BY <1>1 DEF Near

-----------------------------------------------------------------------------
(* What the two loops know.  The rows before op.i have no close circuit in   *)
(* any later slot, and row op.i none in the slots already compared; every    *)
(* circuit that was stored when the command began is still stored or has a   *)
(* close one in a slot up to op.i, which no deletion reaches any more.       *)
RowsDone ==
  \A k, m \in Used : k < m /\ (k < op.i \/ (k = op.i /\ m < op.j))
                       => ~Near(op, PointAt(k), PointAt(m))

TwinsStay ==
  \A d \in before.ids :
    d \in Stored \/ \E k \in Used : k <= op.i /\ Near(op, PointAt(k), entry[d].pt)

UniqueInv == op.cmd = "unique" => op.i < op.j /\ RowsDone /\ TwinsStay

(* Only the loop's own steps and the command that starts it matter: any      *)
(* other step ends in a state in which unique is not running.                *)
LEMMA UniqueSteps ==
  ASSUME TypeOK, [Next]_vars
  PROVE  \/ op'.cmd # "unique"
         \/ \E f \in UniqueFactors : BeginUnique(f)
         \/ DropTwin \/ KeepPair \/ NextRow
         \/ UNCHANGED vars
<1> USE OpIsTyped
<1>1. CASE \/ \E raw \in Offers, array \in BOOLEAN : BeginAdd(raw, array)
           \/ BeginStars
  BY <1>1 DEF BeginAdd, BeginStars
<1>2. CASE Reject \/ Store \/ EndTrim
  BY <1>2 DEF Reject, Store, EndTrim, Idle
<1>3. CASE Keep \/ KeepStar
  BY <1>3 DEF Keep, Comparing, KeepStar, AddOp, StarsOp
<1>4. CASE DropBeaten \/ DropOther
  BY <1>4 DEF DropBeaten, Comparing, DropOther
<1>7. CASE Misfits
  BY <1>7, MisfitsTouchNothing
<1>5. ASSUME NEW c, Issue(c), op' = op PROVE op'.cmd # "unique"
  BY <1>5 DEF Issue, Idle
<1>6. CASE \/ \E raw \in Offers : ForceArray(raw)
           \/ \E k \in -1 .. MaxIds : Delete(k)
           \/ \E spec \in QuerySpecs : Query(spec)
           \/ Undo \/ Reset
           \/ \E x, y \in Props : Graph(x, y)
  BY <1>5, <1>6 DEF ForceArray, Delete, Query, Undo, Reset, Graph
<1> QED
  BY <1>1, <1>2, <1>3, <1>4, <1>6, <1>7 DEF Next, Misfits

(* Every step preserves what the loops know.                                 *)
LEMMA UniqueStep ==
  ASSUME TypeOK, UniqueInv, [Next]_vars, TypeOK'
  PROVE  UniqueInv'
<1> SUFFICES ASSUME op'.cmd = "unique"
             PROVE  op'.i < op'.j /\ RowsDone' /\ TwinsStay'
  BY DEF UniqueInv
<1> USE OpIsTyped
<1>1. CASE \E f \in UniqueFactors : BeginUnique(f)
  <2>1. /\ op'.i = 0 /\ op'.j = 1 /\ before'.ids = Stored
        /\ UNCHANGED <<content, numOf, entry>>
    BY <1>1 DEF BeginUnique, patVars
  <2>2. \A k, m \in Used' : k < m => ~(k < op'.i \/ (k = op'.i /\ m < op'.j))
    BY <2>1 DEF Used, TypeOK
  <2>3. Stored' = Stored
    BY <2>1 DEF Stored, Used
  <2> QED
    BY <2>1, <2>2, <2>3 DEF RowsDone, TwinsStay
<1>2. CASE DropTwin
  <2>1. /\ op \in UniqueOp /\ op.cmd = "unique" /\ op' = op
        /\ op.i \in Nat /\ op.j \in Nat /\ op.i < numOf /\ op.j < numOf
        /\ DeleteSlot(op.j) /\ UNCHANGED <<entry, before>> /\ numOf \in Nat
        /\ Near(op, PointAt(op.i), PointAt(op.j))
    BY <1>2, NearIsSame DEF DropTwin, Pairing, UniqueOp, TypeOK, Historyless
  <2>2. op.i < op.j /\ RowsDone /\ TwinsStay /\ op.i \in Used /\ op.j \in Used
    BY <2>1 DEF UniqueInv, Used
  <2>3. /\ Used' \subseteq Used /\ numOf' = numOf - 1 /\ numOf - 1 \in Used
        /\ \A m \in Used' : /\ m # op.j => PointAt(m)' = PointAt(m)
                            /\ m = op.j => PointAt(m)' = PointAt(numOf - 1)
    BY <2>1, <2>2, DeleteSlotMoves DEF PointAt
  <2>4. op.i \in Used' /\ \A k \in Used : k <= op.i => k \in Used' /\ k # op.j
    BY <2>1, <2>2, <2>3 DEF Used
  <2>5. RowsDone'
    <3> SUFFICES ASSUME NEW k \in Used', NEW m \in Used', k < m,
                        k < op.i \/ (k = op.i /\ m < op.j)
                 PROVE  ~Near(op, PointAt(k)', PointAt(m)')
      BY <2>1 DEF RowsDone
    <3>1. k # op.j /\ k \in Used /\ m \in Used /\ PointAt(k)' = PointAt(k)
      BY <2>2, <2>3, <2>1 DEF Used
    <3>2. CASE m # op.j
      BY <3>1, <3>2, <2>2, <2>3 DEF RowsDone
    <3>3. CASE m = op.j
      <4>1. k < op.i /\ k < numOf - 1
        BY <3>3, <2>1, <2>2 DEF Used
      <4> QED
        BY <3>1, <3>3, <4>1, <2>2, <2>3 DEF RowsDone
    <3> QED
      BY <3>2, <3>3
  <2>6. TwinsStay'
    <3> SUFFICES ASSUME NEW d \in before.ids
                 PROVE  d \in Stored' \/ \E k \in Used' : k <= op.i /\ Near(op, PointAt(k)', entry[d].pt)
      BY <2>1 DEF TwinsStay
    <3>1. CASE \E k \in Used : k <= op.i /\ Near(op, PointAt(k), entry[d].pt)
      BY <3>1, <2>3, <2>4
    <3>2. CASE d \in Stored
      <4>1. PICK k \in Used : d = content[k]
        BY <3>2 DEF Stored
      <4>2. CASE k = op.j
        <5>1. Near(op, PointAt(op.i)', entry[d].pt)
          BY <4>1, <4>2, <2>1, <2>3, <2>4 DEF PointAt
        <5> QED
          BY <5>1, <2>1, <2>4
      <4>3. CASE k # op.j /\ k \in Used'
        BY <4>1, <4>3, <2>1, <2>2, DeleteSlotMoves DEF Stored
      <4>4. CASE k # op.j /\ k \notin Used'
        <5>1. k = numOf - 1 /\ op.j \in Used'
          BY <4>4, <2>1, <2>2, <2>3 DEF Used
        <5>2. content'[op.j] = content[numOf - 1]
          BY <5>1, <2>1, <2>2, DeleteSlotMoves
        <5> QED
          BY <4>1, <5>1, <5>2 DEF Stored
      <4> QED
        BY <4>2, <4>3, <4>4
    <3> QED
      BY <3>1, <3>2, <2>2 DEF TwinsStay
  <2> QED
    BY <2>1, <2>2, <2>5, <2>6
<1>3. CASE KeepPair
  <2>1. /\ op \in UniqueOp /\ op.cmd = "unique" /\ op'.i = op.i /\ op'.j = op.j + 1
        /\ op'.known = op.known /\ op'.f = op.f
        /\ op.i \in Nat /\ op.j \in Nat
        /\ UNCHANGED <<content, numOf, entry, before>> /\ numOf \in Nat
        /\ ~Near(op, PointAt(op.i), PointAt(op.j))
    BY <1>3, NearIsSame DEF KeepPair, Pairing, UniqueOp, TypeOK, Historyless, patVars
  <2>2. Used' = Used /\ Stored' = Stored /\ \A k : PointAt(k)' = PointAt(k)
    BY <2>1 DEF Used, Stored, PointAt
  <2>3. \A p, q : Near(op', p, q) <=> Near(op, p, q)
    BY <2>1 DEF Near
  <2>4. op.i < op.j /\ RowsDone /\ TwinsStay
    BY <2>1 DEF UniqueInv
  <2>5. RowsDone'
    <3> SUFFICES ASSUME NEW k \in Used, NEW m \in Used, k < m,
                        k < op.i \/ (k = op.i /\ m < op.j + 1)
                 PROVE  ~Near(op, PointAt(k), PointAt(m))
      BY <2>1, <2>2, <2>3 DEF RowsDone
    <3>1. CASE k = op.i /\ m = op.j
      BY <3>1, <2>1
    <3>2. CASE k < op.i \/ (k = op.i /\ m < op.j)
      BY <3>2, <2>4 DEF RowsDone
    <3> QED
      BY <3>1, <3>2, <2>1 DEF Used
  <2> QED
    BY <2>1, <2>2, <2>3, <2>4, <2>5 DEF TwinsStay
<1>4. CASE NextRow
  <2>1. /\ op \in UniqueOp /\ op.cmd = "unique" /\ op'.i = op.i + 1 /\ op'.j = op.i + 2
        /\ op'.known = op.known /\ op'.f = op.f
        /\ op.i \in Nat /\ op.j \in Nat /\ op.j >= numOf
        /\ UNCHANGED <<content, numOf, entry, before>> /\ numOf \in Nat
    BY <1>4 DEF NextRow, UniqueOp, TypeOK, Historyless, patVars
  <2>2. Used' = Used /\ Stored' = Stored /\ \A k : PointAt(k)' = PointAt(k)
    BY <2>1 DEF Used, Stored, PointAt
  <2>3. \A p, q : Near(op', p, q) <=> Near(op, p, q)
    BY <2>1 DEF Near
  <2>4. op.i < op.j /\ RowsDone /\ TwinsStay
    BY <2>1 DEF UniqueInv
  <2>5. RowsDone'
    <3> SUFFICES ASSUME NEW k \in Used, NEW m \in Used, k < m,
                        k < op.i + 1 \/ (k = op.i + 1 /\ m < op.i + 2)
                 PROVE  ~Near(op, PointAt(k), PointAt(m))
      BY <2>1, <2>2, <2>3 DEF RowsDone
    <3>1. k < op.i \/ (k = op.i /\ m < op.j)
      BY <2>1 DEF Used
    <3> QED
      BY <3>1, <2>4 DEF RowsDone
  <2>6. TwinsStay'
    <3> SUFFICES ASSUME NEW d \in before.ids, d \notin Stored
                 PROVE  \E k \in Used : k <= op.i + 1 /\ Near(op, PointAt(k), entry[d].pt)
      BY <2>1, <2>2, <2>3 DEF TwinsStay
    <3>1. PICK k \in Used : k <= op.i /\ Near(op, PointAt(k), entry[d].pt)
      BY <2>4 DEF TwinsStay
    <3> QED
      BY <3>1, <2>1 DEF Used
  <2> QED
    BY <2>1, <2>5, <2>6
<1>5. CASE UNCHANGED vars
  BY <1>5 DEF UniqueInv, vars, RowsDone, TwinsStay, Used, Stored, PointAt
<1> QED
  BY <1>1, <1>2, <1>3, <1>4, <1>5, UniqueSteps

(* The step that ends the loops: all rows are done.                          *)
LEMMA UniqueEnds ==
  ASSUME TypeOK, UniqueInv, [Next]_vars, op.cmd = "unique", op' = Idle
  PROVE  /\ \A k, m \in Used : k # m => ~Near(op, PointAt(k), PointAt(m))
         /\ \A d \in before.ids : \E k \in Used : Near(op, PointAt(k), entry[d].pt)
<1> USE OpIsTyped
<1>1. op \in UniqueOp /\ op.i \in Nat /\ op'.cmd # "unique" /\ op' # op
  BY DEF UniqueOp, Idle
<1>2. EndTrim
  <2>1. ASSUME NEW c PROVE ~Issue(c)
    BY DEF Issue, Idle
  <2>2. ~ \E raw \in Offers, array \in BOOLEAN : BeginAdd(raw, array)
    BY <2>1 DEF BeginAdd
  <2>3. ~ \/ \E raw \in Offers : ForceArray(raw)
          \/ \E k \in -1 .. MaxIds : Delete(k)
          \/ \E f \in UniqueFactors : BeginUnique(f)
          \/ BeginStars
    BY <2>1 DEF ForceArray, Delete, BeginUnique, BeginStars
  <2>4. ~ \/ \E spec \in QuerySpecs : Query(spec)
          \/ Undo \/ Reset
          \/ \E x, y \in Props : Graph(x, y)
    BY <2>1 DEF Query, Undo, Reset, Graph
  <2>5. ~(Reject \/ DropBeaten \/ Keep \/ Store \/ KeepStar \/ DropOther)
    BY DEF Reject, DropBeaten, Keep, Comparing, Store, KeepStar, DropOther
  <2>6. ~(DropTwin \/ KeepPair \/ NextRow \/ UNCHANGED vars)
    <3>1. ~(DropTwin \/ UNCHANGED vars)
      BY <1>1 DEF DropTwin, vars
    <3>2. ASSUME KeepPair \/ NextRow PROVE op'.cmd = "unique"
      BY <1>1, <3>2 DEF KeepPair, NextRow, UniqueOp
    <3> QED
      BY <1>1, <3>1, <3>2
  <2>7. ~Misfits
    BY MisfitsTouchNothing
  <2> QED
    BY <2>2, <2>3, <2>4, <2>5, <2>6, <2>7 DEF Next, Misfits
<1>3. op.i >= numOf /\ numOf \in Nat /\ RowsDone /\ TwinsStay
  BY <1>2 DEF EndTrim, UniqueInv, TypeOK
<1>4. \A k, m \in Used : k < m => ~Near(op, PointAt(k), PointAt(m))
  BY <1>1, <1>3 DEF RowsDone, Used
<1>5. ASSUME NEW k \in Used, NEW m \in Used, k # m PROVE ~Near(op, PointAt(k), PointAt(m))
  <2>1. k < m \/ m < k
    BY <1>5, <1>3 DEF Used
  <2>2. PointAt(k) \in Point /\ PointAt(m) \in Point
    BY UsedIsTyped
  <2> QED
    BY <1>1, <1>4, <2>1, <2>2, NearBothWays
<1>6. ASSUME NEW d \in before.ids PROVE \E k \in Used : Near(op, PointAt(k), entry[d].pt)
  <2>1. CASE d \in Stored
    <3>1. PICK k \in Used : d = content[k]
      BY <2>1 DEF Stored
    <3>2. Near(op, PointAt(k), PointAt(k))
      BY <1>1, UsedIsTyped, NearItself
    <3> QED
      BY <3>1, <3>2 DEF PointAt
  <2> QED
    BY <2>1, <1>3 DEF TwinsStay
<1> QED
  BY <1>5, <1>6

-----------------------------------------------------------------------------
(* The theorems.                                                             *)

(* What the two loops of unique know always holds.                           *)
THEOREM UniqueScans == Spec => []UniqueInv
<1>1. Init => UniqueInv
  BY DEF Init, Idle, UniqueInv
<1>2. TypeOK /\ TypeOK' /\ UniqueInv /\ [Next]_vars => UniqueInv'
  BY UniqueStep
<1> QED
  BY <1>1, <1>2, TypeCorrect, PTL DEF Spec

(* When PAT unique ends no two circuits left are close, although deletions   *)
(* moved circuits while the pairs were compared.                             *)
THEOREM UniqueSeparates == Spec => UniqueLeavesNoTwins
<1>1. TypeOK /\ UniqueInv /\ [Next]_vars =>
        (op.cmd = "unique" /\ op' = Idle =>
           \A k, m \in Used : k # m => ~Twins(PointAt(k), PointAt(m)))
  BY UniqueEnds, NearIsSame
<1>2. TypeOK /\ UniqueInv /\ [Next]_vars =>
        [op.cmd = "unique" /\ op' = Idle =>
           \A k, m \in Used : k # m => ~Twins(PointAt(k), PointAt(m))]_vars
  BY <1>1
<1> QED
  BY <1>2, TypeCorrect, UniqueScans, PTL DEF Spec, UniqueLeavesNoTwins

(* When PAT unique ends every circuit it deleted has a close one among the   *)
(* circuits left: closeness is not transitive, but the loop deletes a        *)
(* circuit only for the row it is at, and later deletions are in later slots.*)
THEOREM UniqueRepresents == Spec => UniqueKeepsTwin
<1>1. TypeOK /\ UniqueInv /\ [Next]_vars =>
        (op.cmd = "unique" /\ op' = Idle =>
           \A d \in before.ids : \E k \in Used : Twins(PointAt(k), entry[d].pt))
  BY UniqueEnds, NearIsSame
<1>2. TypeOK /\ UniqueInv /\ [Next]_vars =>
        [op.cmd = "unique" /\ op' = Idle =>
           \A d \in before.ids : \E k \in Used : Twins(PointAt(k), entry[d].pt)]_vars
  BY <1>1
<1> QED
  BY <1>2, TypeCorrect, UniqueScans, PTL DEF Spec, UniqueKeepsTwin

-----------------------------------------------------------------------------
(* PAT stars.                                                                *)

(* What the search for a maximum knows after m slots: the record names a     *)
(* stored circuit, with its number, and no slot so far has a greater one.    *)
Best(j, m, r) ==
  /\ r.id \in Stored /\ r.max = entry[r.id].pt[j]
  /\ \A k \in 0 .. m - 1 : PointAt(k)[j] <= r.max

(* One slot of the search.                                                   *)
Better(j, m, r) ==
  IF PointAt(m)[j] # NaN /\ r.max # NaN /\ PointAt(m)[j] <= r.max
  THEN r ELSE [max |-> PointAt(m)[j], id |-> content[m]]

(* On complete records each slot keeps that knowledge.                       *)
LEMMA BetterIsBest ==
  ASSUME TypeOK, NEW j \in Props, \A d \in Stored : Complete(entry[d].pt),
         NEW m \in Used, NEW r, Best(j, m, r)
  PROVE  Best(j, m + 1, Better(j, m, r))
<1>1. /\ m \in Nat /\ content[m] \in Stored /\ PointAt(m) = entry[content[m]].pt
      /\ \A k \in 0 .. m : k \in Used
  BY UsedIsTyped DEF Used, PointAt, TypeOK
<1>2. \A d \in Stored : entry[d].pt[j] \in Int /\ entry[d].pt[j] # NaN
  BY NumberOrMissing, UsedIsTyped DEF Stored, Complete, TypeOK, Entry
<1>3. \A k \in 0 .. m : PointAt(k)[j] \in Int
  BY <1>1, <1>2, UsedIsTyped DEF PointAt
<1>4. r.id \in Stored /\ r.max = entry[r.id].pt[j] /\ r.max \in Int /\ r.max # NaN
      /\ \A k \in 0 .. m - 1 : PointAt(k)[j] <= r.max
  BY <1>2 DEF Best
<1>5. CASE PointAt(m)[j] <= r.max
  <2>1. Better(j, m, r) = r
    BY <1>1, <1>2, <1>4, <1>5 DEF Better
  <2>2. \A k \in 0 .. m : k = m \/ k \in 0 .. m - 1
    BY <1>1
  <2>3. \A k \in 0 .. m : PointAt(k)[j] <= r.max
    BY <1>4, <1>5, <2>2
  <2> QED
    BY <1>1, <1>4, <2>1, <2>3 DEF Best
<1>6. CASE ~(PointAt(m)[j] <= r.max)
  <2>1. Better(j, m, r) = [max |-> PointAt(m)[j], id |-> content[m]]
    BY <1>6 DEF Better
  <2>2. ASSUME NEW k \in 0 .. m PROVE PointAt(k)[j] <= PointAt(m)[j]
    <3>1. k = m \/ k \in 0 .. m - 1
      BY <1>1
    <3>2. PointAt(k)[j] \in Int /\ PointAt(m)[j] \in Int
      BY <1>1, <1>3
    <3> QED
      BY <1>4, <1>6, <3>1, <3>2
  <2> QED
    BY <1>1, <2>1, <2>2 DEF Best
<1> QED
  BY <1>5, <1>6

(* The search names a best circuit, when slot 0 holds entry 0 and the        *)
(* records are complete.                                                     *)
LEMMA StarIsBest ==
  ASSUME TypeOK, NEW j \in Props, \A d \in Stored : Complete(entry[d].pt),
         Stored # {}, content[0] = 0
  PROVE  /\ StarOf(j) \in Stored
         /\ \A d \in Stored : entry[d].pt[j] <= entry[StarOf(j)].pt[j]
<1> DEFINE first == [max |-> PointAt(0)[j], id |-> 0]
           Body(h) == [m \in 0 .. numOf |->
                         IF m = 0 THEN first ELSE Better(j, m - 1, h[m - 1])]
           T == [max : Values \cup {NaN}, id : Ids]
           F == [m \in 1 .. numOf |-> [r \in T |-> Better(j, m - 1, r)]]
           a == CHOOSE h : h = Body(h)
<1>1. numOf \in Nat /\ Used = 0 .. numOf - 1 /\ 0 \in Used
  BY TableAssumption DEF TypeOK, TableAssumption, Used, Stored
<1>2. first \in T
  BY <1>1, UsedIsTyped DEF Point
<1>3. F \in Steps(numOf, T)
  <2>1. ASSUME NEW m \in 1 .. numOf, NEW r \in T PROVE Better(j, m - 1, r) \in T
    <3>1. m - 1 \in Used
      BY <1>1
    <3>2. PointAt(m - 1)[j] \in Values \cup {NaN} /\ content[m - 1] \in Ids
      BY <3>1, UsedIsTyped DEF Point
    <3> QED
      BY <3>2 DEF Better
  <2> HIDE DEF T
  <2> QED
    BY <2>1 DEF Steps
<1>4. PICK g : g \in Runs(numOf, T, first, F)
  <2> HIDE DEF F, T, first
  <2> QED
    BY <1>1, <1>2, <1>3, Recursion
<1>5. /\ g = [m \in 0 .. numOf |-> g[m]] /\ g[0] = first
      /\ \A m \in 1 .. numOf : g[m] = Better(j, m - 1, g[m - 1])
  <2>1. g \in [0 .. numOf -> T] /\ g[0] = first /\ \A m \in 1 .. numOf : g[m] = F[m][g[m - 1]]
    <3> HIDE DEF F, T, first
    <3> QED
      BY <1>4 DEF Runs
  <2>2. ASSUME NEW m \in 1 .. numOf PROVE g[m] = Better(j, m - 1, g[m - 1])
    <3>1. F[m] = [r \in T |-> Better(j, m - 1, r)]
      OBVIOUS
    <3>2. g[m - 1] \in T
      <4> HIDE DEF T
      <4> QED
        BY <1>1, <2>1
    <3> HIDE DEF F, T
    <3> QED
      BY <2>1, <3>1, <3>2
  <2> HIDE DEF T, first
  <2> QED
    BY <2>1, <2>2
<1>6. g = Body(g)
  <2> HIDE DEF first
  <2>1. ASSUME NEW m \in 0 .. numOf
        PROVE  g[m] = IF m = 0 THEN first ELSE Better(j, m - 1, g[m - 1])
    <3>1. m = 0 \/ m \in 1 .. numOf
      BY <1>1
    <3>2. m \in 1 .. numOf => m # 0
      OBVIOUS
    <3> QED
      BY <1>5, <3>1, <3>2, Zenon
  <2> QED
    BY <1>5, <2>1
<1>7. a = Body(a)
  <2> HIDE DEF Body
  <2> QED
    BY <1>6
<1>8. StarOf(j) = a[numOf].id
  BY DEF StarOf, Better
<1>9. a[0] = first /\ \A m \in 1 .. numOf : a[m] = Better(j, m - 1, a[m - 1])
  <2> HIDE DEF a, first
  <2> QED
    BY <1>1, <1>7
<1> HIDE DEF a, F, Body
<1> DEFINE S == {m \in 0 .. numOf : Best(j, m, a[m])}
<1>10. 0 \in S
  <2>1. first.id \in Stored /\ first.max = entry[first.id].pt[j]
    BY <1>1, UsedIsTyped DEF PointAt
  <2> HIDE DEF first
  <2> QED
    BY <1>1, <1>9, <2>1 DEF Best
<1>11. ASSUME NEW m \in 0 .. numOf - 1, m \in S PROVE m + 1 \in S
  <2>1. m + 1 \in 1 .. numOf /\ (m + 1) - 1 = m /\ m \in Used
    BY <1>1
  <2>2. a[m + 1] = Better(j, m, a[m]) /\ Best(j, m, a[m])
    BY <1>9, <1>11, <2>1
  <2>3. Best(j, m + 1, a[m + 1])
    BY <2>1, <2>2, BetterIsBest
  <2> QED
    BY <2>1, <2>3
<1>12. Best(j, numOf, a[numOf])
  <2>1. 0 .. numOf \subseteq S
    <3> HIDE DEF S
    <3> QED
      BY <1>1, <1>10, <1>11, UpTo
  <2> QED
    BY <1>1, <2>1
<1> QED
  BY <1>1, <1>8, <1>12 DEF Best, Stored, PointAt

(* What the loop of stars needs from its start: complete records, and entry  *)
(* 0 in slot 0.                                                              *)
Comparable ==
  /\ \A d \in before.ids : Complete(entry[d].pt)
  /\ before.first = 0 /\ before.ids # {}

(* While stars runs, a best circuit of each property is stored and kept.     *)
StarsInv ==
  op.cmd = "stars" /\ Comparable =>
    \A j \in Props : \E b \in Stored \cap op.keep :
      \A d \in before.ids : entry[d].pt[j] <= entry[b].pt[j]

(* Only the loop's own steps and the command that starts it matter.          *)
LEMMA StarSteps ==
  ASSUME TypeOK, [Next]_vars
  PROVE  \/ op'.cmd # "stars"
         \/ BeginStars \/ KeepStar \/ DropOther
         \/ UNCHANGED vars
<1> USE OpIsTyped
<1>1. CASE \/ \E raw \in Offers, array \in BOOLEAN : BeginAdd(raw, array)
           \/ \E f \in UniqueFactors : BeginUnique(f)
  BY <1>1 DEF BeginAdd, BeginUnique
<1>2. CASE Reject \/ Store \/ EndTrim
  BY <1>2 DEF Reject, Store, EndTrim, Idle
<1>3. CASE Keep \/ KeepPair \/ NextRow
  BY <1>3 DEF Keep, Comparing, KeepPair, NextRow, Pairing, AddOp, UniqueOp
<1>4. CASE DropBeaten \/ DropTwin
  BY <1>4 DEF DropBeaten, Comparing, DropTwin, Pairing
<1>7. CASE Misfits
  BY <1>7, MisfitsTouchNothing
<1>5. ASSUME NEW c, Issue(c), op' = op PROVE op'.cmd # "stars"
  BY <1>5 DEF Issue, Idle
<1>6. CASE \/ \E raw \in Offers : ForceArray(raw)
           \/ \E k \in -1 .. MaxIds : Delete(k)
           \/ \E spec \in QuerySpecs : Query(spec)
           \/ Undo \/ Reset
           \/ \E x, y \in Props : Graph(x, y)
  BY <1>5, <1>6 DEF ForceArray, Delete, Query, Undo, Reset, Graph
<1> QED
  BY <1>1, <1>2, <1>3, <1>4, <1>6, <1>7 DEF Next, Misfits

(* Every step keeps the best circuits.                                       *)
LEMMA StarStep ==
  ASSUME TypeOK, StarsInv, [Next]_vars
  PROVE  StarsInv'
<1> SUFFICES ASSUME op'.cmd = "stars", Comparable', NEW j \in Props
             PROVE  \E b \in Stored' \cap op'.keep :
                      \A d \in before'.ids : entry'[d].pt[j] <= entry'[b].pt[j]
  BY DEF StarsInv
<1> USE OpIsTyped
<1>1. CASE BeginStars
  <2>1. /\ op'.keep = {d \in Ids : \E k \in Props : d = StarOf(k)}
        /\ before'.ids = Stored /\ before'.first = content[0]
        /\ UNCHANGED <<content, numOf, entry>> /\ Stored' = Stored
    BY <1>1 DEF BeginStars, patVars, Stored, Used
  <2>2. \A d \in Stored : d \in Ids
    BY UsedIsTyped DEF Stored
  <2>3. /\ StarOf(j) \in Stored
        /\ \A d \in Stored : entry[d].pt[j] <= entry[StarOf(j)].pt[j]
    BY <2>1, StarIsBest DEF Comparable
  <2> QED
    BY <2>1, <2>2, <2>3
<1>2. CASE KeepStar
  <2>1. /\ op \in StarsOp /\ op.cmd = "stars" /\ op'.keep = op.keep
        /\ UNCHANGED <<content, numOf, entry, before>>
    BY <1>2 DEF KeepStar, StarsOp, Historyless, patVars
  <2> QED
    BY <2>1 DEF StarsInv, Comparable, Stored, Used
<1>3. CASE DropOther
  <2>1. /\ op \in StarsOp /\ op.cmd = "stars" /\ op' = op /\ op.i \in Used
        /\ content[op.i] \notin op.keep /\ DeleteSlot(op.i)
        /\ UNCHANGED <<entry, before>>
    BY <1>3 DEF DropOther, StarsOp, Historyless, Used, TypeOK
  <2>2. Stored \subseteq Stored' \cup {content[op.i]}
    BY <2>1, DeleteSlotKeeps
  <2> QED
    BY <2>1, <2>2 DEF StarsInv, Comparable
<1>4. CASE UNCHANGED vars
  BY <1>4 DEF StarsInv, Comparable, vars, Stored, Used
<1> QED
  BY <1>1, <1>2, <1>3, <1>4, StarSteps

(* What stars keeps always holds.                                            *)
THEOREM StarsScan == Spec => []StarsInv
<1>1. Init => StarsInv
  BY DEF Init, Idle, StarsInv
<1>2. TypeOK /\ StarsInv /\ [Next]_vars => StarsInv'
  BY StarStep
<1> QED
  BY <1>1, <1>2, TypeCorrect, PTL DEF Spec

(* When PAT stars ends the table holds a best circuit for every property,    *)
(* among those it held when the command began, if their records are complete *)
(* and slot 0 held entry 0.                                                  *)
THEOREM StarsSurvive == Spec => StarsKeepBest
<1> DEFINE Survive ==
      op.cmd = "stars" /\ op' = Idle
       /\ (\A d \in before.ids : Complete(entry[d].pt))
       /\ before.first = 0 /\ before.ids # {}
     => \A j \in Props : \E k \in Used : \A d \in before.ids :
          entry[d].pt[j] <= PointAt(k)[j]
<1>1. TypeOK /\ StarsInv => Survive
  BY DEF StarsInv, Comparable, Stored, PointAt
<1>2. TypeOK /\ StarsInv /\ [Next]_vars => [Survive]_vars
  BY <1>1
<1> QED
  BY <1>2, TypeCorrect, StarsScan, PTL DEF Spec, StarsKeepBest

-----------------------------------------------------------------------------
(* Nested queries.                                                           *)

(* Unless the top bit was set, shifting a bit in leaves a flag zero only     *)
(* where it was zero.                                                        *)
LEMMA ShiftKeepsHidden ==
  ASSUME NEW f \in Flags, NEW h, f < FlagTop, ShiftIn(f, h) = 0
  PROVE  f = 0
BY TableAssumption DEF TableAssumption, Flags, ShiftIn, Shl

(* Only a query extends the trail and leaves "query" as the last command.    *)
LEMMA OnlyQueries ==
  ASSUME [Next]_vars, last' = "query", trail' # trail
  PROVE  \E spec \in QuerySpecs : Query(spec)
<1>1. ~ \/ \E raw \in Offers, array \in BOOLEAN : BeginAdd(raw, array)
        \/ Reject \/ DropBeaten \/ Keep \/ Store
        \/ DropTwin \/ KeepPair \/ NextRow \/ EndTrim \/ KeepStar \/ DropOther
  BY DEF BeginAdd, Reject, DropBeaten, Keep, Store, DropTwin, KeepPair, NextRow, EndTrim,
     KeepStar, DropOther, Historyless
<1>2. ~ \/ \E raw \in Offers : ForceArray(raw)
        \/ \E k \in -1 .. MaxIds : Delete(k)
        \/ \E f \in UniqueFactors : BeginUnique(f)
        \/ BeginStars
        \/ \E x, y \in Props : Graph(x, y)
  BY DEF ForceArray, Delete, BeginUnique, BeginStars, Graph, Historyless
<1>3. ~(Undo \/ Reset \/ UNCHANGED vars)
  BY DEF Undo, Reset, Issue, vars
<1>4. ~Misfits
  BY MisfitsTouchNothing
<1> QED
  BY <1>1, <1>2, <1>3, <1>4 DEF Next, Misfits

(* A query that loses no bit shows no circuit that was hidden before it.     *)
LEMMA QueryStep ==
  ASSUME TypeOK, NEW spec \in QuerySpecs, Query(spec), ~lost'
  PROVE  Visible' \subseteq Visible
<1> SUFFICES ASSUME NEW k \in Used', FlagsAt(k)' = 0
             PROVE  content'[k] \in Visible
  BY DEF Visible
<1>1. /\ k \in Used /\ content' = content /\ content[k] \in Stored /\ content[k] \in Ids
      /\ entry[content[k]].flags \in Flags
  BY UsedIsTyped DEF Query, Used, TypeOK, Entry
<1>2. entry[content[k]].flags < FlagTop
  <2>1. lost' = (lost \/ \E d \in Stored : entry[d].flags >= FlagTop)
    BY DEF Query
  <2>2. ~(entry[content[k]].flags >= FlagTop)
    BY <1>1, <2>1
  <2> QED
    BY <1>1, <2>2, TableAssumption DEF Flags, TableAssumption
<1>3. \E h \in BOOLEAN : entry'[content[k]].flags = ShiftIn(entry[content[k]].flags, h)
  <2> DEFINE hide == NewlyHidden(NormalisedSpec(spec))
             F == [d \in Ids |-> ShiftIn(entry[d].flags, d \in hide)]
  <2>1. entry' = [d \in Ids |-> IF d \in Stored
                                THEN [entry[d] EXCEPT !.flags = F[d]] ELSE entry[d]]
    BY DEF Query
  <2>2. F[content[k]] = ShiftIn(entry[content[k]].flags, content[k] \in hide)
    BY <1>1
  <2> HIDE DEF F
  <2>3. entry'[content[k]].flags = F[content[k]]
    BY <1>1, <2>1 DEF TypeOK, Entry
  <2> HIDE DEF hide
  <2>4. (content[k] \in hide) \in BOOLEAN
    OBVIOUS
  <2> QED
    BY <2>2, <2>3, <2>4
<1> QED
  BY <1>1, <1>2, <1>3, ShiftKeepsHidden DEF FlagsAt, Visible

(* A nested query shows only circuits that were visible before it, until a   *)
(* bit is shifted out of the flags.                                          *)
THEOREM QueriesNest == Spec => QueryNarrows
<1>1. TypeOK /\ [Next]_vars =>
        [last' = "query" /\ trail' # trail /\ ~lost' => Visible' \subseteq Visible]_vars
  BY OnlyQueries, QueryStep
<1> QED
  BY <1>1, TypeCorrect, PTL DEF Spec, QueryNarrows

-----------------------------------------------------------------------------
(* The double loop of pat_front, one row at a time.                          *)

Row(th, i, hid) ==
  LET live == Used \ (hid \cup {i})
  IN  IF i \in hid THEN hid
      ELSE hid \cup {m \in live : HidesOther(th, i, m)}
               \cup {m \in {i} : \E o \in live : HidesItself(th, m, o)}

(* A row hides slots in use only.                                            *)
LEMMA RowIsTyped ==
  ASSUME NEW th, NEW i \in Used, NEW hid \in SUBSET Used
  PROVE  Row(th, i, hid) \in SUBSET Used
BY DEF Row

(* What the rows have hidden, from the first to the answer.                  *)
FrontRun(th, start) ==
  {g \in [0 .. numOf -> SUBSET Used] :
     /\ g[0] = start
     /\ \A i \in 1 .. numOf : g[i] = Row(th, i - 1, g[i - 1])
     /\ FrontOf(th, start) = g[numOf]}

(* The recursion of FrontOf is a run of rows.                                *)
LEMMA FrontRuns ==
  ASSUME TypeOK, NEW th, NEW start \in SUBSET Used
  PROVE  FrontRun(th, start) # {}
<1> DEFINE Body(h) == [i \in 0 .. numOf |->
                         IF i = 0 THEN start ELSE Row(th, i - 1, h[i - 1])]
           F == [i \in 1 .. numOf |-> [h \in SUBSET Used |-> Row(th, i - 1, h)]]
           a == CHOOSE h : h = Body(h)
<1>1. numOf \in Nat
  BY TableAssumption DEF TypeOK, TableAssumption
<1>2. F \in [1 .. numOf -> [SUBSET Used -> SUBSET Used]]
  <2>1. ASSUME NEW i \in 1 .. numOf, NEW h \in SUBSET Used
        PROVE  Row(th, i - 1, h) \in SUBSET Used
    BY <1>1, RowIsTyped DEF Used
  <2> QED
    BY <2>1
<1>3. PICK g \in [0 .. numOf -> SUBSET Used] :
        g[0] = start /\ \A i \in 1 .. numOf : g[i] = F[i][g[i - 1]]
  <2> DEFINE T == SUBSET Used
  <2>1. start \in T /\ F \in Steps(numOf, T)
    BY <1>2 DEF Steps
  <2> HIDE DEF F, T
  <2>2. Runs(numOf, T, start, F) # {}
    BY <1>1, <2>1, Recursion
  <2> QED
    BY <2>2 DEF T, Runs
<1>4. ASSUME NEW i \in 1 .. numOf PROVE g[i] = Row(th, i - 1, g[i - 1])
  <2>1. g[i - 1] \in SUBSET Used
    BY <1>1
  <2>2. F[i] = [h \in SUBSET Used |-> Row(th, i - 1, h)]
    OBVIOUS
  <2> HIDE DEF F
  <2> QED
    BY <1>3, <2>1, <2>2
<1>5. g = Body(g)
  BY <1>1, <1>3, <1>4
<1>6. a = Body(a)
  <2> HIDE DEF Body
  <2> QED
    BY <1>5
<1>7. FrontOf(th, start) = a[numOf]
  BY DEF FrontOf, Row
<1>8. a[0] = start /\ \A i \in 1 .. numOf : a[i] = Row(th, i - 1, a[i - 1])
  <2> HIDE DEF a
  <2> QED
    BY <1>1, <1>6
<1> HIDE DEF a, F, Body
<1> DEFINE S == {i \in 0 .. numOf : a[i] = g[i]}
<1>9. 0 \in S
  BY <1>1, <1>3, <1>8
<1>10. ASSUME NEW i \in 0 .. numOf - 1, i \in S PROVE i + 1 \in S
  <2>1. i + 1 \in 1 .. numOf /\ (i + 1) - 1 = i
    BY <1>1
  <2>2. a[i + 1] = Row(th, i, a[i]) /\ g[i + 1] = Row(th, i, g[i])
    BY <1>4, <1>8, <2>1
  <2> QED
    BY <1>10, <2>1, <2>2
<1>11. 0 .. numOf \subseteq S
  <2> HIDE DEF S
  <2> QED
    BY <1>1, <1>9, <1>10, UpTo
<1>12. a[numOf] = g[numOf]
  BY <1>1, <1>11
<1> QED
  BY <1>3, <1>4, <1>7, <1>12 DEF FrontRun

-----------------------------------------------------------------------------
(* What the double loop computes.                                            *)

Thresholds == [Props -> Int \cup {NaN, Inf}]

(* Negating a threshold gives a threshold.                                   *)
LEMMA NormalisedIsThresholds ==
  ASSUME NEW spec \in QuerySpecs
  PROVE  NormalisedSpec(spec) \in Thresholds
BY TableAssumption DEF TableAssumption, NormalisedSpec, Thresholds, Finite

(* A number the query cares about still is one when it is cut at the         *)
(* threshold.                                                                *)
LEMMA ClampIsNumber ==
  ASSUME TypeOK, NEW th \in Thresholds, NEW k \in Used, HasCared(th, k),
         NEW j \in Props, th[j] # NaN
  PROVE  PointAt(k)[j] # NaN /\ Clamp(th[j], PointAt(k)[j]) \in Int
<1>1. PointAt(k)[j] # NaN /\ PointAt(k)[j] \in Int
  BY UsedIsTyped, NumberOrMissing DEF HasCared
<1> QED
  BY <1>1 DEF Clamp, Thresholds

(* While slot i is at its row, it hides the slots worth at most as much, and *)
(* a slot worth at least as much hides it.                                   *)
LEMMA HidesIsWorth ==
  ASSUME TypeOK, NEW th \in Thresholds, NEW i \in Used, NEW m \in Used,
         HasCared(th, i), HasCared(th, m)
  PROVE  /\ HidesOther(th, i, m) <=> WorthAtMost(th, m, i)
         /\ HidesItself(th, i, m) <=> WorthAtMost(th, i, m)
<1>1. ASSUME NEW j \in Props, th[j] # NaN
      PROVE  /\ PointAt(i)[j] # NaN /\ PointAt(m)[j] # NaN
             /\ Clamp(th[j], PointAt(i)[j]) \in Int
             /\ Clamp(th[j], PointAt(m)[j]) \in Int
  BY <1>1, ClampIsNumber
<1>2. HidesOther(th, i, m) <=> WorthAtMost(th, m, i)
  BY <1>1 DEF HidesOther, WorthAtMost, BothKnown
<1>3. HidesItself(th, i, m) <=> WorthAtMost(th, i, m)
  BY <1>1 DEF HidesItself, WorthAtMost, BothKnown
<1> QED
  BY <1>2, <1>3

(* Worth is transitive.                                                      *)
LEMMA WorthTransitive ==
  ASSUME TypeOK, NEW th \in Thresholds,
         NEW k \in Used, NEW l \in Used, NEW m \in Used,
         HasCared(th, k), HasCared(th, l), HasCared(th, m),
         WorthAtMost(th, k, l), WorthAtMost(th, l, m)
  PROVE  WorthAtMost(th, k, m)
<1> SUFFICES ASSUME NEW j \in Props, th[j] # NaN
             PROVE  Clamp(th[j], PointAt(k)[j]) <= Clamp(th[j], PointAt(m)[j])
  BY DEF WorthAtMost
<1>1. /\ Clamp(th[j], PointAt(k)[j]) \in Int
      /\ Clamp(th[j], PointAt(l)[j]) \in Int
      /\ Clamp(th[j], PointAt(m)[j]) \in Int
  BY ClampIsNumber
<1>2. /\ Clamp(th[j], PointAt(k)[j]) <= Clamp(th[j], PointAt(l)[j])
      /\ Clamp(th[j], PointAt(l)[j]) <= Clamp(th[j], PointAt(m)[j])
  BY DEF WorthAtMost
<1> QED
  BY <1>1, <1>2

(* The slots of C that another slot of C matches.                            *)
Matched(th, C) == {c \in C : \E m \in C \ {c} : WorthAtMost(th, c, m)}

(* What the rows before i know when the slots of C were shown: a hidden one  *)
(* of them is matched by another, what a hidden one matches is hidden, and   *)
(* so is whatever is matched by, or matches, a slot whose row is done.       *)
RowsInv(th, C, i, hid) ==
  /\ hid \in SUBSET Used
  /\ Used \ C \subseteq hid
  /\ hid \cap C \subseteq Matched(th, C)
  /\ \A c \in C, m \in hid \cap C : c # m /\ WorthAtMost(th, c, m) => c \in hid
  /\ \A c, m \in C : /\ c # m /\ (c < i \/ m < i)
                     /\ WorthAtMost(th, c, m)
                     => c \in hid

(* A row keeps that knowledge.                                               *)
LEMMA RowKeeps ==
  ASSUME TypeOK, NEW th \in Thresholds, NEW C \in SUBSET Used,
         \A k \in C : HasCared(th, k),
         NEW i \in Used, NEW hid, RowsInv(th, C, i, hid)
  PROVE  RowsInv(th, C, i + 1, Row(th, i, hid))
<1> DEFINE new == Row(th, i, hid)
<1>0. /\ i \in Nat /\ \A c \in C : c \in Nat /\ c \in Used
      /\ hid \in SUBSET Used /\ Used \ C \subseteq hid
      /\ hid \cap C \subseteq Matched(th, C)
  BY DEF Used, RowsInv
<1>1. \A k, l, m \in C : WorthAtMost(th, k, l) /\ WorthAtMost(th, l, m) => WorthAtMost(th, k, m)
  BY WorthTransitive
<1>2. \A c, m \in C : /\ HidesOther(th, c, m) <=> WorthAtMost(th, m, c)
                      /\ HidesItself(th, c, m) <=> WorthAtMost(th, c, m)
  BY HidesIsWorth
<1>3. /\ \A c \in C, m \in hid \cap C : c # m /\ WorthAtMost(th, c, m) => c \in hid
      /\ \A c, m \in C : c # m /\ (c < i \/ m < i) /\ WorthAtMost(th, c, m) => c \in hid
  BY DEF RowsInv
<1>4. CASE i \in hid
  <2>1. new = hid
    BY <1>4 DEF Row
  <2>2. \A c, m \in C : c # m /\ (c < i + 1 \/ m < i + 1) /\ WorthAtMost(th, c, m) => c \in hid
    BY <1>0, <1>3, <1>4
  <2> QED
    BY <1>0, <1>3, <2>1, <2>2 DEF RowsInv
<1>5. CASE i \notin hid
  <2>1. i \in C
    BY <1>0, <1>5
  <2>2. new = hid \cup {m \in C \ (hid \cup {i}) : WorthAtMost(th, m, i)}
                 \cup {m \in {i} : \E o \in C \ (hid \cup {i}) : WorthAtMost(th, i, o)}
    <3> DEFINE live == C \ (hid \cup {i})
    <3>1. Used \ (hid \cup {i}) = live
      BY <1>0
    <3>2. \A m \in live : /\ HidesOther(th, i, m) <=> WorthAtMost(th, m, i)
                          /\ HidesItself(th, i, m) <=> WorthAtMost(th, i, m)
      BY <1>2, <2>1
    <3> HIDE DEF live
    <3>4. new = hid \cup {m \in live : HidesOther(th, i, m)}
                    \cup {m \in {i} : \E o \in live : HidesItself(th, m, o)}
      BY <1>5, <3>1 DEF Row
    <3> QED
      BY <3>2, <3>4 DEF live
  <2> HIDE DEF new
  <2>3. \A c \in C : c # i /\ WorthAtMost(th, c, i) => c \in new
    BY <2>2
  <2>4. \A m \in C : m # i /\ WorthAtMost(th, i, m) => i \in new
    BY <1>3, <1>5, <2>1, <2>2
  <2>5. new \in SUBSET Used /\ Used \ C \subseteq new /\ hid \subseteq new
    BY <1>0, <2>2
  <2>6. new \cap C \subseteq Matched(th, C)
    <3>1. \A m \in new \cap C : m \in hid \/ \E o \in C \ {m} : WorthAtMost(th, m, o)
      BY <2>1, <2>2
    <3> QED
      BY <1>0, <3>1 DEF Matched
  <2>7. ASSUME NEW c \in C, NEW m \in new \cap C, c # m, WorthAtMost(th, c, m) PROVE c \in new
    <3>1. CASE m \in hid
      BY <1>3, <2>5, <2>7, <3>1
    <3>2. CASE m # i /\ WorthAtMost(th, m, i)
      <4>1. c # i => WorthAtMost(th, c, i)
        BY <1>1, <2>1, <2>7, <3>2
      <4> QED
        BY <2>3, <2>4, <2>7, <3>2, <4>1
    <3>3. CASE m = i
      BY <2>3, <2>7, <3>3
    <3> QED
      BY <2>2, <3>1, <3>2, <3>3
  <2>8. ASSUME NEW c \in C, NEW m \in C, c # m, c < i + 1 \/ m < i + 1, WorthAtMost(th, c, m)
        PROVE  c \in new
    <3>1. c < i \/ m < i \/ c = i \/ m = i
      BY <1>0, <2>8
    <3> QED
      BY <1>3, <2>3, <2>4, <2>5, <2>8, <3>1
  <2> QED
    BY <2>5, <2>6, <2>7, <2>8 DEF RowsInv, new
<1> QED
  BY <1>4, <1>5

(* Whatever the order of the slots, the loop hides exactly the shown ones    *)
(* that another of them matches.                                             *)
LEMMA FrontIsUnmatched ==
  ASSUME TypeOK, NEW th \in Thresholds, NEW start \in SUBSET Used,
         \A k \in Used \ start : HasCared(th, k)
  PROVE  FrontOf(th, start) = start \cup Matched(th, Used \ start)
<1> DEFINE C == Used \ start
<1>0. numOf \in Nat /\ Used = 0 .. numOf - 1
  BY TableAssumption DEF TypeOK, TableAssumption, Used
<1>1. PICK g \in [0 .. numOf -> SUBSET Used] :
        /\ g[0] = start
        /\ \A i \in 1 .. numOf : g[i] = Row(th, i - 1, g[i - 1])
        /\ FrontOf(th, start) = g[numOf]
  <2>1. PICK g \in FrontRun(th, start) : TRUE
    BY FrontRuns
  <2> QED
    BY <2>1 DEF FrontRun
<1> DEFINE S == {i \in 0 .. numOf : start \subseteq g[i] /\ RowsInv(th, C, i, g[i])}
<1>2. 0 \in S
  <2>1. RowsInv(th, C, 0, start)
    BY <1>0 DEF RowsInv
  <2> QED
    BY <1>0, <1>1, <2>1
<1>3. ASSUME NEW i \in 0 .. numOf - 1, i \in S PROVE i + 1 \in S
  <2>1. i + 1 \in 1 .. numOf /\ (i + 1) - 1 = i /\ i \in Used
    BY <1>0
  <2>2. g[i + 1] = Row(th, i, g[i]) /\ start \subseteq g[i] /\ RowsInv(th, C, i, g[i])
    BY <1>1, <1>3, <2>1
  <2> HIDE DEF C
  <2>3. C \in SUBSET Used /\ \A k \in C : HasCared(th, k)
    BY DEF C
  <2>4. RowsInv(th, C, i + 1, g[i + 1])
    BY <2>1, <2>2, <2>3, RowKeeps
  <2>5. g[i] \subseteq g[i + 1]
    BY <2>2 DEF Row
  <2> QED
    BY <2>1, <2>2, <2>4, <2>5
<1>4. numOf \in S
  <2>1. 0 .. numOf \subseteq S
    <3> HIDE DEF S
    <3> QED
      BY <1>0, <1>2, <1>3, UpTo
  <2> HIDE DEF S
  <2> QED
    BY <1>0, <2>1
<1>5. g[numOf] = start \cup Matched(th, C)
  <2>1. g[numOf] \subseteq start \cup Matched(th, C)
    BY <1>0, <1>4 DEF RowsInv
  <2>2. Matched(th, C) \subseteq g[numOf]
    BY <1>0, <1>4 DEF RowsInv, Matched
  <2> QED
    BY <1>4, <2>1, <2>2
<1> QED
  BY <1>1, <1>5

-----------------------------------------------------------------------------
(* The shortlist.                                                            *)

Asked(th) == {j \in Props : Finite(th[j])}
Meeting(th, c) == {k \in Used : Met(th, k) >= c}

(* A circuit meets a number of thresholds, at most those asked for.          *)
LEMMA MetIsBounded ==
  ASSUME NEW th, NEW k \in Used
  PROVE  /\ Cardinality(Asked(th)) \in Nat
         /\ Met(th, k) \in 0 .. Cardinality(Asked(th))
<1> DEFINE met == {j \in Props : /\ Finite(th[j]) /\ PointAt(k)[j] # NaN
                                 /\ PointAt(k)[j] > th[j]}
<1>1. IsFiniteSet(Asked(th))
  BY TableAssumption, FS_Subset DEF TableAssumption, Asked
<1>2. met \subseteq Asked(th)
  BY DEF Asked
<1>3. /\ IsFiniteSet(met) /\ Cardinality(met) \in Nat
      /\ Cardinality(Asked(th)) \in Nat /\ Cardinality(met) <= Cardinality(Asked(th))
  BY <1>1, <1>2, FS_Subset, FS_CardinalityType
<1> QED
  BY <1>3 DEF Met

(* The circuits that meet c thresholds are counted by a number, and asking   *)
(* for more leaves no more of them.                                          *)
LEMMA MeetingIsCounted ==
  ASSUME TypeOK, NEW th, NEW c \in Nat, NEW S \in SUBSET Meeting(th, c)
  PROVE  /\ Cardinality(S) \in Nat /\ Cardinality(Meeting(th, c)) \in Nat
         /\ Cardinality(S) <= Cardinality(Meeting(th, c))
         /\ Cardinality(S) > 0 => S # {}
<1>1. numOf - 1 \in Int
  BY TableAssumption DEF TypeOK, TableAssumption
<1>2. IsFiniteSet(Used)
  BY <1>1, FS_Interval DEF Used
<1>3. IsFiniteSet(Meeting(th, c))
  BY <1>2, FS_Subset DEF Meeting
<1>4. IsFiniteSet(S)
  BY <1>3, FS_Subset
<1> QED
  BY <1>3, <1>4, FS_Subset, FS_CardinalityType, FS_EmptySet

(* A circuit meets fewer thresholds than the cutoff exactly when TopLimit    *)
(* circuits meet more than it does.                                          *)
LEMMA CutoffIsShortlist ==
  ASSUME TypeOK, NEW th, NEW k \in Used
  PROVE  Met(th, k) < Cutoff(th) <=> k \notin Shortlist(th)
<1> DEFINE n == Cardinality(Asked(th))
           enough == {c \in 0 .. n : Cardinality(Meeting(th, c)) >= TopLimit}
           MeetMore == {m \in Used : Met(th, m) > Met(th, k)}
<1>0. /\ n \in Nat /\ Met(th, k) \in Nat /\ TopLimit \in Nat /\ TopLimit > 0
      /\ \A m \in Used : Met(th, m) \in 0 .. n
  BY MetIsBounded, TableAssumption DEF TableAssumption
<1>1. Cutoff(th) = IF enough = {} THEN 0
                   ELSE CHOOSE c \in enough : \A d \in enough : d <= c
  BY DEF Cutoff, Asked, Meeting
<1>2. enough = {} => Cutoff(th) = 0
  BY <1>1
<1>3. enough # {} => Cutoff(th) \in enough /\ \A d \in enough : d <= Cutoff(th)
  <2>1. enough \in SUBSET (0 .. n)
    OBVIOUS
  <2> HIDE DEF enough, n
  <2>2. ASSUME enough # {} PROVE \E c \in enough : \A d \in enough : d <= c
    BY <1>0, <2>1, <2>2, GreatestUpTo
  <2> QED
    BY <1>1, <2>2
<1>4. k \in Shortlist(th) <=> Cardinality(MeetMore) < TopLimit
  BY DEF Shortlist
<1> HIDE DEF n
<1>5. ASSUME Met(th, k) < Cutoff(th) PROVE Cardinality(MeetMore) >= TopLimit
  <2>1. Cutoff(th) \in enough
    BY <1>0, <1>2, <1>3, <1>5
  <2>2. Cutoff(th) \in Nat /\ Cardinality(Meeting(th, Cutoff(th))) >= TopLimit
    BY <1>0, <2>1
  <2>3. Meeting(th, Cutoff(th)) \subseteq MeetMore /\ MeetMore = Meeting(th, Met(th, k) + 1)
    BY <1>0, <1>5, <2>2 DEF Meeting
  <2>4. /\ Cardinality(MeetMore) >= Cardinality(Meeting(th, Cutoff(th)))
        /\ Cardinality(MeetMore) \in Nat /\ Cardinality(Meeting(th, Cutoff(th))) \in Nat
    BY <1>0, <2>2, <2>3, MeetingIsCounted
  <2> QED
    BY <1>0, <2>2, <2>4
<1>6. ASSUME ~(Cardinality(MeetMore) < TopLimit) PROVE Met(th, k) < Cutoff(th)
  <2> DEFINE c == Met(th, k) + 1
  <2>1. c \in Nat /\ MeetMore = Meeting(th, c)
    BY <1>0 DEF Meeting
  <2>2. Cardinality(MeetMore) \in Nat
    BY <2>1, MeetingIsCounted
  <2>3. MeetMore # {}
    BY <1>0, <1>6, <2>1, <2>2, MeetingIsCounted
  <2>4. c \in 0 .. n
    BY <1>0, <2>1, <2>3
  <2>5. c \in enough
    BY <1>0, <1>6, <2>1, <2>2, <2>4
  <2>6. Cutoff(th) \in 0 .. n /\ c <= Cutoff(th)
    BY <1>3, <2>5
  <2> QED
    BY <1>0, <2>6
<1>7. Cardinality(MeetMore) >= TopLimit => ~(Cardinality(MeetMore) < TopLimit)
  <2>1. MeetMore = Meeting(th, Met(th, k) + 1)
    BY <1>0 DEF Meeting
  <2>2. Cardinality(MeetMore) \in Nat
    BY <1>0, <2>1, MeetingIsCounted
  <2> QED
    BY <1>0, <2>2
<1> QED
  BY <1>4, <1>5, <1>6, <1>7

-----------------------------------------------------------------------------
(* What a query shows.                                                       *)

(* A query that loses no bit leaves a circuit visible exactly when it was    *)
(* visible and the query does not hide it.                                   *)
LEMMA QueryShifts ==
  ASSUME TypeOK, NEW spec \in QuerySpecs, Query(spec), ~lost', NEW k \in Used
  PROVE  FlagsAt(k)' = 0 <=> FlagsAt(k) = 0 /\ content[k] \notin NewlyHidden(NormalisedSpec(spec))
<1> DEFINE hide == NewlyHidden(NormalisedSpec(spec))
           F == [d \in Ids |-> ShiftIn(entry[d].flags, d \in hide)]
           d == content[k]
<1>1. d \in Stored /\ d \in Ids /\ entry[d].flags \in Flags
  BY UsedIsTyped DEF TypeOK, Entry
<1>2. entry[d].flags < FlagTop
  <2>1. lost' = (lost \/ \E e \in Stored : entry[e].flags >= FlagTop)
    BY DEF Query
  <2>2. ~(entry[d].flags >= FlagTop)
    BY <1>1, <2>1
  <2> QED
    BY <1>1, <2>2, TableAssumption DEF Flags, TableAssumption
<1>3. entry' = [e \in Ids |-> IF e \in Stored
                              THEN [entry[e] EXCEPT !.flags = F[e]] ELSE entry[e]]
      /\ content' = content
  BY DEF Query
<1>4. F[d] = ShiftIn(entry[d].flags, d \in hide)
  BY <1>1
<1> HIDE DEF F
<1>5. FlagsAt(k)' = F[d]
  BY <1>1, <1>3 DEF TypeOK, Entry, FlagsAt
<1> HIDE DEF hide
<1>6. CASE d \in hide
  <2>1. F[d] = ShiftIn(entry[d].flags, TRUE)
    BY <1>4, <1>6
  <2>2. F[d] # 0
    BY <1>1, <1>2, <2>1 DEF ShiftIn, Shl, Flags
  <2> QED
    BY <1>5, <1>6, <2>2 DEF hide
<1>7. CASE d \notin hide
  <2>1. F[d] = ShiftIn(entry[d].flags, FALSE)
    <3>1. (d \in hide) = FALSE
      BY <1>7
    <3> QED
      BY <1>4, <3>1, Zenon
  <2>2. F[d] = 0 <=> entry[d].flags = 0
    BY <1>1, <1>2, <2>1 DEF ShiftIn, Shl, Flags
  <2> QED
    BY <1>5, <1>7, <2>2 DEF hide, FlagsAt
<1> QED
  BY <1>6, <1>7

(* The visible circuits after a query are the contenders no other contender  *)
(* matches.                                                                  *)
LEMMA QueryAnswers ==
  ASSUME TypeOK, SlotsDistinct, NEW spec \in QuerySpecs, Query(spec), ~lost',
         \A k \in Contenders(NormalisedSpec(spec)) : HasCared(NormalisedSpec(spec), k)
  PROVE  Visible' = {content[k] : k \in
           {c \in Contenders(NormalisedSpec(spec)) :
              \A m \in Contenders(NormalisedSpec(spec)) \ {c} :
                ~WorthAtMost(NormalisedSpec(spec), c, m)}}
<1> DEFINE th == NormalisedSpec(spec)
           failing == {k \in Used : Met(th, k) < Cutoff(th)}
           skipped == {k \in Used : Shl(FlagsAt(k)) # 0}
           front == FrontOf(th, failing \cup skipped)
<1>1. th \in Thresholds
  BY NormalisedIsThresholds
<1>2. \A k \in Used : content[k] \in NewlyHidden(th)
                        <=> k \in failing \/ (k \in front /\ k \notin skipped)
  <2>1. NewlyHidden(th) = {d \in Ids : \E k \in Used :
          d = content[k] /\ (k \in failing \/ (k \in front /\ k \notin skipped))}
    BY DEF NewlyHidden
  <2> HIDE DEF failing, skipped, front
  <2> QED
    BY <2>1, UsedIsTyped DEF SlotsDistinct
<1>3. \A k \in Used : k \in failing <=> k \notin Shortlist(th)
  BY CutoffIsShortlist
<1>4. \A k \in Used : k \in skipped <=> FlagsAt(k) # 0
  <2>1. lost' = (lost \/ \E e \in Stored : entry[e].flags >= FlagTop)
    BY DEF Query
  <2> SUFFICES ASSUME NEW k \in Used PROVE Shl(FlagsAt(k)) # 0 <=> FlagsAt(k) # 0
    OBVIOUS
  <2>2. FlagsAt(k) \in Flags /\ ~(FlagsAt(k) >= FlagTop)
    BY <2>1, UsedIsTyped DEF TypeOK, Entry, FlagsAt
  <2> QED
    BY <2>2, TableAssumption DEF TableAssumption, Flags, Shl
<1>5. Used \ (failing \cup skipped) = Contenders(th)
  BY <1>3, <1>4 DEF Contenders, Shortlist
<1>6. front = (failing \cup skipped) \cup Matched(th, Contenders(th))
  <2> DEFINE start == failing \cup skipped
  <2>1. start \in SUBSET Used /\ \A k \in Used \ start : HasCared(th, k)
    BY <1>5
  <2>2. FrontOf(th, start) = start \cup Matched(th, Used \ start)
    <3> HIDE DEF th, start
    <3> QED
      BY <1>1, <2>1, FrontIsUnmatched
  <2> QED
    BY <1>5, <2>2
<1> HIDE DEF failing, skipped, front
<1>7. \A k \in Used : FlagsAt(k)' = 0 <=> k \in Contenders(th) \ Matched(th, Contenders(th))
  <2>1. \A k \in Used : FlagsAt(k)' = 0 <=> FlagsAt(k) = 0 /\ content[k] \notin NewlyHidden(th)
    BY QueryShifts
  <2>2. \A k \in Used : k \in Contenders(th) <=> k \notin failing /\ k \notin skipped
    BY <1>5
  <2> HIDE DEF th
  <2> QED
    BY <1>2, <1>4, <1>6, <2>1, <2>2
<1>8. Used' = Used /\ content' = content
  BY DEF Query, Used
<1>9. Visible' = {content[k] : k \in {m \in Used : FlagsAt(m)' = 0}}
  BY <1>8 DEF Visible
<1>10. {m \in Used : FlagsAt(m)' = 0} = Contenders(th) \ Matched(th, Contenders(th))
  <2>1. Contenders(th) \subseteq Used
    BY DEF Contenders, Shortlist
  <2> HIDE DEF th
  <2> QED
    BY <1>7, <2>1
<1>11. Contenders(th) \ Matched(th, Contenders(th))
         = {c \in Contenders(th) : \A m \in Contenders(th) \ {c} : ~WorthAtMost(th, c, m)}
  BY DEF Matched
<1> QED
  BY <1>9, <1>10, <1>11

(* A query shows exactly the contenders that no other contender matches,     *)
(* whatever the order in which the loop meets them, when they have all the   *)
(* numbers it cares about and no bit has been lost.                          *)
THEOREM ShowsUnmatched == Spec => QueryShowsUnmatched
<1> DEFINE Shows ==
      last' = "query" => \A spec \in QuerySpecs :
        LET th == NormalisedSpec(spec) IN
        (/\ Query(spec) /\ ~lost'
         /\ \A k \in Contenders(th) : HasCared(th, k))
        => Visible' = {content[k] : k \in {c \in Contenders(th) :
                         \A m \in Contenders(th) \ {c} : ~WorthAtMost(th, c, m)}}
<1>1. IInv => Shows
  BY QueryAnswers DEF IInv
<1>2. IInv /\ [Next]_vars => [Shows]_vars
  BY <1>1
<1> QED
  BY <1>2, Inductive, PTL DEF Spec, QueryShowsUnmatched

-----------------------------------------------------------------------------
(* The stack of bits.                                                        *)

FlagsOf(d) == entry[d].flags

(* A query that loses no bit doubles the flags of the stored circuits and    *)
(* sets or clears their lowest bit.                                          *)
LEMMA QueryFlags ==
  ASSUME TypeOK, NEW spec \in QuerySpecs, Query(spec), NEW d \in Stored,
         FlagsOf(d) < FlagTop
  PROVE  FlagsOf(d)' \in {2 * FlagsOf(d), 2 * FlagsOf(d) + 1}
<1> DEFINE hide == NewlyHidden(NormalisedSpec(spec))
           F == [e \in Ids |-> ShiftIn(entry[e].flags, e \in hide)]
<1>1. d \in Ids /\ FlagsOf(d) \in Flags
  BY UsedIsTyped DEF Stored, TypeOK, Entry, FlagsOf
<1>2. entry' = [e \in Ids |-> IF e \in Stored
                              THEN [entry[e] EXCEPT !.flags = F[e]] ELSE entry[e]]
  BY DEF Query
<1>3. F[d] = ShiftIn(FlagsOf(d), d \in hide)
  BY <1>1 DEF FlagsOf
<1> HIDE DEF F
<1>4. FlagsOf(d)' = F[d]
  BY <1>1, <1>2 DEF TypeOK, Entry, FlagsOf
<1> HIDE DEF hide
<1>5. \E b \in BOOLEAN : F[d] = ShiftIn(FlagsOf(d), b)
  <2>1. (d \in hide) \in BOOLEAN
    OBVIOUS
  <2> QED
    BY <1>3, <2>1
<1> QED
  BY <1>1, <1>4, <1>5, TableAssumption DEF ShiftIn, Shl, Flags, TableAssumption

(* Undo halves the flags of the stored circuits.                             *)
LEMMA UndoFlags ==
  ASSUME TypeOK, Undo, NEW d \in Stored, FlagsOf(d) < FlagTop
  PROVE  FlagsOf(d)' = FlagsOf(d) \div 2
<1> DEFINE F == [e \in Ids |-> Sar(entry[e].flags)]
<1>1. d \in Ids /\ FlagsOf(d) \in Flags
  BY UsedIsTyped DEF Stored, TypeOK, Entry, FlagsOf
<1>2. entry' = [e \in Ids |-> IF e \in Stored
                              THEN [entry[e] EXCEPT !.flags = F[e]] ELSE entry[e]]
  BY DEF Undo
<1>3. F[d] = Sar(FlagsOf(d))
  BY <1>1 DEF FlagsOf
<1> HIDE DEF F
<1>4. FlagsOf(d)' = F[d]
  BY <1>1, <1>2 DEF TypeOK, Entry, FlagsOf
<1> QED
  BY <1>3, <1>4 DEF Sar

(* A graph leaves the flags as it found them.                                *)
LEMMA GraphFlags ==
  ASSUME TypeOK, NEW x \in Props, NEW y \in Props, Graph(x, y), NEW d \in Stored,
         2 * FlagsOf(d) < FlagTop
  PROVE  FlagsOf(d)' = FlagsOf(d)
<1> DEFINE hide == NewlyHidden([j \in Props |-> IF j \in {x, y} THEN Inf ELSE NaN])
           F == [e \in Ids |-> Sar(ShiftIn(entry[e].flags, e \in hide))]
<1>1. d \in Ids /\ FlagsOf(d) \in Flags
  BY UsedIsTyped DEF Stored, TypeOK, Entry, FlagsOf
<1>2. entry' = [e \in Ids |-> IF e \in Stored
                              THEN [entry[e] EXCEPT !.flags = F[e]] ELSE entry[e]]
  BY DEF Graph
<1>3. F[d] = Sar(ShiftIn(FlagsOf(d), d \in hide))
  BY <1>1 DEF FlagsOf
<1> HIDE DEF F
<1>4. FlagsOf(d)' = F[d]
  BY <1>1, <1>2 DEF TypeOK, Entry, FlagsOf
<1> HIDE DEF hide
<1>5. \E b \in BOOLEAN : F[d] = Sar(ShiftIn(FlagsOf(d), b))
  <2>1. (d \in hide) \in BOOLEAN
    OBVIOUS
  <2> QED
    BY <1>3, <2>1
<1>6. FlagTop \in Nat /\ FlagsOf(d) \in Nat /\ 2 * FlagsOf(d) + 1 < FlagTop
  BY <1>1, TableAssumption DEF TableAssumption, Flags
<1>7. \A b \in BOOLEAN : Sar(ShiftIn(FlagsOf(d), b)) = FlagsOf(d)
  <2>1. \A b \in BOOLEAN : ShiftIn(FlagsOf(d), b) \in {2 * FlagsOf(d), 2 * FlagsOf(d) + 1}
    BY <1>6 DEF ShiftIn, Shl
  <2>2. \A f \in {2 * FlagsOf(d), 2 * FlagsOf(d) + 1} : Sar(f) = FlagsOf(d)
    BY <1>6 DEF Sar
  <2> QED
    BY <2>1, <2>2
<1> QED
  BY <1>4, <1>5, <1>7

(* The steps, as the stack of bits sees them.                                *)
Quiet ==
  /\ UNCHANGED <<trail, lost, entry, idCounter>>
  /\ Stored' \subseteq Stored
Enters ==
  /\ UNCHANGED <<trail, lost>>
  /\ idCounter \in Ids /\ idCounter' = idCounter + 1
  /\ Stored' = Stored \cup {idCounter}
  /\ entry'[idCounter].flags = 0
  /\ \A d \in Ids : d # idCounter => entry'[d] = entry[d]
Nests == \E spec \in QuerySpecs : Query(spec)
Draws == \E x, y \in Props : Graph(x, y)

(* Every step is of one of these kinds.                                      *)
LEMMA TrailKinds ==
  ASSUME TypeOK, ScanInv, [Next]_vars
  PROVE  Quiet \/ Enters \/ Nests \/ Undo \/ Reset \/ Draws
<1>1. ASSUME ~(Nests \/ Undo \/ Reset \/ Draws) PROVE UNCHANGED <<trail, lost>>
  <2>1. CASE \/ \E raw \in Offers, array \in BOOLEAN : BeginAdd(raw, array)
             \/ Reject \/ DropBeaten \/ Keep \/ Store
             \/ DropTwin \/ KeepPair \/ NextRow \/ EndTrim \/ KeepStar \/ DropOther
    BY <2>1 DEF BeginAdd, Reject, DropBeaten, Keep, Store, DropTwin, KeepPair, NextRow,
       EndTrim, KeepStar, DropOther, Historyless
  <2>2. CASE \/ \E raw \in Offers : ForceArray(raw)
             \/ \E k \in -1 .. MaxIds : Delete(k)
             \/ \E f \in UniqueFactors : BeginUnique(f)
             \/ BeginStars
             \/ UNCHANGED vars
    BY <2>2 DEF ForceArray, Delete, BeginUnique, BeginStars, Historyless, vars
  <2> QED
    BY <1>1, <2>1, <2>2, MisfitsTouchNothing DEF Next, Misfits, Nests, Draws
<1>2. ASSUME ~(Nests \/ Undo \/ Reset \/ Draws)
      PROVE  entry' = entry \/ \E p : AppendEntry(p)
  <2>1. CASE \/ \E raw \in Offers, array \in BOOLEAN : BeginAdd(raw, array)
             \/ Reject \/ DropBeaten \/ Keep \/ Store
             \/ DropTwin \/ KeepPair \/ NextRow \/ EndTrim \/ KeepStar \/ DropOther
    BY <2>1 DEF BeginAdd, Reject, DropBeaten, Keep, Store, DropTwin, KeepPair, NextRow,
       EndTrim, KeepStar, DropOther, patVars
  <2>2. CASE \/ \E raw \in Offers : ForceArray(raw)
             \/ \E k \in -1 .. MaxIds : Delete(k)
             \/ \E f \in UniqueFactors : BeginUnique(f)
             \/ BeginStars
             \/ UNCHANGED vars
    BY <2>2 DEF ForceArray, Delete, BeginUnique, BeginStars, patVars, vars
  <2>3. CASE Misfits
    BY <2>3, MisfitsTouchNothing DEF patVars
  <2> QED
    BY <1>2, <2>1, <2>2, <2>3 DEF Next, Misfits, Nests, Draws
<1>3. ASSUME Trims PROVE entry' = entry /\ idCounter' = idCounter /\ Stored' \subseteq Stored
  BY <1>3, DeleteSlotMoves DEF Trims
<1>4. ASSUME NEW p \in Point, Adds(p), UNCHANGED <<trail, lost>> PROVE Enters
  <2>1. entry' = [entry EXCEPT ![idCounter] = [flags |-> 0, pt |-> p]] /\ idCounter \in Ids
    BY <1>4, AppendAdds DEF Adds, AppendEntry
  <2>2. entry'[idCounter].flags = 0
    BY <2>1 DEF TypeOK
  <2> QED
    BY <1>4, <2>1, <2>2, AppendAdds DEF Adds, Enters
<1>5. ASSUME Hides, entry' = entry PROVE idCounter' = idCounter /\ Stored' = Stored
  BY <1>5 DEF Hides, Stored, Used
<1>6. ASSUME Hides PROVE \A p : ~AppendEntry(p)
  BY <1>6 DEF Hides, AppendEntry, TypeOK
<1> QED
  BY <1>1, <1>2, <1>3, <1>4, <1>5, <1>6, StepKinds, NormalisedIsPoint DEF Quiet

-----------------------------------------------------------------------------
(* When a bit is lost.                                                       *)

(* As long as no bit is lost, the flags of a stored circuit have no more     *)
(* bits than queries are in force.                                           *)
Shallow == ~lost => \A d \in Stored : FlagsOf(d) < 2 ^ Len(trail)

(* A sequence without its last element.                                      *)
LEMMA Shortened ==
  ASSUME NEW S, NEW s \in Seq(S), s # <<>>
  PROVE  /\ Len(s) \in Nat \ {0}
         /\ Len(SubSeq(s, 1, Len(s) - 1)) = Len(s) - 1
         /\ \A i \in 1 .. Len(s) - 1 : SubSeq(s, 1, Len(s) - 1)[i] = s[i]
<1> DEFINE n == Len(s) - 1
<1>1. Len(s) \in Nat \ {0} /\ n \in Int
  BY EmptySeq
<1>2. \A i \in 1 .. n : s[i] \in S
  BY <1>1
<1> HIDE DEF n
<1>3. /\ Len(SubSeq(s, 1, n)) = IF 1 <= n THEN n - 1 + 1 ELSE 0
      /\ \A i \in 1 .. n - 1 + 1 : SubSeq(s, 1, n)[i] = s[1 + i - 1]
  BY <1>1, <1>2, SubSeqProperties
<1>4. n \in Nat
  BY <1>1 DEF n
<1>5. Len(SubSeq(s, 1, n)) = n
  BY <1>3, <1>4
<1>6. \A i \in 1 .. n : SubSeq(s, 1, n)[i] = s[i]
  <2>1. n - 1 + 1 = n /\ \A i \in 1 .. n : 1 + i - 1 = i
    BY <1>4
  <2> QED
    BY <1>3, <2>1
<1> QED
  BY <1>1, <1>5, <1>6, Zenon DEF n

(* The depth of the trail after each kind of step.                           *)
LEMMA TrailDepth ==
  ASSUME TypeOK
  PROVE  /\ Len(trail) \in Nat
         /\ Nests => Len(trail') = Len(trail) + 1
         /\ Undo /\ trail # <<>> => Len(trail') = Len(trail) - 1 /\ Len(trail) > 0
         /\ Undo /\ trail = <<>> => Len(trail') = 0 /\ Len(trail) = 0
         /\ Reset => Len(trail') = 0
<1> DEFINE R == [seen : SUBSET Ids, upTo : 0 .. MaxIds]
<1>1. trail \in Seq(R)
  BY DEF TypeOK
<1> HIDE DEF R
<1>2. Len(trail) \in Nat /\ (trail # <<>> => Len(trail) > 0)
  BY <1>1, EmptySeq
<1>3. ASSUME Nests PROVE Len(trail') = Len(trail) + 1
  BY <1>1, <1>3 DEF Nests, Query
<1>4. ASSUME Undo, trail # <<>> PROVE Len(trail') = Len(trail) - 1
  <2>1. trail' = SubSeq(trail, 1, Len(trail) - 1)
    BY <1>4 DEF Undo
  <2> QED
    BY <1>1, <1>4, <2>1, Shortened
<1>5. ASSUME Undo, trail = <<>> PROVE Len(trail') = 0 /\ Len(trail) = 0
  BY <1>5 DEF Undo
<1>6. ASSUME Reset PROVE Len(trail') = 0
  BY <1>6 DEF Reset
<1> QED
  BY <1>2, <1>3, <1>4, <1>5, <1>6

(* Unless a bit is lost the flags stay below the top bit, and doubling them  *)
(* does where the graph doubles them.                                        *)
LEMMA NothingLost ==
  ASSUME TypeOK, ~lost', NEW d \in Stored
  PROVE  /\ FlagsOf(d) \in Nat
         /\ Nests \/ Undo => ~lost /\ FlagsOf(d) < FlagTop
         /\ Draws => ~lost /\ 2 * FlagsOf(d) < FlagTop
<1>1. FlagsOf(d) \in Nat /\ FlagTop \in Nat
  BY UsedIsTyped, TableAssumption
  DEF Stored, TypeOK, Entry, FlagsOf, Flags, TableAssumption
<1>2. ASSUME Nests \/ Undo PROVE ~lost /\ ~(FlagsOf(d) >= FlagTop)
  <2>1. lost' = (lost \/ \E e \in Stored : entry[e].flags >= FlagTop)
    BY <1>2 DEF Nests, Query, Undo
  <2> QED
    BY <2>1 DEF FlagsOf
<1>3. ASSUME Draws PROVE ~lost /\ ~(2 * FlagsOf(d) >= FlagTop)
  <2>1. lost' = (lost \/ \E e \in Stored : 2 * entry[e].flags >= FlagTop)
    BY <1>3 DEF Draws, Graph
  <2> QED
    BY <2>1 DEF FlagsOf
<1> QED
  BY <1>1, <1>2, <1>3

(* Every step keeps the flags shallow.                                       *)
LEMMA ShallowStep ==
  ASSUME TypeOK, ScanInv, Shallow, [Next]_vars
  PROVE  Shallow'
<1> SUFFICES ASSUME ~lost', NEW d \in Stored' PROVE FlagsOf(d)' < 2 ^ Len(trail')
  BY DEF Shallow
<1>0. Len(trail) \in Nat /\ 2 ^ 0 = 1 /\ \A n \in Nat : 2 ^ n \in Nat /\ 2 ^ (n + 1) = 2 * 2 ^ n
  BY TrailDepth, PowerOfZero, PowerDoubles
<1> DEFINE Two(n) == 2 ^ n
<1>a. /\ Two(0) = 1
      /\ \A n \in Nat : Two(n) \in Nat /\ Two(n) > 0 /\ Two(n + 1) = 2 * Two(n)
  <2> DEFINE S == {n \in Nat : Two(n) > 0}
  <2>1. 0 \in S
    BY <1>0
  <2>2. \A i \in Nat : i \in S => i + 1 \in S
    BY <1>0
  <2>3. Nat \subseteq S
    <3> HIDE DEF S
    <3> QED
      BY <2>1, <2>2, Always
  <2> QED
    BY <1>0, <2>3
<1>b. ~lost => \A e \in Stored : FlagsOf(e) < Two(Len(trail))
  BY DEF Shallow
<1> SUFFICES FlagsOf(d)' < Two(Len(trail'))
  OBVIOUS
<1> HIDE DEF Two
<1>1. CASE Quiet
  BY <1>b, <1>1 DEF Quiet, FlagsOf
<1>2. CASE Enters
  <2>1. d \in Ids
    BY <1>2, UsedIsTyped DEF Enters, Stored
  <2> QED
    BY <1>0, <1>a, <1>b, <1>2, <2>1 DEF Enters, FlagsOf
<1>3. CASE Nests
  <2>1. d \in Stored
    BY <1>3 DEF Nests, Query, Stored, Used
  <2>2. FlagsOf(d) \in Nat /\ FlagsOf(d) < Two(Len(trail)) /\ FlagsOf(d) < FlagTop
    BY <1>b, <1>3, <2>1, NothingLost
  <2>3. FlagsOf(d)' \in {2 * FlagsOf(d), 2 * FlagsOf(d) + 1}
    BY <1>3, <2>1, <2>2, QueryFlags DEF Nests
  <2>4. Two(Len(trail')) = 2 * Two(Len(trail)) /\ Two(Len(trail)) \in Nat
    BY <1>0, <1>a, <1>3, TrailDepth
  <2> QED
    BY <2>2, <2>3, <2>4
<1>4. CASE Undo
  <2>1. d \in Stored
    BY <1>4 DEF Undo, Stored, Used
  <2>2. FlagsOf(d) \in Nat /\ FlagsOf(d) < Two(Len(trail)) /\ FlagsOf(d) < FlagTop
    BY <1>b, <1>4, <2>1, NothingLost
  <2>3. FlagsOf(d)' = FlagsOf(d) \div 2
    BY <1>4, <2>1, <2>2, UndoFlags
  <2>4. CASE trail = <<>>
    BY <1>a, <1>4, <2>2, <2>3, <2>4, TrailDepth
  <2>5. CASE trail # <<>>
    <3>1. Len(trail') \in Nat /\ Len(trail) = Len(trail') + 1
      BY <1>4, <2>5, TrailDepth
    <3>2. Two(Len(trail)) = 2 * Two(Len(trail')) /\ Two(Len(trail')) \in Nat
      BY <1>a, <3>1
    <3> QED
      BY <2>2, <2>3, <3>2
  <2> QED
    BY <2>4, <2>5
<1>5. CASE Reset
  <2>1. d \in Stored /\ d \in Ids
    BY <1>5, UsedIsTyped DEF Reset, Stored, Used
  <2>2. FlagsOf(d)' = 0
    BY <1>5, <2>1 DEF Reset, FlagsOf, TypeOK, Entry
  <2> QED
    BY <1>a, <1>5, <2>2, TrailDepth
<1>6. CASE Draws
  <2>1. d \in Stored /\ trail' = trail
    BY <1>6 DEF Draws, Graph, Stored, Used
  <2>2. FlagsOf(d)' = FlagsOf(d) /\ ~lost
    BY <1>6, <2>1, NothingLost, GraphFlags DEF Draws
  <2> QED
    BY <1>b, <2>1, <2>2
<1> QED
  BY <1>1, <1>2, <1>3, <1>4, <1>5, <1>6, TrailKinds

(* The step that loses a bit finds a flag with the top bit set, or the bit   *)
(* next to it if it is a graph; shallow flags have that bit only when as     *)
(* many queries are in force.                                                *)
LEMMA LosingStep ==
  ASSUME TypeOK, ScanInv, Shallow, [Next]_vars, lost', ~lost
  PROVE  2 ^ (IF last' = "graph" THEN Len(trail) + 1 ELSE Len(trail)) > FlagTop
<1>1. /\ Len(trail) \in Nat /\ FlagTop \in Nat
      /\ 2 ^ Len(trail) \in Nat /\ 2 ^ (Len(trail) + 1) = 2 * 2 ^ Len(trail)
  BY TrailDepth, PowerDoubles, TableAssumption DEF TableAssumption
<1>2. \A d \in Stored : FlagsOf(d) \in Nat /\ FlagsOf(d) < 2 ^ Len(trail)
  BY UsedIsTyped DEF Shallow, Stored, TypeOK, Entry, FlagsOf, Flags
<1>3. Nests \/ Undo \/ Draws
  BY TrailKinds DEF Quiet, Enters, Reset
<1>4. CASE Nests \/ Undo
  <2>1. lost' = (lost \/ \E e \in Stored : entry[e].flags >= FlagTop) /\ last' # "graph"
    BY <1>4 DEF Nests, Query, Undo, Issue
  <2>2. PICK e \in Stored : FlagsOf(e) >= FlagTop
    BY <2>1 DEF FlagsOf
  <2>3. 2 ^ Len(trail) > FlagTop
    BY <1>1, <1>2, <2>2
  <2> QED
    BY <2>1, <2>3
<1>5. CASE Draws
  <2>1. lost' = (lost \/ \E e \in Stored : 2 * entry[e].flags >= FlagTop) /\ last' = "graph"
    BY <1>5 DEF Draws, Graph, Issue
  <2>2. PICK e \in Stored : 2 * FlagsOf(e) >= FlagTop
    BY <2>1 DEF FlagsOf
  <2>3. 2 ^ (Len(trail) + 1) > FlagTop
    BY <1>1, <1>2, <2>2
  <2> QED
    BY <2>1, <2>3
<1> QED
  BY <1>3, <1>4, <1>5

(* As long as no bit is lost the flags hold no more bits than queries are in *)
(* force.                                                                    *)
THEOREM FlagsAreShallow == Spec => []Shallow
<1>1. Init => Shallow
  <2> SUFFICES ASSUME Init PROVE Stored = {}
    BY DEF Shallow
  <2> QED
    BY DEF Init, Stored, Used
<1>2. IInv /\ Shallow /\ [Next]_vars => Shallow'
  BY ShallowStep DEF IInv
<1> QED
  BY <1>1, <1>2, Inductive, PTL DEF Spec

(* A query or an undo loses a bit only when at least as many queries are in  *)
(* force as the flags have bits, a graph only when one less is.              *)
THEOREM LosesWhenDeep == Spec => LosesOnlyWhenDeep
<1>1. IInv /\ Shallow /\ [Next]_vars
        => [lost' /\ ~lost =>
              2 ^ (IF last' = "graph" THEN Len(trail) + 1 ELSE Len(trail)) > FlagTop]_vars
  BY LosingStep DEF IInv
<1> QED
  BY <1>1, Inductive, FlagsAreShallow, PTL DEF Spec, LosesOnlyWhenDeep

-----------------------------------------------------------------------------
(* What undo restores.                                                       *)

(* G[l] gives the flags as they were when query l of the trail was issued,   *)
(* G[Len(trail) + 1] those of now: each query added one bit, what it saw is  *)
(* what had no bit set, and what was stored since entered without any.       *)
Traced(G) ==
  /\ G \in [1 .. Len(trail) + 1 -> [Ids -> Nat]]
  /\ \A d \in Stored : G[Len(trail) + 1][d] = FlagsOf(d)
  /\ \A l \in 1 .. Len(trail), d \in Stored :
       /\ G[l + 1][d] \in {2 * G[l][d], 2 * G[l][d] + 1}
       /\ d < trail[l].upTo => (d \in trail[l].seen <=> G[l][d] = 0)
       /\ d >= trail[l].upTo => G[l][d] = 0
  /\ \A l \in 1 .. Len(trail) :
       trail[l].upTo <= idCounter /\ \A d \in trail[l].seen : d < trail[l].upTo

TrailInv == ~lost => \E G : Traced(G)

(* The trail holds sets of ids and counts of them.                           *)
LEMMA TrailIsTyped ==
  ASSUME TypeOK, NEW l \in 1 .. Len(trail)
  PROVE  trail[l].upTo \in Nat
<1> DEFINE R == [seen : SUBSET Ids, upTo : 0 .. MaxIds]
<1>1. trail \in Seq(R)
  BY DEF TypeOK
<1>2. trail[l] \in R
  <2> HIDE DEF R
  <2> QED
    BY <1>1
<1> QED
  BY <1>2

(* With no query in force there is nothing to trace.                         *)
LEMMA TracesEmpty == TypeOK /\ trail = <<>> => \E G : Traced(G)
<1> SUFFICES ASSUME TypeOK, trail = <<>> PROVE \E G : Traced(G)
  OBVIOUS
<1>1. PICK H : H = [d \in Ids |-> FlagsOf(d)]
  OBVIOUS
<1> DEFINE G == [l \in 1 .. 1 |-> H]
<1>2. H \in [Ids -> Nat] /\ \A d \in Stored : H[d] = FlagsOf(d)
  BY <1>1, UsedIsTyped DEF TypeOK, Entry, Flags, FlagsOf, Stored
<1>3. Len(trail) = 0
  OBVIOUS
<1>4. Traced(G)
  BY <1>2, <1>3 DEF Traced
<1> QED
  BY <1>4

(* Every step keeps the trace.                                               *)
LEMMA TraceStep ==
  ASSUME TypeOK, ScanInv, SlotsDistinct, TrailInv, [Next]_vars, TypeOK'
  PROVE  TrailInv'
<1> SUFFICES ASSUME ~lost' PROVE (\E G : Traced(G))'
  BY DEF TrailInv
<1>0. /\ Stored \subseteq Ids /\ Len(trail) \in Nat /\ idCounter \in Nat
      /\ \A d \in Stored : d < idCounter /\ d \in Nat
  BY UsedIsTyped, TrailDepth DEF Stored, SlotsDistinct, TypeOK, Ids
<1>1. CASE Quiet
  <2>1. PICK G : Traced(G)
    BY <1>1 DEF TrailInv, Quiet
  <2>2. Traced(G)'
    BY <1>1, <2>1 DEF Traced, Quiet, FlagsOf
  <2> QED
    BY <2>2
<1>2. CASE Enters
  <2>1. PICK G : Traced(G)
    BY <1>2 DEF TrailInv, Enters
  <2>2. PICK L, c : L = Len(trail) /\ c = idCounter
    OBVIOUS
  <2> DEFINE G2 == [l \in 1 .. L + 1 |-> [d \in Ids |-> IF d = c THEN 0 ELSE G[l][d]]]
  <2>3. /\ trail' = trail /\ idCounter' = c + 1 /\ Stored' = Stored \cup {c}
        /\ FlagsOf(c)' = 0 /\ c \in Ids /\ c \in Nat /\ L \in Nat
        /\ \A d \in Stored : d # c /\ FlagsOf(d)' = FlagsOf(d)
    BY <1>0, <1>2, <2>2 DEF Enters, FlagsOf, Ids
  <2>4. /\ G2 \in [1 .. L + 1 -> [Ids -> Nat]]
        /\ \A l \in 1 .. L + 1 : G2[l][c] = 0 /\ \A d \in Stored : G2[l][d] = G[l][d]
    BY <1>0, <2>1, <2>2, <2>3 DEF Traced
  <2> HIDE DEF G2
  <2>5. \A d \in Stored' : G2[L + 1][d] = FlagsOf(d)'
    BY <2>1, <2>2, <2>3, <2>4 DEF Traced
  <2>6. ASSUME NEW l \in 1 .. L, NEW d \in Stored'
        PROVE  /\ G2[l + 1][d] \in {2 * G2[l][d], 2 * G2[l][d] + 1}
               /\ d < trail[l].upTo => (d \in trail[l].seen <=> G2[l][d] = 0)
               /\ d >= trail[l].upTo => G2[l][d] = 0
    <3>1. l \in 1 .. L + 1 /\ l + 1 \in 1 .. L + 1
      BY <2>3
    <3>2. CASE d = c
      <4>1. trail[l].upTo <= c /\ trail[l].upTo \in Nat
        BY <2>1, <2>2, <2>3, TrailIsTyped DEF Traced
      <4> QED
        BY <2>3, <2>4, <3>1, <3>2, <4>1
    <3>3. CASE d # c
      BY <2>1, <2>2, <2>3, <2>4, <3>1, <3>3 DEF Traced
    <3> QED
      BY <3>2, <3>3
  <2>7. \A l \in 1 .. L : trail[l].upTo <= c + 1 /\ \A d \in trail[l].seen : d < trail[l].upTo
    <3>1. \A l \in 1 .. L : trail[l].upTo \in Nat
      BY <2>2, <2>3, TrailIsTyped
    <3> QED
      BY <2>1, <2>2, <2>3, <3>1 DEF Traced
  <2>8. Traced(G2)'
    BY <2>2, <2>3, <2>4, <2>5, <2>6, <2>7 DEF Traced
  <2> QED
    BY <2>8
<1>3. CASE Nests
  <2>0. ~lost
    BY <1>3 DEF Nests, Query
  <2>1. PICK G : Traced(G)
    BY <2>0 DEF TrailInv
  <2>2. PICK L, H : L = Len(trail) /\ H = [d \in Ids |-> FlagsOf(d)']
    OBVIOUS
  <2> DEFINE G2 == [l \in 1 .. L + 2 |-> IF l = L + 2 THEN H ELSE G[l]]
             top == [seen |-> Visible, upTo |-> idCounter]
  <2>3. /\ trail' = Append(trail, top) /\ UNCHANGED <<idCounter, Stored>>
        /\ L \in Nat
    BY <1>0, <1>3, <2>2 DEF Nests, Query, Stored, Used
  <2>4. /\ Len(trail') = L + 1 /\ trail'[L + 1] = top
        /\ \A l \in 1 .. L : trail'[l] = trail[l]
    BY <2>2, <2>3 DEF TypeOK
  <2>5. H \in [Ids -> Nat] /\ \A d \in Stored : H[d] = FlagsOf(d)'
    BY <1>0, <2>2 DEF TypeOK, Entry, Flags, FlagsOf
  <2>6. /\ G2 \in [1 .. L + 2 -> [Ids -> Nat]]
        /\ G2[L + 2] = H /\ \A l \in 1 .. L + 1 : G2[l] = G[l]
    BY <2>1, <2>2, <2>3, <2>5 DEF Traced
  <2> HIDE DEF G2
  <2>7. \A d \in Stored : /\ H[d] \in {2 * G[L + 1][d], 2 * G[L + 1][d] + 1}
                          /\ d \in Visible <=> G[L + 1][d] = 0
                          /\ d < idCounter
    <3>1. ASSUME NEW d \in Stored PROVE FlagsOf(d)' \in {2 * FlagsOf(d), 2 * FlagsOf(d) + 1}
      BY <1>3, NothingLost, QueryFlags DEF Nests
    <3>2. \A d \in Stored : d \in Visible <=> FlagsOf(d) = 0
      BY DEF Stored, Visible, FlagsAt, FlagsOf
    <3>3. \A d \in Stored : G[L + 1][d] = FlagsOf(d)
      BY <2>1, <2>2 DEF Traced
    <3> QED
      BY <1>0, <2>5, <3>1, <3>2, <3>3
  <2>8. ASSUME NEW l \in 1 .. L + 1, NEW d \in Stored
        PROVE  /\ G2[l + 1][d] \in {2 * G2[l][d], 2 * G2[l][d] + 1}
               /\ d < trail'[l].upTo => (d \in trail'[l].seen <=> G2[l][d] = 0)
               /\ d >= trail'[l].upTo => G2[l][d] = 0
    <3>1. CASE l = L + 1
      <4>1. G2[l + 1] = H /\ G2[l] = G[L + 1] /\ trail'[l] = top
        BY <2>3, <2>4, <2>6, <3>1
      <4>2. top.upTo = idCounter /\ top.seen = Visible
        OBVIOUS
      <4> HIDE DEF top
      <4>3. trail'[l].upTo = idCounter /\ trail'[l].seen = Visible
        BY <4>1, <4>2
      <4>4. H[d] \in {2 * G[L + 1][d], 2 * G[L + 1][d] + 1}
        BY <2>7
      <4>5. (d \in Visible <=> G[L + 1][d] = 0) /\ d < idCounter
        BY <2>7
      <4>6. ~(d >= idCounter)
        BY <1>0, <4>5
      <4> QED
        BY <4>1, <4>3, <4>4, <4>5, <4>6
    <3>2. CASE l # L + 1
      <4>1. /\ l \in 1 .. L /\ trail'[l] = trail[l]
            /\ G2[l + 1] = G[l + 1] /\ G2[l] = G[l]
        BY <2>3, <2>4, <2>6, <3>2
      <4>2. /\ G[l + 1][d] \in {2 * G[l][d], 2 * G[l][d] + 1}
            /\ d < trail[l].upTo => (d \in trail[l].seen <=> G[l][d] = 0)
            /\ d >= trail[l].upTo => G[l][d] = 0
        BY <2>1, <2>2, <4>1 DEF Traced
      <4> QED
        BY ONLY <4>1, <4>2
    <3> QED
      BY <3>1, <3>2
  <2>9. ASSUME NEW l \in 1 .. L + 1
        PROVE  trail'[l].upTo <= idCounter /\ \A d \in trail'[l].seen : d < trail'[l].upTo
    <3>1. CASE l = L + 1
      <4>1. trail'[l] = top /\ top.upTo = idCounter /\ top.seen = Visible
        BY <2>4, <3>1
      <4>2. \A d \in Visible : d \in Stored
        BY DEF Visible, Stored
      <4> HIDE DEF top
      <4> QED
        BY <1>0, <4>1, <4>2
    <3>2. CASE l # L + 1
      <4>1. l \in 1 .. L /\ trail'[l] = trail[l]
        BY <2>3, <2>4, <3>2
      <4> QED
        BY <2>1, <2>2, <4>1 DEF Traced
    <3> QED
      BY <3>1, <3>2
  <2>10. Traced(G2)'
    <3>1. Len(trail') + 1 = L + 2
      BY <2>3, <2>4
    <3> QED
      BY <2>3, <2>4, <2>5, <2>6, <2>8, <2>9, <3>1 DEF Traced
  <2> QED
    BY <2>10
<1>4. CASE Undo
  <2>1. CASE trail = <<>>
    <3>1. trail' = <<>>
      BY <1>4, <2>1 DEF Undo
    <3>2. TypeOK' /\ (trail = <<>>)'
      BY <3>1
    <3> QED
      BY <3>2, TracesEmpty, PTL
  <2>2. CASE trail # <<>>
    <3>0. ~lost
      BY <1>4 DEF Undo
    <3>1. PICK G : Traced(G)
      BY <3>0 DEF TrailInv
    <3>2. PICK L : L = Len(trail)
      OBVIOUS
    <3> DEFINE G2 == [l \in 1 .. L |-> G[l]]
    <3>3. /\ trail' = SubSeq(trail, 1, L - 1) /\ UNCHANGED <<idCounter, Stored>>
          /\ L \in Nat \ {0}
      BY <1>0, <1>4, <2>2, <3>2, TrailDepth DEF Undo, Stored, Used
    <3>4. Len(trail') = L - 1 /\ \A l \in 1 .. L - 1 : trail'[l] = trail[l]
      BY <2>2, <3>2, <3>3, Shortened DEF TypeOK
    <3>5. /\ G2 \in [1 .. L -> [Ids -> Nat]]
          /\ \A l \in 1 .. L : G2[l] = G[l]
      BY <3>1, <3>2, <3>3 DEF Traced
    <3> HIDE DEF G2
    <3>6. \A d \in Stored : G2[L][d] = FlagsOf(d)'
      <4>1. ASSUME NEW d \in Stored PROVE FlagsOf(d)' = FlagsOf(d) \div 2
        BY <1>4, NothingLost, UndoFlags
      <4>2. ASSUME NEW d \in Stored
            PROVE  /\ G[L][d] \in Nat /\ FlagsOf(d) \in {2 * G[L][d], 2 * G[L][d] + 1}
        <5>1. L \in 1 .. L + 1 /\ L \in 1 .. L /\ d \in Ids
          BY <1>0, <3>3
        <5> QED
          BY <3>1, <3>2, <5>1 DEF Traced
      <4>3. ASSUME NEW d \in Stored PROVE FlagsOf(d) \div 2 = G[L][d]
        BY <4>2
      <4> QED
        BY <3>3, <3>5, <4>1, <4>3
    <3>7. ASSUME NEW l \in 1 .. L - 1
          PROVE  /\ l \in 1 .. L /\ trail'[l] = trail[l]
                 /\ G2[l + 1] = G[l + 1] /\ G2[l] = G[l]
      BY <3>3, <3>4, <3>5
    <3>8. Traced(G2)'
      <4>1. Len(trail') + 1 = L
        BY <3>3, <3>4
      <4>2. \A l \in 1 .. L - 1, d \in Stored :
              /\ G2[l + 1][d] \in {2 * G2[l][d], 2 * G2[l][d] + 1}
              /\ d < trail'[l].upTo => (d \in trail'[l].seen <=> G2[l][d] = 0)
              /\ d >= trail'[l].upTo => G2[l][d] = 0
        BY <3>1, <3>2, <3>7 DEF Traced
      <4>3. \A l \in 1 .. L - 1 : /\ trail'[l].upTo <= idCounter
                                  /\ \A d \in trail'[l].seen : d < trail'[l].upTo
        BY <3>1, <3>2, <3>7 DEF Traced
      <4> QED
        BY <3>3, <3>4, <3>5, <3>6, <4>1, <4>2, <4>3 DEF Traced
    <3> QED
      BY <3>8
  <2> QED
    BY <2>1, <2>2
<1>5. CASE Reset
  <2>1. trail' = <<>>
    BY <1>5 DEF Reset
  <2>2. TypeOK' /\ (trail = <<>>)'
    BY <2>1
  <2> QED
    BY <2>2, TracesEmpty, PTL
<1>6. CASE Draws
  <2>0. /\ UNCHANGED <<trail, idCounter, content, numOf>>
        /\ lost' = (lost \/ \E d \in Stored : 2 * entry[d].flags >= FlagTop)
    BY <1>6 DEF Draws, Graph
  <2>1. UNCHANGED <<trail, idCounter, Stored>> /\ ~lost
    BY <2>0 DEF Stored, Used
  <2>2. PICK G : Traced(G)
    BY <2>1 DEF TrailInv
  <2>3. ASSUME NEW d \in Stored PROVE FlagsOf(d)' = FlagsOf(d)
    BY <1>6, NothingLost, GraphFlags DEF Draws
  <2>4. Traced(G)'
    BY <2>1, <2>2, <2>3 DEF Traced
  <2> QED
    BY <2>4
<1> QED
  BY <1>1, <1>2, <1>3, <1>4, <1>5, <1>6, TrailKinds

(* An undo that loses no bit shows what was visible before the query and     *)
(* what was stored since.                                                    *)
LEMMA UndoShows ==
  ASSUME TypeOK, SlotsDistinct, TrailInv, Undo, ~lost', trail # <<>>
  PROVE  /\ Visible' \cap 0 .. trail[Len(trail)].upTo - 1 = trail[Len(trail)].seen \cap Stored
         /\ \A d \in Stored : d >= trail[Len(trail)].upTo => d \in Visible'
<1> DEFINE L == Len(trail)
           top == trail[L]
<1>0. ~lost
  BY DEF Undo
<1>1. PICK G : Traced(G)
  BY <1>0 DEF TrailInv
<1>2. L \in Nat \ {0} /\ L \in 1 .. L /\ L + 1 \in 1 .. L + 1 /\ L \in 1 .. L + 1
  BY TrailDepth
<1>3. top.upTo \in Nat
  BY <1>2, TrailIsTyped
<1> HIDE DEF L, top
<1>4. ASSUME NEW d \in Stored
      PROVE  /\ d \in Nat /\ d \in Visible' <=> G[L][d] = 0
             /\ d < top.upTo => (d \in top.seen <=> G[L][d] = 0)
             /\ d >= top.upTo => G[L][d] = 0
  <2>1. d \in Ids /\ d \in Nat
    BY UsedIsTyped DEF Stored, Ids
  <2>2. FlagsOf(d)' = FlagsOf(d) \div 2
    BY NothingLost, UndoFlags
  <2>3. G[L][d] \in Nat /\ FlagsOf(d) \in {2 * G[L][d], 2 * G[L][d] + 1}
    BY <1>1, <1>2, <2>1 DEF Traced, L
  <2>4. FlagsOf(d)' = G[L][d]
    BY <2>2, <2>3
  <2>5. d \in Visible' <=> FlagsOf(d)' = 0
    BY DEF Undo, Stored, Visible, Used, FlagsAt, FlagsOf
  <2>6. /\ d < top.upTo => (d \in top.seen <=> G[L][d] = 0)
        /\ d >= top.upTo => G[L][d] = 0
    BY <1>1, <1>2 DEF Traced, L, top
  <2> QED
    BY <2>1, <2>4, <2>5, <2>6
<1>5. Visible' \subseteq Stored
  BY DEF Undo, Stored, Visible, Used
<1>6. \A d \in top.seen : d < top.upTo
  BY <1>1, <1>2 DEF Traced, L, top
<1>7. Visible' \cap 0 .. top.upTo - 1 = top.seen \cap Stored
  BY <1>3, <1>4, <1>5, <1>6
<1>8. \A d \in Stored : d >= top.upTo => d \in Visible'
  BY <1>4
<1> QED
  BY <1>7, <1>8 DEF L, top

(* While no bit is lost, the flags can be traced back to what each query in  *)
(* force saw.                                                                *)
THEOREM QueriesAreTraced == Spec => []TrailInv
<1>1. Init => TrailInv
  <2>1. Init => TypeOK /\ trail = <<>>
    BY InitEstablishes DEF Init, IInv
  <2> QED
    BY <2>1, TracesEmpty DEF TrailInv
<1>2. IInv /\ TypeOK' /\ TrailInv /\ [Next]_vars => TrailInv'
  BY TraceStep DEF IInv
<1> QED
  BY <1>1, <1>2, Inductive, TypeCorrect, PTL DEF Spec

(* Undo shows again exactly what was visible before the query it undoes: the *)
(* circuits seen then that are still stored, and those inserted since.       *)
THEOREM UndoIsExact == Spec => UndoRestores
<1> DEFINE Restores ==
      (/\ Undo /\ ~lost' /\ trail # <<>>)
       => LET top == trail[Len(trail)] IN
          /\ Visible' \cap 0 .. top.upTo - 1 = top.seen \cap Stored
          /\ \A d \in Stored : d >= top.upTo => d \in Visible'
<1>1. IInv /\ TrailInv => Restores
  BY UndoShows DEF IInv
<1>2. IInv /\ TrailInv /\ [Next]_vars => [Restores]_vars
  BY <1>1
<1> QED
  BY <1>2, Inductive, QueriesAreTraced, PTL DEF Spec, UndoRestores
=============================================================================
