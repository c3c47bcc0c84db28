----------------------------- MODULE ParetoProofs -----------------------------
(***************************************************************************)
(* Machine-checked proofs about the Pareto-associative table, for every    *)
(* set of properties, margins and numbers, every table size, width of      *)
(* flags and set of commands.                                              *)
(***************************************************************************)
EXTENDS ParetoProperties, SequenceTheorems, TLAPS

-----------------------------------------------------------------------------
(* The order of records.                                                     *)

(* Every number of a record is an integer or missing.                        *)
LEMMA NumberOrMissing ==
  ASSUME NEW p \in Point, NEW j \in Props
  PROVE  (p[j] = NaN \/ p[j] \in Int) /\ (p[j] \in Int => p[j] # NaN)
BY OrderAssumption DEF OrderAssumption, Point

(* The flag "dominated" of the comparison loop is the reference order.       *)
LEMMA DominatedIsAtMost ==
  ASSUME NEW p \in Point, NEW q \in Point
  PROVE  Dominated(p, q) <=> AtMost(p, q)
BY NumberOrMissing DEF Dominated, AtMost, BothKnown

(* The flag "dominates" is the reference order read backwards.               *)
LEMMA DominatesIsAtMost ==
  ASSUME NEW p \in Point, NEW q \in Point
  PROVE  Dominates(p, q) <=> AtMost(q, p)
BY NumberOrMissing DEF Dominates, AtMost, BothKnown

(* A record is at most itself.                                               *)
LEMMA AtMostReflexive ==
  ASSUME NEW p \in Point
  PROVE  AtMost(p, p)
BY NumberOrMissing DEF AtMost

(* The order is transitive, missing numbers included.                        *)
LEMMA AtMostTransitive ==
  ASSUME NEW p \in Point, NEW q \in Point, NEW r \in Point,
         AtMost(p, q), AtMost(q, r)
  PROVE  AtMost(p, r)
<1> SUFFICES ASSUME NEW j \in Props
             PROVE  p[j] = NaN \/ (r[j] # NaN /\ p[j] <= r[j])
  BY DEF AtMost
<1>1. /\ p[j] = NaN \/ (q[j] # NaN /\ p[j] <= q[j])
      /\ q[j] = NaN \/ (r[j] # NaN /\ q[j] <= r[j])
  BY DEF AtMost
<1> QED
  BY <1>1, NumberOrMissing

(* Negating the "less is better" properties gives a record again.            *)
LEMMA NormalisedIsPoint ==
  ASSUME NEW raw \in Offers
  PROVE  Normalised(raw) \in Point
BY OrderAssumption, TableAssumption
DEF OrderAssumption, TableAssumption, Point, Normalised

(* Shifting flags keeps them within their width.                             *)
LEMMA FlagsKeepWidth ==
  ASSUME NEW f \in Flags
  PROVE  /\ Shl(f) + 0 \in Flags /\ Shl(f) + 1 \in Flags
         /\ Sar(f) \in Flags /\ 0 \in Flags
BY TableAssumption DEF TableAssumption, Flags, Shl, Sar

-----------------------------------------------------------------------------
(* The vector.                                                               *)

(* Under the type invariant used slots are slots and hold ids of records.    *)
LEMMA UsedIsTyped ==
  ASSUME TypeOK, NEW k \in Used
  PROVE  /\ k \in Slots
         /\ content[k] \in Ids
         /\ PointAt(k) \in Point
         /\ content[k] \in Stored
BY TableAssumption DEF TypeOK, Used, Slots, Ids, PointAt, Entry, Stored, TableAssumption

(* Deleting a slot leaves every other slot alone but the last, and moves     *)
(* that one into the place of the deleted one.                               *)
LEMMA DeleteSlotMoves ==
  ASSUME TypeOK, NEW k \in Used, DeleteSlot(k)
  PROVE  /\ content' \in [Slots -> Ids]
         /\ numOf' \in 0 .. idCounter
         /\ numOf' = numOf - 1
         /\ Used' \subseteq Used
         /\ \A m \in Used' : /\ m # k => content'[m] = content[m]
                             /\ m = k => content'[m] = content[numOf - 1]
         /\ numOf - 1 \in Used
         /\ Stored' \subseteq Stored
<1>1. /\ k \in Slots /\ numOf - 1 \in Used /\ numOf - 1 \in Slots /\ content[numOf - 1] \in Ids
      /\ numOf \in Nat /\ numOf > 0 /\ idCounter \in Nat
  <2>1. numOf \in Nat /\ idCounter \in Nat /\ numOf <= idCounter /\ idCounter <= MaxIds
        /\ k \in Nat /\ k < numOf
    BY TableAssumption DEF TypeOK, Used, TableAssumption
  <2>2. k \in Slots /\ numOf - 1 \in Used /\ numOf - 1 \in Slots /\ numOf > 0
    BY <2>1, TableAssumption DEF Used, Slots, Ids, TableAssumption
  <2> QED
    BY <2>1, <2>2 DEF TypeOK
<1>2. numOf' = numOf - 1 /\ numOf' \in 0 .. idCounter /\ Used' \subseteq Used
  BY <1>1 DEF TypeOK, DeleteSlot, Used
<1>3. content' \in [Slots -> Ids]
  BY <1>1 DEF TypeOK, DeleteSlot
<1>4. \A m \in Used' : /\ m # k => content'[m] = content[m]
                       /\ m = k => content'[m] = content[numOf - 1]
  BY <1>1, <1>2, UsedIsTyped DEF TypeOK, DeleteSlot
<1>5. Stored' \subseteq Stored
  BY <1>1, <1>2, <1>4 DEF Stored
<1> QED
  BY <1>1, <1>2, <1>3, <1>4, <1>5

(* Appending keeps the types and adds exactly one id, the counter's.         *)
LEMMA AppendAdds ==
  ASSUME TypeOK, idCounter < MaxIds, NEW p \in Point, AppendEntry(p)
  PROVE  /\ content' \in [Slots -> Ids]
         /\ numOf' \in 0 .. idCounter'
         /\ idCounter' \in 0 .. MaxIds
         /\ entry' \in [Ids -> Entry]
         /\ idCounter' = idCounter + 1 /\ idCounter \in Ids
         /\ numOf' = numOf + 1 /\ numOf \in Used' /\ Used \subseteq Used'
         /\ Used' = Used \cup {numOf}
         /\ content'[numOf] = idCounter
         /\ \A k \in Used : content'[k] = content[k]
         /\ \A d \in Ids : d # idCounter => entry'[d] = entry[d]
         /\ entry'[idCounter].pt = p
         /\ Stored' = Stored \cup {idCounter}
<1>1. idCounter \in Ids /\ numOf \in Slots /\ numOf \in Nat
  BY TableAssumption DEF TypeOK, Ids, Slots, TableAssumption
<1>2. [flags |-> 0, pt |-> p] \in Entry
  BY FlagsKeepWidth, TableAssumption DEF Entry, Flags, TableAssumption
<1>3. /\ content' \in [Slots -> Ids]
      /\ numOf' \in 0 .. idCounter' /\ idCounter' \in 0 .. MaxIds
      /\ idCounter' = idCounter + 1
      /\ numOf' = numOf + 1
      /\ content'[numOf] = idCounter
  BY <1>1, TableAssumption DEF TypeOK, AppendEntry, TableAssumption
<1>4. entry' \in [Ids -> Entry]
  BY <1>1, <1>2 DEF TypeOK, AppendEntry
<1>5. /\ \A d \in Ids : d # idCounter => entry'[d] = entry[d]
      /\ entry'[idCounter].pt = p
  BY <1>1 DEF TypeOK, AppendEntry
<1>6. Used' = Used \cup {numOf} /\ numOf \in Used' /\ numOf \notin Used
  BY <1>1, <1>3 DEF Used
<1>7. \A k \in Used : content'[k] = content[k]
  BY <1>1, <1>6, UsedIsTyped DEF TypeOK, AppendEntry
<1>8. Stored' = Stored \cup {idCounter}
  BY <1>3, <1>6, <1>7 DEF Stored
<1> QED
  BY <1>1, <1>3, <1>4, <1>5, <1>6, <1>7, <1>8

-----------------------------------------------------------------------------
(* The three ways a step can touch what is stored: delete one slot, append   *)
(* an entry, or leave the vector and the records alone.                      *)
Trims == \E k \in Used : DeleteSlot(k) /\ UNCHANGED <<idCounter, entry>>
Adds(p) == idCounter < MaxIds /\ AppendEntry(p)
Hides ==
  /\ UNCHANGED <<content, numOf, idCounter>>
  /\ entry' \in [Ids -> Entry]
  /\ \A d \in Ids : entry'[d].pt = entry[d].pt

(* What insertion knows when it stores the new circuit.                      *)
Scanned == op.cmd = "add" /\ op.i >= numOf

(* The command in progress is idle or has the fields of its kind.            *)
LEMMA OpIsTyped ==
  ASSUME TypeOK
  PROVE  /\ op.cmd = "add" => op \in AddOp
         /\ op.cmd = "unique" => op \in UniqueOp
         /\ op.cmd = "stars" => op \in StarsOp
         /\ op = Idle => op.cmd = "idle"
         /\ op = Exited => op.cmd = "exited"
BY DEF TypeOK, Idle, Exited, AddOp, UniqueOp, StarsOp

(* A call with a list of the wrong length, and a process that such a call    *)
(* has ended, leave the table, its records and the histories alone.          *)
Misfits == RefuseSizes \/ ExitOnProperties \/ ExitOnThresholds \/ Gone

LEMMA MisfitsTouchNothing ==
  ASSUME Misfits
  PROVE  /\ UNCHANGED patVars /\ UNCHANGED <<forced, before, trail, lost>>
         /\ op.cmd \in {"idle", "exited"} /\ op'.cmd \in {"idle", "exited"}
BY DEF Misfits, RefuseSizes, ExitOnProperties, ExitOnThresholds, Gone, Issue, Historyless,
   Idle, Exited, vars, patVars

(* Rewriting the flags of the stored entries keeps the entries' types.       *)
LEMMA FlagsOnly ==
  ASSUME TypeOK, NEW F \in [Ids -> Flags],
         entry' = [d \in Ids |-> IF d \in Stored
                                 THEN [entry[d] EXCEPT !.flags = F[d]] ELSE entry[d]],
         UNCHANGED <<content, numOf, idCounter>>
  PROVE  Hides
<1>1. \A d \in Ids : /\ [entry[d] EXCEPT !.flags = F[d]] \in Entry
                     /\ [entry[d] EXCEPT !.flags = F[d]].pt = entry[d].pt
                     /\ entry[d] \in Entry
  BY DEF TypeOK, Entry
<1> QED
  BY <1>1 DEF Hides

(* Every step touches what is stored in one of the three ways, and only      *)
(* force_pat_array adds to the forced ids.                                   *)
LEMMA StepKinds ==
  ASSUME TypeOK, ScanInv, [Next]_vars
  PROVE  \/ Hides /\ UNCHANGED forced
         \/ Trims /\ UNCHANGED forced
         \/ Scanned /\ op.pt \in Point /\ Adds(op.pt) /\ UNCHANGED forced
         \/ \E raw \in Offers : Adds(Normalised(raw)) /\ forced' = forced \cup {idCounter}
<1>1. ASSUME UNCHANGED patVars PROVE Hides
  BY <1>1 DEF Hides, patVars, TypeOK
<1> USE OpIsTyped
<1>2. CASE UNCHANGED vars
  BY <1>1, <1>2 DEF vars, patVars
<1>0. CASE Misfits
  BY <1>1, <1>0, MisfitsTouchNothing
<1>3. CASE \E raw \in Offers, array \in BOOLEAN : BeginAdd(raw, array)
  BY <1>1, <1>3 DEF BeginAdd, Historyless
<1>4. CASE Reject \/ Keep
  BY <1>1, <1>4 DEF Reject, Keep, Historyless
<1>5. CASE DropBeaten
  <2>1. op.i \in Used
    BY <1>5, OpIsTyped DEF DropBeaten, Comparing, AddOp, Used, TypeOK
  <2> QED
    BY <1>5, <2>1 DEF DropBeaten, Trims, Historyless
<1>6. CASE Store
  BY <1>6, OpIsTyped DEF Store, Scanned, Adds, ScanInv, AddOp, Historyless
<1>7. CASE \E raw \in Offers : ForceArray(raw)
  BY <1>7 DEF ForceArray, Adds
<1>8. CASE \E k \in -1 .. MaxIds : Delete(k)
  <2>1. PICK k \in -1 .. MaxIds : Delete(k)
    BY <1>8
  <2>2. CASE k \in Used
    BY <2>1, <2>2 DEF Delete, Trims, Historyless
  <2>3. CASE k \notin Used
    BY <1>1, <2>1, <2>3 DEF Delete, Historyless, patVars
  <2> QED
    BY <2>2, <2>3
<1>9. CASE (\E f \in UniqueFactors : BeginUnique(f)) \/ BeginStars
  BY <1>1, <1>9 DEF BeginUnique, BeginStars
<1>10. CASE DropTwin
  <2>1. op.j \in Used
    BY <1>10, OpIsTyped DEF DropTwin, Pairing, UniqueOp, Used, TypeOK
  <2> QED
    BY <1>10, <2>1 DEF DropTwin, Trims, Historyless
<1>11. CASE KeepPair \/ NextRow \/ EndTrim \/ KeepStar
  BY <1>1, <1>11 DEF KeepPair, NextRow, EndTrim, KeepStar, Historyless
<1>12. CASE DropOther
  <2>1. op.i \in Used
    BY <1>12, OpIsTyped DEF DropOther, StarsOp, Used, TypeOK
  <2> QED
    BY <1>12, <2>1 DEF DropOther, Trims, Historyless
<1>13. CASE \E spec \in QuerySpecs : Query(spec)
  <2>1. PICK spec \in QuerySpecs : Query(spec)
    BY <1>13
  <2> DEFINE hide == NewlyHidden(NormalisedSpec(spec))
             F == [d \in Ids |-> ShiftIn(entry[d].flags, d \in hide)]
  <2>2. F \in [Ids -> Flags]
    <3>1. ASSUME NEW d \in Ids PROVE ShiftIn(entry[d].flags, d \in hide) \in Flags
      <4>1. entry[d].flags \in Flags
        BY DEF TypeOK, Entry
      <4> QED
        BY <4>1, FlagsKeepWidth DEF ShiftIn
    <3> QED
      BY <3>1
  <2>3. entry' = [d \in Ids |-> IF d \in Stored
                                THEN [entry[d] EXCEPT !.flags = F[d]] ELSE entry[d]]
    BY <2>1 DEF Query
  <2>4. Hides
    BY <2>1, <2>2, <2>3, FlagsOnly DEF Query
  <2> QED
    BY <2>1, <2>4 DEF Query
<1>14. CASE Undo
  <2> DEFINE F == [d \in Ids |-> Sar(entry[d].flags)]
  <2>2. F \in [Ids -> Flags]
    BY FlagsKeepWidth DEF TypeOK, Entry
  <2>3. entry' = [d \in Ids |-> IF d \in Stored
                                THEN [entry[d] EXCEPT !.flags = F[d]] ELSE entry[d]]
    BY <1>14 DEF Undo
  <2>4. Hides
    BY <1>14, <2>2, <2>3, FlagsOnly DEF Undo
  <2> QED
    BY <1>14, <2>4 DEF Undo
<1>15. CASE Reset
  <2> DEFINE F == [d \in Ids |-> 0]
  <2>2. F \in [Ids -> Flags]
    BY TableAssumption DEF Flags, TableAssumption
  <2>3. entry' = [d \in Ids |-> IF d \in Stored
                                THEN [entry[d] EXCEPT !.flags = F[d]] ELSE entry[d]]
    BY <1>15 DEF Reset
  <2>4. Hides
    BY <1>15, <2>2, <2>3, FlagsOnly DEF Reset
  <2> QED
    BY <1>15, <2>4 DEF Reset
<1>16. CASE \E x, y \in Props : Graph(x, y)
  <2>1. PICK x \in Props, y \in Props : Graph(x, y)
    BY <1>16
  <2> DEFINE hide == NewlyHidden([j \in Props |-> IF j \in {x, y} THEN Inf ELSE NaN])
             F == [d \in Ids |-> Sar(ShiftIn(entry[d].flags, d \in hide))]
  <2>2. F \in [Ids -> Flags]
    <3>1. ASSUME NEW d \in Ids PROVE Sar(ShiftIn(entry[d].flags, d \in hide)) \in Flags
      <4>1. entry[d].flags \in Flags
        BY DEF TypeOK, Entry
      <4> QED
        BY <4>1, FlagsKeepWidth DEF ShiftIn
    <3> QED
      BY <3>1
  <2>3. entry' = [d \in Ids |-> IF d \in Stored
                                THEN [entry[d] EXCEPT !.flags = F[d]] ELSE entry[d]]
    BY <2>1 DEF Graph
  <2>4. Hides
    BY <2>1, <2>2, <2>3, FlagsOnly DEF Graph
  <2> QED
    BY <2>1, <2>4 DEF Graph
<1> QED
  BY <1>0, <1>2, <1>3, <1>4, <1>5, <1>6, <1>7, <1>8, <1>9, <1>10, <1>11, <1>12, <1>13,
     <1>14, <1>15, <1>16 DEF Next, Misfits

-----------------------------------------------------------------------------
(* The inductive invariant, one conjunct at a time.                          *)

(* The initial states satisfy every conjunct.                                *)
LEMMA InitEstablishes == Init => IInv
<1> SUFFICES ASSUME Init PROVE IInv
  OBVIOUS
<1>1. Used = {} /\ Stored = {}
  BY DEF Init, Used, Stored
<1>2. TypeOK
  <2>1. content \in [Slots -> Ids]
    BY TableAssumption DEF Init, Slots, Ids, TableAssumption
  <2>2. entry \in [Ids -> Entry]
    BY TableAssumption DEF Init, Entry, Flags, Point, TableAssumption
  <2>3. trail \in Seq([seen : SUBSET Ids, upTo : 0 .. MaxIds])
    BY EmptySeq DEF Init
  <2>4. before \in [ids : SUBSET Ids, first : Ids \cup {0}]
    BY DEF Init, Nothing
  <2>5. numOf \in 0 .. idCounter /\ idCounter \in 0 .. MaxIds
    BY TableAssumption DEF Init, TableAssumption
  <2>6. /\ op \in {Idle} /\ ret \in {NoRet} /\ last \in {"none"}
        /\ forced \in SUBSET Ids /\ lost \in BOOLEAN
    BY DEF Init
  <2> QED
    BY <2>1, <2>2, <2>3, <2>4, <2>5, <2>6 DEF TypeOK
<1> QED
  BY <1>1, <1>2 DEF IInv, SlotsDistinct, ScanInv, NewcomersImprove, BeatenAreGone, Init, Idle

(* What is stored keeps its types.                                           *)
LEMMA StoreTyped ==
  ASSUME TypeOK, ScanInv, [Next]_vars
  PROVE  /\ content' \in [Slots -> Ids]
         /\ numOf' \in 0 .. idCounter'
         /\ idCounter' \in 0 .. MaxIds
         /\ entry' \in [Ids -> Entry]
         /\ forced' \in SUBSET Ids
<1>1. CASE Hides /\ UNCHANGED forced
  BY <1>1 DEF Hides, TypeOK
<1>2. CASE Trims /\ UNCHANGED forced
  BY <1>2, DeleteSlotMoves DEF Trims, TypeOK
<1>3. CASE op.pt \in Point /\ Adds(op.pt) /\ UNCHANGED forced
  BY <1>3, AppendAdds DEF Adds, TypeOK
<1>4. ASSUME NEW raw \in Offers,
             Adds(Normalised(raw)), forced' = forced \cup {idCounter}
      PROVE  /\ content' \in [Slots -> Ids]
             /\ numOf' \in 0 .. idCounter'
             /\ idCounter' \in 0 .. MaxIds
             /\ entry' \in [Ids -> Entry]
             /\ forced' \in SUBSET Ids
  BY <1>4, AppendAdds, NormalisedIsPoint DEF Adds, TypeOK
<1> QED
  BY <1>1, <1>2, <1>3, <1>4, StepKinds

(* The swap of delete_entry and the append of add_entry keep the slots       *)
(* distinct.                                                                 *)
LEMMA DistinctStep ==
  ASSUME TypeOK, ScanInv, SlotsDistinct, [Next]_vars
  PROVE  SlotsDistinct'
<1>1. CASE Hides
  BY <1>1 DEF Hides, SlotsDistinct, Used
<1>2. CASE Trims
  <2>1. PICK k \in Used : DeleteSlot(k) /\ UNCHANGED <<idCounter, entry>>
    BY <1>2 DEF Trims
  <2>2. numOf - 1 \notin Used'
    BY <2>1, DeleteSlotMoves DEF Used, TypeOK
  <2> QED
    BY <2>1, <2>2, DeleteSlotMoves DEF SlotsDistinct
<1>3. ASSUME NEW p \in Point, Adds(p) PROVE SlotsDistinct'
  <2>1. /\ Used' = Used \cup {numOf} /\ content'[numOf] = idCounter
        /\ \A k \in Used : content'[k] = content[k]
        /\ idCounter' = idCounter + 1
    BY <1>3, AppendAdds DEF Adds
  <2>2. \A k \in Used : content[k] < idCounter /\ content[k] \in Int
    BY UsedIsTyped DEF SlotsDistinct, Ids
  <2>3. idCounter \in Int
    BY DEF TypeOK
  <2> QED
    BY <2>1, <2>2, <2>3 DEF SlotsDistinct
<1> QED
  BY <1>1, <1>2, <1>3, StepKinds, NormalisedIsPoint

(* What a step makes of the stored circuits: their ids were stored before,   *)
(* with the same record, or the id is the new one.                           *)
LEMMA StoredStep ==
  ASSUME TypeOK, ScanInv, SlotsDistinct, [Next]_vars,
         NEW a \in Stored', NEW b \in Stored', a < b, b \notin forced'
  PROVE  \/ /\ a \in Stored /\ b \in Stored /\ b \notin forced
            /\ entry'[a].pt = entry[a].pt /\ entry'[b].pt = entry[b].pt
         \/ /\ a \in Stored /\ Scanned /\ op.pt \in Point
            /\ entry'[a].pt = entry[a].pt /\ entry'[b].pt = op.pt
<1>0. Stored \subseteq Ids
  BY UsedIsTyped DEF Stored
<1>1. CASE Hides /\ UNCHANGED forced
  <2>1. Stored' = Stored
    BY <1>1 DEF Hides, Stored, Used
  <2> QED
    BY <1>0, <1>1, <2>1 DEF Hides
<1>2. CASE Trims /\ UNCHANGED forced
  BY <1>2, DeleteSlotMoves DEF Trims
<1>3. CASE Scanned /\ op.pt \in Point /\ Adds(op.pt) /\ UNCHANGED forced
  <2>1. /\ Stored' = Stored \cup {idCounter} /\ idCounter \in Ids
        /\ entry'[idCounter].pt = op.pt
        /\ \A d \in Ids : d # idCounter => entry'[d] = entry[d]
    BY <1>3, AppendAdds DEF Adds
  <2>2. \A d \in Stored : d < idCounter /\ d \in Int
    BY <1>0 DEF SlotsDistinct, Stored, Ids
  <2>3. a \in Stored /\ a # idCounter
    BY <2>1, <2>2 DEF Ids
  <2> QED
    BY <1>0, <1>3, <2>1, <2>2, <2>3
<1>4. ASSUME NEW raw \in Offers, Adds(Normalised(raw)), forced' = forced \cup {idCounter}
      PROVE  /\ a \in Stored /\ b \in Stored /\ b \notin forced
             /\ entry'[a].pt = entry[a].pt /\ entry'[b].pt = entry[b].pt
  <2>1. /\ Stored' = Stored \cup {idCounter} /\ idCounter \in Ids
        /\ \A d \in Ids : d # idCounter => entry'[d] = entry[d]
    BY <1>4, AppendAdds, NormalisedIsPoint DEF Adds
  <2>2. \A d \in Stored : d < idCounter /\ d \in Int
    BY <1>0 DEF SlotsDistinct, Stored, Ids
  <2>3. b \in Stored /\ b # idCounter /\ a \in Stored /\ a # idCounter
    BY <1>4, <2>1, <2>2 DEF Ids
  <2> QED
    BY <1>0, <1>4, <2>1, <2>3
<1> QED
  BY <1>1, <1>2, <1>3, <1>4, StepKinds

(* A circuit about to be stored improves on every stored one, and beats      *)
(* none of them.                                                             *)
LEMMA ScannedAll ==
  ASSUME TypeOK, ScanInv, Scanned, NEW a \in Stored
  PROVE  /\ ~AtMost(op.pt, entry[a].pt)
         /\ ~(AtMost(entry[a].pt, op.pt) /\ SignificantlyBetter(op.pt, entry[a].pt))
<1>1. PICK k \in Used : a = content[k]
  BY DEF Stored
<1>2. k < op.i
  BY OpIsTyped DEF Scanned, Used, AddOp, TypeOK
<1> QED
  BY <1>1, <1>2 DEF ScanInv, Scanned, PointAt

(* No step stores, or leaves stored, a circuit that an older one matches.    *)
LEMMA NewcomersStep ==
  ASSUME TypeOK, ScanInv, SlotsDistinct, NewcomersImprove, [Next]_vars
  PROVE  NewcomersImprove'
<1> SUFFICES ASSUME NEW a \in Stored', NEW b \in Stored', a < b, b \notin forced'
             PROVE  ~AtMost(entry'[b].pt, entry'[a].pt)
  BY DEF NewcomersImprove, AtMost
<1>1. CASE /\ a \in Stored /\ b \in Stored /\ b \notin forced
           /\ entry'[a].pt = entry[a].pt /\ entry'[b].pt = entry[b].pt
  BY <1>1 DEF NewcomersImprove
<1>2. CASE /\ a \in Stored /\ Scanned
           /\ entry'[a].pt = entry[a].pt /\ entry'[b].pt = op.pt
  BY <1>2, ScannedAll
<1> QED
  BY <1>1, <1>2, StoredStep

(* No step stores a circuit and leaves one that it beats.                    *)
LEMMA BeatenStep ==
  ASSUME TypeOK, ScanInv, SlotsDistinct, BeatenAreGone, [Next]_vars
  PROVE  BeatenAreGone'
<1> SUFFICES ASSUME NEW a \in Stored', NEW b \in Stored', a < b, b \notin forced'
             PROVE  ~(/\ AtMost(entry'[a].pt, entry'[b].pt)
                      /\ SignificantlyBetter(entry'[b].pt, entry'[a].pt))
  BY DEF BeatenAreGone, AtMost, SignificantlyBetter, BothKnown
<1>1. CASE /\ a \in Stored /\ b \in Stored /\ b \notin forced
           /\ entry'[a].pt = entry[a].pt /\ entry'[b].pt = entry[b].pt
  BY <1>1 DEF BeatenAreGone
<1>2. CASE /\ a \in Stored /\ Scanned
           /\ entry'[a].pt = entry[a].pt /\ entry'[b].pt = op.pt
  BY <1>2, ScannedAll
<1> QED
  BY <1>1, <1>2, StoredStep

(* What insertion knows of the slots before op.i survives: a deletion at     *)
(* op.i brings another entry to op.i, never before it.                       *)
LEMMA ScanStep ==
  ASSUME TypeOK, ScanInv, [Next]_vars
  PROVE  ScanInv'
<1> USE OpIsTyped
<1>1. CASE UNCHANGED vars
  BY <1>1 DEF ScanInv, vars, Used, PointAt
<1>10. CASE Misfits
  BY <1>10, MisfitsTouchNothing DEF ScanInv
<1>2. CASE \E raw \in Offers, array \in BOOLEAN : BeginAdd(raw, array)
  BY <1>2 DEF BeginAdd, ScanInv, Used, patVars
<1>3. CASE Keep
  <2>0. op \in AddOp /\ op.i < numOf
    BY <1>3 DEF Keep, Comparing
  <2>1. /\ op.i \in Used /\ op.pt \in Point /\ op.i \in Nat
        /\ op'.i = op.i + 1 /\ op'.pt = op.pt
    BY <1>3, <2>0 DEF Keep, AddOp, Used, TypeOK
  <2>2. /\ ~AtMost(op.pt, PointAt(op.i))
        /\ ~(AtMost(PointAt(op.i), op.pt) /\ SignificantlyBetter(op.pt, PointAt(op.i)))
    BY <1>3, <2>1, UsedIsTyped, DominatedIsAtMost, DominatesIsAtMost DEF Keep
  <2>3. \A k \in Used : k < op.i + 1 => k < op.i \/ k = op.i
    BY <2>1 DEF Used, TypeOK
  <2>4. UNCHANGED <<content, numOf, idCounter, entry>> /\ op.cmd = "add"
    BY <1>3 DEF Keep, Comparing, patVars
  <2> QED
    BY <2>1, <2>2, <2>3, <2>4 DEF ScanInv, Used, PointAt
<1>4. CASE DropBeaten
  <2>1. op.i \in Used /\ op.i \in Nat /\ op.cmd = "add"
    BY <1>4 DEF DropBeaten, Comparing, AddOp, Used, TypeOK
  <2>2. DeleteSlot(op.i) /\ UNCHANGED <<idCounter, entry, op>>
    BY <1>4 DEF DropBeaten
  <2>3. Used' \subseteq Used /\ \A k \in Used' : k # op.i => content'[k] = content[k]
    BY ONLY TypeOK, <2>1, <2>2, DeleteSlotMoves
  <2>4. \A k \in Used' : k < op.i => k \in Used /\ content'[k] = content[k]
    BY ONLY <2>1, <2>3
  <2> QED
    BY <2>1, <2>2, <2>4 DEF ScanInv, PointAt
<1>5. CASE Reject \/ Store \/ EndTrim
  BY <1>5 DEF Reject, Store, EndTrim, ScanInv, Idle
<1>6. CASE \/ \E raw \in Offers : ForceArray(raw)
           \/ \E k \in -1 .. MaxIds : Delete(k)
           \/ \E spec \in QuerySpecs : Query(spec)
           \/ Undo \/ Reset
           \/ \E x, y \in Props : Graph(x, y)
  BY <1>6 DEF ForceArray, Delete, Query, Undo, Reset, Graph, ScanInv, Issue, Idle
<1>7. CASE (\E f \in UniqueFactors : BeginUnique(f)) \/ BeginStars
  BY <1>7 DEF BeginUnique, BeginStars, ScanInv
<1>8. CASE DropTwin \/ DropOther
  BY <1>8 DEF DropTwin, Pairing, DropOther, ScanInv
<1>9. CASE KeepPair \/ NextRow \/ KeepStar
  <2>1. op \in UniqueOp \cup StarsOp /\ op.cmd # "add"
    BY <1>9 DEF KeepPair, Pairing, NextRow, KeepStar
  <2>2. op'.cmd # "add"
    BY <1>9, <2>1 DEF KeepPair, NextRow, KeepStar, UniqueOp, StarsOp
  <2> QED
    BY <2>2 DEF ScanInv
<1> QED
  BY <1>1, <1>2, <1>3, <1>4, <1>5, <1>6, <1>7, <1>8, <1>9, <1>10 DEF Next, Misfits

(* The command in progress keeps the fields of its kind.                     *)
LEMMA OpStep ==
  ASSUME TypeOK, [Next]_vars
  PROVE  op' \in {Idle, Exited} \cup AddOp \cup UniqueOp \cup StarsOp
<1> USE OpIsTyped
<1>1. CASE UNCHANGED op
  BY <1>1 DEF TypeOK
<1>11. CASE Misfits
  BY <1>1, <1>11 DEF Misfits, RefuseSizes, ExitOnProperties, ExitOnThresholds, Gone, vars
<1>2. ASSUME NEW raw \in Offers, NEW array \in BOOLEAN, BeginAdd(raw, array)
      PROVE  op' \in AddOp
  BY <1>2, NormalisedIsPoint DEF BeginAdd, AddOp
<1>3. CASE Keep
  BY <1>3 DEF Keep, Comparing, AddOp
<1>4. ASSUME NEW f \in UniqueFactors, BeginUnique(f) PROVE op' \in UniqueOp
  <2>1. [j \in Props |-> KnownAt(j)] \in [Props -> SUBSET Values]
    <3>1. \A j \in Props : KnownAt(j) \subseteq Values
      BY UsedIsTyped DEF KnownAt, Point
    <3> QED
      BY <3>1
  <2> QED
    BY <1>4, <2>1 DEF BeginUnique, UniqueOp
<1>5. CASE KeepPair \/ NextRow
  <2>1. op \in UniqueOp
    BY <1>5 DEF KeepPair, NextRow, Pairing
  <2>2. \/ op' = [op EXCEPT !.j = @ + 1]
        \/ op' = [op EXCEPT !.i = @ + 1, !.j = op.i + 2]
    BY <1>5 DEF KeepPair, NextRow
  <2>3. op.i + 1 \in Nat /\ op.i + 2 \in Nat /\ op.j + 1 \in Nat
    BY <2>1 DEF UniqueOp
  <2>4. ASSUME NEW i \in Nat, NEW j \in Nat PROVE [op EXCEPT !.i = i, !.j = j] \in UniqueOp
    BY <2>1 DEF UniqueOp
  <2>5. [op EXCEPT !.j = op.j + 1] \in UniqueOp
    BY <2>1, <2>3 DEF UniqueOp
  <2> QED
    BY <2>2, <2>3, <2>4, <2>5
<1>6. CASE BeginStars
  BY <1>6 DEF BeginStars, StarsOp
<1>7. CASE KeepStar
  BY <1>7 DEF KeepStar, StarsOp
<1>8. CASE Reject \/ Store \/ EndTrim
  BY <1>8 DEF Reject, Store, EndTrim
<1>9. CASE DropBeaten \/ DropTwin \/ DropOther
  BY <1>1, <1>9 DEF DropBeaten, DropTwin, DropOther
<1>10. CASE \/ \E raw \in Offers : ForceArray(raw)
            \/ \E k \in -1 .. MaxIds : Delete(k)
            \/ \E spec \in QuerySpecs : Query(spec)
            \/ Undo \/ Reset
            \/ \E x, y \in Props : Graph(x, y)
  BY <1>1, <1>10 DEF ForceArray, Delete, Query, Undo, Reset, Graph
<1> QED
  BY <1>1, <1>2, <1>3, <1>4, <1>5, <1>6, <1>7, <1>8, <1>9, <1>10, <1>11
  DEF Next, Misfits, vars

(* Answers, the name of the last command and the histories keep their types. *)
LEMMA HistoryStep ==
  ASSUME TypeOK, ScanInv, [Next]_vars
  PROVE  /\ ret' \in {NoRet, -2, -1} \cup Nat
         /\ last' \in Commands \cup {"none"}
         /\ before' \in [ids : SUBSET Ids, first : Ids \cup {0}]
         /\ trail' \in Seq([seen : SUBSET Ids, upTo : 0 .. MaxIds])
         /\ lost' \in BOOLEAN
<1> USE OpIsTyped
<1> DEFINE Trail == Seq([seen : SUBSET Ids, upTo : 0 .. MaxIds])
           Befores == [ids : SUBSET Ids, first : Ids \cup {0}]
           Typed == /\ ret' \in {NoRet, -2, -1} \cup Nat
                    /\ last' \in Commands \cup {"none"}
                    /\ before' \in Befores
                    /\ trail' \in Trail
                    /\ lost' \in BOOLEAN
<1> SUFFICES Typed
  OBVIOUS
<1>0. /\ ret \in {NoRet, -2, -1} \cup Nat /\ last \in Commands \cup {"none"}
      /\ before \in Befores /\ trail \in Trail /\ lost \in BOOLEAN
  BY DEF TypeOK
<1> HIDE DEF Befores
<1>1. CASE UNCHANGED <<ret, last, before, trail, lost>>
  BY <1>0, <1>1
<1>11. CASE Misfits
  <2>1. ret' \in {NoRet, -2, -1} \cup Nat /\ last' \in Commands \cup {"none"}
    BY <1>0, <1>11 DEF Misfits, RefuseSizes, ExitOnProperties, ExitOnThresholds, Gone,
       Issue, NoAnswer, vars
  <2> QED
    BY <1>0, <1>11, <2>1, MisfitsTouchNothing
<1>2. CASE \/ \E raw \in Offers, array \in BOOLEAN : BeginAdd(raw, array)
           \/ \E k \in -1 .. MaxIds : Delete(k)
  BY <1>0, <1>2 DEF BeginAdd, Delete, Issue, NoAnswer, Historyless
<1>3. CASE Reject \/ Store \/ \E raw \in Offers : ForceArray(raw)
  <2>1. numOf \in Nat /\ (op.cmd = "add" => op.i \in Nat)
    BY DEF TypeOK, AddOp
  <2> QED
    BY <1>0, <1>3, <2>1 DEF Reject, Comparing, Store, ForceArray, Issue, Historyless
<1>4. CASE Keep \/ DropBeaten \/ DropTwin \/ KeepPair \/ NextRow \/ KeepStar \/ DropOther
  BY <1>1, <1>4
  DEF Keep, DropBeaten, DropTwin, KeepPair, NextRow, KeepStar, DropOther, Historyless
<1>5. CASE (\E f \in UniqueFactors : BeginUnique(f)) \/ BeginStars \/ EndTrim
  <2>1. idCounter > 0 => [ids |-> Stored, first |-> content[0]] \in Befores
    <3>1. idCounter > 0 => content[0] \in Ids
      BY TableAssumption DEF TypeOK, Slots, Ids
    <3> QED
      BY <3>1, UsedIsTyped DEF Befores, Stored
  <2>2. Nothing \in Befores
    BY DEF Nothing, Befores
  <2> QED
    BY <1>0, <1>5, <2>1, <2>2 DEF BeginUnique, BeginStars, EndTrim, Issue, NoAnswer
<1>6. CASE \E spec \in QuerySpecs : Query(spec)
  <2>1. [seen |-> Visible, upTo |-> idCounter] \in [seen : SUBSET Ids, upTo : 0 .. MaxIds]
    BY UsedIsTyped DEF Visible, TypeOK
  <2>2. Append(trail, [seen |-> Visible, upTo |-> idCounter]) \in Trail
    BY <1>0, <2>1, AppendProperties
  <2>3. (lost \/ \E d \in Stored : entry[d].flags >= FlagTop) \in BOOLEAN
    OBVIOUS
  <2> QED
    BY <1>0, <1>6, <2>2, <2>3 DEF Query, Issue, NoAnswer
<1>7. CASE Undo
  <2>1. SubSeq(trail, 1, Len(trail) - 1) \in Trail
    <3> DEFINE Query1 == [seen : SUBSET Ids, upTo : 0 .. MaxIds]
    <3>1. trail \in Seq(Query1)
      BY <1>0
    <3> HIDE DEF Query1
    <3>2. Len(trail) - 1 \in Int /\ \A n \in 1 .. Len(trail) - 1 : trail[n] \in Query1
      BY <3>1, LenProperties
    <3>3. SubSeq(trail, 1, Len(trail) - 1) \in Seq(Query1)
      BY <3>2, SubSeqProperties
    <3> QED
      BY <3>3 DEF Query1
  <2>2. <<>> \in Trail
    BY EmptySeq
  <2>3. (lost \/ \E d \in Stored : entry[d].flags >= FlagTop) \in BOOLEAN
    OBVIOUS
  <2> QED
    BY <1>0, <1>7, <2>1, <2>2, <2>3 DEF Undo, Issue, NoAnswer
<1>8. CASE Reset
  BY <1>0, <1>8, EmptySeq DEF Reset, Issue, NoAnswer
<1>9. CASE \E x, y \in Props : Graph(x, y)
  <2>1. (lost \/ \E d \in Stored : 2 * entry[d].flags >= FlagTop) \in BOOLEAN
    OBVIOUS
  <2> QED
    BY <1>0, <1>9, <2>1 DEF Graph, Issue, NoAnswer
<1>10. CASE UNCHANGED vars
  BY <1>1, <1>10 DEF vars
<1> QED
  BY <1>1, <1>2, <1>3, <1>4, <1>5, <1>6, <1>7, <1>8, <1>9, <1>10, <1>11 DEF Next, Misfits

(* Every step preserves the types.                                           *)
LEMMA TypeStep ==
  ASSUME TypeOK, ScanInv, [Next]_vars
  PROVE  TypeOK'
BY StoreTyped, OpStep, HistoryStep DEF TypeOK

-----------------------------------------------------------------------------
(* The theorems.                                                             *)

(* IInv is inductive: insertion's loop invariant is what lets each stored    *)
(* circuit be compared with every other one.                                 *)
THEOREM Inductive == Spec => []IInv
<1>1. IInv /\ [Next]_vars => IInv'
  BY TypeStep, ScanStep, DistinctStep, NewcomersStep, BeatenStep DEF IInv
<1> QED
  BY InitEstablishes, <1>1, PTL DEF Spec

(* The vector, the entries and the command in progress always have the       *)
(* shapes the code gives them: no deletion or append leaves the vector, and  *)
(* flags keep their width.                                                   *)
THEOREM TypeCorrect == Spec => []TypeOK
BY Inductive, PTL DEF IInv

(* No entry ever sits in two slots.                                          *)
THEOREM NeverTwice == Spec => []SlotsDistinct
BY Inductive, PTL DEF IInv

(* An inserted circuit always improves on every older stored one.            *)
THEOREM AlwaysImproves == Spec => []NewcomersImprove
BY Inductive, PTL DEF IInv

(* No stored circuit is beaten beyond the margin by a newer inserted one.    *)
THEOREM AlwaysPruned == Spec => []BeatenAreGone
BY Inductive, PTL DEF IInv

-----------------------------------------------------------------------------
(* The trimming loops.                                                       *)

(* A trimming loop runs under the name of its command.                       *)
TrimInv == op.cmd \in {"unique", "stars"} => last \in TrimCommands

(* No step lets a trimming loop run under another name.                      *)
LEMMA TrimStep ==
  ASSUME TypeOK, TrimInv, [Next]_vars
  PROVE  TrimInv'
<1> USE OpIsTyped DEF TrimInv, TrimCommands
<1>1. CASE UNCHANGED <<op, last>>
  BY <1>1
<1>9. CASE Misfits
  BY <1>9, MisfitsTouchNothing
<1>2. CASE \E f \in UniqueFactors : BeginUnique(f)
  BY <1>2 DEF BeginUnique, Issue
<1>3. CASE BeginStars
  BY <1>3 DEF BeginStars, Issue
<1>4. CASE KeepPair \/ NextRow \/ KeepStar
  BY <1>4 DEF KeepPair, NextRow, Pairing, KeepStar
<1>5. CASE Keep
  BY <1>5 DEF Keep, Comparing, AddOp
<1>6. CASE Reject \/ Store \/ EndTrim
  BY <1>6 DEF Reject, Store, EndTrim, Idle
<1>7. CASE \/ \E raw \in Offers, array \in BOOLEAN : BeginAdd(raw, array)
           \/ \E raw \in Offers : ForceArray(raw)
           \/ \E k \in -1 .. MaxIds : Delete(k)
           \/ \E spec \in QuerySpecs : Query(spec)
           \/ Undo \/ Reset
           \/ \E x, y \in Props : Graph(x, y)
  BY <1>7 DEF BeginAdd, ForceArray, Delete, Query, Undo, Reset, Graph, Issue, Idle
<1>8. CASE DropBeaten \/ DropTwin \/ DropOther
  BY <1>1, <1>8 DEF DropBeaten, DropTwin, DropOther
<1> QED
  BY <1>1, <1>2, <1>3, <1>4, <1>5, <1>6, <1>7, <1>8, <1>9 DEF Next, Misfits, vars

-----------------------------------------------------------------------------
(* What insertion answers.                                                   *)

(* What the step that ends an insertion answers.                             *)
Answers ==
  last' = "add" /\ op' = Idle =>
    /\ ret' >= 0 => \E k \in Used' : /\ k = IF op.array THEN ret' ELSE ret' - 1
                                    /\ AtMost(op.pt, PointAt(k)')
    /\ ret' < 0 => UNCHANGED patVars
    /\ ret' = -1 => \E k \in Used : AtMost(op.pt, PointAt(k))
    /\ ret' = -2 => op = Idle

(* Only the steps that reject, store or refuse end an insertion.             *)
LEMMA AnsweringSteps ==
  ASSUME TypeOK, TrimInv, [Next]_vars, ~UNCHANGED vars, last' = "add", op' = Idle
  PROVE  Reject \/ Store \/ RefuseSizes
<1>0. op.cmd \in {"unique", "stars"} => last # "add"
  BY DEF TrimInv, TrimCommands
<1>1. ~(ExitOnProperties \/ ExitOnThresholds \/ Gone)
  BY DEF ExitOnProperties, ExitOnThresholds, Gone, Idle, Exited
<1>2. ~ \/ \E raw \in Offers, array \in BOOLEAN : BeginAdd(raw, array)
        \/ DropBeaten
  <2>1. op'.cmd = "idle"
    BY DEF Idle
  <2> QED
    BY <2>1 DEF BeginAdd, DropBeaten, Comparing
<1>3. ~Keep
  BY OpIsTyped DEF Keep, Comparing, AddOp, Idle
<1>4. ~ \/ \E raw \in Offers : ForceArray(raw)
        \/ \E k \in -1 .. MaxIds : Delete(k)
        \/ \E f \in UniqueFactors : BeginUnique(f)
        \/ BeginStars
        \/ \E spec \in QuerySpecs : Query(spec)
        \/ Undo \/ Reset
        \/ \E x, y \in Props : Graph(x, y)
  BY DEF ForceArray, Delete, BeginUnique, BeginStars, Query, Undo, Reset, Graph, Issue
<1>5. ~(DropTwin \/ KeepPair \/ NextRow \/ EndTrim \/ KeepStar \/ DropOther)
  BY <1>0 DEF DropTwin, KeepPair, NextRow, Pairing, EndTrim, KeepStar, DropOther
<1> QED
  BY <1>1, <1>2, <1>3, <1>4, <1>5 DEF Next

(* Each of them answers what it should.                                      *)
LEMMA AnswerStep ==
  ASSUME IInv, TrimInv, [Next]_vars, ~UNCHANGED vars
  PROVE  Answers
<1> SUFFICES ASSUME last' = "add", op' = Idle
             PROVE  /\ ret' >= 0 => \E k \in Used' :
                                     /\ k = IF op.array THEN ret' ELSE ret' - 1
                                     /\ AtMost(op.pt, entry'[content'[k]].pt)
                    /\ ret' < 0 => UNCHANGED patVars
                    /\ ret' = -1 => \E k \in Used : AtMost(op.pt, entry[content[k]].pt)
                    /\ ret' = -2 => op = Idle
  BY DEF Answers, PointAt
<1>0. /\ TypeOK /\ ScanInv /\ numOf \in Nat
      /\ op.cmd = "add" => op \in AddOp /\ op.pt \in Point /\ op.i \in Nat
  BY OpIsTyped DEF IInv, AddOp, TypeOK
<1>1. CASE Reject
  <2>1. op.i \in Used /\ op.i \in Nat /\ AtMost(op.pt, entry[content[op.i]].pt)
    BY <1>0, <1>1, UsedIsTyped, DominatedIsAtMost DEF Reject, Comparing, Used, PointAt
  <2>2. UNCHANGED patVars /\ ret' = IF op.array THEN op.i ELSE -1
    BY <1>1 DEF Reject
  <2>3. op.i \in Used' /\ AtMost(op.pt, entry'[content'[op.i]].pt)
    BY <2>1, <2>2 DEF Used, patVars
  <2>4. CASE op.array
    <3>1. ret' = op.i /\ ret' \in Nat
      BY <2>1, <2>2, <2>4
    <3> QED
      BY ONLY <2>2, <2>3, <2>4, <3>1
  <2>5. CASE ~op.array
    <3>1. ret' = -1
      BY <2>2, <2>5
    <3> QED
      BY ONLY <2>1, <2>2, <3>1
  <2> QED
    BY <2>4, <2>5
<1>2. CASE Store
  <2>1. AppendEntry(op.pt) /\ ret' = IF op.array THEN numOf ELSE numOf + 1
    BY <1>2 DEF Store
  <2>2. /\ numOf \in Used' /\ content'[numOf] = idCounter /\ entry'[idCounter].pt = op.pt
        /\ op.pt \in Point
    BY <1>0, <1>2, <2>1, AppendAdds DEF ScanInv, Store
  <2>3. AtMost(op.pt, entry'[content'[numOf]].pt)
    BY <2>2, AtMostReflexive
  <2>4. numOf = (IF op.array THEN ret' ELSE ret' - 1) /\ ret' \in Nat
    BY <1>0, <2>1
  <2>5. \E k \in Used' : /\ k = IF op.array THEN ret' ELSE ret' - 1
                         /\ AtMost(op.pt, entry'[content'[k]].pt)
    BY ONLY <2>2, <2>3, <2>4
  <2>6. ~(ret' < 0) /\ ret' # -1 /\ ret' # -2
    BY ONLY <2>4
  <2> QED
    BY ONLY <2>5, <2>6
<1>3. CASE RefuseSizes
  <2>1. ret' = -2 /\ UNCHANGED patVars /\ op = Idle
    BY <1>3 DEF RefuseSizes, Issue
  <2> QED
    BY ONLY <2>1
<1> QED
  BY <1>0, <1>1, <1>2, <1>3, AnsweringSteps

(* The index add_pat_array returns and the last circuit <<< counts are at    *)
(* least as good as the circuit offered; a negative answer has stored        *)
(* nothing, because a stored circuit is at least as good (-1) or because the *)
(* call was refused at once (-2).                                            *)
THEOREM AnswersAreRight == Spec => AnswerDesignates
<1>1. Init => TrimInv
  BY DEF Init, Idle, TrimInv
<1>2. IInv /\ TrimInv /\ [Next]_vars => TrimInv' /\ [Answers]_vars
  BY AnswerStep, TrimStep DEF IInv
<1> QED
  BY <1>1, <1>2, Inductive, PTL DEF Spec, AnswerDesignates, Answers

-----------------------------------------------------------------------------
(* Refinement: the table keeps the region that the circuits offered reach.   *)

(* The region split into what stored circuits and what the circuit being     *)
(* inserted account for.                                                     *)
Covered == {q \in Point : \E d \in Stored : AtMost(q, entry[d].pt)}
Candidate == {q \in Point : op.cmd = "add" /\ AtMost(q, op.pt)}

(* Nothing else is reached.                                                  *)
LEMMA ReachedSplits == Reached = Covered \cup Candidate
BY DEF Reached, Covered, Candidate, Stored, PointAt

(* The same split in the next state.                                         *)
LEMMA ReachedSplitsNext == Reached' = Covered' \cup Candidate'
BY DEF Reached, Covered, Candidate, Stored, PointAt

(* Deleting a slot removes no id but the one it held.                        *)
LEMMA DeleteSlotKeeps ==
  ASSUME TypeOK, NEW k \in Used, DeleteSlot(k)
  PROVE  Stored \subseteq Stored' \cup {content[k]}
<1> SUFFICES ASSUME NEW m \in Used, m # k PROVE content[m] \in Stored'
  BY DEF Stored
<1>1. numOf \in Nat /\ m \in Nat /\ m < numOf /\ k \in Nat /\ k < numOf /\ numOf' = numOf - 1
  BY DeleteSlotMoves DEF Used, TypeOK
<1>2. CASE m < numOf - 1
  <2>1. m \in Used'
    BY <1>1, <1>2 DEF Used
  <2> QED
    BY <2>1, DeleteSlotMoves DEF Stored
<1>3. CASE m = numOf - 1
  <2>1. k \in Used'
    BY <1>1, <1>3 DEF Used
  <2> QED
    BY <1>3, <2>1, DeleteSlotMoves DEF Stored
<1> QED
  BY <1>1, <1>2, <1>3

(* Rewriting flags leaves the region of the stored circuits alone.           *)
LEMMA CoveredHides == ASSUME TypeOK, Hides PROVE Covered' = Covered
<1>1. Stored' = Stored /\ Stored \subseteq Ids
  BY UsedIsTyped DEF Hides, Stored, Used
<1> QED
  BY <1>1 DEF Hides, Covered, AtMost

(* Deleting a slot never enlarges it.                                        *)
LEMMA CoveredTrims == ASSUME TypeOK, Trims PROVE Covered' \subseteq Covered
<1>1. Stored' \subseteq Stored /\ entry' = entry
  BY DeleteSlotMoves DEF Trims
<1> QED
  BY <1>1 DEF Covered

(* Appending an entry adds exactly what the entry reaches.                   *)
LEMMA CoveredAdds ==
  ASSUME TypeOK, SlotsDistinct, NEW p \in Point, Adds(p)
  PROVE  Covered' = Covered \cup Below(p)
<1>1. /\ Stored' = Stored \cup {idCounter} /\ idCounter \in Ids
      /\ entry'[idCounter].pt = p
      /\ \A d \in Ids : d # idCounter => entry'[d] = entry[d]
  BY AppendAdds DEF Adds
<1>2. \A d \in Stored : d \in Ids /\ d # idCounter
  BY UsedIsTyped DEF Stored, SlotsDistinct, Ids
<1> QED
  BY <1>1, <1>2 DEF Covered, Below

(* A step of the table offers a circuit, looks, trims, or changes nothing    *)
(* that the abstract table knows of.                                         *)
LEMMA RefineStep ==
  ASSUME IInv, TrimInv, [Next]_vars
  PROVE  [Region!Next]_Region!vars
<1>0. TypeOK /\ ScanInv /\ SlotsDistinct
  BY DEF IInv
<1> USE OpIsTyped, ReachedSplits, ReachedSplitsNext
<1> DEFINE Mode == IF last \in TrimCommands THEN "trim" ELSE "grow"
<1>1. ASSUME Reached' = Reached, last' = last PROVE UNCHANGED Region!vars
  BY <1>1 DEF Region!vars
<1>2. ASSUME Reached' = Reached, last' \notin TrimCommands PROVE Region!Next
  BY <1>2 DEF Region!Next, Region!Look
<1>3. ASSUME Reached' \subseteq Reached, last' \in TrimCommands PROVE Region!Next
  BY <1>3 DEF Region!Next, Region!Trim
<1>4. ASSUME NEW p \in Point, Reached' = Reached \cup Below(p), last' \notin TrimCommands
      PROVE  Region!Next
  BY <1>4 DEF Region!Next, Region!Offer
<1>5. ASSUME UNCHANGED patVars PROVE Covered' = Covered
  BY <1>0, <1>5, CoveredHides DEF Hides, patVars, TypeOK
<1>6. CASE UNCHANGED vars
  <2>1. Reached' = Reached
    BY <1>6 DEF vars, Reached, Used, PointAt
  <2> QED
    BY <1>1, <1>6, <2>1 DEF vars
<1>15. CASE RefuseSizes \/ ExitOnProperties \/ ExitOnThresholds
  <2>1. Covered' = Covered /\ Candidate = {} /\ Candidate' = {}
    BY <1>5, <1>15, MisfitsTouchNothing DEF Misfits, Candidate
  <2>2. last' \notin TrimCommands
    BY <1>15 DEF RefuseSizes, ExitOnProperties, ExitOnThresholds, Issue, TrimCommands
  <2> QED
    BY <1>2, <2>1, <2>2
<1>7. ASSUME NEW raw \in Offers, NEW array \in BOOLEAN, BeginAdd(raw, array)
      PROVE  Region!Next
  <2>1. Normalised(raw) \in Point /\ last' \notin TrimCommands
    BY <1>7, NormalisedIsPoint DEF BeginAdd, Issue, TrimCommands
  <2>2. Covered' = Covered
    BY <1>5, <1>7 DEF BeginAdd
  <2>3. Candidate = {} /\ Candidate' = Below(Normalised(raw))
    BY <1>7 DEF BeginAdd, Issue, Idle, Candidate, Below
  <2>4. Reached' = Reached \cup Below(Normalised(raw))
    BY <2>2, <2>3
  <2> QED
    BY <1>4, <2>1, <2>4
<1>8. CASE Reject
  <2>1. op.pt \in Point /\ op.i \in Used /\ op.cmd = "add"
    BY <1>0, <1>8 DEF Reject, Comparing, AddOp, Used, TypeOK
  <2>2. AtMost(op.pt, PointAt(op.i)) /\ PointAt(op.i) \in Point /\ content[op.i] \in Stored
    BY <1>0, <1>8, <2>1, DominatedIsAtMost, UsedIsTyped DEF Reject
  <2>3. Candidate \subseteq Covered
    BY <2>1, <2>2, AtMostTransitive DEF Candidate, Covered, PointAt
  <2>4. Covered' = Covered /\ Candidate' = {}
    BY <1>5, <1>8 DEF Reject, Candidate, Idle
  <2> QED
    BY <1>1, <1>8, <2>3, <2>4 DEF Reject
<1>9. CASE DropBeaten
  <2>1. op.pt \in Point /\ op.i \in Used /\ op.cmd = "add"
    BY <1>0, <1>9 DEF DropBeaten, Comparing, AddOp, Used, TypeOK
  <2>2. DeleteSlot(op.i) /\ UNCHANGED <<idCounter, entry, op, last>>
    BY <1>9 DEF DropBeaten, Historyless
  <2>3. AtMost(PointAt(op.i), op.pt) /\ PointAt(op.i) \in Point
    BY <1>0, <1>9, <2>1, DominatesIsAtMost, UsedIsTyped DEF DropBeaten
  <2>4. Covered' \subseteq Covered
    BY <1>0, <2>1, <2>2, CoveredTrims DEF Trims
  <2>5. Covered \subseteq Covered' \cup Candidate
    <3>1. Stored \subseteq Stored' \cup {content[op.i]}
      BY <1>0, <2>1, <2>2, DeleteSlotKeeps
    <3> QED
      BY <2>1, <2>2, <2>3, <3>1, AtMostTransitive DEF Covered, Candidate, PointAt
  <2>6. Candidate' = Candidate
    BY <2>2 DEF Candidate
  <2> QED
    BY <1>1, <2>2, <2>4, <2>5, <2>6
<1>10. CASE Keep
  <2>1. Covered' = Covered /\ last' = last
    BY <1>5, <1>10 DEF Keep
  <2>2. Candidate' = Candidate
    BY <1>0, <1>10 DEF Keep, Comparing, AddOp, Candidate
  <2> QED
    BY <1>1, <2>1, <2>2
<1>11. CASE Store
  <2>1. op.cmd = "add" /\ op.pt \in Point /\ Adds(op.pt)
    BY <1>0, <1>11 DEF Store, AddOp, Adds, ScanInv
  <2>2. Covered' = Covered \cup Below(op.pt)
    BY <1>0, <2>1, CoveredAdds
  <2>3. Candidate = Below(op.pt) /\ Candidate' = {}
    BY <1>11, <2>1 DEF Store, Candidate, Below, Idle
  <2> QED
    BY <1>1, <1>11, <2>2, <2>3 DEF Store
<1>12. ASSUME NEW raw \in Offers, ForceArray(raw) PROVE Region!Next
  <2>1. /\ Normalised(raw) \in Point /\ Adds(Normalised(raw))
        /\ last' \notin TrimCommands
    BY <1>12, NormalisedIsPoint DEF ForceArray, Adds, Issue, TrimCommands
  <2>2. Covered' = Covered \cup Below(Normalised(raw))
    BY <1>0, <2>1, CoveredAdds
  <2>3. Candidate = {} /\ Candidate' = {}
    BY <1>12 DEF ForceArray, Issue, Candidate, Idle
  <2> QED
    BY <1>4, <2>1, <2>2, <2>3
<1>13. CASE \/ \E k \in -1 .. MaxIds : Delete(k)
            \/ (\E f \in UniqueFactors : BeginUnique(f)) \/ BeginStars
            \/ DropTwin \/ KeepPair \/ NextRow \/ EndTrim \/ KeepStar \/ DropOther
  <2>1. last' \in TrimCommands
    BY <1>13 DEF Delete, BeginUnique, BeginStars, DropTwin, KeepPair, NextRow, EndTrim,
       KeepStar, DropOther, Pairing, Issue, Historyless, TrimInv, TrimCommands
  <2>2. Candidate = {}
    BY <1>13 DEF Delete, BeginUnique, BeginStars, DropTwin, KeepPair, NextRow, EndTrim,
       KeepStar, DropOther, Pairing, Issue, Candidate, Idle
  <2>3. Candidate' = {}
    <3>1. CASE KeepPair \/ NextRow \/ KeepStar
      <4>1. op \in UniqueOp \cup StarsOp /\ op.cmd # "add"
        BY <1>0, <3>1 DEF KeepPair, NextRow, Pairing, KeepStar
      <4>2. op'.cmd # "add"
        BY <3>1, <4>1 DEF KeepPair, NextRow, KeepStar, UniqueOp, StarsOp
      <4> QED
        BY <4>2 DEF Candidate
    <3>2. CASE ~(KeepPair \/ NextRow \/ KeepStar)
      <4>1. op'.cmd # "add"
        BY <1>13, <3>2 DEF Delete, BeginUnique, BeginStars, DropTwin, EndTrim, DropOther,
           Pairing, Issue, Idle
      <4> QED
        BY <4>1 DEF Candidate
    <3> QED
      BY <3>1, <3>2
  <2>4. Hides \/ Trims
    <3>1. ~Scanned /\ \A p : ~AppendEntry(p)
      <4>1. numOf' <= numOf
        BY <1>0, <1>13 DEF Delete, BeginUnique, BeginStars, DropTwin, KeepPair, NextRow,
           EndTrim, KeepStar, DropOther, DeleteSlot, patVars, Historyless, TypeOK
      <4> QED
        BY <1>0, <1>13, <4>1 DEF AppendEntry, TypeOK, Scanned, Delete, BeginUnique,
           BeginStars, DropTwin, KeepPair, NextRow, EndTrim, KeepStar, DropOther,
           Pairing, Issue, Idle
    <3> QED
      BY <1>0, <3>1, StepKinds DEF Adds
  <2>5. Covered' \subseteq Covered
    BY <1>0, <2>4, CoveredHides, CoveredTrims
  <2> QED
    BY <1>3, <2>1, <2>2, <2>3, <2>5
<1>14. CASE \/ \E spec \in QuerySpecs : Query(spec)
            \/ Undo \/ Reset
            \/ \E x, y \in Props : Graph(x, y)
  <2>1. last' \notin TrimCommands
    BY <1>14 DEF Query, Undo, Reset, Graph, Issue, TrimCommands
  <2>2. Candidate = {} /\ Candidate' = {}
    BY <1>14 DEF Query, Undo, Reset, Graph, Issue, Candidate, Idle
  <2>3. numOf' = numOf /\ content' = content
    BY <1>14 DEF Query, Undo, Reset, Graph
  <2>4. Hides
    BY <1>0, <2>3, StepKinds DEF Trims, DeleteSlot, Adds, AppendEntry, TypeOK
  <2> QED
    BY <1>0, <1>2, <2>1, <2>2, <2>4, CoveredHides
<1> QED
  BY <1>6, <1>7, <1>8, <1>9, <1>10, <1>11, <1>12, <1>13, <1>14, <1>15 DEF Next, Gone

(* Insertion, forced insertion, queries and trimming implement the abstract  *)
(* table: however the loop rejects, deletes and swaps, the table reaches     *)
(* every specification that some circuit offered to it reached, and nothing  *)
(* else, until a command trims it.                                           *)
THEOREM KeepsPromise == Spec => Promise
<1>1. Init => Region!Init /\ TrimInv
  BY DEF Init, Region!Init, Reached, Used, Idle, TrimCommands, TrimInv
<1>2. IInv /\ TrimInv /\ [Next]_vars => TrimInv' /\ [Region!Next]_Region!vars
  BY TrimStep, RefineStep DEF IInv
<1> QED
  BY <1>1, <1>2, Inductive, PTL DEF Spec, Promise, Region!Spec
===============================================================================
