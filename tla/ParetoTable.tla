----------------------------- MODULE ParetoTable -----------------------------
(***************************************************************************)
(* The Pareto-associative table of Gamma/Data/ctree.c: a vector of         *)
(* pointers to entries that keeps the circuits no other circuit beats, the *)
(* commands that trim it (PAT delete, unique, stars) and the nested        *)
(* "specific front" queries (>>>) that hide entries through a stack of     *)
(* bits in each entry's flags.                                             *)
(*                                                                         *)
(* An entry is identified by its id: ids are handed out by id_counter and  *)
(* entries are never freed, so an id stands for the pointer.  The loops    *)
(* that delete while they walk the vector are modelled one iteration a     *)
(* step.  The sizes of an entry are never looked at and are left out; that *)
(* a list has as many of them as the table is checked, and a list of the   *)
(* wrong length is a call of its own: it is refused or ends the process.   *)
(***************************************************************************)
EXTENDS ParetoOrder, FiniteSets, Sequences

CONSTANTS
  Offers,         \* the property records simulations produce
  Commands,       \* the commands the user issues
  UniqueFactors,  \* arguments of PAT unique (positive)
  QuerySpecs,     \* arguments of >>> : functions from Props to thresholds
  Inf,            \* the threshold "inf": maximise this property
  TopLimit,       \* 1000: how many matching circuits a query analyses
  FlagTop,        \* 2^(w-1) for flags of w bits (w = 32 in the code)
  MaxIds,         \* bound: entries ever created
  MaxWork         \* bound: entries ever created and queries in force, together

ASSUME TableAssumption ==
  /\ IsFiniteSet(Props)
  /\ Offers \subseteq Point
  /\ UniqueFactors \subseteq Nat \ {0}
  /\ TopLimit \in Nat \ {0}
  /\ FlagTop \in Nat \ {0} /\ FlagTop % 2 = 0
  /\ MaxIds \in Nat
  /\ MaxWork \in Nat
  /\ Inf \notin Int /\ Inf # NaN
  /\ QuerySpecs \subseteq [Props -> Int \cup {NaN, Inf}]

Ids == 0 .. MaxIds - 1
Slots == Ids

Flags == 0 .. 2 * FlagTop - 1
Entry == [flags : Flags, pt : Point]

Idle == [cmd |-> "idle"]
Exited == [cmd |-> "exited"]
AddOp == [cmd : {"add"}, pt : Point, i : Nat, array : BOOLEAN]
UniqueOp == [cmd : {"unique"}, i : Nat, j : Nat, f : UniqueFactors,
             known : [Props -> SUBSET Values]]
StarsOp == [cmd : {"stars"}, i : Nat, keep : SUBSET Ids]

TrimCommands == {"delete", "unique", "stars"}

VARIABLES
  content,    \* content[k]: the entry slot k points to; slots >= numOf are stale
  numOf,      \* number of slots in use
  idCounter,  \* the next id
  entry,      \* the entries, by id
  op,         \* the command being executed
  ret,        \* what the last command returned, when it was an insertion
  last,       \* the last command issued
  forced,     \* history: ids stored by force_pat_array
  before,     \* history: the ids stored when a trimming loop began, and slot 0's
  trail,      \* history: for each nested query, what was visible before it
  lost        \* history: a bit was shifted out of some flags since the last reset

patVars == <<content, numOf, idCounter, entry>>
vars == <<content, numOf, idCounter, entry, op, ret, last, forced, before, trail, lost>>

NoRet == -3
Nothing == [ids |-> {}, first |-> 0]

Init ==
  /\ content = [k \in Slots |-> 0]
  /\ numOf = 0
  /\ idCounter = 0
  /\ entry = [d \in Ids |-> [flags |-> 0, pt |-> [j \in Props |-> NaN]]]
  /\ op = Idle
  /\ ret = NoRet
  /\ last = "none"
  /\ forced = {}
  /\ before = Nothing
  /\ trail = <<>>
  /\ lost = FALSE

-----------------------------------------------------------------------------
(* The vector of entries.                                                    *)

Used == 0 .. numOf - 1
PointAt(k) == entry[content[k]].pt
Stored == {content[k] : k \in Used}

\* Mutant: the count is not lowered.
DeleteSlotKeepsCount(k) ==
  /\ content' = [content EXCEPT ![k] = content[numOf - 1]]
  /\ numOf' = numOf

(* delete_entry: the last entry takes the place of the deleted one.  The     *)
(* slot it came from keeps its pointer.                                      *)
DeleteSlot(k) ==
  /\ content' = [content EXCEPT ![k] = content[numOf - 1]]
  /\ numOf' = numOf - 1

\* Mutant: the counter of ids is not advanced.
AppendSameId(p) ==
  /\ entry' = [entry EXCEPT ![idCounter] = [flags |-> 0, pt |-> p]]
  /\ content' = [content EXCEPT ![numOf] = idCounter]
  /\ numOf' = numOf + 1
  /\ idCounter' = idCounter

(* add_entry, with a fresh entry: id from the counter, no flags.             *)
AppendEntry(p) ==
  /\ entry' = [entry EXCEPT ![idCounter] = [flags |-> 0, pt |-> p]]
  /\ content' = [content EXCEPT ![numOf] = idCounter]
  /\ numOf' = numOf + 1
  /\ idCounter' = idCounter + 1

Issue(cmd) == op = Idle /\ cmd \in Commands /\ last' = cmd
NoAnswer == ret' = NoRet
Historyless == UNCHANGED <<forced, before, trail, lost>>

-----------------------------------------------------------------------------
(* Insertion: add_pat_entry (the <<< command) and add_pat_array (called by   *)
(* generated breeding code).  They return different things, and only <<<     *)
(* counts the numbers it is given.                                           *)

(* <<< with the wrong number of sizes looks at nothing else.                 *)
RefuseSizes ==
  /\ Issue("add")
  /\ ret' = -2
  /\ UNCHANGED op /\ Historyless /\ UNCHANGED patVars

(* <<< with the wrong number of properties ends the process, and the table   *)
(* with it.                                                                  *)
ExitOnProperties ==
  /\ Issue("add")
  /\ op' = Exited
  /\ NoAnswer
  /\ Historyless /\ UNCHANGED patVars

(* The numbers fit.                                                          *)
BeginAdd(raw, array) ==
  /\ Issue("add")
  /\ idCounter < MaxIds /\ idCounter + Len(trail) < MaxWork
  /\ op' = [cmd |-> "add", pt |-> Normalised(raw), i |-> 0, array |-> array]
  /\ NoAnswer
  /\ Historyless /\ UNCHANGED patVars

Comparing == op.cmd = "add" /\ op.i < numOf

\* An entry at least as good is found: return without storing.
Reject ==
  /\ Comparing
  /\ Dominated(op.pt, PointAt(op.i))
  /\ ret' = IF op.array THEN op.i ELSE -1
  /\ op' = Idle
  /\ UNCHANGED last /\ Historyless /\ UNCHANGED patVars

\* Mutant: the index moves on, so the entry swapped into the slot is skipped.
DropBeatenAndMoveOn ==
  /\ Comparing
  /\ ~Dominated(op.pt, PointAt(op.i))
  /\ Dominates(op.pt, PointAt(op.i)) /\ SignificantlyBetter(op.pt, PointAt(op.i))
  /\ DeleteSlot(op.i)
  /\ op' = [op EXCEPT !.i = @ + 1]
  /\ UNCHANGED <<idCounter, entry, ret, last>> /\ Historyless

\* Mutant: an improvement beyond the margin in one property is enough to drop.
DropOnAnyImprovement ==
  /\ Comparing
  /\ ~Dominated(op.pt, PointAt(op.i))
  /\ SignificantlyBetter(op.pt, PointAt(op.i))
  /\ DeleteSlot(op.i)
  /\ UNCHANGED <<idCounter, entry, op, ret, last>> /\ Historyless

(* A beaten entry is deleted; the index stays (i-- then i++) because the     *)
(* slot now holds an entry that was not compared yet.                        *)
DropBeaten ==
  /\ Comparing
  /\ ~Dominated(op.pt, PointAt(op.i))
  /\ Dominates(op.pt, PointAt(op.i)) /\ SignificantlyBetter(op.pt, PointAt(op.i))
  /\ DeleteSlot(op.i)
  /\ UNCHANGED <<idCounter, entry, op, ret, last>> /\ Historyless

Keep ==
  /\ Comparing
  /\ ~Dominated(op.pt, PointAt(op.i))
  /\ ~(Dominates(op.pt, PointAt(op.i)) /\ SignificantlyBetter(op.pt, PointAt(op.i)))
  /\ op' = [op EXCEPT !.i = @ + 1]
  /\ UNCHANGED <<ret, last>> /\ Historyless /\ UNCHANGED patVars

\* Mutant: the new number of entries is returned where the new index is due.
StoreReturnsCount ==
  /\ op.cmd = "add" /\ op.i >= numOf
  /\ AppendEntry(op.pt)
  /\ ret' = numOf + 1
  /\ op' = Idle
  /\ UNCHANGED last /\ Historyless

Store ==
  /\ op.cmd = "add" /\ op.i >= numOf
  /\ AppendEntry(op.pt)
  /\ ret' = IF op.array THEN numOf ELSE numOf + 1
  /\ op' = Idle
  /\ UNCHANGED last /\ Historyless

(* force_pat_array: no comparison at all.                                    *)
ForceArray(raw) ==
  /\ Issue("force")
  /\ idCounter < MaxIds /\ idCounter + Len(trail) < MaxWork
  /\ AppendEntry(Normalised(raw))
  /\ ret' = numOf
  /\ forced' = forced \cup {idCounter}
  /\ UNCHANGED <<op, before, trail, lost>>

-----------------------------------------------------------------------------
(* PAT delete <index>: an index outside the vector is reported and ignored.  *)
Delete(k) ==
  /\ Issue("delete")
  /\ IF k \in Used THEN DeleteSlot(k) ELSE UNCHANGED <<content, numOf>>
  /\ NoAnswer
  /\ UNCHANGED <<idCounter, entry, op>> /\ Historyless

(* PAT unique <f>: of every pair closer than 1/f of the spread of each       *)
(* property, delete the later one.  The code reads slot 0 without asking     *)
(* whether the table is empty: a table emptied again still has its stale     *)
(* pointer there, one never filled has none and is left out.                 *)
(* A NaN in slot 0 makes the spread a NaN: max and min start from slot 0.    *)
KnownAt(j) ==
  IF PointAt(0)[j] = NaN THEN {} ELSE {PointAt(k)[j] : k \in Used} \ {NaN}

BeginUnique(f) ==
  /\ Issue("unique")
  /\ idCounter > 0
  /\ op' = [cmd |-> "unique", i |-> 0, j |-> 1, f |-> f,
            known |-> [j \in Props |-> KnownAt(j)]]
  /\ before' = [ids |-> Stored, first |-> content[0]]
  /\ NoAnswer
  /\ UNCHANGED <<forced, trail, lost>> /\ UNCHANGED patVars

Distance(a, b) == IF a < b THEN b - a ELSE a - b

(* fabs(a - b) > (max - min) / f, that is, f times the distance exceeds the  *)
(* distance of any two known numbers; false when a NaN is involved.          *)
Apart(a, b, k) ==
  /\ op.known[k] # {}
  /\ \A v, w \in op.known[k] : Distance(a, b) * op.f > Distance(v, w)

\* Mutant: one property is enough.
SameInOne(p, q) == \E k \in Props : ~(BothKnown(p, q, k) /\ Apart(p[k], q[k], k))

Same(p, q) == \A k \in Props : ~(BothKnown(p, q, k) /\ Apart(p[k], q[k], k))

Pairing == op.cmd = "unique" /\ op.i < numOf /\ op.j < numOf

\* Mutant: the index moves on past the entry swapped into the slot.
DropTwinAndMoveOn ==
  /\ Pairing
  /\ Same(PointAt(op.i), PointAt(op.j))
  /\ DeleteSlot(op.j)
  /\ op' = [op EXCEPT !.j = @ + 1]
  /\ UNCHANGED <<idCounter, entry, ret, last>> /\ Historyless

DropTwin ==
  /\ Pairing
  /\ Same(PointAt(op.i), PointAt(op.j))
  /\ DeleteSlot(op.j)
  /\ UNCHANGED <<idCounter, entry, op, ret, last>> /\ Historyless

KeepPair ==
  /\ Pairing
  /\ ~Same(PointAt(op.i), PointAt(op.j))
  /\ op' = [op EXCEPT !.j = @ + 1]
  /\ UNCHANGED <<ret, last>> /\ Historyless /\ UNCHANGED patVars

NextRow ==
  /\ op.cmd = "unique" /\ op.i < numOf /\ op.j >= numOf
  /\ op' = [op EXCEPT !.i = @ + 1, !.j = op.i + 2]
  /\ UNCHANGED <<ret, last>> /\ Historyless /\ UNCHANGED patVars

EndTrim ==
  /\ op.cmd \in {"unique", "stars"} /\ op.i >= numOf
  /\ op' = Idle
  /\ before' = Nothing
  /\ UNCHANGED <<ret, last, forced, trail, lost>> /\ UNCHANGED patVars

-----------------------------------------------------------------------------
\* Mutant: the comparison is reversed.
StarOfWorst(k) ==
  LET best[m \in 0 .. numOf] ==
        IF m = 0 THEN [max |-> PointAt(0)[k], id |-> 0]
        ELSE LET v == PointAt(m - 1)[k]
             IN  IF v # NaN /\ best[m - 1].max # NaN /\ v >= best[m - 1].max
                 THEN best[m - 1]
                 ELSE [max |-> v, id |-> content[m - 1]]
  IN best[numOf].id

(* PAT stars: keep the best entry of each property.  The loop records the    *)
(* id of the entry that raised the maximum; the record starts at 0, which is *)
(* right only when slot 0 holds the entry with id 0.  A comparison with NaN  *)
(* is false, so a NaN always takes the maximum over.                         *)
StarOf(k) ==
  LET best[m \in 0 .. numOf] ==
        IF m = 0 THEN [max |-> PointAt(0)[k], id |-> 0]
        ELSE LET v == PointAt(m - 1)[k]
             IN  IF v # NaN /\ best[m - 1].max # NaN /\ v <= best[m - 1].max
                 THEN best[m - 1]
                 ELSE [max |-> v, id |-> content[m - 1]]
  IN best[numOf].id

BeginStars ==
  /\ Issue("stars")
  /\ idCounter > 0
  /\ op' = [cmd |-> "stars", i |-> 0,
            keep |-> {d \in Ids : \E k \in Props : d = StarOf(k)}]
  /\ before' = [ids |-> Stored, first |-> content[0]]
  /\ NoAnswer
  /\ UNCHANGED <<forced, trail, lost>> /\ UNCHANGED patVars

KeepStar ==
  /\ op.cmd = "stars" /\ op.i < numOf /\ content[op.i] \in op.keep
  /\ op' = [op EXCEPT !.i = @ + 1]
  /\ UNCHANGED <<ret, last>> /\ Historyless /\ UNCHANGED patVars

DropOther ==
  /\ op.cmd = "stars" /\ op.i < numOf /\ content[op.i] \notin op.keep
  /\ DeleteSlot(op.i)
  /\ UNCHANGED <<idCounter, entry, op, ret, last>> /\ Historyless

-----------------------------------------------------------------------------
(* Specific front queries.  A threshold that is NaN is a property the user   *)
(* does not care about; "inf" asks for as much as possible.                  *)

Finite(t) == t \notin {NaN, Inf}

NormalisedSpec(spec) ==
  [j \in Props |-> IF Finite(spec[j]) /\ j \in LessIsBetter THEN -spec[j] ELSE spec[j]]

\* Mutant: undo clears the lowest bit but does not shift.
SarInPlace(f) == f - (f % 2)

(* Flags are integers of w bits: << drops the top bit, >> copies it.         *)
Shl(f) == IF f < FlagTop THEN 2 * f ELSE 2 * f - 2 * FlagTop
Sar(f) == IF f < FlagTop THEN f \div 2 ELSE f \div 2 + FlagTop

FlagsAt(k) == entry[content[k]].flags
Visible == {content[k] : k \in {m \in Used : FlagsAt(m) = 0}}

Met(th, k) ==
  Cardinality({j \in Props : /\ Finite(th[j]) /\ PointAt(k)[j] # NaN
                             /\ PointAt(k)[j] > th[j]})

(* The most thresholds that can be asked for while TopLimit entries, hidden  *)
(* ones included, still meet them; 0 when there are not that many entries.   *)
Cutoff(th) ==
  LET n == Cardinality({j \in Props : Finite(th[j])})
      enough == {c \in 0 .. n : Cardinality({k \in Used : Met(th, k) >= c}) >= TopLimit}
  IN  IF enough = {} THEN 0 ELSE CHOOSE c \in enough : \A d \in enough : d <= c

(* Beyond the threshold more is not better.                                  *)
Clamp(t, v) == IF t # Inf /\ v > t THEN t ELSE v

(* "dominated": while slot i is compared with slot m, m is hidden.           *)
HidesOther(th, i, m) ==
  \A j \in Props :
    th[j] # NaN =>
      ~(/\ BothKnown(PointAt(i), PointAt(m), j)
        /\ Clamp(th[j], PointAt(m)[j]) > Clamp(th[j], PointAt(i)[j]))

(* "dominates": while slot i is compared with slot m, i is hidden.           *)
HidesItself(th, i, m) ==
  \A j \in Props :
    th[j] # NaN =>
      /\ ~(PointAt(m)[j] = NaN /\ PointAt(i)[j] # NaN)
      /\ ~(/\ BothKnown(PointAt(i), PointAt(m), j)
           /\ Clamp(th[j], PointAt(m)[j]) < Clamp(th[j], PointAt(i)[j]))

\* Mutant: slot i is compared only with the slots after it.
FrontOfForward(th, start) ==
  LET after[i \in 0 .. numOf] ==
        IF i = 0 THEN start
        ELSE LET hid  == after[i - 1]
                 live == {m \in Used \ hid : m > i - 1}
             IN  IF i - 1 \in hid THEN hid
                 ELSE hid \cup {m \in live : HidesOther(th, i - 1, m)}
  IN after[numOf]

(* The double loop over slots, started with the slots in "start" hidden:     *)
(* row i is skipped when i is hidden as the row starts, and a hidden m is    *)
(* skipped inside the row.                                                   *)
FrontOf(th, start) ==
  LET after[i \in 0 .. numOf] ==
        IF i = 0 THEN start
        ELSE LET hid  == after[i - 1]
                 live == Used \ (hid \cup {i - 1})
             IN  IF i - 1 \in hid THEN hid
                 ELSE hid \cup {m \in live : HidesOther(th, i - 1, m)}
                          \cup {m \in {i - 1} : \E o \in live : HidesItself(th, m, o)}
  IN after[numOf]

(* pat_front on flags that were shifted first: the ids whose lowest bit it   *)
(* sets.  Entries already hidden are neither shown nor compared, but the     *)
(* count of thresholds covers them too.                                      *)
NewlyHidden(th) ==
  LET failing == {k \in Used : Met(th, k) < Cutoff(th)}
      skipped == {k \in Used : Shl(FlagsAt(k)) # 0}
      front   == FrontOf(th, failing \cup skipped)
  IN  {d \in Ids : \E k \in Used :
        d = content[k] /\ (k \in failing \/ (k \in front /\ k \notin skipped))}

\* Mutant: each query starts from a clean slate.
ShiftInFresh(f, hide) == IF hide THEN 1 ELSE 0

ShiftIn(f, hide) == Shl(f) + (IF hide THEN 1 ELSE 0)

Query(spec) ==
  /\ Issue("query")
  /\ idCounter + Len(trail) < MaxWork
  /\ LET hide == NewlyHidden(NormalisedSpec(spec)) IN
     entry' = [d \in Ids |->
       IF d \in Stored THEN [entry[d] EXCEPT !.flags = ShiftIn(@, d \in hide)]
       ELSE entry[d]]
  /\ trail' = Append(trail, [seen |-> Visible, upTo |-> idCounter])
  /\ lost' = (lost \/ \E d \in Stored : entry[d].flags >= FlagTop)
  /\ NoAnswer
  /\ UNCHANGED <<content, numOf, idCounter, op, forced, before>>

(* >>> undo                                                                  *)
Undo ==
  /\ Issue("undo")
  /\ entry' = [d \in Ids |->
       IF d \in Stored THEN [entry[d] EXCEPT !.flags = Sar(@)] ELSE entry[d]]
  /\ trail' = IF trail = <<>> THEN <<>> ELSE SubSeq(trail, 1, Len(trail) - 1)
  /\ lost' = (lost \/ \E d \in Stored : entry[d].flags >= FlagTop)
  /\ NoAnswer
  /\ UNCHANGED <<content, numOf, idCounter, op, forced, before>>

\* Mutant: reset only forgets the nesting.
ResetKeepsFlags ==
  /\ Issue("reset")
  /\ trail' = <<>>
  /\ lost' = FALSE
  /\ NoAnswer
  /\ UNCHANGED <<content, numOf, idCounter, entry, op, forced, before>>

(* >>> reset                                                                 *)
Reset ==
  /\ Issue("reset")
  /\ entry' = [d \in Ids |->
       IF d \in Stored THEN [entry[d] EXCEPT !.flags = 0] ELSE entry[d]]
  /\ trail' = <<>>
  /\ lost' = FALSE
  /\ NoAnswer
  /\ UNCHANGED <<content, numOf, idCounter, op, forced, before>>

(* >>> with the wrong number of thresholds ends the process too.             *)
ExitOnThresholds ==
  /\ Issue("query")
  /\ op' = Exited
  /\ NoAnswer
  /\ Historyless /\ UNCHANGED patVars

(* PAT graph: a query for "inf" on two properties, undone after printing.    *)
Graph(x, y) ==
  /\ Issue("graph")
  /\ LET th   == [j \in Props |-> IF j \in {x, y} THEN Inf ELSE NaN]
         hide == NewlyHidden(th)
     IN entry' = [d \in Ids |->
          IF d \in Stored THEN [entry[d] EXCEPT !.flags = Sar(ShiftIn(@, d \in hide))]
          ELSE entry[d]]
  /\ lost' = (lost \/ \E d \in Stored : 2 * entry[d].flags >= FlagTop)
  /\ NoAnswer
  /\ UNCHANGED <<content, numOf, idCounter, op, forced, before, trail>>

-----------------------------------------------------------------------------
(* A process that has ended does nothing more.                               *)
Gone == op = Exited /\ UNCHANGED vars

Next ==
  \/ RefuseSizes \/ ExitOnProperties \/ ExitOnThresholds \/ Gone
  \/ \E raw \in Offers, array \in BOOLEAN : BeginAdd(raw, array)
  \/ Reject \/ DropBeaten \/ Keep \/ Store
  \/ \E raw \in Offers : ForceArray(raw)
  \/ \E k \in -1 .. MaxIds : Delete(k)
  \/ \E f \in UniqueFactors : BeginUnique(f)
  \/ DropTwin \/ KeepPair \/ NextRow \/ EndTrim
  \/ BeginStars \/ KeepStar \/ DropOther
  \/ \E spec \in QuerySpecs : Query(spec)
  \/ Undo \/ Reset
  \/ \E x, y \in Props : Graph(x, y)

Spec == Init /\ [][Next]_vars
=============================================================================
