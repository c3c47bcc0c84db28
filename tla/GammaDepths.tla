---------------------------- MODULE GammaDepths ----------------------------
(***************************************************************************)
(* Which batches keep the stack of the Gamma virtual machine in order: for *)
(* each command, how many cells of its frame it finds.  In a function the  *)
(* number is exact; in the main code it is the least there can be, because *)
(* a condition leaves its truth value behind (.Gamma.tcl:122).             *)
(***************************************************************************)
EXTENDS MachineProperties

CONSTANT Plans  \* for the programs that have one, a plan: from commands to marks

Main == -1      \* the entry of the main code; that of a function is its position

(* How many cells of the stack a command reads.                              *)
Takes(f) ==
  IF f \in {"PopVar", "Pop", "Abs"} THEN 1
  ELSE IF f \in Arithmetic \cup Comparisons \cup Logic \cup {"Reverse"} THEN 2
  ELSE IF f = "Limit" THEN 3 ELSE 0

(* What a command that goes on to the next one adds to the stack.            *)
Adds(f) ==
  IF f \in {"Push", "PushVar", "PushArg"} THEN 1
  ELSE IF f \in {"PopVar", "Pop"} \cup Arithmetic \cup Comparisons \cup Logic THEN -1
  ELSE 0

Mark(depth, entry) == [depth |-> depth, entry |-> entry]

(* With d cells, the code with this mark has what it expects.                *)
Suits(mark, d) == IF mark.entry = Main THEN mark.depth <= d ELSE mark.depth = d

(* From command k one goes to command l, with d cells.                       *)
Leads(plan, k, l, d) ==
  l \in DOMAIN plan /\ plan[l].entry = plan[k].entry /\ Suits(plan[l], d)

(* A call leaves one cell instead of the arguments its function drops.       *)
Enters(p, plan, k, target) ==
  /\ target \in DOMAIN plan /\ plan[target] = Mark(0, target)
  /\ \A r \in DOMAIN plan :
       plan[r].entry = target /\ p.batch[r + 1].is = "Return" =>
         Leads(plan, k, k + 2, plan[k].depth + 1 - p.batch[r + 2].is)

(* What follows command k; after a comparison also what follows the command  *)
(* that it may skip.                                                         *)
GoesOn(p, plan, k) ==
  LET f == p.batch[k + 1].is
      d == plan[k].depth + Adds(f)
  IN  /\ f \notin {"Goto", "Branch", "GoSub", "Return", "Stop"} =>
           Leads(plan, k, k + Length(f), d)
      /\ f \in Comparisons \cup Logic =>
           p.batch[k + 2].is \in Unskippable
             \/ Leads(plan, k, k + 1 + Length(p.batch[k + 2].is), d)
      /\ f = "Goto" => Leads(plan, k, p.batch[k + 2].is, d)
      /\ f = "Branch" => Leads(plan, k, k + p.batch[k + 2].is + 2, d)
      /\ f = "GoSub" => Enters(p, plan, k, p.batch[k + 2].is)
      /\ f = "Return" => plan[k].entry = Main \/ plan[k].depth = 1

Balanced(p, plan) ==
  /\ \A k \in DOMAIN plan :
       /\ k \in 0 .. Len(p.batch) - 1 /\ p.batch[k + 1].cell = "func"
       /\ plan[k].depth \in Nat /\ plan[k].entry \in {Main} \cup Nat
       /\ plan[k].depth >= Takes(p.batch[k + 1].is)
       /\ GoesOn(p, plan, k)
  /\ \A s \in p.starts :
       LET first == IF s > 0 THEN s ELSE 0
       IN  /\ first \in DOMAIN plan /\ plan[first] = Mark(0, Main)
           /\ s <= 0 => \A k \in DOMAIN plan : p.batch[k + 1].is # "Stop"

ASSUME DepthAssumption == \A p \in Programs \cap DOMAIN Plans : Balanced(p, Plans[p])

Planned == prog \in DOMAIN Plans
=============================================================================
