---------------------------- MODULE GammaProofs -----------------------------
(***************************************************************************)
(* Machine-checked proofs about the Gamma virtual machine, for any sizes   *)
(* of its stacks and any batches that keep the stack in order.             *)
(***************************************************************************)
EXTENDS GammaDepths, TLAPS

-----------------------------------------------------------------------------
(* The types.                                                                *)

Cell == [kind : {"F", "I"}, n : Int \cup {NaN}]

(* What the fixed program says of the command under the counter.             *)
LEMMA OperandTypes ==
  ASSUME prog \in Programs, Fetched
  PROVE  /\ pc \in Positions /\ pc \in Int
         /\ Command \in {"PushArg", "GoSub", "Return", "Branch", "Goto"} => Operand \in Int
         /\ Command = "Push" => Operand \in Int \cup {NaN}
         /\ Command \in {"PushVar", "PopVar", "Default"} => Operand \in Vars
         /\ Command = "Default" => Batch(pc + 2).is \in Int \cup {NaN}
<1>1. pc \in 0 .. Len(prog.batch) - 1 /\ pc \in Int
  BY DEF Fetched, Positions
<1>2. OperandsOf(prog, pc)
  BY <1>1, BatchAssumption DEF Fetched, Batch
<1>3. pc + 1 + 1 = pc + 2 /\ pc + 2 + 1 = pc + 3
  BY <1>1
<1> QED
  BY <1>1, <1>2, <1>3 DEF OperandsOf, Command, Operand, Batch, Positions

(* The sizes of the two stacks.                                              *)
LEMMA Sizes == StackSize \in Nat \ {0} /\ GosubSize \in Nat \ {0}
BY MachineAssumption

(* An empty gosub stack ends between two frames.                             *)
LEMMA LastPaired == Paired(GosubSize - 1)
BY Sizes DEF Paired

(* Two cells further is again between two frames; one cell is not.           *)
LEMMA Pairs ==
  \A k \in Int : /\ Paired(k) <=> Paired(k + 2)
                 /\ Paired(k) <=> Paired(k - 2)
                 /\ Paired(k) => ~Paired(k + 1)
BY Sizes DEF Paired

(* A command takes one to three cells of the batch.                          *)
LEMMA Lengths == \A f : Length(f) \in {1, 2, 3}
BY DEF Length

(* After a command the counter is a number.                                  *)
LEMMA NextCounter == ASSUME prog \in Programs, Fetched, Next1 PROVE pc' \in Int
BY OperandTypes, Lengths DEF Next1

(* Cells hold numbers and truth values, and are read as numbers.             *)
LEMMA Numbers ==
  /\ \A n \in Int \cup {NaN} : Num(n) \in Cell
  /\ \A b \in BOOLEAN : Bool(b) \in Cell
  /\ \A c \in Cell : Number(c) \in Int \cup {NaN}
BY DEF Cell, Num, Bool, Number

(* Cells between two frames are an even number of cells apart.               *)
LEMMA Apart ==
  ASSUME NEW i \in Int, NEW j \in Int, Paired(i), Paired(j)
  PROVE  j # i + 1 /\ j # i - 1 /\ j # i + 3
BY Sizes DEF Paired

(* TypeOK in two parts, of which the provers like one at a time.             *)
Types ==
  /\ pc \in Int /\ si \in Int /\ args \in Int
  /\ gosub \in [0 .. GosubSize - 1 -> Int]
  /\ gi \in -1 .. GosubSize - 1 /\ Paired(gi)
  /\ stack \in [Cells -> Cell]
  /\ value \in [Vars -> Int \cup {NaN}]
Flags == running \in BOOLEAN /\ skip \in BOOLEAN /\ undefined \in BOOLEAN

(* The initial states have the types.                                        *)
LEMMA TypeInit == Init => Types /\ Flags /\ prog \in Programs
<1>1. Init => Types
  BY Numbers, LastPaired, MachineAssumption DEF Init, Types, Cells
<1>2. Init => Flags
  BY DEF Init, Flags
<1>3. Init => prog \in Programs
  BY DEF Init
<1> QED BY <1>1, <1>2, <1>3

(* A step leaves the types and the program.                                  *)
LEMMA TypeStep ==
  ASSUME Types, prog \in Programs, [Next]_vars
  PROVE  Types' /\ prog' = prog
<1> USE Sizes
<1>0. ASSUME UNCHANGED vars PROVE Types' /\ prog' = prog
  BY <1>0 DEF vars, Types, Cells
<1>1. ASSUME TclReset PROVE Types' /\ prog' = prog
  BY <1>1, LastPaired DEF TclReset, ResetTo, Types, Cells
<1>2. ASSUME NEW v \in Vars, TclPush(v) PROVE Types' /\ prog' = prog
  <2>1. Num(value[v]) \in Cell
    BY Numbers DEF Types
  <2> QED
    BY <1>2, <2>1 DEF TclPush, Types, Cells
<1>3. ASSUME NEW start \in prog.starts, TclRun(start) PROVE Types' /\ prog' = prog
  <2>1. start \in Int
    BY BatchAssumption
  <2> QED
    BY <1>3, <2>1 DEF TclRun, Types, Cells
<1>4. ASSUME RunAway PROVE Types' /\ prog' = prog
  BY <1>4 DEF RunAway, Types, Cells
<1>5. ASSUME Fetched, Next1, NoCall, Kept, UNCHANGED <<stack, si, value>>
      PROVE  Types' /\ prog' = prog
  BY <1>5, NextCounter DEF NoCall, Kept, Types, Cells
<1>6. ASSUME SkipOver PROVE Types' /\ prog' = prog
  BY <1>5, <1>6 DEF SkipOver
<1>7. ASSUME Pass PROVE Types' /\ prog' = prog
  BY <1>5, <1>7 DEF Pass, Runnable
<1>8. ASSUME NEW c \in Cell, Fetched, Pushing(c) PROVE Types' /\ prog' = prog
  <2>1. stack' \in [Cells -> Cell]
    BY <1>8 DEF Pushing, Types
  <2>2. pc' \in Int
    BY <1>8, NextCounter DEF Pushing
  <2> QED
    BY <1>8, <2>1, <2>2 DEF Pushing, NoCall, Kept, Types, Cells
<1>9. ASSUME Push PROVE Types' /\ prog' = prog
  <2>1. Fetched /\ Num(Operand) \in Cell /\ Pushing(Num(Operand))
    BY <1>9, OperandTypes, Numbers DEF Push, At, Runnable
  <2> QED BY <1>8, <2>1
<1>10. ASSUME PushVar PROVE Types' /\ prog' = prog
  <2>1. Fetched /\ Operand \in Vars /\ Pushing(Num(value[Operand]))
    BY <1>10, OperandTypes DEF PushVar, At, Runnable
  <2>2. Num(value[Operand]) \in Cell
    BY <2>1, Numbers DEF Types
  <2> QED BY <1>8, <2>1, <2>2
<1>11. ASSUME PushArg PROVE Types' /\ prog' = prog
  <2>1. Fetched /\ Command = "PushArg" /\ InBounds /\ Pushing(stack[args + Operand])
    BY <1>11 DEF PushArg, At, Runnable
  <2>2. args + Operand \in Cells
    BY <2>1 DEF InBounds, Touched, Arithmetic, Comparisons, Logic
  <2>3. stack[args + Operand] \in Cell
    BY <2>2 DEF Types
  <2> QED BY <1>8, <2>1, <2>3
<1>12. ASSUME PopVar PROVE Types' /\ prog' = prog
  <2>1. /\ Fetched /\ Command = "PopVar" /\ InBounds /\ Operand \in Vars
        /\ value' = [value EXCEPT ![Operand] = Number(stack[si + 1])]
        /\ si' = si + 1 /\ Next1 /\ NoCall /\ Kept /\ UNCHANGED stack
    BY <1>12, OperandTypes DEF PopVar, At, Runnable
  <2>2. si + 1 \in Cells
    BY <2>1 DEF InBounds, Touched, Arithmetic, Comparisons, Logic
  <2>3. Number(stack[si + 1]) \in Int \cup {NaN}
    BY <2>2, Numbers DEF Types
  <2>4. value' \in [Vars -> Int \cup {NaN}]
    BY <2>1, <2>3 DEF Types
  <2> QED
    BY <2>1, <2>4, NextCounter DEF NoCall, Kept, Types, Cells
<1>13. ASSUME Pop PROVE Types' /\ prog' = prog
  BY <1>13, NextCounter
     DEF Pop, At, Runnable, NoCall, Kept, Types, Cells
<1>14. ASSUME Default PROVE Types' /\ prog' = prog
  <2>1. /\ Fetched /\ Command = "Default" /\ Operand \in Vars
        /\ Batch(pc + 2).is \in Int \cup {NaN}
        /\ value' = IF value[Operand] = NaN
                    THEN [value EXCEPT ![Operand] = Batch(pc + 2).is] ELSE value
        /\ Next1 /\ NoCall /\ Kept /\ UNCHANGED <<stack, si>>
    BY <1>14, OperandTypes DEF Default, At, Runnable
  <2>2. value' \in [Vars -> Int \cup {NaN}]
    BY <2>1 DEF Types
  <2> QED
    BY <2>1, <2>2, NextCounter DEF NoCall, Kept, Types, Cells
<1>15. ASSUME Compute PROVE Types' /\ prog' = prog
  <2>1. /\ Fetched /\ Command \in Arithmetic /\ InBounds
        /\ stack' = [stack EXCEPT ![si + 2] =
             Num(Computed(Command, Number(stack[si + 1]), Number(stack[si + 2])))]
        /\ si' = si + 1 /\ Next1 /\ NoCall /\ Kept /\ UNCHANGED value
    BY <1>15 DEF Compute, Runnable
  <2>2. si + 1 \in Cells /\ si + 2 \in Cells
    BY <2>1 DEF InBounds, Touched, Arithmetic, Comparisons, Logic
  <2>3. Number(stack[si + 1]) \in Int \cup {NaN} /\ Number(stack[si + 2]) \in Int \cup {NaN}
    BY <2>2, Numbers DEF Types
  <2>4. \A a, b \in Int \cup {NaN} : Computed(Command, a, b) \in Int \cup {NaN}
    BY <2>1 DEF Computed, Arithmetic
  <2>5. Num(Computed(Command, Number(stack[si + 1]), Number(stack[si + 2]))) \in Cell
    BY <2>3, <2>4, Numbers
  <2>6. stack' \in [Cells -> Cell]
    BY <2>1, <2>5 DEF Types
  <2> QED
    BY <2>1, <2>6, NextCounter DEF NoCall, Kept, Types, Cells
<1>16. ASSUME NEW b \in BOOLEAN, Fetched, Judge(b) PROVE Types' /\ prog' = prog
  <2>1. Bool(b) \in Cell
    BY Numbers
  <2>2. stack' \in [Cells -> Cell]
    BY <1>16, <2>1 DEF Judge, Types
  <2>3. pc' \in Int
    BY <1>16, OperandTypes DEF Judge
  <2> QED BY <1>16, <2>2, <2>3 DEF Judge, NoCall, Kept, Types, Cells
<1>17. ASSUME Compare PROVE Types' /\ prog' = prog
  <2>1. Holds(Command, Key(stack[si + 1]), Key(stack[si + 2])) \in BOOLEAN
    BY <1>17 DEF Compare, Comparisons, Holds, Less, Equal
  <2> QED BY <1>16, <1>17, <2>1 DEF Compare, Runnable
<1>18. ASSUME Combine PROVE Types' /\ prog' = prog
  BY <1>16, <1>18 DEF Combine, Runnable, True
<1>19. ASSUME Adjust PROVE Types' /\ prog' = prog
  <2>1. /\ Fetched /\ Command \in InPlace /\ InBounds
        /\ Next1 /\ NoCall /\ Kept /\ UNCHANGED <<si, value>>
    BY <1>19 DEF Adjust, Runnable
  <2>2. si + 1 \in Cells
    BY <2>1 DEF InBounds, Touched, Arithmetic, Comparisons, Logic, InPlace
  <2>3. stack[si + 1] \in Cell /\ Number(stack[si + 1]) \in Int \cup {NaN}
    BY <2>2, Numbers DEF Types
  <2>4. stack' \in [Cells -> Cell]
    <3>1. CASE Command = "Abs"
      <4>1. stack' = [stack EXCEPT ![si + 1] =
              IF Less(Number(stack[si + 1]), 0)
              THEN Num(-Number(stack[si + 1])) ELSE stack[si + 1]]
        BY <1>19, <3>1 DEF Adjust
      <4>2. Less(Number(stack[si + 1]), 0) => -Number(stack[si + 1]) \in Int
        BY <2>3 DEF Less
      <4> QED BY <2>3, <4>1, <4>2, Numbers DEF Types
    <3>2. CASE Command = "Limit"
      <4>1. stack' = [stack EXCEPT ![si + 1] =
              Limited(stack[si + 1], stack[si + 2], stack[si + 3])]
        BY <1>19, <3>2 DEF Adjust
      <4>2. si + 2 \in Cells /\ si + 3 \in Cells
        BY <2>1, <3>2 DEF InBounds, Touched, Arithmetic, Comparisons, Logic
      <4>3. stack[si + 2] \in Cell /\ stack[si + 3] \in Cell
        BY <4>2 DEF Types
      <4>4. Limited(stack[si + 1], stack[si + 2], stack[si + 3]) \in Cell
        BY <2>3, <4>3 DEF Limited
      <4> QED BY <4>1, <4>4 DEF Types
    <3>3. CASE Command = "Reverse"
      <4>1. stack' = [stack EXCEPT ![si + 1] = Num(Number(stack[si + 2])),
                                   ![si + 2] = stack[si + 1]]
        BY <1>19, <3>3 DEF Adjust
      <4>2. si + 2 \in Cells
        BY <2>1, <3>3 DEF InBounds, Touched, Arithmetic, Comparisons, Logic
      <4>3. Num(Number(stack[si + 2])) \in Cell
        BY <4>2, Numbers DEF Types
      <4> QED BY <2>3, <4>1, <4>3 DEF Types
    <3> QED BY <2>1, <3>1, <3>2, <3>3 DEF InPlace
  <2> QED
    BY <2>1, <2>4, NextCounter DEF NoCall, Kept, Types, Cells
<1>20. ASSUME GoSub PROVE Types' /\ prog' = prog
  <2>1. Fetched /\ Command = "GoSub" /\ gi >= 1 /\ Operand \in Int /\ pc \in Int
    BY <1>20, OperandTypes DEF GoSub, At, Runnable, InBounds
  <2>2. gi - 2 \in -1 .. GosubSize - 1 /\ Paired(gi - 2)
    BY <2>1, Pairs DEF Types
  <2> QED
    BY <1>20, <2>1, <2>2 DEF GoSub, Kept, Types, Cells
<1>21. ASSUME Return PROVE Types' /\ prog' = prog
  <2>1. Fetched /\ Command = "Return" /\ InBounds /\ Operand \in Int
    BY <1>21, OperandTypes DEF Return, Leave, At, Runnable
  <2>2. CASE gi + 1 >= GosubSize
    <3>1. ResetTo(0) /\ UNCHANGED <<stack, gosub, value>> /\ Kept
      BY <1>21, <2>2 DEF Return, Leave
    <3> QED BY <3>1, LastPaired DEF ResetTo, Kept, Types, Cells
  <2>3. CASE ~(gi + 1 >= GosubSize)
    <3>1. /\ args' = gosub[gi + 1]
          /\ pc' = gosub[gi + 2] + 2
          /\ gi' = gi + 2
          /\ stack' = [stack EXCEPT ![si + Operand + 1] = stack[si + 1]]
          /\ si' = si + Operand
          /\ skip' = FALSE
          /\ UNCHANGED <<running, gosub, value>> /\ Kept
      BY <1>21, <2>3 DEF Return, Leave
    <3>2. gi + 2 \in 0 .. GosubSize - 1 /\ gi + 1 \in 0 .. GosubSize - 1
          /\ Paired(gi + 2)
      <4>1. gi # GosubSize - 2
        BY LastPaired, Pairs DEF Types
      <4>2. gi \in -1 .. GosubSize - 1 /\ gi \in Int /\ Paired(gi)
        BY DEF Types
      <4> QED BY <2>3, <4>1, <4>2, Pairs
    <3>3. si + 1 \in Cells
      <4>1. Touched = {si + 1, si + 1 + Operand}
        BY <2>1, <2>3 DEF Touched, Arithmetic, Comparisons, Logic, Types
      <4> QED BY <2>1, <4>1 DEF InBounds
    <3>4. stack' \in [Cells -> Cell]
      BY <3>1, <3>3 DEF Types
    <3> QED BY <2>1, <3>1, <3>2, <3>4 DEF Kept, Types, Cells
  <2> QED BY <2>2, <2>3
<1>22. ASSUME Branch \/ Goto PROVE Types' /\ prog' = prog
  BY <1>22, OperandTypes DEF Branch, Goto, At, Runnable, NoCall, Kept, Types, Cells
<1>23. ASSUME Stop PROVE Types' /\ prog' = prog
  BY <1>23, LastPaired DEF Stop, ResetTo, Kept, Types, Cells
<1> QED
  BY <1>0, <1>1, <1>2, <1>3, <1>4, <1>6, <1>7, <1>9, <1>10, <1>11, <1>12, <1>13, <1>14,
     <1>15, <1>17, <1>18, <1>19, <1>20, <1>21, <1>22, <1>23 DEF Next, Step

(* Every step leaves the flags Boolean.                                      *)
LEMMA FlagStep == ASSUME Flags, [Next]_vars PROVE Flags'
<1>1. ASSUME UNCHANGED vars PROVE Flags'
  BY <1>1 DEF vars, Flags
<1>2. ASSUME TclReset PROVE Flags'
  BY <1>2 DEF TclReset, ResetTo, Flags
<1>3. ASSUME NEW v \in Vars, TclPush(v) PROVE Flags'
  BY <1>3 DEF TclPush, Flags
<1>4. ASSUME NEW start \in prog.starts, TclRun(start) PROVE Flags'
  BY <1>4 DEF TclRun, Flags
<1>5. ASSUME RunAway PROVE Flags'
  BY <1>5 DEF RunAway, Flags
<1>6. ASSUME Next1, NoCall, Kept PROVE Flags'
  BY <1>6 DEF Next1, NoCall, Kept, Flags
<1>7. ASSUME SkipOver \/ Push \/ PushVar \/ PushArg \/ PopVar \/ Pop PROVE Flags'
  BY <1>6, <1>7 DEF SkipOver, Push, PushVar, PushArg, Pushing, PopVar, Pop
<1>8. ASSUME Default \/ Compute \/ Adjust \/ Pass PROVE Flags'
  BY <1>6, <1>8 DEF Default, Compute, Adjust, Pass
<1>9. ASSUME NEW b \in BOOLEAN, Judge(b) PROVE Flags'
  BY <1>9 DEF Judge, NoCall, Kept, Flags
<1>10. ASSUME Compare PROVE Flags'
  <2>1. Holds(Command, Key(stack[si + 1]), Key(stack[si + 2])) \in BOOLEAN
    BY <1>10 DEF Compare, Comparisons, Holds, Less, Equal
  <2> QED BY <1>9, <1>10, <2>1 DEF Compare
<1>11. ASSUME Combine PROVE Flags'
  BY <1>9, <1>11 DEF Combine, True
<1>12. ASSUME GoSub \/ Branch \/ Goto PROVE Flags'
  BY <1>12 DEF GoSub, Branch, Goto, NoCall, Kept, Flags
<1>13. ASSUME Return PROVE Flags'
  BY <1>13 DEF Return, Leave, ResetTo, Kept, Flags
<1>14. ASSUME Stop PROVE Flags'
  BY <1>14 DEF Stop, ResetTo, Kept, Flags
<1> QED
  BY <1>1, <1>2, <1>3, <1>4, <1>5, <1>7, <1>8, <1>10, <1>11, <1>12, <1>13, <1>14 DEF Next, Step

-----------------------------------------------------------------------------
(* The machine at rest.                                                      *)

(* The machine starts ready.                                                 *)
LEMMA IdleInit == Init => IdleIsReady
BY DEF Init, IdleIsReady

(* Every step that ends a run leaves the machine ready.                      *)
LEMMA IdleStep == ASSUME IdleIsReady, [Next]_vars PROVE IdleIsReady'
<1>1. ASSUME UNCHANGED vars PROVE IdleIsReady'
  BY <1>1 DEF vars, IdleIsReady
<1>2. ASSUME TclReset PROVE IdleIsReady'
  BY <1>2 DEF TclReset, ResetTo, IdleIsReady
<1>3. ASSUME NEW v \in Vars, TclPush(v) PROVE IdleIsReady'
  BY <1>3 DEF TclPush, IdleIsReady
<1>4. ASSUME NEW start \in prog.starts, TclRun(start) PROVE IdleIsReady'
  BY <1>4 DEF TclRun, IdleIsReady
<1>5. ASSUME running, NoCall PROVE IdleIsReady'
  BY <1>5 DEF NoCall, IdleIsReady
<1>6. ASSUME RunAway PROVE IdleIsReady'
  BY <1>6 DEF RunAway, IdleIsReady
<1>7. ASSUME SkipOver \/ Push \/ PushVar \/ PushArg \/ PopVar \/ Pop PROVE IdleIsReady'
  BY <1>5, <1>7 DEF SkipOver, Push, PushVar, PushArg, Pushing, PopVar, Pop, At, Runnable, Fetched
<1>8. ASSUME Default \/ Compute \/ Adjust \/ Pass \/ Branch \/ Goto PROVE IdleIsReady'
  BY <1>5, <1>8 DEF Default, Compute, Adjust, Pass, Branch, Goto, At, Runnable, Fetched
<1>9. ASSUME Compare \/ Combine PROVE IdleIsReady'
  BY <1>5, <1>9 DEF Compare, Combine, Judge, Runnable, Fetched
<1>10. ASSUME GoSub PROVE IdleIsReady'
  BY <1>10 DEF GoSub, At, Runnable, Fetched, IdleIsReady
<1>11. ASSUME Return PROVE IdleIsReady'
  BY <1>11 DEF Return, Leave, ResetTo, At, Runnable, Fetched, IdleIsReady
<1>12. ASSUME Stop PROVE IdleIsReady'
  BY <1>12 DEF Stop, ResetTo, IdleIsReady
<1> QED
  BY <1>1, <1>2, <1>3, <1>4, <1>6, <1>7, <1>8, <1>9, <1>10, <1>11, <1>12 DEF Next, Step

(* The types of virtual_machine.h hold for any batch whose operands have the *)
(* types of their commands.                                                  *)
THEOREM TypeCorrect == Spec => []TypeOK
<1>1. Init => Types /\ Flags /\ prog \in Programs
  BY TypeInit
<1>2. Types /\ Flags /\ prog \in Programs /\ [Next]_vars
        => (Types /\ Flags /\ prog \in Programs)'
  BY TypeStep, FlagStep
<1>3. Types /\ Flags => TypeOK
  BY DEF Types, Flags, TypeOK, Cell
<1> QED
  BY <1>1, <1>2, <1>3, PTL DEF Spec

(* However a run ends, by Stop in the middle of calls or by the last Return, *)
(* the machine is ready for the next one (GammaVirtualMachineReset).         *)
THEOREM ReadyAgain == Spec => []IdleIsReady
BY IdleInit, IdleStep, PTL DEF Spec

-----------------------------------------------------------------------------
(* The frames of the gosub stack.  Level gi is the code that runs, a greater *)
(* level code that waits for a call to return.                               *)

Plan == Plans[prog]
Levels == {j \in gi .. GosubSize - 1 : Paired(j)}
Here(j) == IF j = gi THEN pc ELSE gosub[j]
Base(j) == IF j = gi THEN args ELSE gosub[j - 1]
Top(j) == IF j = gi THEN si ELSE Base(j - 2)

(* The code of level j has the cells that its plan expects, is the function  *)
(* that the next level called, and has called one itself, unless it runs.    *)
Level(j) ==
  /\ Here(j) \in DOMAIN Plan
  /\ Suits(Plan[Here(j)], Base(j) - Top(j))
  /\ j # gi => Batch(Here(j)).is = "GoSub"
  /\ Plan[Here(j)].entry = IF j = GosubSize - 1 THEN Main ELSE Batch(Here(j + 2) + 1).is

(* A pending skip leads to a planned command, too.                           *)
SkipsWell ==
  skip => Command \in Unskippable \/ Leads(Plan, pc, pc + Length(Command), args - si)

InOrder == (\A j \in Levels : Level(j)) /\ SkipsWell

(* Between runs only pushed numbers are there, and the counter is 0, or 1    *)
(* after Stop.                                                               *)
AtRest ==
  /\ si <= args
  /\ pc = 0 \/ (pc = 1 /\ \E k \in DOMAIN Plan : Batch(k).is = "Stop")

StackInv == Planned => IF running THEN InOrder ELSE AtRest
Typed == Types /\ prog \in Programs
IInv == Typed /\ Flags /\ IdleIsReady /\ StackInv

(* What a plan says of one of its commands.                                  *)
LEMMA PlanOfCommand ==
  ASSUME prog \in Programs, Planned, NEW k \in DOMAIN Plan
  PROVE  /\ k \in Nat /\ k \in Positions /\ Batch(k).cell = "func"
         /\ Plan[k].depth \in Nat /\ Plan[k].entry \in {Main} \cup Nat
         /\ Plan[k].depth >= Takes(Batch(k).is)
         /\ GoesOn(prog, Plan, k)
<1>1. Balanced(prog, Plan)
  BY DepthAssumption DEF Plan, Planned
<1>2. /\ k \in 0 .. Len(prog.batch) - 1 /\ prog.batch[k + 1].cell = "func"
      /\ Plan[k].depth \in Nat /\ Plan[k].entry \in {Main} \cup Nat
      /\ Plan[k].depth >= Takes(prog.batch[k + 1].is)
      /\ GoesOn(prog, Plan, k)
  BY <1>1 DEF Balanced
<1> QED BY <1>2 DEF Positions, Batch

(* What a plan says of a starting position.                                  *)
LEMMA PlanOfStart ==
  ASSUME prog \in Programs, Planned, NEW s \in prog.starts
  PROVE  LET first == IF s > 0 THEN s ELSE 0
         IN  /\ first \in DOMAIN Plan /\ Plan[first] = Mark(0, Main)
             /\ s <= 0 => \A k \in DOMAIN Plan : Batch(k).is # "Stop"
BY DepthAssumption DEF Plan, Planned, Balanced, Batch

(* What holds of the level that runs.                                        *)
LEMMA Running ==
  ASSUME Typed, Planned, InOrder
  PROVE  /\ gi \in Levels /\ pc \in DOMAIN Plan
         /\ Suits(Plan[pc], args - si)
         /\ args - si \in Int /\ Plan[pc].depth \in Nat /\ args - si >= Plan[pc].depth
         /\ GoesOn(prog, Plan, pc)
<1>1. gi \in Levels /\ Here(gi) = pc /\ Base(gi) = args /\ Top(gi) = si
  BY DEF Typed, Types, Levels, Here, Base, Top
<1>2. pc \in DOMAIN Plan /\ Suits(Plan[pc], args - si)
  BY <1>1 DEF InOrder, Level
<1>3. Plan[pc].depth \in Nat /\ GoesOn(prog, Plan, pc)
  BY <1>2, PlanOfCommand DEF Typed
<1>4. args - si \in Int
  BY DEF Typed, Types
<1> QED BY <1>1, <1>2, <1>3, <1>4 DEF Suits

(* Who has more cells than needed has as many more after the next command.   *)
LEMMA Carries ==
  ASSUME Typed, Planned, NEW k \in DOMAIN Plan, NEW l, NEW a \in Int, NEW d \in Int,
         Leads(Plan, k, l, Plan[k].depth + a), Suits(Plan[k], d)
  PROVE  Leads(Plan, k, l, d + a)
<1>1. Plan[k].depth \in Nat /\ l \in DOMAIN Plan /\ Plan[l].entry = Plan[k].entry
      /\ Suits(Plan[l], Plan[k].depth + a)
  BY PlanOfCommand DEF Typed, Leads
<1>2. Plan[l].depth \in Nat
  BY <1>1, PlanOfCommand DEF Typed
<1> QED BY <1>1, <1>2 DEF Leads, Suits

(* The levels survive a step in the code that runs.                          *)
LEMMA SameLevels ==
  ASSUME Typed, Planned, InOrder, NoCall, prog' = prog,
         Leads(Plan, pc, pc', args - si')
  PROVE  (\A j \in Levels : Level(j))'
<1>1. Levels' = Levels /\ Plan' = Plan /\ gi' = gi /\ gosub' = gosub /\ args' = args
  BY DEF NoCall, Levels, Plan
<1>2. SUFFICES ASSUME NEW j \in Levels PROVE Level(j)'
  BY <1>1
<1>3. j \in Int /\ gi \in Int /\ j >= gi /\ (j + 2 = gi <=> FALSE)
  BY DEF Typed, Types, Levels
<1>4. Level(j) /\ (\A k : Batch(k)' = Batch(k))
  BY DEF InOrder, Batch
<1>5. Here(j + 2)' = Here(j + 2) /\ Base(j)' = Base(j) /\ Base(j - 2)' = Base(j - 2)
  BY <1>1, <1>3 DEF Here, Base
<1>6. CASE j = gi
  <2>1. Here(j)' = pc' /\ Top(j)' = si' /\ Base(j)' = args /\ Here(j) = pc
    BY <1>1, <1>6 DEF Here, Base, Top
  <2> QED BY <1>1, <1>4, <1>5, <1>6, <2>1 DEF Level, Leads
<1>7. CASE j # gi
  <2>1. Here(j)' = Here(j) /\ Top(j)' = Top(j)
    BY <1>1, <1>5, <1>7 DEF Here, Top
  <2> QED BY <1>1, <1>4, <1>5, <1>7, <2>1 DEF Level
<1> QED BY <1>6, <1>7

Jumps == {"Goto", "Branch", "GoSub", "Return", "Stop"}

(* A command that goes on to the next one.                                   *)
LEMMA NextKeepsOrder ==
  ASSUME Typed, Planned, InOrder, Fetched, Next1, NoCall, prog' = prog,
         Command \notin Jumps, si' = si - Adds(Command)
  PROVE  InOrder'
<1>1. Adds(Command) \in Int /\ si \in Int /\ args \in Int
  BY DEF Adds, Typed, Types
<1>2. Leads(Plan, pc, pc + Length(Command), Plan[pc].depth + Adds(Command))
  BY Running DEF GoesOn, Jumps, Command, Batch
<1>3. Leads(Plan, pc, pc', args - si')
  <2>1. Leads(Plan, pc, pc + Length(Command), (args - si) + Adds(Command))
    BY <1>1, <1>2, Running, Carries
  <2>2. (args - si) + Adds(Command) = args - si'
    BY <1>1
  <2> QED BY <2>1, <2>2 DEF Next1
<1>4. ~skip'
  BY DEF Next1
<1> QED BY <1>3, <1>4, SameLevels DEF InOrder, SkipsWell

(* A skipped command.                                                        *)
LEMMA SkipKeepsOrder ==
  ASSUME Typed, Planned, InOrder, SkipOver PROVE InOrder'
<1>1. Leads(Plan, pc, pc', args - si') /\ NoCall /\ prog' = prog /\ ~skip'
  BY DEF InOrder, SkipsWell, SkipOver, Next1, Kept
<1> QED BY <1>1, SameLevels DEF InOrder, SkipsWell

(* A jump.                                                                   *)
LEMMA JumpKeepsOrder ==
  ASSUME Typed, Planned, InOrder, Goto \/ Branch PROVE InOrder'
<1>1. /\ Command \in {"Goto", "Branch"} /\ NoCall /\ prog' = prog /\ ~skip' /\ si' = si
      /\ pc' = IF Command = "Goto" THEN Operand ELSE pc + Operand + 2
  BY DEF Goto, Branch, At, Kept
<1>2. pc \in Nat /\ pc + 2 = pc + 1 + 1
  BY Running, PlanOfCommand DEF Typed
<1>3. Leads(Plan, pc, pc', Plan[pc].depth + Adds(Command))
  BY <1>1, <1>2, Running DEF GoesOn, Command, Operand, Batch
<1>4. Adds(Command) = 0
  BY <1>1 DEF Adds, Arithmetic, Comparisons, Logic
<1>5. Leads(Plan, pc, pc', (args - si) + 0)
  BY <1>3, <1>4, Running, Carries
<1>6. (args - si) + 0 = args - si'
  BY <1>1, Running
<1> QED BY <1>1, <1>5, <1>6, SameLevels DEF InOrder, SkipsWell

(* A comparison goes on to the next command or past it.                      *)
LEMMA JudgeKeepsOrder ==
  ASSUME Typed, Planned, InOrder, Fetched, Command \in Comparisons \cup Logic,
         NEW b \in BOOLEAN, Judge(b)
  PROVE  InOrder'
<1>1. NoCall /\ prog' = prog /\ pc' = pc + 1 /\ si' = si + 1
  BY DEF Judge, Kept
<1>2. Adds(Command) = -1 /\ Length(Command) = 1
  BY DEF Adds, Length, Arithmetic, Comparisons, Logic
<1>3. pc \in Nat /\ pc + 2 = pc + 1 + 1 /\ pc \in DOMAIN Plan /\ Suits(Plan[pc], args - si)
  BY Running, PlanOfCommand DEF Typed
<1>4. si \in Int /\ args \in Int /\ (args - si) + (-1) = args - si' /\ args - si \in Int
  BY <1>1 DEF Typed, Types
<1>5. ASSUME NEW l, Leads(Plan, pc, l, Plan[pc].depth + (-1))
      PROVE  Leads(Plan, pc, l, args - si')
  <2>1. Leads(Plan, pc, l, (args - si) + (-1))
    BY <1>3, <1>4, <1>5, Carries
  <2> QED BY <1>4, <2>1
<1>6. Leads(Plan, pc, pc', args - si')
  <2>1. Leads(Plan, pc, pc + 1, Plan[pc].depth + (-1))
    BY <1>2, Running DEF GoesOn, Command, Batch, Comparisons, Logic
  <2> QED BY <1>1, <1>5, <2>1
<1>7. \/ Command' \in Unskippable
      \/ Leads(Plan, pc, pc' + Length(Command'), args - si')
  <2>1. Command' = prog.batch[pc + 2].is
    BY <1>1, <1>3 DEF Command, Batch
  <2>2. \/ Command' \in Unskippable
        \/ Leads(Plan, pc, pc + 1 + Length(Command'), Plan[pc].depth + (-1))
    BY <1>2, <2>1, Running DEF GoesOn, Command, Batch
  <2> QED BY <1>1, <1>5, <2>2
<1>8. (\A j \in Levels : Level(j))'
  BY <1>1, <1>6, SameLevels
<1>9. Plan' = Plan /\ args' = args /\ Plan[pc'].entry = Plan[pc].entry
  BY <1>1, <1>6 DEF Plan, NoCall, Leads
<1>10. SkipsWell'
  BY <1>7, <1>9 DEF SkipsWell, Leads, Unskippable
<1> QED BY <1>8, <1>10 DEF InOrder

(* A call opens a level with no cells yet.                                   *)
LEMMA CallKeepsOrder ==
  ASSUME Typed, Planned, InOrder, GoSub PROVE InOrder'
<1>1. /\ Fetched /\ Command = "GoSub" /\ prog' = prog /\ ~skip' /\ gi' = gi - 2 /\ gi >= 1
      /\ pc' = Operand /\ args' = si /\ si' = si
      /\ gosub' = [gosub EXCEPT ![gi] = pc, ![gi - 1] = args]
  BY DEF GoSub, At, Runnable, InBounds, Kept
<1>2. /\ gi \in 1 .. GosubSize - 1 /\ Paired(gi) /\ gosub \in [0 .. GosubSize - 1 -> Int]
      /\ si \in Int /\ args \in Int /\ pc \in Int
  BY <1>1 DEF Typed, Types
<1>3. /\ gosub'[gi] = pc /\ gosub'[gi - 1] = args
      /\ \A k \in 0 .. GosubSize - 1 : k # gi /\ k # gi - 1 => gosub'[k] = gosub[k]
  <2>1. gi \in 0 .. GosubSize - 1 /\ gi - 1 \in 0 .. GosubSize - 1 /\ gi # gi - 1
    BY <1>2, Sizes
  <2> QED BY <1>1, <1>2, <2>1
<1>4. pc \in DOMAIN Plan /\ pc + 2 = pc + 1 + 1 /\ Operand \in DOMAIN Plan
      /\ Plan[Operand] = Mark(0, Operand)
  <2>1. pc \in Nat /\ pc + 2 = pc + 1 + 1
    BY Running, PlanOfCommand DEF Typed
  <2>2. Enters(prog, Plan, pc, Operand)
    BY <1>1, <2>1, Running DEF GoesOn, Command, Operand, Batch
  <2> QED BY <2>1, <2>2, Running DEF Enters
<1>5. Plan' = Plan /\ \A k : Batch(k)' = Batch(k)
  BY <1>1 DEF Plan, Batch
<1>6. ASSUME NEW j \in Levels' PROVE Level(j)'
  <2>1. j \in gi - 2 .. GosubSize - 1 /\ Paired(j) /\ j # gi - 1 /\ j # gi + 1
    <3>1. j \in gi - 2 .. GosubSize - 1 /\ Paired(j)
      BY <1>1, <1>6 DEF Levels
    <3>2. j \in Int /\ gi \in Int
      BY <1>2, <3>1
    <3> QED BY <1>2, <3>1, <3>2, Apart
  <2>2. CASE j = gi - 2
    <3>1. Here(j)' = Operand /\ Base(j)' = si /\ Top(j)' = si
      BY <1>1, <2>2 DEF Here, Base, Top
    <3>2. j # GosubSize - 1 /\ Here(j + 2)' = pc /\ j = gi'
      BY <1>1, <1>2, <1>3, <2>2 DEF Here
    <3>3. Suits(Mark(0, Operand), si - si)
      BY <1>2 DEF Suits, Mark
    <3>4. Batch(pc + 1).is = Operand
      BY DEF Operand
    <3> QED BY <1>4, <1>5, <3>1, <3>2, <3>3, <3>4 DEF Level, Mark
  <2>3. CASE j >= gi
    <3>1. j \in Levels /\ Level(j)
      BY <2>1, <2>3, <1>2 DEF Levels, InOrder
    <3>2. Here(j)' = Here(j)
      BY <1>1, <1>2, <1>3, <2>1, <2>3 DEF Here
    <3>3. Base(j)' = Base(j)
      <4>1. j \in Int /\ gi \in Int /\ j # gi + 1 /\ j <= GosubSize - 1 /\ gi >= 1
        BY <1>2, <2>1
      <4>2. j - 1 # gi /\ j - 1 \in 0 .. GosubSize - 1 /\ (j # gi => j - 1 # gi - 1) /\ j # gi - 2
        BY <2>3, <4>1, Sizes
      <4>3. j # gi'
        BY <1>1, <4>2
      <4> QED BY <1>3, <4>2, <4>3 DEF Base
    <3>4. Top(j)' = Top(j)
      <4>1. CASE j = gi
        BY <1>1, <1>2, <4>1 DEF Top, Base
      <4>2. CASE j > gi
        <5>1. /\ j - 2 >= gi /\ j # gi /\ j # gi - 2 /\ j - 2 # gi - 2
              /\ j - 3 # gi /\ j - 3 \in 0 .. GosubSize - 1
              /\ j - 3 = gi - 1 <=> j - 2 = gi
              /\ j - 2 - 1 = j - 3
          <6>1. j \in Int /\ gi \in Int /\ j # gi + 1 /\ j # gi + 3
            BY <1>2, <2>1, Apart
          <6>2. j <= GosubSize - 1 /\ gi >= 1
            BY <1>2, <2>1
          <6> QED BY <4>2, <6>1, <6>2, Sizes
        <5>2. Base(j - 2)' = Base(j - 2)
          BY <1>1, <1>3, <5>1 DEF Base
        <5> QED BY <1>1, <5>1, <5>2 DEF Top
      <4> QED BY <1>2, <2>1, <2>3, <4>1, <4>2
    <3>5. Here(j + 2)' = Here(j + 2) \/ j = GosubSize - 1
      <4>1. j = GosubSize - 1 \/ j + 2 \in 0 .. GosubSize - 1
        <5>1. j \in Int /\ GosubSize - 1 \in Int /\ j # (GosubSize - 1) - 1
          BY <2>1, LastPaired, Sizes, Apart
        <5> QED BY <1>2, <2>1, <2>3, <5>1
      <4>2. j + 2 # gi /\ j + 2 # gi - 1 /\ j + 2 # gi'
        BY <1>1, <1>2, <2>1, <2>3
      <4> QED BY <1>3, <4>1, <4>2 DEF Here
    <3>6. j # gi' /\ Batch(Here(j)).is = "GoSub"
      BY <1>1, <1>2, <2>3, <3>1 DEF Level, Here, Command
    <3> QED BY <1>5, <3>1, <3>2, <3>3, <3>4, <3>5, <3>6 DEF Level
  <2> QED BY <1>2, <2>1, <2>2, <2>3
<1> QED BY <1>1, <1>6 DEF InOrder, SkipsWell

(* A function that returns gives its caller one cell for its arguments.      *)
LEMMA ReturnKeepsOrder ==
  ASSUME Typed, Planned, InOrder, Return, InCall PROVE InOrder'
<1>1. /\ Fetched /\ Command = "Return" /\ prog' = prog /\ ~skip' /\ gi + 1 < GosubSize
      /\ gi' = gi + 2 /\ pc' = gosub[gi + 2] + 2 /\ args' = gosub[gi + 1]
      /\ si' = si + Operand /\ gosub' = gosub
  <2>1. gi + 1 < GosubSize /\ ~(gi + 1 >= GosubSize)
    BY Sizes DEF InCall, Typed, Types
  <2> QED BY <2>1 DEF Return, Leave, At, Runnable, Kept
<1>2. /\ gi \in -1 .. GosubSize - 3 /\ Paired(gi) /\ Paired(gi + 2)
      /\ gosub \in [0 .. GosubSize - 1 -> Int]
      /\ si \in Int /\ args \in Int /\ pc \in Int
  <2>1. gi \in -1 .. GosubSize - 1 /\ Paired(gi) /\ si \in Int /\ args \in Int /\ pc \in Int
        /\ gosub \in [0 .. GosubSize - 1 -> Int]
    BY DEF Typed, Types
  <2>2. gi \in Int /\ GosubSize - 1 \in Int /\ gi # (GosubSize - 1) - 1
    BY <2>1, LastPaired, Sizes, Apart
  <2>3. Paired(gi + 2)
    BY <2>1, <2>2, Pairs
  <2> QED BY <1>1, <2>1, <2>2, <2>3, Sizes
<1> DEFINE call == gosub[gi + 2]
<1>3. /\ gi + 2 \in Levels /\ gi \in Levels
      /\ Here(gi + 2) = call /\ Base(gi + 2) = args' /\ Top(gi + 2) = args
  <2>1. gi + 2 \in gi .. GosubSize - 1 /\ gi \in gi .. GosubSize - 1
        /\ gi + 2 # gi /\ gi + 2 - 1 = gi + 1 /\ gi + 2 - 2 = gi
    BY <1>2, Sizes
  <2> QED BY <1>1, <1>2, <2>1 DEF Levels, Here, Base, Top
<1>4. /\ call \in DOMAIN Plan /\ Suits(Plan[call], args' - args)
      /\ Batch(call).is = "GoSub" /\ Plan[pc].entry = Batch(call + 1).is
  <2>1. Level(gi + 2) /\ Level(gi) /\ Here(gi) = pc /\ gi + 2 # gi /\ gi # GosubSize - 1
    BY <1>2, <1>3, Sizes DEF InOrder, Here
  <2> QED BY <1>3, <2>1 DEF Level
<1>5. /\ call \in Nat /\ pc \in Nat /\ call + 2 = call + 1 + 1 /\ pc + 2 = pc + 1 + 1
      /\ pc \in DOMAIN Plan /\ Plan[call].depth \in Nat
  BY <1>4, Running, PlanOfCommand DEF Typed
<1>6. Enters(prog, Plan, call, Batch(call + 1).is)
  BY <1>4, <1>5, PlanOfCommand DEF GoesOn, Batch, Typed
<1>7. Plan[pc].entry # Main
  <2>1. Batch(call + 1).is \in DOMAIN Plan
    BY <1>6 DEF Enters
  <2>2. Batch(call + 1).is \in Nat
    BY <2>1, PlanOfCommand DEF Typed
  <2> QED BY <1>4, <2>2 DEF Main
<1>8. args - si = 1
  <2>1. Plan[pc].depth = 1
    BY <1>1, <1>7, Running DEF GoesOn, Command, Batch
  <2> QED BY <1>7, <2>1, Running DEF Suits
<1>9. Operand \in Int
  BY <1>1, OperandTypes DEF Typed
<1>10. Leads(Plan, call, pc', args' - si')
  <2>1. Leads(Plan, call, call + 2, Plan[call].depth + 1 - Operand)
    BY <1>1, <1>4, <1>5, <1>6 DEF Enters, Command, Operand, Batch
  <2>2. args' \in Int
    <3>1. gi + 1 \in 0 .. GosubSize - 1
      BY <1>2, Sizes
    <3> QED BY <1>1, <1>2, <3>1
  <2>3. Plan[call].depth + 1 - Operand = Plan[call].depth + (1 - Operand)
    BY <1>5, <1>9
  <2>4. Leads(Plan, call, call + 2, (args' - args) + (1 - Operand))
    <3>1. args' - args \in Int /\ 1 - Operand \in Int
      BY <1>2, <1>9, <2>2
    <3>2. Leads(Plan, call, call + 2, Plan[call].depth + (1 - Operand))
      BY <2>1, <2>3
    <3> QED BY <1>4, <3>1, <3>2, Carries
  <2>5. (args' - args) + (1 - Operand) = args' - si'
    <3>1. si' = si + Operand /\ si \in Int /\ args \in Int
      BY <1>1, <1>2
    <3> QED BY <1>8, <1>9, <2>2, <3>1
  <2> QED BY <1>1, <2>4, <2>5
<1>11. Plan' = Plan /\ \A k : Batch(k)' = Batch(k)
  BY <1>1 DEF Plan, Batch
<1>12. ASSUME NEW j \in Levels' PROVE Level(j)'
  <2>1. j \in gi + 2 .. GosubSize - 1 /\ Paired(j) /\ j # gi + 3
    <3>1. j \in gi + 2 .. GosubSize - 1 /\ Paired(j)
      BY <1>1, <1>12 DEF Levels
    <3>2. j \in Int /\ gi \in Int
      BY <1>2, <3>1
    <3> QED BY <1>2, <3>1, <3>2, Apart
  <2>2. j \in Levels /\ Level(j)
    BY <1>2, <2>1 DEF Levels, InOrder
  <2>3. Here(j + 2)' = Here(j + 2)
    BY <1>1, <1>2, <2>1 DEF Here
  <2>4. CASE j = gi + 2
    <3>1. Here(j)' = pc' /\ Base(j)' = args' /\ Top(j)' = si' /\ Here(j) = call /\ j = gi'
      BY <1>1, <1>3, <2>4 DEF Here, Base, Top
    <3> QED BY <1>10, <1>11, <2>2, <2>3, <3>1 DEF Level, Leads
  <2>5. CASE j > gi + 2
    <3>1. Here(j)' = Here(j) /\ Base(j)' = Base(j)
      BY <1>1, <1>2, <2>1, <2>5 DEF Here, Base
    <3>2. Top(j)' = Top(j)
      <4>1. j - 2 >= gi + 2
        BY <1>2, <2>1, <2>5
      <4>2. Base(j - 2)' = Base(j - 2)
        BY <1>1, <1>2, <2>1, <4>1 DEF Base
      <4> QED BY <1>1, <1>2, <2>1, <2>5, <4>2 DEF Top
    <3>3. j # gi' /\ j # gi
      BY <1>1, <1>2, <2>1, <2>5
    <3> QED BY <1>11, <2>2, <2>3, <3>1, <3>2, <3>3 DEF Level
  <2> QED BY <1>2, <2>1, <2>4, <2>5
<1> QED BY <1>1, <1>12 DEF InOrder, SkipsWell

(* The commands that go on to the next one move the stack as Adds says.      *)
Onward ==
  /\ Fetched /\ Next1 /\ NoCall /\ prog' = prog
  /\ Command \notin Jumps /\ si' = si - Adds(Command)

(* These commands are of that kind.                                          *)
LEMMA GoOnward ==
  ASSUME Typed,
         \/ Push \/ PushVar \/ PushArg \/ PopVar \/ Pop \/ Default \/ Compute \/ Adjust
         \/ Pass
  PROVE  Onward
<1> USE DEF Onward, Jumps, Adds, Arithmetic, Comparisons, Logic, At, Runnable, Kept
<1>1. si \in Int
  BY DEF Typed, Types
<1>2. ASSUME Push \/ PushVar \/ PushArg PROVE Onward
  <2>1. Command \in {"Push", "PushVar", "PushArg"} /\ si' = si - 1
    BY <1>2 DEF Push, PushVar, PushArg, Pushing
  <2>2. Fetched /\ Next1 /\ NoCall /\ prog' = prog
    BY <1>2 DEF Push, PushVar, PushArg, Pushing
  <2> QED BY <2>1, <2>2
<1>3. ASSUME PopVar \/ Pop PROVE Onward
  <2>1. Command \in {"PopVar", "Pop"} /\ si' = si + 1
    BY <1>3 DEF PopVar, Pop
  <2>2. Fetched /\ Next1 /\ NoCall /\ prog' = prog
    BY <1>3 DEF PopVar, Pop
  <2> QED BY <1>1, <2>1, <2>2
<1>4. ASSUME Compute PROVE Onward
  <2>1. Command \in Arithmetic /\ si' = si + 1
    BY <1>4 DEF Compute
  <2>2. Fetched /\ Next1 /\ NoCall /\ prog' = prog
    BY <1>4 DEF Compute
  <2> QED BY <1>1, <2>1, <2>2
<1>5. ASSUME Default \/ Adjust \/ Pass PROVE Onward
  <2>1. Command \in {"Default"} \cup InPlace \cup Silent /\ si' = si
    BY <1>5 DEF Default, Adjust, Pass
  <2>2. Fetched /\ Next1 /\ NoCall /\ prog' = prog
    BY <1>5 DEF Default, Adjust, Pass
  <2> QED BY <1>1, <2>1, <2>2 DEF InPlace, Silent
<1> QED BY <1>2, <1>3, <1>4, <1>5

(* A step in a run.                                                          *)
LEMMA StepKeepsOrder ==
  ASSUME Typed, Planned, running, InOrder, Step
  PROVE  StackInv'
<1>1. ASSUME InOrder', prog' = prog, running' = running PROVE StackInv'
  BY <1>1 DEF StackInv
<1>2. ASSUME Onward PROVE StackInv'
  BY <1>1, <1>2, NextKeepsOrder DEF Onward, NoCall
<1>3. ASSUME SkipOver PROVE StackInv'
  BY <1>1, <1>3, SkipKeepsOrder DEF SkipOver, NoCall, Kept
<1>4. ASSUME Goto \/ Branch PROVE StackInv'
  BY <1>1, <1>4, JumpKeepsOrder DEF Goto, Branch, NoCall, Kept
<1>5. ASSUME NEW b \in BOOLEAN, Fetched, Command \in Comparisons \cup Logic, Judge(b)
      PROVE  StackInv'
  BY <1>1, <1>5, JudgeKeepsOrder DEF Judge, NoCall, Kept
<1>6. ASSUME Compare PROVE StackInv'
  <2>1. Holds(Command, Key(stack[si + 1]), Key(stack[si + 2])) \in BOOLEAN
    BY <1>6 DEF Compare, Comparisons, Holds, Less, Equal
  <2> QED BY <1>5, <1>6, <2>1 DEF Compare, Runnable
<1>7. ASSUME Combine PROVE StackInv'
  BY <1>5, <1>7 DEF Combine, Runnable, True
<1>8. ASSUME GoSub PROVE StackInv'
  BY <1>1, <1>8, CallKeepsOrder DEF GoSub, Kept
<1>9. ASSUME Return PROVE StackInv'
  <2>1. CASE InCall
    <3>1. ~(gi + 1 >= GosubSize)
      BY <2>1, Sizes DEF InCall, Typed, Types
    <3> QED BY <1>1, <1>9, <2>1, <3>1, ReturnKeepsOrder DEF Return, Leave, Kept
  <2>2. CASE ~InCall
    <3>1. gi + 1 >= GosubSize
      BY <2>2, Sizes DEF InCall, Typed, Types
    <3>2. ResetTo(0)
      BY <1>9, <3>1 DEF Return, Leave
    <3> QED BY <3>2, Sizes DEF ResetTo, StackInv, AtRest
  <2> QED BY <2>1, <2>2
<1>10. ASSUME Stop PROVE StackInv'
  <2>1. pc \in DOMAIN Plan /\ Batch(pc).is = "Stop" /\ prog' = prog /\ ResetTo(1)
    BY <1>10, Running DEF Stop, At, Command, Kept
  <2>2. Plan' = Plan /\ \A k : Batch(k)' = Batch(k)
    BY <2>1 DEF Plan, Batch
  <2> QED BY <2>1, <2>2, Sizes DEF ResetTo, StackInv, AtRest
<1>11. ASSUME RunAway PROVE StackInv'
  <2>1. InOrder'
    BY <1>11 DEF RunAway, InOrder, Levels, Level, Here, Base, Top, SkipsWell, Plan, Batch,
       Command
  <2> QED BY <1>1, <1>11, <2>1 DEF RunAway
<1> QED
  BY <1>2, <1>3, <1>4, <1>6, <1>7, <1>8, <1>9, <1>10, <1>11, GoOnward DEF Step

(* A run begins at the first command of the main code.                       *)
LEMMA StartInOrder ==
  ASSUME Typed, Planned, ~running, IdleIsReady, AtRest,
         NEW start \in prog.starts, TclRun(start)
  PROVE  InOrder'
<1> DEFINE first == IF start > 0 THEN start ELSE 0
<1>1. /\ gi' = GosubSize - 1 /\ args' = args /\ si' = si /\ ~skip' /\ prog' = prog
      /\ pc' = IF start > 0 THEN start ELSE pc
  BY DEF TclRun, IdleIsReady
<1>2. /\ start \in Int /\ first \in DOMAIN Plan /\ Plan[first] = Mark(0, Main)
      /\ start <= 0 => \A k \in DOMAIN Plan : Batch(k).is # "Stop"
  BY PlanOfStart, BatchAssumption DEF Typed
<1>3. pc' = first
  <2>1. CASE start > 0
    BY <1>1, <2>1
  <2>2. CASE ~(start > 0)
    <3>1. start <= 0
      BY <1>2, <2>2
    <3>2. pc = 0
      BY <1>2, <3>1 DEF AtRest
    <3> QED BY <1>1, <2>2, <3>2
  <2> QED BY <2>1, <2>2
<1>4. Levels' = {GosubSize - 1}
  BY <1>1, LastPaired, Sizes DEF Levels
<1>5. ASSUME NEW j \in Levels' PROVE Level(j)'
  <2>1. Here(j)' = first /\ Base(j)' = args /\ Top(j)' = si /\ j = gi' /\ j = GosubSize - 1
    BY <1>1, <1>3, <1>4, <1>5 DEF Here, Base, Top
  <2>2. Suits(Mark(0, Main), args - si)
    BY DEF Suits, Mark, AtRest, Typed, Types
  <2>3. Plan' = Plan
    BY <1>1 DEF Plan
  <2> QED BY <1>2, <2>1, <2>2, <2>3 DEF Level, Mark
<1> QED BY <1>1, <1>5 DEF InOrder, SkipsWell

(* Every step keeps the frames in order.                                     *)
LEMMA StackStep ==
  ASSUME Typed, IdleIsReady, StackInv, [Next]_vars PROVE StackInv'
<1>1. SUFFICES ASSUME Planned PROVE StackInv'
  <2>1. prog' = prog
    BY TypeStep DEF Typed
  <2> QED BY <1>1, <2>1 DEF StackInv, Planned
<1>2. ASSUME UNCHANGED vars PROVE StackInv'
  <2>1. InOrder => InOrder'
    BY <1>2 DEF vars, InOrder, Levels, Level, Here, Base, Top, SkipsWell, Plan, Batch, Command
  <2>2. AtRest => AtRest'
    BY <1>2 DEF vars, AtRest, Plan, Batch
  <2>3. running' = running
    BY <1>2 DEF vars
  <2> QED BY <1>1, <2>1, <2>2, <2>3 DEF StackInv
<1>3. ASSUME TclReset PROVE StackInv'
  BY <1>3, Sizes DEF TclReset, ResetTo, StackInv, AtRest
<1>4. ASSUME NEW v \in Vars, TclPush(v) PROVE StackInv'
  <2>1. ~running /\ ~running' /\ si' = si - 1 /\ args' = args /\ pc' = pc /\ prog' = prog
    BY <1>4 DEF TclPush, Quiet
  <2>2. AtRest /\ si \in Int /\ args \in Int
    BY <1>1, <2>1 DEF StackInv, Typed, Types
  <2>3. Plan' = Plan /\ \A k : Batch(k)' = Batch(k)
    BY <2>1 DEF Plan, Batch
  <2> QED BY <2>1, <2>2, <2>3 DEF StackInv, AtRest
<1>5. ASSUME NEW start \in prog.starts, TclRun(start) PROVE StackInv'
  <2>1. ~running /\ running' /\ prog' = prog
    BY <1>5 DEF TclRun, Quiet
  <2>2. InOrder'
    BY <1>1, <1>5, <2>1, StartInOrder DEF StackInv
  <2> QED BY <2>1, <2>2 DEF StackInv
<1>6. ASSUME Step PROVE StackInv'
  <2>1. running
    BY <1>6 DEF Step, SkipOver, Push, PushVar, PushArg, PopVar, Pop, Default, Compute, Compare,
       Combine, Adjust, Pass, GoSub, Return, Leave, Branch, Goto, Stop, RunAway, At, Runnable,
       Fetched
  <2> QED BY <1>1, <1>6, <2>1, StepKeepsOrder DEF StackInv
<1> QED BY <1>2, <1>3, <1>4, <1>5, <1>6 DEF Next

(* Initially the stack is empty.                                             *)
LEMMA StackInit == Init => StackInv
BY Sizes DEF Init, StackInv, AtRest

(* The invariant: types, readiness, and frames that fit the plan.            *)
THEOREM Inductive == Spec => []IInv
<1>1. Init => IInv
  BY TypeInit, IdleInit, StackInit DEF IInv, Typed
<1>2. IInv /\ [Next]_vars => IInv'
  <2>1. ASSUME Types, prog \in Programs, [Next]_vars PROVE Types' /\ prog' \in Programs
    BY <2>1, TypeStep
  <2> QED BY <2>1, FlagStep, IdleStep, StackStep DEF IInv, Typed
<1> QED BY <1>1, <1>2, PTL DEF Spec

-----------------------------------------------------------------------------
(* However calls nest, every frame was left by a GoSub, and the arguments of *)
(* a call lie below those of its caller (Gamma.c:34, 52), in every batch     *)
(* that has a plan.                                                          *)
THEOREM CallsNest == Spec => [](Planned => FramesNest)
<1>1. ASSUME IInv PROVE Planned => FramesNest
  <2>1. SUFFICES ASSUME Planned
                 PROVE  /\ \A k \in Frames :
                             /\ gosub[k] \in Positions
                             /\ Batch(gosub[k]).is = "GoSub"
                             /\ gosub[k - 1] >= IF k - 2 >= gi + 2 THEN gosub[k - 3] ELSE args
                        /\ args >= si
    BY DEF FramesNest
  <2>2. Typed /\ gi \in Int /\ Paired(gi) /\ args \in Int /\ si \in Int
        /\ gosub \in [0 .. GosubSize - 1 -> Int] /\ gi >= -1
    BY <1>1 DEF IInv, Typed, Types
  <2>3. CASE ~running
    <3>1. gi = GosubSize - 1 /\ si <= args
      BY <1>1, <2>1, <2>3 DEF IInv, IdleIsReady, StackInv, AtRest
    <3>2. Frames = {}
      BY <3>1, Sizes DEF Frames
    <3> QED BY <2>2, <3>1, <3>2
  <2>4. CASE running
    <3>1. InOrder
      BY <1>1, <2>1, <2>4 DEF IInv, StackInv
    <3>2. args >= si
      BY <2>1, <2>2, <3>1, Running
    <3>3. ASSUME NEW k \in Frames
          PROVE  /\ gosub[k] \in Positions
                 /\ Batch(gosub[k]).is = "GoSub"
                 /\ gosub[k - 1] >= IF k - 2 >= gi + 2 THEN gosub[k - 3] ELSE args
      <4>1. k \in gi + 2 .. GosubSize - 1 /\ Paired(k)
        BY DEF Frames
      <4>2. k \in Int /\ k # gi + 3 /\ k # gi /\ k \in gi .. GosubSize - 1
        BY <2>2, <4>1, Sizes, Apart
      <4>3. Level(k) /\ Here(k) = gosub[k] /\ Base(k) = gosub[k - 1] /\ Top(k) = Base(k - 2)
        BY <3>1, <4>1, <4>2 DEF InOrder, Levels, Here, Base, Top
      <4>4. gosub[k] \in DOMAIN Plan /\ Batch(gosub[k]).is = "GoSub"
            /\ Suits(Plan[gosub[k]], gosub[k - 1] - Base(k - 2))
        BY <4>2, <4>3 DEF Level
      <4>5. gosub[k] \in Positions /\ Plan[gosub[k]].depth \in Nat
        BY <2>1, <2>2, <4>4, PlanOfCommand DEF Typed
      <4>6. Base(k - 2) = IF k - 2 >= gi + 2 THEN gosub[k - 3] ELSE args
        <5>1. k - 2 >= gi + 2 <=> k - 2 # gi
          BY <2>2, <4>1, <4>2
        <5>2. k - 2 - 1 = k - 3
          BY <4>2
        <5> QED BY <5>1, <5>2 DEF Base
      <4>7. gosub[k - 1] \in Int /\ Base(k - 2) \in Int
        <5>1. k - 1 \in 0 .. GosubSize - 1 /\ (k - 2 >= gi + 2 => k - 3 \in 0 .. GosubSize - 1)
          BY <2>2, <4>1, Sizes
        <5> QED BY <2>2, <4>6, <5>1
      <4> QED BY <4>4, <4>5, <4>6, <4>7 DEF Suits
    <3> QED BY <3>2, <3>3
  <2> QED BY <2>3, <2>4
<1> QED BY <1>1, Inductive, PTL

(* A function about to return leaves one number above its arguments          *)
(* (Gamma.c:52).                                                             *)
THEOREM OneNumberEach == Spec => [](Planned => CallLeavesOneNumber)
<1>1. ASSUME IInv PROVE Planned => CallLeavesOneNumber
  <2>1. SUFFICES ASSUME Planned, running, At("Return"), InCall PROVE si = args - 1
    BY DEF CallLeavesOneNumber
  <2>2. Typed /\ InOrder /\ args \in Int /\ si \in Int
    BY <1>1, <2>1 DEF IInv, StackInv, Typed, Types
  <2>3. gi \in Int /\ Paired(gi) /\ gi \in -1 .. GosubSize - 1 /\ gi # GosubSize - 1
        /\ gi # (GosubSize - 1) - 1
    <3>1. gi \in -1 .. GosubSize - 1 /\ Paired(gi)
      BY <2>2 DEF Typed, Types
    <3>2. gi \in Int /\ GosubSize - 1 \in Int
      BY <3>1, Sizes
    <3> QED BY <2>1, <3>1, <3>2, LastPaired, Sizes, Apart DEF InCall
  <2>4. gi + 2 \in Levels /\ gi \in Levels /\ gi + 2 # gi
    <3>1. gi + 2 \in gi .. GosubSize - 1 /\ gi \in gi .. GosubSize - 1 /\ gi + 2 # gi
      BY <2>3, Sizes
    <3> QED BY <2>3, <3>1, Pairs DEF Levels
  <2>5. /\ Here(gi + 2) \in DOMAIN Plan /\ Batch(Here(gi + 2)).is = "GoSub"
        /\ Plan[pc].entry = Batch(Here(gi + 2) + 1).is
    BY <2>2, <2>3, <2>4 DEF InOrder, Level, Here
  <2>6. Plan[pc].entry # Main
    <3>1. Here(gi + 2) \in Nat /\ Here(gi + 2) + 2 = Here(gi + 2) + 1 + 1
          /\ GoesOn(prog, Plan, Here(gi + 2))
      BY <2>1, <2>2, <2>5, PlanOfCommand DEF Typed
    <3>2. Plan[pc].entry \in DOMAIN Plan
      BY <2>5, <3>1 DEF GoesOn, Enters, Batch
    <3>3. Plan[pc].entry \in Nat
      BY <2>1, <2>2, <3>2, PlanOfCommand DEF Typed
    <3> QED BY <3>3 DEF Main
  <2>7. Plan[pc].depth = 1
    BY <2>1, <2>2, <2>6, Running DEF GoesOn, At, Command, Batch
  <2>8. args - si = 1
    BY <2>1, <2>2, <2>6, <2>7, Running DEF Suits
  <2> QED BY <2>2, <2>8
<1> QED BY <1>1, Inductive, PTL

(* No command of a planned batch takes cells from below its own frame: the   *)
(* unchecked stack (Gamma.c) never underflows.                               *)
THEOREM OwnCells ==
  Spec => [](Planned /\ Runnable => si + Takes(Command) <= args)
<1>1. ASSUME IInv PROVE Planned /\ Runnable => si + Takes(Command) <= args
  <2>1. SUFFICES ASSUME Planned, Runnable PROVE si + Takes(Command) <= args
    OBVIOUS
  <2>2. Typed /\ InOrder /\ args \in Int /\ si \in Int
    BY <1>1, <2>1 DEF IInv, StackInv, Typed, Types, Runnable, Fetched
  <2>3. pc \in DOMAIN Plan /\ args - si >= Plan[pc].depth /\ Plan[pc].depth \in Nat
    BY <2>1, <2>2, Running
  <2>4. Plan[pc].depth >= Takes(Command) /\ Takes(Command) \in Int
    BY <2>1, <2>2, <2>3, PlanOfCommand DEF Typed, Command, Takes
  <2> QED BY <2>2, <2>3, <2>4
<1> QED BY <1>1, Inductive, PTL
=============================================================================
