------------------------------- MODULE GammaVM -------------------------------
(***************************************************************************)
(* The Gamma virtual machine: the stack machine of Gamma/Gamma.c and       *)
(* Gamma/virtual_machine.c that runs the batches assembled by              *)
(* Gamma/.Gamma.tcl.  A batch mixes pointers to functions with their       *)
(* operands.  The stack and the gosub stack grow downwards in fixed        *)
(* arrays and are not checked: an access outside them is undefined.        *)
(*                                                                         *)
(* Numbers are integers.  A stack cell is a union: a comparison leaves an  *)
(* integer 0 or 1 in it, which other commands read as a number.            *)
(*                                                                         *)
(* The command Tcl evaluates a script in the middle of a run, and a script *)
(* can do anything, down to resetting the machine that runs it.  It is     *)
(* left out, like the numeric commands: a run that meets one stops here.   *)
(***************************************************************************)
EXTENDS Integers, Sequences

CONSTANTS
  Programs,   \* what may be assembled: records with a batch and entry points
  Vars,       \* nodes of the context tree that hold a number
  Inputs,     \* what they hold before the first run
  NaN,        \* a number never set
  StackSize,  \* GammaVirtualMachineStackSize
  GosubSize,  \* GammaVirtualMachineGosubStackSize
  MaxRuns,    \* bound: runs started
  MaxPushed   \* bound: numbers left on the stack when ..push is called

ASSUME MachineAssumption ==
  /\ StackSize \in Nat \ {0}
  /\ GosubSize \in Nat \ {0}
  /\ MaxRuns \in Nat
  /\ MaxPushed \in Nat
  /\ NaN \notin Int
  /\ \A f \in Inputs : f \in [Vars -> Int \cup {NaN}]

Length(f) ==
  CASE f \in {"Default", "TestVar"} -> 3
    [] f \in {"Push", "PushVar", "PushArg", "PopVar", "GoSub", "Return",
              "Branch", "Goto"} -> 2
    [] OTHER -> 1

(* What .Gamma.tcl writes behind a command: its operands, of the right type. *)
OperandsOf(p, k) ==
  LET command == p.batch[k + 1].is  operand == p.batch[k + 2].is
  IN  /\ k + Length(command) <= Len(p.batch)
      /\ command \in {"PushArg", "GoSub", "Return", "Branch", "Goto"} => operand \in Int
      /\ command = "Push" => operand \in Int \cup {NaN}
      /\ command \in {"PushVar", "PopVar", "Default"} => operand \in Vars
      /\ command = "Default" => p.batch[k + 3].is \in Int \cup {NaN}

ASSUME BatchAssumption ==
  \A p \in Programs :
    /\ p.starts \subseteq Int
    /\ \A k \in 0 .. Len(p.batch) - 1 : p.batch[k + 1].cell = "func" => OperandsOf(p, k)

VARIABLES
  prog,       \* the program assembled
  pc,         \* ProgramCounter
  running,    \* Running
  gosub,      \* GosubStack
  gi,         \* GosubStackIndex: the first free cell
  stack,      \* Stack
  si,         \* StackIndex: the first free cell
  args,       \* StackArgs: si when the subroutine was entered
  skip,       \* Skip: the next command is skipped
  value,      \* the numbers of the context tree
  undefined,  \* the machine did something C gives no meaning to
  runs,       \* bound: runs started
  asked,      \* history: the starting position last asked for
  input       \* history: value as the last run started

vars == <<prog, pc, running, gosub, gi, stack, si, args, skip, value,
          undefined, runs, asked, input>>

(* The commands and operands, the first at position 0.                       *)
Positions == 0 .. Len(prog.batch) - 1
Batch(k) == prog.batch[k + 1]
Cells == 0 .. StackSize - 1

Num(n) == [kind |-> "F", n |-> n]
Bool(b) == [kind |-> "I", n |-> IF b THEN 1 ELSE 0]

(* A cell read as a number.  The integer 1 reads as the smallest positive    *)
(* number: it compares above 0 and is lost when the number becomes a float.  *)
Key(c) == IF c.n = NaN \/ c.kind = "I" THEN c.n ELSE 2 * c.n
Number(c) == IF c.kind = "F" THEN c.n ELSE 0
True(c) == c.n # 0
Less(a, b) == NaN \notin {a, b} /\ a < b

Init ==
  /\ prog \in Programs
  /\ pc = 0
  /\ running = FALSE
  /\ gosub = [k \in 0 .. GosubSize - 1 |-> 0]
  /\ gi = GosubSize - 1
  /\ stack = [k \in Cells |-> Num(0)]
  /\ si = StackSize - 1
  /\ args = StackSize - 1
  /\ skip = FALSE
  /\ value \in Inputs
  /\ undefined = FALSE
  /\ runs = 0
  /\ asked = -1
  /\ input = value

-----------------------------------------------------------------------------
(* The commands of Tcl: ..reset, ..push and ..run.                           *)

\* Mutant: the calls of the run that stopped stay open.
ResetKeepsCalls(counter) ==
  /\ pc' = counter
  /\ running' = FALSE
  /\ gi' = gi
  /\ si' = StackSize - 1
  /\ args' = StackSize - 1
  /\ skip' = FALSE

ResetTo(counter) ==
  /\ pc' = counter
  /\ running' = FALSE
  /\ gi' = GosubSize - 1
  /\ si' = StackSize - 1
  /\ args' = StackSize - 1
  /\ skip' = FALSE

Quiet == ~running /\ ~undefined /\ runs < MaxRuns

TclReset ==
  /\ Quiet
  /\ ResetTo(0)
  /\ UNCHANGED <<prog, gosub, stack, value, undefined, runs, asked, input>>

TclPush(v) ==
  /\ Quiet
  /\ StackSize - 1 - si < MaxPushed
  /\ si \in Cells
  /\ stack' = [stack EXCEPT ![si] = Num(value[v])]
  /\ si' = si - 1
  /\ UNCHANGED <<prog, pc, running, gosub, gi, args, skip, value, undefined,
                 runs, asked, input>>

(* ..run [<starting position>]: -1 stands for no position.  The counter is   *)
(* only set when the position is above 0.                                    *)
TclRun(start) ==
  /\ Quiet
  /\ running' = TRUE
  /\ pc' = IF start > 0 THEN start ELSE pc
  /\ asked' = start
  /\ input' = value
  /\ runs' = runs + 1
  /\ UNCHANGED <<prog, gosub, gi, stack, si, args, skip, value, undefined>>

-----------------------------------------------------------------------------
(* Fetching.                                                                 *)

Fetched == running /\ ~undefined /\ pc \in Positions /\ Batch(pc).cell = "func"
Command == Batch(pc).is
Operand == Batch(pc + 1).is

Arithmetic == {"Plus", "Minus", "Mult"}
Comparisons == {"LessThan", "GreaterThan", "AtMost", "AtLeast", "Equal", "Different"}
Logic == {"Or", "And"}
InPlace == {"Abs", "Limit", "Reverse"}
Silent == {"TestVar", "DumpStack"}

(* The commands that run although a comparison told them to be skipped.      *)
Unskippable == Arithmetic \cup Comparisons \cup Logic

(* The cells a command reads or writes.                                      *)
Touched ==
  CASE Command \in {"Push", "PushVar"} -> {si}
    [] Command = "PushArg" -> {si, args + Operand}
    [] Command = "PopVar" -> {si + 1}
    [] Command \in Arithmetic \cup Comparisons \cup Logic \cup {"Reverse"} -> {si + 1, si + 2}
    [] Command = "Abs" -> {si + 1}
    [] Command = "Limit" -> {si + 1, si + 2, si + 3}
    [] Command = "Return" /\ gi + 1 < GosubSize -> {si + 1, si + 1 + Operand}
    [] OTHER -> {}

Runnable == Fetched /\ (skip => Command \in Unskippable)
InBounds == Touched \subseteq Cells /\ (Command = "GoSub" => gi >= 1)
At(f) == Runnable /\ Command = f /\ InBounds

Next1 == pc' = pc + Length(Command) /\ skip' = FALSE
Kept == UNCHANGED <<prog, undefined, runs, asked, input>>
NoCall == UNCHANGED <<gosub, gi, args, running>>

(* A command fetched from outside the batch or from an operand, or an access *)
(* outside a stack.                                                          *)
RunAway ==
  /\ running /\ ~undefined
  /\ ~Fetched \/ (Runnable /\ ~InBounds)
  /\ undefined' = TRUE
  /\ UNCHANGED <<prog, pc, running, gosub, gi, stack, si, args, skip, value,
                 runs, asked, input>>

(* Skip is cleared by every command, the skipped one included.               *)
SkipOver ==
  /\ Fetched /\ skip /\ Command \notin Unskippable
  /\ Next1
  /\ NoCall /\ Kept /\ UNCHANGED <<stack, si, value>>

-----------------------------------------------------------------------------
(* The commands.                                                             *)

Pushing(c) ==
  /\ stack' = [stack EXCEPT ![si] = c]
  /\ si' = si - 1
  /\ Next1 /\ NoCall /\ Kept /\ UNCHANGED value

Push == At("Push") /\ Pushing(Num(Operand))
PushVar == At("PushVar") /\ Pushing(Num(value[Operand]))

PushArg == At("PushArg") /\ Pushing(stack[args + Operand])

PopVar ==
  /\ At("PopVar")
  /\ si' = si + 1
  /\ value' = [value EXCEPT ![Operand] = Number(stack[si + 1])]
  /\ Next1 /\ NoCall /\ Kept /\ UNCHANGED stack

Pop ==
  /\ At("Pop")
  /\ si' = si + 1
  /\ Next1 /\ NoCall /\ Kept /\ UNCHANGED <<stack, value>>

Default ==
  /\ At("Default")
  /\ value' = IF value[Operand] = NaN
              THEN [value EXCEPT ![Operand] = Batch(pc + 2).is] ELSE value
  /\ Next1 /\ NoCall /\ Kept /\ UNCHANGED <<stack, si>>

Computed(f, a, b) ==
  IF NaN \in {a, b} THEN NaN
  ELSE CASE f = "Plus" -> a + b
         [] f = "Minus" -> a - b
         [] f = "Mult" -> a * b

Compute ==
  /\ Runnable /\ Command \in Arithmetic /\ InBounds
  /\ stack' = [stack EXCEPT ![si + 2] =
       Num(Computed(Command, Number(stack[si + 1]), Number(stack[si + 2])))]
  /\ si' = si + 1
  /\ Next1 /\ NoCall /\ Kept /\ UNCHANGED value

Equal(a, b) == a = b /\ a # NaN

Holds(f, a, b) ==
  CASE f = "LessThan" -> Less(a, b)
    [] f = "GreaterThan" -> Less(b, a)
    [] f = "AtMost" -> Less(a, b) \/ Equal(a, b)
    [] f = "AtLeast" -> Less(b, a) \/ Equal(a, b)
    [] f = "Equal" -> Equal(a, b)
    [] f = "Different" -> ~Equal(a, b)

\* Mutant: a false value skips nothing.
JudgeNeverSkips(b) ==
  /\ stack' = [stack EXCEPT ![si + 2] = Bool(b)]
  /\ si' = si + 1
  /\ skip' = FALSE
  /\ pc' = pc + 1
  /\ NoCall /\ Kept /\ UNCHANGED value

(* Two cells become one truth value; a false one skips the next command.     *)
Judge(b) ==
  /\ stack' = [stack EXCEPT ![si + 2] = Bool(b)]
  /\ si' = si + 1
  /\ skip' = ~b
  /\ pc' = pc + 1
  /\ NoCall /\ Kept /\ UNCHANGED value

\* Mutant: the operands are compared in the order they were pushed.
CompareReversed ==
  /\ Runnable /\ Command \in Comparisons /\ InBounds
  /\ Judge(Holds(Command, Key(stack[si + 2]), Key(stack[si + 1])))

Compare ==
  /\ Runnable /\ Command \in Comparisons /\ InBounds
  /\ Judge(Holds(Command, Key(stack[si + 1]), Key(stack[si + 2])))

Combine ==
  /\ Runnable /\ Command \in Logic /\ InBounds
  /\ LET a == True(stack[si + 1])  b == True(stack[si + 2])
     IN  Judge(IF Command = "Or" THEN a \/ b ELSE a /\ b)

Limited(c, low, high) ==
  LET d == IF Less(Key(high), Key(c)) THEN high ELSE c
  IN  IF Less(Key(d), Key(low)) THEN low ELSE d

(* These leave every operand on the stack.                                   *)
Adjust ==
  /\ Runnable /\ Command \in InPlace /\ InBounds
  /\ LET c == stack[si + 1] IN
     stack' =
       CASE Command = "Abs" ->
              [stack EXCEPT ![si + 1] = IF Less(Number(c), 0) THEN Num(-Number(c)) ELSE c]
         [] Command = "Limit" ->
              [stack EXCEPT ![si + 1] = Limited(c, stack[si + 2], stack[si + 3])]
         [] Command = "Reverse" ->
              [stack EXCEPT ![si + 1] = Num(Number(stack[si + 2])),
                             ![si + 2] = c]
  /\ Next1 /\ NoCall /\ Kept /\ UNCHANGED <<si, value>>

(* The commands that print.                                                  *)
Pass ==
  /\ Runnable /\ Command \in Silent
  /\ Next1 /\ NoCall /\ Kept /\ UNCHANGED <<stack, si, value>>

\* Mutant: the two cells of a frame change places.
GoSubSwapsFrame ==
  /\ At("GoSub")
  /\ gosub' = [gosub EXCEPT ![gi] = args, ![gi - 1] = pc]
  /\ gi' = gi - 2
  /\ pc' = Operand
  /\ args' = si
  /\ skip' = FALSE
  /\ Kept /\ UNCHANGED <<running, stack, si, value>>

GoSub ==
  /\ At("GoSub")
  /\ gosub' = [gosub EXCEPT ![gi] = pc, ![gi - 1] = args]
  /\ gi' = gi - 2
  /\ pc' = Operand
  /\ args' = si
  /\ skip' = FALSE
  /\ Kept /\ UNCHANGED <<running, stack, si, value>>

(* Return drops n cells below the result and one frame of the gosub stack;   *)
(* with no call to return from it stops the machine.                         *)
Leave(n, frame) ==
  /\ At("Return")
  /\ IF gi + 1 >= GosubSize
     THEN ResetTo(0) /\ UNCHANGED stack
     ELSE /\ args' = gosub[gi + 1]
          /\ pc' = gosub[gi + 2] + 2
          /\ gi' = gi + frame
          /\ stack' = [stack EXCEPT ![si + n + 1] = stack[si + 1]]
          /\ si' = si + n
          /\ skip' = FALSE
          /\ UNCHANGED running
  /\ Kept /\ UNCHANGED <<gosub, value>>

\* Mutant: one cell of the frame stays.
ReturnPopsOneCell == Leave(Operand, 1)

\* Mutant: the arguments stay below the result.
ReturnKeepsArguments == Leave(0, 2)

Return == Leave(Operand, 2)

Branch ==
  /\ At("Branch")
  /\ pc' = pc + Operand + 2
  /\ skip' = FALSE
  /\ NoCall /\ Kept /\ UNCHANGED <<stack, si, value>>

Goto ==
  /\ At("Goto")
  /\ pc' = Operand
  /\ skip' = FALSE
  /\ NoCall /\ Kept /\ UNCHANGED <<stack, si, value>>

(* Stop resets the machine; its own length is added to the counter after.    *)
Stop ==
  /\ At("Stop")
  /\ ResetTo(1)
  /\ Kept /\ UNCHANGED <<gosub, stack, value>>

-----------------------------------------------------------------------------
Step ==
  \/ SkipOver \/ Push \/ PushVar \/ PushArg \/ PopVar \/ Pop \/ Default
  \/ Compute \/ Compare \/ Combine \/ Adjust \/ Pass
  \/ GoSub \/ Return \/ Branch \/ Goto \/ Stop \/ RunAway

Next ==
  \/ Step
  \/ TclReset
  \/ \E v \in Vars : TclPush(v)
  \/ \E start \in prog.starts : TclRun(start)

Spec == Init /\ [][Next]_vars

(* The loop of GammaVirtualMachineRun goes on as long as Running is set.     *)
FairSpec == Spec /\ WF_vars(Step)
=============================================================================
