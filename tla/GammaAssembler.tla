--------------------------- MODULE GammaAssembler ---------------------------
(***************************************************************************)
(* The assembler of Gamma/.Gamma.tcl: .function, .procedure, .let, .if,    *)
(* .while, .for and the expressions in them become a batch for GammaVM.    *)
(* A jump whose label is not known yet gets the operand -1 and is linked   *)
(* when the construct that defines the label ends.                         *)
(*                                                                         *)
(* A Tcl procedure evaluates its bodies one command after another.  What   *)
(* it has still to do is a list of items; Assemble does the first, and an  *)
(* item that has parts puts them in front of the rest.  That is the stack  *)
(* of Tcl calls, written out.                                              *)
(*                                                                         *)
(* The text of an expression is left out: an expression is the tree that   *)
(* splitting it at its operators gives.                                    *)
(*   N(n), Ref(name), Bin(command, left, right), Call(name, arguments)     *)
(* A .let whose expression is longer than 32 characters may become a       *)
(* polynomial instead; no expression here is that long.                    *)
(***************************************************************************)
EXTENDS Integers, Sequences

N(n) == [tree |-> "num", n |-> n]
Ref(name) == [tree |-> "ref", name |-> name]
Bin(f, l, r) == [tree |-> "bin", f |-> f, l |-> l, r |-> r]
Call(f, actuals) == [tree |-> "call", f |-> f, actuals |-> actuals]

(* The commands of a source.                                                 *)
Let(v, e) == [do |-> "let", v |-> v, e |-> e]
If(arms, else) == [do |-> "if", arms |-> arms, else |-> else]
While(cond, body) == [do |-> "while", cond |-> cond, body |-> body]
For(init, cond, step, body) ==
  [do |-> "for", init |-> init, cond |-> cond, step |-> step, body |-> body]
Function(name, params, body) ==
  [do |-> "function", name |-> name, params |-> params, body |-> body]
MainCode(code, script) == [do |-> "main", code |-> code, script |-> script]

Arm(cond, code) == [cond |-> cond, code |-> code]

(* What they have the assembler do: compile an expression, write a command,  *)
(* jump to a label, set one, link, one arm of a choice, and the code that a  *)
(* condition guards.                                                         *)
Value(e, formals) == [do |-> "value", e |-> e, formals |-> formals]
Put(f, operands) == [do |-> "put", f |-> f, operands |-> operands]
JumpTo(l) == [do |-> "jump", l |-> l]
Label(l) == [do |-> "label", l |-> l]
Link == [do |-> "link"]
Case(arm, end) == [do |-> "case", arm |-> arm, end |-> end]
Guarded(code, exit) == [do |-> "guarded", code |-> code, exit |-> exit]

-----------------------------------------------------------------------------
(* The state of the assembler: the batch so far, where each label is, the    *)
(* operands still to be linked, the condition counter, where each function   *)
(* and the main code start, and what is still to be done.                    *)

(* ..init empties the batch.  The labels, the jumps on record and the        *)
(* counter are Tcl variables that it leaves alone: they are empty because a  *)
(* process assembles once.  The scripts of the repository call ..init at     *)
(* their top, once; what a second ..init would find is not modelled.         *)
Begin(todo) ==
  [code |-> <<>>, labels |-> <<>>, pending |-> {}, counter |-> 0,
   functions |-> <<>>, start |-> 0, todo |-> todo]

Position(a) == Len(a.code)

First(a, items) == [a EXCEPT !.todo = items \o @]

Emit(a, f, operands) ==
  [a EXCEPT !.code = @ \o <<[cell |-> "func", is |-> f]>>
                       \o [k \in DOMAIN operands |-> [cell |-> "data", is |-> operands[k]]]]

(* .label: l                                                                 *)
Entered(table, l, position) ==
  [m \in DOMAIN table \cup {l} |-> IF m = l THEN position ELSE table[m]]

(* .goto                                                                     *)
Jump(a, l) ==
  IF l \in DOMAIN a.labels
  THEN Emit(a, "Goto", <<a.labels[l]>>)
  ELSE Emit([a EXCEPT !.pending = @ \cup {<<l, Position(a) + 1>>}], "Goto", <<-1>>)

Due(a) == {p \in a.pending : p[1] \in DOMAIN a.labels /\ a.code[p[2] + 1].is = -1}

Patched(a, due) ==
  [a EXCEPT !.code = [k \in DOMAIN @ |->
     IF \E p \in due : p[2] + 1 = k
     THEN [cell |-> "data", is |-> a.labels[(CHOOSE p \in due : p[2] + 1 = k)[1]]]
     ELSE @[k]]]

\* Mutant: one jump to each label is linked.
LinkOnce(a) ==
  Patched(a, {p \in Due(a) : \A q \in Due(a) : q[1] = p[1] => q[2] >= p[2]})

(* LinkGamma: every jump to a label known by now that still holds -1.        *)
LinkAll(a) == Patched(a, Due(a))

-----------------------------------------------------------------------------
(* Expressions.  The right operand is compiled before the left one, and the  *)
(* last argument before the first.  formals gives each parameter of the      *)
(* function being compiled its number.  An unknown function is an error of   *)
(* Tcl: the assembler does not get any further.                              *)

BuiltIn == [abs |-> "Abs", limit |-> "Limit"]

(* What the optimizer makes of a subtraction, a sum or a product.            *)
Simplified(e) ==
  CASE e.f = "Minus" /\ e.l = e.r -> N(0)
    [] e.f = "Minus" /\ e.r = N(0) -> e.l
    [] e.f = "Plus" /\ e.l = N(0) -> e.r
    [] e.f = "Plus" /\ e.r = N(0) -> e.l
    [] e.f = "Mult" /\ e.l = N(1) -> e.r
    [] e.f = "Mult" /\ e.r = N(1) -> e.l
    [] OTHER -> e

Arguments(e, formals) ==
  [k \in DOMAIN e.actuals |-> Value(e.actuals[Len(e.actuals) + 1 - k], formals)]

CompileExpr(a, e, formals) ==
  CASE e.tree = "num" -> Emit(a, "Push", <<e.n>>)
    [] e.tree = "ref" ->
         IF e.name \in DOMAIN formals
         THEN Emit(a, "PushArg", <<formals[e.name]>>)
         ELSE Emit(a, "PushVar", <<e.name>>)
    [] e.tree = "bin" ->
         IF Simplified(e) # e
         THEN First(a, <<Value(Simplified(e), formals)>>)
         ELSE First(a, <<Value(e.r, formals), Value(e.l, formals), Put(e.f, <<>>)>>)
    [] e.tree = "call" /\ e.f \in DOMAIN a.functions ->
         First(a, Arguments(e, formals) \o <<Put("GoSub", <<a.functions[e.f]>>)>>)
    [] e.tree = "call" /\ e.f \notin DOMAIN a.functions /\ e.f \in DOMAIN BuiltIn ->
         First(a, Arguments(e, formals) \o <<Put(BuiltIn[e.f], <<>>)>>)
    [] OTHER -> First(a, <<Value(e, formals)>>)

(* The first parameter has the highest number.                               *)
Numbered(params) ==
  [p \in {params[k] : k \in DOMAIN params} |->
     Len(params) + 1 - CHOOSE k \in DOMAIN params : params[k] = p]

-----------------------------------------------------------------------------
(* Commands.                                                                 *)

CompileFunction(a, fn) ==
  First([a EXCEPT !.functions = Entered(@, fn.name, Position(a))],
        <<Value(fn.body, Numbered(fn.params)), Put("Return", <<Len(fn.params)>>)>>)

(* A procedure ends in Return, a script in DumpStack and Stop.               *)
CompileMain(a, main) ==
  First([a EXCEPT !.start = Position(a)],
        main.code \o IF main.script THEN <<Put("DumpStack", <<>>), Put("Stop", <<>>)>>
                                    ELSE <<Put("Return", <<0>>)>>)

(* A condition jumps to the code it guards; the jump past it follows.  A     *)
(* false comparison skips the first of the two jumps.                        *)
CompileGuarded(a, code, exit) ==
  LET do == a.counter + 1
      past == a.counter + 2
  IN  First([a EXCEPT !.counter = @ + 2],
            <<JumpTo(do), JumpTo(past), Label(do)>> \o code \o <<exit, Label(past)>>)

CompileCase(a, arm, end) ==
  First(a, <<Value(arm.cond, <<>>), Guarded(arm.code, JumpTo(end))>>)

CompileIf(a, arms, else) ==
  LET end == a.counter + 1 IN
  First([a EXCEPT !.counter = @ + 1],
        [k \in DOMAIN arms |-> Case(arms[k], end)] \o else \o <<Label(end), Link>>)

CompileLoop(a, cond, body) ==
  First(a, <<Value(cond, <<>>), Guarded(body, Put("Goto", <<Position(a)>>)), Link>>)

Done(a, i) ==
  CASE i.do = "value" -> CompileExpr(a, i.e, i.formals)
    [] i.do = "put" -> Emit(a, i.f, i.operands)
    [] i.do = "jump" -> Jump(a, i.l)
    [] i.do = "label" -> [a EXCEPT !.labels = Entered(@, i.l, Position(a))]
    [] i.do = "link" -> LinkAll(a)
    [] i.do = "let" -> First(a, <<Value(i.e, <<>>), Put("PopVar", <<i.v>>)>>)
    [] i.do = "if" -> CompileIf(a, i.arms, i.else)
    [] i.do = "case" -> CompileCase(a, i.arm, i.end)
    [] i.do = "guarded" -> CompileGuarded(a, i.code, i.exit)
    [] i.do = "while" -> CompileLoop(a, i.cond, i.body)
    [] i.do = "for" -> First(a, <<i.init, While(i.cond, i.body \o <<i.step>>)>>)
    [] i.do = "function" -> CompileFunction(a, i)
    [] i.do = "main" -> CompileMain(a, i)

(* The assembler does the first thing it has to do.                          *)
Assemble(a) == Done([a EXCEPT !.todo = Tail(@)], Head(a.todo))

(* A session: its functions, then its main code.                             *)
Session(source) == Begin(source.functions \o <<MainCode(source.main, source.script)>>)
=============================================================================
