-------------------------- MODULE GammaProperties ---------------------------
(***************************************************************************)
(* What the Gamma virtual machine and its assembler promise together.      *)
(***************************************************************************)
EXTENDS GammaAssembly, TLC

(* What a source means: no machine and no batch.                             *)

Operation(f, x, y) ==
  CASE f = "Plus" -> x + y
    [] f = "Minus" -> x - y
    [] f = "Mult" -> x * y

Relation(f, x, y) ==
  CASE f = "LessThan" -> x < y
    [] f = "GreaterThan" -> x > y
    [] f = "AtMost" -> x <= y
    [] f = "AtLeast" -> x >= y
    [] f = "Equal" -> x = y
    [] f = "Different" -> x # y

RECURSIVE Eval(_, _, _)
Eval(e, env, fns) ==
  CASE e.tree = "num" -> e.n
    [] e.tree = "ref" -> env[e.name]
    [] e.tree = "bin" -> Operation(e.f, Eval(e.l, env, fns), Eval(e.r, env, fns))
    [] e.tree = "call" ->
         LET actual(k) == Eval(e.actuals[k], env, fns) IN
         IF e.f = "abs" THEN IF actual(1) < 0 THEN -actual(1) ELSE actual(1)
         ELSE LET fn == CHOOSE fn \in {fns[k] : k \in DOMAIN fns} : fn.name = e.f
                  at(p) == CHOOSE k \in DOMAIN fn.params : fn.params[k] = p
              IN  Eval(fn.body,
                       [v \in DOMAIN env \cup {fn.params[k] : k \in DOMAIN fn.params} |->
                          IF \E k \in DOMAIN fn.params : fn.params[k] = v
                          THEN actual(at(v)) ELSE env[v]],
                       fns)

RECURSIVE Truth(_, _, _)
Truth(e, env, fns) ==
  CASE e.f = "And" -> Truth(e.l, env, fns) /\ Truth(e.r, env, fns)
    [] e.f = "Or" -> Truth(e.l, env, fns) \/ Truth(e.r, env, fns)
    [] OTHER -> Relation(e.f, Eval(e.l, env, fns), Eval(e.r, env, fns))

RECURSIVE Exec(_, _, _)
Exec(ss, env, fns) ==
  IF ss = <<>> THEN env
  ELSE LET s == Head(ss)
           then(more) == Exec(more \o Tail(ss), env, fns)
       IN  CASE s.do = "let" ->
                  Exec(Tail(ss), [env EXCEPT ![s.v] = Eval(s.e, env, fns)], fns)
             [] s.do = "if" ->
                  LET open == {k \in DOMAIN s.arms : Truth(s.arms[k].cond, env, fns)}
                  IN  IF open = {} THEN then(s.else)
                      ELSE then(s.arms[CHOOSE k \in open : \A j \in open : k <= j].code)
             [] s.do = "while" ->
                  IF Truth(s.cond, env, fns) THEN then(s.body \o <<s>>) ELSE then(<<>>)
             [] s.do = "for" ->
                  then(<<s.init, While(s.cond, s.body \o <<s.step>>)>>)
-----------------------------------------------------------------------------
(* A run of a compiled procedure over numbers that are set leaves in the     *)
(* context tree what the source says (compile_Gamma_expression and .if,      *)
(* .while, .for of .Gamma.tcl).                                              *)
CompiledMeansSource ==
  [][prog.compiled /\ running /\ ~running' /\ (\A v \in Vars : input[v] # NaN) =>
       value' = Exec(prog.source.main, input, prog.source.functions)]_vars

(* A run of a compiled procedure ends (the loop of GammaVirtualMachineRun,   *)
(* virtual_machine.c:20, and not in a cell outside the batch or a stack).    *)
RunsEnd == (prog.compiled /\ running) ~> ~running

(* ..run <starting position> starts at that position (virtual_machine.c:27). *)
RunStartsWhereAsked ==
  [][~running /\ running' /\ asked' # -1 => pc' = asked']_vars
=============================================================================
