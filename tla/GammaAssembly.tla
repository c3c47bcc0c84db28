--------------------------- MODULE GammaAssembly ----------------------------
(***************************************************************************)
(* The programs that the assembler makes, and what it promises of them.    *)
(***************************************************************************)
EXTENDS MachineProperties, GammaAssembler

CONSTANTS
  Expressions,  \* the expressions of the sources, with all their parts
  Statements,   \* the commands in the bodies of the sources, with all their parts
  Assemblies    \* of each program the assembler made: its states, one per item done

Code == Seq(Statements)

Sequence(s) == s \in Seq({s[k] : k \in DOMAIN s})

IsExpression(e) ==
  /\ e.tree \in {"num", "ref", "bin", "call"}
  /\ e.tree = "bin" => e.f \in Arithmetic \cup Comparisons \cup Logic
                       /\ e.l \in Expressions /\ e.r \in Expressions
  /\ e.tree = "call" => e.actuals \in Seq(Expressions)

IsStatement(s) ==
  \/ s.do = "let" /\ s.e \in Expressions
  \/ /\ s.do = "if" /\ s.else \in Code
     /\ s.arms \in Seq([cond : Expressions, code : Code])
  \/ s.do = "while" /\ s.cond \in Expressions /\ s.body \in Code
  \/ /\ s.do = "for" /\ s.cond \in Expressions /\ s.body \in Code
     /\ s.init \in Statements /\ s.step \in Statements

IsFunction(fn) ==
  fn.do = "function" /\ fn.body \in Expressions /\ Sequence(fn.params)

ASSUME SourceAssumption ==
  /\ N(0) \in Expressions
  /\ \A e \in Expressions : IsExpression(e)
  /\ \A s \in Statements : IsStatement(s)

(* The states of the assembler from the source of p to the batch of p.       *)
IsAssembly(states, p) ==
  LET source == p.source
      n == Len(states)
  IN  /\ source.main \in Code /\ source.script \in BOOLEAN
      /\ Sequence(source.functions)
      /\ \A k \in DOMAIN source.functions : IsFunction(source.functions[k])
      /\ n \in Nat \ {0} /\ DOMAIN states = 1 .. n
      /\ states[1] = Session(source)
      /\ \A k \in 1 .. n - 1 :
           states[k].todo # <<>> /\ states[k + 1] = Assemble(states[k])
      /\ states[n].todo = <<>>
      /\ p.batch = states[n].code /\ p.starts = {states[n].start}

ASSUME AssemblyAssumption ==
  \A p \in Programs : p.compiled => IsAssembly(Assemblies[p], p)

(* No jump is left unlinked, and each leads to a command of the batch        *)
(* (LinkGamma, .Gamma.tcl:64), however constructs are nested.                *)
JumpsLinked ==
  prog.compiled =>
    \A k \in Positions :
      Batch(k).cell = "func" /\ Batch(k).is \in {"Goto", "GoSub"} =>
        Batch(k + 1).is \in Positions /\ Batch(Batch(k + 1).is).cell = "func"

=============================================================================
