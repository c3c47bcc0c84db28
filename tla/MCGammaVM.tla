------------------------------ MODULE MCGammaVM -----------------------------
(***************************************************************************)
(* Programs for GammaVM: sources to assemble, and two batches written by   *)
(* hand, as Etc/tests/Gamma.tcl does.                                      *)
(***************************************************************************)
EXTENDS GammaProperties, SequencesExt

MCVars == {"a", "b", "i"}
MCInputs == {[v \in MCVars |-> IF v = "i" THEN 0 ELSE IF v = "a" THEN x ELSE y] :
               x \in -2 .. 2, y \in -2 .. 2}
            \cup {[v \in MCVars |-> IF v = "b" THEN NaN ELSE 1]}
KnownInputs == {f \in MCInputs : \A v \in MCVars : f[v] # NaN}

A == Ref("a")
B == Ref("b")
I == Ref("i")

Square == Function("square", <<"x">>, Bin("Mult", Ref("x"), Ref("x")))
Below == Function("below", <<"y">>,
           Bin("Minus", Call("square", <<Bin("Plus", Ref("y"), N(1))>>), Ref("y")))

(* Calls in calls, and every special case of the optimizer.                  *)
Calls ==
  [functions |-> <<Square, Below>>, script |-> FALSE,
   main |-> <<Let("a", Bin("Plus", Call("below", <<B>>), A)),
              Let("b", Call("abs", <<Bin("Minus", B, A)>>)),
              Let("i", Bin("Plus", Bin("Plus", N(0), Bin("Mult", N(1), A)),
                           Bin("Minus", B, B)))>>]

(* A loop around a choice, as in Etc/tests/operating_point.tcl.              *)
Search ==
  [functions |-> <<>>, script |-> FALSE,
   main |-> <<For(Let("i", N(0)), Bin("LessThan", I, N(2)),
                  Let("i", Bin("Plus", I, N(1))),
                  <<If(<<Arm(Bin("GreaterThan", A, B),
                             <<Let("a", Bin("Minus", A, N(1)))>>)>>,
                       <<Let("b", Bin("Minus", B, A))>>)>>)>>]

(* Choices with several arms, one of them around a loop.                     *)
Nested ==
  [functions |-> <<Square>>, script |-> TRUE,
   main |-> <<If(<<Arm(Bin("LessThan", A, B),
                       <<While(Bin("AtMost", A, B),
                               <<Let("a", Bin("Plus", A, N(2)))>>)>>),
                   Arm(Bin("Equal", A, B), <<Let("b", Call("square", <<B>>))>>),
                   Arm(Bin("AtLeast", A, N(1)), <<Let("i", N(3))>>)>>,
                 <<If(<<Arm(Bin("Different", B, N(-1)), <<Let("b", N(0))>>)>>, <<>>)>>),
              Let("i", Bin("Plus", I, A))>>]

-----------------------------------------------------------------------------
(* Assembling a source, item by item.                                        *)

RECURSIVE Completed(_)
Completed(states) ==
  IF Last(states).todo = <<>> THEN states
  ELSE Completed(Append(states, Assemble(Last(states))))

Assembly(source) == Completed(<<Session(source)>>)

Result(source, states) ==
  [batch |-> Last(states).code, starts |-> {Last(states).start},
   compiled |-> TRUE, source |-> source]

Assembled(source) == Result(source, Assembly(source))

-----------------------------------------------------------------------------
(* Commands in a row, each with its operands.                                *)
ByHand(commands, starts) ==
  [batch |-> FoldLeft(LAMBDA a, c : Emit(a, Head(c), Tail(c)), Begin(<<>>), commands).code,
   starts |-> starts, compiled |-> FALSE, source |-> <<>>]

(* A loop that a comparison and Stop end, as the one that the comments of    *)
(* Etc/tests/Gamma.tcl:18-31 spell out.                                      *)
Counting ==
  ByHand(<<<<"PushVar", "a">>, <<"Push", 1>>, <<"Plus">>, <<"PopVar", "a">>,
           <<"PushVar", "a">>, <<"Push", 2>>, <<"AtMost">>, <<"Stop">>, <<"Pop">>,
           <<"DumpStack">>, <<"Goto", 0>>>>, {-1, 0})

(* A script that stops in the middle of a call.                              *)
StopInCall == ByHand(<<<<"PushVar", "a">>, <<"GoSub", 4>>, <<"Stop">>>>, {0})

(* Default, Branch, Reverse, Limit, Or and And, and what runs away.          *)
Sundry ==
  ByHand(<<<<"Default", "b", 2>>, <<"TestVar", "b", "b">>, <<"PushVar", "b">>,
           <<"PushVar", "a">>, <<"Push", 1>>, <<"Limit">>, <<"Reverse">>, <<"Pop">>,
           <<"Push", 0>>, <<"Or">>, <<"Branch", 2>>, <<"DumpStack">>, <<"DumpStack">>, <<"Pop">>,
           <<"Push", 1>>, <<"And">>, <<"Abs">>, <<"PopVar", "i">>, <<"Stop">>>>, {-1, 0})

HandPrograms == {Counting, Sundry, StopInCall}
MCPrograms == {Assembled(Calls), Assembled(Search), Assembled(Nested)} \cup HandPrograms

-----------------------------------------------------------------------------
(* Conditions joined by && and ||, after one that is not.                    *)

Joined(f) ==
  [functions |-> <<>>, script |-> FALSE,
   main |-> <<If(<<Arm(Bin("AtMost", A, N(2)), <<>>)>>, <<>>),
              If(<<Arm(Bin(f, Bin("GreaterThan", A, B), Bin("GreaterThan", B, N(0))),
                      <<Let("i", N(1))>>)>>, <<Let("i", N(2))>>)>>]

JoinedPrograms == {Assembled(Joined("And")), Assembled(Joined("Or"))}

-----------------------------------------------------------------------------
(* A function of two arguments.                                              *)

Difference == Function("difference", <<"x", "y">>, Bin("Minus", Ref("x"), Ref("y")))

TwoArguments ==
  [functions |-> <<Difference>>, script |-> FALSE,
   main |-> <<Let("i", Call("difference", <<A, B>>))>>]

ArgumentPrograms == {Assembled(TwoArguments)}
-----------------------------------------------------------------------------
(* The parts of the sources, and what the assembler does with each source.   *)

MCSources == {Calls, Search, Nested, Joined("And"), Joined("Or"), TwoArguments}

RECURSIVE Subexpressions(_)
Subexpressions(e) ==
  {e} \cup CASE e.tree = "bin" -> Subexpressions(e.l) \cup Subexpressions(e.r)
              [] e.tree = "call" -> UNION {Subexpressions(e.actuals[k]) : k \in DOMAIN e.actuals}
              [] OTHER -> {}

RECURSIVE Substatements(_)
Substatements(ss) ==
  UNION {LET s == ss[k] IN
         {s} \cup CASE s.do = "if" ->
                         Substatements(s.else) \cup
                         UNION {Substatements(s.arms[j].code) : j \in DOMAIN s.arms}
                    [] s.do = "while" -> Substatements(s.body)
                    [] s.do = "for" -> Substatements(<<s.init, s.step>> \o s.body)
                    [] OTHER -> {} : k \in DOMAIN ss}

MCStatements == UNION {Substatements(s.main) : s \in MCSources}

Roots(s) ==
  CASE s.do = "let" -> {s.e}
    [] s.do = "if" -> {s.arms[k].cond : k \in DOMAIN s.arms}
    [] s.do \in {"while", "for"} -> {s.cond}

MCExpressions ==
  UNION {Subexpressions(e) : e \in {N(0)} \cup UNION {Roots(s) : s \in MCStatements}
           \cup UNION {{s.functions[k].body : k \in DOMAIN s.functions} : s \in MCSources}}

MCAssemblies ==
  [p \in {Assembled(s) : s \in MCSources} |-> Assembly(p.source)]
=============================================================================
