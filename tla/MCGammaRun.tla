----------------------------- MODULE MCGammaRun ------------------------------
(***************************************************************************)
(* The programs of MCGammaVM with a plan for each assembled one, found by  *)
(* walking through its batch from where it starts and from each function.  *)
(***************************************************************************)
EXTENDS MCGammaVM, GammaDepths

IsReturn(p, r) == p.batch[r + 1].cell = "func" /\ p.batch[r + 1].is = "Return"

(* The marks that command k, marked m, gives to others.                      *)
Successors(p, k, m) ==
  LET f == p.batch[k + 1].is
      to(l, d) == <<l, Mark(d, m.entry)>>
      d == m.depth + Adds(f)
  IN  CASE f = "Goto" -> {to(p.batch[k + 2].is, d)}
        [] f = "Branch" -> {to(k + p.batch[k + 2].is + 2, d)}
        [] f = "GoSub" ->
             LET target == p.batch[k + 2].is
                 return == Min({r \in target .. Len(p.batch) - 1 : IsReturn(p, r)})
             IN  {<<target, Mark(0, target)>>,
                  to(k + 2, d + 1 - p.batch[return + 2].is)}
        [] f \in {"Return", "Stop"} -> {}
        [] f \in Comparisons \cup Logic ->
             {to(k + 1, d)} \cup IF p.batch[k + 2].is \in Unskippable THEN {}
                                 ELSE {to(k + 1 + Length(p.batch[k + 2].is), d)}
        [] OTHER -> {to(k + Length(f), d)}

(* A smaller depth replaces a greater one.                                   *)
RECURSIVE Explored(_, _, _)
Explored(p, plan, todo) ==
  IF todo = {} THEN plan
  ELSE LET t == CHOOSE t \in todo : TRUE
           k == t[1]
       IN  IF k \in DOMAIN plan /\ plan[k].depth <= t[2].depth
           THEN Explored(p, plan, todo \ {t})
           ELSE Explored(p, (k :> t[2]) @@ plan, (todo \ {t}) \cup Successors(p, k, t[2]))

Linked(p) ==
  \A k \in 0 .. Len(p.batch) - 1 :
    p.batch[k + 1].cell = "func" /\ p.batch[k + 1].is \in {"Goto", "GoSub"} =>
      p.batch[k + 2].is \in 0 .. Len(p.batch) - 1

MCPlans ==
  [p \in {q \in MCPrograms : q.compiled /\ Linked(q)} |->
     Explored(p, <<>>, {<<s, Mark(0, Main)>> : s \in p.starts})]
=============================================================================
