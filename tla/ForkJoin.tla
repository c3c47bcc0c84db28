------------------------------ MODULE ForkJoin ------------------------------
(***************************************************************************)
(* What fork_each promises its caller.  A task that a node has taken is    *)
(* evaluated at most once, and a fork_each that returns has waited for     *)
(* every task it sent.                                                     *)
(***************************************************************************)
EXTENDS Sequences

CONSTANT Task

VARIABLES
  offered,   \* tasks taken by some node
  log,       \* tasks evaluated, in order
  returned   \* tasks that a fork_each has waited for to the end

vars == <<offered, log, returned>>

Evaluated == {log[i] : i \in DOMAIN log}

Init == offered = {} /\ log = <<>> /\ returned = {}

(* The next task is named from the state it leads to, so that TLC need not   *)
(* enumerate Task.                                                           *)
Offer ==
  /\ \E t \in offered' : t \in Task /\ t \notin offered /\ offered' = offered \cup {t}
  /\ UNCHANGED <<log, returned>>

Run ==
  /\ \E t \in offered : t \notin Evaluated /\ log' = Append(log, t)
  /\ UNCHANGED <<offered, returned>>

Return ==
  /\ returned \subseteq returned'
  /\ returned' \subseteq Evaluated
  /\ UNCHANGED <<offered, log>>

Next == Offer \/ Run \/ Return

Spec == Init /\ [][Next]_vars
=============================================================================
