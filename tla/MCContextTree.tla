---------------------------- MODULE MCContextTree ----------------------------
(***************************************************************************)
(* An instance of the context tree for TLC: two plain names and a number.  *)
(***************************************************************************)
EXTENDS TreeProperties

MCNames == {"a", "b", "#1"}
MCIndexOf == [n \in MCNames |-> IF n = "#1" THEN 1 ELSE -1]

CONSTANT MaxFollowed \* bound: no command follows once more contexts are allocated

(* A load may allocate beyond MaxFollowed, as the last command of a run.     *)
MCNext == tree.next <= MaxFollowed + 1 /\ Next
MCSpec == Init /\ [][MCNext]_vars
=============================================================================
