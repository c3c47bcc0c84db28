--------------------------- MODULE DominatedRegion ---------------------------
(***************************************************************************)
(* What a Pareto-associative table promises its users.  The region is the  *)
(* set of property records that some stored circuit is at least as good    *)
(* as.  Offering a circuit adds exactly what that circuit reaches, whether *)
(* the table stores it, drops it, or drops others for it; only a command   *)
(* that trims the table on purpose may lose part of the region.            *)
(***************************************************************************)
CONSTANTS
  Point,      \* property records
  Reach(_)    \* what a record is at least as good as

VARIABLES
  region,     \* records some stored circuit is at least as good as
  mode        \* "grow", or "trim" when the last command trims the table

vars == <<region, mode>>

Init ==
  /\ region = {}
  /\ mode = "grow"

Offer(p) ==
  /\ region' = region \cup Reach(p)
  /\ mode' = "grow"

Look ==
  /\ mode' = "grow"
  /\ UNCHANGED region

Trim ==
  /\ region' \subseteq region
  /\ mode' = "trim"

Next == (\E p \in Point : Offer(p)) \/ Look \/ Trim

Spec == Init /\ [][Next]_vars
=============================================================================
