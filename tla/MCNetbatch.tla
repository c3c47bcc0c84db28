----------------------------- MODULE MCNetbatch -----------------------------
(***************************************************************************)
(* Instances of the batch queue for TLC: two beginnings.  In both, the     *)
(* user terminates the first job only.                                     *)
(***************************************************************************)
EXTENDS NetbatchProperties

CONSTANTS h1, h2, l1, l2, j1, j2

MCHosts == {h1, h2}
MCLoops == {l1, l2}
MCJobs == {j1, j2}

(* Two loops serve one machine; nothing crashes and every fork succeeds.     *)
SharedInit == Init /\ host = [l \in Loops |-> h1]
Shared == host[l2] = h1 => faults' = 0

(* Each loop has its machine; the first loop or the first job may crash, or a *)
(* fork of the first loop fail.                                              *)
ApartInit == Init /\ host = [l \in Loops |-> IF l = l1 THEN h1 ELSE h2]
Apart == host[l2] = h2 => loop'[l2] # "down" /\ j2 \notin ended' /\ ~ForkFails(l2)

(* Only a client that has still to choose a machine looks at the ping files. *)
PingMatters == ping \subseteq ping' \/ \E j \in Jobs : client[j] \in {"idle", "written"}

MCSpec ==
  /\ SharedInit \/ ApartInit
  /\ [][Next /\ Shared /\ Apart /\ PingMatters /\ j2 \notin kills']_vars
  /\ Serving
=============================================================================
