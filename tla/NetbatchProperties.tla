------------------------- MODULE NetbatchProperties -------------------------
(***************************************************************************)
(* What the batch queue promises.                                          *)
(***************************************************************************)
EXTENDS Netbatch

(* The types of the directory's files and of the processes (serve_loop.tcl). *)
TypeOK ==
  /\ ping \subseteq Hosts
  /\ request \in [Names -> Jobs \cup {None}]
  /\ young \subseteq Jobs /\ loose \subseteq Jobs
  /\ active \subseteq Jobs /\ kills \subseteq Jobs
  /\ client \in [Jobs -> {"idle", "written", "probing", "moving", "submitted", "failed"}]
  /\ name \in [Jobs -> Names]
  /\ host \in [Loops -> Hosts]
  /\ loop \in [Loops -> {"top", "killing", "removing", "taking", "renaming", "forking",
                    "failed", "down"}]
  /\ todo \in [Loops -> SUBSET (Jobs \cup Names)]
  /\ held \in [Loops -> Jobs \cup Names \cup {None}]
  /\ job \in [Jobs -> {"none", "forked", "running", "ending", "closing", "zombie", "gone"}]
  /\ parent \in [Jobs -> Loops]
  /\ starts \in [Jobs -> Nat]
  /\ ended \subseteq Jobs /\ lost \subseteq Jobs
  /\ faults \in 0 .. MaxFaults

(* A job whose body runs has an active file, so the jobs page can show it    *)
(* and offer to terminate it (gamma_jobs.tcl:43).                            *)
RunningIsListed == \A j \in Jobs : job[j] \in {"running", "ending", "closing"} => j \in active

(* An active file belongs to a process that runs, or to one that did not     *)
(* come to its end: killed, crashed or failed (serve_loop.tcl:9 kills the    *)
(* process and leaves its file).                                             *)
ActiveMeansRunning == \A j \in active : Runs(j) \/ j \in ended

(* A loop stops by itself only where another loop serves the same machine,   *)
(* or after a fault: a kill file may then name a process that is out of the  *)
(* process table, and kill fails (serve_loop.tcl:9).                         *)
LoopGoesOn ==
  [][\A l \in Loops : loop[l] # "failed" /\ loop'[l] = "failed" =>
       faults > 0 \/ \E k \in Loops \ {l} : host[k] = host[l]]_vars

Disturbed == faults > 0 \/ \E l \in Loops : loop[l] = "failed"

(* A job that was submitted is started, unless a loop stops, fork fails, or  *)
(* another client overwrites its request (.ramspice.tcl:102: the name is     *)
(* looked up first and used afterwards).                                     *)
JobsStart ==
  \A j \in Jobs : client[j] = "submitted" ~> starts[j] > 0 \/ j \in lost \/ Disturbed

(* A job that is asked to be killed ends, even if it would never end by      *)
(* itself, unless a loop stops or a fault came before.                       *)
KillsLand == \A j \in Jobs : j \in kills /\ Runs(j) ~> ~Runs(j) \/ Disturbed

(* A job starts at most once and ends at most once, whatever crashes and     *)
(* however many loops look at the same request (serve_loop.tcl:15).          *)
Status(j) ==
  IF client[j] # "submitted" THEN "new"
  ELSE IF j \in lost THEN "lost"
  ELSE IF starts[j] = 0 THEN "queued"
  ELSE IF starts[j] > 1 THEN "repeated"
  ELSE IF Runs(j) THEN "running" ELSE "ended"
Life == INSTANCE JobLife WITH Job <- Jobs, status <- [j \in Jobs |-> Status(j)]
JobsRunOnce == Life!Spec
=============================================================================
