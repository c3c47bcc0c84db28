------------------------------ MODULE Netbatch ------------------------------
(***************************************************************************)
(* The batch queue of the web front end.  A client (netbatch, in           *)
(* .ramspice.tcl) leaves a request in a shared directory under the name of *)
(* a machine; a loop on that machine (Gamma/Web/FE/serve_loop.tcl) takes   *)
(* it, forks a process for it and kills processes on demand.  They share   *)
(* nothing but the directory: every step is one access to it.              *)
(*                                                                         *)
(* Random names and process numbers are taken to be unique, and no machine *)
(* has a name that begins with the name of another (the loop looks for     *)
(* gamma_HOST*.tcl).                                                       *)
(***************************************************************************)
EXTENDS Naturals, FiniteSets

CONSTANTS
  Hosts,      \* machines
  Loops,      \* serving loops
  Jobs,       \* requests, each with the client that submits it
  None,       \* no job
  MaxFaults   \* bound: crashes of loops and of jobs, failed jobs and failed forks

ASSUME NetbatchAssumption ==
  /\ Hosts # {} /\ Loops # {}
  /\ None \notin Jobs
  /\ IsFiniteSet(Jobs)
  /\ MaxFaults \in Nat

Indices == 0 .. Cardinality(Jobs)
Names == Hosts \X Indices          \* gamma_HOST_INDEX.tcl

VARIABLES
  ping,      \* machines whose ping file is less than five seconds old
  request,   \* the files gamma_HOST_INDEX.tcl
  young,     \* requests written less than two seconds ago
  loose,     \* requests under a random name
  active,    \* jobs with a file active_HOST_PID.tcl
  kills,     \* jobs with a file kill_HOST*.tcl that names their process
  client,    \* where each client is
  name,      \* the name a client is going to use
  host,      \* the machine of each loop
  loop,      \* where each loop is
  todo,      \* what its glob returned and it has not looked at yet
  held,      \* the job in its hands, or the name it is going to rename
  job,       \* where the process of each job is
  parent,    \* the loop that forked it
  starts,    \* history: how many times a job was started
  ended,     \* history: jobs that were killed, crashed or failed
  lost,      \* history: jobs whose request was overwritten
  faults

fileVars == <<ping, request, young, loose, active, kills>>
clientVars == <<client, name>>
loopVars == <<host, loop, todo, held>>
jobVars == <<job, parent, starts, ended>>
vars == <<fileVars, clientVars, loopVars, jobVars, lost, faults>>

Init ==
  /\ ping = {} /\ loose = {} /\ active = {} /\ kills = {} /\ young = {}
  /\ request = [n \in Names |-> None]
  /\ client = [j \in Jobs |-> "idle"]
  /\ name = [j \in Jobs |-> <<CHOOSE h \in Hosts : TRUE, 0>>]
  /\ host \in [Loops -> Hosts]
  /\ loop = [l \in Loops |-> "top"]
  /\ todo = [l \in Loops |-> {}]
  /\ held = [l \in Loops |-> None]
  /\ job = [j \in Jobs |-> "none"]
  /\ parent = [j \in Jobs |-> CHOOSE l \in Loops : TRUE]
  /\ starts = [j \in Jobs |-> 0]
  /\ ended = {} /\ lost = {} /\ faults = 0

-----------------------------------------------------------------------------
(* The client: netbatch.                                                     *)

Write(j) ==
  /\ client[j] = "idle"
  /\ client' = [client EXCEPT ![j] = "written"]
  /\ loose' = loose \cup {j}
  /\ young' = young \cup {j}
  /\ UNCHANGED <<ping, request, active, kills, name, loopVars, jobVars, lost, faults>>

(* A random machine among those that ping; with none, the file stays.        *)
Choose(j) ==
  /\ client[j] = "written"
  /\ IF ping = {}
     THEN client' = [client EXCEPT ![j] = "failed"] /\ UNCHANGED name
     ELSE \E h \in ping :
            /\ client' = [client EXCEPT ![j] = "probing"]
            /\ name' = [name EXCEPT ![j] = <<h, 0>>]
  /\ UNCHANGED <<fileVars, loopVars, jobVars, lost, faults>>

\* Mutant: the test of the loop is reversed.
ProbeWhileFree(j) ==
  /\ client[j] = "probing"
  /\ IF request[name[j]] = None
     THEN name' = [name EXCEPT ![j][2] = @ + 1] /\ UNCHANGED client
     ELSE client' = [client EXCEPT ![j] = "moving"] /\ UNCHANGED name
  /\ UNCHANGED <<fileVars, loopVars, jobVars, lost, faults>>

(* The first index that no file has.                                         *)
Probe(j) ==
  /\ client[j] = "probing"
  /\ IF request[name[j]] # None
     THEN name' = [name EXCEPT ![j][2] = @ + 1] /\ UNCHANGED client
     ELSE client' = [client EXCEPT ![j] = "moving"] /\ UNCHANGED name
  /\ UNCHANGED <<fileVars, loopVars, jobVars, lost, faults>>

(* mv replaces a file that came there since.                                 *)
Move(j) ==
  /\ client[j] = "moving"
  /\ client' = [client EXCEPT ![j] = "submitted"]
  /\ request' = [request EXCEPT ![name[j]] = j]
  /\ loose' = loose \ {j}
  /\ lost' = lost \cup ({request[name[j]]} \ {None})
  /\ UNCHANGED <<ping, young, active, kills, name, loopVars, jobVars, faults>>

-----------------------------------------------------------------------------
(* The serving loop.  An error in a command ends it.                         *)

Alive(l) == loop[l] \notin {"failed", "down"}
At(l, where) == [loop EXCEPT ![l] = where]

(* A finished process stays in the process table as long as the loop that    *)
(* forked it, which never waits for it: kill still finds it.                 *)
Runs(j) == job[j] \in {"forked", "running", "ending", "closing"}
InTable(j) == Runs(j) \/ job[j] = "zombie"

\* Mutant: finished processes are not kept, as with signal(SIGCHLD, SIG_IGN).
AfterExitReaped(j) == "gone"

AfterExit(j) == IF Alive(parent[j]) THEN "zombie" ELSE "gone"

Orphaned(l) ==
  job' = [j \in Jobs |-> IF job[j] = "zombie" /\ parent[j] = l THEN "gone" ELSE job[j]]

Fails(l) == loop' = At(l, "failed") /\ Orphaned(l)

(* Touch the ping file and look for kill files.                              *)
Ping(l) ==
  /\ loop[l] = "top"
  /\ loop' = At(l, "killing")
  /\ ping' = ping \cup {host[l]}
  /\ todo' = [todo EXCEPT ![l] = {j \in kills : host[parent[j]] = host[l]}]
  /\ UNCHANGED <<request, young, loose, active, kills, clientVars, host, held,
                 jobVars, lost, faults>>

\* Mutant: kill without -9, which a running job does not obey.
KillPolitely(l) ==
  /\ loop[l] = "killing" /\ todo[l] # {}
  /\ \E j \in todo[l] :
       IF j \in kills /\ InTable(j)
       THEN /\ loop' = At(l, "removing")
            /\ todo' = [todo EXCEPT ![l] = @ \ {j}]
            /\ held' = [held EXCEPT ![l] = j]
            /\ UNCHANGED job
       ELSE Fails(l) /\ UNCHANGED <<todo, held>>
  /\ UNCHANGED <<fileVars, clientVars, host, parent, starts, ended, lost, faults>>

(* source the kill file, kill -9 the process it names: both may fail.        *)
Kill(l) ==
  /\ loop[l] = "killing" /\ todo[l] # {}
  /\ \E j \in todo[l] :
       IF j \in kills /\ InTable(j)
       THEN /\ job' = [job EXCEPT ![j] = IF Runs(j) THEN AfterExit(j) ELSE @]
            /\ ended' = IF Runs(j) THEN ended \cup {j} ELSE ended
            /\ loop' = At(l, "removing")
            /\ todo' = [todo EXCEPT ![l] = @ \ {j}]
            /\ held' = [held EXCEPT ![l] = j]
       ELSE Fails(l) /\ UNCHANGED <<ended, todo, held>>
  /\ UNCHANGED <<fileVars, clientVars, host, parent, starts, lost, faults>>

(* rm the kill file; the active file of the job stays.                       *)
RemoveKill(l) ==
  /\ loop[l] = "removing"
  /\ IF held[l] \in kills
     THEN /\ kills' = kills \ {held[l]}
          /\ loop' = At(l, "killing")
          /\ held' = [held EXCEPT ![l] = None]
          /\ UNCHANGED job
     ELSE Fails(l) /\ UNCHANGED <<kills, held>>
  /\ UNCHANGED <<ping, request, young, loose, active, clientVars, host, todo,
                 parent, starts, ended, lost, faults>>

Find(l) ==
  /\ loop[l] = "killing" /\ todo[l] = {}
  /\ loop' = At(l, "taking")
  /\ todo' = [todo EXCEPT ![l] = {n \in Names : n[1] = host[l] /\ request[n] # None}]
  /\ UNCHANGED <<fileVars, clientVars, host, held, jobVars, lost, faults>>

\* Mutant: the ages that are passed over are the wrong ones.
LookAtYoung(l) ==
  /\ loop[l] = "taking"
  /\ \E n \in todo[l] :
       /\ todo' = [todo EXCEPT ![l] = @ \ {n}]
       /\ \/ request[n] = None /\ Fails(l) /\ UNCHANGED held
          \/ request[n] \in Jobs \ young /\ UNCHANGED <<held, loop, job>>
          \/ /\ request[n] \in young
             /\ loop' = At(l, "renaming")
             /\ held' = [held EXCEPT ![l] = n]
             /\ UNCHANGED job
  /\ UNCHANGED <<fileVars, clientVars, host, parent, starts, ended, lost, faults>>

(* The age of a file: a request that is gone is an error, a young one is     *)
(* passed over.                                                              *)
Look(l) ==
  /\ loop[l] = "taking"
  /\ \E n \in todo[l] :
       /\ todo' = [todo EXCEPT ![l] = @ \ {n}]
       /\ \/ request[n] = None /\ Fails(l) /\ UNCHANGED held
          \/ request[n] \in young /\ UNCHANGED <<held, loop, job>>
          \/ /\ request[n] \in Jobs \ young
             /\ loop' = At(l, "renaming")
             /\ held' = [held EXCEPT ![l] = n]
             /\ UNCHANGED job
  /\ UNCHANGED <<fileVars, clientVars, host, parent, starts, ended, lost, faults>>

\* Mutant: the request is copied to its random name, and not renamed.
TakeCopies(l) ==
  /\ loop[l] = "renaming"
  /\ request[held[l]] # None
  /\ loop' = At(l, "forking")
  /\ held' = [held EXCEPT ![l] = request[held[l]]]
  /\ loose' = loose \cup {request[held[l]]}
  /\ UNCHANGED <<ping, request, young, active, kills, clientVars, host, todo, jobVars,
                 lost, faults>>

(* The rename takes whatever file has the name by now; with none, it fails.  *)
Take(l) ==
  /\ loop[l] = "renaming"
  /\ \/ request[held[l]] = None /\ Fails(l) /\ UNCHANGED <<request, loose, held>>
     \/ /\ request[held[l]] # None
        /\ loop' = At(l, "forking")
        /\ held' = [held EXCEPT ![l] = request[held[l]]]
        /\ request' = [request EXCEPT ![held[l]] = None]
        /\ loose' = loose \cup {request[held[l]]}
        /\ UNCHANGED job
  /\ UNCHANGED <<ping, young, active, kills, clientVars, host, todo, parent, starts,
                 ended, lost, faults>>

Fork(l) ==
  /\ loop[l] = "forking"
  /\ loop' = At(l, "taking")
  /\ held' = [held EXCEPT ![l] = None]
  /\ job' = [job EXCEPT ![held[l]] = "forked"]
  /\ parent' = [parent EXCEPT ![held[l]] = l]
  /\ starts' = [starts EXCEPT ![held[l]] = @ + 1]
  /\ UNCHANGED <<fileVars, clientVars, host, todo, ended, lost, faults>>

(* fork answers -1, which the loop takes for the number of a process: the    *)
(* request keeps its random name and nobody runs it.                         *)
ForkFails(l) ==
  /\ loop[l] = "forking" /\ faults < MaxFaults
  /\ loop' = At(l, "taking")
  /\ held' = [held EXCEPT ![l] = None]
  /\ faults' = faults + 1
  /\ UNCHANGED <<fileVars, clientVars, host, todo, jobVars, lost>>

Again(l) ==
  /\ loop[l] = "taking" /\ todo[l] = {}
  /\ loop' = At(l, "top")
  /\ UNCHANGED <<fileVars, clientVars, host, todo, held, jobVars, lost, faults>>

-----------------------------------------------------------------------------
(* The process of a job: the rest of serve_loop.tcl after fork.              *)

JobGoes(j, from, to) == job[j] = from /\ job' = [job EXCEPT ![j] = to]

\* Mutant: the header returns without writing the active file.
HeaderSilent(j) ==
  /\ JobGoes(j, "forked", "running")
  /\ UNCHANGED <<fileVars, clientVars, loopVars, parent, starts, ended, lost, faults>>

(* The first source of the request runs netbatch_header, which writes the    *)
(* active file and returns from the request; the second runs its body.       *)
Header(j) ==
  /\ JobGoes(j, "forked", "running")
  /\ active' = active \cup {j}
  /\ UNCHANGED <<ping, request, young, loose, kills, clientVars, loopVars, parent,
                 starts, ended, lost, faults>>

Body(j) ==
  /\ JobGoes(j, "running", "ending")
  /\ UNCHANGED <<fileVars, clientVars, loopVars, parent, starts, ended, lost, faults>>

RemoveRequest(j) ==
  /\ JobGoes(j, "ending", "closing")
  /\ loose' = loose \ {j}
  /\ UNCHANGED <<ping, request, young, active, kills, clientVars, loopVars, parent,
                 starts, ended, lost, faults>>

\* Mutant: the process exits without removing its active file.
ExitAtOnce(j) ==
  /\ JobGoes(j, "closing", AfterExit(j))
  /\ UNCHANGED <<fileVars, clientVars, loopVars, parent, starts, ended, lost, faults>>

RemoveActive(j) ==
  /\ JobGoes(j, "closing", AfterExit(j))
  /\ active' = active \ {j}
  /\ UNCHANGED <<ping, request, young, loose, kills, clientVars, loopVars, parent,
                 starts, ended, lost, faults>>

-----------------------------------------------------------------------------
(* The world: time, the user, faults.                                        *)

(* Five seconds since a loop touched the file, two since a request was       *)
(* written.                                                                  *)
PingExpires(h) ==
  /\ h \in ping
  /\ ping' = ping \ {h}
  /\ UNCHANGED <<request, young, loose, active, kills, clientVars, loopVars, jobVars,
                 lost, faults>>
Age(j) ==
  /\ j \in young
  /\ young' = young \ {j}
  /\ UNCHANGED <<ping, request, loose, active, kills, clientVars, loopVars, jobVars,
                 lost, faults>>

(* A job the jobs page shows is asked to be killed.                          *)
AskKill(j) ==
  /\ j \in active \ kills
  /\ kills' = kills \cup {j}
  /\ UNCHANGED <<ping, request, young, loose, active, clientVars, loopVars, jobVars,
                 lost, faults>>

(* A crash, or an error in the body: its files stay.                         *)
JobCrash(j) ==
  /\ Runs(j) /\ faults < MaxFaults
  /\ job' = [job EXCEPT ![j] = AfterExit(j)]
  /\ ended' = ended \cup {j}
  /\ faults' = faults + 1
  /\ UNCHANGED <<fileVars, clientVars, loopVars, parent, starts, lost>>

LoopCrash(l) ==
  /\ Alive(l) /\ faults < MaxFaults
  /\ loop' = At(l, "down")
  /\ Orphaned(l)
  /\ faults' = faults + 1
  /\ UNCHANGED <<fileVars, clientVars, host, todo, held, parent, starts, ended, lost>>

(* A loop is started again; its process is a new one.                        *)
Restart(l) ==
  /\ ~Alive(l)
  /\ loop' = At(l, "top")
  /\ todo' = [todo EXCEPT ![l] = {}]
  /\ held' = [held EXCEPT ![l] = None]
  /\ UNCHANGED <<fileVars, clientVars, host, jobVars, lost, faults>>

ClientStep(j) == Write(j) \/ Choose(j) \/ Probe(j) \/ Move(j)
LoopStep(l) ==
  \/ Ping(l) \/ Kill(l) \/ RemoveKill(l)
  \/ Find(l) \/ Look(l) \/ Take(l) \/ Fork(l) \/ Again(l)
JobStep(j) == Header(j) \/ Body(j) \/ RemoveRequest(j) \/ RemoveActive(j)

Next ==
  \/ \E l \in Loops : LoopStep(l) \/ ForkFails(l) \/ LoopCrash(l) \/ Restart(l)
  \/ \E j \in Jobs : ClientStep(j) \/ JobStep(j) \/ Age(j) \/ AskKill(j) \/ JobCrash(j)
  \/ \E h \in Hosts : PingExpires(h)

Spec == Init /\ [][Next]_vars

(* Loops and time go on; a job's body may run for ever.                      *)
Serving ==
  /\ \A l \in Loops : WF_vars(LoopStep(l))
  /\ \A j \in Jobs : WF_vars(Age(j))
FairSpec == Spec /\ Serving
=============================================================================
