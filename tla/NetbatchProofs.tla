---------------------------- MODULE NetbatchProofs ----------------------------
(***************************************************************************)
(* Machine-checked proofs about the batch queue, for any number of         *)
(* machines, serving loops, clients and faults.                            *)
(***************************************************************************)
EXTENDS NetbatchProperties, FiniteSetTheorems, TLAPS

-----------------------------------------------------------------------------
(* The inductive invariant.                                                  *)

(* What a loop's glob returned, and what it holds.                           *)
Hands ==
  \A l \in Loops :
    /\ loop[l] \in {"killing", "removing"} => todo[l] \subseteq Jobs
    /\ loop[l] \in {"taking", "renaming", "forking"} => todo[l] \subseteq Names
    /\ loop[l] = "renaming" => held[l] \in Names
    /\ loop[l] \in {"removing", "forking"} => held[l] \in Jobs

(* Submitted, and neither overwritten nor started.                           *)
Pending == {j \in Jobs : client[j] = "submitted" /\ j \notin lost /\ starts[j] = 0}

(* A request has the name its client chose and is that of a pending job.     *)
Queue ==
  \A n \in Names : request[n] # None =>
    request[n] \in Pending /\ name[request[n]] = n

(* A job about to be forked is pending, its request is gone and no other     *)
(* loop holds it.                                                            *)
Forking ==
  \A l \in Loops : loop[l] = "forking" =>
    /\ held[l] \in Pending
    /\ \A n \in Names : request[n] # held[l]
    /\ \A k \in Loops \ {l} : loop[k] = "forking" => held[k] # held[l]

(* A job starts once at most; before that it has no process.                 *)
Lives ==
  \A j \in Jobs :
    /\ starts[j] \in {0, 1}
    /\ starts[j] = 0 <=> job[j] = "none"
    /\ client[j] # "submitted" => starts[j] = 0 /\ j \notin lost
    /\ j \in lost => starts[j] = 0

(* A client that passes a name over leaves it to another client's request.   *)
(* This is what bounds the indices.                                          *)
Passed ==
  \A j \in Jobs : client[j] \in {"probing", "moving"} =>
    \A i \in 0 .. name[j][2] - 1 : \E k \in Jobs \ {j} :
      client[k] = "submitted" /\ name[k] = <<name[j][1], i>>

(* Only jobs that were started have active files, and kill files.            *)
Files ==
  /\ RunningIsListed
  /\ ActiveMeansRunning
  /\ \A j \in active \cup kills : job[j] # "none"

(* A loop looks at kill files of processes of its own machine, and at        *)
(* requests to it.                                                           *)
Local(l, j) == host[parent[j]] = host[l] /\ job[j] # "none"
Aims ==
  \A l \in Loops :
    /\ loop[l] \in {"killing", "removing"} => \A j \in todo[l] : Local(l, j)
    /\ loop[l] = "removing" => Local(l, held[l])
    /\ loop[l] \in {"taking", "renaming", "forking"} => \A n \in todo[l] : n[1] = host[l]
    /\ loop[l] = "renaming" => held[l][1] = host[l]

(* The only loop of its machine, while nothing has crashed.                  *)
Alone(l) == faults = 0 /\ \A k \in Loops \ {l} : host[k] # host[l]

(* Nobody takes from it what it has seen, and its processes stay in the      *)
(* process table.                                                            *)
Undisturbed ==
  \A l \in Loops : Alone(l) =>
    /\ Alive(l)
    /\ loop[l] \in {"killing", "removing"} => todo[l] \subseteq kills
    /\ loop[l] = "removing" => held[l] \in kills \ todo[l]
    /\ loop[l] \in {"taking", "renaming", "forking"} =>
         \A n \in todo[l] : request[n] # None
    /\ loop[l] = "renaming" => held[l] \notin todo[l] /\ request[held[l]] # None
    /\ \A j \in Jobs : parent[j] = l => job[j] # "gone"

IInv ==
  /\ TypeOK /\ Hands /\ Queue /\ Forking /\ Lives /\ Passed /\ Files /\ Aims
  /\ Undisturbed

-----------------------------------------------------------------------------
(* The indices of names.                                                     *)

(* Indices that are those of distinct other jobs are fewer than the jobs.    *)
LEMMA FewIndices ==
  ASSUME NEW j \in Jobs, NEW m \in Nat,
         \A i \in 0 .. m - 1 : \E k \in Jobs \ {j} : name[k][2] = i
  PROVE  m <= Cardinality(Jobs) - 1 /\ Cardinality(Jobs) \in Nat
<1> DEFINE Others == Jobs \ {j}
           Owner == [i \in 0 .. m - 1 |-> CHOOSE k \in Others : name[k][2] = i]
<1>1. /\ IsFiniteSet(Others) /\ Cardinality(Others) = Cardinality(Jobs) - 1
      /\ Cardinality(Jobs) \in Nat
  BY FS_RemoveElement, FS_CardinalityType, NetbatchAssumption DEF NetbatchAssumption
<1>2. IsFiniteSet(0 .. m - 1) /\ Cardinality(0 .. m - 1) = m
  BY FS_Interval
<1>3. Owner \in [0 .. m - 1 -> Others] /\ \A i \in 0 .. m - 1 : name[Owner[i]][2] = i
  OBVIOUS
<1>4. \A x, y \in 0 .. m - 1 : Owner[x] = Owner[y] => x = y
  BY <1>3
<1> HIDE DEF Others, Owner
<1>5. ~(Cardinality(Others) < Cardinality(0 .. m - 1))
  BY <1>1, <1>2, <1>3, <1>4, FS_PigeonHole
<1> QED
  BY <1>1, <1>2, <1>5

(* A client that finds a name in use has only passed over names of other     *)
(* clients.                                                                  *)
LEMMA InUsePassed ==
  ASSUME TypeOK, Passed, Queue, NEW j \in Jobs, client[j] = "probing",
         request[name[j]] # None
  PROVE  \A i \in 0 .. name[j][2] : \E k \in Jobs \ {j} :
           client[k] = "submitted" /\ name[k] = <<name[j][1], i>>
<1>1. name[j] \in Names /\ name[j] = <<name[j][1], name[j][2]>> /\ name[j][2] \in Nat
  BY NetbatchAssumption, FS_CardinalityType DEF TypeOK, Names, Indices, NetbatchAssumption
<1>2. request[name[j]] \in Jobs \ {j} /\ client[request[name[j]]] = "submitted"
      /\ name[request[name[j]]] = name[j]
  BY <1>1 DEF Queue, Pending
<1> TAKE i \in 0 .. name[j][2]
<1>3. CASE i = name[j][2]
  BY <1>1, <1>2, <1>3
<1>4. CASE i # name[j][2]
  <2>1. i \in 0 .. name[j][2] - 1
    BY <1>1, <1>4
  <2> QED
    BY <2>1 DEF Passed
<1> QED
  BY <1>3, <1>4

-----------------------------------------------------------------------------
(* Every step keeps each part of the invariant.                              *)

(* Probing changes the index of one name, or nothing.                        *)
LEMMA ProbeNames ==
  ASSUME TypeOK, NEW j \in Jobs, Probe(j)
  PROVE  /\ \A k \in Jobs \ {j} : name'[k] = name[k] /\ client'[k] = client[k]
         /\ client'[j] \in {"probing", "moving"} /\ client[j] = "probing"
         /\ name[j] \in Hosts \X Nat /\ name'[j][1] = name[j][1]
         /\ request[name[j]] # None =>
              name' = [name EXCEPT ![j] = <<name[j][1], name[j][2] + 1>>]
         /\ request[name[j]] = None => name' = name
<1>1. /\ name \in [Jobs -> Names] /\ client \in [Jobs -> {"idle", "written", "probing", "moving",
                                                             "submitted", "failed"}]
  BY DEF TypeOK
<1>2. name[j] \in Hosts \X Nat
  <2>1. Indices \subseteq Nat
    BY FS_CardinalityType, NetbatchAssumption DEF Indices, NetbatchAssumption
  <2>2. name[j] \in Hosts \X Indices
    BY ONLY <1>1 DEF Names
  <2> QED
    BY ONLY <2>1, <2>2
<1>3. CASE request[name[j]] # None
  <2>1. name' = [name EXCEPT ![j][2] = @ + 1] /\ client' = client /\ client[j] = "probing"
    BY <1>3 DEF Probe
  <2>2. ASSUME NEW p \in Hosts \X Nat
        PROVE  [p EXCEPT ![2] = @ + 1] = <<p[1], p[2] + 1>>
    BY ONLY <2>2
  <2>3. name' = [name EXCEPT ![j] = [name[j] EXCEPT ![2] = @ + 1]]
    BY ONLY <2>1
  <2>4. name' = [name EXCEPT ![j] = <<name[j][1], name[j][2] + 1>>]
    BY ONLY <1>2, <2>2, <2>3
  <2>5. name'[j] = <<name[j][1], name[j][2] + 1>> /\ \A k \in Jobs \ {j} : name'[k] = name[k]
    BY ONLY <1>1, <2>4
  <2>6. name'[j][1] = name[j][1]
    BY ONLY <2>5
  <2>7. client' = client /\ client[j] = "probing"
    BY ONLY <2>1
  <2>8. client'[j] \in {"probing", "moving"} /\ \A k \in Jobs \ {j} : client'[k] = client[k]
    BY ONLY <2>7
  <2> QED
    BY ONLY <1>2, <1>3, <2>4, <2>5, <2>6, <2>7, <2>8, Zenon
<1>4. CASE request[name[j]] = None
  <2>1. name' = name /\ client' = [client EXCEPT ![j] = "moving"] /\ client[j] = "probing"
    BY <1>4 DEF Probe
  <2> QED
    BY ONLY <1>1, <1>2, <1>4, <2>1
<1> QED
  BY <1>3, <1>4

LoopStates ==
  {"top", "killing", "removing", "taking", "renaming", "forking", "failed", "down"}
JobStates == {"none", "forked", "running", "ending", "closing", "zombie", "gone"}

(* Where loops and processes can go.                                         *)
LEMMA Goings ==
  ASSUME TypeOK
  PROVE  /\ \A l \in Loops, w \in LoopStates : At(l, w) \in [Loops -> LoopStates]
         /\ \A l \in Loops : Orphaned(l) => job' \in [Jobs -> JobStates]
         /\ \A l \in Loops : Fails(l) => /\ loop' \in [Loops -> LoopStates]
                                         /\ job' \in [Jobs -> JobStates]
         /\ \A j \in Jobs : AfterExit(j) \in JobStates
<1>1. loop \in [Loops -> LoopStates] /\ job \in [Jobs -> JobStates]
  BY DEF TypeOK, LoopStates, JobStates
<1>2. \A l \in Loops, w \in LoopStates : At(l, w) \in [Loops -> LoopStates]
  BY ONLY <1>1 DEF At
<1>3. \A l \in Loops : Orphaned(l) => job' \in [Jobs -> JobStates]
  BY ONLY <1>1 DEF Orphaned, JobStates
<1>4. \A j \in Jobs : AfterExit(j) \in JobStates
  BY DEF AfterExit, JobStates
<1> QED
  BY <1>2, <1>3, <1>4 DEF Fails, LoopStates

(* Types.                                                                    *)
LEMMA TypeStep ==
  ASSUME IInv, Next
  PROVE  TypeOK'
<1> USE NetbatchAssumption DEF NetbatchAssumption
<1>0. TypeOK
  BY DEF IInv
<1>1. ASSUME NEW l \in Loops, Ping(l)
      PROVE  TypeOK'
  BY <1>1 DEF IInv, TypeOK, Ping, At, fileVars, clientVars, loopVars, jobVars
<1>2. ASSUME NEW l \in Loops, Kill(l)
      PROVE  TypeOK'
  <2> USE <1>0
  <2>1. PICK j \in todo[l] :
          IF j \in kills /\ InTable(j)
          THEN /\ job' = [job EXCEPT ![j] = IF Runs(j) THEN AfterExit(j) ELSE @]
               /\ ended' = IF Runs(j) THEN ended \cup {j} ELSE ended
               /\ loop' = At(l, "removing")
               /\ todo' = [todo EXCEPT ![l] = @ \ {j}]
               /\ held' = [held EXCEPT ![l] = j]
          ELSE Fails(l) /\ UNCHANGED <<ended, todo, held>>
    BY <1>2 DEF Kill
  <2>2. /\ loop' \in [Loops -> LoopStates] /\ job' \in [Jobs -> JobStates]
        /\ todo' \in [Loops -> SUBSET (Jobs \cup Names)] /\ held' \in [Loops -> Jobs \cup Names \cup {None}]
        /\ ended' \subseteq Jobs
    <3>1. CASE j \in kills /\ InTable(j)
      <4>1. j \in Jobs
        BY <3>1 DEF TypeOK
      <4>2. loop' \in [Loops -> LoopStates]
        BY <2>1, <3>1, Goings DEF LoopStates
      <4>3. job' \in [Jobs -> JobStates]
        BY <2>1, <3>1, <4>1, Goings DEF TypeOK, JobStates
      <4>4. /\ todo' \in [Loops -> SUBSET (Jobs \cup Names)]
            /\ held' \in [Loops -> Jobs \cup Names \cup {None}] /\ ended' \subseteq Jobs
        BY <2>1, <3>1, <4>1 DEF TypeOK
      <4> QED
        BY <4>2, <4>3, <4>4
    <3>2. CASE ~(j \in kills /\ InTable(j))
      BY <2>1, <3>2, Goings DEF TypeOK
    <3> QED
      BY <3>1, <3>2
  <2>3. UNCHANGED <<fileVars, clientVars, host, parent, starts, lost, faults>>
    BY <1>2 DEF Kill
  <2> QED
    BY <2>2, <2>3 DEF TypeOK, LoopStates, JobStates, fileVars, clientVars
<1>3. ASSUME NEW l \in Loops, RemoveKill(l)
      PROVE  TypeOK'
  BY <1>3 DEF IInv, TypeOK, RemoveKill, At, Fails, Orphaned, fileVars,
      clientVars, loopVars, jobVars
<1>4. ASSUME NEW l \in Loops, Find(l)
      PROVE  TypeOK'
  BY <1>4 DEF IInv, TypeOK, Find, At, fileVars, clientVars, loopVars, jobVars
<1>5. ASSUME NEW l \in Loops, Look(l)
      PROVE  TypeOK'
  <2> USE <1>0
  <2>1. PICK n \in todo[l] :
          /\ todo' = [todo EXCEPT ![l] = @ \ {n}]
          /\ \/ Fails(l) /\ UNCHANGED held
             \/ UNCHANGED <<held, loop, job>>
             \/ loop' = At(l, "renaming") /\ held' = [held EXCEPT ![l] = n] /\ UNCHANGED job
    BY <1>5 DEF Look
  <2>2. n \in Names /\ todo' \in [Loops -> SUBSET (Jobs \cup Names)]
    BY <1>5, <2>1 DEF TypeOK, IInv, Hands, Look
  <2>3. loop' \in [Loops -> LoopStates] /\ job' \in [Jobs -> JobStates]
    BY <2>1, Goings DEF TypeOK, LoopStates, JobStates
  <2>4. held' \in [Loops -> Jobs \cup Names \cup {None}]
    BY <2>1, <2>2 DEF TypeOK
  <2>5. UNCHANGED <<fileVars, clientVars, host, parent, starts, ended, lost, faults>>
    BY <1>5 DEF Look
  <2> QED
    BY <2>2, <2>3, <2>4, <2>5 DEF TypeOK, LoopStates, JobStates, fileVars, clientVars
<1>15. ASSUME NEW l \in Loops, Take(l)
      PROVE  TypeOK'
  <2> USE <1>0
  <2>1. held[l] \in Names
    BY <1>15 DEF IInv, Hands, Take
  <2>2. loop' \in [Loops -> LoopStates] /\ job' \in [Jobs -> JobStates]
    BY <1>15, Goings DEF TypeOK, Take, LoopStates, JobStates
  <2>3. /\ request' \in [Names -> Jobs \cup {None}] /\ loose' \subseteq Jobs
        /\ held' \in [Loops -> Jobs \cup Names \cup {None}]
    BY <1>15, <2>1 DEF TypeOK, Take
  <2>4. UNCHANGED <<ping, young, active, kills, clientVars, host, todo, parent, starts,
                    ended, lost, faults>>
    BY <1>15 DEF Take
  <2> QED
    BY <2>2, <2>3, <2>4 DEF TypeOK, LoopStates, JobStates, clientVars
<1>6. ASSUME NEW l \in Loops, Fork(l)
      PROVE  TypeOK'
  BY <1>6 DEF IInv, TypeOK, Hands, Fork, At, fileVars, clientVars, loopVars,
      jobVars
<1>7. ASSUME NEW l \in Loops, LoopCrash(l)
      PROVE  TypeOK'
  BY <1>7 DEF IInv, TypeOK, LoopCrash, At, Alive, Orphaned, fileVars,
      clientVars, loopVars, jobVars
<1>8. ASSUME NEW j \in Jobs, Choose(j)
      PROVE  TypeOK'
  <2>1. ping = {} \/ \E h \in Hosts : name' = [name EXCEPT ![j] = <<h, 0>>]
    BY <1>8 DEF IInv, TypeOK, Choose
  <2>2. \A h \in Hosts : <<h, 0>> \in Names
    BY FS_CardinalityType DEF Names, Indices
  <2>3. name' \in [Jobs -> Names]
    BY <1>8, <2>1, <2>2 DEF IInv, TypeOK, Choose
  <2> QED
    BY <1>8, <2>3 DEF IInv, TypeOK, Choose, fileVars, loopVars, jobVars
<1>9. ASSUME NEW j \in Jobs, Probe(j)
      PROVE  TypeOK'
  <2>1. name' \in [Jobs -> Names]
    <3>1. CASE request[name[j]] # None
      <4>1. name[j][2] + 1 <= Cardinality(Jobs) - 1 /\ Cardinality(Jobs) \in Nat
        <5>1. name[j][2] \in Nat
          BY FS_CardinalityType DEF IInv, TypeOK, Names, Indices
        <5>2. \A i \in 0 .. (name[j][2] + 1) - 1 : \E k \in Jobs \ {j} : name[k][2] = i
          <6> SUFFICES ASSUME NEW i \in 0 .. name[j][2]
                       PROVE  \E k \in Jobs \ {j} : name[k][2] = i
            BY <5>1
          <6>1. PICK k \in Jobs \ {j} : name[k] = <<name[j][1], i>>
            BY <3>1, <1>9, InUsePassed DEF IInv, Probe
          <6> QED
            BY <6>1
        <5> QED
          BY <5>1, <5>2, FewIndices
      <4> QED
        <5>1. name' = [name EXCEPT ![j] = <<name[j][1], name[j][2] + 1>>]
          BY <1>0, <1>9, <3>1, ProbeNames
        <5>2. name[j] \in Hosts \X Nat
          BY <1>0, <1>9, ProbeNames
        <5>3. <<name[j][1], name[j][2] + 1>> \in Names
          BY ONLY <4>1, <5>2 DEF Names, Indices
        <5> QED
          BY ONLY <1>0, <5>1, <5>3 DEF TypeOK
    <3>2. CASE request[name[j]] = None
      BY <1>0, <3>2, <1>9, ProbeNames DEF TypeOK
    <3> QED
      BY <3>1, <3>2
  <2> QED
    BY <1>9, <2>1 DEF IInv, TypeOK, Probe, fileVars, loopVars, jobVars
<1>10. ASSUME NEW j \in Jobs, Move(j)
      PROVE  TypeOK'
  BY <1>10 DEF IInv, TypeOK, Move, fileVars, clientVars, loopVars, jobVars
<1>11. ASSUME NEW j \in Jobs, JobCrash(j)
      PROVE  TypeOK'
  BY <1>11 DEF IInv, TypeOK, JobCrash, Runs, AfterExit, Alive, fileVars,
      clientVars, loopVars, jobVars
<1>12. ASSUME NEW l \in Loops, Again(l) \/ Restart(l) \/ ForkFails(l)
      PROVE  TypeOK'
  BY <1>12 DEF IInv, TypeOK, Again, At, Restart, ForkFails, Alive, fileVars, clientVars,
      loopVars, jobVars
<1>13. ASSUME NEW j \in Jobs,
             \/ Write(j) \/ Header(j) \/ Body(j) \/ RemoveRequest(j)
             \/ RemoveActive(j) \/ Age(j) \/ AskKill(j)
      PROVE  TypeOK'
  BY <1>13 DEF IInv, TypeOK, Write, Header, JobGoes, Body, RemoveRequest,
      RemoveActive, AfterExit, Alive, Age, AskKill, fileVars, clientVars,
      loopVars, jobVars
<1>14. ASSUME NEW h \in Hosts, PingExpires(h)
      PROVE  TypeOK'
  BY <1>14 DEF IInv, TypeOK, PingExpires, fileVars, clientVars, loopVars,
      jobVars
<1> QED
  BY <1>1, <1>2, <1>3, <1>4, <1>5, <1>6, <1>7, <1>8, <1>9, <1>10, <1>11, <1>12,
      <1>13, <1>14, <1>15 DEF Next, LoopStep, ClientStep, JobStep

(* Names that were passed over stay those of submitted jobs.                 *)
LEMMA PassedStep ==
  ASSUME IInv, Next
  PROVE  Passed'
<1>1. ASSUME UNCHANGED <<client, name>>
      PROVE  Passed'
  BY <1>1 DEF IInv, Passed
<1>2. ASSUME NEW j \in Jobs, Write(j) \/ Choose(j) \/ Move(j)
      PROVE  Passed'
  <2> SUFFICES ASSUME NEW j2 \in Jobs, client'[j2] \in {"probing", "moving"},
                      NEW i \in 0 .. name'[j2][2] - 1
               PROVE  \E k \in Jobs \ {j2} :
                        client'[k] = "submitted" /\ name'[k] = <<name'[j2][1], i>>
    BY DEF Passed
  <2>1. CASE j2 = j
    BY <1>2, <2>1 DEF IInv, TypeOK, Write, Choose, Move
  <2>2. CASE j2 # j
    <3>1. client[j2] \in {"probing", "moving"} /\ name'[j2] = name[j2]
      BY <1>2, <2>2 DEF IInv, TypeOK, Write, Choose, Move
    <3>2. PICK k \in Jobs \ {j2} : client[k] = "submitted" /\ name[k] = <<name[j2][1], i>>
      BY <3>1 DEF IInv, Passed
    <3>3. client'[k] = "submitted" /\ name'[k] = name[k]
      BY <1>2, <3>2 DEF IInv, TypeOK, Write, Choose, Move
    <3> QED
      BY <3>1, <3>2, <3>3
  <2> QED
    BY <2>1, <2>2
<1>3. ASSUME NEW j \in Jobs, Probe(j)
      PROVE  Passed'
  <2> SUFFICES ASSUME NEW j2 \in Jobs, client'[j2] \in {"probing", "moving"},
                      NEW i \in 0 .. name'[j2][2] - 1
               PROVE  \E k \in Jobs \ {j2} :
                        client'[k] = "submitted" /\ name'[k] = <<name'[j2][1], i>>
    BY DEF Passed
  <2>1. /\ client[j2] \in {"probing", "moving"} /\ name'[j2][1] = name[j2][1]
        /\ \A k \in Jobs : client[k] = "submitted" =>
             client'[k] = "submitted" /\ name'[k] = name[k]
    <3>1. TypeOK
      BY DEF IInv
    <3>2. /\ \A k \in Jobs \ {j} : name'[k] = name[k] /\ client'[k] = client[k]
          /\ client[j] = "probing" /\ name'[j][1] = name[j][1]
      BY <1>3, <3>1, ProbeNames
    <3> QED
      BY ONLY <3>2, client'[j2] \in {"probing", "moving"}
  <2>2. \E k \in Jobs \ {j2} : client[k] = "submitted" /\ name[k] = <<name[j2][1], i>>
    <3>1. CASE j2 = j /\ request[name[j]] # None
      <4>1. name'[j][2] = name[j][2] + 1 /\ name[j][2] \in Nat
        BY <1>3, <3>1, ProbeNames DEF IInv, TypeOK
      <4>2. i \in 0 .. name[j][2]
        BY <4>1, <3>1
      <4> QED
        BY <1>3, <3>1, <4>2, InUsePassed DEF IInv, Probe
    <3>2. CASE ~(j2 = j /\ request[name[j]] # None)
      <4>1. name'[j2] = name[j2]
        BY <1>3, <3>2 DEF IInv, TypeOK, Probe
      <4> QED
        BY <2>1, <4>1 DEF IInv, Passed
    <3> QED
      BY <3>1, <3>2
  <2> QED
    BY <2>1, <2>2
<1>4. ASSUME NEW l \in Loops, LoopStep(l) \/ ForkFails(l) \/ LoopCrash(l) \/ Restart(l)
      PROVE  UNCHANGED <<client, name>>
  BY <1>4
  DEF LoopStep, Ping, Kill, RemoveKill, Find, Look, Take, Fork, ForkFails, Again, LoopCrash,
      Restart, clientVars
<1>5. ASSUME NEW j \in Jobs, JobStep(j) \/ Age(j) \/ AskKill(j) \/ JobCrash(j)
      PROVE  UNCHANGED <<client, name>>
  BY <1>5
  DEF JobStep, Header, Body, RemoveRequest, RemoveActive, Age, AskKill, JobCrash, clientVars
<1>6. ASSUME NEW h \in Hosts, PingExpires(h)
      PROVE  UNCHANGED <<client, name>>
  BY <1>6 DEF PingExpires, clientVars
<1> QED
  BY <1>1, <1>2, <1>3, <1>4, <1>5, <1>6 DEF Next, ClientStep

(* What a loop has in its hands has the type its place asks for.             *)
LEMMA HandsStep ==
  ASSUME IInv, Next
  PROVE  Hands'
<1> USE NetbatchAssumption DEF NetbatchAssumption
<1>1. ASSUME NEW l \in Loops, Ping(l)
      PROVE  Hands'
  BY <1>1 DEF IInv, Hands, TypeOK, Ping, At, fileVars, clientVars, loopVars,
      jobVars
<1>2. ASSUME NEW l \in Loops, Kill(l)
      PROVE  Hands'
  BY <1>2 DEF IInv, Hands, TypeOK, Kill, At, Fails, Orphaned, Alive, InTable,
      Runs, AfterExit, fileVars, clientVars, loopVars, jobVars
<1>3. ASSUME NEW l \in Loops, Find(l)
      PROVE  Hands'
  BY <1>3 DEF IInv, Hands, TypeOK, Find, At, fileVars, clientVars, loopVars,
      jobVars
<1>4. ASSUME NEW l \in Loops, Look(l) \/ Take(l)
      PROVE  Hands'
  BY <1>4 DEF IInv, Hands, TypeOK, Look, Take, At, Fails, Orphaned, fileVars,
      clientVars, loopVars, jobVars
<1>5. ASSUME NEW l \in Loops,
             \/ RemoveKill(l) \/ Fork(l) \/ ForkFails(l) \/ Again(l)
             \/ LoopCrash(l) \/ Restart(l)
      PROVE  Hands'
  BY <1>5 DEF IInv, Hands, TypeOK, RemoveKill, At, Fails, Orphaned, Fork, ForkFails,
      Again, LoopCrash, Alive, Restart, fileVars, clientVars, loopVars, jobVars
<1>6. ASSUME NEW j \in Jobs,
             \/ Write(j) \/ Choose(j) \/ Probe(j) \/ Move(j) \/ Header(j)
             \/ Body(j) \/ RemoveRequest(j) \/ RemoveActive(j) \/ Age(j)
             \/ AskKill(j) \/ JobCrash(j)
      PROVE  Hands'
  BY <1>6 DEF IInv, Hands, TypeOK, Write, Choose, Probe, Move, Header, JobGoes,
      Body, RemoveRequest, RemoveActive, AfterExit, Alive, Age, AskKill,
      JobCrash, Runs, fileVars, clientVars, loopVars, jobVars
<1>7. ASSUME NEW h \in Hosts, PingExpires(h)
      PROVE  Hands'
  BY <1>7 DEF IInv, Hands, TypeOK, PingExpires, fileVars, clientVars, loopVars,
      jobVars
<1> QED
  BY <1>1, <1>2, <1>3, <1>4, <1>5, <1>6, <1>7 DEF Next, LoopStep, ClientStep,
      JobStep

(* A request in the directory is pending, under the name its client chose.   *)
LEMMA QueueStep ==
  ASSUME IInv, Next
  PROVE  Queue'
<1> USE NetbatchAssumption DEF NetbatchAssumption
<1>1. ASSUME NEW j \in Jobs, Move(j)
      PROVE  Queue'
  BY <1>1 DEF IInv, Queue, Pending, Forking, Lives, TypeOK, Move, fileVars,
      clientVars, loopVars, jobVars
<1>2. ASSUME NEW l \in Loops, Take(l)
      PROVE  Queue'
  BY <1>2 DEF IInv, Queue, Pending, Forking, Lives, Hands, TypeOK, Take, At, Fails,
      Orphaned, fileVars, clientVars, loopVars, jobVars
<1>3. ASSUME NEW l \in Loops, Fork(l)
      PROVE  Queue'
  BY <1>3 DEF IInv, Queue, Pending, Forking, Lives, TypeOK, Fork, At, fileVars,
      clientVars, loopVars, jobVars
<1>4. ASSUME NEW l \in Loops,
             \/ Ping(l) \/ Kill(l) \/ RemoveKill(l) \/ Find(l) \/ Look(l)
             \/ ForkFails(l) \/ Again(l) \/ LoopCrash(l) \/ Restart(l)
      PROVE  Queue'
  BY <1>4 DEF IInv, Queue, Pending, Forking, Lives, TypeOK, Ping, At, Kill,
      Fails, Orphaned, Alive, InTable, Runs, AfterExit, RemoveKill, Find, Look,
      ForkFails, Again, LoopCrash, Restart, fileVars, clientVars, loopVars, jobVars
<1>5. ASSUME NEW j \in Jobs,
             \/ Write(j) \/ Choose(j) \/ Probe(j) \/ Header(j) \/ Body(j)
             \/ RemoveRequest(j) \/ RemoveActive(j) \/ Age(j) \/ AskKill(j)
             \/ JobCrash(j)
      PROVE  Queue'
  BY <1>5 DEF IInv, Queue, Pending, Forking, Lives, TypeOK, Write, Choose,
      Probe, Header, JobGoes, Body, RemoveRequest, RemoveActive, AfterExit,
      Alive, Age, AskKill, JobCrash, Runs, fileVars, clientVars, loopVars,
      jobVars
<1>6. ASSUME NEW h \in Hosts, PingExpires(h)
      PROVE  Queue'
  BY <1>6 DEF IInv, Queue, Pending, Forking, Lives, TypeOK, PingExpires,
      fileVars, clientVars, loopVars, jobVars
<1> QED
  BY <1>1, <1>2, <1>3, <1>4, <1>5, <1>6 DEF Next, LoopStep, ClientStep, JobStep

(* A job is started when it is pending, and only then.                       *)
LEMMA LivesStep ==
  ASSUME IInv, Next
  PROVE  Lives'
<1> USE NetbatchAssumption DEF NetbatchAssumption
<1>1. ASSUME NEW j \in Jobs, Move(j)
      PROVE  Lives'
  BY <1>1 DEF IInv, Lives, Queue, Forking, Pending, Hands, TypeOK, Move,
      fileVars, clientVars, loopVars, jobVars
<1>2. ASSUME NEW l \in Loops, Kill(l)
      PROVE  Lives'
  BY <1>2 DEF IInv, Lives, Queue, Forking, Pending, Hands, TypeOK, Kill, At,
      Fails, Orphaned, Alive, InTable, Runs, AfterExit, fileVars, clientVars,
      loopVars, jobVars
<1>3. ASSUME NEW l \in Loops, Fork(l)
      PROVE  Lives'
  BY <1>3 DEF IInv, Lives, Queue, Forking, Pending, Hands, TypeOK, Fork, At,
      fileVars, clientVars, loopVars, jobVars
<1>4. ASSUME NEW l \in Loops, LoopCrash(l)
      PROVE  Lives'
  BY <1>4 DEF IInv, Lives, Queue, Forking, Pending, Hands, TypeOK, LoopCrash,
      At, Alive, Orphaned, fileVars, clientVars, loopVars, jobVars
<1>5. ASSUME NEW l \in Loops,
             \/ Ping(l) \/ RemoveKill(l) \/ Find(l) \/ Look(l) \/ Take(l)
             \/ ForkFails(l) \/ Again(l) \/ Restart(l)
      PROVE  Lives'
  BY <1>5 DEF IInv, Lives, Queue, Forking, Pending, Hands, TypeOK, Ping, At,
      RemoveKill, Fails, Orphaned, Find, Look, Take, ForkFails, Again, Restart, Alive, fileVars,
      clientVars, loopVars, jobVars
<1>6. ASSUME NEW j \in Jobs,
             \/ Write(j) \/ Choose(j) \/ Probe(j) \/ Header(j) \/ Body(j)
             \/ RemoveRequest(j) \/ RemoveActive(j) \/ Age(j) \/ AskKill(j)
             \/ JobCrash(j)
      PROVE  Lives'
  BY <1>6 DEF IInv, Lives, Queue, Forking, Pending, Hands, TypeOK, Write,
      Choose, Probe, Header, JobGoes, Body, RemoveRequest, RemoveActive,
      AfterExit, Alive, Age, AskKill, JobCrash, Runs, fileVars, clientVars,
      loopVars, jobVars
<1>7. ASSUME NEW h \in Hosts, PingExpires(h)
      PROVE  Lives'
  BY <1>7 DEF IInv, Lives, Queue, Forking, Pending, Hands, TypeOK, PingExpires,
      fileVars, clientVars, loopVars, jobVars
<1> QED
  BY <1>1, <1>2, <1>3, <1>4, <1>5, <1>6, <1>7 DEF Next, LoopStep, ClientStep,
      JobStep

(* Active files follow the processes.                                        *)
LEMMA FilesStep ==
  ASSUME IInv, Next
  PROVE  Files'
<1> USE NetbatchAssumption DEF NetbatchAssumption
<1>1. ASSUME NEW l \in Loops, Kill(l)
      PROVE  Files'
  BY <1>1 DEF IInv, Files, RunningIsListed, ActiveMeansRunning, Runs, Hands,
      Forking, Lives, Pending, TypeOK, Kill, At, Fails, Orphaned, Alive,
      InTable, AfterExit, fileVars, clientVars, loopVars, jobVars
<1>2. ASSUME NEW l \in Loops, Fork(l)
      PROVE  Files'
  BY <1>2 DEF IInv, Files, RunningIsListed, ActiveMeansRunning, Runs, Hands,
      Forking, Lives, Pending, TypeOK, Fork, At, fileVars, clientVars,
      loopVars, jobVars
<1>3. ASSUME NEW j \in Jobs, Header(j)
      PROVE  Files'
  BY <1>3 DEF IInv, Files, RunningIsListed, ActiveMeansRunning, Runs, Hands,
      Forking, Lives, Pending, TypeOK, Header, JobGoes, fileVars, clientVars,
      loopVars, jobVars
<1>4. ASSUME NEW j \in Jobs, RemoveActive(j)
      PROVE  Files'
  BY <1>4 DEF IInv, Files, RunningIsListed, ActiveMeansRunning, Runs, Hands,
      Forking, Lives, Pending, TypeOK, RemoveActive, JobGoes, AfterExit, Alive,
      fileVars, clientVars, loopVars, jobVars
<1>5. ASSUME NEW l \in Loops,
             \/ Ping(l) \/ RemoveKill(l) \/ Find(l) \/ Look(l) \/ Take(l)
             \/ ForkFails(l) \/ Again(l) \/ LoopCrash(l) \/ Restart(l)
      PROVE  Files'
  BY <1>5 DEF IInv, Files, RunningIsListed, ActiveMeansRunning, Runs, Hands,
      Forking, Lives, Pending, TypeOK, Ping, At, RemoveKill, Fails, Orphaned,
      Find, Look, Take, ForkFails, Again, LoopCrash, Alive, Restart, fileVars,
      clientVars, loopVars, jobVars
<1>6. ASSUME NEW j \in Jobs,
             \/ Write(j) \/ Choose(j) \/ Probe(j) \/ Move(j) \/ Body(j)
             \/ RemoveRequest(j) \/ Age(j) \/ AskKill(j) \/ JobCrash(j)
      PROVE  Files'
  BY <1>6 DEF IInv, Files, RunningIsListed, ActiveMeansRunning, Runs, Hands,
      Forking, Lives, Pending, TypeOK, Write, Choose, Probe, Move, Body,
      JobGoes, RemoveRequest, Age, AskKill, JobCrash, AfterExit, Alive,
      fileVars, clientVars, loopVars, jobVars
<1>7. ASSUME NEW h \in Hosts, PingExpires(h)
      PROVE  Files'
  BY <1>7 DEF IInv, Files, RunningIsListed, ActiveMeansRunning, Runs, Hands,
      Forking, Lives, Pending, TypeOK, PingExpires, fileVars, clientVars,
      loopVars, jobVars
<1> QED
  BY <1>1, <1>2, <1>3, <1>4, <1>5, <1>6, <1>7 DEF Next, LoopStep, ClientStep,
      JobStep

(* What a loop looks at is of its own machine.                               *)
LEMMA AimsStep ==
  ASSUME IInv, Next
  PROVE  Aims'
<1> USE NetbatchAssumption DEF NetbatchAssumption
<1>1. ASSUME NEW l \in Loops, Ping(l)
      PROVE  Aims'
  BY <1>1 DEF IInv, Aims, Local, Hands, Forking, Files, Lives, Pending, Runs,
      TypeOK, Ping, At, fileVars, clientVars, loopVars, jobVars
<1>2. ASSUME NEW l \in Loops, Kill(l)
      PROVE  Aims'
  BY <1>2 DEF IInv, Aims, Local, Hands, Forking, Files, Lives, Pending, Runs,
      TypeOK, Kill, At, Fails, Orphaned, Alive, InTable, AfterExit, fileVars,
      clientVars, loopVars, jobVars
<1>3. ASSUME NEW l \in Loops, RemoveKill(l)
      PROVE  Aims'
  BY <1>3 DEF IInv, Aims, Local, Hands, Forking, Files, Lives, Pending, Runs,
      TypeOK, RemoveKill, At, Fails, Orphaned, fileVars, clientVars, loopVars,
      jobVars
<1>4. ASSUME NEW l \in Loops, Find(l)
      PROVE  Aims'
  BY <1>4 DEF IInv, Aims, Local, Hands, Forking, Files, Lives, Pending, Runs,
      TypeOK, Find, At, fileVars, clientVars, loopVars, jobVars
<1>5. ASSUME NEW l \in Loops, Look(l) \/ Take(l)
      PROVE  Aims'
  BY <1>5 DEF IInv, Aims, Local, Hands, Forking, Files, Lives, Pending, Runs,
      TypeOK, Look, Take, At, Fails, Orphaned, fileVars, clientVars, loopVars,
      jobVars
<1>6. ASSUME NEW l \in Loops, Fork(l)
      PROVE  Aims'
  BY <1>6 DEF IInv, Aims, Local, Hands, Forking, Files, Lives, Pending, Runs,
      TypeOK, Fork, At, fileVars, clientVars, loopVars, jobVars
<1>7. ASSUME NEW l \in Loops, ForkFails(l) \/ Again(l) \/ LoopCrash(l) \/ Restart(l)
      PROVE  Aims'
  BY <1>7 DEF IInv, Aims, Local, Hands, Forking, Files, Lives, Pending, Runs,
      TypeOK, ForkFails, Again, At, LoopCrash, Alive, Orphaned, Restart, fileVars,
      clientVars, loopVars, jobVars
<1>8. ASSUME NEW j \in Jobs,
             \/ Write(j) \/ Choose(j) \/ Probe(j) \/ Move(j) \/ Header(j)
             \/ Body(j) \/ RemoveRequest(j) \/ RemoveActive(j) \/ Age(j)
             \/ AskKill(j) \/ JobCrash(j)
      PROVE  Aims'
  BY <1>8 DEF IInv, Aims, Local, Hands, Forking, Files, Lives, Pending, Runs,
      TypeOK, Write, Choose, Probe, Move, Header, JobGoes, Body, RemoveRequest,
      RemoveActive, AfterExit, Alive, Age, AskKill, JobCrash, fileVars,
      clientVars, loopVars, jobVars
<1>9. ASSUME NEW h \in Hosts, PingExpires(h)
      PROVE  Aims'
  BY <1>9 DEF IInv, Aims, Local, Hands, Forking, Files, Lives, Pending, Runs,
      TypeOK, PingExpires, fileVars, clientVars, loopVars, jobVars
<1> QED
  BY <1>1, <1>2, <1>3, <1>4, <1>5, <1>6, <1>7, <1>8, <1>9 DEF Next, LoopStep,
      ClientStep, JobStep

(* The rename of a request gives it to one loop only.                        *)
LEMMA ForkingStep ==
  ASSUME IInv, Next
  PROVE  Forking'
<1> USE NetbatchAssumption DEF NetbatchAssumption
<1>1. ASSUME NEW j \in Jobs, Move(j)
      PROVE  Forking'
  BY <1>1 DEF IInv, Forking, Queue, Lives, Pending, Hands, TypeOK, Move,
      fileVars, clientVars, loopVars, jobVars
<1>2. ASSUME NEW l \in Loops, Find(l)
      PROVE  Forking'
  BY <1>2 DEF IInv, Forking, Queue, Lives, Pending, Hands, TypeOK, Find, At,
      fileVars, clientVars, loopVars, jobVars
<1>3. ASSUME NEW l \in Loops, Take(l)
      PROVE  Forking'
  <2>1. PICK n \in Names : n = held[l]
    BY <1>3 DEF IInv, Hands, Take
  <2>2. CASE request[n] # None
    <3>1. /\ loop' = At(l, "forking") /\ held' = [held EXCEPT ![l] = request[n]]
          /\ request' = [request EXCEPT ![n] = None]
      BY <1>3, <2>1, <2>2 DEF Take
    <3>2. request[n] \in Pending /\ Pending' = Pending
      BY <2>1, <2>2, <1>3 DEF IInv, Queue, Take, Pending, clientVars
    <3>3. \A m \in Names : request'[m] # request[n]
      BY <2>1, <2>2, <3>1, <3>2 DEF IInv, Queue, TypeOK, Pending
    <3>4. \A m \in Names, k \in Loops : loop[k] = "forking" => request'[m] # held[k]
      BY <2>1, <3>1 DEF IInv, Forking, Hands, TypeOK
    <3> QED
      BY <2>1, <2>2, <3>1, <3>2, <3>3, <3>4 DEF IInv, Forking, TypeOK, At
  <2>3. CASE request[n] = None
    BY <2>1, <2>3, <1>3 DEF IInv, Forking, Pending, TypeOK, Take, Fails, At, clientVars
  <2> QED
    BY <2>2, <2>3
<1>4. ASSUME NEW l \in Loops, Fork(l)
      PROVE  Forking'
  BY <1>4 DEF IInv, Forking, Queue, Lives, Pending, Hands, TypeOK, Fork, At,
      fileVars, clientVars, loopVars, jobVars
<1>5. ASSUME NEW l \in Loops,
             \/ Ping(l) \/ Kill(l) \/ RemoveKill(l) \/ Look(l) \/ ForkFails(l)
             \/ Again(l) \/ LoopCrash(l) \/ Restart(l)
      PROVE  Forking'
  BY <1>5 DEF IInv, Forking, Queue, Lives, Pending, Hands, TypeOK, Ping, At,
      Kill, Fails, Orphaned, Alive, InTable, Runs, AfterExit, RemoveKill, Look,
      ForkFails, Again, LoopCrash, Restart, fileVars, clientVars, loopVars, jobVars
<1>6. ASSUME NEW j \in Jobs,
             \/ Write(j) \/ Choose(j) \/ Probe(j) \/ Header(j) \/ Body(j)
             \/ RemoveRequest(j) \/ RemoveActive(j) \/ Age(j) \/ AskKill(j)
             \/ JobCrash(j)
      PROVE  Forking'
  BY <1>6 DEF IInv, Forking, Queue, Lives, Pending, Hands, TypeOK, Write,
      Choose, Probe, Header, JobGoes, Body, RemoveRequest, RemoveActive,
      AfterExit, Alive, Age, AskKill, JobCrash, Runs, fileVars, clientVars,
      loopVars, jobVars
<1>7. ASSUME NEW h \in Hosts, PingExpires(h)
      PROVE  Forking'
  BY <1>7 DEF IInv, Forking, Queue, Lives, Pending, Hands, TypeOK, PingExpires,
      fileVars, clientVars, loopVars, jobVars
<1> QED
  BY <1>1, <1>2, <1>3, <1>4, <1>5, <1>6, <1>7 DEF Next, LoopStep, ClientStep,
      JobStep

(* A loop that is alone finds what it has seen.                              *)
LEMMA UndisturbedStep ==
  ASSUME IInv, Next
  PROVE  Undisturbed'
<1> USE NetbatchAssumption DEF NetbatchAssumption
<1>1. ASSUME NEW l \in Loops, Ping(l)
      PROVE  Undisturbed'
  BY <1>1 DEF IInv, Undisturbed, Alone, TypeOK, Alive, Files, Ping, At,
      fileVars, clientVars, loopVars, jobVars
<1>2. ASSUME NEW l \in Loops, Kill(l)
      PROVE  Undisturbed'
  BY <1>2 DEF IInv, Undisturbed, Alone, TypeOK, Aims, Local, Hands, Kill, At,
      Fails, Orphaned, Alive, InTable, Runs, AfterExit, fileVars, clientVars,
      loopVars, jobVars
<1>3. ASSUME NEW l \in Loops, RemoveKill(l)
      PROVE  Undisturbed'
  BY <1>3 DEF IInv, Undisturbed, Alone, TypeOK, Hands, Alive, Aims, Local,
      RemoveKill, At, Fails, Orphaned, fileVars, clientVars, loopVars, jobVars
<1>4. ASSUME NEW l \in Loops, Find(l)
      PROVE  Undisturbed'
  BY <1>4 DEF IInv, Undisturbed, Alone, TypeOK, Alive, Find, At, fileVars,
      clientVars, loopVars, jobVars
<1>5. ASSUME NEW l \in Loops, Look(l)
      PROVE  Undisturbed'
  <2>1. PICK n \in todo[l] : Look(l)!2!(n)
    BY <1>5 DEF Look
  <2>2. n \in Names /\ loop[l] = "taking"
    BY <1>5 DEF IInv, Hands, Look
  <2>3. ASSUME NEW k \in Loops, Alone(k)', k # l
        PROVE  Undisturbed!(k)!2'
    BY <2>1, <2>2, <2>3, <1>5
    DEF IInv, Undisturbed, Alone, TypeOK, Look, Fails, Orphaned, At, Alive, fileVars
  <2>4. ASSUME Alone(l)'
        PROVE  Undisturbed!(l)!2'
    BY <2>1, <2>2, <2>4, <1>5
    DEF IInv, Undisturbed, Alone, TypeOK, Look, Fails, Orphaned, At, Alive, fileVars
  <2> QED
    BY <2>3, <2>4 DEF Undisturbed
<1>15. ASSUME NEW l \in Loops, Take(l)
      PROVE  Undisturbed'
  <2>1. PICK n \in Names : n = held[l] /\ n[1] = host[l] /\ loop[l] = "renaming"
    BY <1>15 DEF IInv, Hands, Aims, Take
  <2>2. ASSUME NEW k \in Loops, Alone(k)', k # l
        PROVE  Undisturbed!(k)!2'
    <3>1. Alone(k) /\ host[k] # host[l] /\ \A m \in Names \ {n} : request'[m] = request[m]
      BY <1>15, <2>1, <2>2 DEF IInv, TypeOK, Alone, Take
    <3>2. /\ loop'[k] = loop[k] /\ held'[k] = held[k] /\ todo'[k] = todo[k] /\ kills' = kills
          /\ parent' = parent /\ \A j \in Jobs : parent[j] = k => job'[j] = job[j]
      BY <1>15, <2>2 DEF IInv, TypeOK, Take, Fails, Orphaned, At
    <3>3. /\ loop[k] \in {"taking", "renaming", "forking"} =>
               \A m \in todo[k] : m \in Names \ {n}
          /\ loop[k] = "renaming" => held[k] \in Names \ {n}
      BY <2>1, <3>1 DEF IInv, Hands, Aims
    <3> QED
      BY <3>1, <3>2, <3>3 DEF IInv, Undisturbed, Alive
  <2>3. ASSUME Alone(l)'
        PROVE  Undisturbed!(l)!2'
    BY <2>1, <2>3, <1>15
    DEF IInv, Undisturbed, Alone, Hands, TypeOK, Take, Fails, Orphaned, At, Alive
  <2> QED
    BY <2>2, <2>3 DEF Undisturbed
<1>16. ASSUME NEW l \in Loops, ForkFails(l)
      PROVE  Undisturbed'
  BY <1>16 DEF IInv, TypeOK, Undisturbed, Alone, ForkFails
<1>6. ASSUME NEW l \in Loops, Fork(l)
      PROVE  Undisturbed'
  BY <1>6 DEF IInv, Undisturbed, Alone, TypeOK, Alive, Forking, Lives, Pending,
      Hands, Fork, At, fileVars, clientVars, loopVars, jobVars
<1>7. ASSUME NEW l \in Loops, LoopCrash(l)
      PROVE  Undisturbed'
  BY <1>7 DEF IInv, Undisturbed, Alone, TypeOK, Alive, LoopCrash, At, Orphaned,
      fileVars, clientVars, loopVars, jobVars
<1>8. ASSUME NEW l \in Loops, Restart(l)
      PROVE  Undisturbed'
  BY <1>8 DEF IInv, Undisturbed, Alone, TypeOK, Alive, Restart, At, fileVars,
      clientVars, loopVars, jobVars
<1>9. ASSUME NEW j \in Jobs, Move(j)
      PROVE  Undisturbed'
  BY <1>9 DEF IInv, Undisturbed, Alone, TypeOK, Alive, Hands, Move, fileVars,
      clientVars, loopVars, jobVars
<1>10. ASSUME NEW j \in Jobs, RemoveActive(j)
      PROVE  Undisturbed'
  BY <1>10 DEF IInv, Undisturbed, Alone, TypeOK, Alive, RemoveActive, JobGoes,
      AfterExit, fileVars, clientVars, loopVars, jobVars
<1>11. ASSUME NEW j \in Jobs, JobCrash(j)
      PROVE  Undisturbed'
  BY <1>11 DEF IInv, Undisturbed, Alone, TypeOK, Alive, JobCrash, Runs,
      AfterExit, fileVars, clientVars, loopVars, jobVars
<1>12. ASSUME NEW l \in Loops, Again(l)
      PROVE  Undisturbed'
  BY <1>12 DEF IInv, Undisturbed, Alone, TypeOK, Alive, Again, At, fileVars,
      clientVars, loopVars, jobVars
<1>13. ASSUME NEW j \in Jobs,
             \/ Write(j) \/ Choose(j) \/ Probe(j) \/ Header(j) \/ Body(j)
             \/ RemoveRequest(j) \/ Age(j) \/ AskKill(j)
      PROVE  Undisturbed'
  BY <1>13 DEF IInv, Undisturbed, Alone, TypeOK, Alive, Write, Choose, Probe,
      Header, JobGoes, Body, RemoveRequest, Age, AskKill, fileVars, clientVars,
      loopVars, jobVars
<1>14. ASSUME NEW h \in Hosts, PingExpires(h)
      PROVE  Undisturbed'
  BY <1>14 DEF IInv, Undisturbed, Alone, TypeOK, Alive, PingExpires, fileVars,
      clientVars, loopVars, jobVars
<1> QED
  BY <1>1, <1>2, <1>3, <1>4, <1>5, <1>6, <1>7, <1>8, <1>9, <1>10, <1>11, <1>12,
      <1>13, <1>14, <1>15, <1>16 DEF Next, LoopStep, ClientStep, JobStep

-----------------------------------------------------------------------------
(* The invariant.                                                            *)

(* The invariant holds at the beginning: nothing is submitted, every loop is *)
(* at the top.                                                               *)
LEMMA InitInvariant ==
  ASSUME Init
  PROVE  IInv
<1> USE NetbatchAssumption DEF NetbatchAssumption, Init
<1>1. TypeOK
  <2>1. <<CHOOSE h \in Hosts : TRUE, 0>> \in Names
    BY FS_CardinalityType DEF Names, Indices
  <2>2. (CHOOSE l \in Loops : TRUE) \in Loops
    OBVIOUS
  <2>3. parent \in [Jobs -> Loops] /\ name \in [Jobs -> Names]
    BY <2>1, <2>2
  <2> QED
    BY <2>3 DEF TypeOK
<1>2. Hands /\ Queue /\ Forking /\ Lives /\ Aims
  BY DEF Hands, Queue, Forking, Lives, Aims
<1>3. Passed /\ Files
  BY DEF Passed, Files, RunningIsListed, ActiveMeansRunning
<1>4. Undisturbed
  BY DEF Undisturbed, Alive
<1> QED
  BY <1>1, <1>2, <1>3, <1>4 DEF IInv

(* Every step keeps the invariant.                                           *)
LEMMA StepInvariant ==
  ASSUME IInv, [Next]_vars
  PROVE  IInv'
<1>1. CASE Next
  BY <1>1, TypeStep, HandsStep, QueueStep, ForkingStep, LivesStep, PassedStep,
     FilesStep, AimsStep, UndisturbedStep
  DEF IInv
<1>2. CASE UNCHANGED vars
  <2> USE <1>2 DEF IInv, vars, fileVars, clientVars, loopVars, jobVars
  <2>1. TypeOK'
    BY DEF TypeOK
  <2>2. Hands'
    BY DEF Hands
  <2>3. Passed'
    BY DEF Passed
  <2>4. Queue' /\ Forking' /\ Lives'
    BY DEF Queue, Forking, Pending, Lives
  <2>5. Files' /\ Aims'
    BY DEF Files, RunningIsListed, ActiveMeansRunning, Runs, Aims, Local
  <2>6. Undisturbed'
    BY DEF Undisturbed, Alone, Alive
  <2> QED
    BY <2>1, <2>2, <2>3, <2>4, <2>5, <2>6
<1> QED
  BY <1>1, <1>2

(* The inductive invariant holds in every reachable state.                   *)
THEOREM Inductive == Spec => []IInv
<1>1. Init => IInv
  BY InitInvariant
<1>2. IInv /\ [Next]_vars => IInv'
  BY StepInvariant
<1> QED
  BY <1>1, <1>2, PTL DEF Spec

(* The directory and the processes have the types of TypeOK; in particular   *)
(* no client ever needs an index above the number of jobs.                   *)
THEOREM TypeCorrect == Spec => []TypeOK
<1>1. IInv => TypeOK
  BY DEF IInv
<1> QED
  BY <1>1, Inductive, PTL

(* A job whose body runs can be seen on the jobs page.                       *)
THEOREM AlwaysListed == Spec => []RunningIsListed
<1>1. IInv => RunningIsListed
  BY DEF IInv, Files
<1> QED
  BY <1>1, Inductive, PTL

(* An active file is that of a process that runs or was cut short.           *)
THEOREM ActiveAreRunning == Spec => []ActiveMeansRunning
<1>1. IInv => ActiveMeansRunning
  BY DEF IInv, Files
<1> QED
  BY <1>1, Inductive, PTL

(* A loop that has its machine to itself does not stop before a crash.       *)
THEOREM AloneGoesOn == Spec => LoopGoesOn
<1> DEFINE Goes == \A l \in Loops : loop[l] # "failed" /\ loop'[l] = "failed" =>
                     faults > 0 \/ \E k \in Loops \ {l} : host[k] = host[l]
<1>1. IInv /\ IInv' /\ [Next]_vars => [Goes]_vars
  <2> SUFFICES ASSUME IInv, IInv', Next, NEW l \in Loops,
                      loop[l] # "failed", loop'[l] = "failed"
               PROVE  faults > 0 \/ \E k \in Loops \ {l} : host[k] = host[l]
    OBVIOUS
  <2>1. ~Alone(l)'
    BY DEF IInv, Undisturbed, Alive
  <2>2. faults' = faults /\ host' = host
    <3>1. ASSUME NEW k \in Loops, LoopStep(k) \/ ForkFails(k) \/ LoopCrash(k) \/ Restart(k)
          PROVE  faults' = faults /\ host' = host
      BY <3>1
      DEF IInv, TypeOK, LoopStep, Ping, Kill, RemoveKill, Find, Look, Take, Fork, ForkFails,
          Again, LoopCrash, Restart, At, loopVars
    <3>2. ASSUME NEW j \in Jobs,
                 ClientStep(j) \/ JobStep(j) \/ Age(j) \/ AskKill(j) \/ JobCrash(j)
          PROVE  UNCHANGED loop
      BY <3>2
      DEF ClientStep, Write, Choose, Probe, Move, JobStep, Header, Body, RemoveRequest,
          RemoveActive, Age, AskKill, JobCrash, loopVars
    <3>3. ASSUME NEW h \in Hosts, PingExpires(h)
          PROVE  UNCHANGED loop
      BY <3>3 DEF PingExpires, loopVars
    <3> QED
      BY <3>1, <3>2, <3>3 DEF Next
  <2> QED
    BY <2>1, <2>2 DEF IInv, TypeOK, Alone
<1> QED
  BY <1>1, Inductive, PTL DEF Spec, LoopGoesOn

-----------------------------------------------------------------------------
(* The life of a job.                                                        *)

Statuses == [j \in Jobs |-> Status(j)]

(* A step that leaves submissions, starts and the set of running jobs alone  *)
(* changes no status.                                                        *)
LEMMA StatusStays ==
  ASSUME UNCHANGED <<client, lost, starts>>, \A j \in Jobs : Runs(j)' <=> Runs(j)
  PROVE  UNCHANGED Statuses
<1>1. ASSUME NEW j \in Jobs
      PROVE  Status(j)' = Status(j)
  BY DEF Status
<1> QED
  BY <1>1 DEF Statuses

(* A job that ends without touching another one ends its life.               *)
LEMMA StatusEnds ==
  ASSUME IInv, NEW j \in Jobs, Runs(j), UNCHANGED <<client, lost, starts>>,
         ~Runs(j)', \A k \in Jobs \ {j} : job'[k] = job[k]
  PROVE  Life!End(j)
<1>1. client[j] = "submitted" /\ j \notin lost /\ starts[j] = 1
  BY DEF IInv, Lives, Runs
<1>2. Status(j) = "running" /\ Status(j)' = "ended"
  BY <1>1 DEF Status
<1>3. ASSUME NEW k \in Jobs \ {j}
      PROVE  Status(k)' = Status(k)
  BY <1>3 DEF Status, Runs
<1>4. Statuses[j] = "running" /\ Statuses' = [Statuses EXCEPT ![j] = "ended"]
  BY <1>2, <1>3 DEF Statuses
<1> QED
  BY <1>4 DEF Life!End, Statuses

(* Every step of the queue is a step of one job's life, or none.             *)
LEMMA StepLives ==
  ASSUME IInv, IInv', [Next]_vars
  PROVE  Life!Next \/ UNCHANGED Statuses
<1>1. ASSUME NEW j \in Jobs, Move(j)
      PROVE  Life!Submit(j)
  <2> DEFINE out == {request[name[j]]} \ {None}
  <2>1. /\ client[j] = "moving" /\ client' = [client EXCEPT ![j] = "submitted"]
        /\ lost' = lost \cup out /\ UNCHANGED <<starts, job>>
        /\ starts[j] = 0 /\ j \notin lost /\ j \notin out
        /\ out \subseteq Pending /\ job[j] = "none"
    BY <1>1 DEF IInv, TypeOK, Lives, Queue, Pending, Move, jobVars
  <2>2. \A k1, k2 \in out : k1 = k2
    OBVIOUS
  <2> HIDE DEF out
  <2>3. Status(j) = "new" /\ Status(j)' = "queued"
    BY <2>1 DEF IInv, TypeOK, Status
  <2>4. ASSUME NEW k \in out
        PROVE  k \in Jobs /\ Status(k) = "queued" /\ Status(k)' = "lost"
    BY <2>1 DEF IInv, TypeOK, Status, Pending
  <2>5. ASSUME NEW k \in Jobs, k # j, k \notin out
        PROVE  Status(k)' = Status(k)
    BY <2>1, <2>5 DEF IInv, TypeOK, Status, Runs
  <2>6. Statuses[j] = "new" /\ out \in SUBSET {k \in Jobs : Statuses[k] = "queued"}
    BY <2>3, <2>4 DEF Statuses
  <2>7. Statuses' = [k \in Jobs |-> IF k = j THEN "queued"
                                    ELSE IF k \in out THEN "lost" ELSE Statuses[k]]
    BY <2>3, <2>4, <2>5 DEF Statuses
  <2> QED
    BY <2>2, <2>6, <2>7 DEF Life!Submit, Statuses
<1>2. ASSUME NEW l \in Loops, Fork(l)
      PROVE  held[l] \in Jobs /\ Life!Start(held[l])
  <2>0. PICK j \in Jobs : j = held[l]
    BY <1>2 DEF IInv, Hands, Fork
  <2>1. /\ j \in Jobs /\ client[j] = "submitted" /\ j \notin lost /\ starts[j] = 0
        /\ UNCHANGED <<client, lost>>
        /\ job' = [job EXCEPT ![j] = "forked"] /\ starts' = [starts EXCEPT ![j] = @ + 1]
    BY <1>2, <2>0 DEF IInv, Forking, Hands, Pending, Fork, clientVars
  <2>5. j \in Jobs /\ job'[j] = "forked" /\ starts'[j] = 1 /\ client'[j] = "submitted"
    BY <2>1 DEF IInv, TypeOK
  <2>2. Status(j) = "queued" /\ Status(j)' = "running"
    BY <2>1, <2>5 DEF Status, Runs
  <2>3. ASSUME NEW k \in Jobs \ {j}
        PROVE  Status(k)' = Status(k)
    BY <2>1, <2>3 DEF IInv, TypeOK, Status, Runs
  <2>4. Statuses[j] = "queued" /\ Statuses' = [Statuses EXCEPT ![j] = "running"]
    BY <2>1, <2>2, <2>3 DEF Statuses
  <2> QED
    BY <2>0, <2>1, <2>4 DEF Life!Start, Statuses
<1>3. ASSUME NEW l \in Loops, Kill(l)
      PROVE  (\E j \in Jobs : Life!End(j)) \/ UNCHANGED Statuses
  <2>1. UNCHANGED <<client, lost, starts>>
    BY <1>3 DEF Kill, clientVars
  <2>2. PICK j \in todo[l] :
          IF j \in kills /\ InTable(j)
          THEN job' = [job EXCEPT ![j] = IF Runs(j) THEN AfterExit(j) ELSE @]
          ELSE Orphaned(l)
    BY <1>3 DEF Kill, Fails
  <2>3. j \in Jobs
    BY <1>3 DEF IInv, Hands, Kill
  <2>4. CASE j \in kills /\ InTable(j) /\ Runs(j)
    BY <2>1, <2>2, <2>3, <2>4, StatusEnds DEF IInv, TypeOK, Runs, AfterExit
  <2>5. CASE ~(j \in kills /\ InTable(j) /\ Runs(j))
    <3>1. \A k \in Jobs : Runs(k)' <=> Runs(k)
      BY <2>2, <2>3, <2>5 DEF IInv, TypeOK, Runs, Orphaned
    <3> QED
      BY <2>1, <3>1, StatusStays
  <2> QED
    BY <2>3, <2>4, <2>5
<1>4. ASSUME NEW j \in Jobs, RemoveActive(j) \/ JobCrash(j)
      PROVE  Life!End(j)
  <2>1. /\ Runs(j) /\ job' = [job EXCEPT ![j] = AfterExit(j)]
        /\ UNCHANGED <<client, lost, starts>>
    BY <1>4 DEF RemoveActive, JobCrash, JobGoes, Runs, clientVars
  <2>2. ~Runs(j)' /\ \A k \in Jobs \ {j} : job'[k] = job[k]
    BY <2>1 DEF IInv, TypeOK, Runs, AfterExit
  <2> QED
    BY <2>1, <2>2, StatusEnds
<1>5. ASSUME NEW l \in Loops,
             \/ Ping(l) \/ RemoveKill(l) \/ Find(l) \/ Look(l) \/ Take(l)
             \/ ForkFails(l) \/ Again(l) \/ LoopCrash(l) \/ Restart(l)
      PROVE  UNCHANGED Statuses
  <2>1. UNCHANGED <<client, lost, starts>>
    BY <1>5 DEF Ping, RemoveKill, Find, Look, Take, ForkFails, Again, LoopCrash, Restart,
       clientVars, jobVars
  <2>2. UNCHANGED job \/ Orphaned(l)
    BY <1>5 DEF Ping, RemoveKill, Find, Look, Take, ForkFails, Again, LoopCrash, Restart, Fails,
       jobVars
  <2>3. \A k \in Jobs : Runs(k)' <=> Runs(k)
    BY <2>2 DEF Runs, Orphaned
  <2> QED
    BY <2>1, <2>3, StatusStays
<1>6. ASSUME NEW j \in Jobs,
             \/ Header(j) \/ Body(j) \/ RemoveRequest(j) \/ Age(j) \/ AskKill(j)
      PROVE  UNCHANGED Statuses
  <2>1. /\ UNCHANGED <<client, lost, starts>>
        /\ \A k \in Jobs : Runs(k)' <=> Runs(k)
    BY <1>6
    DEF IInv, TypeOK, Header, Body, RemoveRequest, Age, AskKill, JobGoes, Runs,
        clientVars, jobVars
  <2> QED
    BY <2>1, StatusStays
<1>7. ASSUME NEW j \in Jobs, Write(j) \/ Choose(j) \/ Probe(j)
      PROVE  UNCHANGED Statuses
  <2>1. ASSUME NEW k \in Jobs
        PROVE  Status(k)' = Status(k)
    BY <1>7 DEF IInv, TypeOK, Write, Choose, Probe, Status, Runs, jobVars
  <2> QED
    BY <2>1 DEF Statuses
<1>8. ASSUME NEW h \in Hosts, PingExpires(h)
      PROVE  UNCHANGED Statuses
  BY <1>8, StatusStays DEF PingExpires, Runs, clientVars, jobVars
<1>9. CASE UNCHANGED vars
  BY <1>9, StatusStays DEF Runs, vars, clientVars, jobVars
<1> QED
  BY <1>1, <1>2, <1>3, <1>4, <1>5, <1>6, <1>7, <1>8, <1>9
  DEF Next, LoopStep, ClientStep, JobStep, Life!Next

(* The queue implements JobLife: whatever crashes and however many loops and *)
(* clients share the directory, a job is started once at most and is lost    *)
(* only when another client's request takes its name.                        *)
THEOREM LivesOnce == Spec => JobsRunOnce
<1>1. Init => Life!Init
  <2> SUFFICES ASSUME Init, NEW j \in Jobs
               PROVE  Status(j) = "new"
    BY DEF Life!Init
  <2> QED
    BY DEF Init, Status
<1>2. IInv /\ IInv' /\ [Next]_vars => [Life!Next]_Statuses
  BY StepLives
<1>3. IInv /\ IInv' /\ [Next]_vars => [Life!Next]_([j \in Jobs |-> Status(j)])
  BY <1>2 DEF Statuses
<1> QED
  BY <1>1, <1>3, Inductive, PTL DEF Spec, JobsRunOnce, Life!Spec
=============================================================================
