------------------------------ MODULE NodeProofs ------------------------------
(***************************************************************************)
(* Machine-checked proofs about the network of RAMSpice processes, for any *)
(* number of nodes, of forked processes, of items and of crashes.          *)
(***************************************************************************)
EXTENDS NodeProperties, FiniteSetTheorems, SequenceTheorems, TLAPS

-----------------------------------------------------------------------------
(* The inductive invariant.                                                  *)

Loop == {"sending", "updating", "checking"}

(* Where each kind of process can be, and how often it entered its loop.     *)
PlaceOf(p) ==
  /\ p = Base => port[p] = Base /\ pc[p] \in {"off", "serving"}
  /\ p \in Kids => pc[p] \in Loop \cup {"evaluating", "reporting", "leaving", "gone"}
  /\ p \in Nodes =>
       /\ port[p] = p
       /\ pc[p] \notin {"evaluating", "reporting"}
       /\ pc[p] \in {"off", "bound", "registered"} => loops[p] = 0
       /\ pc[p] \in Loop \cup {"script", "resumed"} => loops[p] = 1
  /\ pc[p] = "sending" => join[p].left > 0
Places == \A p \in Procs : PlaceOf(p)

(* No process is told of the node whose port it holds.                       *)
News(m) == m.is = "add_network_node"
OfAnother(q, m) == News(m) => m.node # q
OthersNews ==
  /\ \A q \in Ports : \A m \in ElementsOf(backlog[q]) : OfAnother(q, m)
  /\ \A p \in Procs : \A x \in ElementsOf(outbox[p]) : OfAnother(x.to, x.msg)

IInv == TypeOK /\ Places /\ OthersNews /\ KnowsOthers

-----------------------------------------------------------------------------
(* Without tasks that call fork_each in turn, forked processes take no       *)
(* messages.                                                                 *)

Leaves ==
  /\ \A k \in Kids : pc[k] \notin Loop /\ outbox[k] = <<>>
  /\ \A q \in Ports : \A m \in ElementsOf(backlog[q]) : m.is = "task" => m.code = "leaf"
  /\ \A k \in Kids : pc[k] = "evaluating" => duty[k].code = "leaf"

(* A port nobody listens to has no backlog.                                  *)
Unopened ==
  /\ \A q \in Ports \ opened : backlog[q] = <<>>
  /\ \A p \in Nodes : pc[p] \in {"off", "bound"} => p \notin opened

(* A live node that missed no message has heard of another one, or is going  *)
(* to, when a release waits for it or is on its way.                         *)
Present(p) == pc[p] # "gone" /\ p \notin refused
Hears(p) == known[p] # <<>> \/ \E i \in DOMAIN backlog[p] : News(backlog[p][i])
NewsWaits(p) ==
  \A i \in DOMAIN backlog[p] : backlog[p][i].is = "node_release" =>
    known[p] # <<>> \/ \E j \in 1 .. i - 1 : News(backlog[p][j])
NewsOnItsWay(p, s) ==
  \A i \in DOMAIN outbox[s] : outbox[s][i] = Letter(p, ReleaseMsg) =>
    Hears(p) \/ \E j \in 1 .. i - 1 : outbox[s][j].to = p /\ News(outbox[s][j].msg)
NewsFirst ==
  \A p \in Nodes : Present(p) => NewsWaits(p) /\ \A s \in Procs : NewsOnItsWay(p, s)

NewsInv == IInv /\ Leaves /\ Unopened /\ NewsFirst /\ ReleasedKnowsSomeone

-----------------------------------------------------------------------------
(* Tasks: each is in one place.                                              *)

Ran == ElementsOf(log)
TaskOf(m) == <<m.from, m.handle>>
Duty(k) == <<duty[k].from, duty[k].handle>>
IsTask(q, i) == i \in DOMAIN backlog[q] /\ backlog[q][i].is = "task"

(* A handle is used once: those offered are below the next one.              *)
Handles ==
  \A p \in Nodes, h \in Nat : pc[p] # "gone" /\ <<p, h>> \in offered =>
    h <= handle[p] /\ (good[p] # Untried => h < handle[p])

Once ==
  /\ Ran \subseteq offered
  /\ \A q \in Ports, i \in Nat : IsTask(q, i) =>
       TaskOf(backlog[q][i]) \in offered \ Ran
  /\ \A q, r \in Ports, i, j \in Nat :
       IsTask(q, i) /\ IsTask(r, j) /\ TaskOf(backlog[q][i]) = TaskOf(backlog[r][j]) =>
         q = r /\ i = j
  /\ \A k \in Kids : pc[k] = "evaluating" =>
       /\ Duty(k) \in offered \ Ran
       /\ \A q \in Ports, i \in Nat : IsTask(q, i) => TaskOf(backlog[q][i]) # Duty(k)
       /\ \A l \in Kids \ {k} : pc[l] = "evaluating" => Duty(l) # Duty(k)

(* What is reported has run.                                                 *)
Reported ==
  /\ \A k \in Kids : pc[k] = "reporting" => Duty(k) \in Ran
  /\ \A q \in Ports : \A m \in ElementsOf(backlog[q]) :
       m.is = "network_task_done" => <<q, m.handle>> \in Ran
  /\ \A p \in Nodes : \A h \in join[p].finished : <<p, h>> \in Ran
  /\ returned \subseteq Ran

LeafInv == IInv /\ Leaves /\ Handles /\ Once /\ Reported

-----------------------------------------------------------------------------
(* Sequences and messages.                                                   *)

(* A sequence and one more element.                                          *)
LEMMA AppendElements ==
  ASSUME NEW S, NEW s \in Seq(S), NEW e \in S
  PROVE  /\ Append(s, e) \in Seq(S)
         /\ ElementsOf(Append(s, e)) = ElementsOf(s) \cup {e}
         /\ DOMAIN Append(s, e) = DOMAIN s \cup {Len(s) + 1}
         /\ \A i \in DOMAIN s : Append(s, e)[i] = s[i]
         /\ Append(s, e)[Len(s) + 1] = e
         /\ Len(s) \in Nat /\ DOMAIN s = 1 .. Len(s)
BY DEF ElementsOf

(* A sequence and what follows its first element.                            *)
LEMMA TailElements ==
  ASSUME NEW S, NEW s \in Seq(S), s # <<>>
  PROVE  /\ Tail(s) \in Seq(S) /\ Head(s) \in S
         /\ ElementsOf(Tail(s)) \subseteq ElementsOf(s)
         /\ Head(s) \in ElementsOf(s) /\ Head(s) = s[1] /\ 1 \in DOMAIN s
         /\ DOMAIN s = 1 .. Len(s) /\ Len(s) \in Nat /\ Len(s) > 0
         /\ DOMAIN Tail(s) = 1 .. Len(s) - 1
         /\ \A i \in DOMAIN Tail(s) : i + 1 \in DOMAIN s /\ Tail(s)[i] = s[i + 1]
BY DEF ElementsOf

(* The empty sequence.                                                       *)
LEMMA EmptyElements == ElementsOf(<<>>) = {} /\ DOMAIN <<>> = {}
BY DEF ElementsOf

(* Two sequences, one after the other.                                       *)
LEMMA ConcatParts ==
  ASSUME NEW S, NEW s \in Seq(S), NEW t \in Seq(S)
  PROVE  /\ s \o t \in Seq(S) /\ Len(s \o t) = Len(s) + Len(t)
         /\ \A i \in 1 .. Len(s) : (s \o t)[i] = s[i]
         /\ \A i \in 1 .. Len(t) : (s \o t)[Len(s) + i] = t[i]
<1>1. \A i \in 1 .. Len(s) : (s \o t)[i] = s[i]
  OBVIOUS
<1>2. \A i \in 1 .. Len(t) : (s \o t)[Len(s) + i] = t[i]
  OBVIOUS
<1>3. s \o t \in Seq(S) /\ Len(s \o t) = Len(s) + Len(t)
  OBVIOUS
<1> QED
  BY <1>1, <1>2, <1>3

(* What a process announces: news, then members, then the release.           *)
LEMMA AnnouncesParts ==
  ASSUME NEW list \in Seq(Nodes), NEW n \in Nodes,
         \A a \in Nodes : AddMsg(a) \in Announcement, ReleaseMsg \in Announcement
  PROVE  LET a == Announces(list, n)
             k == Len(list)
         IN /\ a \in Seq(Letters) /\ Len(a) = k + k + 1 /\ k \in Nat
            /\ \A i \in 1 .. k : list[i] \in Nodes /\ a[i] = Letter(list[i], AddMsg(n))
            /\ \A i \in 1 .. k : a[k + i] = Letter(n, AddMsg(list[i]))
            /\ a[k + k + 1] = Letter(n, ReleaseMsg)
<1> DEFINE k == Len(list)
           news == [i \in DOMAIN list |-> Letter(list[i], AddMsg(n))]
           members == [i \in DOMAIN list |-> Letter(n, AddMsg(list[i]))]
           last == <<Letter(n, ReleaseMsg)>>
<1>1. k \in Nat /\ DOMAIN list = 1 .. k /\ \A i \in 1 .. k : list[i] \in Nodes
  OBVIOUS
<1>2. /\ news \in Seq(Letters) /\ Len(news) = k /\ members \in Seq(Letters) /\ Len(members) = k
  <2>1. news \in [1 .. k -> Letters] /\ members \in [1 .. k -> Letters]
    BY <1>1 DEF Letters, Letter
  <2> HIDE DEF news, members
  <2>2. ASSUME NEW s \in [1 .. k -> Letters] PROVE s \in Seq(Letters) /\ Len(s) = k
    BY ONLY <1>1, SeqDef
  <2> HIDE DEF k
  <2> QED
    BY ONLY <2>1, <2>2
<1>3. last \in Seq(Letters) /\ Len(last) = 1 /\ last[1] = Letter(n, ReleaseMsg)
  BY DEF Letters, Letter
<1>4. \A i \in 1 .. k :
        news[i] = Letter(list[i], AddMsg(n)) /\ members[i] = Letter(n, AddMsg(list[i]))
  BY <1>1
<1>5. Announces(list, n) = (news \o members) \o last
  BY DEF Announces
<1> HIDE DEF news, members, last, k
<1>6. /\ news \o members \in Seq(Letters) /\ Len(news \o members) = Len(news) + Len(members)
      /\ \A i \in 1 .. Len(news) : (news \o members)[i] = news[i]
      /\ \A i \in 1 .. Len(members) : (news \o members)[Len(news) + i] = members[i]
  <2>1. news \in Seq(Letters) /\ members \in Seq(Letters)
    BY <1>2
  <2> QED
    BY ONLY <2>1, ConcatParts
<1> DEFINE both == news \o members
<1> HIDE DEF both
<1>7. /\ both \in Seq(Letters) /\ Len(both) = k + k
      /\ \A i \in 1 .. k : both[i] = news[i] /\ both[k + i] = members[i]
  BY ONLY <1>1, <1>2, <1>6 DEF both
<1>77. /\ both \o last \in Seq(Letters) /\ Len(both \o last) = Len(both) + Len(last)
       /\ \A i \in 1 .. Len(both) : (both \o last)[i] = both[i]
       /\ \A i \in 1 .. Len(last) : (both \o last)[Len(both) + i] = last[i]
  <2>1. both \in Seq(Letters) /\ last \in Seq(Letters)
    BY <1>3, <1>7
  <2> HIDE DEF both, last
  <2> QED
    BY ONLY <2>1, ConcatParts
<1>78. /\ both \o last \in Seq(Letters) /\ Len(both \o last) = k + k + 1
       /\ \A i \in 1 .. k + k : (both \o last)[i] = both[i]
       /\ (both \o last)[k + k + 1] = last[1]
  BY ONLY <1>77, <1>7, <1>3, <1>1
<1>8. \A i \in 1 .. k : i \in 1 .. k + k /\ k + i \in 1 .. k + k
  BY <1>1
<1> QED
  BY <1>1, <1>3, <1>4, <1>5, <1>7, <1>78, <1>8 DEF k, both

(* A message sent joins the backlog of one port or is lost.                  *)
LEMMA DeliverAdds ==
  ASSUME TypeOK, NEW q \in Ports, NEW m \in Message, Deliver(q, m)
  PROVE  /\ backlog' \in [Ports -> Seq(Message)]
         /\ \A r \in Ports :
              ElementsOf(backlog'[r])
                \subseteq ElementsOf(backlog[r]) \cup (IF r = q THEN {m} ELSE {})
         /\ refused' \subseteq Ports
BY AppendElements DEF TypeOK, Deliver

(* A message taken comes from the backlog of the port.                       *)
LEMMA TakenRest ==
  ASSUME TypeOK, NEW p \in Procs, Waiting(p)
  PROVE  /\ Taken(p) \in [Ports -> Seq(Message)] /\ Next1(p) \in Message
         /\ Next1(p) \in ElementsOf(backlog[port[p]])
         /\ \A r \in Ports : ElementsOf(Taken(p)[r]) \subseteq ElementsOf(backlog[r])
<1>1. port[p] \in Ports /\ backlog[port[p]] \in Seq(Message) /\ backlog[port[p]] # <<>>
  BY DEF TypeOK, Waiting
<1> QED
BY <1>1, TailElements DEF TypeOK, Taken, Next1

(* What messages of each kind hold.                                          *)
LEMMA MessageKinds ==
  ASSUME NetworkAssumption
  PROVE  /\ \A n \in Nodes : AddMsg(n) \in Announcement
         /\ ReleaseMsg \in Announcement
         /\ Announcement \subseteq Message
         /\ \A m \in Announcement : m.is \in {"add_network_node", "node_release"}
         /\ \A q \in Ports, c \in Codes \cup {"leaf"}, h \in Nat, p \in Procs :
              TaskMsg(q, c, h, p) \in Message
         /\ \A h \in Nat, p \in Procs : DoneMsg(h, p) \in Message
         /\ \A m \in Message :
              /\ m.is = "add_network_node" => m.node \in Nodes
              /\ m.is = "task" => /\ m.from \in Ports /\ m.code \in Codes \cup {"leaf"}
                                  /\ m.handle \in Nat /\ m.by \in Procs
              /\ m.is = "network_task_done" => m.handle \in Nat
BY DEF Announcement, Message, AddMsg, ReleaseMsg, TaskMsg, DoneMsg

(* Constants and the processes there are.                                    *)
LEMMA Sizes ==
  /\ Untried \in Nat /\ Items \in Nat /\ MaxCrashes \in Nat
  /\ Base \in Ports /\ Base \in Procs
  /\ Nodes \subseteq Ports /\ Ports \subseteq Procs /\ Kids \subseteq Procs
BY NetworkAssumption, FS_CardinalityType DEF Untried, Ports, Procs

(* The values the program gives to its variables are of their types.         *)
LEMMA Names ==
  /\ {"off", "bound", "registered", "serving", "script", "sending", "updating",
      "checking", "resumed", "evaluating", "reporting", "leaving", "gone"} = States
  /\ NoJoin \in Joins /\ ForkEach \in Joins /\ NoDuty \in Duties
  /\ <<>> \in Seq(Message) /\ <<>> \in Seq(Nodes) /\ <<>> \in Seq(Letters) /\ <<>> \in Seq(Tickets)
BY Sizes DEF States, Joins, Duties, NoJoin, ForkEach, NoDuty

-----------------------------------------------------------------------------
(* Types.                                                                    *)

(* The initial states have the types.                                        *)
LEMMA TypeInit == Init => TypeOK
<1> SUFFICES ASSUME Init PROVE TypeOK
  OBVIOUS
<1>1. pc \in [Procs -> States] /\ port \in [Procs -> Ports]
  BY Names, Sizes DEF Init, Procs
<1> QED
  BY <1>1, Names, Sizes, NetworkAssumption DEF Init, TypeOK

(* A process goes to one of the places there are.                            *)
LEMMA GoesTyped ==
  ASSUME TypeOK, NEW p \in Procs, NEW w \in States, Goes(p, w)
  PROVE  pc' \in [Procs -> States]
BY DEF TypeOK, Goes

(* What a process logs is a log.                                             *)
LEMMA Log == ASSUME TypeOK, NEW p \in Procs
  PROVE  Evaluated(p) \in Seq(Tickets)
<1>1. duty[p].from \in Ports /\ duty[p].handle \in Nat
  BY DEF TypeOK, Duties
<1>2. <<duty[p].from, duty[p].handle>> \in Tickets
  BY <1>1 DEF Tickets
<1>3. log \in Seq(Tickets)
  BY DEF TypeOK
<1>4. Append(log, <<duty[p].from, duty[p].handle>>) \in Seq(Tickets)
  BY <1>2, <1>3
<1> QED BY <1>3, <1>4 DEF Evaluated

(* The death of a process keeps the types.                                   *)
LEMMA TypeDies ==
  ASSUME TypeOK, NEW p \in Procs, Dies(p),
         UNCHANGED <<scripts, offered, log, returned, refused>>, crashes' \in 0 .. MaxCrashes
  PROVE  TypeOK'
<1>1. pc' \in [Procs -> States]
  BY GoesTyped, Names DEF Dies
<1>2. backlog' \in [Ports -> Seq(Message)]
  BY Names DEF TypeOK, Dies
<1>3. loops' \in [Procs -> 0 .. 2]
  BY DEF TypeOK, Dies
<1>4. join' \in [Procs -> Joins] /\ duty' \in [Procs -> Duties]
  BY Names DEF TypeOK, Dies
<1>5. known' \in [Procs -> Seq(Nodes)] /\ outbox' \in [Procs -> Seq(Letters)]
  BY Names DEF TypeOK, Dies
<1>6. handle' \in [Procs -> Nat] /\ good' \in [Procs -> Nat]
  BY Sizes DEF TypeOK, Dies
<1> QED
  BY <1>1, <1>2, <1>3, <1>4, <1>5, <1>6 DEF TypeOK, Dies

(* Every step keeps the types.                                               *)
LEMMA TypeStep == ASSUME TypeOK, Places, [Next]_vars PROVE TypeOK'
<1> USE Sizes, Names
<1>1. ASSUME StartBase PROVE TypeOK'
  <2>1. pc' \in [Procs -> States]
    BY <1>1, GoesTyped DEF StartBase
  <2>2. loops' \in [Procs -> 0 .. 2]
    BY <1>1 DEF StartBase, TypeOK
  <2> QED
    BY <1>1, <2>1, <2>2 DEF TypeOK, StartBase, histVars
<1>2. ASSUME NEW p \in Nodes, StartNode(p) PROVE TypeOK'
  <2>1. pc' \in [Procs -> States]
    BY <1>2, GoesTyped DEF StartNode
  <2> QED
    BY <1>2, <2>1 DEF TypeOK, StartNode, histVars
<1>3. ASSUME NEW p \in Procs, Exit(p) PROVE TypeOK'
  <2>1. crashes' \in 0 .. MaxCrashes /\ UNCHANGED <<scripts, offered, log, returned, refused>>
    BY <1>3 DEF TypeOK, Exit, histVars
  <2> QED
    BY <1>3, <2>1, TypeDies DEF Exit
<1>4. ASSUME NEW p \in Procs, Register(p) PROVE TypeOK'
  <2>1. p \in Nodes /\ AddMsg(p) \in Message
    BY <1>4, MessageKinds, NetworkAssumption DEF Register, Places, PlaceOf, Procs, Ports, Loop
  <2>2. backlog' \in [Ports -> Seq(Message)] /\ refused' \subseteq Ports
    BY <1>4, <2>1, DeliverAdds DEF Register
  <2>3. pc' \in [Procs -> States]
    BY <1>4, GoesTyped DEF Register
  <2> QED
    BY <1>4, <2>2, <2>3 DEF TypeOK, Register
<1>5. ASSUME NEW p \in Procs, Listen(p) PROVE TypeOK'
  <2>1. p \in Nodes
    BY <1>5 DEF Places, PlaceOf, Listen, Procs, Ports, Loop
  <2>2. loops[p] \in {0, 1} /\ port[p] \in Ports
    BY <1>5, <2>1 DEF Places, PlaceOf, Listen, TypeOK
  <2>3. loops[p] + 1 \in 0 .. 2
    BY <2>2
  <2>4. loops' \in [Procs -> 0 .. 2]
    BY <1>5, <2>3 DEF TypeOK, Listen
  <2>5. pc' \in [Procs -> States]
    BY <1>5, GoesTyped DEF Listen
  <2> QED
    BY <1>5, <2>2, <2>4, <2>5 DEF TypeOK, Listen, histVars
<1>6. ASSUME NEW p \in Procs, Hear(p) PROVE TypeOK'
  <2>1. Taken(p) \in [Ports -> Seq(Message)] /\ Next1(p).node \in Nodes
    BY <1>6, TakenRest, MessageKinds, NetworkAssumption DEF Hear
  <2>2. Append(known[p], Next1(p).node) \in Seq(Nodes)
    BY <2>1 DEF TypeOK
  <2>3. known' \in [Procs -> Seq(Nodes)]
    BY <1>6, <2>2 DEF Hear, TypeOK
  <2>4. Announces(known[p], Next1(p).node) \in Seq(Letters)
    BY <2>1, AnnouncesParts, MessageKinds, NetworkAssumption DEF TypeOK
  <2>5. outbox' \in [Procs -> Seq(Letters)]
    BY <1>6, <2>4 DEF Hear, TypeOK
  <2>6. pc' \in [Procs -> States]
    BY <1>6, GoesTyped DEF Hear, Handled
  <2> QED
    BY <1>6, <2>1, <2>3, <2>5, <2>6 DEF TypeOK, Hear, histVars
<1>7. ASSUME NEW p \in Procs, SendLetter(p) PROVE TypeOK'
  <2>1. outbox[p] \in Seq(Letters) /\ outbox[p] # <<>>
    BY <1>7 DEF SendLetter, TypeOK
  <2>2. Tail(outbox[p]) \in Seq(Letters) /\ Head(outbox[p]) \in Letters
    BY <2>1, TailElements
  <2>3. Head(outbox[p]).to \in Ports /\ Head(outbox[p]).msg \in Message
    BY <2>2, MessageKinds, NetworkAssumption DEF Letters
  <2>4. backlog' \in [Ports -> Seq(Message)] /\ refused' \subseteq Ports
    BY <1>7, <2>3, DeliverAdds DEF SendLetter
  <2>5. outbox' \in [Procs -> Seq(Letters)]
    BY <1>7, <2>2 DEF SendLetter, TypeOK
  <2> QED
    BY <1>7, <2>4, <2>5 DEF TypeOK, SendLetter
<1>8. ASSUME NEW p \in Procs, Released(p) PROVE TypeOK'
  <2>1. Taken(p) \in [Ports -> Seq(Message)]
    BY <1>8, TakenRest DEF Released
  <2>2. pc' \in [Procs -> States]
    BY <1>8, GoesTyped DEF Released, Handled
  <2> QED
    BY <1>8, <2>1, <2>2 DEF TypeOK, Released, histVars
<1>9. ASSUME NEW p \in Procs, RunScript(p) PROVE TypeOK'
  <2>1. pc' \in [Procs -> States]
    BY <1>9, GoesTyped DEF RunScript, AfterSending
  <2>2. join' \in [Procs -> Joins]
    BY <1>9 DEF RunScript, TypeOK
  <2> QED
    BY <1>9, <2>1, <2>2 DEF TypeOK, RunScript, histVars
<1>10. ASSUME NEW p \in Procs, SendToNobody(p) PROVE TypeOK'
  <2>1. crashes' \in 0 .. MaxCrashes /\ UNCHANGED <<scripts, offered, log, returned, refused>>
    BY <1>10 DEF TypeOK, SendToNobody, histVars
  <2> QED
    BY <1>10, <2>1, TypeDies DEF SendToNobody
<1>11. ASSUME NEW p \in Procs, NEW d \in Nodes, NEW c \in CodesOf(p), Sent(p, d, c)
       PROVE  TypeOK'
  <2>1. join[p] \in Joins /\ join[p].left > 0 /\ port[p] \in Ports /\ handle[p] \in Nat
    BY <1>11 DEF TypeOK, Sent, Places, PlaceOf
  <2>2. HandleNow(p) \in Nat /\ HandleNow(p) + 1 \in Nat
    BY <2>1 DEF HandleNow
  <2>3. TaskMsg(port[p], c, HandleNow(p), p) \in Message
    BY <2>1, <2>2, MessageKinds, NetworkAssumption DEF CodesOf
  <2>4. backlog' \in [Ports -> Seq(Message)] /\ refused' \subseteq Ports
    BY <1>11, <2>3, DeliverAdds DEF Sent
  <2>5. join' \in [Procs -> Joins]
    <3>1. /\ join[p].left - 1 \in 0 .. Items
          /\ join[p].sent \in SUBSET Nat /\ join[p].finished \in SUBSET Nat
      BY <2>1, Sizes DEF Joins
    <3>2. join[p].sent \cup {HandleNow(p)} \in SUBSET Nat
      BY <2>2, <3>1
    <3>3. PICK s \in SUBSET Nat : join' = [join EXCEPT ![p].left = @ - 1, ![p].sent = s]
      BY <1>11, <3>1, <3>2 DEF Sent
    <3> DEFINE left1 == [join EXCEPT ![p].left = @ - 1]
    <3>4. left1 \in [Procs -> Joins]
      <4>1. [join[p] EXCEPT !.left = @ - 1] \in Joins
        BY <2>1, <3>1 DEF Joins
      <4> QED BY <4>1 DEF TypeOK
    <3>5. join' = [left1 EXCEPT ![p].sent = s]
      BY <3>3
    <3> HIDE DEF left1
    <3>6. [left1[p] EXCEPT !.sent = s] \in Joins
      BY <3>4 DEF Joins
    <3>7. join' = [left1 EXCEPT ![p] = [left1[p] EXCEPT !.sent = s]]
      BY <3>5
    <3> DEFINE e == [left1[p] EXCEPT !.sent = s]
    <3>8. e \in Joins /\ join' = [left1 EXCEPT ![p] = e]
      BY <3>6, <3>7
    <3> HIDE DEF e
    <3> QED BY <3>4, <3>8
  <2>6. offered' \subseteq Tickets
    <3>1. <<port[p], HandleNow(p)>> \in Tickets
      BY <2>1, <2>2 DEF Tickets
    <3> QED BY <1>11, <3>1 DEF TypeOK, Sent
  <2>7. handle' \in [Procs -> Nat] /\ good' \in [Procs -> Nat]
    BY <1>11, <2>2 DEF TypeOK, Sent
  <2>8. pc' \in [Procs -> States]
    BY <1>11, GoesTyped DEF Sent, AfterSending, AfterJoin
  <2>9. log' \in Seq(Tickets)
    BY <1>11, Log DEF Sent, TypeOK
  <2> QED
    BY <1>11, <2>4, <2>5, <2>6, <2>7, <2>8, <2>9 DEF TypeOK, Sent
<1>12. ASSUME NEW p \in Procs, NEW d \in Nodes, Refused(p, d) PROVE TypeOK'
  <2>1. known[p] \in Seq(Nodes) /\ good[p] \in Nat /\ handle[p] \in Nat
    BY DEF TypeOK
  <2>2. Len(known[p]) \in Nat
    BY <2>1
  <2>3. HandleNow(p) \in Nat /\ GoodNow(p) \in Nat
    BY <2>1, <2>2 DEF HandleNow, GoodNow
  <2>4. GoodNow(p) > 0 => GoodNow(p) - 1 \in Nat
    BY <2>3
  <2>5. good' \in [Procs -> Nat] /\ handle' \in [Procs -> Nat]
    BY <1>12, <2>3, <2>4 DEF TypeOK, Refused
  <2>6. pc' \in [Procs -> States]
    BY <1>12, GoesTyped DEF Refused, AfterJoin, TypeOK
  <2>7. log' \in Seq(Tickets)
    BY <1>12, Log DEF Refused, TypeOK
  <2> QED
    BY <1>12, <2>5, <2>6, <2>7 DEF TypeOK, Refused
<1>13. ASSUME NEW p \in Procs, TaskDone(p) PROVE TypeOK'
  <2>1. Taken(p) \in [Ports -> Seq(Message)] /\ Next1(p).handle \in Nat
    BY <1>13, TakenRest, MessageKinds, NetworkAssumption DEF TaskDone
  <2>2. join[p] \in Joins
    BY DEF TypeOK
  <2>3. [join[p] EXCEPT !.finished = @ \cup {Next1(p).handle}] \in Joins
    BY <2>1, <2>2 DEF Joins
  <2>4. join' \in [Procs -> Joins]
    BY <1>13, <2>3 DEF TypeOK, TaskDone
  <2>5. pc' \in [Procs -> States]
    BY <1>13, GoesTyped DEF TaskDone, Handled
  <2> QED
    BY <1>13, <2>1, <2>4, <2>5 DEF TypeOK, TaskDone, histVars
<1>14. ASSUME NEW p \in Procs, CheckFinished(p) PROVE TypeOK'
  <2>1. port[p] \in Ports /\ join[p].sent \subseteq Nat
    BY DEF TypeOK, Joins
  <2>2. \A h \in join[p].sent : <<port[p], h>> \in Tickets
    BY <2>1 DEF Tickets
  <2>3. returned' \subseteq Tickets
    <3>1. {<<port[p], h>> : h \in join[p].sent} \subseteq Tickets
      BY <2>2
    <3> QED BY <1>14, <3>1 DEF TypeOK, CheckFinished
  <2>4. pc' \in [Procs -> States]
    BY <1>14, GoesTyped DEF CheckFinished, AfterJoin
  <2>5. log' \in Seq(Tickets)
    BY <1>14, Log DEF CheckFinished, TypeOK
  <2> QED
    BY <1>14, <2>3, <2>4, <2>5 DEF TypeOK, CheckFinished
<1>15. ASSUME NEW p \in Procs, Fork(p) PROVE TypeOK'
  <2>1. /\ Taken(p) \in [Ports -> Seq(Message)] /\ Next1(p).handle \in Nat
        /\ Next1(p).from \in Ports /\ Next1(p).code \in Codes \cup {"leaf"} /\ Next1(p).by \in Procs
    BY <1>15, TakenRest, MessageKinds, NetworkAssumption DEF Fork
  <2> DEFINE new == [from |-> Next1(p).from, code |-> Next1(p).code,
                     handle |-> Next1(p).handle, by |-> Next1(p).by]
  <2>2. PICK k \in Kids :
          /\ pc' = [pc EXCEPT ![p] = Handled(p), ![k] = "evaluating"]
          /\ port' = [port EXCEPT ![k] = port[p]]
          /\ known' = [known EXCEPT ![k] = known[p]]
          /\ handle' = [handle EXCEPT ![k] = handle[p]]
          /\ duty' = [duty EXCEPT ![k] = new]
    BY <1>15 DEF Fork
  <2>3. new \in Duties
    BY <2>1 DEF Duties
  <2> HIDE DEF new
  <2>4. duty' \in [Procs -> Duties]
    BY <2>2, <2>3 DEF TypeOK
  <2>5. pc' \in [Procs -> States]
    BY <2>2 DEF TypeOK, Handled
  <2>6. port' \in [Procs -> Ports] /\ known' \in [Procs -> Seq(Nodes)] /\ handle' \in [Procs -> Nat]
    BY <2>2 DEF TypeOK
  <2>7. backlog' = Taken(p) /\ UNCHANGED <<opened, loops, outbox, join, good, histVars>>
    BY <1>15 DEF Fork
  <2> QED
    BY <2>1, <2>4, <2>5, <2>6, <2>7 DEF TypeOK, histVars
<1>16. ASSUME NEW p \in Procs, Evaluate(p) PROVE TypeOK'
  <2>1. pc' \in [Procs -> States]
    BY <1>16, GoesTyped DEF Evaluate, AfterSending
  <2>2. join' \in [Procs -> Joins] /\ log' \in Seq(Tickets)
    BY <1>16, Log DEF Evaluate, TypeOK
  <2> QED
    BY <1>16, <2>1, <2>2 DEF TypeOK, Evaluate
<1>17. ASSUME NEW p \in Procs, Report(p) PROVE TypeOK'
  <2>1. duty[p].from \in Ports /\ duty[p].handle \in Nat /\ duty[p].by \in Procs
    BY DEF TypeOK, Duties
  <2>2. DoneMsg(duty[p].handle, duty[p].by) \in Message
    BY <2>1, MessageKinds, NetworkAssumption
  <2>3. backlog' \in [Ports -> Seq(Message)] /\ refused' \subseteq Ports
    BY <1>17, <2>1, <2>2, DeliverAdds DEF Report
  <2>4. pc' \in [Procs -> States]
    BY <1>17, GoesTyped DEF Report
  <2> QED
    BY <1>17, <2>3, <2>4 DEF TypeOK, Report
<1>18. ASSUME NEW p \in Procs, Crash(p) PROVE TypeOK'
  <2>1. crashes \in 0 .. MaxCrashes /\ crashes < MaxCrashes /\ crashes' = crashes + 1
    BY <1>18 DEF Crash, TypeOK
  <2>2. crashes' \in 0 .. MaxCrashes
    BY <2>1
  <2>3. Dies(p) /\ UNCHANGED <<scripts, offered, log, returned, refused>>
    BY <1>18 DEF Crash
  <2> QED
    BY <2>2, <2>3, TypeDies
<1>19. CASE UNCHANGED vars
  BY <1>19 DEF TypeOK, vars, procVars, histVars
<1> QED
  BY <1>1, <1>2, <1>3, <1>4, <1>5, <1>6, <1>7, <1>8, <1>9, <1>10, <1>11, <1>12,
     <1>13, <1>14, <1>15, <1>16, <1>17, <1>18, <1>19 DEF Next, Step

-----------------------------------------------------------------------------
(* Places.                                                                   *)

(* Initially every process is where its kind may be.                         *)
LEMMA PlacesInit == Init => Places
BY Sizes, NetworkAssumption DEF Init, Places, PlaceOf, Loop, Procs, Ports, NoJoin

Kept(p) == /\ pc'[p] = pc[p] /\ port'[p] = port[p]
           /\ loops'[p] = loops[p] /\ join'[p] = join[p]

(* A process that keeps its place is where its kind may be.                  *)
LEMMA PlaceKept ==
  ASSUME NEW p \in Procs, PlaceOf(p), Kept(p)
  PROVE  PlaceOf(p)'
BY DEF PlaceOf, Kept

(* A step of one process leaves the places of the others.                    *)
LEMMA PlacesOne ==
  ASSUME Places, NEW p \in Procs, \A q \in Procs \ {p} : Kept(q), PlaceOf(p)'
  PROVE  Places'
BY PlaceKept DEF Places

(* Every step takes a process from a place it can be in to another.          *)
LEMMA PlacesStep == ASSUME TypeOK, Places, [Next]_vars PROVE Places'
<1> USE Sizes, NetworkAssumption
<1>1. CASE StartBase
  <2>1. /\ \A q \in Procs \ {Base} : Kept(q)
        /\ pc'[Base] = "serving" /\ port'[Base] = port[Base]
    BY <1>1 DEF TypeOK, StartBase, Goes, Kept
  <2> QED
    BY <2>1, PlacesOne DEF Places, PlaceOf, Procs, Ports
<1>2. ASSUME NEW p \in Nodes, StartNode(p) PROVE Places'
  <2>1. /\ \A q \in Procs \ {p} : Kept(q)
        /\ pc'[p] = "bound" /\ port'[p] = port[p] /\ loops'[p] = loops[p] /\ pc[p] = "off"
    BY <1>2 DEF TypeOK, StartNode, Goes, Kept
  <2> QED
    BY <2>1, PlacesOne DEF Places, PlaceOf, Procs, Ports, Loop
<1>3. ASSUME NEW p \in Nodes \cup Kids, Dies(p) PROVE Places'
  <2>1. /\ \A q \in Procs \ {p} : Kept(q)
        /\ pc'[p] = "gone" /\ port'[p] = port[p]
    BY <1>3 DEF TypeOK, Dies, Goes, Kept
  <2> QED
    BY <2>1, PlacesOne DEF Places, PlaceOf, Procs, Ports, Loop
<1>4. ASSUME NEW p \in Procs, Register(p) PROVE Places'
  <2>1. /\ \A q \in Procs \ {p} : Kept(q)
        /\ pc'[p] = "registered" /\ port'[p] = port[p] /\ loops'[p] = loops[p] /\ pc[p] = "bound"
    BY <1>4 DEF TypeOK, Register, Goes, Kept
  <2> QED
    BY <2>1, PlacesOne DEF Places, PlaceOf, Procs, Ports, Loop
<1>5. ASSUME NEW p \in Procs, Listen(p) PROVE Places'
  <2>1. /\ \A q \in Procs \ {p} : Kept(q)
        /\ pc'[p] = "serving" /\ port'[p] = port[p] /\ pc[p] \in {"registered", "resumed"}
    BY <1>5 DEF TypeOK, Listen, Goes, Kept
  <2> QED
    BY <2>1, PlacesOne DEF Places, PlaceOf, Procs, Ports, Loop
<1>6. ASSUME NEW p \in Procs, Hear(p) \/ TaskDone(p) PROVE Places'
  <2>1. /\ \A q \in Procs \ {p} : Kept(q)
        /\ pc'[p] = Handled(p) /\ port'[p] = port[p] /\ loops'[p] = loops[p]
        /\ pc[p] \in {"serving", "updating"}
    <3>1. CASE Hear(p)
      BY <3>1 DEF TypeOK, Hear, Accepting, Goes, Kept
    <3>2. CASE TaskDone(p)
      BY <3>2 DEF TypeOK, TaskDone, Accepting, Goes, Kept, histVars
    <3> QED
      BY <1>6, <3>1, <3>2
  <2> QED
    BY <2>1, PlacesOne DEF Places, PlaceOf, Procs, Ports, Loop, Handled
<1>7. ASSUME NEW p \in Procs, Released(p) PROVE Places'
  <2>1. /\ \A q \in Procs \ {p} : Kept(q)
        /\ pc'[p] = IF p = Base \/ pc[p] = "updating" THEN Handled(p)
                    ELSE IF loops[p] = 1 THEN "script" ELSE "leaving"
        /\ port'[p] = port[p] /\ loops'[p] = loops[p] /\ pc[p] \in {"serving", "updating"}
    BY <1>7 DEF TypeOK, Released, Accepting, Goes, Kept
  <2> QED
    BY <2>1, PlacesOne DEF Places, PlaceOf, Procs, Ports, Loop, Handled
<1>8. ASSUME NEW p \in Procs, SendLetter(p) PROVE Places'
  BY <1>8, PlacesOne DEF SendLetter, Places, PlaceOf, Kept
<1>9. ASSUME NEW p \in Procs, RunScript(p) PROVE Places'
  <2>1. /\ \A q \in Procs \ {p} : Kept(q)
        /\ port'[p] = port[p] /\ loops'[p] = loops[p] /\ pc[p] = "script"
        /\ \/ pc'[p] = "resumed"
           \/ pc'[p] = AfterSending(Items) /\ join'[p] = ForkEach
    BY <1>9 DEF TypeOK, RunScript, Goes, Kept
  <2> QED
    BY <2>1, PlacesOne DEF Places, PlaceOf, Procs, Ports, Loop, AfterSending, ForkEach
<1>10. ASSUME NEW p \in Procs, NEW d \in Nodes, NEW c \in CodesOf(p), Sent(p, d, c)
       PROVE  Places'
  <2>1. /\ \A q \in Procs \ {p} : Kept(q)
        /\ port'[p] = port[p] /\ loops'[p] = loops[p] /\ pc[p] = "sending"
        /\ pc'[p] \in {AfterSending(join[p].left - 1), AfterJoin(p)}
    BY <1>10 DEF TypeOK, Sent, Goes, Kept
  <2>2. join'[p].left = join[p].left - 1 /\ join[p].left \in Nat /\ join[p].left > 0
    BY <1>10 DEF TypeOK, Joins, Sent, Places, PlaceOf
  <2> QED
    BY <2>1, <2>2, PlacesOne DEF Places, PlaceOf, Procs, Ports, Loop, AfterSending, AfterJoin
<1>11. ASSUME NEW p \in Procs, NEW d \in Nodes, Refused(p, d) PROVE Places'
  <2>1. /\ \A q \in Procs \ {p} : Kept(q)
        /\ port'[p] = port[p] /\ loops'[p] = loops[p] /\ join'[p] = join[p] /\ pc[p] = "sending"
        /\ pc'[p] \in {"sending", AfterJoin(p)}
    BY <1>11 DEF TypeOK, Refused, Goes, Kept
  <2> QED
    BY <2>1, PlacesOne DEF Places, PlaceOf, Procs, Ports, Loop, AfterJoin
<1>12. ASSUME NEW p \in Procs, CheckFinished(p) PROVE Places'
  <2>1. /\ \A q \in Procs \ {p} : Kept(q)
        /\ port'[p] = port[p] /\ loops'[p] = loops[p] /\ join'[p] = join[p] /\ pc[p] = "checking"
        /\ pc'[p] \in {"updating", AfterJoin(p)}
    BY <1>12 DEF TypeOK, CheckFinished, Goes, Kept
  <2> QED
    BY <2>1, PlacesOne DEF Places, PlaceOf, Procs, Ports, Loop, AfterJoin
<1>13. ASSUME NEW p \in Procs, Fork(p) PROVE Places'
  <2>1. PICK k \in Kids :
          /\ pc[k] = "gone" /\ pc' = [pc EXCEPT ![p] = Handled(p), ![k] = "evaluating"]
          /\ port' = [port EXCEPT ![k] = port[p]]
    BY <1>13 DEF Fork
  <2>2. UNCHANGED <<loops, join>> /\ pc[p] \in {"serving", "updating"}
    BY <1>13 DEF Fork, Accepting
  <2>3. /\ \A q \in Procs \ {p, k} : Kept(q)
        /\ p # k /\ pc'[p] = Handled(p) /\ pc'[k] = "evaluating"
        /\ port'[p] = port[p] /\ loops'[p] = loops[p]
    BY <2>1, <2>2 DEF TypeOK, Kept
  <2>4. PlaceOf(k)'
    BY <2>3 DEF PlaceOf, Procs, Ports
  <2>5. PlaceOf(p)'
    BY <2>2, <2>3 DEF Places, PlaceOf, Procs, Ports, Loop, Handled
  <2> QED
    BY <2>3, <2>4, <2>5, PlaceKept DEF Places
<1>14. ASSUME NEW p \in Procs, Evaluate(p) PROVE Places'
  <2>1. /\ \A q \in Procs \ {p} : Kept(q)
        /\ port'[p] = port[p] /\ loops'[p] = loops[p] /\ pc[p] = "evaluating"
        /\ \/ pc'[p] = "reporting"
           \/ pc'[p] = AfterSending(Items) /\ join'[p] = ForkEach
    BY <1>14 DEF TypeOK, Evaluate, Goes, Kept
  <2> QED
    BY <2>1, PlacesOne DEF Places, PlaceOf, Procs, Ports, Loop, AfterSending, ForkEach
<1>15. ASSUME NEW p \in Procs, Report(p) PROVE Places'
  <2>1. /\ \A q \in Procs \ {p} : Kept(q)
        /\ port'[p] = port[p] /\ pc[p] = "reporting" /\ pc'[p] = "leaving"
    BY <1>15 DEF TypeOK, Report, Goes, Kept
  <2> QED
    BY <2>1, PlacesOne DEF Places, PlaceOf, Procs, Ports, Loop
<1>16. CASE UNCHANGED vars
  BY <1>16 DEF Places, PlaceOf, vars, procVars, histVars
<1>17. ASSUME NEW p \in Nodes \cup Kids, Crash(p) PROVE Places'
  BY <1>17, <1>3 DEF Crash
<1>18. ASSUME NEW p \in Procs, SendToNobody(p) PROVE Places'
  BY <1>18, <1>3 DEF SendToNobody, Places, PlaceOf, Procs, Ports
<1>19. ASSUME NEW p \in Nodes \cup Kids, Exit(p) PROVE Places'
  BY <1>19, <1>3 DEF Exit
<1> QED
  BY <1>1, <1>2, <1>4, <1>5, <1>6, <1>7, <1>8, <1>9, <1>10, <1>11, <1>12, <1>13,
     <1>14, <1>15, <1>16, <1>17, <1>18, <1>19 DEF Next, Step

-----------------------------------------------------------------------------
(* Nobody hears of itself.                                                   *)

(* No process announces a node to itself.                                    *)
LEMMA AnnouncedToOthers ==
  ASSUME NEW list \in Seq(Nodes), NEW n \in Nodes, n \notin ElementsOf(list)
  PROVE  \A x \in ElementsOf(Announces(list, n)) : OfAnother(x.to, x.msg)
<1> DEFINE a == Announces(list, n)
<1>1. /\ a \in Seq(Letters) /\ Len(a) = Len(list) + Len(list) + 1 /\ Len(list) \in Nat
      /\ \A i \in 1 .. Len(list) : list[i] \in Nodes /\ a[i] = Letter(list[i], AddMsg(n))
      /\ \A i \in 1 .. Len(list) : a[Len(list) + i] = Letter(n, AddMsg(list[i]))
      /\ a[Len(list) + Len(list) + 1] = Letter(n, ReleaseMsg)
  BY AnnouncesParts, MessageKinds, NetworkAssumption
<1>2. \A i \in 1 .. Len(list) : list[i] # n
  BY DEF ElementsOf
<1> HIDE DEF a
<1>3. ASSUME NEW i \in 1 .. Len(a) PROVE OfAnother(a[i].to, a[i].msg)
  <2>1. CASE i \in 1 .. Len(list)
    <3>1. a[i] = Letter(list[i], AddMsg(n)) /\ list[i] # n
      BY <1>1, <1>2, <2>1
    <3> QED BY <3>1 DEF Letter, AddMsg, OfAnother
  <2>2. CASE i - Len(list) \in 1 .. Len(list)
    <3>1. a[i] = Letter(n, AddMsg(list[i - Len(list)]))
      <4>1. i = Len(list) + (i - Len(list))
        BY <1>1
      <4> QED BY <1>1, <2>2, <4>1
    <3> QED BY <1>2, <2>2, <3>1 DEF Letter, AddMsg, OfAnother
  <2>3. CASE i = Len(list) + Len(list) + 1
    BY <1>1, <2>3 DEF Letter, ReleaseMsg, News, OfAnother
  <2> QED BY <1>1, <2>1, <2>2, <2>3
<1>4. \A x \in ElementsOf(a) : \E i \in 1 .. Len(a) : x = a[i]
  BY <1>1 DEF ElementsOf
<1> QED BY <1>3, <1>4 DEF a

(* Initially nobody knows anybody and nothing is announced.                  *)
LEMMA KnowsInit == Init => OthersNews /\ KnowsOthers
BY Sizes, EmptyElements DEF Init, OthersNews, KnowsOthers

Distinct(s) == \A i, j \in DOMAIN s : s[i] = s[j] => i = j
(* KnowsOthers, as one condition for each process.                           *)
LEMMA KnowsByProcess ==
  KnowsOthers <=> \A p \in Procs : port[p] \notin ElementsOf(known[p]) /\ Distinct(known[p])
BY DEF KnowsOthers, Distinct

(* A message about another node leaves every backlog with such messages.     *)
LEMMA DeliveredNews ==
  ASSUME TypeOK, OthersNews, NEW q \in Ports, NEW m \in Message, Deliver(q, m), OfAnother(q, m)
  PROVE  \A r \in Ports : \A n \in ElementsOf(backlog'[r]) : OfAnother(r, n)
BY DeliverAdds DEF OthersNews

(* Every step keeps the news off the port it is about.                       *)
LEMMA NewsStep ==
  ASSUME TypeOK, Places, OthersNews, KnowsOthers, [Next]_vars
  PROVE  OthersNews' /\ KnowsOthers'
<1> USE Sizes, NetworkAssumption
<1>1. ASSUME UNCHANGED <<backlog, outbox, known, port>> PROVE OthersNews' /\ KnowsOthers'
  BY <1>1 DEF OthersNews, KnowsOthers
<1>2. ASSUME NEW q \in Ports, NEW m \in Message, Deliver(q, m), ~News(m),
             UNCHANGED <<outbox, known, port>>
      PROVE  OthersNews' /\ KnowsOthers'
  <2>1. OfAnother(q, m)
    BY <1>2 DEF OfAnother
  <2>2. \A r \in Ports : \A n \in ElementsOf(backlog'[r]) : OfAnother(r, n)
    BY <1>2, <2>1, DeliveredNews
  <2> QED
    BY <1>2, <2>2 DEF OthersNews, KnowsOthers
<1>3. ASSUME NEW p \in Procs, Register(p) PROVE OthersNews' /\ KnowsOthers'
  <2>1. p \in Nodes /\ AddMsg(p) \in Message
    BY <1>3, MessageKinds DEF Register, Places, PlaceOf, Procs, Ports, Loop
  <2>2. OfAnother(Base, AddMsg(p))
    BY <2>1 DEF OfAnother, AddMsg
  <2>3. \A r \in Ports : \A n \in ElementsOf(backlog'[r]) : OfAnother(r, n)
    BY <1>3, <2>1, <2>2, DeliveredNews DEF Register
  <2> QED
    BY <1>3, <2>3 DEF OthersNews, KnowsOthers, Register
<1>4. ASSUME NEW p \in Procs, SendLetter(p) PROVE OthersNews' /\ KnowsOthers'
  <2>1. outbox[p] \in Seq(Letters) /\ outbox[p] # <<>>
    BY <1>4 DEF SendLetter, TypeOK
  <2>2. /\ ElementsOf(Tail(outbox[p])) \subseteq ElementsOf(outbox[p])
        /\ Head(outbox[p]) \in ElementsOf(outbox[p]) /\ Head(outbox[p]) \in Letters
    BY <2>1, TailElements
  <2>3. /\ Head(outbox[p]).to \in Ports /\ Head(outbox[p]).msg \in Message
        /\ OfAnother(Head(outbox[p]).to, Head(outbox[p]).msg)
    BY <2>2, MessageKinds DEF Letters, OthersNews
  <2>4. \A r \in Ports : \A n \in ElementsOf(backlog'[r]) : OfAnother(r, n)
    BY <1>4, <2>3, DeliveredNews DEF SendLetter
  <2>5. \A r \in Procs : ElementsOf(outbox'[r]) \subseteq ElementsOf(outbox[r])
    BY <1>4, <2>2 DEF SendLetter, TypeOK
  <2> QED
    BY <1>4, <2>4, <2>5 DEF OthersNews, KnowsOthers, SendLetter
<1>5. ASSUME NEW p \in Procs, Released(p) \/ TaskDone(p) PROVE OthersNews' /\ KnowsOthers'
  <2>1. Waiting(p) /\ backlog' = Taken(p) /\ UNCHANGED <<outbox, known, port>>
    BY <1>5 DEF Released, TaskDone
  <2>2. \A r \in Ports : ElementsOf(backlog'[r]) \subseteq ElementsOf(backlog[r])
    BY <2>1, TakenRest
  <2> QED
    BY <2>1, <2>2 DEF OthersNews, KnowsOthers
<1>6. ASSUME NEW p \in Procs, Hear(p) PROVE OthersNews' /\ KnowsOthers'
  <2> DEFINE n == Next1(p).node
  <2>1. Waiting(p) /\ backlog' = Taken(p) /\ UNCHANGED port /\ News(Next1(p))
    BY <1>6 DEF Hear, News
  <2>2. /\ Next1(p) \in ElementsOf(backlog[port[p]]) /\ n \in Nodes
        /\ \A r \in Ports : ElementsOf(backlog'[r]) \subseteq ElementsOf(backlog[r])
    BY <2>1, TakenRest, MessageKinds DEF News
  <2>3. n # port[p] /\ port[p] \in Ports
    BY <2>1, <2>2 DEF OthersNews, OfAnother, TypeOK
  <2>4. known[p] \in Seq(Nodes)
    BY DEF TypeOK
  <2> HIDE DEF n
  <2>5. CASE n \in ElementsOf(known[p])
    <3>1. UNCHANGED <<known, outbox>>
      BY <1>6, <2>5 DEF Hear, n, TypeOK
    <3> QED
      BY <2>1, <2>2, <3>1 DEF OthersNews, KnowsOthers
  <2>6. CASE n \notin ElementsOf(known[p])
    <3>1. known' = [known EXCEPT ![p] = Append(known[p], n)]
      BY <1>6, <2>6 DEF Hear, n
    <3>2. outbox' = outbox \/ outbox' = [outbox EXCEPT ![p] = Announces(known[p], n)]
      BY <1>6, <2>6 DEF Hear, n
    <3>3. \A r \in Procs : \A x \in ElementsOf(outbox'[r]) : OfAnother(x.to, x.msg)
      BY <2>2, <2>4, <2>6, <3>2, AnnouncedToOthers DEF OthersNews, TypeOK
    <3>4. Distinct(known[p]) /\ port[p] \notin ElementsOf(known[p])
      BY KnowsByProcess
    <3>5. Distinct(Append(known[p], n)) /\ port[p] \notin ElementsOf(Append(known[p], n))
      <4>1. \A i \in DOMAIN known[p] : known[p][i] # n
        BY <2>6 DEF ElementsOf
      <4>2. /\ ElementsOf(Append(known[p], n)) = ElementsOf(known[p]) \cup {n}
            /\ DOMAIN Append(known[p], n) = DOMAIN known[p] \cup {Len(known[p]) + 1}
            /\ \A i \in DOMAIN known[p] : Append(known[p], n)[i] = known[p][i]
            /\ Append(known[p], n)[Len(known[p]) + 1] = n
        BY <2>2, <2>4, AppendElements
      <4> QED
        BY <2>3, <3>4, <4>1, <4>2 DEF Distinct
    <3>6. \A r \in Procs : port'[r] \notin ElementsOf(known'[r]) /\ Distinct(known'[r])
      BY <2>1, <3>1, <3>5, KnowsByProcess DEF TypeOK
    <3>7. KnowsOthers'
      BY <3>6 DEF KnowsOthers, Distinct
    <3> QED
      BY <2>1, <2>2, <3>3, <3>7 DEF OthersNews
  <2> QED
    BY <2>5, <2>6
<1>7. ASSUME NEW p \in Procs, Dies(p) PROVE OthersNews' /\ KnowsOthers'
  <2>1. /\ \A r \in Procs : known'[r] \in {known[r], <<>>} /\ outbox'[r] \in {outbox[r], <<>>}
        /\ \A q \in Ports : backlog'[q] \in {backlog[q], <<>>}
        /\ UNCHANGED port
    BY <1>7 DEF Dies, TypeOK
  <2>2. \A r \in Procs : port'[r] \notin ElementsOf(known'[r]) /\ Distinct(known'[r])
    BY <2>1, KnowsByProcess, EmptyElements DEF Distinct
  <2>3. KnowsOthers'
    BY <2>2 DEF KnowsOthers, Distinct
  <2>4. OthersNews'
    BY <2>1, EmptyElements DEF OthersNews
  <2> QED
    BY <2>3, <2>4
<1>8. ASSUME NEW p \in Procs, Fork(p) PROVE OthersNews' /\ KnowsOthers'
  <2>1. Waiting(p) /\ backlog' = Taken(p) /\ UNCHANGED outbox
    BY <1>8 DEF Fork
  <2>2. \E k \in Kids : /\ port' = [port EXCEPT ![k] = port[p]]
                        /\ known' = [known EXCEPT ![k] = known[p]]
    BY <1>8 DEF Fork
  <2>3. \A r \in Procs : port'[r] \notin ElementsOf(known'[r]) /\ Distinct(known'[r])
    BY <2>2, KnowsByProcess DEF TypeOK
  <2>4. KnowsOthers'
    BY <2>3 DEF KnowsOthers, Distinct
  <2> QED
    BY <2>1, <2>4, TakenRest DEF OthersNews
<1>9. ASSUME NEW p \in Procs, NEW d \in Nodes, NEW c \in CodesOf(p), Sent(p, d, c)
      PROVE  OthersNews' /\ KnowsOthers'
  <2>1. port[p] \in Ports /\ HandleNow(p) \in Nat
    <3>1. port[p] \in Ports /\ handle[p] \in Nat
      BY DEF TypeOK
    <3> QED BY <3>1 DEF HandleNow
  <2>2. /\ TaskMsg(port[p], c, HandleNow(p), p) \in Message
        /\ ~News(TaskMsg(port[p], c, HandleNow(p), p))
    BY <2>1, MessageKinds DEF CodesOf, News, TaskMsg
  <2> QED
    BY <1>9, <2>2, <1>2 DEF Sent
<1>10. ASSUME NEW p \in Procs, Report(p) PROVE OthersNews' /\ KnowsOthers'
  <2>1. duty[p].from \in Ports /\ duty[p].handle \in Nat /\ duty[p].by \in Procs
    BY DEF TypeOK, Duties
  <2>2. /\ DoneMsg(duty[p].handle, duty[p].by) \in Message
        /\ ~News(DoneMsg(duty[p].handle, duty[p].by))
    BY <2>1, MessageKinds DEF News, DoneMsg
  <2> QED
    BY <1>10, <2>1, <2>2, <1>2 DEF Report
<1>11. ASSUME StartBase \/ (\E p \in Nodes : StartNode(p))
              \/ \E p \in Procs : Listen(p) \/ RunScript(p) \/ CheckFinished(p) \/ Evaluate(p)
                                  \/ \E d \in Nodes : Refused(p, d)
       PROVE  OthersNews' /\ KnowsOthers'
  BY <1>11, <1>1 DEF StartBase, StartNode, Listen, RunScript, CheckFinished, Evaluate, Refused
<1>12. CASE UNCHANGED vars
  BY <1>12, <1>1 DEF vars, procVars
<1>13. ASSUME NEW p \in Procs, Crash(p) \/ SendToNobody(p) \/ Exit(p)
       PROVE  OthersNews' /\ KnowsOthers'
  BY <1>13, <1>7 DEF Crash, SendToNobody, Exit
<1> QED
  BY <1>3, <1>4, <1>5, <1>6, <1>8, <1>9, <1>10, <1>11, <1>12, <1>13 DEF Next, Step

(* The invariant holds of every state, whatever the tasks do and whoever     *)
(* crashes.                                                                  *)
THEOREM Inductive == Spec => []IInv
<1>1. Init => IInv
  BY TypeInit, PlacesInit, KnowsInit DEF IInv
<1>2. IInv /\ [Next]_vars => IInv'
  BY TypeStep, PlacesStep, NewsStep DEF IInv
<1> QED
  BY <1>1, <1>2, PTL DEF Spec

(* The types of ctree.h:301-321 hold for any number of nodes, of forked      *)
(* processes and of items (add_network_node, send_task_to_node, fork_each).  *)
THEOREM TypeCorrect == Spec => []TypeOK
BY Inductive, PTL DEF IInv

(* Nobody ever hears of itself or twice of a node, whatever the order of     *)
(* registrations, announcements and crashes (add_network_node): a task sent  *)
(* to a random node never goes to its sender (ctree.c:4735).                 *)
THEOREM NobodyKnowsItself == Spec => []KnowsOthers
BY Inductive, PTL DEF IInv

-----------------------------------------------------------------------------
(* Steps seen from one process.                                              *)

(* A forked process whose code is a leaf takes no message and sends none.    *)
LEMMA KidsTakeNothing ==
  ASSUME Places, Leaves, NEW k \in Kids
  PROVE  pc[k] \in {"evaluating", "reporting", "leaving", "gone"} /\ outbox[k] = <<>>
BY Sizes DEF Places, PlaceOf, Leaves, Loop

(* The base only serves.                                                     *)
LEMMA PlaceBase == ASSUME Places PROVE pc[Base] \in {"off", "serving"}
BY Sizes DEF Places, PlaceOf

(* The base and the nodes keep their own ports.                              *)
LEMMA PlacePorts == ASSUME Places, NEW p \in Ports PROVE port[p] = p
BY Sizes DEF Places, PlaceOf, Ports

Same(q) ==
  /\ pc'[q] = pc[q] /\ port'[q] = port[q] /\ known'[q] = known[q] /\ outbox'[q] = outbox[q]
  /\ handle'[q] = handle[q] /\ join'[q] = join[q] /\ good'[q] = good[q] /\ duty'[q] = duty[q]
Alone(p) == \A q \in Procs \ {p} : Same(q)

Quietly(p) ==
  \/ Register(p) \/ Listen(p) \/ SendLetter(p) \/ RunScript(p)
  \/ \E d \in Nodes : Refused(p, d)
  \/ CheckFinished(p) \/ Evaluate(p) \/ Report(p)
Takes(p) == Hear(p) \/ Released(p) \/ TaskDone(p)

(* A step of one process, a fork apart, leaves the memory of the others.     *)
LEMMA ActsAlone ==
  ASSUME TypeOK, NEW p \in Procs,
         \/ (p = Base /\ StartBase) \/ StartNode(p) \/ Quietly(p) \/ Takes(p) \/ Dies(p)
         \/ \E d \in Nodes, c \in CodesOf(p) : Sent(p, d, c)
  PROVE  Alone(p)
<1>1. ASSUME p = Base, StartBase PROVE Alone(p)
  BY <1>1 DEF StartBase, TypeOK, Alone, Same, Goes
<1>2. CASE StartNode(p)
  BY <1>2 DEF StartNode, TypeOK, Alone, Same, Goes
<1>3. CASE Quietly(p)
  <2>1. CASE Register(p) \/ Listen(p) \/ SendLetter(p)
    BY <2>1 DEF Register, Listen, SendLetter, TypeOK, Alone, Same, Goes
  <2>2. CASE RunScript(p)
    BY <2>2 DEF RunScript, TypeOK, Alone, Same, Goes
  <2>3. ASSUME NEW d \in Nodes, Refused(p, d) PROVE Alone(p)
    BY <2>3 DEF Refused, TypeOK, Alone, Same, Goes
  <2>4. CASE CheckFinished(p)
    BY <2>4 DEF CheckFinished, TypeOK, Alone, Same, Goes
  <2>5. CASE Evaluate(p)
    BY <2>5 DEF Evaluate, TypeOK, Alone, Same, Goes
  <2>6. CASE Report(p)
    BY <2>6 DEF Report, TypeOK, Alone, Same, Goes
  <2> QED
    BY <1>3, <2>1, <2>2, <2>3, <2>4, <2>5, <2>6 DEF Quietly
<1>4. CASE Hear(p)
  BY <1>4 DEF Hear, TypeOK, Alone, Same, Goes
<1>5. CASE Released(p)
  BY <1>5 DEF Released, TypeOK, Alone, Same, Goes
<1>6. CASE TaskDone(p)
  BY <1>6 DEF TaskDone, TypeOK, Alone, Same, Goes
<1>7. CASE Dies(p)
  BY <1>7 DEF Dies, TypeOK, Alone, Same, Goes
<1>8. ASSUME NEW d \in Nodes, NEW c \in CodesOf(p), Sent(p, d, c) PROVE Alone(p)
  BY <1>8 DEF Sent, TypeOK, Alone, Same, Goes
<1> QED
  BY <1>1, <1>2, <1>3, <1>4, <1>5, <1>6, <1>7, <1>8 DEF Takes

(* Initially there are no tasks and no open ports.                           *)
LEMMA LeavesInit == Init => Leaves /\ Unopened
<1> SUFFICES ASSUME Init PROVE Leaves /\ Unopened
  OBVIOUS
<1>1. /\ \A k \in Kids : pc[k] = "gone" /\ outbox[k] = <<>>
      /\ \A q \in Ports : backlog[q] = <<>>
      /\ opened = {}
  BY Sizes, NetworkAssumption DEF Init
<1> QED
  BY <1>1, EmptyElements DEF Leaves, Unopened, Loop

(* Which steps of the network there are, the forks and deaths apart.         *)
LEMMA Steps ==
  ASSUME [Next]_vars
  PROVE  \/ UNCHANGED vars
         \/ StartBase
         \/ \E p \in Nodes : StartNode(p)
         \/ \E p \in Procs : Quietly(p)
         \/ \E p \in Procs : Takes(p)
         \/ \E p \in Procs, d \in Nodes : \E c \in CodesOf(p) : Sent(p, d, c)
         \/ \E p \in Procs : Fork(p)
         \/ \E p \in Procs : /\ Dies(p) /\ UNCHANGED <<scripts, offered, log, returned, refused>>
                             /\ p = Base => pc[p] = "sending" \/ pc[p] = "leaving"
<1> USE Sizes, NetworkAssumption
<1>1. ASSUME NEW p \in Nodes \cup Kids, Crash(p)
      PROVE  \E q \in Procs : /\ Dies(q) /\ UNCHANGED <<scripts, offered, log, returned, refused>>
                              /\ q = Base => pc[q] = "sending" \/ pc[q] = "leaving"
  BY <1>1 DEF Crash, Ports, Procs
<1>2. ASSUME NEW p \in Procs, Exit(p) \/ SendToNobody(p)
      PROVE  \E q \in Procs : /\ Dies(q) /\ UNCHANGED <<scripts, offered, log, returned, refused>>
                              /\ q = Base => pc[q] = "sending" \/ pc[q] = "leaving"
  BY <1>2 DEF Exit, SendToNobody, histVars
<1> QED
  BY <1>1, <1>2 DEF Next, Step, Quietly, Takes

(* Every step leaves forked processes without messages to take.              *)
LEMMA LeavesStep ==
  ASSUME "nested" \notin Codes, TypeOK, Places, Leaves, [Next]_vars
  PROVE  Leaves'
<1> USE Sizes, NetworkAssumption
<1> DEFINE LeafOf(k) == /\ pc[k] \notin Loop /\ outbox[k] = <<>>
                        /\ pc[k] = "evaluating" => duty[k].code = "leaf"
           LeafTasks == \A q \in Ports : \A m \in ElementsOf(backlog[q]) :
                          m.is = "task" => m.code = "leaf"
<1>0. Leaves <=> LeafTasks /\ \A k \in Kids : LeafOf(k)
  BY DEF Leaves
<1>d. Leaves' <=> LeafTasks' /\ \A k \in Kids : LeafOf(k)'
  BY DEF Leaves
<1>1. \A k \in Kids : Same(k) => LeafOf(k)'
  BY <1>0 DEF Same
<1>2. ASSUME NEW q \in Ports, NEW m \in Message, Deliver(q, m), m.is = "task" => m.code = "leaf"
      PROVE  LeafTasks'
  <2>1. \A r \in Ports : ElementsOf(backlog'[r]) \subseteq ElementsOf(backlog[r]) \cup {m}
    BY <1>2, DeliverAdds
  <2> QED BY <1>0, <1>2, <2>1
<1>3. ASSUME NEW p \in Procs, Waiting(p), backlog' = Taken(p) PROVE LeafTasks'
  BY <1>0, <1>3, TakenRest
<1>4. ASSUME UNCHANGED backlog PROVE LeafTasks'
  BY <1>0, <1>4
<1> HIDE DEF LeafTasks
<1>5. ASSUME StartBase PROVE Leaves'
  <2>1. \A k \in Kids : LeafOf(k)'
    BY <1>1, <1>5, ActsAlone DEF Alone, Procs, Ports
  <2> QED BY <1>d, <1>4, <1>5, <2>1 DEF StartBase
<1>6. ASSUME NEW p \in Nodes, StartNode(p) PROVE Leaves'
  <2>1. \A k \in Kids : LeafOf(k)'
    BY <1>1, <1>6, ActsAlone DEF Alone, Procs, Ports
  <2> QED BY <1>d, <1>4, <1>6, <2>1 DEF StartNode
<1>7. ASSUME NEW p \in Procs, Takes(p) PROVE Leaves'
  <2>1. p \notin Kids /\ Waiting(p) /\ backlog' = Taken(p)
    BY <1>7, KidsTakeNothing DEF Takes, Hear, Released, TaskDone, Accepting
  <2>2. \A k \in Kids : LeafOf(k)'
    BY <1>1, <1>7, <2>1, ActsAlone DEF Alone
  <2> QED BY <1>d, <1>3, <2>1, <2>2
<1>8. ASSUME NEW p \in Procs, NEW d \in Nodes, NEW c \in CodesOf(p), Sent(p, d, c)
      PROVE  Leaves'
  <2>1. p \notin Kids
    BY <1>8, KidsTakeNothing DEF Sent
  <2>2. \A k \in Kids : LeafOf(k)'
    BY <1>1, <1>8, <2>1, ActsAlone DEF Alone
  <2>3. port[p] \in Ports /\ handle[p] \in Nat /\ c = "leaf"
    BY <1>8, <2>1 DEF TypeOK, CodesOf
  <2>4. HandleNow(p) \in Nat
    BY <2>3 DEF HandleNow
  <2>5. /\ TaskMsg(port[p], c, HandleNow(p), p) \in Message
        /\ TaskMsg(port[p], c, HandleNow(p), p).code = "leaf"
    BY <2>3, <2>4, MessageKinds DEF TaskMsg
  <2> QED BY <1>d, <1>2, <1>8, <2>2, <2>5 DEF Sent
<1>9. ASSUME NEW p \in Procs, Dies(p) PROVE Leaves'
  <2>1. \A k \in Kids : LeafOf(k)'
    <3> SUFFICES ASSUME NEW k \in Kids PROVE LeafOf(k)'
      OBVIOUS
    <3>1. CASE k # p
      BY <1>1, <1>9, <3>1, ActsAlone DEF Alone
    <3>2. CASE k = p
      BY <1>9, <3>2 DEF Dies, Goes, TypeOK, Loop
    <3> QED BY <3>1, <3>2
  <2>2. \A q \in Ports : backlog'[q] \in {backlog[q], <<>>}
    BY <1>9 DEF Dies, TypeOK
  <2>3. LeafTasks'
    BY <1>0, <2>2, EmptyElements DEF LeafTasks
  <2> QED BY <1>d, <2>1, <2>3
<1>10. ASSUME NEW p \in Procs, Fork(p) PROVE Leaves'
  <2>1. p \notin Kids /\ Waiting(p) /\ backlog' = Taken(p) /\ Next1(p).is = "task"
    BY <1>10, KidsTakeNothing DEF Fork, Accepting
  <2>2. Next1(p).code = "leaf"
    BY <1>0, <2>1, TakenRest DEF LeafTasks, TypeOK
  <2>3. PICK k \in Kids :
          /\ pc' = [pc EXCEPT ![p] = Handled(p), ![k] = "evaluating"]
          /\ duty' = [duty EXCEPT ![k] = [from |-> Next1(p).from, code |-> Next1(p).code,
                                          handle |-> Next1(p).handle, by |-> Next1(p).by]]
    BY <1>10 DEF Fork
  <2>4. UNCHANGED outbox
    BY <1>10 DEF Fork
  <2>5. \A l \in Kids : LeafOf(l)'
    <3> SUFFICES ASSUME NEW l \in Kids PROVE LeafOf(l)'
      OBVIOUS
    <3>1. CASE l # k
      BY <1>0, <2>1, <2>3, <2>4, <3>1 DEF TypeOK
    <3>2. CASE l = k
      BY <1>0, <2>1, <2>2, <2>3, <2>4, <3>2 DEF TypeOK, Loop
    <3> QED BY <3>1, <3>2
  <2> QED BY <1>d, <1>3, <2>1, <2>5
<1>11. ASSUME NEW p \in Procs, Quietly(p) PROVE Leaves'
  <2>1. \A k \in Kids \ {p} : LeafOf(k)'
    BY <1>1, <1>11, ActsAlone DEF Alone
  <2>2. CASE Register(p)
    <3>1. p \in Nodes
      BY <2>2 DEF Register, Places, PlaceOf, Procs, Ports, Loop
    <3>2. AddMsg(p) \in Message /\ AddMsg(p).is # "task" /\ Deliver(Base, AddMsg(p))
      BY <2>2, <3>1, MessageKinds DEF AddMsg, Register
    <3> QED BY <1>d, <1>2, <2>1, <3>1, <3>2
  <2>3. CASE SendLetter(p)
    <3>1. p \notin Kids
      BY <2>3, KidsTakeNothing DEF SendLetter
    <3>2. outbox[p] \in Seq(Letters) /\ outbox[p] # <<>>
      BY <2>3 DEF SendLetter, TypeOK
    <3>3. Head(outbox[p]) \in Letters
      BY <3>2, TailElements
    <3>4. Head(outbox[p]).to \in Ports /\ Head(outbox[p]).msg \in Announcement
      BY <3>3 DEF Letters
    <3>5. Head(outbox[p]).msg \in Message /\ Head(outbox[p]).msg.is # "task"
      BY <3>4, MessageKinds
    <3> QED BY <1>d, <1>2, <2>1, <2>3, <3>1, <3>4, <3>5 DEF SendLetter
  <2>4. CASE Evaluate(p)
    <3>1. UNCHANGED <<backlog, outbox, duty>>
      BY <2>4 DEF Evaluate
    <3>2. ASSUME p \in Kids PROVE LeafOf(p)'
      <4>1. duty[p].code = "leaf" /\ outbox[p] = <<>>
        BY <1>0, <2>4, <3>2 DEF Evaluate
      <4>2. pc'[p] = "reporting"
        BY <2>4, <4>1 DEF Evaluate, Goes, TypeOK
      <4> QED BY <3>1, <4>1, <4>2 DEF Loop
    <3> QED BY <1>d, <1>4, <2>1, <3>1, <3>2
  <2>5. CASE Report(p)
    <3>1. duty[p].from \in Ports /\ duty[p].handle \in Nat /\ duty[p].by \in Procs
      BY DEF TypeOK, Duties
    <3>2. /\ DoneMsg(duty[p].handle, duty[p].by) \in Message
          /\ DoneMsg(duty[p].handle, duty[p].by).is # "task"
      BY <3>1, MessageKinds DEF DoneMsg
    <3>3. ASSUME p \in Kids PROVE LeafOf(p)'
      BY <1>0, <2>5, <3>3 DEF Report, Goes, TypeOK, Loop
    <3> QED BY <1>d, <1>2, <2>1, <2>5, <3>1, <3>2, <3>3 DEF Report
  <2>6. CASE Listen(p) \/ RunScript(p) \/ CheckFinished(p) \/ \E d \in Nodes : Refused(p, d)
    <3>1. p \notin Kids
      BY <2>6, KidsTakeNothing DEF Listen, RunScript, CheckFinished, Refused
    <3>2. UNCHANGED backlog
      BY <2>6 DEF Listen, RunScript, CheckFinished, Refused
    <3> QED BY <1>d, <1>4, <2>1, <3>1, <3>2
  <2> QED
    BY <1>11, <2>2, <2>3, <2>4, <2>5, <2>6 DEF Quietly
<1>12. CASE UNCHANGED vars
  BY <1>0, <1>12 DEF Leaves, vars, procVars
<1> QED
  BY <1>5, <1>6, <1>7, <1>8, <1>9, <1>10, <1>11, <1>12, Steps

-----------------------------------------------------------------------------
(* News and releases.                                                        *)

(* Every step leaves the unopened ports without a backlog.                   *)
LEMMA UnopenedStep ==
  ASSUME TypeOK, Places, Unopened, [Next]_vars
  PROVE  Unopened'
<1> USE Sizes, NetworkAssumption
<1> DEFINE Off(p) == pc[p] \in {"off", "bound"} => p \notin opened
<1>1. ASSUME UNCHANGED <<backlog, opened>> PROVE \A q \in Ports \ opened' : backlog'[q] = <<>>
  BY <1>1 DEF Unopened
<1>2. ASSUME NEW q \in Ports, NEW m, Deliver(q, m), UNCHANGED opened
      PROVE  \A r \in Ports \ opened' : backlog'[r] = <<>>
  BY <1>2 DEF Unopened, Deliver, Listening, TypeOK
<1>3. ASSUME NEW p \in Procs, Waiting(p), backlog' = Taken(p), UNCHANGED opened
      PROVE  \A r \in Ports \ opened' : backlog'[r] = <<>>
  BY <1>3 DEF Unopened, Waiting, Taken, TypeOK
<1>4. ASSUME NEW p \in Procs, Alone(p), UNCHANGED opened,
             p \in Nodes => pc'[p] \notin {"off", "bound"} \/ pc[p] \in {"off", "bound"}
      PROVE  \A q \in Nodes : Off(q)'
  BY <1>4 DEF Unopened, Alone, Same, Procs, Ports
<1>5. ASSUME StartBase PROVE Unopened'
  <2>1. Alone(Base) /\ UNCHANGED backlog /\ opened' = opened \cup {Base}
    BY <1>5, ActsAlone DEF StartBase
  <2> QED BY <2>1 DEF Unopened, Alone, Same, Procs, Ports
<1>6. ASSUME NEW p \in Nodes, StartNode(p) PROVE Unopened'
  BY <1>6, <1>1, <1>4, ActsAlone DEF StartNode, Unopened
<1>7. ASSUME NEW p \in Procs, Takes(p) PROVE Unopened'
  <2>1. Waiting(p) /\ backlog' = Taken(p) /\ UNCHANGED opened
    BY <1>7 DEF Takes, Hear, Released, TaskDone
  <2>2. pc'[p] \notin {"off", "bound"}
    BY <1>7 DEF Takes, Hear, Released, TaskDone, Handled, Goes, TypeOK
  <2> QED BY <1>3, <1>4, <1>7, <2>1, <2>2, ActsAlone DEF Unopened
<1>8. ASSUME NEW p \in Procs, NEW d \in Nodes, NEW c \in CodesOf(p), Sent(p, d, c)
      PROVE  Unopened'
  <2>1. Alone(p) /\ UNCHANGED opened /\ pc'[p] \notin {"off", "bound"}
    BY <1>8, ActsAlone DEF Sent, Goes, TypeOK, AfterSending, AfterJoin
  <2>2. Deliver(d, TaskMsg(port[p], c, HandleNow(p), p))
    BY <1>8 DEF Sent
  <2> QED BY <1>2, <1>4, <2>1, <2>2 DEF Unopened
<1>9. ASSUME NEW p \in Procs, Dies(p) PROVE Unopened'
  <2>1. \A q \in Ports : backlog'[q] \in {backlog[q], <<>>}
    BY <1>9 DEF Dies, TypeOK
  <2>2. UNCHANGED opened /\ pc'[p] = "gone"
    BY <1>9 DEF Dies, Goes, TypeOK
  <2> QED BY <1>4, <1>9, <2>1, <2>2, ActsAlone DEF Unopened
<1>10. ASSUME NEW p \in Procs, Fork(p) PROVE Unopened'
  <2>1. Waiting(p) /\ backlog' = Taken(p) /\ UNCHANGED opened /\ Accepting(p)
    BY <1>10 DEF Fork
  <2>2. PICK k \in Kids : pc' = [pc EXCEPT ![p] = Handled(p), ![k] = "evaluating"]
    BY <1>10 DEF Fork
  <2>3. \A q \in Nodes : Off(q)'
    BY <2>1, <2>2 DEF Unopened, Handled, Procs, Ports, TypeOK
  <2> QED BY <1>3, <2>1, <2>3 DEF Unopened
<1>11. ASSUME NEW p \in Procs, Quietly(p) PROVE Unopened'
  <2>1. CASE Listen(p)
    <3>1. Alone(p) /\ UNCHANGED backlog /\ opened' = opened \cup {port[p]} /\ pc'[p] = "serving"
      BY <1>11, <2>1, ActsAlone DEF Listen, Goes, TypeOK
    <3>2. p \in Nodes /\ port[p] = p
      BY <2>1 DEF Listen, Places, PlaceOf, Procs, Ports, Loop
    <3> QED BY <3>1, <3>2 DEF Unopened, Alone, Same
  <2>2. CASE ~Listen(p)
    <3>1. /\ \/ UNCHANGED backlog
             \/ \E q, m : Deliver(q, m)
          /\ UNCHANGED opened
      BY <1>11, <2>2 DEF Quietly, Register, SendLetter, RunScript, Refused, CheckFinished,
                         Evaluate, Report
    <3>2. pc'[p] \in {"off", "bound"} => pc[p] \in {"off", "bound"}
      <4>1. CASE SendLetter(p)
        BY <4>1 DEF SendLetter
      <4> DEFINE Sets(where) == pc'[p] = where
      <4>0. \A where : Goes(p, where) => Sets(where)
        BY DEF Goes, TypeOK
      <4>2. CASE Register(p) \/ Evaluate(p)
        <5>1. Sets("registered") \/ Sets("reporting") \/ Sets(AfterSending(Items))
          BY <4>0, <4>2 DEF Register, Evaluate
        <5> QED BY ONLY <5>1 DEF AfterSending
      <4>6. CASE Report(p)
        <5>1. Sets("leaving")
          BY <4>0, <4>6 DEF Report
        <5> QED BY ONLY <5>1
      <4>3. CASE RunScript(p)
        <5>1. Sets(AfterSending(Items)) \/ Sets("resumed")
          BY <4>0, <4>3 DEF RunScript
        <5> QED BY ONLY <5>1 DEF AfterSending
      <4>4. CASE CheckFinished(p)
        <5>1. Sets(AfterJoin(p)) \/ Sets("updating")
          BY <4>0, <4>4 DEF CheckFinished
        <5> QED BY ONLY <5>1 DEF AfterJoin
      <4>5. CASE \E d \in Nodes : Refused(p, d)
        <5>1. Sets(AfterJoin(p)) \/ UNCHANGED pc
          BY <4>0, <4>5 DEF Refused
        <5> QED BY ONLY <5>1 DEF AfterJoin
      <4> QED BY <1>11, <2>2, <4>1, <4>2, <4>3, <4>4, <4>5, <4>6 DEF Quietly
    <3>3. \A r \in Ports \ opened' : backlog'[r] = <<>>
      BY <3>1 DEF Unopened, Deliver, Listening, TypeOK
    <3> QED BY <1>4, <1>11, <3>1, <3>2, <3>3, ActsAlone DEF Unopened
  <2> QED BY <2>1, <2>2
<1>12. CASE UNCHANGED vars
  BY <1>12 DEF Unopened, vars, procVars
<1> QED
  BY <1>5, <1>6, <1>7, <1>8, <1>9, <1>10, <1>11, <1>12, Steps

(* What becomes of the news and the releases that wait for a node.           *)
HearsOn(p) == (Hears(p) => Hears(p)') /\ (NewsWaits(p) => NewsWaits(p)')

(* A node whose backlog stays has the news as early as before.               *)
LEMMA BacklogStays ==
  ASSUME NEW p \in Nodes, backlog'[p] = backlog[p], known'[p] = known[p] \/ known'[p] # <<>>
  PROVE  HearsOn(p)
BY DEF HearsOn, Hears, NewsWaits

(* A message at the end of a backlog comes after the news.                   *)
LEMMA BacklogGrows ==
  ASSUME TypeOK, NEW p \in Nodes, NEW m \in Message, backlog'[p] = Append(backlog[p], m),
         known'[p] = known[p], m.is = "node_release" => Hears(p)
  PROVE  HearsOn(p) /\ (News(m) => Hears(p)')
<1> DEFINE b == backlog[p]
           c == backlog'[p]
<1>1. /\ Len(b) \in Nat /\ DOMAIN b = 1 .. Len(b) /\ DOMAIN c = DOMAIN b \cup {Len(b) + 1}
      /\ \A i \in DOMAIN b : c[i] = b[i]
      /\ c[Len(b) + 1] = m
  <2>1. b \in Seq(Message) /\ c = Append(b, m)
    BY Sizes DEF TypeOK
  <2> HIDE DEF b, c
  <2> QED BY <2>1, AppendElements
<1> HIDE DEF b, c
<1>2. Hears(p) <=> known[p] # <<>> \/ \E i \in DOMAIN b : News(b[i])
  BY DEF Hears, b
<1>3. Hears(p)' <=> known[p] # <<>> \/ \E i \in DOMAIN c : News(c[i])
  BY DEF Hears, c
<1>4. (Hears(p) => Hears(p)') /\ (News(m) => Hears(p)')
  BY <1>1, <1>2, <1>3
<1>5. ASSUME NewsWaits(p), NEW i \in DOMAIN c, c[i].is = "node_release", known[p] = <<>>
      PROVE  \E j \in 1 .. i - 1 : News(c[j])
  <2>1. CASE i \in DOMAIN b
    <3>1. PICK j \in 1 .. i - 1 : News(b[j])
      BY <1>1, <1>5, <2>1 DEF NewsWaits, b
    <3>2. j \in DOMAIN b
      BY <1>1, <2>1
    <3> QED BY <1>1, <3>1, <3>2
  <2>2. CASE i = Len(b) + 1
    <3>1. PICK j \in DOMAIN b : News(b[j])
      BY <1>1, <1>2, <1>5, <2>2
    <3>2. j \in 1 .. i - 1
      BY <1>1, <2>2
    <3> QED BY <1>1, <3>1, <3>2
  <2> QED BY <1>1, <2>1, <2>2
<1> QED
  BY <1>4, <1>5 DEF HearsOn, NewsWaits, c

(* A node that takes its first message has learnt the news in it.            *)
LEMMA BacklogShrinks ==
  ASSUME TypeOK, NEW p \in Nodes, backlog[p] # <<>>, backlog'[p] = Tail(backlog[p]),
         known'[p] # <<>> \/ (known'[p] = known[p] /\ ~News(Head(backlog[p])))
  PROVE  HearsOn(p)
<1> DEFINE b == backlog[p]
           c == backlog'[p]
<1>1. /\ Head(b) = b[1] /\ DOMAIN b = 1 .. Len(b) /\ Len(b) \in Nat
      /\ DOMAIN c = 1 .. Len(b) - 1
      /\ \A i \in DOMAIN c : i + 1 \in DOMAIN b /\ c[i] = b[i + 1]
  <2>1. b \in Seq(Message) /\ b # <<>>
    BY Sizes DEF TypeOK
  <2> QED BY <2>1, TailElements
<1>2. CASE known'[p] # <<>>
  BY <1>2 DEF HearsOn, Hears, NewsWaits
<1>3. CASE known'[p] = known[p] /\ known[p] = <<>> /\ ~News(b[1])
  <2> HIDE DEF b, c
  <2>1. ASSUME NEW j \in DOMAIN b, News(b[j])
        PROVE  j - 1 \in DOMAIN c /\ News(c[j - 1])
    <3>1. j # 1 /\ j - 1 \in DOMAIN c /\ (j - 1) + 1 = j
      BY <1>1, <1>3, <2>1
    <3> QED BY <1>1, <2>1, <3>1
  <2>2. Hears(p) => Hears(p)'
    BY <1>3, <2>1 DEF Hears, b, c
  <2>3. ASSUME NewsWaits(p), NEW i \in DOMAIN c, c[i].is = "node_release"
        PROVE  \E j \in 1 .. i - 1 : News(c[j])
    <3>1. i + 1 \in DOMAIN b /\ b[i + 1].is = "node_release"
      BY <1>1, <2>3
    <3>2. PICK j \in 1 .. (i + 1) - 1 : News(b[j])
      BY <1>3, <2>3, <3>1 DEF NewsWaits, b
    <3>3. j \in DOMAIN b /\ j # 1 /\ j - 1 \in 1 .. i - 1
      BY <1>1, <1>3, <3>1, <3>2
    <3> QED BY <2>1, <3>2, <3>3
  <2> QED
    BY <2>2, <2>3 DEF HearsOn, NewsWaits, c
<1> QED
  BY <1>1, <1>2, <1>3

(* The same for what a process has still to send.                            *)
LEMMA OutboxShrinks ==
  ASSUME TypeOK, NEW p \in Nodes, NEW s \in Procs, HearsOn(p), NewsOnItsWay(p, s),
         outbox[s] # <<>>, outbox'[s] = Tail(outbox[s]),
         Head(outbox[s]).to = p /\ News(Head(outbox[s]).msg) => Hears(p)'
  PROVE  NewsOnItsWay(p, s)'
<1> DEFINE b == outbox[s]
           c == outbox'[s]
<1>1. /\ Head(b) = b[1] /\ DOMAIN b = 1 .. Len(b) /\ Len(b) \in Nat
      /\ DOMAIN c = 1 .. Len(b) - 1
      /\ \A i \in DOMAIN c : i + 1 \in DOMAIN b /\ c[i] = b[i + 1]
  <2>1. b \in Seq(Letters) /\ b # <<>>
    BY DEF TypeOK
  <2> QED BY <2>1, TailElements
<1> HIDE DEF b, c
<1>2. ASSUME NEW i \in DOMAIN c, c[i] = Letter(p, ReleaseMsg), ~Hears(p)'
      PROVE  \E j \in 1 .. i - 1 : c[j].to = p /\ News(c[j].msg)
  <2>1. i + 1 \in DOMAIN b /\ b[i + 1] = Letter(p, ReleaseMsg)
    BY <1>1, <1>2
  <2>2. PICK j \in 1 .. (i + 1) - 1 : b[j].to = p /\ News(b[j].msg)
    BY <1>2, <2>1 DEF NewsOnItsWay, HearsOn, b
  <2>3. j # 1
    BY <1>1, <1>2, <2>2 DEF b
  <2>4. j - 1 \in DOMAIN c /\ c[j - 1] = b[j] /\ j - 1 \in 1 .. i - 1
    <3>1. j - 1 \in DOMAIN c /\ (j - 1) + 1 = j /\ j - 1 \in 1 .. i - 1
      BY <1>1, <2>1, <2>3
    <3> QED BY <1>1, <3>1
  <2> QED BY <2>2, <2>4
<1> QED
  BY <1>2 DEF NewsOnItsWay, c

(* The release is announced after news to the same node.                     *)
LEMMA AnnouncedBeforeRelease ==
  ASSUME NEW list \in Seq(Nodes), list # <<>>, NEW n \in Nodes, NEW p \in Nodes,
         NEW i \in DOMAIN Announces(list, n), Announces(list, n)[i] = Letter(p, ReleaseMsg)
  PROVE  \E j \in 1 .. i - 1 :
           Announces(list, n)[j].to = p /\ News(Announces(list, n)[j].msg)
<1> DEFINE a == Announces(list, n)
           k == Len(list)
<1>1. /\ a \in Seq(Letters) /\ Len(a) = k + k + 1 /\ k \in Nat
      /\ \A h \in 1 .. k : list[h] \in Nodes /\ a[h] = Letter(list[h], AddMsg(n))
      /\ \A h \in 1 .. k : a[k + h] = Letter(n, AddMsg(list[h]))
      /\ a[k + k + 1] = Letter(n, ReleaseMsg)
  BY AnnouncesParts, MessageKinds, NetworkAssumption
<1>2. k > 0 /\ i \in 1 .. k + k + 1 /\ a[i] = Letter(p, ReleaseMsg)
  BY <1>1
<1> HIDE DEF a, k
<1>3. \A m, o : News(Letter(o, AddMsg(m)).msg) /\ Letter(o, AddMsg(m)).to = o
  BY DEF Letter, AddMsg, News
<1>4. \A o : ~News(Letter(o, ReleaseMsg).msg) /\ Letter(o, ReleaseMsg).to = o
  BY DEF Letter, ReleaseMsg, News
<1>40. \A m, o : Letter(o, AddMsg(m)) # a[i]
  BY ONLY <1>2, <1>3, <1>4
<1>5. i \notin 1 .. k
  BY ONLY <1>1, <1>40
<1>6. i - k \notin 1 .. k
  <2>1. k + (i - k) = i
    BY ONLY <1>1, <1>2
  <2>2. ASSUME i - k \in 1 .. k PROVE a[k + (i - k)] = Letter(n, AddMsg(list[i - k]))
    BY ONLY <1>1, <2>2
  <2> QED BY ONLY <1>40, <2>1, <2>2
<1>7. i = k + k + 1
  BY <1>1, <1>2, <1>5, <1>6
<1>8. p = n
  BY <1>1, <1>2, <1>4, <1>7
<1>9. k + 1 \in 1 .. i - 1 /\ 1 \in 1 .. k
  BY <1>1, <1>2, <1>7
<1>10. a[k + 1].to = p /\ News(a[k + 1].msg)
  BY <1>1, <1>3, <1>8, <1>9
<1> QED
  BY <1>9, <1>10 DEF a

(* Initially no release is on its way.                                       *)
LEMMA NewsInit == Init => NewsFirst /\ ReleasedKnowsSomeone
<1> SUFFICES ASSUME Init PROVE NewsFirst /\ ReleasedKnowsSomeone
  OBVIOUS
<1>1. /\ \A q \in Ports : backlog[q] = <<>>
      /\ \A s \in Procs : outbox[s] = <<>>
      /\ \A p \in Nodes : pc[p] = "off"
  BY Sizes, NetworkAssumption DEF Init, Procs, Ports
<1> QED
  BY <1>1, EmptyElements, Sizes DEF NewsFirst, ReleasedKnowsSomeone, NewsWaits, NewsOnItsWay

(* What was lost is not forgotten.                                           *)
LEMMA RefusedGrows == ASSUME [Next]_vars PROVE refused \subseteq refused'
<1>1. ASSUME NEW q \in Procs, Quietly(q) \/ Takes(q) PROVE refused \subseteq refused'
  BY <1>1 DEF Quietly, Takes, Hear, Released, TaskDone, Register, SendLetter, RunScript, Refused,
       CheckFinished, Evaluate, Report, Listen, Deliver, histVars
<1>2. ASSUME NEW q \in Procs, NEW d \in Nodes, NEW c \in CodesOf(q), Sent(q, d, c)
      PROVE refused \subseteq refused'
  BY <1>2 DEF Sent, Deliver
<1>3. ASSUME NEW q \in Procs, Fork(q) PROVE refused \subseteq refused'
  BY <1>3 DEF Fork, histVars
<1>4. ASSUME StartBase \/ \E q \in Nodes : StartNode(q) PROVE refused \subseteq refused'
  BY <1>4 DEF StartBase, StartNode, histVars
<1>5. CASE UNCHANGED vars
  BY <1>5 DEF vars, histVars
<1> QED
  BY <1>1, <1>2, <1>3, <1>4, <1>5, Steps

(* A node that is gone stays so.                                             *)
LEMMA PresentBefore ==
  ASSUME TypeOK, Places, [Next]_vars, NEW p \in Nodes, Present(p)'
  PROVE  Present(p)
<1> USE Sizes, NetworkAssumption
<1>1. refused \subseteq refused'
  BY RefusedGrows
<1>2. ASSUME pc[p] = "gone" PROVE pc'[p] = "gone"
  <2>1. ASSUME NEW q \in Procs, Quietly(q) \/ Takes(q) PROVE pc'[p] = pc[p]
    <3>1. CASE SendLetter(q)
      BY <3>1 DEF SendLetter
    <3>2. CASE ~SendLetter(q)
      <4>1. q # p
        BY <1>2, <2>1, <3>2 DEF Quietly, Takes, Hear, Released, TaskDone, Register, RunScript,
           Refused, CheckFinished, Evaluate, Report, Listen, Accepting
      <4> QED BY <2>1, <4>1, ActsAlone DEF Alone, Same
    <3> QED BY <3>1, <3>2
  <2>2. ASSUME NEW q \in Procs, NEW d \in Nodes, NEW c \in CodesOf(q), Sent(q, d, c)
        PROVE  pc'[p] = pc[p]
    <3>1. q # p
      BY <1>2, <2>2 DEF Sent
    <3> QED BY <2>2, <3>1, ActsAlone DEF Alone, Same
  <2>3. ASSUME NEW q \in Procs, Fork(q) PROVE pc'[p] = pc[p]
    <3>1. q # p
      BY <1>2, <2>3 DEF Fork, Accepting
    <3>2. \E k \in Kids : pc' = [pc EXCEPT ![q] = Handled(q), ![k] = "evaluating"]
      BY <2>3 DEF Fork
    <3> QED BY <3>1, <3>2 DEF TypeOK
  <2>4. ASSUME StartBase \/ \E q \in Nodes : StartNode(q) PROVE pc'[p] = pc[p]
    BY <1>2, <2>4 DEF StartBase, StartNode, Goes, TypeOK
  <2>5. ASSUME NEW q \in Procs, Dies(q) PROVE pc'[p] = "gone"
    BY <1>2, <2>5 DEF Dies, Goes, TypeOK
  <2>6. CASE UNCHANGED vars
    BY <1>2, <2>6 DEF vars, procVars
  <2> QED BY <1>2, <2>1, <2>2, <2>3, <2>4, <2>5, <2>6, Steps
<1> QED
  BY <1>1, <1>2 DEF Present

(* The steps seen from a node that misses no message.                        *)
LEMMA HearsOnStep ==
  ASSUME TypeOK, Places, Leaves, Unopened, NewsFirst, [Next]_vars,
         NEW p \in Nodes, Present(p)'
  PROVE  HearsOn(p)
<1> USE Sizes, NetworkAssumption
<1>1. port[p] = p /\ Present(p) /\ p \in Ports /\ p \in Procs
  BY PlacePorts, PresentBefore
<1>2. ASSUME NEW q \in Ports, NEW m \in Message, Deliver(q, m), known'[p] = known[p],
             q = p /\ m.is = "node_release" => Hears(p)
      PROVE  HearsOn(p)
  <2>1. CASE q # p
    <3>1. backlog'[p] = backlog[p]
      BY <1>2, <2>1 DEF Deliver, TypeOK
    <3> QED BY <1>2, <3>1, BacklogStays
  <2>2. CASE q = p
    <3>1. backlog'[p] = Append(backlog[p], m)
      BY <1>2, <2>2 DEF Deliver, TypeOK, Present
    <3> QED BY <1>2, <2>2, <3>1, BacklogGrows
  <2> QED BY <2>1, <2>2
<1>3. ASSUME NEW q \in Procs, Waiting(q), backlog' = Taken(q), q \notin Kids,
             q # p => known'[p] = known[p],
             q = p => known'[p] # <<>> \/ (known'[p] = known[p] /\ ~News(Next1(p)))
      PROVE  HearsOn(p)
  <2>1. q \in Ports /\ port[q] = q
    BY <1>3, PlacePorts DEF Procs
  <2>2. CASE q # p
    <3>1. backlog'[p] = backlog[p]
      BY <1>3, <2>1, <2>2 DEF Taken, TypeOK
    <3> QED BY <1>3, <2>2, <3>1, BacklogStays
  <2>3. CASE q = p
    <3>1. backlog'[p] = Tail(backlog[p]) /\ backlog[p] # <<>> /\ Next1(p) = Head(backlog[p])
      BY <1>3, <2>1, <2>3 DEF Taken, TypeOK, Waiting, Next1
    <3> QED BY <1>3, <2>3, <3>1, BacklogShrinks
  <2> QED BY <2>2, <2>3
<1>4. ASSUME UNCHANGED <<backlog, known>> PROVE HearsOn(p)
  BY <1>4, BacklogStays
<1>5. ASSUME NEW q \in Procs, Hear(q) PROVE HearsOn(p)
  <2>1. q \notin Kids /\ Waiting(q) /\ backlog' = Taken(q)
    BY <1>5, KidsTakeNothing DEF Hear, Accepting
  <2>2. q # p => known'[p] = known[p]
    BY <1>5, ActsAlone DEF Takes, Alone, Same
  <2>3. known[q] \in Seq(Nodes)
    BY DEF TypeOK
  <2>4. q = p => known'[p] # <<>>
    <3>1. CASE Next1(q).node \in ElementsOf(known[q])
      BY <1>5, <2>3, <3>1, EmptyElements DEF Hear
    <3>2. CASE Next1(q).node \notin ElementsOf(known[q])
      <4>1. known'[q] = Append(known[q], Next1(q).node)
        BY <1>5, <3>2 DEF Hear, TypeOK
      <4>2. Append(known[q], Next1(q).node) # <<>>
        BY <2>3
      <4> QED BY <4>1, <4>2
    <3> QED BY <3>1, <3>2
  <2> QED BY <1>3, <2>1, <2>2, <2>4
<1>6. ASSUME NEW q \in Procs, Released(q) \/ TaskDone(q) PROVE HearsOn(p)
  <2>1. q \notin Kids /\ Waiting(q) /\ backlog' = Taken(q) /\ UNCHANGED known /\ ~News(Next1(q))
    BY <1>6, KidsTakeNothing DEF Released, TaskDone, Accepting, News
  <2> QED BY <1>3, <2>1
<1>7. ASSUME NEW q \in Procs, Fork(q) PROVE HearsOn(p)
  <2>1. q \notin Kids /\ Waiting(q) /\ backlog' = Taken(q) /\ ~News(Next1(q))
    BY <1>7, KidsTakeNothing DEF Fork, Accepting, News
  <2>2. known'[p] = known[p]
    BY <1>7 DEF Fork, TypeOK, Procs, Ports
  <2> QED BY <1>3, <2>1, <2>2
<1>8. ASSUME NEW q \in Procs, NEW d \in Nodes, NEW c \in CodesOf(q), Sent(q, d, c)
      PROVE  HearsOn(p)
  <2>1. port[q] \in Ports /\ handle[q] \in Nat
    BY DEF TypeOK
  <2>2. HandleNow(q) \in Nat
    BY <2>1 DEF HandleNow
  <2>3. /\ TaskMsg(port[q], c, HandleNow(q), q) \in Message
        /\ TaskMsg(port[q], c, HandleNow(q), q).is # "node_release"
    BY <2>1, <2>2, MessageKinds DEF TaskMsg, CodesOf
  <2> QED BY <1>2, <1>8, <2>3 DEF Sent
<1>9. ASSUME NEW q \in Procs, Dies(q) PROVE HearsOn(p)
  <2>1. q # p
    BY <1>1, <1>9 DEF Dies, Goes, TypeOK, Present
  <2>2. known'[p] = known[p]
    BY <1>9, <2>1, ActsAlone DEF Alone, Same
  <2>3. backlog'[p] = backlog[p]
    <3>1. CASE backlog' = backlog
      BY <3>1
    <3>2. CASE Holders(port[q]) = {q} /\ backlog' = [backlog EXCEPT ![port[q]] = <<>>]
      <4>1. CASE port[q] # p
        BY <3>2, <4>1 DEF TypeOK
      <4>2. CASE port[q] = p
        <5>1. ~Alive(p)
          BY <1>1, <2>1, <3>2, <4>2 DEF Holders
        <5>2. pc[p] = "off"
          BY <1>1, <5>1 DEF Alive, Present
        <5>3. backlog[p] = <<>>
          BY <1>1, <5>2 DEF Unopened
        <5> QED BY <1>1, <3>2, <4>2, <5>3 DEF TypeOK
      <4> QED BY <4>1, <4>2
    <3> QED BY <1>9, <3>1, <3>2 DEF Dies
  <2> QED BY <2>2, <2>3, BacklogStays
<1>10. ASSUME NEW q \in Procs, SendLetter(q) PROVE HearsOn(p)
  <2>1. outbox[q] \in Seq(Letters) /\ outbox[q] # <<>>
    BY <1>10 DEF SendLetter, TypeOK
  <2>2. Head(outbox[q]) \in Letters /\ 1 \in DOMAIN outbox[q] /\ Head(outbox[q]) = outbox[q][1]
    BY <2>1, TailElements
  <2>3. Head(outbox[q]).to \in Ports /\ Head(outbox[q]).msg \in Message
    BY <2>2, MessageKinds DEF Letters
  <2>4. ASSUME Head(outbox[q]).to = p, Head(outbox[q]).msg.is = "node_release" PROVE Hears(p)
    <3>1. outbox[q][1] = Letter(p, ReleaseMsg)
      BY <2>2, <2>4 DEF Letters, Announcement, Letter, ReleaseMsg
    <3>2. NewsOnItsWay(p, q)
      BY <1>1 DEF NewsFirst
    <3>3. 1 .. 1 - 1 = {}
      OBVIOUS
    <3> QED BY <2>2, <3>1, <3>2, <3>3 DEF NewsOnItsWay
  <2>5. Deliver(Head(outbox[q]).to, Head(outbox[q]).msg) /\ UNCHANGED known
    BY <1>10 DEF SendLetter
  <2> QED BY <1>2, <2>3, <2>4, <2>5
<1>11. ASSUME NEW q \in Procs, Register(q) PROVE HearsOn(p)
  <2>1. q \in Nodes
    BY <1>11 DEF Register, Places, PlaceOf, Procs, Ports, Loop
  <2>2. AddMsg(q) \in Message /\ AddMsg(q).is # "node_release"
    BY <2>1, MessageKinds DEF AddMsg
  <2> QED BY <1>2, <1>11, <2>2 DEF Register
<1>12. ASSUME NEW q \in Procs, Report(q) PROVE HearsOn(p)
  <2>1. duty[q].from \in Ports /\ duty[q].handle \in Nat /\ duty[q].by \in Procs
    BY DEF TypeOK, Duties
  <2>2. /\ DoneMsg(duty[q].handle, duty[q].by) \in Message
        /\ DoneMsg(duty[q].handle, duty[q].by).is # "node_release"
    BY <2>1, MessageKinds DEF DoneMsg
  <2> QED BY <1>2, <1>12, <2>1, <2>2 DEF Report
<1>13. ASSUME NEW q \in Procs, Quietly(q), ~SendLetter(q), ~Register(q), ~Report(q)
       PROVE  HearsOn(p)
  BY <1>4, <1>13 DEF Quietly, Listen, RunScript, Refused, CheckFinished, Evaluate
<1>14. ASSUME StartBase \/ (\E q \in Nodes : StartNode(q)) \/ UNCHANGED vars PROVE HearsOn(p)
  BY <1>4, <1>14 DEF StartBase, StartNode, vars, procVars
<1> QED
  BY <1>5, <1>6, <1>7, <1>8, <1>9, <1>10, <1>11, <1>12, <1>13, <1>14, Steps DEF Takes

(* Every step keeps the news before the release.                             *)
LEMMA NewsFirstStep ==
  ASSUME TypeOK, Places, Leaves, Unopened, NewsFirst, [Next]_vars
  PROVE  NewsFirst'
<1> USE Sizes, NetworkAssumption
<1> SUFFICES ASSUME NEW p \in Nodes, Present(p)'
             PROVE  NewsWaits(p)' /\ \A s \in Procs : NewsOnItsWay(p, s)'
  BY DEF NewsFirst
<1>1. Present(p) /\ HearsOn(p) /\ port[p] = p /\ p \in Ports
  BY PresentBefore, HearsOnStep, PlacePorts
<1>2. NewsWaits(p)' /\ \A s \in Procs : NewsOnItsWay(p, s)
  BY <1>1 DEF NewsFirst, HearsOn
<1>3. ASSUME NEW s \in Procs, outbox'[s] = outbox[s] PROVE NewsOnItsWay(p, s)'
  BY <1>1, <1>2, <1>3 DEF NewsOnItsWay, HearsOn
<1>4. ASSUME NEW s \in Procs, outbox'[s] = <<>> PROVE NewsOnItsWay(p, s)'
  BY <1>4, EmptyElements DEF NewsOnItsWay
<1>5. ASSUME NEW q \in Procs, Hear(q) PROVE \A s \in Procs : NewsOnItsWay(p, s)'
  <2>1. \A s \in Procs \ {q} : outbox'[s] = outbox[s]
    BY <1>5, ActsAlone DEF Takes, Alone, Same
  <2>2. NewsOnItsWay(p, q)'
    <3>1. CASE outbox'[q] = outbox[q]
      BY <1>3, <3>1
    <3>2. CASE /\ known[q] # <<>>
               /\ outbox' = [outbox EXCEPT ![q] = Announces(known[q], Next1(q).node)]
      <4>1. Next1(q).node \in Nodes
        BY <1>5, TakenRest, MessageKinds DEF Hear
      <4>2. outbox'[q] = Announces(known[q], Next1(q).node) /\ known[q] \in Seq(Nodes)
        BY <3>2 DEF TypeOK
      <4> QED BY <3>2, <4>1, <4>2, AnnouncedBeforeRelease DEF NewsOnItsWay
    <3> QED BY <1>5, <3>1, <3>2 DEF Hear
  <2> QED BY <1>3, <2>1, <2>2
<1>6. ASSUME NEW q \in Procs, SendLetter(q) PROVE \A s \in Procs : NewsOnItsWay(p, s)'
  <2>1. \A s \in Procs \ {q} : outbox'[s] = outbox[s]
    BY <1>6, ActsAlone DEF Quietly, Alone, Same
  <2>2. outbox[q] # <<>> /\ outbox'[q] = Tail(outbox[q]) /\ outbox[q] \in Seq(Letters)
    BY <1>6 DEF SendLetter, TypeOK
  <2>3. ASSUME Head(outbox[q]).to = p, News(Head(outbox[q]).msg) PROVE Hears(p)'
    <3>1. Head(outbox[q]) \in Letters
      BY <2>2, TailElements
    <3>2. Head(outbox[q]).msg \in Message
      BY <3>1, MessageKinds DEF Letters
    <3>3. backlog'[p] = Append(backlog[p], Head(outbox[q]).msg)
      BY <1>1, <1>6, <2>3 DEF SendLetter, Deliver, Present, TypeOK
    <3>4. known'[p] = known[p] /\ ~(Head(outbox[q]).msg.is = "node_release")
      BY <1>6, <2>3 DEF SendLetter, News
    <3> QED BY <2>3, <3>2, <3>3, <3>4, BacklogGrows
  <2>4. NewsOnItsWay(p, q)'
    BY <1>1, <1>2, <2>2, <2>3, OutboxShrinks
  <2> QED BY <1>3, <2>1, <2>4
<1>7. ASSUME NEW q \in Procs, Dies(q) PROVE \A s \in Procs : NewsOnItsWay(p, s)'
  <2>1. \A s \in Procs : outbox'[s] = outbox[s] \/ outbox'[s] = <<>>
    BY <1>7 DEF Dies, TypeOK
  <2> QED BY <1>3, <1>4, <2>1
<1>8. ASSUME UNCHANGED outbox PROVE \A s \in Procs : NewsOnItsWay(p, s)'
  BY <1>3, <1>8
<1>9. ASSUME NEW q \in Procs, Quietly(q), ~SendLetter(q)
      PROVE  \A s \in Procs : NewsOnItsWay(p, s)'
  BY <1>8, <1>9 DEF Quietly, Listen, RunScript, Refused, CheckFinished, Evaluate, Register, Report
<1>10. ASSUME NEW q \in Procs, Released(q) \/ TaskDone(q) \/ Fork(q)
       PROVE  \A s \in Procs : NewsOnItsWay(p, s)'
  BY <1>8, <1>10 DEF Released, TaskDone, Fork
<1>11. ASSUME NEW q \in Procs, NEW d \in Nodes, NEW c \in CodesOf(q), Sent(q, d, c)
       PROVE  \A s \in Procs : NewsOnItsWay(p, s)'
  BY <1>8, <1>11 DEF Sent
<1>12. ASSUME StartBase \/ (\E q \in Nodes : StartNode(q)) \/ UNCHANGED vars
       PROVE  \A s \in Procs : NewsOnItsWay(p, s)'
  BY <1>8, <1>12 DEF StartBase, StartNode, vars, procVars
<1> QED
  BY <1>2, <1>5, <1>6, <1>7, <1>9, <1>10, <1>11, <1>12, Steps DEF Takes

(* A node leaves its loop only after it has heard of somebody.               *)
LEMMA ReleasedStep ==
  ASSUME TypeOK, Places, Leaves, Unopened, NewsFirst, ReleasedKnowsSomeone, [Next]_vars
  PROVE  ReleasedKnowsSomeone'
<1> USE Sizes, NetworkAssumption
<1> SUFFICES ASSUME NEW p \in Nodes, pc'[p] \in {"script", "sending"}, p \notin refused'
             PROVE  known'[p] # <<>>
  BY DEF ReleasedKnowsSomeone
<1>1. Present(p) /\ port[p] = p /\ p \in Ports /\ p \in Procs
  BY PresentBefore, PlacePorts DEF Present
<1>2. pc[p] \in {"script", "sending"} => known[p] # <<>>
  BY <1>1 DEF ReleasedKnowsSomeone, Present
<1>3. ASSUME pc'[p] = pc[p], known'[p] = known[p] \/ known'[p] # <<>> PROVE known'[p] # <<>>
  BY <1>2, <1>3
<1>4. ASSUME NEW q \in Procs, Released(q) PROVE known'[p] # <<>>
  <2>1. UNCHANGED known /\ Accepting(q) /\ Waiting(q) /\ Next1(q).is = "node_release"
    BY <1>4 DEF Released
  <2>2. CASE q # p
    <3>1. pc'[p] = pc[p]
      BY <1>4, <2>2, ActsAlone DEF Takes, Alone, Same
    <3> QED BY <1>3, <2>1, <3>1
  <2>3. CASE q = p
    <3>1. NewsWaits(p) /\ backlog[p] # <<>> /\ Head(backlog[p]).is = "node_release"
      BY <1>1, <2>1, <2>3 DEF NewsFirst, Waiting, Next1
    <3>2. backlog[p] \in Seq(Message)
      BY <1>1 DEF TypeOK
    <3>3. 1 \in DOMAIN backlog[p] /\ Head(backlog[p]) = backlog[p][1]
      BY <3>1, <3>2, TailElements
    <3>4. 1 .. 1 - 1 = {}
      OBVIOUS
    <3> QED BY <2>1, <3>1, <3>3, <3>4 DEF NewsWaits
  <2> QED BY <2>2, <2>3
<1>5. ASSUME NEW q \in Procs, Alone(q), q # p PROVE known'[p] # <<>>
  <2>1. pc'[p] = pc[p] /\ known'[p] = known[p]
    BY <1>1, <1>5 DEF Alone, Same
  <2> QED BY <1>3, <2>1
<1>6. ASSUME NEW q \in Procs, Hear(q) \/ TaskDone(q) \/ Dies(q) PROVE known'[p] # <<>>
  <2>1. q = p => pc'[p] \in {"gone", "serving", "checking"}
    BY <1>6 DEF Hear, TaskDone, Dies, Goes, Handled, TypeOK
  <2> QED BY <1>5, <1>6, <2>1, ActsAlone DEF Takes
<1>7. ASSUME NEW q \in Procs, Fork(q) PROVE known'[p] # <<>>
  <2>1. /\ \E k \in Kids : /\ pc' = [pc EXCEPT ![q] = Handled(q), ![k] = "evaluating"]
                           /\ known' = [known EXCEPT ![k] = known[q]]
        /\ Handled(q) \in {"serving", "checking"}
    BY <1>7 DEF Fork, Handled
  <2>2. pc'[p] = pc[p] /\ known'[p] = known[p]
    BY <2>1 DEF TypeOK, Procs, Ports
  <2> QED BY <1>3, <2>2
<1>8. ASSUME NEW q \in Procs, NEW d \in Nodes, NEW c \in CodesOf(q), Sent(q, d, c)
      PROVE  known'[p] # <<>>
  <2>1. CASE q = p
    BY <1>2, <1>8, <2>1 DEF Sent
  <2>2. CASE q # p
    BY <1>5, <1>8, <2>2, ActsAlone
  <2> QED BY <2>1, <2>2
<1>9. ASSUME NEW q \in Procs, Quietly(q) PROVE known'[p] # <<>>
  <2>1. CASE q # p
    BY <1>5, <1>9, <2>1, ActsAlone
  <2>2. CASE q = p
    <3>1. CASE Register(p) \/ Listen(p) \/ CheckFinished(p) \/ Report(p)
      <4>1. pc'[p] \notin {"script", "sending"}
        BY <1>1, <3>1 DEF Register, Listen, CheckFinished, Report, Goes, TypeOK, AfterJoin
      <4> QED BY <4>1
    <3>2. CASE SendLetter(p)
      BY <1>3, <3>2 DEF SendLetter
    <3>3. CASE RunScript(p) \/ \E d \in Nodes : Refused(p, d)
      BY <1>2, <3>3 DEF RunScript, Refused
    <3>4. CASE Evaluate(p)
      BY <1>1, <3>4 DEF Evaluate, Places, PlaceOf
    <3> QED BY <1>9, <2>2, <3>1, <3>2, <3>3, <3>4 DEF Quietly
  <2> QED BY <2>1, <2>2
<1>10. ASSUME StartBase \/ (\E q \in Nodes : StartNode(q)) PROVE known'[p] # <<>>
  <2>1. UNCHANGED known /\ (pc'[p] = pc[p] \/ pc'[p] \in {"serving", "bound"})
    BY <1>1, <1>10 DEF StartBase, StartNode, Goes, TypeOK
  <2> QED BY <1>3, <2>1
<1>11. ASSUME UNCHANGED vars PROVE known'[p] # <<>>
  BY <1>3, <1>11 DEF vars, procVars
<1> QED
  BY <1>4, <1>6, <1>7, <1>8, <1>9, <1>10, <1>11, Steps DEF Takes

(* When no task calls fork_each, a node that missed no message is released   *)
(* only after it has heard of another one, so that rand()%node_list_size     *)
(* (ctree.c:4735) has something to choose from.                              *)
THEOREM NewsBeforeRelease ==
  ASSUME "nested" \notin Codes
  PROVE  Spec => []ReleasedKnowsSomeone
<1>1. Init => NewsInv
  BY TypeInit, PlacesInit, KnowsInit, LeavesInit, NewsInit DEF NewsInv, IInv
<1>2. NewsInv /\ [Next]_vars => NewsInv'
  BY TypeStep, PlacesStep, NewsStep, LeavesStep, UnopenedStep, NewsFirstStep, ReleasedStep
  DEF NewsInv, IInv
<1> QED
  BY <1>1, <1>2, PTL DEF Spec, NewsInv

-----------------------------------------------------------------------------
(* The news goes round.                                                      *)

(* Nothing was lost, and no node is gone.                                    *)
Complete == refused = {} /\ \A p \in Nodes : pc[p] # "gone"

(* A process has heard of a node, or will when it accepts what waits for it. *)
Told(r, q) == q \in ElementsOf(known[r]) \/ AddMsg(q) \in ElementsOf(backlog[r])

(* The base is about to tell a node of another one.                          *)
Telling(p, q) == Letter(p, AddMsg(q)) \in ElementsOf(outbox[Base])

Registered == \A p \in Nodes : pc[p] \notin {"off", "bound"} => Told(Base, p)
Informed ==
  \A p, q \in ElementsOf(known[Base]) : p # q => Told(p, q) \/ Telling(p, q)
BaseFirst == pc[Base] = "off" => Base \notin opened

SpreadInv == IInv /\ Leaves /\ Unopened /\ BaseFirst /\ (Complete => Registered /\ Informed)

(* When nothing was lost and nobody is gone, that was so before.             *)
LEMMA CompleteBefore ==
  ASSUME TypeOK, Places, [Next]_vars, Complete'
  PROVE  Complete
<1>1. refused = {}
  BY RefusedGrows DEF Complete
<1>2. \A p \in Nodes : Present(p)'
  BY DEF Complete, Present
<1>3. \A p \in Nodes : Present(p)
  BY <1>2, PresentBefore
<1> QED
  BY <1>1, <1>3 DEF Complete, Present

(* A message that is not lost waits for its port.                            *)
LEMMA DeliveredTells ==
  ASSUME TypeOK, NEW d \in Ports, NEW m \in Message, Deliver(d, m), refused' = {}, UNCHANGED known
  PROVE  /\ m \in ElementsOf(backlog'[d])
         /\ \A r \in Ports, q \in Nodes : Told(r, q) => Told(r, q)'
<1>1. backlog' = [backlog EXCEPT ![d] = Append(@, m)]
  BY DEF Deliver
<1>2. backlog[d] \in Seq(Message) /\ backlog'[d] = Append(backlog[d], m)
  BY <1>1 DEF TypeOK
<1>3. ElementsOf(backlog'[d]) = ElementsOf(backlog[d]) \cup {m}
  BY <1>2, AppendElements
<1>4. \A r \in Ports \ {d} : backlog'[r] = backlog[r]
  BY <1>1 DEF TypeOK
<1> QED
  BY <1>3, <1>4 DEF Told

(* A sequence holds its first element and what follows it.                   *)
LEMMA HeadOrTail ==
  ASSUME NEW S, NEW s \in Seq(S), s # <<>>
  PROVE  ElementsOf(s) \subseteq {Head(s)} \cup ElementsOf(Tail(s))
<1>1. /\ Head(s) = s[1] /\ DOMAIN s = 1 .. Len(s) /\ Len(s) \in Nat
      /\ DOMAIN Tail(s) = 1 .. Len(s) - 1
      /\ \A i \in DOMAIN Tail(s) : Tail(s)[i] = s[i + 1]
  BY TailElements
<1>2. ASSUME NEW i \in DOMAIN s, i # 1 PROVE s[i] \in ElementsOf(Tail(s))
  <2>1. i - 1 \in DOMAIN Tail(s) /\ (i - 1) + 1 = i
    BY <1>1, <1>2
  <2>2. Tail(s)[i - 1] = s[i]
    BY <1>1, <2>1
  <2> QED BY <2>1, <2>2 DEF ElementsOf
<1> QED
  BY <1>1, <1>2 DEF ElementsOf

(* A message that is accepted is no news, or the process has now heard it.   *)
LEMMA TakenTells ==
  ASSUME TypeOK, Places, NEW p \in Ports, Waiting(p), backlog' = Taken(p),
         \A r \in Ports : ElementsOf(known[r]) \subseteq ElementsOf(known'[r]),
         News(Next1(p)) => Next1(p).node \in ElementsOf(known'[p])
  PROVE  \A r \in Ports, q \in Nodes : Told(r, q) => Told(r, q)'
<1>1. port[p] = p
  BY PlacePorts
<1>2. /\ backlog[p] \in Seq(Message) /\ backlog[p] # <<>>
      /\ backlog'[p] = Tail(backlog[p]) /\ Next1(p) = Head(backlog[p])
  BY <1>1 DEF TypeOK, Waiting, Taken, Next1
<1>3. ElementsOf(backlog[p]) \subseteq {Next1(p)} \cup ElementsOf(backlog'[p])
  BY <1>2, HeadOrTail
<1>4. \A r \in Ports \ {p} : backlog'[r] = backlog[r]
  BY <1>1 DEF TypeOK, Taken
<1>5. \A q \in Nodes : AddMsg(q) = Next1(p) => q \in ElementsOf(known'[p])
  BY DEF AddMsg, News
<1> QED
  BY <1>3, <1>4, <1>5 DEF Told

(* A process that hears of a node keeps its list and has the node in it.     *)
LEMMA HearAdds ==
  ASSUME TypeOK, NEW p \in Procs, Hear(p)
  PROVE  /\ \A r \in Procs : ElementsOf(known[r]) \subseteq ElementsOf(known'[r])
         /\ ElementsOf(known'[p]) = ElementsOf(known[p]) \cup {Next1(p).node}
<1> DEFINE n == Next1(p).node
<1>1. known[p] \in Seq(Nodes) /\ n \in Nodes
  BY TakenRest, MessageKinds, NetworkAssumption DEF Hear, TypeOK
<1>2. CASE n \in ElementsOf(known[p])
  BY <1>2 DEF Hear
<1>3. CASE n \notin ElementsOf(known[p])
  <2>1. known' = [known EXCEPT ![p] = Append(known[p], n)]
    BY <1>3 DEF Hear
  <2>2. ElementsOf(Append(known[p], n)) = ElementsOf(known[p]) \cup {n}
    BY <1>1, AppendElements
  <2> QED
    BY <2>1, <2>2 DEF TypeOK
<1> QED
  BY <1>2, <1>3

(* While nothing is lost and nobody is gone, what a process was told of      *)
(* stays told.                                                               *)
LEMMA ToldOn ==
  ASSUME TypeOK, Places, Leaves, Unopened, BaseFirst, [Next]_vars, Complete',
         NEW r \in Ports, NEW q \in Nodes, Told(r, q)
  PROVE  Told(r, q)'
<1> USE Sizes, NetworkAssumption
<1>c. refused' = {}
  BY DEF Complete
<1>1. ASSUME NEW d \in Ports, NEW m \in Message, Deliver(d, m), UNCHANGED known
      PROVE  Told(r, q)'
  BY <1>1, <1>c, DeliveredTells
<1>2. ASSUME NEW p \in Procs, Waiting(p), backlog' = Taken(p), p \notin Kids, ~News(Next1(p)),
             \A s \in Ports : known'[s] = known[s]
      PROVE  Told(r, q)'
  <2>1. p \in Ports
    BY <1>2 DEF Procs
  <2> QED
    BY <1>2, <2>1, TakenTells
<1>3. ASSUME UNCHANGED <<backlog, known>> PROVE Told(r, q)'
  BY <1>3 DEF Told
<1>4. ASSUME NEW p \in Procs, Hear(p) PROVE Told(r, q)'
  <2>1. p \notin Kids /\ Waiting(p) /\ backlog' = Taken(p)
    BY <1>4, KidsTakeNothing DEF Hear, Accepting
  <2>2. p \in Ports
    BY <2>1 DEF Procs
  <2> QED
    BY <1>4, <2>1, <2>2, HearAdds, TakenTells
<1>5. ASSUME NEW p \in Procs, Released(p) \/ TaskDone(p) PROVE Told(r, q)'
  <2>1. p \notin Kids /\ Waiting(p) /\ backlog' = Taken(p) /\ UNCHANGED known /\ ~News(Next1(p))
    BY <1>5, KidsTakeNothing DEF Released, TaskDone, Accepting, News
  <2> QED BY <1>2, <2>1
<1>6. ASSUME NEW p \in Procs, Fork(p) PROVE Told(r, q)'
  <2>1. p \notin Kids /\ Waiting(p) /\ backlog' = Taken(p) /\ ~News(Next1(p))
    BY <1>6, KidsTakeNothing DEF Fork, Accepting, News
  <2>2. \A s \in Ports : known'[s] = known[s]
    BY <1>6 DEF Fork, TypeOK, Procs, Ports
  <2> QED BY <1>2, <2>1, <2>2
<1>7. ASSUME NEW p \in Procs, NEW d \in Nodes, NEW c \in CodesOf(p), Sent(p, d, c)
      PROVE  Told(r, q)'
  <2>1. port[p] \in Ports /\ handle[p] \in Nat
    BY DEF TypeOK
  <2>2. HandleNow(p) \in Nat
    BY <2>1 DEF HandleNow
  <2>3. TaskMsg(port[p], c, HandleNow(p), p) \in Message
    BY <2>1, <2>2, MessageKinds DEF CodesOf
  <2> QED BY <1>1, <1>7, <2>3 DEF Sent
<1>8. ASSUME NEW p \in Kids, Dies(p) PROVE Told(r, q)'
  <2>1. p # r /\ known'[r] = known[r]
    BY <1>8 DEF Dies, TypeOK, Procs, Ports
  <2>2. CASE backlog' = backlog
    BY <2>1, <2>2 DEF Told
  <2>3. CASE Holders(port[p]) = {p} /\ backlog' = [backlog EXCEPT ![port[p]] = <<>>]
    <3>1. CASE port[p] # r
      BY <2>1, <2>3, <3>1 DEF Told, TypeOK
    <3>2. CASE port[p] = r
      <4>1. port[r] = r /\ ~Alive(r)
        BY <2>1, <2>3, <3>2, PlacePorts DEF Holders
      <4>2. pc[r] = "off"
        <5>1. CASE r = Base
          BY <4>1, <5>1, PlaceBase DEF Alive
        <5>2. CASE r \in Nodes
          BY <4>1, <5>2, CompleteBefore DEF Alive, Complete
        <5> QED BY <5>1, <5>2 DEF Ports
      <4>3. r \notin opened
        BY <4>2 DEF Unopened, BaseFirst, Ports
      <4>4. backlog[r] = <<>>
        BY <4>3 DEF Unopened
      <4> QED BY <2>1, <2>3, <3>2, <4>4 DEF Told, TypeOK
    <3> QED BY <3>1, <3>2
  <2> QED BY <1>8, <2>2, <2>3 DEF Dies
<1>9. ASSUME NEW p \in Procs, SendLetter(p) PROVE Told(r, q)'
  <2>1. outbox[p] \in Seq(Letters) /\ outbox[p] # <<>>
    BY <1>9 DEF SendLetter, TypeOK
  <2>2. Head(outbox[p]) \in Letters
    BY <2>1, TailElements
  <2>3. Head(outbox[p]).to \in Ports /\ Head(outbox[p]).msg \in Message
    BY <2>2, MessageKinds DEF Letters
  <2> QED BY <1>1, <1>9, <2>3 DEF SendLetter
<1>10. ASSUME NEW p \in Procs, Register(p) PROVE Told(r, q)'
  <2>1. p \in Nodes
    BY <1>10 DEF Register, Places, PlaceOf, Procs, Ports, Loop
  <2>2. AddMsg(p) \in Message
    BY <2>1, MessageKinds
  <2> QED BY <1>1, <1>10, <2>2 DEF Register
<1>11. ASSUME NEW p \in Procs, Report(p) PROVE Told(r, q)'
  <2>1. duty[p].from \in Ports /\ duty[p].handle \in Nat /\ duty[p].by \in Procs
    BY DEF TypeOK, Duties
  <2>2. DoneMsg(duty[p].handle, duty[p].by) \in Message
    BY <2>1, MessageKinds
  <2> QED BY <1>1, <1>11, <2>1, <2>2 DEF Report
<1>12. ASSUME NEW p \in Procs, Quietly(p), ~SendLetter(p), ~Register(p), ~Report(p)
       PROVE  Told(r, q)'
  BY <1>3, <1>12 DEF Quietly, Listen, RunScript, Refused, CheckFinished, Evaluate
<1>13. ASSUME StartBase \/ (\E p \in Nodes : StartNode(p)) \/ UNCHANGED vars PROVE Told(r, q)'
  BY <1>3, <1>13 DEF StartBase, StartNode, vars, procVars
<1>14. ASSUME NEW p \in Procs, Dies(p), p = Base => pc[p] = "sending" \/ pc[p] = "leaving"
       PROVE  p \in Kids
  <2>1. p \notin Nodes
    BY <1>14 DEF Dies, Goes, TypeOK, Complete
  <2>2. p # Base
    BY <1>14, PlaceBase
  <2> QED BY <2>1, <2>2 DEF Procs, Ports
<1> QED
  BY <1>4, <1>5, <1>6, <1>7, <1>8, <1>9, <1>10, <1>11, <1>12, <1>13, <1>14, Steps DEF Takes

(* Only its registration takes a living node out of its start.               *)
LEMMA StartsByRegistering ==
  ASSUME TypeOK, Places, Leaves, [Next]_vars, NEW p \in Nodes,
         pc[p] \in {"off", "bound"}, pc'[p] \notin {"off", "bound", "gone"}
  PROVE  Register(p)
<1> USE Sizes, NetworkAssumption
<1> SUFFICES ASSUME ~Register(p) PROVE FALSE
  OBVIOUS
<1>1. ASSUME NEW q \in Procs, Alone(q), q # p PROVE FALSE
  BY <1>1 DEF Alone, Same
<1>2. ASSUME NEW q \in Procs, Quietly(q) PROVE FALSE
  <2>1. q = p
    BY <1>1, <1>2, ActsAlone
  <2>2. pc'[p] = pc[p]
    BY <1>2, <2>1 DEF Quietly, Listen, SendLetter, RunScript, Refused, CheckFinished, Evaluate,
         Report
  <2> QED BY <2>2
<1>3. ASSUME NEW q \in Procs, Takes(q) PROVE FALSE
  BY <1>1, <1>3, ActsAlone DEF Takes, Hear, Released, TaskDone, Accepting
<1>4. ASSUME NEW q \in Procs, NEW d \in Nodes, NEW c \in CodesOf(q), Sent(q, d, c) PROVE FALSE
  BY <1>1, <1>4, ActsAlone DEF Sent
<1>5. ASSUME NEW q \in Procs, Fork(q) PROVE FALSE
  <2>1. q # p
    BY <1>5 DEF Fork, Accepting
  <2>2. \E k \in Kids : pc' = [pc EXCEPT ![q] = Handled(q), ![k] = "evaluating"]
    BY <1>5 DEF Fork
  <2> QED BY <2>1, <2>2 DEF TypeOK
<1>6. ASSUME NEW q \in Procs, Dies(q) PROVE FALSE
  BY <1>1, <1>6, ActsAlone DEF Dies, Goes, TypeOK
<1>7. ASSUME StartBase \/ UNCHANGED vars PROVE FALSE
  BY <1>7 DEF StartBase, Goes, TypeOK, vars, procVars
<1>8. ASSUME NEW q \in Nodes, StartNode(q) PROVE FALSE
  BY <1>8 DEF StartNode, Goes, TypeOK
<1> QED
  BY <1>2, <1>3, <1>4, <1>5, <1>6, <1>7, <1>8, Steps

(* The list of the base grows when the base hears, and the letters it has to *)
(* send change when it hears or sends, and at no other step.                 *)
LEMMA BaseKeeps ==
  ASSUME TypeOK, Places, Leaves, [Next]_vars, ~Hear(Base)
  PROVE  /\ known'[Base] = known[Base]
         /\ outbox'[Base] = outbox[Base] \/ SendLetter(Base)
<1> USE Sizes, NetworkAssumption
<1> DEFINE Keeps == /\ known'[Base] = known[Base]
                    /\ outbox'[Base] = outbox[Base] \/ SendLetter(Base)
<1>1. ASSUME NEW p \in Procs, Alone(p), p # Base PROVE Keeps
  BY <1>1 DEF Alone, Same
<1>2. ASSUME NEW p \in Procs, Quietly(p) PROVE Keeps
  <2>1. CASE p = Base
    BY <1>2, <2>1 DEF Quietly, Register, Listen, SendLetter, RunScript, Refused, CheckFinished,
         Evaluate, Report
  <2> QED BY <1>1, <1>2, <2>1, ActsAlone
<1>3. ASSUME NEW p \in Procs, Takes(p) PROVE Keeps
  <2>1. CASE p = Base
    BY <1>3, <2>1 DEF Takes, Released, TaskDone
  <2> QED BY <1>1, <1>3, <2>1, ActsAlone
<1>4. ASSUME NEW p \in Procs, NEW d \in Nodes, NEW c \in CodesOf(p), Sent(p, d, c) PROVE Keeps
  BY <1>4 DEF Sent
<1>5. ASSUME NEW p \in Procs, Fork(p) PROVE Keeps
  BY <1>5 DEF Fork, TypeOK
<1>6. ASSUME NEW p \in Procs, Dies(p), p = Base => pc[p] = "sending" \/ pc[p] = "leaving"
      PROVE  Keeps
  BY <1>1, <1>6, ActsAlone, PlaceBase
<1>7. ASSUME StartBase \/ (\E p \in Nodes : StartNode(p)) \/ UNCHANGED vars PROVE Keeps
  BY <1>7 DEF StartBase, StartNode, vars, procVars
<1> QED
  BY <1>2, <1>3, <1>4, <1>5, <1>6, <1>7, Steps

(* The base serves before its port is open.                                  *)
LEMMA BaseFirstStep ==
  ASSUME TypeOK, Places, Leaves, BaseFirst, [Next]_vars
  PROVE  BaseFirst'
<1> USE Sizes, NetworkAssumption
<1> DEFINE Stays == pc'[Base] = "off" => pc[Base] = "off" /\ Base \notin opened'
<1>1. ASSUME NEW p \in Procs, Alone(p), p # Base, UNCHANGED opened PROVE Stays
  BY <1>1 DEF Alone, Same, BaseFirst
<1>2. ASSUME NEW p \in Procs, Quietly(p) PROVE Stays
  <2>1. CASE p = Base
    <3>1. SendLetter(Base)
      BY <1>2, <2>1, PlaceBase DEF Quietly, Register, Listen, RunScript, Refused, CheckFinished,
           Evaluate, Report
    <3> QED BY <3>1 DEF SendLetter, BaseFirst
  <2>2. CASE Listen(p) /\ p # Base
    <3>1. p \in Nodes /\ port[p] = p
      BY <2>2, PlacePorts DEF Listen, Places, PlaceOf, Procs, Ports, Loop
    <3>2. Base \in opened' => Base \in opened
      BY <2>2, <3>1 DEF Listen
    <3> QED BY <1>2, <2>2, <3>2, ActsAlone DEF Alone, Same, BaseFirst
  <2>3. CASE ~Listen(p) /\ p # Base
    <3>1. UNCHANGED opened
      BY <1>2, <2>3 DEF Quietly, Register, SendLetter, RunScript, Refused, CheckFinished,
           Evaluate, Report
    <3> QED BY <1>1, <1>2, <2>3, <3>1, ActsAlone
  <2> QED BY <2>1, <2>2, <2>3
<1>3. ASSUME NEW p \in Procs, Takes(p) PROVE Stays
  <2>1. UNCHANGED opened /\ (p = Base => pc'[Base] # "off")
    BY <1>3 DEF Takes, Hear, Released, TaskDone, Handled, Goes, TypeOK
  <2> QED BY <1>1, <1>3, <2>1, ActsAlone
<1>4. ASSUME NEW p \in Procs, NEW d \in Nodes, NEW c \in CodesOf(p), Sent(p, d, c) PROVE Stays
  <2>1. UNCHANGED opened /\ p # Base
    BY <1>4, PlaceBase DEF Sent
  <2> QED BY <1>1, <1>4, <2>1, ActsAlone
<1>5. ASSUME NEW p \in Procs, Fork(p) PROVE Stays
  <2>1. UNCHANGED opened
    BY <1>5 DEF Fork
  <2>2. \E k \in Kids : pc' = [pc EXCEPT ![p] = Handled(p), ![k] = "evaluating"]
    BY <1>5 DEF Fork
  <2> QED BY <2>1, <2>2 DEF BaseFirst, Handled, TypeOK
<1>6. ASSUME NEW p \in Procs, Dies(p) PROVE Stays
  BY <1>6 DEF Dies, Goes, TypeOK, BaseFirst
<1>7. ASSUME StartBase \/ (\E p \in Nodes : StartNode(p)) \/ UNCHANGED vars PROVE Stays
  BY <1>7 DEF StartBase, StartNode, Goes, TypeOK, BaseFirst, vars, procVars
<1> QED
  BY <1>2, <1>3, <1>4, <1>5, <1>6, <1>7, Steps DEF BaseFirst

(* A node that has registered stays known to the base, or on its way there.  *)
LEMMA RegisteredStep ==
  ASSUME TypeOK, Places, Leaves, Unopened, BaseFirst, Registered, [Next]_vars, Complete'
  PROVE  Registered'
<1> USE Sizes, NetworkAssumption
<1> SUFFICES ASSUME NEW p \in Nodes, pc'[p] \notin {"off", "bound"} PROVE Told(Base, p)'
  BY DEF Registered
<1>1. CASE pc[p] \notin {"off", "bound"}
  BY <1>1, ToldOn DEF Registered
<1>2. CASE pc[p] \in {"off", "bound"}
  <2>1. Register(p)
    BY <1>2, StartsByRegistering DEF Complete
  <2>2. Deliver(Base, AddMsg(p)) /\ UNCHANGED known /\ AddMsg(p) \in Message /\ refused' = {}
    BY <2>1, MessageKinds DEF Register, Complete
  <2>3. AddMsg(p) \in ElementsOf(backlog'[Base])
    BY <2>2, DeliveredTells
  <2> QED BY <2>3 DEF Told
<1> QED
  BY <1>1, <1>2

(* What the base announces of two nodes goes both ways.                      *)
LEMMA AnnouncedBothWays ==
  ASSUME NEW list \in Seq(Nodes), NEW n \in Nodes, NEW a \in ElementsOf(list)
  PROVE  /\ Letter(a, AddMsg(n)) \in ElementsOf(Announces(list, n))
         /\ Letter(n, AddMsg(a)) \in ElementsOf(Announces(list, n))
<1> DEFINE s == Announces(list, n)
           k == Len(list)
<1>1. /\ s \in Seq(Letters) /\ Len(s) = k + k + 1 /\ k \in Nat
      /\ \A i \in 1 .. k : s[i] = Letter(list[i], AddMsg(n))
      /\ \A i \in 1 .. k : s[k + i] = Letter(n, AddMsg(list[i]))
  BY AnnouncesParts, MessageKinds, NetworkAssumption
<1>2. DOMAIN s = 1 .. k + k + 1
  BY <1>1
<1>3. PICK i \in 1 .. k : a = list[i]
  BY DEF ElementsOf
<1> HIDE DEF s, k
<1>4. i \in DOMAIN s /\ k + i \in DOMAIN s
  BY <1>1, <1>2
<1> QED
  BY <1>1, <1>3, <1>4 DEF ElementsOf, s

(* Any two nodes the base knows have been told of each other, or the base is *)
(* about to tell them.                                                       *)
LEMMA InformedStep ==
  ASSUME TypeOK, Places, Leaves, Unopened, BaseFirst, Informed, [Next]_vars, Complete'
  PROVE  Informed'
<1> USE Sizes, NetworkAssumption
<1>0. known[Base] \in Seq(Nodes) /\ ElementsOf(known[Base]) \subseteq Nodes
  BY DEF TypeOK, ElementsOf
<1>1. ASSUME NEW p \in ElementsOf(known[Base]), NEW q \in ElementsOf(known[Base]), Told(p, q)
      PROVE  Told(p, q)'
  BY <1>0, <1>1, ToldOn
<1>2. CASE Hear(Base)
  <2>0. PICK n \in Nodes : n = Next1(Base).node
    BY <1>2, TakenRest, MessageKinds DEF Hear
  <2>1. ElementsOf(known'[Base]) = ElementsOf(known[Base]) \cup {n} /\ n \in Nodes
    BY <1>2, <2>0, HearAdds
  <2>2. \A p, q \in ElementsOf(known[Base]) : p # q => Told(p, q)'
    <3>1. outbox[Base] = <<>>
      BY <1>2 DEF Hear, Accepting
    <3> QED BY <1>1, <3>1, EmptyElements DEF Informed, Telling
  <2>3. CASE n \in ElementsOf(known[Base])
    BY <2>1, <2>2, <2>3 DEF Informed
  <2>4. CASE n \notin ElementsOf(known[Base]) /\ known[Base] = <<>>
    BY <2>1, <2>4, EmptyElements DEF Informed
  <2>5. CASE n \notin ElementsOf(known[Base]) /\ known[Base] # <<>>
    <3>1. outbox'[Base] = Announces(known[Base], n)
      BY <1>2, <2>0, <2>5 DEF Hear, TypeOK
    <3>2. ASSUME NEW a \in ElementsOf(known[Base]) PROVE Telling(a, n)' /\ Telling(n, a)'
      <4>1. /\ Letter(a, AddMsg(n)) \in ElementsOf(Announces(known[Base], n))
            /\ Letter(n, AddMsg(a)) \in ElementsOf(Announces(known[Base], n))
        BY <1>0, <2>1, AnnouncedBothWays
      <4> QED BY <3>1, <4>1 DEF Telling
    <3>3. ASSUME NEW a \in ElementsOf(known'[Base]), NEW b \in ElementsOf(known'[Base]), a # b
          PROVE  Told(a, b)' \/ Telling(a, b)'
      <4>1. CASE a \in ElementsOf(known[Base]) /\ b \in ElementsOf(known[Base])
        BY <2>2, <3>3, <4>1
      <4>2. CASE a = n
        BY <2>1, <3>2, <3>3, <4>2
      <4>3. CASE b = n
        BY <2>1, <3>2, <3>3, <4>3
      <4> QED BY <2>1, <3>3, <4>1, <4>2, <4>3
    <3> QED BY <3>3 DEF Informed
  <2> QED BY <2>3, <2>4, <2>5
<1>3. CASE ~Hear(Base) /\ outbox'[Base] = outbox[Base]
  <2>1. known'[Base] = known[Base]
    BY <1>3, BaseKeeps
  <2> QED BY <1>1, <1>3, <2>1 DEF Informed, Telling
<1>4. CASE SendLetter(Base)
  <2>1. /\ outbox[Base] \in Seq(Letters) /\ outbox[Base] # <<>>
        /\ outbox'[Base] = Tail(outbox[Base]) /\ UNCHANGED known
    BY <1>4 DEF SendLetter, TypeOK
  <2> DEFINE x == Head(outbox[Base])
  <2>2. x \in Letters
    BY <2>1, TailElements
  <2>22. x.to \in Ports /\ x.msg \in Message
    BY <2>2, MessageKinds DEF Letters
  <2>3. Deliver(x.to, x.msg) /\ refused' = {}
    BY <1>4 DEF SendLetter, Complete
  <2>4. x.msg \in ElementsOf(backlog'[x.to])
    BY <2>1, <2>22, <2>3, DeliveredTells
  <2>5. ElementsOf(outbox[Base]) \subseteq {x} \cup ElementsOf(outbox'[Base])
    BY <2>1, HeadOrTail
  <2>6. ASSUME NEW p \in Nodes, NEW q \in Nodes, Telling(p, q) PROVE Told(p, q)' \/ Telling(p, q)'
    <3>1. CASE Letter(p, AddMsg(q)) = x
      <4>1. x.to = p /\ x.msg = AddMsg(q)
        BY <3>1 DEF Letter
      <4> QED BY <2>4, <4>1 DEF Told
    <3>2. CASE Letter(p, AddMsg(q)) # x
      BY <2>5, <2>6, <3>2 DEF Telling
    <3> QED BY <3>1, <3>2
  <2> QED BY <1>0, <1>1, <2>1, <2>6 DEF Informed
<1> QED
  BY <1>2, <1>3, <1>4, BaseKeeps

(* "Send all nodes the news" (ctree.c:4618): when no task calls fork_each,   *)
(* any two nodes that have registered know each other once the news has gone *)
(* round, if no message was lost and no node has left or crashed.            *)
THEOREM EverybodyHears ==
  ASSUME "nested" \notin Codes
  PROVE  Spec => []NewsSpreads
<1> USE Sizes, NetworkAssumption
<1>1. Init => SpreadInv
  <2> SUFFICES ASSUME Init PROVE SpreadInv
    OBVIOUS
  <2>1. IInv /\ Leaves /\ Unopened
    BY TypeInit, PlacesInit, KnowsInit, LeavesInit DEF IInv
  <2>2. BaseFirst /\ Registered /\ Informed
    BY EmptyElements DEF Init, BaseFirst, Registered, Informed, Procs, Ports
  <2> QED BY <2>1, <2>2 DEF SpreadInv
<1>2. SpreadInv /\ [Next]_vars => SpreadInv'
  <2> SUFFICES ASSUME SpreadInv, [Next]_vars PROVE SpreadInv'
    OBVIOUS
  <2>1. TypeOK /\ Places /\ Leaves /\ Unopened /\ BaseFirst
    BY DEF SpreadInv, IInv
  <2>2. IInv' /\ Leaves' /\ Unopened' /\ BaseFirst'
    BY <2>1, TypeStep, PlacesStep, NewsStep, LeavesStep, UnopenedStep, BaseFirstStep
    DEF SpreadInv, IInv
  <2>3. Complete' => (Registered /\ Informed)'
    BY <2>1, CompleteBefore, RegisteredStep, InformedStep DEF SpreadInv
  <2> QED BY <2>2, <2>3 DEF SpreadInv
<1>3. SpreadInv => NewsSpreads
  <2> SUFFICES ASSUME SpreadInv, Quiet, Complete,
                      NEW p \in Nodes, NEW q \in Nodes, Settled(p), Settled(q), p # q
               PROVE  q \in ElementsOf(known[p])
    BY DEF NewsSpreads, Complete
  <2>1. \A r \in Ports, n \in Nodes : AddMsg(n) \notin ElementsOf(backlog[r])
    BY DEF Quiet, Rumours, AddMsg
  <2>2. p \in ElementsOf(known[Base]) /\ q \in ElementsOf(known[Base])
    BY <2>1 DEF SpreadInv, Registered, Told, Settled
  <2>3. ~Telling(p, q)
    BY EmptyElements DEF Quiet, Telling
  <2> QED BY <2>1, <2>2, <2>3 DEF SpreadInv, Informed, Told
<1> QED
  BY <1>1, <1>2, <1>3, PTL DEF Spec

-----------------------------------------------------------------------------
(* Tasks.                                                                    *)

(* Initially no task was sent, evaluated or waited for.                      *)
LEMMA TasksInit == Init => Handles /\ Once /\ Reported
<1> SUFFICES ASSUME Init PROVE Handles /\ Once /\ Reported
  OBVIOUS
<1>1. /\ \A q \in Ports : backlog[q] = <<>>
      /\ \A k \in Kids : pc[k] = "gone"
      /\ \A p \in Nodes : join[p].finished = {}
      /\ offered = {} /\ returned = {} /\ log = <<>>
  BY Sizes, NetworkAssumption DEF Init, NoJoin, Procs, Ports
<1> QED
  BY <1>1, EmptyElements DEF Handles, Once, Reported, IsTask, Ran

(* What the tasks that wait become when the histories do not change.         *)
LEMMA OnceKept ==
  ASSUME Once, NEW shift \in [Ports -> {0, 1}],
         \A q \in Ports, i \in Nat : IsTask(q, i)' =>
           IsTask(q, i + shift[q]) /\ backlog'[q][i] = backlog[q][i + shift[q]],
         \A k \in Kids : pc'[k] = "evaluating" => pc[k] = "evaluating" /\ duty'[k] = duty[k],
         UNCHANGED <<offered, log>>
  PROVE  Once'
<1>1. Ran' = Ran
  BY DEF Ran
<1>2. ASSUME NEW q \in Ports, NEW i \in Nat, IsTask(q, i)'
      PROVE  TaskOf(backlog'[q][i]) \in offered' \ Ran'
  BY <1>1, <1>2 DEF Once
<1>3. ASSUME NEW q \in Ports, NEW r \in Ports, NEW i \in Nat, NEW j \in Nat,
             IsTask(q, i)', IsTask(r, j)', TaskOf(backlog'[q][i]) = TaskOf(backlog'[r][j])
      PROVE  q = r /\ i = j
  BY <1>3 DEF Once
<1>4. ASSUME NEW k \in Kids, pc'[k] = "evaluating"
      PROVE  /\ Duty(k)' \in offered' \ Ran'
             /\ \A q \in Ports, i \in Nat : IsTask(q, i)' => TaskOf(backlog'[q][i]) # Duty(k)'
             /\ \A l \in Kids \ {k} : pc'[l] = "evaluating" => Duty(l)' # Duty(k)'
  <2>1. Duty(k)' = Duty(k) /\ pc[k] = "evaluating"
    BY <1>4 DEF Duty
  <2>2. ASSUME NEW q \in Ports, NEW i \in Nat, IsTask(q, i)'
        PROVE  TaskOf(backlog'[q][i]) # Duty(k)'
    BY <2>1, <2>2 DEF Once
  <2>3. ASSUME NEW l \in Kids \ {k}, pc'[l] = "evaluating" PROVE Duty(l)' # Duty(k)'
    BY <2>1, <2>3 DEF Once, Duty
  <2> QED BY <1>1, <2>1, <2>2, <2>3 DEF Once
<1> QED
  BY <1>1, <1>2, <1>3, <1>4 DEF Once

(* A message that is not a task, and a message taken, leave the others.      *)
LEMMA NoTaskMoves ==
  ASSUME TypeOK, Once, UNCHANGED <<offered, log>>,
         \A k \in Kids : pc'[k] = "evaluating" => pc[k] = "evaluating" /\ duty'[k] = duty[k],
         \/ \A q \in Ports : backlog'[q] = backlog[q] \/ backlog'[q] = <<>>
         \/ \E q \in Ports, m \in Message : m.is # "task" /\ Deliver(q, m)
         \/ \E p \in Procs : Waiting(p) /\ backlog' = Taken(p)
  PROVE  Once'
<1>1. CASE \A q \in Ports : backlog'[q] = backlog[q] \/ backlog'[q] = <<>>
  <2> DEFINE shift == [q \in Ports |-> 0]
  <2>1. \A q \in Ports, i \in Nat : IsTask(q, i)' =>
          IsTask(q, i + shift[q]) /\ backlog'[q][i] = backlog[q][i + shift[q]]
    BY <1>1, EmptyElements DEF IsTask
  <2>2. shift \in [Ports -> {0, 1}]
    OBVIOUS
  <2> QED BY <2>1, <2>2, OnceKept
<1>2. ASSUME NEW q \in Ports, NEW m \in Message, m.is # "task", Deliver(q, m) PROVE Once'
  <2> DEFINE shift == [r \in Ports |-> 0]
  <2>1. ASSUME NEW r \in Ports, NEW i \in Nat, IsTask(r, i)'
        PROVE  IsTask(r, i) /\ backlog'[r][i] = backlog[r][i]
    <3>1. CASE backlog'[r] = backlog[r]
      BY <2>1, <3>1 DEF IsTask
    <3>2. CASE backlog'[r] = Append(backlog[r], m)
      <4>1. backlog[r] \in Seq(Message)
        BY DEF TypeOK
      <4>2. /\ DOMAIN backlog'[r] = DOMAIN backlog[r] \cup {Len(backlog[r]) + 1}
            /\ \A j \in DOMAIN backlog[r] : backlog'[r][j] = backlog[r][j]
            /\ backlog'[r][Len(backlog[r]) + 1] = m
        BY <3>2, <4>1, AppendElements
      <4> QED BY <1>2, <2>1, <4>2 DEF IsTask
    <3> QED BY <1>2, <3>1, <3>2 DEF Deliver, TypeOK
  <2>2. shift \in [Ports -> {0, 1}] /\ \A r \in Ports, i \in Nat : i + shift[r] = i
    OBVIOUS
  <2> HIDE DEF shift
  <2>3. \A r \in Ports, i \in Nat : IsTask(r, i)' =>
          IsTask(r, i + shift[r]) /\ backlog'[r][i] = backlog[r][i + shift[r]]
    BY <2>1, <2>2
  <2> QED BY <2>2, <2>3, OnceKept
<1>3. ASSUME NEW p \in Procs, Waiting(p), backlog' = Taken(p) PROVE Once'
  <2> DEFINE shift == [r \in Ports |-> IF r = port[p] THEN 1 ELSE 0]
  <2>1. ASSUME NEW r \in Ports, NEW i \in Nat, IsTask(r, i)'
        PROVE  IsTask(r, i + shift[r]) /\ backlog'[r][i] = backlog[r][i + shift[r]]
    <3>1. CASE r # port[p]
      <4>1. backlog'[r] = backlog[r] /\ i + shift[r] = i
        BY <1>3, <3>1 DEF Taken, TypeOK
      <4> QED BY <2>1, <4>1 DEF IsTask
    <3>2. CASE r = port[p]
      <4>1. backlog[r] \in Seq(Message) /\ backlog[r] # <<>> /\ backlog'[r] = Tail(backlog[r])
        BY <1>3, <3>2 DEF Taken, TypeOK, Waiting
      <4>2. \A j \in DOMAIN backlog'[r] : j + 1 \in DOMAIN backlog[r]
                                          /\ backlog'[r][j] = backlog[r][j + 1]
        BY <4>1, TailElements
      <4>3. i + shift[r] = i + 1
        BY <3>2
      <4> QED BY <2>1, <4>2, <4>3 DEF IsTask
    <3> QED BY <3>1, <3>2
  <2>2. shift \in [Ports -> {0, 1}]
    OBVIOUS
  <2> HIDE DEF shift
  <2> QED BY <2>1, <2>2, OnceKept
<1> QED
  BY <1>1, <1>2, <1>3

(* The handle of the next task names no task offered before.                 *)
LEMMA NewHandle ==
  ASSUME TypeOK, Places, Leaves, Handles, NEW p \in Procs, pc[p] = "sending"
  PROVE  /\ p \in Nodes /\ port[p] = p /\ HandleNow(p) \in Nat
         /\ <<p, HandleNow(p)>> \notin offered
         /\ HandleNow(p) >= handle[p]
<1>1. p \notin Kids /\ p # Base
  BY KidsTakeNothing, PlaceBase
<1>2. p \in Nodes /\ port[p] = p
  BY <1>1, PlacePorts DEF Procs, Ports
<1>3. handle[p] \in Nat
  BY DEF TypeOK
<1>4. HandleNow(p) \in Nat /\ HandleNow(p) >= handle[p]
  BY <1>3 DEF HandleNow
<1>5. ASSUME <<p, HandleNow(p)>> \in offered PROVE FALSE
  <2>1. HandleNow(p) <= handle[p] /\ (good[p] # Untried => HandleNow(p) < handle[p])
    BY <1>2, <1>4, <1>5 DEF Handles
  <2> QED BY <1>3, <2>1 DEF HandleNow
<1> QED
  BY <1>2, <1>4, <1>5

(* A task sent is in one place.                                              *)
LEMMA SentOnce ==
  ASSUME TypeOK, Once, NEW q \in Ports, NEW m \in Message, Deliver(q, m), m.is = "task",
         TaskOf(m) \notin offered, offered' = offered \cup {TaskOf(m)},
         UNCHANGED log,
         \A k \in Kids : pc'[k] = pc[k] /\ duty'[k] = duty[k]
  PROVE  Once'
<1>1. Ran' = Ran
  BY DEF Ran
<1>2. ASSUME NEW r \in Ports, NEW i \in Nat, IsTask(r, i)'
      PROVE  \/ IsTask(r, i) /\ backlog'[r][i] = backlog[r][i]
             \/ r = q /\ i = Len(backlog[q]) + 1 /\ backlog'[r][i] = m
  <2>1. CASE backlog'[r] = backlog[r]
    BY <1>2, <2>1 DEF IsTask
  <2>2. CASE r = q /\ backlog'[r] = Append(backlog[r], m)
    <3>1. backlog[r] \in Seq(Message)
      BY DEF TypeOK
    <3>2. /\ DOMAIN backlog'[r] = DOMAIN backlog[r] \cup {Len(backlog[r]) + 1}
          /\ \A j \in DOMAIN backlog[r] : backlog'[r][j] = backlog[r][j]
          /\ backlog'[r][Len(backlog[r]) + 1] = m
      BY <2>2, <3>1, AppendElements
    <3> QED BY <1>2, <2>2, <3>2 DEF IsTask
  <2> QED BY <2>1, <2>2 DEF Deliver, TypeOK
<1>3. ASSUME NEW r \in Ports, NEW i \in Nat, IsTask(r, i)'
      PROVE  TaskOf(backlog'[r][i]) \in offered' \ Ran'
  BY <1>1, <1>2, <1>3 DEF Once
<1>4. ASSUME NEW r \in Ports, NEW s \in Ports, NEW i \in Nat, NEW j \in Nat,
             IsTask(r, i)', IsTask(s, j)', TaskOf(backlog'[r][i]) = TaskOf(backlog'[s][j])
      PROVE  r = s /\ i = j
  <2>1. \A t \in Ports, h \in Nat : IsTask(t, h) => TaskOf(backlog[t][h]) # TaskOf(m)
    BY DEF Once
  <2> QED BY <1>2, <1>4, <2>1 DEF Once
<1>5. ASSUME NEW k \in Kids, pc'[k] = "evaluating"
      PROVE  /\ Duty(k)' \in offered' \ Ran'
             /\ \A r \in Ports, i \in Nat : IsTask(r, i)' => TaskOf(backlog'[r][i]) # Duty(k)'
             /\ \A l \in Kids \ {k} : pc'[l] = "evaluating" => Duty(l)' # Duty(k)'
  <2>1. Duty(k)' = Duty(k) /\ pc[k] = "evaluating" /\ Duty(k) \in offered \ Ran
    BY <1>5 DEF Duty, Once
  <2>2. ASSUME NEW r \in Ports, NEW i \in Nat, IsTask(r, i)'
        PROVE  TaskOf(backlog'[r][i]) # Duty(k)'
    BY <1>2, <2>1, <2>2 DEF Once
  <2>3. ASSUME NEW l \in Kids \ {k}, pc'[l] = "evaluating" PROVE Duty(l)' # Duty(k)'
    BY <2>1, <2>3 DEF Once, Duty
  <2> QED BY <1>1, <2>1, <2>2, <2>3
<1> QED
  BY <1>1, <1>3, <1>4, <1>5 DEF Once

(* A task taken is evaluated by one process and waits nowhere.               *)
LEMMA ForkOnce ==
  ASSUME TypeOK, Places, Leaves, Once, NEW p \in Procs, Fork(p)
  PROVE  Once'
<1> DEFINE q == port[p]
           t == TaskOf(Next1(p))
<1>1. Waiting(p) /\ backlog' = Taken(p) /\ Next1(p).is = "task" /\ UNCHANGED <<offered, log>>
  BY DEF Fork, histVars
<1>2. PICK k \in Kids :
        /\ pc[k] = "gone" /\ pc' = [pc EXCEPT ![p] = Handled(p), ![k] = "evaluating"]
        /\ duty' = [duty EXCEPT ![k] = [from |-> Next1(p).from, code |-> Next1(p).code,
                                        handle |-> Next1(p).handle, by |-> Next1(p).by]]
  BY DEF Fork
<1>3. p \notin Kids
  BY KidsTakeNothing DEF Fork, Accepting
<1>4. /\ pc'[k] = "evaluating" /\ Duty(k)' = t
      /\ \A l \in Kids \ {k} : pc'[l] = pc[l] /\ duty'[l] = duty[l]
  BY <1>2, <1>3, Sizes DEF TypeOK, Duty, TaskOf
<1>5. /\ q \in Ports /\ IsTask(q, 1) /\ TaskOf(backlog[q][1]) = t
      /\ \A i \in DOMAIN backlog'[q] : /\ i + 1 \in DOMAIN backlog[q] /\ i \in Nat /\ i # 0
                                       /\ backlog'[q][i] = backlog[q][i + 1]
  <2>1. q \in Ports /\ backlog[q] \in Seq(Message) /\ backlog[q] # <<>>
    BY <1>1 DEF TypeOK, Waiting
  <2>2. backlog'[q] = Tail(backlog[q]) /\ Next1(p) = Head(backlog[q])
    BY <1>1, <2>1 DEF Taken, TypeOK, Next1
  <2> QED BY <1>1, <2>1, <2>2, TailElements DEF IsTask
<1>6. \A r \in Ports \ {q} : backlog'[r] = backlog[r]
  BY <1>1 DEF Taken, TypeOK
<1> HIDE DEF q, t
<1>7. Ran' = Ran
  BY <1>1 DEF Ran
<1> DEFINE at(r, i) == IF r = q THEN i + 1 ELSE i
<1>8. ASSUME NEW r \in Ports, NEW i \in Nat, IsTask(r, i)'
      PROVE  /\ at(r, i) \in Nat /\ IsTask(r, at(r, i)) /\ backlog'[r][i] = backlog[r][at(r, i)]
             /\ r = q => at(r, i) # 1
  BY <1>5, <1>6, <1>8 DEF IsTask
<1>9. \A r \in Ports, i, j \in Nat : at(r, i) = at(r, j) => i = j
  OBVIOUS
<1> HIDE DEF at
<1>10. t \in offered \ Ran
  BY <1>5 DEF Once
<1>11. ASSUME NEW r \in Ports, NEW i \in Nat, IsTask(r, i)'
       PROVE  TaskOf(backlog'[r][i]) \in offered \ Ran /\ TaskOf(backlog'[r][i]) # t
  BY <1>5, <1>8, <1>11 DEF Once
<1>12. ASSUME NEW r \in Ports, NEW s \in Ports, NEW i \in Nat, NEW j \in Nat,
              IsTask(r, i)', IsTask(s, j)', TaskOf(backlog'[r][i]) = TaskOf(backlog'[s][j])
       PROVE  r = s /\ i = j
  BY <1>8, <1>9, <1>12 DEF Once
<1>13. ASSUME NEW l \in Kids, pc'[l] = "evaluating"
       PROVE  /\ Duty(l)' \in offered \ Ran
              /\ \A r \in Ports, i \in Nat : IsTask(r, i)' => TaskOf(backlog'[r][i]) # Duty(l)'
              /\ \A m \in Kids \ {l} : pc'[m] = "evaluating" => Duty(m)' # Duty(l)'
  <2>1. ASSUME NEW m \in Kids \ {k}, pc'[m] = "evaluating"
        PROVE  /\ Duty(m)' = Duty(m) /\ pc[m] = "evaluating" /\ Duty(m) # t
               /\ Duty(m) \in offered \ Ran
    BY <1>4, <1>5, <2>1 DEF Duty, Once
  <2>2. CASE l = k
    BY <1>4, <1>10, <1>11, <2>1, <2>2
  <2>3. CASE l # k
    <3>1. Duty(l)' = Duty(l) /\ pc[l] = "evaluating" /\ Duty(l) # t /\ Duty(l) \in offered \ Ran
      BY <1>13, <2>1, <2>3
    <3>2. ASSUME NEW r \in Ports, NEW i \in Nat, IsTask(r, i)'
          PROVE  TaskOf(backlog'[r][i]) # Duty(l)'
      BY <1>8, <3>1, <3>2 DEF Once
    <3>3. ASSUME NEW m \in Kids \ {l}, pc'[m] = "evaluating" PROVE Duty(m)' # Duty(l)'
      <4>1. CASE m = k
        BY <1>4, <3>1, <4>1
      <4>2. CASE m # k
        BY <2>1, <3>1, <3>3, <4>2 DEF Once
      <4> QED BY <4>1, <4>2
    <3> QED BY <3>1, <3>2, <3>3
  <2> QED BY <2>2, <2>3
<1> QED
  BY <1>1, <1>7, <1>11, <1>12, <1>13 DEF Once

(* A task that has run is in no place.                                       *)
LEMMA RunOnce ==
  ASSUME TypeOK, Once, NEW k \in Kids, pc[k] = "evaluating", pc'[k] # "evaluating",
         log' = Append(log, Duty(k)), Alone(k), UNCHANGED <<backlog, offered>>
  PROVE  Once' /\ Ran' = Ran \cup {Duty(k)}
<1>1. Ran' = Ran \cup {Duty(k)}
  <2>1. log \in Seq(Tickets) /\ Duty(k) \in Tickets
    BY Sizes DEF TypeOK, Duty, Duties, Tickets
  <2> QED BY <2>1, AppendElements DEF Ran
<1>2. \A l \in Kids : pc'[l] = "evaluating" => l # k /\ pc[l] = "evaluating" /\ Duty(l)' = Duty(l)
  BY Sizes DEF Alone, Same, Duty
<1>3. \A r \in Ports, i \in Nat : IsTask(r, i)' <=> IsTask(r, i)
  BY DEF IsTask
<1>4. ASSUME NEW r \in Ports, NEW i \in Nat, IsTask(r, i)'
      PROVE  TaskOf(backlog'[r][i]) \in offered' \ Ran'
  BY <1>1, <1>3, <1>4 DEF Once
<1>5. ASSUME NEW r \in Ports, NEW s \in Ports, NEW i \in Nat, NEW j \in Nat,
             IsTask(r, i)', IsTask(s, j)', TaskOf(backlog'[r][i]) = TaskOf(backlog'[s][j])
      PROVE  r = s /\ i = j
  BY <1>3, <1>5 DEF Once
<1>6. ASSUME NEW l \in Kids, pc'[l] = "evaluating"
      PROVE  /\ Duty(l)' \in offered' \ Ran'
             /\ \A r \in Ports, i \in Nat : IsTask(r, i)' => TaskOf(backlog'[r][i]) # Duty(l)'
             /\ \A m \in Kids \ {l} : pc'[m] = "evaluating" => Duty(m)' # Duty(l)'
  <2>1. Duty(l)' = Duty(l) /\ l # k /\ pc[l] = "evaluating"
    BY <1>2, <1>6
  <2>2. Duty(l) \in offered \ Ran /\ Duty(l) # Duty(k)
    BY <2>1 DEF Once
  <2>3. ASSUME NEW r \in Ports, NEW i \in Nat, IsTask(r, i)'
        PROVE  TaskOf(backlog'[r][i]) # Duty(l)'
    BY <1>3, <2>1, <2>3 DEF Once
  <2>4. ASSUME NEW m \in Kids \ {l}, pc'[m] = "evaluating" PROVE Duty(m)' # Duty(l)'
    BY <1>2, <2>1, <2>4 DEF Once
  <2> QED BY <1>1, <2>1, <2>2, <2>3, <2>4
<1> QED
  BY <1>1, <1>4, <1>5, <1>6 DEF Once

(* Every step keeps the handles above those offered.                         *)
LEMMA HandlesStep ==
  ASSUME TypeOK, Places, Leaves, Handles, [Next]_vars
  PROVE  Handles'
<1> USE Sizes, NetworkAssumption
<1> DEFINE Below(p) == \A h \in Nat : pc[p] # "gone" /\ <<p, h>> \in offered =>
                         h <= handle[p] /\ (good[p] # Untried => h < handle[p])
<1>0. (Handles <=> \A p \in Nodes : Below(p)) /\ (Handles' <=> \A p \in Nodes : Below(p)')
  BY DEF Handles
<1>1. ASSUME NEW p \in Nodes, pc'[p] # "gone" => pc[p] # "gone", handle'[p] = handle[p],
             good'[p] = good[p] \/ good'[p] = Untried, offered' = offered
      PROVE  Below(p)'
  BY <1>0, <1>1
<1>2. ASSUME NEW q \in Procs, Alone(q), offered' = offered,
             pc[q] # "gone" \/ pc'[q] = "gone", 
             pc'[q] = "gone" \/ (handle'[q] = handle[q] /\ good'[q] = good[q])
      PROVE  Handles'
  <2>1. ASSUME NEW p \in Nodes, p # q PROVE Below(p)'
    <3>1. pc'[p] = pc[p] /\ handle'[p] = handle[p] /\ good'[p] = good[p]
      BY <1>2, <2>1 DEF Alone, Same
    <3> QED BY <1>1, <1>2, <3>1
  <2>2. q \in Nodes => Below(q)'
    <3>1. CASE pc'[q] = "gone"
      BY <3>1
    <3>2. CASE pc'[q] # "gone"
      BY <1>1, <1>2, <3>2
    <3> QED BY <3>1, <3>2
  <2> QED BY <1>0, <2>1, <2>2
<1>3. ASSUME NEW q \in Procs, NEW d \in Nodes, NEW c \in CodesOf(q), Sent(q, d, c)
      PROVE  Handles'
  <2> DEFINE h == HandleNow(q)
  <2>1. /\ q \in Nodes /\ port[q] = q /\ h \in Nat /\ h >= handle[q]
        /\ pc[q] # "gone" /\ handle[q] \in Nat
    BY <1>3, NewHandle DEF Sent, TypeOK
  <2>2. /\ offered' = offered \cup {<<q, h>>}
        /\ handle'[q] \in {h, h + 1}
        /\ good'[q] = Untried
    BY <1>3, <2>1 DEF Sent, TypeOK
  <2> HIDE DEF h
  <2>3. Below(q)'
    <3> SUFFICES ASSUME NEW i \in Nat, <<q, i>> \in offered' PROVE i <= handle'[q]
      BY <2>2
    <3>1. CASE i = h
      BY <2>1, <2>2, <3>1
    <3>2. CASE <<q, i>> \in offered
      <4>1. i <= handle[q]
        BY <1>0, <2>1, <3>2
      <4> QED BY <2>1, <2>2, <4>1
    <3> QED BY <2>2, <3>1, <3>2
  <2>4. ASSUME NEW p \in Nodes, p # q PROVE Below(p)'
    <3>1. pc'[p] = pc[p] /\ handle'[p] = handle[p] /\ good'[p] = good[p]
      BY <1>3, <2>4, ActsAlone DEF Alone, Same
    <3> QED BY <1>0, <2>2, <2>4, <3>1
  <2> QED BY <1>0, <2>3, <2>4
<1>4. ASSUME NEW q \in Procs, NEW d \in Nodes, Refused(q, d) PROVE Handles'
  <2>1. q \in Nodes /\ HandleNow(q) \in Nat /\ handle[q] \in Nat /\ pc[q] # "gone"
    BY <1>4, NewHandle DEF Refused, TypeOK
  <2>2. handle'[q] = HandleNow(q) /\ offered' = offered
    BY <1>4 DEF Refused, TypeOK
  <2>3. \A i \in Nat : <<q, i>> \in offered => i < HandleNow(q)
    BY <1>0, <2>1 DEF HandleNow
  <2>4. Below(q)'
    BY <2>1, <2>2, <2>3
  <2>5. ASSUME NEW p \in Nodes, p # q PROVE Below(p)'
    <3>1. pc'[p] = pc[p] /\ handle'[p] = handle[p] /\ good'[p] = good[p]
      BY <1>4, <2>5, ActsAlone DEF Quietly, Alone, Same
    <3> QED BY <1>1, <2>2, <3>1
  <2> QED BY <1>0, <2>4, <2>5
<1>5. ASSUME NEW q \in Procs, Quietly(q), ~(\E d \in Nodes : Refused(q, d)) PROVE Handles'
  <2>1. offered' = offered /\ handle' = handle /\ good' = good /\ pc[q] # "gone"
    BY <1>5 DEF Quietly, Register, Listen, SendLetter, RunScript, CheckFinished, Evaluate, Report,
         Alive, histVars
  <2> QED BY <1>2, <1>5, <2>1, ActsAlone
<1>6. ASSUME NEW q \in Procs, Takes(q) PROVE Handles'
  <2>1. offered' = offered /\ handle' = handle /\ good' = good /\ pc[q] # "gone"
    BY <1>6 DEF Takes, Hear, Released, TaskDone, Accepting, histVars
  <2> QED BY <1>2, <1>6, <2>1, ActsAlone
<1>7. ASSUME NEW q \in Procs, Dies(q), UNCHANGED offered PROVE Handles'
  <2>1. pc'[q] = "gone"
    BY <1>7 DEF Dies, Goes, TypeOK
  <2> QED BY <1>2, <1>7, <2>1, ActsAlone
<1>8. ASSUME NEW q \in Procs, Fork(q) PROVE Handles'
  <2>1. PICK k \in Kids :
          /\ pc' = [pc EXCEPT ![q] = Handled(q), ![k] = "evaluating"]
          /\ handle' = [handle EXCEPT ![k] = handle[q]]
    BY <1>8 DEF Fork
  <2>2. offered' = offered /\ good' = good /\ pc[q] # "gone"
    BY <1>8 DEF Fork, Accepting, histVars
  <2>3. \A p \in Nodes : (pc'[p] # "gone" => pc[p] # "gone") /\ handle'[p] = handle[p]
    BY <2>1, <2>2 DEF TypeOK, Procs, Ports
  <2> QED BY <1>0, <1>1, <2>2, <2>3
<1>9. ASSUME NEW q \in Ports, StartBase \/ StartNode(q), q = Base \/ q \in Nodes PROVE Handles'
  <2>1. offered' = offered /\ handle' = handle /\ good' = good
    BY <1>9 DEF StartBase, StartNode, histVars
  <2>2. \A p \in Nodes : pc'[p] # "gone" => pc[p] # "gone"
    BY <1>9 DEF StartBase, StartNode, Goes, TypeOK
  <2> QED BY <1>0, <1>1, <2>1, <2>2
<1>10. CASE UNCHANGED vars
  BY <1>10 DEF Handles, vars, procVars, histVars
<1> QED
  BY <1>3, <1>4, <1>5, <1>6, <1>7, <1>8, <1>9, <1>10, Steps DEF Ports

(* What each step does to the tasks, the replies and the histories.          *)
LEMMA OnceStep ==
  ASSUME TypeOK, Places, Leaves, Handles, Once, [Next]_vars
  PROVE  Once'
<1> USE Sizes, NetworkAssumption
<1>1. ASSUME NEW q \in Procs, Alone(q), q \in Kids => pc'[q] # "evaluating" \/ 
                                                     (pc'[q] = pc[q] /\ duty'[q] = duty[q])
      PROVE  \A k \in Kids : pc'[k] = "evaluating" => pc[k] = "evaluating" /\ duty'[k] = duty[k]
  BY <1>1 DEF Alone, Same
<1>2. ASSUME StartBase PROVE Once'
  <2>1. UNCHANGED <<offered, log, backlog>> /\ Alone(Base) /\ Base \notin Kids
    BY <1>2, ActsAlone DEF StartBase, histVars
  <2> QED BY <1>1, <2>1, NoTaskMoves
<1>3. ASSUME NEW p \in Nodes, StartNode(p) PROVE Once'
  <2>1. UNCHANGED <<offered, log, backlog>> /\ Alone(p) /\ p \notin Kids
    BY <1>3, ActsAlone DEF StartNode, histVars
  <2> QED BY <1>1, <2>1, NoTaskMoves
<1>4. ASSUME NEW p \in Procs, Takes(p) PROVE Once'
  <2>1. UNCHANGED <<offered, log>> /\ Alone(p) /\ p \notin Kids /\ Waiting(p) /\ backlog' = Taken(p)
    BY <1>4, ActsAlone, KidsTakeNothing DEF Takes, Hear, Released, TaskDone, Accepting, histVars
  <2> QED BY <1>1, <2>1, NoTaskMoves
<1>5. ASSUME NEW p \in Procs, Dies(p), UNCHANGED <<offered, log>> PROVE Once'
  <2>1. Alone(p) /\ pc'[p] = "gone"
    BY <1>5, ActsAlone DEF Dies, Goes, TypeOK
  <2>2. \A q \in Ports : backlog'[q] = backlog[q] \/ backlog'[q] = <<>>
    BY <1>5 DEF Dies, TypeOK
  <2> QED BY <1>1, <1>5, <2>1, <2>2, NoTaskMoves
<1>6. ASSUME NEW p \in Procs, NEW d \in Nodes, NEW c \in CodesOf(p), Sent(p, d, c)
      PROVE  Once'
  <2> DEFINE m == TaskMsg(port[p], c, HandleNow(p), p)
  <2>1. p \in Nodes /\ port[p] = p /\ HandleNow(p) \in Nat /\ <<p, HandleNow(p)>> \notin offered
    BY <1>6, NewHandle DEF Sent
  <2>2. m \in Message /\ m.is = "task" /\ TaskOf(m) = <<p, HandleNow(p)>>
    BY <2>1, MessageKinds DEF TaskMsg, TaskOf, CodesOf
  <2>3. Deliver(d, m) /\ offered' = offered \cup {<<p, HandleNow(p)>>} /\ log' = log
    BY <1>6, <2>1 DEF Sent, Evaluated
  <2>4. \A k \in Kids : pc'[k] = pc[k] /\ duty'[k] = duty[k]
    BY <1>6, <2>1, ActsAlone DEF Alone, Same
  <2> HIDE DEF m
  <2> QED BY <2>1, <2>2, <2>3, <2>4, SentOnce
<1>7. ASSUME NEW p \in Procs, Quietly(p) PROVE Once'
  <2>1. Alone(p) /\ UNCHANGED offered
    BY <1>7, ActsAlone DEF Quietly, Register, Listen, SendLetter, RunScript, Refused,
         CheckFinished, Evaluate, Report, histVars
  <2>2. CASE Evaluate(p)
    <3>1. p \in Kids /\ duty[p].code = "leaf" /\ UNCHANGED backlog
      BY <2>2 DEF Evaluate, Places, PlaceOf, Leaves, Procs, Ports
    <3>2. pc'[p] = "reporting" /\ pc[p] = "evaluating" /\ log' = Append(log, Duty(p))
      BY <2>2, <3>1 DEF Evaluate, Goes, TypeOK, Evaluated, Duty
    <3> QED BY <2>1, <3>1, <3>2, RunOnce
  <2>3. CASE Register(p)
    <3>1. p \in Nodes
      BY <2>3 DEF Register, Places, PlaceOf, Procs, Ports, Loop
    <3>2. AddMsg(p) \in Message /\ AddMsg(p).is # "task"
      BY <3>1, MessageKinds DEF AddMsg
    <3>3. Deliver(Base, AddMsg(p)) /\ UNCHANGED log
      BY <2>3 DEF Register
    <3> QED BY <1>1, <2>1, <3>1, <3>2, <3>3, NoTaskMoves
  <2>4. CASE SendLetter(p)
    <3>1. outbox[p] \in Seq(Letters) /\ outbox[p] # <<>>
      BY <2>4 DEF SendLetter, TypeOK
    <3>2. Head(outbox[p]) \in Letters
      BY <3>1, TailElements
    <3>3. Head(outbox[p]).to \in Ports /\ Head(outbox[p]).msg \in Message
          /\ Head(outbox[p]).msg.is # "task"
      BY <3>2, MessageKinds DEF Letters
    <3>4. p \notin Kids /\ UNCHANGED log /\ Deliver(Head(outbox[p]).to, Head(outbox[p]).msg)
      BY <2>4, KidsTakeNothing DEF SendLetter
    <3> QED BY <1>1, <2>1, <3>3, <3>4, NoTaskMoves
  <2>5. CASE Report(p)
    <3>1. duty[p].from \in Ports /\ duty[p].handle \in Nat /\ duty[p].by \in Procs
      BY DEF TypeOK, Duties
    <3>2. /\ DoneMsg(duty[p].handle, duty[p].by) \in Message
          /\ DoneMsg(duty[p].handle, duty[p].by).is # "task"
      BY <3>1, MessageKinds DEF DoneMsg
    <3>3. UNCHANGED log /\ Deliver(duty[p].from, DoneMsg(duty[p].handle, duty[p].by))
          /\ pc'[p] = "leaving"
      BY <2>5 DEF Report, Goes, TypeOK
    <3> QED BY <1>1, <2>1, <3>1, <3>2, <3>3, NoTaskMoves
  <2>6. CASE Listen(p) \/ RunScript(p) \/ CheckFinished(p) \/ \E d \in Nodes : Refused(p, d)
    <3>1. p \notin Kids
      BY <2>6, KidsTakeNothing DEF Listen, RunScript, CheckFinished, Refused
    <3>2. UNCHANGED <<backlog, log>>
      BY <2>6, <3>1 DEF Listen, RunScript, CheckFinished, Refused, Evaluated, histVars
    <3> QED BY <1>1, <2>1, <3>1, <3>2, NoTaskMoves
  <2> QED BY <1>7, <2>2, <2>3, <2>4, <2>5, <2>6 DEF Quietly
<1>8. ASSUME NEW p \in Procs, Fork(p) PROVE Once'
  BY <1>8, ForkOnce
<1>9. CASE UNCHANGED vars
  <2>1. UNCHANGED <<backlog, offered, log, pc, duty>>
    BY <1>9 DEF vars, procVars, histVars
  <2> QED BY <2>1, NoTaskMoves
<1> QED
  BY <1>2, <1>3, <1>4, <1>5, <1>6, <1>7, <1>8, <1>9, Steps

(* How the histories grow, and what is reported.                             *)
Replies == \A q \in Ports : \A m \in ElementsOf(backlog[q]) :
             m.is = "network_task_done" => <<q, m.handle>> \in Ran

(* Replies go on being about evaluated tasks.                                *)
LEMMA RepliesKept ==
  ASSUME TypeOK, Replies, Ran \subseteq Ran',
         \/ \A q \in Ports : backlog'[q] = backlog[q] \/ backlog'[q] = <<>>
         \/ \E q \in Ports, m \in Message :
              /\ m.is = "network_task_done" => <<q, m.handle>> \in Ran
              /\ Deliver(q, m)
         \/ \E p \in Procs : Waiting(p) /\ backlog' = Taken(p)
  PROVE  Replies'
<1>1. CASE \A q \in Ports : backlog'[q] = backlog[q] \/ backlog'[q] = <<>>
  BY <1>1, EmptyElements DEF Replies
<1>2. ASSUME NEW q \in Ports, NEW m \in Message, Deliver(q, m),
             m.is = "network_task_done" => <<q, m.handle>> \in Ran
      PROVE  Replies'
  <2>1. \A r \in Ports : ElementsOf(backlog'[r]) \subseteq
                           ElementsOf(backlog[r]) \cup (IF r = q THEN {m} ELSE {})
    BY <1>2, DeliverAdds
  <2> QED BY <1>2, <2>1 DEF Replies
<1>3. ASSUME NEW p \in Procs, Waiting(p), backlog' = Taken(p) PROVE Replies'
  BY <1>3, TakenRest DEF Replies
<1> QED BY <1>1, <1>2, <1>3

Finishes == \A p \in Nodes : \A h \in join[p].finished : <<p, h>> \in Ran
Reports == \A k \in Kids : pc[k] = "reporting" => Duty(k) \in Ran

(* Forked processes go on reporting evaluated tasks only.                    *)
LEMMA ReportsKept ==
  ASSUME Reports, Ran \subseteq Ran',
         \A k \in Kids : pc'[k] = "reporting" => pc[k] = "reporting" /\ duty'[k] = duty[k]
  PROVE  Reports'
BY DEF Reports, Duty

(* Tasks counted as finished go on being evaluated ones.                     *)
LEMMA FinishesKept ==
  ASSUME Finishes, Ran \subseteq Ran',
         \A p \in Nodes : join'[p].finished \subseteq join[p].finished
  PROVE  Finishes'
BY DEF Finishes

(* What each step does to the histories: it offers a task, runs one, returns *)
(* to a caller or leaves them alone.                                         *)
Offers == \E t \in offered' : t \in Tickets /\ t \notin offered /\ offered' = offered \cup {t}
Runs == \E k \in Kids : pc[k] = "evaluating" /\ log' = Append(log, Duty(k))

(* A step records one offer, one evaluation or one return, or none.          *)
LEMMA HistoryStep ==
  ASSUME TypeOK, Places, Leaves, Handles, Once, Reported, [Next]_vars
  PROVE  \/ UNCHANGED <<offered, log, returned>>
         \/ Offers /\ UNCHANGED <<log, returned>>
         \/ Runs /\ UNCHANGED <<offered, returned>>
         \/ returned \subseteq returned' /\ returned' \subseteq Ran /\ UNCHANGED <<offered, log>>
<1> USE Sizes, NetworkAssumption
<1>1. ASSUME NEW p \in Procs, NEW d \in Nodes, NEW c \in CodesOf(p), Sent(p, d, c)
      PROVE  Offers /\ UNCHANGED <<log, returned>>
  <2>1. p \in Nodes /\ port[p] = p /\ HandleNow(p) \in Nat /\ <<p, HandleNow(p)>> \notin offered
    BY <1>1, NewHandle DEF Sent
  <2>2. offered' = offered \cup {<<p, HandleNow(p)>>} /\ UNCHANGED <<log, returned>>
    BY <1>1, <2>1 DEF Sent, Evaluated
  <2>3. <<p, HandleNow(p)>> \in Tickets
    BY <2>1 DEF Tickets
  <2> QED BY <2>1, <2>2, <2>3 DEF Offers
<1>2. ASSUME NEW p \in Procs, Evaluate(p) PROVE Runs /\ UNCHANGED <<offered, returned>>
  <2>1. /\ p \in Kids /\ duty[p].code = "leaf" /\ pc[p] = "evaluating"
        /\ UNCHANGED <<offered, returned>>
    BY <1>2 DEF Evaluate, Places, PlaceOf, Leaves, Procs, Ports
  <2>2. log' = Append(log, Duty(p))
    BY <1>2, <2>1 DEF Evaluate, Evaluated, Duty
  <2> QED BY <2>1, <2>2 DEF Runs
<1>3. ASSUME NEW p \in Procs, CheckFinished(p)
      PROVE  returned \subseteq returned' /\ returned' \subseteq Ran /\ UNCHANGED <<offered, log>>
  <2>1. p \in Nodes /\ port[p] = p
    <3>1. p \notin Kids /\ p # Base
      BY <1>3, KidsTakeNothing, PlaceBase DEF CheckFinished
    <3> QED BY <3>1, PlacePorts DEF Procs, Ports
  <2>2. \A h \in join[p].finished : <<port[p], h>> \in Ran
    BY <2>1 DEF Reported
  <2>3. \/ UNCHANGED returned
        \/ Finished(p) /\ returned' = returned \cup {<<port[p], h>> : h \in join[p].sent}
    BY <1>3 DEF CheckFinished
  <2>4. returned \subseteq Ran
    BY DEF Reported
  <2>5. UNCHANGED <<offered, log>>
    BY <1>3, <2>1 DEF CheckFinished, Evaluated
  <2> QED BY <2>2, <2>3, <2>4, <2>5 DEF Finished
<1>4. ASSUME NEW p \in Procs, Quietly(p), ~Evaluate(p), ~CheckFinished(p)
      PROVE  UNCHANGED <<offered, log, returned>>
  <2>1. CASE \E d \in Nodes : Refused(p, d)
    <3>1. p \notin Kids
      BY <2>1, KidsTakeNothing DEF Refused
    <3> QED BY <2>1, <3>1 DEF Refused, Evaluated
  <2> QED
    BY <1>4, <2>1 DEF Quietly, Register, Listen, SendLetter, RunScript, Report, histVars
<1>5. ASSUME NEW p \in Procs, Takes(p) \/ Fork(p) PROVE UNCHANGED <<offered, log, returned>>
  BY <1>5 DEF Takes, Hear, Released, TaskDone, Fork, histVars
<1>6. ASSUME StartBase \/ (\E q \in Nodes : StartNode(q)) PROVE UNCHANGED <<offered, log, returned>>
  BY <1>6 DEF StartBase, StartNode, histVars
<1>7. CASE UNCHANGED vars
  BY <1>7 DEF vars, histVars
<1> QED
  BY <1>1, <1>2, <1>3, <1>4, <1>5, <1>6, <1>7, Steps

(* What has run has run.                                                     *)
LEMMA RanGrows ==
  ASSUME TypeOK, Places, Leaves, Handles, Once, Reported, [Next]_vars
  PROVE  Ran \subseteq Ran' /\ returned' \subseteq Ran'
<1>1. Ran \subseteq Ran'
  <2>1. CASE UNCHANGED log
    BY <2>1 DEF Ran
  <2>2. ASSUME NEW k \in Kids, log' = Append(log, Duty(k)) PROVE Ran \subseteq Ran'
    <3>1. log \in Seq(Tickets) /\ Duty(k) \in Tickets
      BY Sizes DEF TypeOK, Duty, Duties, Tickets
    <3> QED BY <2>2, <3>1, AppendElements DEF Ran
  <2> QED BY <2>1, <2>2, HistoryStep DEF Runs
<1>2. returned \subseteq Ran
  BY DEF Reported
<1> QED
  BY <1>1, <1>2, HistoryStep

(* Every step reports only what has run.                                     *)
LEMMA ReportedStep ==
  ASSUME TypeOK, Places, Leaves, Handles, Once, Reported, [Next]_vars
  PROVE  Reported'
<1> USE Sizes, NetworkAssumption
<1>1. Ran \subseteq Ran' /\ returned' \subseteq Ran'
  BY RanGrows
<1>2. Reports /\ Replies /\ Finishes
  BY DEF Reported, Reports, Replies, Finishes
<1>3. SUFFICES Reports' /\ Replies' /\ Finishes'
  BY <1>1 DEF Reported, Reports, Replies, Finishes
<1>4. ASSUME NEW q \in Procs, Alone(q), q \notin Kids PROVE Reports'
  BY <1>1, <1>2, <1>4, ReportsKept DEF Alone, Same
<1>5. ASSUME NEW q \in Procs, Alone(q), q \notin Nodes PROVE Finishes'
  BY <1>1, <1>2, <1>5, FinishesKept DEF Alone, Same
<1>6. ASSUME UNCHANGED join PROVE Finishes'
  BY <1>1, <1>2, <1>6, FinishesKept
<1>7. ASSUME UNCHANGED backlog PROVE Replies'
  BY <1>1, <1>2, <1>7, RepliesKept
<1>8. ASSUME NEW q \in Ports, NEW m \in Message, Deliver(q, m), m.is # "network_task_done"
      PROVE  Replies'
  BY <1>1, <1>2, <1>8, RepliesKept
<1>9. ASSUME NEW p \in Procs, Waiting(p), backlog' = Taken(p) PROVE Replies'
  BY <1>1, <1>2, <1>9, RepliesKept
<1>10. ASSUME StartBase PROVE Reports' /\ Replies' /\ Finishes'
  <2>1. Alone(Base) /\ UNCHANGED <<backlog, join>> /\ Base \notin Kids
    BY <1>10, ActsAlone DEF StartBase
  <2> QED BY <1>4, <1>6, <1>7, <2>1
<1>11. ASSUME NEW p \in Nodes, StartNode(p) PROVE Reports' /\ Replies' /\ Finishes'
  <2>1. Alone(p) /\ UNCHANGED <<backlog, join>> /\ p \notin Kids
    BY <1>11, ActsAlone DEF StartNode
  <2> QED BY <1>4, <1>6, <1>7, <2>1
<1>12. ASSUME NEW p \in Procs, Takes(p) PROVE Reports' /\ Replies' /\ Finishes'
  <2>1. Alone(p) /\ p \notin Kids /\ Waiting(p) /\ backlog' = Taken(p)
    BY <1>12, ActsAlone, KidsTakeNothing DEF Takes, Hear, Released, TaskDone, Accepting
  <2>2. CASE UNCHANGED join
    BY <1>4, <1>6, <1>9, <2>1, <2>2
  <2>3. CASE TaskDone(p) /\ p \in Nodes
    <3>1. port[p] = p /\ Next1(p) \in ElementsOf(backlog[p]) /\ Next1(p).is = "network_task_done"
      BY <2>3, PlacePorts, TakenRest DEF TaskDone
    <3>2. <<p, Next1(p).handle>> \in Ran
      BY <1>2, <2>3, <3>1 DEF Replies
    <3>3. join[p] \in Joins
      BY DEF TypeOK
    <3>4. join'[p].finished = join[p].finished \cup {Next1(p).handle}
      BY <2>3, <3>3 DEF TaskDone, TypeOK, Joins
    <3>5. \A q \in Nodes \ {p} : join'[q] = join[q]
      BY <2>1 DEF Alone, Same
    <3>6. Finishes'
      BY <1>1, <1>2, <2>3, <3>2, <3>4, <3>5 DEF Finishes
    <3> QED BY <1>4, <1>9, <2>1, <3>6
  <2>4. CASE p \notin Nodes
    BY <1>4, <1>5, <1>9, <2>1, <2>4
  <2> QED BY <1>12, <2>2, <2>3, <2>4 DEF Takes, Hear, Released
<1>13. ASSUME NEW p \in Procs, NEW d \in Nodes, NEW c \in CodesOf(p), Sent(p, d, c)
       PROVE  Reports' /\ Replies' /\ Finishes'
  <2>1. p \in Nodes /\ port[p] = p /\ HandleNow(p) \in Nat /\ Alone(p) /\ p \notin Kids
    BY <1>13, NewHandle, ActsAlone DEF Sent
  <2>2. /\ TaskMsg(port[p], c, HandleNow(p), p) \in Message
        /\ TaskMsg(port[p], c, HandleNow(p), p).is # "network_task_done"
    BY <2>1, MessageKinds DEF TaskMsg, CodesOf
  <2>3. Replies'
    BY <1>8, <1>13, <2>2 DEF Sent
  <2>4. join'[p].finished = join[p].finished
    <3>1. join[p] \in Joins
      BY DEF TypeOK
    <3> QED BY <1>13, <3>1 DEF Sent, TypeOK, Joins
  <2>5. Finishes'
    BY <1>1, <1>2, <2>1, <2>4, FinishesKept DEF Alone, Same
  <2> QED BY <1>4, <2>1, <2>3, <2>5
<1>14. ASSUME NEW p \in Procs, Fork(p) PROVE Reports' /\ Replies' /\ Finishes'
  <2>1. p \notin Kids /\ Waiting(p) /\ backlog' = Taken(p) /\ UNCHANGED join
    BY <1>14, KidsTakeNothing DEF Fork, Accepting
  <2>2. PICK k \in Kids : /\ pc' = [pc EXCEPT ![p] = Handled(p), ![k] = "evaluating"]
                          /\ \E e : duty' = [duty EXCEPT ![k] = e]
    BY <1>14 DEF Fork
  <2>3. \A l \in Kids : pc'[l] = "reporting" => pc[l] = "reporting" /\ duty'[l] = duty[l]
    BY <2>1, <2>2 DEF TypeOK
  <2>4. Reports'
    BY <1>1, <1>2, <2>3, ReportsKept
  <2> QED BY <1>6, <1>9, <2>1, <2>4
<1>15. ASSUME NEW p \in Procs, Dies(p) PROVE Reports' /\ Replies' /\ Finishes'
  <2>1. Alone(p) /\ pc'[p] = "gone" /\ join'[p] = NoJoin
    BY <1>15, ActsAlone DEF Dies, Goes, TypeOK
  <2>2. Reports'
    BY <1>1, <1>2, <2>1, ReportsKept DEF Alone, Same
  <2>3. Finishes'
    BY <1>1, <1>2, <2>1, FinishesKept DEF Alone, Same, NoJoin
  <2>4. \A q \in Ports : backlog'[q] = backlog[q] \/ backlog'[q] = <<>>
    BY <1>15 DEF Dies, TypeOK
  <2>5. Replies'
    BY <1>1, <1>2, <2>4, RepliesKept
  <2> QED BY <2>2, <2>3, <2>5
<1>16. ASSUME NEW p \in Procs, Evaluate(p) PROVE Reports' /\ Replies' /\ Finishes'
  <2>1. /\ p \in Kids /\ duty[p].code = "leaf" /\ Alone(p)
        /\ UNCHANGED <<backlog, offered, join, duty>>
    BY <1>16, ActsAlone DEF Quietly, Evaluate, Places, PlaceOf, Leaves, Procs, Ports
  <2>2. pc'[p] = "reporting" /\ pc[p] = "evaluating" /\ log' = Append(log, Duty(p))
    BY <1>16, <2>1 DEF Evaluate, Goes, TypeOK, Evaluated, Duty
  <2>3. Ran' = Ran \cup {Duty(p)}
    BY <2>1, <2>2, RunOnce
  <2>4. Duty(p)' = Duty(p) /\ \A k \in Kids \ {p} : pc'[k] = pc[k] /\ Duty(k)' = Duty(k)
    BY <2>1 DEF Duty, Alone, Same
  <2>5. Reports'
    BY <1>1, <1>2, <2>3, <2>4 DEF Reports
  <2> QED BY <1>6, <1>7, <2>1, <2>5
<1>17. ASSUME NEW p \in Procs, Register(p) \/ SendLetter(p) PROVE Reports' /\ Replies' /\ Finishes'
  <2>1. p \notin Kids /\ UNCHANGED join /\ Alone(p)
    BY <1>17, ActsAlone, KidsTakeNothing DEF Quietly, Register, SendLetter
  <2>2. CASE Register(p)
    <3>1. p \in Nodes
      BY <2>2 DEF Register, Places, PlaceOf, Procs, Ports, Loop
    <3>2. AddMsg(p) \in Message /\ AddMsg(p).is # "network_task_done" /\ Deliver(Base, AddMsg(p))
      BY <2>2, <3>1, MessageKinds DEF AddMsg, Register
    <3> QED BY <1>4, <1>6, <1>8, <2>1, <3>2
  <2>3. CASE SendLetter(p)
    <3>1. outbox[p] \in Seq(Letters) /\ outbox[p] # <<>>
      BY <2>3 DEF SendLetter, TypeOK
    <3>2. Head(outbox[p]) \in Letters
      BY <3>1, TailElements
    <3>3. Head(outbox[p]).to \in Ports /\ Head(outbox[p]).msg \in Message
          /\ Head(outbox[p]).msg.is # "network_task_done"
      BY <3>2, MessageKinds DEF Letters
    <3>4. Deliver(Head(outbox[p]).to, Head(outbox[p]).msg)
      BY <2>3 DEF SendLetter
    <3> QED BY <1>4, <1>6, <1>8, <2>1, <3>3, <3>4
  <2> QED BY <1>17, <2>2, <2>3
<1>18. ASSUME NEW p \in Procs, Report(p) PROVE Reports' /\ Replies' /\ Finishes'
  <2>1. duty[p].from \in Ports /\ duty[p].handle \in Nat /\ duty[p].by \in Procs
    BY DEF TypeOK, Duties
  <2> DEFINE m == DoneMsg(duty[p].handle, duty[p].by)
  <2>2. m \in Message /\ m.is = "network_task_done" /\ m.handle = duty[p].handle
    BY <2>1, MessageKinds DEF DoneMsg
  <2>3. /\ pc[p] = "reporting" /\ pc'[p] = "leaving" /\ UNCHANGED join /\ Alone(p)
        /\ Deliver(duty[p].from, m)
    BY <1>18, ActsAlone DEF Quietly, Report, Goes, TypeOK
  <2>4. p \in Kids
    BY <2>3 DEF Places, PlaceOf, Procs, Ports
  <2>5. <<duty[p].from, m.handle>> \in Ran
    BY <1>2, <2>2, <2>3, <2>4 DEF Reports, Duty
  <2> HIDE DEF m
  <2>6. Replies'
    BY <1>1, <1>2, <2>1, <2>2, <2>3, <2>5, RepliesKept
  <2>7. Reports'
    BY <1>1, <1>2, <2>3, ReportsKept DEF Alone, Same
  <2> QED BY <1>6, <2>3, <2>6, <2>7
<1>19. ASSUME NEW p \in Procs,
              Listen(p) \/ RunScript(p) \/ CheckFinished(p) \/ \E d \in Nodes : Refused(p, d)
       PROVE  Reports' /\ Replies' /\ Finishes'
  <2>1. p \notin Kids /\ UNCHANGED backlog /\ Alone(p)
    BY <1>19, ActsAlone, KidsTakeNothing DEF Quietly, Listen, RunScript, CheckFinished, Refused
  <2>2. CASE RunScript(p)
    <3>1. join'[p] = join[p] \/ join'[p] = ForkEach
      BY <2>2 DEF RunScript, TypeOK
    <3>2. Finishes'
      BY <1>1, <1>2, <2>1, <3>1, FinishesKept DEF Alone, Same, ForkEach
    <3> QED BY <1>4, <1>7, <2>1, <3>2
  <2>3. CASE ~RunScript(p)
    <3>1. UNCHANGED join
      BY <1>19, <2>3 DEF Listen, CheckFinished, Refused
    <3> QED BY <1>4, <1>6, <1>7, <2>1, <3>1
  <2> QED BY <2>2, <2>3
<1>20. CASE UNCHANGED vars
  <2>1. UNCHANGED <<backlog, join, pc, duty>>
    BY <1>20 DEF vars, procVars
  <2>2. Reports'
    BY <1>1, <1>2, <2>1, ReportsKept
  <2> QED BY <1>6, <1>7, <2>1, <2>2
<1> QED
  BY <1>10, <1>11, <1>12, <1>13, <1>14, <1>15, <1>16, <1>17, <1>18, <1>19, <1>20, Steps DEF Quietly

(* The invariant of the tasks.                                               *)
LEMMA LeafInductive ==
  ASSUME "nested" \notin Codes
  PROVE  Spec => []LeafInv
<1>1. Init => LeafInv
  BY TypeInit, PlacesInit, KnowsInit, LeavesInit, TasksInit DEF LeafInv, IInv
<1>2. LeafInv /\ [Next]_vars => LeafInv'
  BY TypeStep, PlacesStep, NewsStep, LeavesStep, HandlesStep, OnceStep, ReportedStep
  DEF LeafInv, IInv
<1> QED
  BY <1>1, <1>2, PTL DEF Spec

(* When no task calls fork_each, the network implements ForkJoin: a task is  *)
(* evaluated at most once, and fork_each (.ramspice.tcl) returns only when   *)
(* all the tasks it has sent have been evaluated, whoever crashes.           *)
THEOREM TasksRunOnce ==
  ASSUME "nested" \notin Codes
  PROVE  Spec => RunsTasksOnce
<1>1. Init => Tasks!Init
  BY DEF Init, Tasks!Init
<1>2. LeafInv /\ [Next]_vars => [Tasks!Next]_(Tasks!vars)
  <2> SUFFICES ASSUME LeafInv, [Next]_vars PROVE [Tasks!Next]_(Tasks!vars)
    OBVIOUS
  <2>1. Ran = Tasks!Evaluated
    BY DEF Ran, ElementsOf, Tasks!Evaluated
  <2>2. \/ UNCHANGED <<offered, log, returned>>
        \/ Offers /\ UNCHANGED <<log, returned>>
        \/ Runs /\ UNCHANGED <<offered, returned>>
        \/ returned \subseteq returned' /\ returned' \subseteq Ran /\ UNCHANGED <<offered, log>>
    BY HistoryStep DEF LeafInv, IInv
  <2>3. ASSUME NEW k \in Kids, pc[k] = "evaluating" PROVE Duty(k) \in offered \ Tasks!Evaluated
    BY <2>1, <2>3 DEF LeafInv, Once
  <2>4. CASE UNCHANGED <<offered, log, returned>>
    BY <2>4 DEF Tasks!vars
  <2>5. CASE Offers /\ UNCHANGED <<log, returned>>
    BY <2>5 DEF Offers, Tickets, Tasks!Offer, Tasks!Next
  <2>6. CASE Runs /\ UNCHANGED <<offered, returned>>
    BY <2>3, <2>6 DEF Runs, Tasks!Run, Tasks!Next
  <2>7. CASE returned \subseteq returned' /\ returned' \subseteq Ran /\ UNCHANGED <<offered, log>>
    BY <2>1, <2>7 DEF Tasks!Return, Tasks!Next
  <2> QED BY <2>2, <2>4, <2>5, <2>6, <2>7
<1> QED
  BY <1>1, <1>2, LeafInductive, PTL DEF Spec, RunsTasksOnce, Tasks!Spec
=============================================================================
