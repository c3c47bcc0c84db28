--------------------------- MODULE NodeProperties ---------------------------
(***************************************************************************)
(* What the network of RAMSpice processes promises.                        *)
(***************************************************************************)
EXTENDS NodeNetwork

Announcement == [is : {"add_network_node"}, node : Nodes] \cup [is : {"node_release"}]
Message ==
  Announcement
    \cup [is : {"task"}, from : Ports, code : Codes \cup {"leaf"}, handle : Nat, by : Procs]
    \cup [is : {"network_task_done"}, handle : Nat, by : Procs]
Letters == [to : Nodes, msg : Announcement]
States == {"off", "bound", "registered", "serving", "script", "sending", "updating",
           "checking", "resumed", "evaluating", "reporting", "leaving", "gone"}
Joins == [left : 0 .. Items, sent : SUBSET Nat, finished : SUBSET Nat]
Duties == [from : Ports, code : Codes \cup {"leaf", "none"}, handle : Nat, by : Procs]
Tickets == Ports \X Nat

(* The types of the globals of ctree.h:301-321 and of fork_each.             *)
TypeOK ==
  /\ pc \in [Procs -> States]
  /\ port \in [Procs -> Ports]
  /\ opened \subseteq Ports
  /\ backlog \in [Ports -> Seq(Message)]
  /\ loops \in [Procs -> 0 .. 2]
  /\ known \in [Procs -> Seq(Nodes)]
  /\ outbox \in [Procs -> Seq(Letters)]
  /\ handle \in [Procs -> Nat]
  /\ join \in [Procs -> Joins]
  /\ good \in [Procs -> Nat]
  /\ duty \in [Procs -> Duties]
  /\ offered \subseteq Tickets /\ log \in Seq(Tickets)
  /\ returned \subseteq Tickets /\ refused \subseteq Ports
  /\ scripts \subseteq Nodes
  /\ crashes \in 0 .. MaxCrashes

(* The nodes process p has heard of, or is about to hear of from someone.    *)
Rumours(q) == {m \in ElementsOf(backlog[q]) : m.is = "add_network_node"}

(* Nobody ever hears of itself, and no list names a node twice: a task sent  *)
(* to a random node (ctree.c:4735) never goes to its sender, and each node   *)
(* is as likely as the others.                                               *)
KnowsOthers ==
  \A p \in Procs :
    /\ port[p] \notin ElementsOf(known[p])
    /\ \A i, j \in DOMAIN known[p] : known[p][i] = known[p][j] => i = j

(* No handler is sending and no news waits anywhere.                         *)
Quiet ==
  /\ \A p \in Procs : outbox[p] = <<>>
  /\ \A q \in Ports : Rumours(q) = {}

Settled(p) == pc[p] \notin {"off", "bound", "registered", "gone"}

(* "Send all nodes the news" (ctree.c:4618): once the news has gone round,   *)
(* any two nodes know each other, unless a message was lost because its      *)
(* addressee did not listen yet (a node registers before it listens) or is   *)
(* gone.                                                                     *)
NewsSpreads ==
  Quiet /\ refused = {} /\ (\A p \in Nodes : pc[p] # "gone") =>
    \A p, q \in Nodes : Settled(p) /\ Settled(q) /\ p # q => q \in ElementsOf(known[p])

(* A node is released only after it has been told of another one, so >> in   *)
(* its script has somebody to choose (rand()%node_list_size, ctree.c:4735).  *)
(* The exception is a node that began to listen after the list was sent to   *)
(* it and before the release was.                                            *)
ReleasedKnowsSomeone ==
  \A p \in Nodes : pc[p] \in {"script", "sending"} /\ p \notin refused => known[p] # <<>>

InForkEach(p) == pc[p] \in {"sending", "updating", "checking"}

(* fork_each ends, unless a process it may depend on is gone or has left its *)
(* service: nothing is sent again once a node has taken it                   *)
(* (.ramspice.tcl:468), and a second node_release takes a node out of        *)
(* network_wait_loop for good (ctree.c:4647).                                *)
JoinReturns ==
  \A p \in Nodes :
    InForkEach(p) ~> \/ ~InForkEach(p)
                     \/ \E q \in Nodes : pc[q] \in {"leaving", "gone"}
                     \/ crashes > 0

(* A reply is recorded by the process that sent the task: "The forked node   *)
(* has its own identity" (ctree.c:4786).                                     *)
RepliesReachTheirCaller ==
  [][\A q \in Ports :
       (backlog[q] # <<>> /\ backlog'[q] = Tail(backlog[q])
          /\ Head(backlog[q]).is = "network_task_done") =>
         LET m == Head(backlog[q])
         IN  m.handle \in join'[m.by].finished]_vars

(* Tasks run at most once, and fork_each returns only when all have run.     *)
Tasks == INSTANCE ForkJoin
  WITH Task <- Ports \X Nat, offered <- offered, log <- log, returned <- returned
RunsTasksOnce == Tasks!Spec
=============================================================================
