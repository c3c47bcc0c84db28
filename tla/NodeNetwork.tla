---------------------------- MODULE NodeNetwork ----------------------------
(***************************************************************************)
(* The network of RAMSpice processes of Gamma/Data/ctree.c: a base, nodes  *)
(* that register with it and learn of each other, and fork_each            *)
(* (.ramspice.tcl), which sends a task to a random node for each item of   *)
(* a list and waits for the replies.  A task runs in a forked process.     *)
(*                                                                         *)
(* A connection carries one message; those a listening port has not        *)
(* accepted yet are its backlog.  A handler that sends several messages    *)
(* blocks its process until the last one is sent, and other processes run  *)
(* in between.  Addresses are the processes' names: init_ip looks for a    *)
(* free port, so two processes never bind the same one.                    *)
(***************************************************************************)
EXTENDS Naturals, Sequences, FiniteSets

CONSTANTS
  Base,        \* the process started with -base
  Nodes,       \* the processes started with -node
  Kids,        \* bound: the processes that may be forked at the same time
  Items,       \* the length of the list given to fork_each
  Codes,       \* what an item's code does: "leaf", or "nested" (fork_each again)
  MaxCrashes   \* bound: processes that crash

ASSUME NetworkAssumption ==
  /\ Base \notin Nodes \cup Kids
  /\ Nodes \cap Kids = {}
  /\ IsFiniteSet(Nodes)
  /\ Items \in Nat
  /\ Codes \subseteq {"leaf", "nested"}
  /\ MaxCrashes \in Nat

Ports == Nodes \cup {Base}
Procs == Ports \cup Kids

AddMsg(n) == [is |-> "add_network_node", node |-> n]
ReleaseMsg == [is |-> "node_release"]
TaskMsg(q, c, h, p) == [is |-> "task", from |-> q, code |-> c, handle |-> h, by |-> p]
DoneMsg(h, p) == [is |-> "network_task_done", handle |-> h, by |-> p]

Letter(d, m) == [to |-> d, msg |-> m]
NoDuty == [from |-> Base, code |-> "none", handle |-> 0, by |-> Base]
NoJoin == [left |-> 0, sent |-> {}, finished |-> {}]
Untried == Cardinality(Nodes) + 1

VARIABLES
  pc,         \* where each process is
  port,       \* my_port: a forked process keeps the one it was forked with
  opened,     \* the ports whose owner has called listen
  backlog,    \* the messages waiting at each port
  loops,      \* how many times a process entered network_wait_loop
  known,      \* network_node_root: the list of nodes a process knows
  outbox,     \* what the handler of add_network_node has still to send
  handle,     \* network_task_handle
  join,       \* fork_each: items left, handles sent, ::finished_tasks
  good,       \* good_nodes_count of the send being tried, or Untried
  duty,       \* what a forked process evaluates, and for whom
  scripts,    \* the nodes started with a script that calls fork_each
  offered,    \* history: tasks a node has received, by caller's port and handle
  log,        \* history: tasks evaluated, in order
  returned,   \* history: tasks some fork_each has waited for to the end
  refused,    \* history: ports to which a message was lost
  crashes     \* how many processes crashed

procVars == <<pc, port, opened, loops, known, outbox, handle, join, good, duty>>
histVars == <<scripts, offered, log, returned, refused, crashes>>
vars == <<procVars, backlog, histVars>>

Init ==
  /\ pc = [p \in Procs |-> IF p \in Kids THEN "gone" ELSE "off"]
  /\ port = [p \in Procs |-> IF p \in Kids THEN Base ELSE p]
  /\ opened = {}
  /\ backlog = [q \in Ports |-> <<>>]
  /\ loops = [p \in Procs |-> 0]
  /\ known = [p \in Procs |-> <<>>]
  /\ outbox = [p \in Procs |-> <<>>]
  /\ handle = [p \in Procs |-> 0]
  /\ join = [p \in Procs |-> NoJoin]
  /\ good = [p \in Procs |-> Untried]
  /\ duty = [p \in Procs |-> NoDuty]
  /\ scripts \in SUBSET Nodes
  /\ offered = {} /\ log = <<>> /\ returned = {} /\ refused = {}
  /\ crashes = 0

-----------------------------------------------------------------------------
(* Ports and connections.                                                    *)

ElementsOf(s) == {s[i] : i \in DOMAIN s}

Alive(p) == pc[p] \notin {"off", "gone"}
Holders(q) == {p \in Procs : port[p] = q /\ Alive(p)}

(* A listening socket takes connections as long as one process holds it:     *)
(* a forked process inherits it, and closing it is commented out.            *)
Listening(q) == q \in opened /\ Holders(q) # {}

(* connect and write: the message joins the backlog, or is lost.             *)
Deliver(q, m) ==
  /\ backlog' = IF Listening(q) THEN [backlog EXCEPT ![q] = Append(@, m)] ELSE backlog
  /\ refused' = IF Listening(q) THEN refused ELSE refused \cup {q}

Goes(p, where) == pc' = [pc EXCEPT ![p] = where]

(* A process is gone with its memory; with the last holder of a socket go    *)
(* the connections the socket kept.                                          *)
Dies(p) ==
  /\ Goes(p, "gone")
  /\ known' = [known EXCEPT ![p] = <<>>]
  /\ outbox' = [outbox EXCEPT ![p] = <<>>]
  /\ handle' = [handle EXCEPT ![p] = 0]
  /\ join' = [join EXCEPT ![p] = NoJoin]
  /\ good' = [good EXCEPT ![p] = Untried]
  /\ duty' = [duty EXCEPT ![p] = NoDuty]
  /\ loops' = [loops EXCEPT ![p] = 0]
  /\ backlog' = IF Holders(port[p]) = {p}
                THEN [backlog EXCEPT ![port[p]] = <<>>] ELSE backlog
  /\ UNCHANGED <<port, opened>>

(* A process is about to accept: its handler has sent all it had to.         *)
Accepting(p) == pc[p] \in {"serving", "updating"} /\ outbox[p] = <<>>
Waiting(p) == backlog[port[p]] # <<>>
Next1(p) == Head(backlog[port[p]])
Taken(p) == [backlog EXCEPT ![port[p]] = Tail(@)]

(* network_update accepts one message and returns to fork_each, which looks  *)
(* whether all tasks have finished; network_wait_loop accepts the next one.  *)
Handled(p) == IF pc[p] = "updating" THEN "checking" ELSE "serving"

-----------------------------------------------------------------------------
(* Starting: execute_main_commands with -base and with -node.                *)

StartBase ==
  /\ pc[Base] = "off"
  /\ Goes(Base, "serving")
  /\ opened' = opened \cup {Base}
  /\ loops' = [loops EXCEPT ![Base] = 1]
  /\ UNCHANGED <<port, backlog, known, outbox, handle, join, good, duty, histVars>>

(* set_base_ip and init_ip: the port is bound, and nobody listens yet.       *)
StartNode(p) ==
  /\ pc[p] = "off"
  /\ Goes(p, "bound")
  /\ UNCHANGED <<port, opened, loops, known, outbox, handle, join, good, duty,
                 backlog, histVars>>

(* send_task_to_base("add_network_node ..."), whose result is not looked at. *)
Register(p) ==
  /\ pc[p] = "bound"
  /\ Deliver(Base, AddMsg(p))
  /\ Goes(p, "registered")
  /\ UNCHANGED <<port, opened, loops, known, outbox, handle, join, good, duty,
                 scripts, offered, log, returned, crashes>>

(* network_wait_loop up to its loop, for the first time and after a script.  *)
Listen(p) ==
  /\ pc[p] \in {"registered", "resumed"}
  /\ Goes(p, "serving")
  /\ opened' = opened \cup {port[p]}
  /\ loops' = [loops EXCEPT ![p] = @ + 1]
  /\ UNCHANGED <<port, known, outbox, handle, join, good, duty, backlog, histVars>>

-----------------------------------------------------------------------------
(* add_network_node, node_release.                                           *)

\* Mutant: the news goes to the newcomer as well.
AnnouncesToAll(list, n) ==
  LET all == Append(list, n)
      news == [i \in DOMAIN all |-> Letter(all[i], AddMsg(n))]
      members == [i \in DOMAIN list |-> Letter(n, AddMsg(list[i]))]
  IN  news \o members \o <<Letter(n, ReleaseMsg)>>

\* Mutant: the newcomer is released before it is told of the others.
AnnouncesReleaseFirst(list, n) ==
  LET news == [i \in DOMAIN list |-> Letter(list[i], AddMsg(n))]
      members == [i \in DOMAIN list |-> Letter(n, AddMsg(list[i]))]
  IN  <<Letter(n, ReleaseMsg)>> \o news \o members

\* Mutant: the newcomer is not told of the others.
AnnouncesOneWay(list, n) ==
  [i \in DOMAIN list |-> Letter(list[i], AddMsg(n))] \o <<Letter(n, ReleaseMsg)>>

(* What a process sends when it adds n, the last of its list, to others:     *)
(* the news to each of them, each of them to the news, and the release.      *)
Announces(list, n) ==
  LET news == [i \in DOMAIN list |-> Letter(list[i], AddMsg(n))]
      members == [i \in DOMAIN list |-> Letter(n, AddMsg(list[i]))]
  IN  news \o members \o <<Letter(n, ReleaseMsg)>>

(* A node already known is ignored, the first of the list is not announced.  *)
Hear(p) ==
  /\ Accepting(p) /\ Waiting(p) /\ Next1(p).is = "add_network_node"
  /\ LET n == Next1(p).node
         new == n \notin ElementsOf(known[p])
     IN  /\ known' = IF new THEN [known EXCEPT ![p] = Append(@, n)] ELSE known
         /\ outbox' = IF new /\ known[p] # <<>>
                      THEN [outbox EXCEPT ![p] = Announces(known[p], n)]
                      ELSE outbox
  /\ Goes(p, Handled(p))
  /\ backlog' = Taken(p)
  /\ UNCHANGED <<port, opened, loops, handle, join, good, duty, histVars>>

(* tcp_send_no_fork: the next message of a handler; a failure is not seen.   *)
SendLetter(p) ==
  /\ Alive(p) /\ outbox[p] # <<>>
  /\ Deliver(Head(outbox[p]).to, Head(outbox[p]).msg)
  /\ outbox' = [outbox EXCEPT ![p] = Tail(@)]
  /\ UNCHANGED <<pc, port, opened, loops, known, handle, join, good, duty,
                 scripts, offered, log, returned, crashes>>

(* network_loop=0 takes a node out of network_wait_loop: to its scripts the  *)
(* first time, to the end of main the second.  The base ignores it, and so   *)
(* does fork_each, which is in no loop.                                      *)
Released(p) ==
  /\ Accepting(p) /\ Waiting(p) /\ Next1(p).is = "node_release"
  /\ Goes(p, IF p = Base \/ pc[p] = "updating" THEN Handled(p)
             ELSE IF loops[p] = 1 THEN "script" ELSE "leaving")
  /\ backlog' = Taken(p)
  /\ UNCHANGED <<port, opened, loops, known, outbox, handle, join, good, duty, histVars>>

(* The end of main, once standard input has been read to its end, or of a    *)
(* task.                                                                     *)
Exit(p) ==
  /\ pc[p] = "leaving"
  /\ Dies(p)
  /\ UNCHANGED histVars

-----------------------------------------------------------------------------
(* fork_each and send_task_to_node (the command >>).                         *)

ForkEach == [left |-> Items, sent |-> {}, finished |-> {}]

\* Mutant: the loop over the list goes on for one item too many.
AfterSendingOneMore(left) == IF left < 0 THEN "updating" ELSE "sending"

AfterSending(left) == IF left = 0 THEN "updating" ELSE "sending"

(* A released node runs its script, if it has one, and serves again.         *)
RunScript(p) ==
  /\ pc[p] = "script"
  /\ IF p \in scripts
     THEN /\ Goes(p, AfterSending(Items))
          /\ join' = [join EXCEPT ![p] = ForkEach]
     ELSE Goes(p, "resumed") /\ UNCHANGED join
  /\ UNCHANGED <<port, opened, loops, known, outbox, handle, good, duty,
                 backlog, histVars>>

(* What follows fork_each, whether it returned or failed: the end of the     *)
(* task for a forked process, network_wait_loop for a node.                  *)
AfterJoin(p) == IF p \in Kids THEN "reporting" ELSE "resumed"
Evaluated(p) == IF p \in Kids THEN Append(log, <<duty[p].from, duty[p].handle>>) ELSE log

(* rand()%node_list_size with an empty list: the process is killed.          *)
SendToNobody(p) ==
  /\ pc[p] = "sending" /\ known[p] = <<>>
  /\ Dies(p)
  /\ UNCHANGED histVars

(* The handle and the number of nodes left to try, at this attempt.          *)
HandleNow(p) == IF good[p] = Untried THEN handle[p] + 1 ELSE handle[p]
GoodNow(p) == IF good[p] = Untried THEN Len(known[p]) ELSE good[p]

(* An attempt that a node takes.  It counts as a failure when no good node   *)
(* is left, although the task was sent.                                      *)
Sent(p, d, c) ==
  /\ pc[p] = "sending" /\ d \in ElementsOf(known[p]) /\ Listening(d)
  /\ LET h == HandleNow(p)
         ok == GoodNow(p) > 0
     IN  /\ Deliver(d, TaskMsg(port[p], c, h, p))
         /\ offered' = offered \cup {<<port[p], h>>}
         /\ handle' = [handle EXCEPT ![p] = IF ok THEN h + 1 ELSE h]
         /\ join' = [join EXCEPT ![p].left = @ - 1,
                                 ![p].sent = IF ok THEN @ \cup {h} ELSE @]
         /\ Goes(p, IF ok THEN AfterSending(join[p].left - 1) ELSE AfterJoin(p))
         /\ log' = IF ok THEN log ELSE Evaluated(p)
  /\ good' = [good EXCEPT ![p] = Untried]
  /\ UNCHANGED <<port, opened, loops, known, outbox, duty, scripts, returned, crashes>>

(* An attempt that is refused: another node, or the end of fork_each.        *)
Refused(p, d) ==
  /\ pc[p] = "sending" /\ d \in ElementsOf(known[p]) /\ ~Listening(d)
  /\ handle' = [handle EXCEPT ![p] = HandleNow(p)]
  /\ IF GoodNow(p) > 0
     THEN good' = [good EXCEPT ![p] = GoodNow(p) - 1] /\ UNCHANGED <<pc, log>>
     ELSE /\ good' = [good EXCEPT ![p] = Untried]
          /\ Goes(p, AfterJoin(p))
          /\ log' = Evaluated(p)
  /\ UNCHANGED <<port, opened, loops, known, outbox, join, duty, backlog,
                 scripts, offered, returned, refused, crashes>>

(* network_task_done of .ramspice.tcl, which replaces the C command.         *)
TaskDone(p) ==
  /\ Accepting(p) /\ Waiting(p) /\ Next1(p).is = "network_task_done"
  /\ join' = [join EXCEPT ![p].finished = @ \cup {Next1(p).handle}]
  /\ Goes(p, Handled(p))
  /\ backlog' = Taken(p)
  /\ UNCHANGED <<port, opened, loops, known, outbox, handle, good, duty, histVars>>

\* Mutant: one finished task is enough.
FinishedAny(p) == join[p].sent \cap join[p].finished # {} \/ join[p].sent = {}

(* Every handle of sent_tasks is in ::finished_tasks.                        *)
Finished(p) == join[p].sent \subseteq join[p].finished

(* After each network_update, fork_each looks whether all have finished.     *)
CheckFinished(p) ==
  /\ pc[p] = "checking" /\ outbox[p] = <<>>
  /\ IF Finished(p)
     THEN /\ Goes(p, AfterJoin(p))
          /\ returned' = returned \cup {<<port[p], h>> : h \in join[p].sent}
          /\ log' = Evaluated(p)
     ELSE Goes(p, "updating") /\ UNCHANGED <<returned, log>>
  /\ UNCHANGED <<port, opened, loops, known, outbox, handle, join, good, duty,
                 backlog, scripts, offered, refused, crashes>>

-----------------------------------------------------------------------------
(* eval_task_from_node (the command %), in a forked process.                 *)

(* The child has its parent's memory, port and listening socket.             *)
Fork(p) ==
  /\ Accepting(p) /\ Waiting(p) /\ Next1(p).is = "task"
  /\ \E k \in Kids : pc[k] = "gone"
  /\ LET k == CHOOSE k \in Kids : pc[k] = "gone"
         m == Next1(p)
     IN  /\ pc' = [pc EXCEPT ![p] = Handled(p), ![k] = "evaluating"]
         /\ port' = [port EXCEPT ![k] = port[p]]
         /\ known' = [known EXCEPT ![k] = known[p]]
         /\ handle' = [handle EXCEPT ![k] = handle[p]]
         /\ duty' = [duty EXCEPT ![k] = [from |-> m.from, code |-> m.code,
                                         handle |-> m.handle, by |-> m.by]]
  /\ backlog' = Taken(p)
  /\ UNCHANGED <<opened, loops, outbox, join, good, histVars>>

(* Tcl_Eval of the code: it does its work, or calls fork_each in turn.       *)
Evaluate(k) ==
  /\ pc[k] = "evaluating"
  /\ IF duty[k].code = "leaf"
     THEN Goes(k, "reporting") /\ log' = Evaluated(k) /\ UNCHANGED join
     ELSE /\ Goes(k, AfterSending(Items))
          /\ join' = [join EXCEPT ![k] = ForkEach]
          /\ UNCHANGED log
  /\ UNCHANGED <<port, opened, loops, known, outbox, handle, good, duty, backlog,
                 scripts, offered, returned, refused, crashes>>

\* Mutant: a task that has ended is not reported.
ReportForgotten(k) ==
  /\ pc[k] = "reporting"
  /\ Goes(k, "leaving")
  /\ UNCHANGED <<port, opened, loops, known, outbox, handle, join, good, duty,
                 backlog, histVars>>

(* send_task_to_base("network_task_done ..."), then exit.                    *)
Report(k) ==
  /\ pc[k] = "reporting"
  /\ Deliver(duty[k].from, DoneMsg(duty[k].handle, duty[k].by))
  /\ Goes(k, "leaving")
  /\ UNCHANGED <<port, opened, loops, known, outbox, handle, join, good, duty,
                 scripts, offered, log, returned, crashes>>

-----------------------------------------------------------------------------
(* A node or a task is killed.                                               *)
Crash(p) ==
  /\ Alive(p) /\ crashes < MaxCrashes
  /\ Dies(p)
  /\ crashes' = crashes + 1
  /\ UNCHANGED <<scripts, offered, log, returned, refused>>

CodesOf(p) == IF p \in Kids THEN {"leaf"} ELSE Codes

(* What a running process does by itself: all but the end of a node, which   *)
(* waits for the end of its standard input.                                  *)
Step(p) ==
  \/ Register(p) \/ Listen(p) \/ Hear(p) \/ SendLetter(p) \/ Released(p)
  \/ (p \in Kids /\ Exit(p))
  \/ RunScript(p) \/ SendToNobody(p)
  \/ \E d \in Nodes, c \in CodesOf(p) : Sent(p, d, c)
  \/ \E d \in Nodes : Refused(p, d)
  \/ TaskDone(p) \/ CheckFinished(p) \/ Fork(p) \/ Evaluate(p) \/ Report(p)

Next ==
  \/ StartBase
  \/ \E p \in Nodes : StartNode(p) \/ Exit(p)
  \/ \E p \in Procs : Step(p)
  \/ \E p \in Nodes \cup Kids : Crash(p)

Spec == Init /\ [][Next]_vars

(* Every process runs on: its loops wait for nothing but messages.           *)
Running == \A p \in Procs : WF_vars(Step(p))
FairSpec == Spec /\ Running
=============================================================================
