---------------------------- MODULE MCNodeNetwork ----------------------------
(***************************************************************************)
(* Instances of the network for TLC: three beginnings, told apart by the   *)
(* node whose script calls fork_each.                                      *)
(***************************************************************************)
EXTENDS NodeProperties

CONSTANTS n1, n2, n3

MCNodes == {n1, n2, n3}

(* Two processes start with nothing, the base among them at any time; the    *)
(* second node's script sends tasks.  Somebody may crash.                    *)
FreshInit == Init /\ scripts = {n2}
InPair == scripts = {n2} => pc'[n3] = "off"

(* The processes of list's domain have joined, and know the nodes listed.    *)
Serving(list) ==
  /\ port = [p \in Procs |-> IF p \in Kids THEN Base ELSE p]
  /\ known = [p \in Procs |-> IF p \in DOMAIN list THEN list[p] ELSE <<>>]
  /\ opened = DOMAIN list
  /\ outbox = [p \in Procs |-> <<>>]
  /\ handle = [p \in Procs |-> 0]
  /\ join = [p \in Procs |-> NoJoin]
  /\ good = [p \in Procs |-> Untried]
  /\ duty = [p \in Procs |-> NoDuty]
  /\ offered = {} /\ log = <<>> /\ returned = {} /\ refused = {}
  /\ crashes = 0

(* One node has joined; the other two are about to start, and their          *)
(* registrations and lists cross.  Nobody crashes and nobody has a script.   *)
JoinedInit ==
  /\ Serving([p \in {Base, n1} |-> IF p = Base THEN <<n1>> ELSE <<>>])
  /\ pc = [p \in Procs |-> IF p \in Kids THEN "gone" ELSE IF p \in opened THEN "serving" ELSE "off"]
  /\ backlog = [q \in Ports |-> <<>>]
  /\ loops = [p \in Procs |-> IF p \in opened THEN 1 ELSE 0]
  /\ scripts = {}
Faultless == scripts = {} => crashes' = 0

(* Three nodes have joined, and everything they had to tell each other was   *)
(* sent.  The third one is about to run its script, with two more releases   *)
(* waiting for it.  Somebody may crash.                                      *)
Listed == [p \in Ports |-> CASE p = Base -> <<n1, n2, n3>> [] p = n1 -> <<n2, n3>>
                             [] p = n2 -> <<n1, n3>> [] OTHER -> <<n2, n1>>]
SettledInit ==
  /\ Serving(Listed)
  /\ pc = [p \in Procs |-> IF p \in Kids THEN "gone" ELSE IF p = n3 THEN "script" ELSE "serving"]
  /\ backlog = [q \in Ports |->
                  IF q = n3 THEN <<ReleaseMsg, AddMsg(n1), ReleaseMsg>> ELSE <<>>]
  /\ loops = [p \in Procs |-> CASE p \in Kids -> 0 [] p \in {n1, n2} -> 2 [] OTHER -> 1]
  /\ scripts = {n3}

MCSpec ==
  /\ FreshInit \/ JoinedInit \/ SettledInit
  /\ [][Next /\ InPair /\ Faultless]_vars
  /\ Running
TaskSpec == SettledInit /\ [][Next]_vars /\ Running
=============================================================================
