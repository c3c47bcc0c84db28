------------------------- MODULE MachineProperties --------------------------
(***************************************************************************)
(* What the Gamma virtual machine promises, whoever wrote its batch.       *)
(***************************************************************************)
EXTENDS GammaVM

(* The machine is in a call.                                                 *)
InCall == gi + 1 < GosubSize

(* The cells of the gosub stack that hold a return address, when in use.     *)
Paired(k) == (GosubSize - 1 - k) % 2 = 0
Frames == {k \in gi + 2 .. GosubSize - 1 : Paired(k)}

(* The types of the machine of virtual_machine.h: a stack that holds cells,  *)
(* a gosub stack that grows two cells at a time.                             *)
TypeOK ==
  /\ pc \in Int /\ si \in Int /\ args \in Int
  /\ running \in BOOLEAN /\ skip \in BOOLEAN /\ undefined \in BOOLEAN
  /\ gosub \in [0 .. GosubSize - 1 -> Int]
  /\ gi \in -1 .. GosubSize - 1 /\ Paired(gi)
  /\ stack \in [Cells -> [kind : {"F", "I"}, n : Int \cup {NaN}]]
  /\ value \in [Vars -> Int \cup {NaN}]

(* A machine that is not running is ready for the next ..push and ..run: no  *)
(* call, no pending skip and no arguments are left of the last run, however  *)
(* it ended (GammaVirtualMachineReset, virtual_machine.c:8).                 *)
IdleIsReady ==
  ~running => gi = GosubSize - 1 /\ args = StackSize - 1 /\ ~skip

(* Every frame of the gosub stack was left by a GoSub, and the arguments of  *)
(* a call lie below those of its caller (Gamma.c:34).                        *)
FramesNest ==
  prog.compiled =>
    /\ \A k \in Frames :
         /\ gosub[k] \in Positions
         /\ Batch(gosub[k]).is = "GoSub"
         /\ gosub[k - 1] >= IF k - 2 >= gi + 2 THEN gosub[k - 3] ELSE args
    /\ args >= si

(* A function about to return leaves one number above its arguments, so the  *)
(* call costs its caller exactly one cell (Gamma.c:52).                      *)
CallLeavesOneNumber ==
  prog.compiled /\ running /\ At("Return") /\ InCall => si = args - 1
=============================================================================
