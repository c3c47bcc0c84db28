# A verification development of RAMSpice

RAMSpice keeps tables of sized circuits, evaluates circuit formulas quickly
enough to search for better ones, and spreads the search over processes and
machines. This directory models the mechanisms that carry this: the
Pareto-associative table, the Gamma virtual machine with its assembler, the
network of processes behind `fork_each`, the batch queue of the web front end,
and the context tree.  TLC checks each on small instances; TLAPS proves
nearly all of their safety for every value of their constants.

## 1. Inventory

| Component | State | Operations | Talks to | Hard part | Correct when |
|---|---|---|---|---|---|
| Pareto-associative table (`Gamma/Data/ctree.c`) | vector of entry pointers, id counter, flags per entry | `<<<`, `add_pat_array`, `force_pat_array`, `PAT delete/unique/stars/graph`, `>>>` (query, `undo`, `reset`) | breeding code and web pages, by direct calls | deleting by swap inside loops over the vector; NaN in comparisons; 32 flag bits as a stack | the table keeps the front of what was offered, and each query shows the front of what it asks for |
| Gamma virtual machine (`Gamma/virtual_machine.c`, `Gamma/Gamma.c`, generated through `virtual_machine.tcl`) | batch, counter, stack, gosub stack, argument base, skip flag | one function per command; `..run`, `..reset`, `..push` | context tree, through pointers | skip set by one command and taken by another; unchecked stacks; state left by a run | runs mean what was compiled, end, and leave the machine ready |
| Gamma assembler (`Gamma/.Gamma.tcl`) | batch being written, labels, jumps to link, parameter numbers | `.function`, `.procedure`, `.let`, `.if`, `.while`, `.for`, `LinkGamma` | virtual machine, through `GammaCommand*` | forward jumps, nested constructs, order of operands and arguments | every jump is linked; batch and source agree |
| Network base and nodes (`ctree.c:4380-4850`, `fork_each` of `.ramspice.tcl`) | list of nodes, port, task handle, forked children, finished tasks | `-base`, `-node`, `add_network_node`, `node_release`, `>>`, `eval_task_from_node`, `network_task_done` | processes, one message per connection | blocking sends inside handlers; retries; a forked process that shares its parent's port | lists agree, a task runs once, `fork_each` returns when all have run |
| Netbatch and web front end (`netbatch` of `.ramspice.tcl`, `Gamma/Web`) | ping, request, active and kill files; session and data files | client, serving loop, job process, kill | a shared directory | processes racing on files, crashes between renames, whole-file rewrites | a request runs once, a running job is listed, a killed job ends |
| Context tree (`ctree.c`) | contexts with slots of children, current context | create, `delete`, `cd`, `save`, `load` | everything | `#n` is a slot number, deletion moves slots, pointers stay behind | no context is lost or shared, the current one stands, a saved tree comes back |
| Breeding loops (`Gamma/starC`) | sweep index and size, table | perturb, simulate, insert, `unique` | the table | the sweep outlives changes of the vector | the sweep reads stored entries and ends |
| Polynomials and HIT byte code (`ctree.c:3204-3311, 5113-5538`) | byte code, registers | evaluate, derive, Newton root | context tree | termination of the root loop | numeric |
| Look-up tables, circuit compilers, ngspice, BSIM | | | | floating-point kernels and text rewriting | out of reach |

`PROJECT.json` lists the hazards at their lines.

## 2. Plan

Done, in this order: `ParetoOrder`, `ParetoTable`, `DominatedRegion` and their
proofs; `GammaVM`, `GammaAssembler` and the machine's proofs; `NodeNetwork`,
`ForkJoin` and proofs; `Netbatch`, `JobLife` and proofs; `ContextTree` and
proofs; the loops of the table (`stars`, queries, `undo`) proved as well; the
assembler as a machine, and the proof that it links every jump.

Left: `limit()` in expressions and procedures with parameters in the assembler;
the web pages that rewrite whole files (`GammaCGI.tcl`, `optimize.tcl`,
`gamma_jobs.tcl`); the breeding loop composed with `ParetoTable`; the control of
the HIT interpreter; a proof that every assembled batch has a plan (section 4),
which the run finds for each source it assembles: each item to be done would get
the mark at which its first command is written, every command of the source 0 in
the main code, for sources whose conditions are single comparisons.

Each component has a module for its state and actions, one for its properties
(and, where stated, an abstract specification), one for its TLC instances
(`MC...`) and one for its proofs. Modules that are proved about declare no
recursive operator: a loop of the code is a function defined by recursion on its
counter.

The proofs reason about such functions without an induction rule, which would
take a predicate as a parameter. `Induction` states what is needed about sets: a
set of naturals has a least element (from the library's well-founded induction),
a set with 0 that is closed under successor has all naturals, and a function
defined by recursion exists and obeys its equation (`Recursion`). An invariant
of a loop is then the set of counts at which it holds.

## 3. The Pareto-associative table

**Modules.**  `ParetoOrder` is the comparison of two property records;
`ParetoTable` the table and its commands; `ParetoProperties` what must hold;
`DominatedRegion` the abstract specification; `MCParetoTable` the instances;
`ParetoProofs` and `TrimProofs` the theorems.

**State.**  `content` and `numOf` are `p->content->content` and
`p->content->num_of`; slots from `numOf` on keep stale pointers, as in C.
`idCounter` is `id_counter`.  An entry is named by its `id`, which stands for
its pointer: ids come from the counter and entries are never freed.  `entry`
gives its flags and its properties, *after* the sign change for "less is
better"; its sizes are only counted and are left out.  `op` is the command in
progress with its loop variables.  `forced`, `before`, `trail` and `lost` are
histories used by properties only.

**Actions.**  The loops that delete while they walk are one iteration a step:
`BeginAdd`, then `Reject`, `DropBeaten`, `Keep`, finally `Store`; `BeginUnique`,
`DropTwin`, `KeepPair`, `NextRow`, `EndTrim`; `BeginStars`, `KeepStar`,
`DropOther`, `EndTrim`.  `Delete`, `ForceArray`, `Query`, `Undo`, `Reset` and
`Graph` are one step.  Lists of the wrong length are calls of their own:
`RefuseSizes` answers -2, `ExitOnProperties` and `ExitOnThresholds` end the
process (`Gone`).  The program is sequential, so the steps of two commands
never interleave; what these loops risk is their own deletions.  `Query`
evaluates the double loop of `pat_front` as the recursive function `FrontOf`,
row by row in the code's order.  `>>` and `<<` are arithmetic on flags of fixed
width.

**Abstractions.**  Properties are integers (the code compares them and adds
margins, nothing else); a number may be missing.  The interval of `unique` is a
division: `Apart` compares the product instead, and a NaN in slot 0 makes the
interval a NaN, as in the code.  `unique` and `stars` read slot 0 without asking
for the size: on a table emptied again that is a stale pointer, which the model
reads; on a table never filled it is uninitialised memory, and the commands are
not issued.

**Runs.**

* `pareto_store` (passes): two properties, one of them "less is better", one
  with a margin; six offers, complete and partial; up to three circuits created.
  Three is enough for each loop to delete the slot it is at, receive the last
  entry in it, and meet that entry again.  Invariants: `TypeOK`;
  `SlotsDistinct`, no entry in two slots; `NewcomersImprove` and
  `BeatenAreGone`, the two halves of "the table is a front", from the newer
  entry's side.  Step properties: `AnswerDesignates`, an answer of 0 or more
  names the slot of a circuit at least as good as the one offered, after the
  deletions of its own call, and -1 and -2 store nothing; `UniqueLeavesNoTwins`,
  `UniqueKeepsTwin`, `StarsKeepBest`; and `Promise`, the refinement of
  `DominatedRegion`: whatever insertion does, the table reaches exactly the
  specifications that some offered circuit reached, until it is trimmed.
* `pareto_query` (passes): flags of three bits instead of 32 and a shortlist of
  two instead of 1000, so that cutting the shortlist and losing a bit happen: a
  fourth nested query, an undo under three and a `graph` under two all lose one
  here.  `MaxWork` bounds circuits created and queries in force together.
  `QueryShowsUnmatched` compares the loop's answer
  with a definition that has no order; `QueryNarrows`, `UndoRestores` and
  `LosesOnlyWhenDeep` are about the stack of bits.
* `pareto_partial` (violation): a comment says an entry cannot be dominated by
  one that misses a property it has; the branch below it is unreachable.
* `pareto_ties` (violation): circuits equal beyond the thresholds hide each
  other, so a front of complete circuits can be empty.

`StarsKeepBest` holds under a condition the code does not check: slot 0 holds
the entry with id 0 when `stars` begins (the record of the best entry starts at
0).

**Proofs** (`ParetoProofs`, any properties, margins, records and bounds).
`BeatenAreGone` is not inductive: in the middle of an insertion, the entries
already passed must not be beaten by the circuit being inserted.  `IInv` adds
`ScanInv`, which says what the loop knows of the slots before `op.i`, and
`SlotsDistinct`, without which a deletion could remove one of two copies. The
key lemmas are about the comparison: it is transitive with missing numbers, and
`Dominated` is exactly "at most" in `AtMost`.  `Inductive` gives `[]IInv`;
`TypeCorrect`, `NeverTwice`, `AlwaysImproves`, `AlwaysPruned` follow.
`AnswersAreRight` proves the step property (`TrimInv` tells an insertion that
ends from a trimming loop that ends), `KeepsPromise` the refinement, by
showing that a deletion inside an insertion leaves the reached region unchanged
because the inserted circuit, which counts as reached while the insertion runs,
covers the deleted one.  The assumptions are `OrderAssumption` and
`TableAssumption`; TLC evaluates them in every run.

`TrimProofs` adds the commands that narrow a table.  For `unique`, `UniqueInv`
says what its two loops know: rows before `op.i` have no close circuit in any
later slot, row `op.i` none in the slots compared so far, and every circuit
stored when the command began is still stored or has a close one in a slot up to
`op.i`. The last part is why closeness need not be transitive: a circuit is
deleted only for the row the loop is at, and later deletions are all in later
slots. `UniqueSeparates` and `UniqueRepresents` follow.  For `stars`, `StarsInv`
says that for each property one of the best circuits is still stored and is one
of those to keep, when slot 0 held entry 0 and every record was complete;
`StarsSurvive` follows.  `QueriesNest` is `QueryNarrows` for flags of any width.

The rest of `TrimProofs` is about the answer of a query and the stack of bits in
the flags.
`ShowsUnmatched` is the hardest: a row of `pat_front` skips slots that earlier
rows have hidden, so what the loop hides depends on the order of the vector, and
yet the answer has to be the one that asks about all contenders at once.
`RowsInv` says what the rows done so far know: a hidden contender is matched by
another, what a hidden one matches is hidden, and so is whatever matches, or is
matched by, a slot whose row is done.  It rests on the comparison being
transitive.
`FlagsAreShallow` bounds every flag by 2 to the number of queries in force, from
which `LosesWhenDeep` follows.  `UndoIsExact` is not inductive in terms of the
flags of now: undoing several queries needs what each of them saw.  `TrailInv`
therefore says that *there are* flags for each query in force (`Traced`), each
the one below with one bit more, that agree with the history: what a query saw
is what had no bit set, and what was inserted later has none at that level.
Undo drops the last of them, and inserting or deleting leaves the rest alone.

`TableAssumption` asks for finitely many properties (a record is an array), for
a width of flags of at least two bits, and for thresholds that are numbers,
missing or `inf`.  Every property of the two passing runs is proved.

## 4. The Gamma virtual machine and its assembler

**Modules.**  `GammaVM` is the machine, with one action per command (commands
that differ only in their operator share one); `MachineProperties` what it
promises whoever wrote its batch; `GammaDepths` says which batches keep the
stack in order, and `GammaProofs` proves the promise for them.  `GammaAssembler`
turns sources into batches; `GammaAssembly` says what a source is and which
programs came out of the assembler, `AssemblerProofs` that their jumps are
linked.  `GammaProperties` holds a reference semantics of sources (`Eval`,
`Truth`, `Exec`) that knows no machine, and relates the machine to it;
`MCGammaVM` holds the programs and `MCGammaRun` their plans.

**State.**  `pc`, `si`, `gi`, `args`, `skip` are the global variables of
`virtual_machine.h`; both stacks grow downwards.  A cell is a C union: a
comparison leaves an integer 0 or 1, and a command that reads it as a number
sees zero or the smallest positive number.  `undefined` records an access
outside a stack or a fetch from something that is not a command; C gives it no
meaning and the model stops there.  `value` holds the numbers of the context
tree.

**Actions.**  `Fetched`, `Runnable` and `SkipOver` are the prologue that
`GammaCommand` generates: every command clears the skip flag and the ones
declared as operators run even when they should be skipped.  `TclReset`,
`TclPush` and `TclRun` are the Tcl commands, allowed between runs only, because
`..run` does not return before the run ends.  The exception would be the machine
command `Tcl`, which evaluates a script in the middle of a run: a script can do
anything, down to resetting the machine that runs it, so a batch with one is
outside the model (the one in the repository prints, `Sizer/deamon_gvm.tcl:647`).

**Assembler.**  `Begin` is a fresh process.  `..init` empties the batch and
resets the machine, but the labels, the pending jumps and the condition counter
are Tcl variables that it leaves as they are.  Every script of the repository
calls `..init` once, at its top, so one assembly per process is what is
modelled; the properties say nothing of a second one.  The Tcl procedures call one another through `uplevel`.  Their
stack of calls is written out as a list of items still to be done (`todo`):
`Assemble` takes the first item, and one that has parts, a command of the source
or an expression, puts them in front of the rest.  The other parts of the state
are the batch, the labels, the jumps on record for `LinkGamma`, the condition
counter and the positions of the functions.  No recursive operator is needed, so
the assembler can be proved about; `MCGammaVM` repeats `Assemble` until nothing
is left, and `AssemblyAssumption` checks the states it went through.
Expressions are trees; the splitting of text is left out, its
order is kept: right operand first, last argument first, and the optimizer's
special cases.  Jumps to unknown labels get -1 and are linked by `LinkAll` where
`LinkGamma` is called.  `.property`, `.calculate`, polynomials (expressions over
32 characters) and procedures with parameters are left out.

**Runs.**

* `gamma_run` (passes): three assembled sources (nested calls with every special
  case of the optimizer, a loop around a choice, choices of several arms around
  a loop) and three hand-written batches, each from every input of two variables
  in -2..2 or a missing number, run twice.  Two runs show what the first leaves
  to the second.  The stack has 12 cells and the gosub stack 6: more than these
  programs need, and small enough that a leak would run out. `IdleIsReady`,
  `FramesNest`, `CallLeavesOneNumber`, `JumpsLinked`, `CompiledMeansSource` (the
  context tree after a run is what the source says) and `RunsEnd`.  The run also
  evaluates `DepthAssumption`: each assembled batch has a plan.
* `gamma_joined`, `gamma_arguments`, `gamma_restart` (violations): `&&` and `||`
  conditions, functions of two parameters, and a start at position 0 after
  `Stop`.  These are the three cases the programs of `gamma_run` avoid.

Deadlock is not checked in these runs: a machine that has made `MaxRuns` runs,
or is undefined, stops.

**Fairness.**  `FairSpec` adds weak fairness of `Step`: `GammaVirtualMachineRun`
is a loop that calls the next command as long as `Running` is set, and nothing
else runs meanwhile.  Nothing is assumed of the Tcl commands.

**Proofs** (`GammaProofs`, any batches, stack sizes and numbers).  `TypeCorrect`
and `ReadyAgain` need only `BatchAssumption`, that operands have the types their
commands read.  The frame discipline is not true of every batch: nothing in the
machine stops a function from popping its caller's cells.  What makes it true is
the shape of the batch, and `GammaDepths` states it the way byte-code verifiers
do. A plan gives each reachable command the code it belongs to (main, or a
function by its position) and how many cells of its frame it finds; `Balanced`
asks that each command has the cells it takes and that the plan agrees along
every jump, skip, call and return.  In a function the number is exact.  In main
code it is a lower bound, because a condition leaves its truth value on the
stack (`.Gamma.tcl:122`) and loops pile them up.  `DepthAssumption` says that
the programs in `DOMAIN Plans` are balanced.

`IInv` then adds to the types that every level of the gosub stack has the cells
the plan of its command expects, that each return address is a planned `GoSub`,
and that a pending skip leads to a planned command as well.  That last part is
needed because the skip flag is set by one command and taken by the next one:
without it the invariant is lost between the two.  `CallsNest`, `OneNumberEach`
and `OwnCells` (no command takes cells from below its frame) follow for every
planned program, however deep its calls nest.

**Proofs** (`AssemblerProofs`, any source).  A source is any tree of commands and
expressions whose parts are again in `Statements` and `Expressions`
(`SourceAssumption`), and a compiled program is the last state of an assembly
that began with its source (`AssemblyAssumption`).  `EveryJumpLinked` is
`JumpsLinked`.  The difficulty is that a jump is linked by a construct that may
enclose the one that wrote it: the arms of an `.if` jump to a label that the
`.if` sets after all of them, an arm in a `.while` is linked twice, and between
the two a batch holds -1.  The invariant `Linking` looks ahead in what is still
to be done.  A label is *settled* if its own item is still to come and a link
after it, or if it is set and a link is to come.  Every pending jump that still
holds -1, and every jump item still to be done, has a settled label
(`PendingSettled`, `Served`); every label and function leads to a command, or to
the end of the batch as long as a command is still to be written there (`Lands`,
`EndsWell`).  Each item keeps the invariant (`AssembleKeeps`), and with nothing
left to do there is no settled label, hence no -1.

**Only model-checked.**  `CompiledMeansSource` compares the machine with a
recursive semantics; `RunsEnd` is liveness.  That every assembled batch has a plan
is checked for the sources of the run.

## 5. The network of processes

**Modules.**  `NodeNetwork` is the base, the nodes and the processes forked for
tasks; `NodeProperties` what they promise; `ForkJoin` the abstract specification
of `fork_each`; `MCNodeNetwork` the instances; `NodeProofs` the theorems.

**State.**  A process is named by its port; `init_ip` looks for a free one.  A
forked process (`Kids`) has `port` of its parent, as `init_ip` returns at once
when `my_port` is set. `known` is `network_node_root`, `outbox` what the handler
in progress has still to send, `handle`, `join` and `good` the variables of
`send_task_to_node` and `fork_each`, `loops` how often a process entered
`network_wait_loop`.  `backlog` holds, for each port, the connections not
accepted yet, each with its one message.  `offered`, `log`, `returned`,
`refused` are histories used by properties only.

**Actions.**  `StartBase`, `StartNode`, `Register`, `Listen` are the start: a
node registers *before* it listens, as in `execute_main_commands`.  `Hear`,
`Released`, `TaskDone`, `Fork` are the four messages.  A handler that sends
several messages blocks its process, so `Hear` fills `outbox` and `SendLetter`
sends one message a step, while other processes run.  `RunScript`, `Sent`,
`Refused`, `SendToNobody`, `CheckFinished` are `fork_each` with its retries;
`Evaluate`, `Report`, `Exit` the forked process.  `Crash` kills a node or a task
with its memory and, with the last holder of a socket, its backlog.  The script
of the base, `base.tcl`, is not in the repository and is taken as a script that
returns.

**Runs.**

* `nodes` (passes): a base, three nodes, two forked processes, a list of two
  items, one crash.  TLC explores three beginnings instead of one long run:
  everybody off, with two nodes starting in any order with the base; one node
  joined and two joining while their news cross; and three joined, the third
  about to share tasks with two more releases waiting for it (it was added by
  three processes, and each of them releases it).  `KnowsOthers`, `NewsSpreads`,
  `ReleasedKnowsSomeone` are about the gossip; `JoinReturns` is liveness of
  `fork_each`; `RunsTasksOnce` the refinement of `ForkJoin`.
* `nodes_identity` (violation): tasks that call `fork_each` themselves.

**Fairness.**  `Running` is weak fairness of each process's `Step`: a process
that can go on does, since its loops wait for nothing but messages.  The exit of
a node is not fair because it reads its standard input to the end first.
`JoinReturns` excuses what the code cannot repair: a crash, or a node that has
left its service, since nothing is sent twice.

**Proofs** (`NodeProofs`, any number of nodes, forked processes, items,
crashes). `IInv` has, next to the types, `Places` (who can be where, and who
holds which port), `OthersNews` (no announcement of a node is on its way to that
node, nor in a handler that would send it there) and `KnowsOthers`, which is
inductive only with it.  `TypeCorrect` and `NobodyKnowsItself` follow.  Two
theorems assume `"nested" \notin Codes`, that no task calls `fork_each`, because
a forked process shares its parent's port: then replies and news reach the wrong
process, which is the finding of `nodes_identity`.  `NewsBeforeRelease` adds
that a node's own announcement precedes its release in every queue they pass
(`Leaves`, `Unopened`, `NewsFirst`). `TasksRunOnce` proves the refinement, from
where each task handle can be (`Handles`, `Once`) and that a reply exists only
for an evaluated task (`Reported`).  `EverybodyHears` proves `NewsSpreads`.  As
long as nothing is lost and nobody is gone, `Registered` says that the base
knows of each node that listens or has a message about it waiting, and
`Informed` that for any two nodes the base has heard of, the first has heard of
the second, or has the news waiting, or the base is about to send it.  The
handler of the base sends the list to the newcomer and the newcomer to the
list, so both directions need the letters in the base's hands; when all is
quiet, no letter is left and the news has arrived.  The other parts of
`SpreadInv` rule out that a message waits at a port nobody listens to
(`Unopened`, `BaseFirst`) or is taken by a forked process (`Leaves`).

Only model-checked: `JoinReturns`.

## 6. The batch queue

**Modules.**  `Netbatch` is the clients, the serving loops and the jobs;
`NetbatchProperties` what they promise; `JobLife` the abstract specification of
one job; `MCNetbatch` the instances; `NetbatchProofs` the theorems.

**State and actions.**  The components share files only, and every step is one
access to the directory.  `Write`, `Choose`, `Probe`, `Move` are `netbatch`;
`Ping`, `Kill`, `RemoveKill`, `Find`, `Look`, `Take`, `Fork`, `Again` the loop of
`serve_loop.tcl`, with the results of its two globs in `todo`.  `Look` tests the
age of a request and `Take` renames it, in two steps: another loop may take it,
or a client may put another one there, in between.  `Header`, `Body`,
`RemoveRequest`, `RemoveActive` are the forked process, which sources the request
twice.  `ForkFails` is a fork that answers -1, which the loop takes for a
process: the request keeps its random name and is never run.  A Tcl command that fails ends the loop (`Fails`).  A finished job stays
in the process table until its loop ends, because the loop never waits for it.
`JobCrash`, `LoopCrash`, `Restart`, `PingExpires`, `Age`, `AskKill` are the
world.  Random names and process numbers are taken to be unique, and no
machine's name to begin with another's.

**Run.**  `netbatch` (passes): two clients and two loops, either on one machine
without faults, or on two machines with one crash, failure, failed fork or
restart.
`RunningIsListed`, `ActiveMeansRunning`, `LoopGoesOn`, `JobsRunOnce` (refinement
of `JobLife`), and the liveness properties `JobsStart` and `KillsLand`, which
excuse a loop that stopped, any fault and, for `JobsStart`, a request
overwritten by another client.  So what these exceptions cover is modelled but
not caught by a property: a request that a crash or a failed fork leaves under
its random name, the active file that a kill leaves behind, and the loop that
ends because another one of its machine was faster.

**Fairness.**  `Serving`: loops go on and files age.  Nothing is assumed of a
job's body, which may run for ever, nor of the user.

**Proofs** (`NetbatchProofs`, any number of machines, loops, jobs, faults).
`IInv` tracks who holds what: a job is in at most one of a client's hands, a
request file, a loop's hands and a process (`Hands`, `Queue`, `Forking`,
`Lives`), its files fit where it is (`Files`), kill files aim at processes of
the loop's machine (`Aims`), and an undisturbed loop that is alone finds what
its globs returned (`Undisturbed`).  `Passed` is a pigeonhole argument: the
names a client has passed over hold different jobs, so its index never exceeds
the number of jobs and the type invariant holds.  `TypeCorrect`, `AlwaysListed`,
`ActiveAreRunning`, `AloneGoesOn` and `LivesOnce` follow; liveness stays with
TLC.

## 7. The context tree

**Modules.**  `ContextTree`, `TreeProperties`, `MCContextTree`, `TreeProofs`.

**State and actions.**  `tree` holds for each context its name, parent, slots
and their number; slots from `num` on keep their pointers, as in C.  Contexts
are numbered in the order of allocation and freed numbers are not used again, so
that a pointer to freed memory can be told.  Once a path leads to one (`Sound`
fails) the code goes on, for example with a `cd` into it; C gives that no meaning
and the model stops, so what is shown of a run ends there. `Create`, `Delete`,
`Cd`, `Save`, `Load` are the commands. `Shifted` is the loop of `delete`,
`NewContext` the placement of a child. `Records` is what `context_save` writes;
its recursion goes down one level at a time, and no path is longer than the
number of contexts. `Loaded` takes the records one after the other, as
`context_load` reads them: `due` holds, for each call that has not returned, how
many records it still waits for and where they go. `Closure` is what can be
reached.

**Run.**  `context_tree` (passes): two plain names and `#1`, five slots, seven
contexts; no command follows once more than four are allocated, except that the
last one may be a load.  `OwnChildren`, `NothingLost`, `CurrentStands`,
`OthersStay` hold but where a `#n` makes an old pointer visible or takes an
occupied slot; the properties name these exceptions with their lines, so the run
also shows that there are no others, up to two limits: the model stops before a
`cd` into a freed context, and `Load` of a file with a `#n` counts whatever it
leaves out of reach as replaced.  `SaveLoadRestores` says when a saved tree
comes back.  A `#n` that deletion moved and that overwrites another child on
load needs eight contexts and is not reached by this instance.

Values, arrays, tables and their serialisation are left out.  So are, because
they are about data: a polynomial's payload, which is loaded but never saved;
literals, written with one routine and read with another; and look-up-table
contexts, which `delete_context` frees without their children.  Deleting the root dereferences null and
is not issued.

**Proofs** (`TreeProofs`, any names, numbers of slots and contexts).  `IInv` has
four parts.  `Sane` holds in every state: whatever a slot points to, visible or
not, was made as a child of its context and after it, and contexts not allocated
yet have no children.  So parents are older than children, and paths end.
`Stands` is about the current context: it is live, and each context on the way
up from it has a parent that counts a child.  Without that part a deletion by a
relative path could bring a count below zero, which breaks the types: a context
that a `#n` replaced can still be current.  `Tidy` and `Homed` hold until a `#n`
makes an old pointer visible: children of live contexts are live and have
different names, those of freed ones are freed, and each live context is a
child of its parent unless it was replaced.  The second half of `Tidy` is what
makes a freed subtree freed as a whole.

The lemmas are about the loops.  `ClosureIsLeast`: what can be reached is the
least set with its start that is closed under children, because a set that grows
at each of so many steps would outgrow the contexts.  `ShiftedMoves`: the loop
of `delete`, which reads and writes one array with two indices, moves the slots
after the deleted one down by one and changes nothing if the context is in no
slot.  `LoadedGrows`: each record of a file makes at most one context, `Room`
is enough for all of them, and what was there is kept but for what a `#n` takes.
`TypeCorrect`, `ChildrenStayOwn`, `NothingIsLost`, `CurrentStandsFirm` and
`OthersStayFound` follow; in `NothingIsLost` the oldest context that was lost
would have a parent that was not.

Only model-checked: `SaveLoadRestores`, which relates two recursions, one over
the levels of the tree and one over the records.

## 8. What the violations show

Six runs end in a counterexample, each a disagreement between the code and a
sentence of the repository; `PROJECT.json` quotes both sides.

* `pareto_partial`, `pareto_ties`: section 3.
* `gamma_joined`, `gamma_arguments`, `gamma_restart`: section 4.
* `nodes_identity`: `ctree.c:4786` says that a forked node has its own identity.
  It keeps its parent's port and socket, so its parent can take the reply to a
  task it sent, and its `fork_each` waits for ever.

## 9. Bounds

| Bound | In | Stands for |
|---|---|---|
| `MaxIds`, `MaxWork` | table | bound the run only: circuits created; circuits created and queries in force |
| `TopLimit`, `FlagTop` | table | 1000 circuits and 32 bits, made small so that they are reached |
| `StackSize`, `GosubSize` | machine | 16M and 1M cells, made small so that a leak runs out |
| `MaxRuns`, `MaxPushed` | machine | bound the run only |
| `Kids`, `Items`, `MaxCrashes` | network | forked processes at a time, length of the list, crashes |
| `MaxFaults` | batch queue | crashes and failures |
| `MaxSlots`, `MaxContexts`, `MaxFollowed` | context tree | bound the run only |

In the theorems all of these are arbitrary.

## 10. Not modelled

* Breeding loops: C generated from a template for each circuit, whose inserts
  depend on a simulation.
* `GammaCGI.tcl`, `optimize.tcl`, `gamma_jobs.tcl` and the web server: planned;
  their hazards are listed without a property.
* Look-up tables, polynomials, HIT byte code, the numeric commands of the
  machine: floating-point kernels.
* The circuit compilers: symbolic rewriting of text.
* ngspice and the BSIM models, most of the repository's lines: vendored or
  generated numeric code with no protocol of RAMSpice's own.
