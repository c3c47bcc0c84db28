----------------------------- MODULE ContextTree -----------------------------
(***************************************************************************)
(* The context tree of Gamma/Data/ctree.c: contexts with names, each with  *)
(* an array of pointers to its children.  A child called #n is put into    *)
(* slot n, any other one after the last.  Children are looked up by name,  *)
(* deletion moves later slots down, and a tree is saved and loaded as a    *)
(* sequence of records.                                                    *)
(*                                                                         *)
(* Values, arrays and tables are left out, and with them what commands do  *)
(* only for a type: no context here is a look-up table, a table of         *)
(* circuits or a polynomial.  Contexts are numbered in the order they are  *)
(* allocated and a freed one is never allocated again, so a pointer to     *)
(* freed memory can be told.                                               *)
(***************************************************************************)
EXTENDS Integers, Sequences, FiniteSets

CONSTANTS
  Names,      \* names of contexts
  IndexOf,    \* the number of a name #n, -1 for any other
  MaxSlots,   \* bound: slots of a context
  MaxContexts \* bound: contexts allocated in a run

ASSUME TreeAssumption ==
  /\ IndexOf \in [Names -> -1 .. MaxSlots - 1]
  /\ MaxSlots \in Nat \ {0}
  /\ MaxContexts \in Nat \ {0}

Root == 1
Null == 0
Ids == 1 .. MaxContexts
Slots == 0 .. MaxSlots - 1

VARIABLES
  tree,      \* the contexts: freed, name, parent, children, num, next
  current,   \* Context, where relative paths begin
  file,      \* the records of the last save
  saved,     \* history: what that save was given
  exposed,   \* history: a #n made slots visible that deletion had left behind
  replaced   \* history: contexts whose slot a #n took, and the like

vars == <<tree, current, file, saved, exposed, replaced>>

NoPaths == [paths |-> {}, inPlace |-> FALSE]

Init ==
  /\ tree = [freed |-> {}, name |-> [c \in Ids |-> "none"],
             parent |-> [c \in Ids |-> Null],
             children |-> [c \in Ids |-> [i \in Slots |-> Null]],
             num |-> [c \in Ids |-> 0], next |-> 2]
  /\ current = Root
  /\ file = <<>>
  /\ saved = NoPaths
  /\ exposed = FALSE
  /\ replaced = {}

-----------------------------------------------------------------------------
(* Looking at a tree.                                                        *)

Visible(t, c) == {i \in Slots : i < t.num[c] /\ t.children[c][i] # Null}
ChildrenOf(t, c) == {t.children[c][i] : i \in Visible(t, c)}

(* What c leads to, in any number of steps.                                  *)
Closure(leads, c) ==
  LET within[h \in 0 .. MaxContexts] ==
        IF h = 0 THEN {c}
        ELSE LET s == within[h - 1] IN s \cup UNION {leads[b] : b \in s}
  IN  within[MaxContexts]

(* The contexts that paths reach.                                            *)
Below(t, c) == Closure([b \in Ids |-> ChildrenOf(t, b)], c)

(* The same, but what is below a freed context is not looked at.             *)
Reached(t, c) == Closure([b \in Ids |-> IF b \in t.freed THEN {} ELSE ChildrenOf(t, b)], c)

(* Absolute paths begin at the root, others at current, and .. goes up from  *)
(* there: current may be out of the tree, replaced since it was chosen.      *)
Up(t, c) == Closure([b \in Ids |-> {t.parent[b]} \ {Null}], c)
Beginnings == {Root} \cup Up(tree, current)

(* No path leads into freed memory.  The code does not look and goes on      *)
(* there; what it finds is undefined, and the model stops: what is shown of  *)
(* a run ends where a #n has made a pointer to a freed context visible.      *)
Sound == \A c \in Beginnings : Reached(tree, c) \cap tree.freed = {}

(* What a path can name.                                                     *)
Targets == UNION {Below(tree, c) : c \in Beginnings}

(* The first child of that name, as resolve_context and new_context find it. *)
Named(t, c, n) == {i \in Visible(t, c) : t.name[t.children[c][i]] = n}
FirstNamed(t, c, n) ==
  t.children[c][CHOOSE i \in Named(t, c, n) : \A k \in Named(t, c, n) : i <= k]

-----------------------------------------------------------------------------
(* new_context.                                                              *)

SlotFor(t, c, n) == IF IndexOf[n] = -1 THEN t.num[c] ELSE IndexOf[n]

\* Mutant: the new context takes the slot of the last one.
NewOverLast(t, c, n) ==
  IF Named(t, c, n) # {} THEN [t |-> t, c |-> FirstNamed(t, c, n)]
  ELSE LET i == IF IndexOf[n] = -1 /\ t.num[c] > 0 THEN t.num[c] - 1 ELSE SlotFor(t, c, n)
           new == t.next
       IN  [t |-> [t EXCEPT !.next = @ + 1, !.name[new] = n, !.parent[new] = c,
                            !.children[c][i] = new,
                            !.num[c] = IF i + 1 > @ THEN i + 1 ELSE @],
            c |-> new]

(* The child of c called n: the one there is, or a new one.                  *)
NewContext(t, c, n) ==
  IF Named(t, c, n) # {} THEN [t |-> t, c |-> FirstNamed(t, c, n)]
  ELSE LET i == SlotFor(t, c, n)
           new == t.next
       IN  [t |-> [t EXCEPT !.next = @ + 1, !.name[new] = n, !.parent[new] = c,
                            !.children[c][i] = new,
                            !.num[c] = IF i + 1 > @ THEN i + 1 ELSE @],
            c |-> new]

(* What a creation in slot i of c does to others.                            *)
Exposes(t, c, i) == \E k \in Slots : t.num[c] <= k /\ k < i /\ t.children[c][k] # Null
Replaces(t, c, i) == IF i < t.num[c] THEN {t.children[c][i]} \ {Null} ELSE {}

(* create_context, one step of a path: the command !, and any command on a   *)
(* path that does not exist.  A step that declares a table is left out.      *)
Create(c, n) ==
  /\ Named(tree, c, n) = {}
  /\ tree.next <= MaxContexts /\ SlotFor(tree, c, n) < MaxSlots
  /\ tree' = NewContext(tree, c, n).t
  /\ exposed' = (exposed \/ Exposes(tree, c, SlotFor(tree, c, n)))
  /\ replaced' = replaced \cup Replaces(tree, c, SlotFor(tree, c, n))
  /\ UNCHANGED <<current, file, saved>>

-----------------------------------------------------------------------------
(* delete.                                                                   *)

\* Mutant: the loop moves slots down from one slot too late.
ShiftedLate(t, d, c) ==
  [i \in Slots |-> LET at == CHOOSE k \in Visible(t, d) : t.children[d][k] = c
                   IN  IF i > at /\ i + 1 < t.num[d] THEN t.children[d][i + 1]
                       ELSE t.children[d][i]]

(* The loop over the children of d: i - 1 is written, j is read and skips c. *)
Shifted(t, d, c) ==
  LET n == t.num[d]
      after[i \in 0 .. n] ==
        IF i = 0 THEN [children |-> t.children[d], j |-> 0]
        ELSE LET p == after[i - 1]
                 j == IF p.children[i - 1] = c THEN p.j + 1 ELSE p.j
             IN  IF j >= n THEN [children |-> p.children, j |-> n]
                 ELSE [children |-> [p.children EXCEPT ![i - 1] = p.children[j]], j |-> j + 1]
  IN  after[n].children

\* Mutant: the children of a deleted context are not freed with it.
FreedAlone(t, c) == {c}

\* Mutant: empty slots are freed too.
FreedWithNull(t, c) ==
  Below(t, c) \cup UNION {{t.children[b][i] : i \in 0 .. t.num[b] - 1} : b \in Below(t, c)}

(* delete_context frees a context and all below it.  (A look-up table, which *)
(* is freed without its children, is no context of this model.)              *)
Freed(t, c) == Below(t, c)

(* A context that was replaced is no child of its parent any more: the loop  *)
(* does not find it, and the last child is dropped.                          *)
Dropped(t, d, c) ==
  IF c \in ChildrenOf(t, d) \/ t.num[d] = 0 THEN {} ELSE {t.children[d][t.num[d] - 1]} \ {Null}

\* Mutant: the current context stays what it was.
DeleteKeepsCurrent(c) ==
  /\ c # Root
  /\ LET d == tree.parent[c]
     IN  /\ tree' = [tree EXCEPT !.children[d] = Shifted(tree, d, c),
                                 !.num[d] = @ - 1,
                                 !.freed = @ \cup Freed(tree, c)]
         /\ replaced' = replaced \cup Dropped(tree, d, c)
  /\ UNCHANGED <<current, file, saved, exposed>>

(* The slot after the last one keeps its pointer.  The root has no parent to *)
(* be taken from: deleting it has no meaning.                                *)
Delete(c) ==
  /\ c # Root
  /\ LET d == tree.parent[c]
     IN  /\ tree' = [tree EXCEPT !.children[d] = Shifted(tree, d, c),
                                 !.num[d] = @ - 1,
                                 !.freed = @ \cup Freed(tree, c)]
         /\ replaced' = replaced \cup Dropped(tree, d, c)
  /\ current' = Root
  /\ UNCHANGED <<file, saved, exposed>>

Cd(c) ==
  /\ c # current
  /\ current' = c
  /\ UNCHANGED <<tree, file, saved, exposed, replaced>>

-----------------------------------------------------------------------------
(* save and load.                                                            *)

(* context_save: the context, unless it is the root, and all below it.  The  *)
(* number of children counts empty slots, which are not written.  A path has *)
(* at most MaxContexts contexts, so this many levels are all there are.      *)
Record(t, c) == [name |-> t.name[c], children |-> t.num[c]]

RecordsWith(t, c, below) ==
  LET from[i \in 0 .. t.num[c]] ==
        IF i = 0 THEN IF c = Root THEN <<>> ELSE <<Record(t, c)>>
        ELSE from[i - 1] \o (IF t.children[c][i - 1] = Null THEN <<>>
                             ELSE below[t.children[c][i - 1]])
  IN  from[t.num[c]]

(* The value of a context comes before its number of children, and is left   *)
(* out: of a polynomial one is read and none is written, so what follows one *)
(* in a file comes back as something else.                                   *)
Records(t, c) ==
  LET of[h \in 0 .. MaxContexts] ==
        IF h = 0 THEN [b \in Ids |-> <<>>] ELSE [b \in Ids |-> RecordsWith(t, b, of[h - 1])]
  IN  of[MaxContexts][c]

(* What a context holds: the paths below it.                                 *)
PathsBelow(t, c) ==
  LET of[h \in 0 .. MaxContexts] ==
        [b \in Ids |->
           IF h = 0 THEN {}
           ELSE UNION {{<<t.name[d]>>} \cup {<<t.name[d]>> \o p : p \in of[h - 1][d]} :
                         d \in ChildrenOf(t, b)}]
  IN  of[MaxContexts][c]
PathsSaved(t, c) ==
  IF c = Root THEN PathsBelow(t, c)
  ELSE {<<t.name[c]>>} \cup {<<t.name[c]>> \o p : p \in PathsBelow(t, c)}

(* Below c no slot is empty and each #n is in slot n.                        *)
InPlace(t, c) ==
  \A b \in Below(t, c) : \A i \in Slots :
    i < t.num[b] =>
      /\ t.children[b][i] # Null
      /\ IndexOf[t.name[t.children[b][i]]] \in {-1, i}

Save(c) ==
  /\ file' = Records(tree, c)
  /\ saved' = [paths |-> PathsSaved(tree, c), inPlace |-> InPlace(tree, c)]
  /\ UNCHANGED <<tree, current, exposed, replaced>>

(* context_load reads one record and then as many more below it as it says;  *)
(* at level 0 it goes on to the end of the file.  due holds the contexts the *)
(* records to come belong to, as the calls that have not returned do.        *)
Into(p, c) == IF p.due = <<>> THEN c ELSE Head(p.due)

\* Mutant: the records read below a context are not counted.
LaterUncounted(p) == p.due

Later(p) == IF p.due = <<>> THEN <<>> ELSE Tail(p.due)

LoadMore(p, c, r) ==
  LET new == NewContext(p.t, Into(p, c), r.name)
  IN  [t |-> new.t, due |-> [i \in 1 .. r.children |-> new.c] \o Later(p)]

Loaded(t, c) ==
  LET after[k \in 0 .. Len(file)] ==
        IF k = 0 THEN [t |-> t, due |-> <<>>] ELSE LoadMore(after[k - 1], c, file[k])
  IN  after[Len(file)].t

Numbered == {n \in Names : IndexOf[n] # -1}
HasNumbered == \E r \in DOMAIN file : file[r].name \in Numbered

(* Room for a load: every record may need a new context, and a slot after    *)
(* the last one or after the greatest number.                                *)
Room(t) ==
  /\ t.next + Len(file) <= MaxContexts + 1
  /\ \A c \in Ids : t.num[c] + Len(file) <= MaxSlots
  /\ \A n \in Names : IndexOf[n] + 1 + Len(file) <= MaxSlots

(* Slots behind the last one that still hold a pointer.  A #n in the file    *)
(* may make one visible, and may take a slot wherever it is loaded: the      *)
(* history then holds every context that cannot be reached after the load.   *)
LeftOver(t, c) == \E k \in Slots : t.num[c] <= k /\ t.children[c][k] # Null
Allocated(t) == Root .. t.next - 1
Unreached(t) == Allocated(t) \ (t.freed \cup Below(t, Root))

Load(c) ==
  /\ file # <<>> /\ Room(tree)
  /\ LET t == Loaded(tree, c)
     IN  /\ tree' = t
         /\ replaced' = IF HasNumbered THEN replaced \cup Unreached(t) ELSE replaced
         /\ exposed' = (exposed \/ (HasNumbered /\ \E b \in Targets : LeftOver(tree, b)))
  /\ UNCHANGED <<current, file, saved>>

-----------------------------------------------------------------------------
(* A command on context c.                                                   *)
Command(c) ==
  \/ \E n \in Names : Create(c, n)
  \/ Delete(c) \/ Cd(c) \/ Save(c) \/ Load(c)

(* Commands, as long as all paths stay in memory that is not freed.          *)
Next == Sound /\ \E c \in Targets : Command(c)

Spec == Init /\ [][Next]_vars
=============================================================================
