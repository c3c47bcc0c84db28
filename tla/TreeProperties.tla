--------------------------- MODULE TreeProperties ---------------------------
(***************************************************************************)
(* What the context tree promises.                                         *)
(***************************************************************************)
EXTENDS ContextTree

(* The types of struct context (ctree.h:57) and of the file.                 *)
TypeOK ==
  /\ tree.freed \subseteq Ids
  /\ tree.name \in [Ids -> Names \cup {"none"}]
  /\ tree.parent \in [Ids -> Ids \cup {Null}]
  /\ tree.children \in [Ids -> [Slots -> Ids \cup {Null}]]
  /\ tree.num \in [Ids -> 0 .. MaxSlots]
  /\ tree.next \in 2 .. MaxContexts + 1
  /\ current \in Ids
  /\ file \in Seq([name : Names, children : 0 .. MaxSlots])
  /\ exposed \in BOOLEAN
  /\ replaced \subseteq Ids

BelowAny(t, s) == UNION {Below(t, c) : c \in s \ t.freed}

(* The children of a context are live, are its own and have different names, *)
(* however deletion moved them.  The exception: deletion leaves a pointer    *)
(* behind the last child, and a context #n put beyond it makes the pointer   *)
(* visible again (ctree.c:2386, 4292).                                       *)
OwnChildren ==
  ~exposed =>
    \A c \in Below(tree, Root) :
      /\ \A d \in ChildrenOf(tree, c) : d \notin tree.freed /\ tree.parent[d] = c
      /\ \A i, k \in Visible(tree, c) :
           tree.name[tree.children[c][i]] = tree.name[tree.children[c][k]] => i = k

(* No context is lost: what is not freed can be reached, but for a context   *)
(* whose slot a #n has taken (ctree.c:2386), a child dropped when such a     *)
(* context was deleted (ctree.c:4287), and what was below them.  Loading a   *)
(* file with a #n excuses all it leaves out of reach; loading any other      *)
(* file must lose nothing.                                                   *)
NothingLost == ~exposed => Unreached(tree) \subseteq BelowAny(tree, replaced)

(* The current context is never a freed one (ctree.c:4296 resets it), so a   *)
(* relative path never begins in freed memory.  The exception: a #n that     *)
(* made a pointer to a freed context visible (ctree.c:2386, 4292) and a cd   *)
(* into that context; the model stops before the cd (Sound).                 *)
CurrentStands == current \notin tree.freed

(* A step changes nothing for the contexts it is not about: one that is not  *)
(* deleted keeps its name, its parent and the path that finds it, although   *)
(* deletion and #n move and overwrite slots.                                 *)
OthersStay ==
  [][~exposed' =>
       \A c \in Below(tree, Root) \ {Root} :
         \/ c \in tree'.freed \cup BelowAny(tree', replaced')
         \/ /\ c \in ChildrenOf(tree', tree.parent[c])
            /\ FirstNamed(tree', tree.parent[c], tree.name[c]) = c]_vars

(* Loading what was saved into an empty context gives the paths that were    *)
(* saved, if every #n was in slot n and no slot was empty: an empty slot is  *)
(* counted and not written (ctree.c:1358), and a #n that deletion moved goes *)
(* back to slot n over whatever was loaded there (ctree.c:2386).             *)
EmptyContext(c) == \A i \in Slots : tree.children[c][i] = Null
SaveLoadRestores ==
  [][\A c \in Targets :
       EmptyContext(c) /\ saved.inPlace /\ Load(c) => PathsBelow(tree', c) = saved.paths]_vars
=============================================================================
