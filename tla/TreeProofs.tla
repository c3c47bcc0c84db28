------------------------------ MODULE TreeProofs ------------------------------
(***************************************************************************)
(* Machine-checked proofs about the context tree, for any names, number of *)
(* slots and number of contexts.                                           *)
(***************************************************************************)
EXTENDS TreeProperties, Induction

-----------------------------------------------------------------------------
(* What a context leads to.                                                  *)

Leading == [Ids -> SUBSET Ids]
Closed(leads, S) == \A b \in S : leads[b] \subseteq S

(* The sets within one step, two steps, ... of c.                            *)
Spreading(leads, c) ==
  {w \in [0 .. MaxContexts -> SUBSET Ids] :
     /\ w[0] = {c}
     /\ \A h \in 1 .. MaxContexts : w[h] = w[h - 1] \cup UNION {leads[b] : b \in w[h - 1]}
     /\ Closure(leads, c) = w[MaxContexts]}

(* The recursion of Closure is such a sequence of sets.                      *)
LEMMA Spreads ==
  ASSUME NEW leads \in Leading, NEW c \in Ids
  PROVE  Spreading(leads, c) # {}
<1> DEFINE M == MaxContexts
           T == SUBSET Ids
           More(s) == s \cup UNION {leads[b] : b \in s}
           F == [h \in 1 .. M |-> [s \in T |-> More(s)]]
           Body(w) == [h \in 0 .. M |-> IF h = 0 THEN {c} ELSE More(w[h - 1])]
           a == CHOOSE w : w = Body(w)
<1>1. M \in Nat /\ {c} \in T
  BY TreeAssumption DEF TreeAssumption
<1>2. ASSUME NEW s \in T PROVE More(s) \in T
  BY DEF Leading
<1>3. F \in Steps(M, T)
  BY <1>2 DEF Steps
<1>4. ASSUME NEW h \in 1 .. M, NEW s \in T PROVE F[h][s] = More(s)
  OBVIOUS
<1> HIDE DEF F, T
<1>5. PICK g \in [0 .. M -> T] : g[0] = {c} /\ \A h \in 1 .. M : g[h] = F[h][g[h - 1]]
  <2>1. Runs(M, T, {c}, F) # {}
    BY <1>1, <1>3, Recursion
  <2> QED
    BY <2>1 DEF Runs
<1>6. \A h \in 1 .. M : g[h] = More(g[h - 1])
  <2> SUFFICES ASSUME NEW h \in 1 .. M PROVE g[h] = More(g[h - 1])
    OBVIOUS
  <2>1. g[h - 1] \in T
    BY <1>1
  <2> HIDE DEF More
  <2> QED
    BY <1>4, <1>5, <2>1
<1>7. g = Body(g)
  BY <1>1, <1>5, <1>6
<1>8. a = Body(a)
  <2> HIDE DEF Body
  <2> QED
    BY <1>7
<1>9. Closure(leads, c) = a[M]
  BY DEF Closure
<1>10. /\ a = [h \in 0 .. M |-> a[h]] /\ a[0] = {c}
       /\ \A h \in 1 .. M : a[h] = More(a[h - 1])
  <2> HIDE DEF a
  <2>1. a = [h \in 0 .. M |-> a[h]] /\ a[0] = {c}
    BY <1>1, <1>8
  <2>2. ASSUME NEW h \in 1 .. M PROVE a[h] = More(a[h - 1])
    <3>1. h \in 0 .. M /\ h # 0
      BY <1>1
    <3> QED
      BY <1>8, <3>1
  <2> QED
    BY <2>1, <2>2
<1>11. a \in Runs(M, T, {c}, F)
  <2>1. \A h \in 1 .. M : a[h - 1] \in T => a[h] = F[h][a[h - 1]]
    <3> HIDE DEF a, More
    <3> QED
      BY <1>4, <1>10
  <2> HIDE DEF a
  <2> QED
    BY <1>1, <1>3, <1>10, <2>1, Follows
<1>12. a \in [0 .. M -> T]
  BY <1>11 DEF Runs
<1> QED
  BY <1>9, <1>10, <1>12 DEF Spreading, T

(* While the sets grow they get one more member at each step.                *)
LEMMA SpreadingGrows ==
  ASSUME NEW leads \in Leading, NEW c \in Ids, NEW w \in Spreading(leads, c),
         NEW h \in 0 .. MaxContexts - 1
  PROVE  \/ w[h + 1] = w[h]
         \/ Cardinality(w[h + 1]) >= h + 2
<1> DEFINE M == MaxContexts
           Grows(i) == w[i + 1] = w[i] \/ Cardinality(w[i + 1]) >= i + 2
           S == {i \in 0 .. M - 1 : Grows(i)}
<1>1. M \in Nat \ {0} /\ M - 1 \in Nat
  BY TreeAssumption DEF TreeAssumption
<1>2. /\ w \in [0 .. M -> SUBSET Ids] /\ w[0] = {c}
      /\ \A i \in 1 .. M : w[i] = w[i - 1] \cup UNION {leads[b] : b \in w[i - 1]}
  BY DEF Spreading
<1>3. IsFiniteSet(Ids)
  BY <1>1, FS_Interval DEF Ids
<1>4. ASSUME NEW i \in 0 .. M - 1, w[i + 1] # w[i]
      PROVE  Cardinality(w[i]) + 1 <= Cardinality(w[i + 1]) /\ Cardinality(w[i]) \in Nat
  <2>1. /\ i \in 0 .. M /\ i + 1 \in 1 .. M /\ i + 1 \in 0 .. M /\ (i + 1) - 1 = i
    BY <1>1
  <2>2. w[i] \subseteq w[i + 1] /\ w[i + 1] \in SUBSET Ids /\ w[i] \in SUBSET Ids
    BY <1>2, <2>1
  <2>3. IsFiniteSet(w[i + 1])
    BY <1>3, <2>2, FS_Subset
  <2>4. /\ Cardinality(w[i]) <= Cardinality(w[i + 1])
        /\ Cardinality(w[i]) = Cardinality(w[i + 1]) => w[i] = w[i + 1]
        /\ Cardinality(w[i]) \in Nat /\ Cardinality(w[i + 1]) \in Nat
    BY <2>2, <2>3, FS_Subset, FS_CardinalityType
  <2> QED
    BY <1>4, <2>4
<1>5. 0 \in S
  <2>1. Cardinality(w[0]) = 1
    BY <1>2, FS_Singleton
  <2>2. Grows(0)
    <3>1. CASE w[1] = w[0]
      BY <3>1
    <3>2. CASE w[0 + 1] # w[0]
      BY <1>1, <1>4, <2>1, <3>2
    <3> QED BY <3>1, <3>2
  <2> QED
    BY <1>1, <2>2
<1>6. ASSUME NEW i \in 0 .. M - 2, i \in S PROVE i + 1 \in S
  <2>1. i + 1 \in 0 .. M - 1 /\ (i + 1) + 1 \in 1 .. M /\ i + 1 \in 1 .. M
    BY <1>1
  <2>2. CASE w[i + 1] = w[i]
    <3>1. /\ w[(i + 1) + 1] = w[i + 1] \cup UNION {leads[b] : b \in w[i + 1]}
          /\ w[i + 1] = w[i] \cup UNION {leads[b] : b \in w[i]}
      BY <1>2, <2>1
    <3>2. w[(i + 1) + 1] = w[i + 1]
      BY <2>2, <3>1
    <3> QED
      BY <2>1, <3>2
  <2>3. CASE Cardinality(w[i + 1]) >= i + 2 /\ w[(i + 1) + 1] # w[i + 1]
    <3>1. /\ Cardinality(w[i + 1]) + 1 <= Cardinality(w[(i + 1) + 1])
          /\ Cardinality(w[i + 1]) \in Nat
      BY <1>4, <2>1, <2>3
    <3>2. w[(i + 1) + 1] \in SUBSET Ids
      BY <1>2, <2>1
    <3>3. Cardinality(w[(i + 1) + 1]) \in Nat
      BY <1>3, <3>2, FS_Subset, FS_CardinalityType
    <3>4. Cardinality(w[(i + 1) + 1]) >= (i + 1) + 2
      BY <2>3, <3>1, <3>3
    <3> QED
      BY <2>1, <3>4
  <2>4. CASE w[(i + 1) + 1] = w[i + 1]
    BY <2>1, <2>4
  <2> QED
    BY <1>6, <2>2, <2>3, <2>4
<1>7. 0 .. M - 1 \subseteq S
  <2>1. \A i \in 0 .. (M - 1) - 1 : i \in S => i + 1 \in S
    BY <1>1, <1>6
  <2> HIDE DEF S
  <2> QED
    BY <1>1, <1>5, <2>1, UpTo
<1> QED
  BY <1>7

(* Closure is the least set that holds c and what its members lead to.       *)
LEMMA ClosureIsLeast ==
  ASSUME NEW leads \in Leading, NEW c \in Ids
  PROVE  /\ c \in Closure(leads, c) /\ Closure(leads, c) \subseteq Ids
         /\ Closed(leads, Closure(leads, c))
         /\ \A S \in SUBSET Ids : c \in S /\ Closed(leads, S) => Closure(leads, c) \subseteq S
<1> DEFINE M == MaxContexts
<1>1. PICK w \in Spreading(leads, c) : TRUE
  BY Spreads
<1>2. /\ w \in [0 .. M -> SUBSET Ids] /\ w[0] = {c} /\ Closure(leads, c) = w[M]
      /\ \A i \in 1 .. M : w[i] = w[i - 1] \cup UNION {leads[b] : b \in w[i - 1]}
  BY DEF Spreading
<1>3. M \in Nat \ {0} /\ M - 1 \in 0 .. M - 1 /\ M \in 0 .. M /\ (M - 1) + 1 = M /\ M \in 1 .. M
  BY TreeAssumption DEF TreeAssumption
<1>4. w[M] = w[M - 1]
  <2>1. SUFFICES ASSUME Cardinality(w[M]) >= M + 1 PROVE FALSE
    <3>1. w[(M - 1) + 1] = w[M - 1] \/ Cardinality(w[(M - 1) + 1]) >= (M - 1) + 2
      BY <1>3, SpreadingGrows
    <3> QED
      BY <1>3, <3>1
  <2>2. w[M] \subseteq Ids
    BY <1>2, <1>3
  <2>3. Cardinality(Ids) = M /\ IsFiniteSet(Ids)
    BY <1>3, FS_Interval DEF Ids
  <2>4. Cardinality(w[M]) <= M /\ Cardinality(w[M]) \in Nat
    BY <2>2, <2>3, FS_Subset, FS_CardinalityType
  <2> QED
    BY <1>3, <2>1, <2>4
<1>5. Closed(leads, w[M])
  BY <1>2, <1>3, <1>4 DEF Closed
<1>6. ASSUME NEW S \in SUBSET Ids, c \in S, Closed(leads, S) PROVE w[M] \subseteq S
  <2> DEFINE N == {i \in 0 .. M : w[i] \subseteq S}
  <2>1. 0 \in N
    BY <1>2, <1>3, <1>6
  <2>2. ASSUME NEW i \in 0 .. M - 1, i \in N PROVE i + 1 \in N
    <3>1. i + 1 \in 1 .. M /\ (i + 1) - 1 = i /\ i + 1 \in 0 .. M
      BY <1>3
    <3>2. w[i + 1] = w[i] \cup UNION {leads[b] : b \in w[i]}
      BY <1>2, <3>1
    <3> QED
      BY <1>6, <2>2, <3>1, <3>2 DEF Closed
  <2>3. 0 .. M \subseteq N
    <3> HIDE DEF N
    <3> QED
      BY <1>3, <2>1, <2>2, UpTo
  <2> QED
    BY <1>3, <2>3
<1>7. c \in w[M]
  <2> DEFINE N == {i \in 0 .. M : c \in w[i]}
  <2>1. 0 \in N
    BY <1>2, <1>3
  <2>2. ASSUME NEW i \in 0 .. M - 1, i \in N PROVE i + 1 \in N
    <3>1. i + 1 \in 1 .. M /\ (i + 1) - 1 = i /\ i + 1 \in 0 .. M
      BY <1>3
    <3> QED
      BY <1>2, <2>2, <3>1
  <2>3. 0 .. M \subseteq N
    <3> HIDE DEF N
    <3> QED
      BY <1>3, <2>1, <2>2, UpTo
  <2> QED
    BY <1>3, <2>3
<1> QED
  BY <1>2, <1>3, <1>5, <1>6, <1>7

(* All but c itself are led to by another member.                            *)
LEMMA ClosureLedTo ==
  ASSUME NEW leads \in Leading, NEW c \in Ids, NEW x \in Closure(leads, c), x # c
  PROVE  \E z \in Closure(leads, c) : x \in leads[z]
<1> DEFINE S == Closure(leads, c) \ {x}
<1> SUFFICES ASSUME \A z \in Closure(leads, c) : x \notin leads[z] PROVE FALSE
  OBVIOUS
<1>1. S \in SUBSET Ids /\ c \in S /\ Closed(leads, S)
  BY ClosureIsLeast DEF Closed
<1>2. Closure(leads, c) \subseteq S
  <2> HIDE DEF S
  <2> QED
    BY <1>1, ClosureIsLeast
<1> QED
  BY <1>2

-----------------------------------------------------------------------------
(* The inductive invariant.                                                  *)

Trees ==
  [freed : SUBSET Ids, name : [Ids -> Names \cup {"none"}], parent : [Ids -> Ids \cup {Null}],
   children : [Ids -> [Slots -> Ids \cup {Null}]], num : [Ids -> 0 .. MaxSlots],
   next : 2 .. MaxContexts + 1]

(* Whatever a slot points to was made as a child of its context, and later.  *)
SlotsOwn(t) ==
  \A c \in Ids, i \in Slots :
    LET d == t.children[c][i]
    IN  d # Null => t.parent[d] = c /\ c < d /\ d < t.next

(* Contexts that are not allocated yet have no children.                     *)
Fresh(t) ==
  \A c \in Ids : c >= t.next => t.num[c] = 0 /\ \A i \in Slots : t.children[c][i] = Null

(* Parents are older than their children; the root is never freed.           *)
Parents(t) ==
  /\ t.parent[Root] = Null
  /\ \A c \in Allocated(t) \ {Root} : t.parent[c] \in 1 .. c - 1 /\ t.name[c] \in Names
  /\ t.freed \subseteq Allocated(t) \ {Root}

Sane(t) == t \in Trees /\ SlotsOwn(t) /\ Fresh(t) /\ Parents(t)

(* The children of live contexts are live and have different names, those of *)
(* freed ones are freed.                                                     *)
Live(t) == Allocated(t) \ t.freed
Differ(t, c) ==
  \A i, k \in Visible(t, c) :
    t.name[t.children[c][i]] = t.name[t.children[c][k]] => i = k
Tidy(t) ==
  /\ \A c \in Live(t) : ChildrenOf(t, c) \cap t.freed = {} /\ Differ(t, c)
  /\ \A c \in t.freed : ChildrenOf(t, c) \subseteq t.freed

(* Each live context but the root is a child of its parent or in gone.       *)
Homed(t, gone) ==
  \A c \in Live(t) \ {Root} : c \in gone \/ c \in ChildrenOf(t, t.parent[c])

(* The current context is live, and each parent above it has children.       *)
Stands ==
  /\ current \in Live(tree)
  /\ \A c \in Up(tree, current) \ {Root} : tree.num[tree.parent[c]] > 0

IInv ==
  /\ TypeOK /\ Sane(tree) /\ Stands
  /\ ~exposed => Tidy(tree) /\ Homed(tree, replaced)

-----------------------------------------------------------------------------
(* Looking at a tree.                                                        *)

(* The constants, and the numbers contexts and slots have.                   *)
LEMMA Bounds ==
  /\ MaxContexts \in Nat \ {0} /\ MaxSlots \in Nat \ {0}
  /\ IndexOf \in [Names -> -1 .. MaxSlots - 1]
  /\ Root \in Ids /\ Root = 1 /\ Null = 0 /\ Null \notin Ids
  /\ Ids \subseteq Nat \ {0} /\ Slots \subseteq Nat /\ Slots = 0 .. MaxSlots - 1
  /\ Ids = 1 .. MaxContexts
BY TreeAssumption DEF TreeAssumption, Root, Null, Ids, Slots

(* The fields of a tree.                                                     *)
LEMMA Fields ==
  ASSUME NEW t \in Trees
  PROVE  /\ t.freed \in SUBSET Ids /\ t.name \in [Ids -> Names \cup {"none"}]
         /\ t.parent \in [Ids -> Ids \cup {Null}]
         /\ t.children \in [Ids -> [Slots -> Ids \cup {Null}]]
         /\ t.num \in [Ids -> 0 .. MaxSlots] /\ t.next \in 2 .. MaxContexts + 1
         /\ Allocated(t) \subseteq Ids /\ Allocated(t) = 1 .. t.next - 1
         /\ Root \in Allocated(t)
         /\ \A c \in Ids : ChildrenOf(t, c) \subseteq Ids /\ Visible(t, c) \subseteq Slots
<1>1. /\ t.freed \in SUBSET Ids /\ t.name \in [Ids -> Names \cup {"none"}]
      /\ t.parent \in [Ids -> Ids \cup {Null}]
      /\ t.children \in [Ids -> [Slots -> Ids \cup {Null}]]
      /\ t.num \in [Ids -> 0 .. MaxSlots] /\ t.next \in 2 .. MaxContexts + 1
  BY DEF Trees
<1>2. /\ Allocated(t) \subseteq Ids /\ Allocated(t) = 1 .. t.next - 1
      /\ Root \in Allocated(t)
  BY <1>1, Bounds DEF Allocated
<1>3. ASSUME NEW c \in Ids PROVE ChildrenOf(t, c) \subseteq Ids /\ Visible(t, c) \subseteq Slots
  BY <1>1 DEF ChildrenOf, Visible
<1> QED
  BY <1>1, <1>2, <1>3

(* A child is allocated after its parent and knows it.                       *)
LEMMA ChildFacts ==
  ASSUME NEW t, Sane(t), NEW c \in Ids, NEW d \in ChildrenOf(t, c)
  PROVE  /\ d \in Allocated(t) /\ c \in Allocated(t) /\ t.parent[d] = c /\ c < d /\ d # Root
         /\ t.num[c] > 0
<1>1. PICK i \in Visible(t, c) : d = t.children[c][i]
  BY DEF ChildrenOf
<1>2. i \in Slots /\ i < t.num[c] /\ d # Null
  BY <1>1 DEF Visible
<1>3. t.parent[d] = c /\ c < d /\ d < t.next
  BY <1>1, <1>2 DEF Sane, SlotsOwn
<1>4. /\ t.num[c] \in 0 .. MaxSlots /\ d \in Ids /\ t.next \in 2 .. MaxContexts + 1
      /\ Allocated(t) = 1 .. t.next - 1
  BY Fields DEF Sane
<1>5. i \in Nat /\ t.num[c] \in Nat /\ c \in Nat \ {0} /\ d \in Nat \ {0} /\ t.next \in Nat
  BY <1>2, <1>4, Bounds
<1>6. d \in Allocated(t) /\ c \in Allocated(t)
  BY <1>3, <1>4, <1>5
<1> QED
  BY <1>2, <1>3, <1>5, <1>6, Bounds

(* Below a context are younger ones.                                         *)
LEMMA BelowFacts ==
  ASSUME NEW t, Sane(t), NEW c \in Allocated(t)
  PROVE  /\ c \in Below(t, c) /\ Below(t, c) \subseteq Allocated(t)
         /\ \A x \in Below(t, c) : x >= c /\ ChildrenOf(t, x) \subseteq Below(t, c)
         /\ \A S \in SUBSET Ids :
              c \in S /\ (\A x \in S : ChildrenOf(t, x) \subseteq S) => Below(t, c) \subseteq S
         /\ \A x \in Below(t, c) : x # c =>
              t.parent[x] \in Below(t, c) /\ x \in ChildrenOf(t, t.parent[x])
<1> DEFINE leads == [b \in Ids |-> ChildrenOf(t, b)]
<1>1. leads \in Leading /\ c \in Ids /\ Allocated(t) \subseteq Ids
  BY Fields DEF Leading, Sane
<1>2. Below(t, c) = Closure(leads, c)
  BY DEF Below
<1>3. \A b \in Ids : leads[b] = ChildrenOf(t, b)
  OBVIOUS
<1> HIDE DEF leads
<1>4. /\ c \in Below(t, c) /\ Below(t, c) \subseteq Ids
      /\ Closed(leads, Below(t, c))
      /\ \A S \in SUBSET Ids : c \in S /\ Closed(leads, S) => Below(t, c) \subseteq S
  BY <1>1, <1>2, ClosureIsLeast
<1>5. \A S \in SUBSET Ids : Closed(leads, S) <=> \A x \in S : ChildrenOf(t, x) \subseteq S
  BY <1>3 DEF Closed
<1>6. Below(t, c) \subseteq {x \in Allocated(t) : x >= c}
  <2> DEFINE S == {x \in Allocated(t) : x >= c}
  <2>1. S \in SUBSET Ids /\ c \in S
    BY <1>1, Bounds
  <2>2. ASSUME NEW x \in S PROVE ChildrenOf(t, x) \subseteq S
    BY <1>1, <2>2, ChildFacts, Bounds
  <2> HIDE DEF S
  <2>3. Below(t, c) \subseteq S
    BY <1>4, <1>5, <2>1, <2>2
  <2> QED
    BY <2>3 DEF S
<1>7. ASSUME NEW x \in Below(t, c), x # c
      PROVE  t.parent[x] \in Below(t, c) /\ x \in ChildrenOf(t, t.parent[x])
  <2>1. PICK z \in Below(t, c) : x \in leads[z]
    BY <1>1, <1>2, <1>7, ClosureLedTo
  <2>2. z \in Ids /\ x \in ChildrenOf(t, z)
    BY <1>3, <1>4, <2>1
  <2> QED
    BY <2>1, <2>2, ChildFacts
<1> QED
  BY <1>4, <1>5, <1>6, <1>7

(* Up from a context are its ancestors.                                      *)
LEMMA UpFacts ==
  ASSUME NEW t, Sane(t), NEW c \in Allocated(t)
  PROVE  /\ c \in Up(t, c) /\ Up(t, c) \subseteq Allocated(t)
         /\ \A x \in Up(t, c) \ {Root} : t.parent[x] \in Up(t, c)
         /\ \A S \in SUBSET Ids :
              c \in S /\ (\A x \in S \ {Root} : t.parent[x] \in S) => Up(t, c) \subseteq S
<1> DEFINE leads == [b \in Ids |-> {t.parent[b]} \ {Null}]
<1>1. leads \in Leading /\ c \in Ids /\ Allocated(t) \subseteq Ids
  BY Fields DEF Leading, Sane
<1>2. Up(t, c) = Closure(leads, c)
  BY DEF Up
<1>3. \A b \in Ids : leads[b] = {t.parent[b]} \ {Null}
  OBVIOUS
<1> HIDE DEF leads
<1>4. /\ c \in Up(t, c) /\ Up(t, c) \subseteq Ids
      /\ Closed(leads, Up(t, c))
      /\ \A S \in SUBSET Ids : c \in S /\ Closed(leads, S) => Up(t, c) \subseteq S
  BY <1>1, <1>2, ClosureIsLeast
<1>5. t.parent[Root] = Null /\ \A x \in Allocated(t) \ {Root} : t.parent[x] \in Allocated(t)
  <2>1. Parents(t) /\ Allocated(t) = 1 .. t.next - 1 /\ t.next \in 2 .. MaxContexts + 1
    BY Fields DEF Sane
  <2>2. ASSUME NEW x \in Allocated(t) \ {Root} PROVE t.parent[x] \in Allocated(t)
    <3>1. t.parent[x] \in 1 .. x - 1 /\ x \in 1 .. t.next - 1
      BY <2>1 DEF Parents
    <3>2. t.parent[x] \in 1 .. t.next - 1
      BY <2>1, <3>1, Bounds
    <3> QED
      BY <2>1, <3>2
  <2> QED
    BY <2>1, <2>2 DEF Parents
<1>6. ASSUME NEW S \in SUBSET Ids, \A x \in S \ {Root} : t.parent[x] \in S
      PROVE  Closed(leads, S)
  BY <1>3, <1>5, <1>6 DEF Closed
<1>7. Up(t, c) \subseteq Allocated(t)
  BY <1>1, <1>4, <1>5, <1>6
<1>8. ASSUME NEW x \in Up(t, c) \ {Root} PROVE t.parent[x] \in Up(t, c)
  <2>1. t.parent[x] # Null /\ x \in Ids
    BY <1>1, <1>5, <1>7, Bounds
  <2> QED
    BY <1>3, <1>4, <2>1 DEF Closed
<1> QED
  BY <1>4, <1>6, <1>7, <1>8

(* What a path can name, when no path follows a pointer to freed memory.     *)
LEMMA TargetFacts ==
  ASSUME Sane(tree), current \in Live(tree), Sound
  PROVE  /\ Targets \subseteq Live(tree) /\ Beginnings \subseteq Targets /\ Root \in Targets
         /\ \A c \in Targets : ChildrenOf(tree, c) \subseteq Targets
         /\ \A c \in Targets \ Beginnings : c \in ChildrenOf(tree, tree.parent[c])
         /\ \A c \in Targets \ {Root} : tree.parent[c] \in Targets
<1>1. Root \in Allocated(tree) /\ current \in Allocated(tree) /\ Allocated(tree) \subseteq Ids
  BY Fields DEF Sane, Live
<1>2. /\ Beginnings \subseteq Allocated(tree)
      /\ \A c \in Beginnings \ {Root} : tree.parent[c] \in Beginnings
  BY <1>1, UpFacts DEF Beginnings
<1>3. ASSUME NEW b \in Beginnings PROVE Below(tree, b) \cap tree.freed = {}
  <2> DEFINE leads == [x \in Ids |-> IF x \in tree.freed THEN {} ELSE ChildrenOf(tree, x)]
             R == Reached(tree, b)
  <2>1. leads \in Leading /\ b \in Ids
    BY <1>1, <1>2, Fields DEF Leading, Sane
  <2>2. R = Closure(leads, b)
    BY DEF Reached
  <2>3. \A x \in Ids \ tree.freed : leads[x] = ChildrenOf(tree, x)
    OBVIOUS
  <2> HIDE DEF leads, R
  <2>4. b \in R /\ R \subseteq Ids /\ Closed(leads, R)
    BY <2>1, <2>2, ClosureIsLeast
  <2>5. R \cap tree.freed = {}
    BY DEF Sound, R
  <2>6. \A x \in R : ChildrenOf(tree, x) \subseteq R
    BY <2>3, <2>4, <2>5 DEF Closed
  <2>7. Below(tree, b) \subseteq R
    BY <1>2, <2>4, <2>6, BelowFacts
  <2> QED
    BY <2>5, <2>7
<1>4. Targets \subseteq Live(tree)
  BY <1>2, <1>3, BelowFacts DEF Targets, Live
<1>5. Beginnings \subseteq Targets /\ Root \in Targets
  BY <1>2, BelowFacts DEF Targets, Beginnings
<1>6. ASSUME NEW c \in Targets PROVE ChildrenOf(tree, c) \subseteq Targets
  <2>1. PICK b \in Beginnings : c \in Below(tree, b)
    BY DEF Targets
  <2> QED
    BY <1>2, <2>1, BelowFacts DEF Targets
<1>7. ASSUME NEW c \in Targets \ Beginnings
      PROVE  c \in ChildrenOf(tree, tree.parent[c]) /\ tree.parent[c] \in Targets
  <2>1. PICK b \in Beginnings : c \in Below(tree, b)
    BY DEF Targets
  <2>2. tree.parent[c] \in Below(tree, b) /\ c \in ChildrenOf(tree, tree.parent[c])
    BY <1>2, <1>7, <2>1, BelowFacts
  <2> QED
    BY <2>1, <2>2 DEF Targets
<1> QED
  BY <1>2, <1>4, <1>5, <1>6, <1>7

-----------------------------------------------------------------------------
(* new_context.                                                              *)

(* The first child of a name is a child of that name.                        *)
LEMMA FirstNamedFacts ==
  ASSUME NEW t, Sane(t), NEW c \in Ids, NEW n, Named(t, c, n) # {}
  PROVE  FirstNamed(t, c, n) \in ChildrenOf(t, c) /\ t.name[FirstNamed(t, c, n)] = n
<1>1. Named(t, c, n) \in SUBSET Nat /\ Named(t, c, n) \subseteq Visible(t, c)
  BY Fields, Bounds DEF Named, Sane
<1>2. \E i \in Named(t, c, n) : \A k \in Named(t, c, n) : i <= k
  BY <1>1, LeastNatural
<1>3. PICK i \in Named(t, c, n) : FirstNamed(t, c, n) = t.children[c][i]
  BY <1>2 DEF FirstNamed
<1> QED
  BY <1>1, <1>3 DEF ChildrenOf, Named

(* The tree u is t with one more child n of c, in slot i.                    *)
Grown(t, u, c, n, i) ==
  /\ u.freed = t.freed /\ u.next = t.next + 1
  /\ u.name = [t.name EXCEPT ![t.next] = n]
  /\ u.parent = [t.parent EXCEPT ![t.next] = c]
  /\ u.children = [t.children EXCEPT ![c][i] = t.next]
  /\ u.num = [t.num EXCEPT ![c] = IF i + 1 > @ THEN i + 1 ELSE @]

(* Where a new context can be made: there is a number and a slot for it.     *)
Makes(t, c, n) ==
  /\ Sane(t) /\ c \in Allocated(t) /\ n \in Names
  /\ Named(t, c, n) = {} /\ t.next <= MaxContexts /\ SlotFor(t, c, n) < MaxSlots

(* A new context goes into its slot.                                         *)
LEMMA NewGrows ==
  ASSUME NEW t, NEW c, NEW n, Makes(t, c, n)
  PROVE  /\ NewContext(t, c, n).c = t.next /\ NewContext(t, c, n).t \in Trees
         /\ Grown(t, NewContext(t, c, n).t, c, n, SlotFor(t, c, n))
         /\ SlotFor(t, c, n) \in Slots /\ t.next \in Ids /\ t.next \notin Allocated(t)
         /\ c \in Ids
<1> DEFINE i == SlotFor(t, c, n)
           m == IF i + 1 > t.num[c] THEN i + 1 ELSE t.num[c]
           u == [t EXCEPT !.next = @ + 1, !.name[t.next] = n, !.parent[t.next] = c,
                          !.children[c][i] = t.next,
                          !.num[c] = IF i + 1 > @ THEN i + 1 ELSE @]
<1>1. /\ t \in Trees /\ c \in Ids /\ t.next \in Ids /\ t.next \notin Allocated(t)
      /\ t.next \in Nat /\ t.num[c] \in Nat /\ t.num[c] <= MaxSlots
  <2>1. t \in Trees /\ c \in Allocated(t) /\ t.next <= MaxContexts
    BY DEF Makes, Sane
  <2>2. c \in Ids /\ t.next \in 2 .. MaxContexts + 1 /\ Allocated(t) = 1 .. t.next - 1
    BY <2>1, Fields
  <2>3. t.num[c] \in 0 .. MaxSlots
    BY <2>1, <2>2, Fields
  <2> QED
    BY <2>1, <2>2, <2>3, Bounds
<1>2. i \in Slots
  BY <1>1, Bounds DEF Makes, SlotFor
<1>3. NewContext(t, c, n) = [t |-> u, c |-> t.next]
  BY DEF NewContext, Makes
<1>4. Grown(t, u, c, n, i)
  BY <1>1, <1>2, Fields, Zenon DEF Grown, Trees
<1>5. u.name \in [Ids -> Names \cup {"none"}] /\ u.parent \in [Ids -> Ids \cup {Null}]
  BY <1>1, Fields DEF Makes
<1>6. u.children \in [Ids -> [Slots -> Ids \cup {Null}]]
  BY <1>1, <1>2, Fields
<1>7. m \in 0 .. MaxSlots
  BY <1>1, <1>2, Bounds
<1>8. u.num \in [Ids -> 0 .. MaxSlots]
  BY <1>1, <1>7, Fields
<1>9. u.next \in 2 .. MaxContexts + 1 /\ u.freed \in SUBSET Ids
  <2>1. u.next = t.next + 1 /\ u.freed = t.freed
    BY <1>4 DEF Grown
  <2> HIDE DEF u
  <2>2. t.next + 1 \in 2 .. MaxContexts + 1
    BY <1>1, Bounds
  <2>3. t.freed \in SUBSET Ids
    BY <1>1, Fields
  <2> QED
    BY <2>1, <2>2, <2>3
<1>10. u \in Trees
  BY <1>1, <1>5, <1>6, <1>8, <1>9 DEF Trees
<1> HIDE DEF u, i
<1> QED
  BY <1>1, <1>2, <1>3, <1>4, <1>10 DEF i

(* The number of the new context is a new one.                               *)
LEMMA MakesFacts ==
  ASSUME NEW t, NEW c, NEW n, Makes(t, c, n)
  PROVE  /\ Sane(t) /\ t \in Trees /\ c \in Allocated(t) /\ c \in Ids /\ n \in Names
         /\ c # t.next /\ c < t.next /\ t.next \in Ids /\ t.next \in Nat
         /\ t.next # Root /\ t.next # Null
         /\ Allocated(t) = 1 .. t.next - 1 /\ t.next \notin Allocated(t) /\ Allocated(t) \subseteq Ids
<1>1. t \in Trees /\ c \in Allocated(t) /\ n \in Names /\ t.next <= MaxContexts /\ Sane(t)
  BY DEF Makes, Sane
<1>2. /\ c \in Ids /\ t.next \in 2 .. MaxContexts + 1 /\ Allocated(t) = 1 .. t.next - 1
      /\ Allocated(t) \subseteq Ids
  BY <1>1, Fields
<1> QED
  BY <1>1, <1>2, Bounds

(* The tree u, field by field.                                               *)
LEMMA GrownFields ==
  ASSUME NEW t, NEW u \in Trees, NEW c, NEW n, NEW i \in Slots, Makes(t, c, n), Grown(t, u, c, n, i)
  PROVE  /\ u.next = t.next + 1 /\ u.freed = t.freed
         /\ \A b \in Ids : u.parent[b] = IF b = t.next THEN c ELSE t.parent[b]
         /\ \A b \in Ids : u.name[b] = IF b = t.next THEN n ELSE t.name[b]
         /\ \A b \in Ids : b # c => u.children[b] = t.children[b]
         /\ \A k \in Slots : u.children[c][k] = IF k = i THEN t.next ELSE t.children[c][k]
         /\ \A b \in Ids : b # c => u.num[b] = t.num[b]
         /\ u.num[c] = IF i + 1 > t.num[c] THEN i + 1 ELSE t.num[c]
<1>1. t \in Trees /\ c \in Ids /\ t.next \in Ids
  BY MakesFacts
<1>2. u.next = t.next + 1 /\ u.freed = t.freed
  BY DEF Grown
<1>3. \A b \in Ids : u.parent[b] = IF b = t.next THEN c ELSE t.parent[b]
  <2>1. t.parent \in [Ids -> Ids \cup {Null}] /\ u.parent = [t.parent EXCEPT ![t.next] = c]
    BY <1>1, Fields DEF Grown
  <2> QED
    BY <1>1, <2>1
<1>4. \A b \in Ids : u.name[b] = IF b = t.next THEN n ELSE t.name[b]
  <2>1. t.name \in [Ids -> Names \cup {"none"}] /\ u.name = [t.name EXCEPT ![t.next] = n]
    BY <1>1, Fields DEF Grown
  <2> QED
    BY <1>1, <2>1
<1>5. /\ \A b \in Ids : b # c => u.children[b] = t.children[b]
      /\ \A k \in Slots : u.children[c][k] = IF k = i THEN t.next ELSE t.children[c][k]
  <2>1. /\ t.children \in [Ids -> [Slots -> Ids \cup {Null}]]
        /\ u.children = [t.children EXCEPT ![c] = [t.children[c] EXCEPT ![i] = t.next]]
    BY <1>1, Fields DEF Grown
  <2> QED
    BY <1>1, <2>1
<1>6. /\ \A b \in Ids : b # c => u.num[b] = t.num[b]
      /\ u.num[c] = IF i + 1 > t.num[c] THEN i + 1 ELSE t.num[c]
  <2> DEFINE m == IF i + 1 > t.num[c] THEN i + 1 ELSE t.num[c]
  <2>1. t.num \in [Ids -> 0 .. MaxSlots] /\ u.num = [t.num EXCEPT ![c] = m]
    BY <1>1, Fields DEF Grown
  <2> HIDE DEF m
  <2>2. (\A b \in Ids : b # c => u.num[b] = t.num[b]) /\ u.num[c] = m
    BY <1>1, <2>1
  <2> QED
    BY <2>2 DEF m
<1> QED
  BY <1>2, <1>3, <1>4, <1>5, <1>6

(* The tree is still sane.                                                   *)
LEMMA GrownSane ==
  ASSUME NEW t, NEW u \in Trees, NEW c, NEW n, NEW i \in Slots, Makes(t, c, n), Grown(t, u, c, n, i)
  PROVE  Sane(u) /\ Allocated(u) = Allocated(t) \cup {t.next}
<1> DEFINE new == t.next
<1>1. /\ t \in Trees /\ c \in Allocated(t) /\ c \in Ids /\ n \in Names /\ c # new /\ c < new
      /\ new \in Ids /\ new \in Nat /\ new # Root /\ new # Null
      /\ Allocated(t) = 1 .. new - 1 /\ u.next = new + 1
  BY MakesFacts, GrownFields
<1>2. Allocated(u) = Allocated(t) \cup {new}
  BY <1>1, Bounds DEF Allocated
<1>3. /\ \A b \in Ids : u.parent[b] = IF b = new THEN c ELSE t.parent[b]
      /\ \A b \in Ids : u.name[b] = IF b = new THEN n ELSE t.name[b]
      /\ \A b \in Ids, k \in Slots :
           u.children[b][k] = IF b = c /\ k = i THEN new ELSE t.children[b][k]
      /\ \A b \in Ids : b # c => u.num[b] = t.num[b]
      /\ u.freed = t.freed
  BY <1>1, GrownFields
<1>4. SlotsOwn(u)
  <2> SUFFICES ASSUME NEW b \in Ids, NEW k \in Slots, NEW d, d = u.children[b][k], d # Null
               PROVE  u.parent[d] = b /\ b < d /\ d < u.next
    BY DEF SlotsOwn
  <2>1. CASE b = c /\ k = i
    BY <1>1, <1>3, <2>1
  <2>2. CASE ~(b = c /\ k = i)
    <3>1. d = t.children[b][k] /\ d \in Ids
      BY <1>1, <1>3, <2>2, Fields
    <3>2. t.parent[d] = b /\ b < d /\ d < t.next
      BY <3>1 DEF Makes, Sane, SlotsOwn
    <3>3. d \in Nat /\ d # new /\ d < u.next
      <4>1. d \in Nat /\ new \in Nat /\ d < new /\ u.next = new + 1
        BY <1>1, <3>1, <3>2, Bounds
      <4> QED
        BY <4>1
    <3> QED
      BY <1>3, <3>1, <3>2, <3>3
  <2> QED
    BY <2>1, <2>2
<1>5. Fresh(u)
  <2> SUFFICES ASSUME NEW b \in Ids, b >= u.next
               PROVE  u.num[b] = 0 /\ \A k \in Slots : u.children[b][k] = Null
    BY DEF Fresh
  <2>1. b # c /\ b >= t.next
    BY <1>1, Bounds
  <2>2. t.num[b] = 0 /\ \A k \in Slots : t.children[b][k] = Null
    BY <2>1 DEF Makes, Sane, Fresh
  <2> QED
    BY <1>3, <2>1, <2>2
<1>6. Parents(u)
  <2>1. Parents(t) /\ Allocated(t) \subseteq Ids
    BY <1>1, Fields DEF Makes, Sane
  <2>2. u.parent[Root] = Null
    BY <1>1, <1>3, <2>1, Bounds DEF Parents
  <2>3. ASSUME NEW b \in Allocated(u) \ {Root}
        PROVE  u.parent[b] \in 1 .. b - 1 /\ u.name[b] \in Names
    <3>1. CASE b = new
      BY <1>1, <1>3, <3>1, Bounds
    <3>2. CASE b # new
      BY <1>2, <1>3, <2>1, <2>3, <3>2 DEF Parents
    <3> QED
      BY <3>1, <3>2
  <2>4. u.freed \subseteq Allocated(u) \ {Root}
    BY <1>2, <1>3, <2>1 DEF Parents
  <2> QED
    BY <2>2, <2>3, <2>4 DEF Parents
<1> QED
  BY <1>2, <1>4, <1>5, <1>6 DEF Sane

(* What the contexts there were keep: their names, parents and children, but *)
(* for what was in the slot taken.                                           *)
LEMMA GrownKeeps ==
  ASSUME NEW t, NEW u \in Trees, NEW c, NEW n, NEW i \in Slots, Makes(t, c, n), Grown(t, u, c, n, i)
  PROVE  /\ \A b \in Allocated(t) : u.name[b] = t.name[b] /\ u.parent[b] = t.parent[b]
         /\ \A b \in Ids : u.num[b] \in Nat /\ t.num[b] \in Nat /\ t.num[b] <= u.num[b]
         /\ \A b \in Ids : b # c => u.num[b] = t.num[b] /\ u.children[b] = t.children[b]
         /\ u.num[c] = IF i + 1 > t.num[c] THEN i + 1 ELSE t.num[c]
         /\ \A k \in Slots : u.children[c][k] = IF k = i THEN t.next ELSE t.children[c][k]
         /\ u.parent[t.next] = c /\ u.name[t.next] = n
         /\ t.next \in ChildrenOf(u, c) /\ t.next \notin t.freed
         /\ ChildrenOf(t, c) \ Replaces(t, c, i) \subseteq ChildrenOf(u, c)
         /\ \A b \in Ids : b # c => ChildrenOf(u, b) = ChildrenOf(t, b) /\ Visible(u, b) = Visible(t, b)
<1> DEFINE new == t.next
<1>1. t \in Trees /\ c \in Ids /\ new \in Ids /\ new \notin Allocated(t) /\ Allocated(t) \subseteq Ids
  BY MakesFacts
<1>2. /\ \A b \in Ids \ {new} : u.name[b] = t.name[b] /\ u.parent[b] = t.parent[b]
      /\ \A b \in Ids : b # c => u.num[b] = t.num[b] /\ u.children[b] = t.children[b]
      /\ u.num[c] = IF i + 1 > t.num[c] THEN i + 1 ELSE t.num[c]
      /\ \A k \in Slots : u.children[c][k] = IF k = i THEN new ELSE t.children[c][k]
      /\ u.parent[new] = c /\ u.name[new] = n
  BY SMTT(30), <1>1, GrownFields
<1>3. \A b \in Ids : u.num[b] \in Nat /\ t.num[b] \in Nat
  BY <1>1, Fields
<1>4. i \in Nat
  BY Bounds
<1>5. \A b \in Ids : t.num[b] <= u.num[b]
  BY <1>2, <1>3, <1>4
<1>6. new \in ChildrenOf(u, c)
  <2>1. i < u.num[c] /\ u.children[c][i] = new /\ new # Null
    BY <1>1, <1>2, <1>3, <1>4, Bounds
  <2> QED
    BY <2>1 DEF ChildrenOf, Visible
<1>7. ASSUME NEW d \in ChildrenOf(t, c) \ Replaces(t, c, i) PROVE d \in ChildrenOf(u, c)
  <2>1. PICK k \in Slots : k < t.num[c] /\ d = t.children[c][k] /\ d # Null
    BY DEF ChildrenOf, Visible
  <2>2. k # i
    BY <1>7, <2>1 DEF Replaces
  <2>3. u.children[c][k] = d /\ k < u.num[c]
    BY <1>1, <1>2, <1>3, <1>5, <2>1, <2>2, Bounds
  <2> QED
    BY <2>1, <2>3 DEF ChildrenOf, Visible
<1>8. ASSUME NEW b \in Ids, b # c
      PROVE  ChildrenOf(u, b) = ChildrenOf(t, b) /\ Visible(u, b) = Visible(t, b)
  BY <1>2, <1>8 DEF ChildrenOf, Visible
<1>9. new \notin t.freed
  BY <1>1 DEF Makes, Sane, Parents
<1> QED
  BY <1>1, <1>2, <1>3, <1>5, <1>6, <1>7, <1>8, <1>9

(* If no slot came to light, the tree is still tidy.                         *)
LEMMA GrownTidy ==
  ASSUME NEW t, NEW u \in Trees, NEW c, NEW n, NEW i \in Slots, Makes(t, c, n), Grown(t, u, c, n, i),
         Tidy(t), c \in Live(t), ~Exposes(t, c, i)
  PROVE  /\ Tidy(u) /\ Live(u) = Live(t) \cup {t.next}
         /\ ChildrenOf(u, c) \subseteq ChildrenOf(t, c) \cup {t.next}
         /\ ChildrenOf(u, t.next) = {}
<1> DEFINE new == t.next
<1>1. /\ Sane(t) /\ t \in Trees /\ c \in Ids /\ c # new /\ new \in Ids
      /\ new \notin Allocated(t) /\ Allocated(t) \subseteq Ids
  BY MakesFacts
<1>2. /\ \A b \in Allocated(t) : u.name[b] = t.name[b]
      /\ u.num[c] = IF i + 1 > t.num[c] THEN i + 1 ELSE t.num[c]
      /\ \A k \in Slots : u.children[c][k] = IF k = i THEN new ELSE t.children[c][k]
      /\ u.name[new] = n /\ new \notin t.freed
      /\ \A b \in Ids : b # c => ChildrenOf(u, b) = ChildrenOf(t, b) /\ Visible(u, b) = Visible(t, b)
      /\ \A b \in Ids : b # c => u.children[b] = t.children[b]
      /\ t.num[c] \in Nat
  BY <1>1, GrownKeeps
<1>3. u.freed = t.freed /\ Live(u) = Live(t) \cup {new}
  BY SMTT(30), <1>2, GrownSane DEF Live, Grown
<1>4. ASSUME NEW k \in Visible(u, c), k # i
      PROVE  k \in Visible(t, c) /\ u.children[c][k] = t.children[c][k]
  <2>1. k \in Slots /\ k < u.num[c] /\ u.children[c][k] # Null /\ u.children[c][k] = t.children[c][k]
    BY <1>2, <1>4 DEF Visible
  <2>2. ~(t.num[c] <= k /\ k < i)
    BY <2>1 DEF Exposes
  <2>3. k < t.num[c]
    BY <1>2, <1>4, <2>1, <2>2, Bounds
  <2> QED
    BY <2>1, <2>3 DEF Visible
<1>5. ChildrenOf(u, c) \subseteq ChildrenOf(t, c) \cup {new}
  <2> SUFFICES ASSUME NEW k \in Visible(u, c), k # i PROVE u.children[c][k] \in ChildrenOf(t, c)
    BY <1>2 DEF ChildrenOf
  <2> QED
    BY <1>4 DEF ChildrenOf
<1>6. ChildrenOf(u, new) = {}
  <2>1. ChildrenOf(t, new) = {}
    <3>1. new >= t.next
      BY <1>1, Bounds
    <3>2. \A k \in Slots : t.children[new][k] = Null
      BY <1>1, <3>1 DEF Sane, Fresh
    <3> QED
      BY <3>2 DEF ChildrenOf, Visible
  <2> QED
    BY <1>1, <1>2, <2>1
<1>7. \A b \in Ids : ChildrenOf(t, b) \subseteq Allocated(t)
  BY <1>1, ChildFacts
<1>8. Differ(u, c)
  <2> SUFFICES ASSUME NEW k \in Visible(u, c), NEW l \in Visible(u, c),
                      u.name[u.children[c][k]] = u.name[u.children[c][l]]
               PROVE  k = l
    BY DEF Differ
  <2>1. ASSUME NEW j \in Visible(u, c), j # i
        PROVE  /\ j \in Visible(t, c) /\ u.children[c][j] = t.children[c][j]
               /\ u.name[u.children[c][j]] = t.name[t.children[c][j]]
               /\ u.name[u.children[c][j]] # n
    <3>1. j \in Visible(t, c) /\ u.children[c][j] = t.children[c][j]
      BY <1>4, <2>1
    <3>2. t.children[c][j] \in Allocated(t)
      BY <1>1, <1>7, <3>1 DEF ChildrenOf
    <3>3. t.name[t.children[c][j]] # n
      BY <3>1 DEF Makes, Named
    <3> QED
      BY <1>2, <3>1, <3>2, <3>3
  <2>2. u.name[u.children[c][i]] = n
    BY <1>2
  <2>3. Differ(t, c)
    BY DEF Tidy
  <2>4. CASE k # i /\ l # i
    BY <2>1, <2>3, <2>4 DEF Differ
  <2>5. CASE k = i \/ l = i
    BY <2>1, <2>2, <2>5
  <2> QED
    BY <2>4, <2>5
<1>9. ASSUME NEW b \in Live(u) PROVE ChildrenOf(u, b) \cap u.freed = {} /\ Differ(u, b)
  <2>1. CASE b = c
    BY <1>2, <1>3, <1>5, <1>8, <2>1 DEF Tidy
  <2>2. CASE b = new
    <3>1. Visible(u, new) = {}
      BY <1>6 DEF ChildrenOf
    <3> QED
      BY <1>6, <2>2, <3>1 DEF Differ
  <2>3. CASE b \in Live(t) /\ b # c
    <3>1. b \in Ids /\ b \in Allocated(t)
      BY <1>1, <2>3 DEF Live
    <3>2. ChildrenOf(t, b) \cap t.freed = {} /\ Differ(t, b)
      BY <2>3 DEF Tidy
    <3>3. ASSUME NEW k \in Visible(t, b) PROVE u.name[u.children[b][k]] = t.name[t.children[b][k]]
      <4>1. t.children[b][k] \in Allocated(t)
        BY <1>7, <3>1 DEF ChildrenOf
      <4> QED
        BY <1>2, <2>3, <3>1, <4>1
    <3>4. Differ(u, b)
      BY <1>2, <2>3, <3>1, <3>2, <3>3 DEF Differ
    <3> QED
      BY <1>2, <1>3, <2>3, <3>1, <3>2, <3>4
  <2> QED
    BY <1>3, <2>1, <2>2, <2>3
<1>10. ASSUME NEW b \in u.freed PROVE ChildrenOf(u, b) \subseteq u.freed
  <2>1. b \in Ids /\ b # c /\ b \in t.freed
    BY <1>1, <1>3, Fields DEF Live
  <2> QED
    BY <1>2, <1>3, <2>1 DEF Tidy
<1> QED
  BY <1>3, <1>5, <1>6, <1>9, <1>10 DEF Tidy

(* Each live context is still at home, or in the slot taken.                 *)
LEMMA GrownHomed ==
  ASSUME NEW t, NEW u \in Trees, NEW c, NEW n, NEW i \in Slots, Makes(t, c, n), Grown(t, u, c, n, i),
         NEW gone, Homed(t, gone)
  PROVE  Homed(u, gone \cup Replaces(t, c, i))
<1> SUFFICES ASSUME NEW x \in Live(u) \ {Root}, x \notin gone \cup Replaces(t, c, i)
             PROVE  x \in ChildrenOf(u, u.parent[x])
  BY DEF Homed
<1>1. /\ \A b \in Allocated(t) : u.parent[b] = t.parent[b]
      /\ u.parent[t.next] = c /\ t.next \in ChildrenOf(u, c)
      /\ ChildrenOf(t, c) \ Replaces(t, c, i) \subseteq ChildrenOf(u, c)
      /\ \A b \in Ids : b # c => ChildrenOf(u, b) = ChildrenOf(t, b)
  BY GrownKeeps
<1>2. Allocated(u) = Allocated(t) \cup {t.next} /\ u.freed = t.freed
  BY GrownSane DEF Grown
<1>3. CASE x = t.next
  BY <1>1, <1>3
<1>4. CASE x # t.next
  <2>1. x \in Live(t) \ {Root} /\ x \in Allocated(t)
    BY <1>2, <1>4 DEF Live
  <2>2. x \in ChildrenOf(t, t.parent[x])
    BY <2>1 DEF Homed
  <2>3. t.parent[x] \in Ids
    <3>1. t.parent[x] \in 1 .. x - 1 /\ x \in Ids
      BY <2>1, Fields DEF Makes, Sane, Parents
    <3> QED
      BY <3>1, Bounds
  <2> QED
    BY <1>1, <2>1, <2>2, <2>3
<1> QED
  BY <1>3, <1>4

-----------------------------------------------------------------------------
(* delete: the loop over the slots of a context.                             *)

(* One round of the loop of Shifted.                                         *)
Round(t, d, c, i, p) ==
  LET n == t.num[d]
      j == IF p.children[i - 1] = c THEN p.j + 1 ELSE p.j
  IN  IF j >= n THEN [children |-> p.children, j |-> n]
      ELSE [children |-> [p.children EXCEPT ![i - 1] = p.children[j]], j |-> j + 1]

(* What the slots of d may hold during the loop, and how far it has read.    *)
Pointers(t, d) == {t.children[d][k] : k \in Slots}
Rounds(t, d) == [children : [Slots -> Pointers(t, d)], j : 0 .. t.num[d]]

(* The loops that Shifted may be.                                            *)
Shiftings(t, d, c) ==
  {w \in [0 .. t.num[d] -> Rounds(t, d)] :
     /\ w[0] = [children |-> t.children[d], j |-> 0]
     /\ \A i \in 1 .. t.num[d] : w[i] = Round(t, d, c, i, w[i - 1])
     /\ Shifted(t, d, c) = w[t.num[d]].children}

(* A round leaves pointers that were there.                                  *)
LEMMA RoundType ==
  ASSUME NEW t \in Trees, NEW d \in Ids, NEW c, NEW i \in 1 .. t.num[d], NEW p \in Rounds(t, d)
  PROVE  Round(t, d, c, i, p) \in Rounds(t, d)
<1> DEFINE n == t.num[d]
           K == Pointers(t, d)
           j == IF p.children[i - 1] = c THEN p.j + 1 ELSE p.j
<1>1. n \in Nat /\ n <= MaxSlots /\ p.children \in [Slots -> K] /\ p.j \in 0 .. n /\ i \in Nat
  BY Fields, Bounds DEF Rounds
<1>2. i - 1 \in Slots /\ j \in Nat
  <2>1. i - 1 \in Slots
    BY <1>1, Bounds
  <2>2. p.j \in Nat /\ p.j + 1 \in Nat
    BY <1>1
  <2> QED
    BY <2>1, <2>2
<1>3. Round(t, d, c, i, p)
        = IF j >= n THEN [children |-> p.children, j |-> n]
          ELSE [children |-> [p.children EXCEPT ![i - 1] = p.children[j]], j |-> j + 1]
  BY DEF Round
<1>4. CASE j >= n
  BY <1>1, <1>3, <1>4 DEF Rounds
<1>5. CASE ~(j >= n)
  <2>1. j \in Slots /\ j + 1 \in 0 .. n
    <3> HIDE DEF j
    <3>1. j < n /\ MaxSlots \in Nat
      BY <1>1, <1>2, <1>5, Bounds
    <3> QED
      BY <1>1, <1>2, <3>1, Bounds
  <2>2. p.children[j] \in K
    BY <1>1, <2>1
  <2> HIDE DEF j, K
  <2>3. [p.children EXCEPT ![i - 1] = p.children[j]] \in [Slots -> K]
    BY <1>1, <1>2, <2>2
  <2> QED
    BY <1>3, <1>5, <2>1, <2>3 DEF Rounds, K
<1> QED
  BY <1>4, <1>5

(* The recursion of Shifted is such a loop.                                  *)
LEMMA Shifts ==
  ASSUME NEW t \in Trees, NEW d \in Ids, NEW c
  PROVE  Shiftings(t, d, c) # {}
<1> DEFINE n == t.num[d]
           T == Rounds(t, d)
           first == [children |-> t.children[d], j |-> 0]
           F == [i \in 1 .. n |-> [p \in T |-> Round(t, d, c, i, p)]]
           Body(w) == [i \in 0 .. n |-> IF i = 0 THEN first ELSE Round(t, d, c, i, w[i - 1])]
           a == CHOOSE w : w = Body(w)
<1>1. n \in Nat
  BY Fields
<1>2. first \in T
  <2>1. t.children[d] \in [Slots -> Ids \cup {Null}]
    BY Fields
  <2>2. t.children[d] \in [Slots -> Pointers(t, d)]
    BY <2>1 DEF Pointers
  <2> QED
    BY <1>1, <2>2 DEF Rounds
<1>3. F \in Steps(n, T)
  BY RoundType DEF Steps
<1>4. ASSUME NEW i \in 1 .. n, NEW p \in T PROVE F[i][p] = Round(t, d, c, i, p)
  OBVIOUS
<1> HIDE DEF F, T, first
<1>5. PICK g \in [0 .. n -> T] : g[0] = first /\ \A i \in 1 .. n : g[i] = F[i][g[i - 1]]
  <2>1. Runs(n, T, first, F) # {}
    BY <1>1, <1>2, <1>3, Recursion
  <2> QED
    BY <2>1 DEF Runs
<1>6. \A i \in 1 .. n : g[i] = Round(t, d, c, i, g[i - 1])
  <2> SUFFICES ASSUME NEW i \in 1 .. n PROVE g[i] = Round(t, d, c, i, g[i - 1])
    OBVIOUS
  <2>1. g[i - 1] \in T
    BY <1>1
  <2> QED
    BY <1>4, <1>5, <2>1
<1>7. g = Body(g)
  BY <1>1, <1>5, <1>6
<1>8. a = Body(a)
  <2> HIDE DEF Body
  <2> QED
    BY <1>7
<1>9. Shifted(t, d, c) = a[n].children
  BY DEF Shifted, Round, first
<1>10. /\ a = [i \in 0 .. n |-> a[i]] /\ a[0] = first
       /\ \A i \in 1 .. n : a[i] = Round(t, d, c, i, a[i - 1])
  <2> HIDE DEF a
  <2>1. a = [i \in 0 .. n |-> a[i]] /\ a[0] = first
    BY <1>1, <1>8
  <2>2. ASSUME NEW i \in 1 .. n PROVE a[i] = Round(t, d, c, i, a[i - 1])
    <3>1. i \in 0 .. n /\ i # 0
      BY <1>1
    <3> QED
      BY <1>8, <3>1
  <2> QED
    BY <2>1, <2>2
<1>11. a \in Runs(n, T, first, F)
  <2>1. \A i \in 1 .. n : a[i - 1] \in T => a[i] = F[i][a[i - 1]]
    <3> HIDE DEF a
    <3> QED
      BY <1>4, <1>10
  <2> HIDE DEF a
  <2> QED
    BY <1>1, <1>2, <1>3, <1>10, <2>1, Follows
<1>12. a \in [0 .. n -> T]
  BY <1>11 DEF Runs
<1> HIDE DEF a
<1> QED
  BY <1>9, <1>10, <1>12 DEF Shiftings, T, first

(* It leaves pointers that were there.                                       *)
LEMMA ShiftedType ==
  ASSUME NEW t \in Trees, NEW d \in Ids, NEW c
  PROVE  Shifted(t, d, c) \in [Slots -> Pointers(t, d)]
<1>1. PICK w \in Shiftings(t, d, c) : TRUE
  BY Shifts
<1>2. t.num[d] \in 0 .. t.num[d]
  <2>1. t.num[d] \in Nat
    BY Fields
  <2> QED
    BY <2>1
<1>3. w[t.num[d]] \in Rounds(t, d) /\ Shifted(t, d, c) = w[t.num[d]].children
  BY <1>2 DEF Shiftings
<1> QED
  BY <1>3 DEF Rounds

(* The slots from at on are moved down by one.                               *)
Moved(t, d, at) ==
  [k \in Slots |-> IF at <= k /\ k + 1 < t.num[d] THEN t.children[d][k + 1] ELSE t.children[d][k]]

(* If c is in slot at and no other, the slots behind it are moved down; if   *)
(* it is in none, nothing is moved.                                          *)
LEMMA ShiftedMoves ==
  ASSUME NEW t \in Trees, NEW d \in Ids, NEW c, NEW at \in 0 .. t.num[d],
         \A k \in Slots : k < t.num[d] => (t.children[d][k] = c <=> k = at)
  PROVE  Shifted(t, d, c) = Moved(t, d, at)
<1> DEFINE n == t.num[d]
           orig == t.children[d]
           So(i, k) == IF at <= k /\ k < i /\ k + 1 < n THEN orig[k + 1] ELSE orig[k]
           Read(i) == IF i <= at THEN i ELSE IF i + 1 >= n THEN n ELSE i + 1
<1>1. PICK w \in Shiftings(t, d, c) : TRUE
  BY Shifts
<1>2. n \in Nat /\ n <= MaxSlots /\ orig \in [Slots -> Ids \cup {Null}] /\ at \in Nat /\ at <= n
  <2>1. n \in 0 .. MaxSlots
    BY Fields
  <2> QED
    BY <2>1, Fields, Bounds
<1>3. /\ w \in [0 .. n -> Rounds(t, d)] /\ w[0] = [children |-> orig, j |-> 0]
      /\ \A i \in 1 .. n : w[i] = Round(t, d, c, i, w[i - 1])
      /\ Shifted(t, d, c) = w[n].children
  BY DEF Shiftings
<1> DEFINE S == {i \in 0 .. n : w[i] = [children |-> [k \in Slots |-> So(i, k)], j |-> Read(i)]}
<1>4. 0 \in S
  <2>1. orig = [k \in Slots |-> So(0, k)]
    <3>1. \A k \in Slots : So(0, k) = orig[k]
      BY <1>2, Bounds
    <3> HIDE DEF So
    <3> QED
      BY <1>2, <3>1
  <2>2. Read(0) = 0
    BY <1>2
  <2>3. 0 \in 0 .. n
    BY <1>2
  <2> HIDE DEF So, Read
  <2> QED
    BY <1>3, <2>1, <2>2, <2>3
<1>5. ASSUME NEW i \in 0 .. n - 1, i \in S PROVE i + 1 \in S
  <2> DEFINE p == w[i]
             j == IF p.children[i] = c THEN p.j + 1 ELSE p.j
             q == [k \in Slots |-> So(i, k)]
  <2>1. /\ i + 1 \in 1 .. n /\ i + 1 \in 0 .. n /\ (i + 1) - 1 = i /\ i \in Nat /\ i < n
        /\ i \in Slots
    BY <1>2, Bounds
  <2>2. p.children = q /\ p.j = Read(i)
    BY <1>5
  <2>3. w[i + 1] = IF j >= n THEN [children |-> q, j |-> n]
                   ELSE [children |-> [q EXCEPT ![i] = q[j]], j |-> j + 1]
    <3> HIDE DEF q
    <3>1. w[i + 1] = Round(t, d, c, i + 1, w[i])
      BY <1>3, <2>1
    <3> QED
      BY <2>1, <2>2, <3>1 DEF Round
  <2>4. q[i] = orig[i]
    BY <2>1
  <2>5. p.children[i] = c <=> i = at
    BY <2>1, <2>2, <2>4
  <2> HIDE DEF p
  <2>6. CASE i < at
    <3>1. j = i
      BY <1>2, <2>1, <2>2, <2>5, <2>6
    <3>2. w[i + 1] = [children |-> [q EXCEPT ![i] = q[i]], j |-> i + 1]
      <4> HIDE DEF q, j
      <4>1. ~(j >= n)
        BY <1>2, <2>1, <3>1
      <4> QED
        BY <2>3, <3>1, <4>1
    <3>3. [q EXCEPT ![i] = q[i]] = [k \in Slots |-> So(i + 1, k)]
      <4>1. \A k \in Slots : So(i + 1, k) = So(i, k)
        BY <1>2, <2>1, <2>6, Bounds
      <4> HIDE DEF So
      <4> QED
        BY <4>1
    <3>4. Read(i + 1) = i + 1
      BY <1>2, <2>1, <2>6
    <3> QED
      BY <2>1, <3>2, <3>3, <3>4
  <2>7. CASE i >= at
    <3>1. j = IF i + 1 >= n THEN n ELSE i + 1
      BY <1>2, <2>1, <2>2, <2>5, <2>7
    <3>2. CASE i + 1 >= n
      <4>1. w[i + 1] = [children |-> q, j |-> n]
        <5> HIDE DEF q, j
        <5> QED
          BY <1>2, <2>3, <3>1, <3>2
      <4>2. q = [k \in Slots |-> So(i + 1, k)]
        <5>1. \A k \in Slots : So(i + 1, k) = So(i, k)
          BY <1>2, <2>1, <2>7, <3>2, Bounds
        <5> HIDE DEF So
        <5> QED
          BY <5>1
      <4>3. Read(i + 1) = n
        BY <1>2, <2>1, <2>7, <3>2
      <4> QED
        BY <2>1, <4>1, <4>2, <4>3
    <3>3. CASE i + 1 < n
      <4>1. w[i + 1] = [children |-> [q EXCEPT ![i] = q[i + 1]], j |-> (i + 1) + 1]
        <5> HIDE DEF q, j
        <5>1. j = i + 1 /\ ~(j >= n)
          BY <1>2, <2>1, <3>1, <3>3
        <5> QED
          BY <2>3, <5>1
      <4>2. [q EXCEPT ![i] = q[i + 1]] = [k \in Slots |-> So(i + 1, k)]
        <5>1. i + 1 \in Slots
          BY <1>2, <2>1, <3>3, Bounds
        <5>2. So(i, i + 1) = orig[i + 1] /\ So(i + 1, i) = orig[i + 1]
          BY <1>2, <2>1, <2>7, <3>3
        <5>3. \A k \in Slots : k # i => So(i + 1, k) = So(i, k)
          BY <1>2, <2>1, Bounds
        <5> HIDE DEF So
        <5>4. q[i + 1] = orig[i + 1]
          BY <5>1, <5>2
        <5> QED
          BY <2>1, <5>2, <5>3, <5>4
      <4>3. Read(i + 1) = (i + 1) + 1
        BY <1>2, <2>1, <2>7, <3>3
      <4> QED
        BY <2>1, <4>1, <4>2, <4>3
    <3> QED
      BY <1>2, <2>1, <3>2, <3>3
  <2> QED
    BY <1>2, <2>1, <2>6, <2>7
<1>6. 0 .. n \subseteq S
  <2> HIDE DEF S
  <2> QED
    BY <1>2, <1>4, <1>5, UpTo
<1>7. w[n].children = [k \in Slots |-> So(n, k)]
  <2>1. n \in S
    <3> HIDE DEF S
    <3>1. n \in 0 .. n
      BY <1>2
    <3> QED
      BY <1>6, <3>1
  <2> HIDE DEF So, Read
  <2> QED
    BY <2>1
<1>8. \A k \in Slots : So(n, k) = IF at <= k /\ k + 1 < n THEN orig[k + 1] ELSE orig[k]
  BY <1>2, Bounds
<1> HIDE DEF So
<1> QED
  BY <1>3, <1>7, <1>8 DEF Moved

-----------------------------------------------------------------------------
(* delete: the tree without a context.                                       *)

Parted(t, c) ==
  [t EXCEPT !.children[t.parent[c]] = Shifted(t, t.parent[c], c),
            !.num[t.parent[c]] = @ - 1,
            !.freed = @ \cup Freed(t, c)]

(* Where a context can be deleted: its parent counts a child.                *)
Parts(t, c) ==
  Sane(t) /\ c \in Live(t) \ {Root} /\ t.parent[c] \in Live(t) /\ t.num[t.parent[c]] > 0

(* The tree without c, field by field.                                       *)
LEMMA PartedFields ==
  ASSUME NEW t, NEW c, Parts(t, c)
  PROVE  LET u == Parted(t, c)
             d == t.parent[c]
         IN  /\ u.freed = t.freed \cup Below(t, c) /\ u.name = t.name
             /\ u.parent = t.parent /\ u.next = t.next
             /\ u.children[d] = Shifted(t, d, c) /\ u.num[d] = t.num[d] - 1
             /\ \A b \in Ids : b # d => u.children[b] = t.children[b] /\ u.num[b] = t.num[b]
             /\ u \in Trees /\ t \in Trees /\ d \in Allocated(t) /\ d \in Ids /\ c \in Ids
             /\ c \in Allocated(t)
<1> DEFINE u == Parted(t, c)
           d == t.parent[c]
           s == Shifted(t, d, c)
<1>1. t \in Trees /\ d \in Allocated(t) /\ c \in Allocated(t) /\ d \in Live(t) /\ t.num[d] > 0
  BY DEF Parts, Sane, Live
<1>2. d \in Ids /\ c \in Ids /\ t.num[d] \in 0 .. MaxSlots
  BY <1>1, Fields
<1>3. t.num[d] - 1 \in 0 .. MaxSlots
  <2> DEFINE m == t.num[d]
  <2>1. m > 0 /\ m \in 0 .. MaxSlots
    BY <1>1, <1>2
  <2> HIDE DEF m
  <2>2. m - 1 \in 0 .. MaxSlots
    BY <2>1, Bounds
  <2> QED
    BY <2>2 DEF m
<1>4. s \in [Slots -> Ids \cup {Null}]
  <2>1. \A k \in Slots : t.children[d][k] \in Ids \cup {Null}
    BY <1>1, <1>2, Fields
  <2>2. s \in [Slots -> Pointers(t, d)]
    BY <1>1, <1>2, ShiftedType
  <2>3. Pointers(t, d) \subseteq Ids \cup {Null}
    BY <2>1 DEF Pointers
  <2> HIDE DEF s
  <2> QED
    BY <2>2, <2>3
<1> HIDE DEF s, d
<1>5. u = [t EXCEPT !.children = [t.children EXCEPT ![d] = s],
                    !.num = [t.num EXCEPT ![d] = t.num[d] - 1],
                    !.freed = t.freed \cup Below(t, c)]
  BY DEF Parted, Freed, s, d
<1> HIDE DEF u
<1>6. /\ u.children = [t.children EXCEPT ![d] = s] /\ u.num = [t.num EXCEPT ![d] = t.num[d] - 1]
      /\ u.freed = t.freed \cup Below(t, c)
      /\ u.name = t.name /\ u.parent = t.parent /\ u.next = t.next
  BY <1>1, <1>5 DEF Trees
<1>7. /\ t.children \in [Ids -> [Slots -> Ids \cup {Null}]] /\ t.num \in [Ids -> 0 .. MaxSlots]
      /\ t.freed \cup Below(t, c) \in SUBSET Ids
  <2>1. Below(t, c) \subseteq Allocated(t)
    BY <1>1, BelowFacts DEF Parts
  <2> QED
    BY <1>1, <2>1, Fields
<1>8. u.children \in [Ids -> [Slots -> Ids \cup {Null}]] /\ u.num \in [Ids -> 0 .. MaxSlots]
  <2>1. u.children \in [Ids -> [Slots -> Ids \cup {Null}]]
    BY <1>4, <1>6, <1>7
  <2>2. u.num \in [Ids -> 0 .. MaxSlots]
    BY <1>3, <1>6, <1>7
  <2> QED
    BY <2>1, <2>2
<1>9. u \in Trees
  BY <1>1, <1>5, <1>6, <1>7, <1>8 DEF Trees
<1>10. u.children[d] = s /\ u.num[d] = t.num[d] - 1
  BY <1>2, <1>6, <1>7
<1>11. \A b \in Ids : b # d => u.children[b] = t.children[b] /\ u.num[b] = t.num[b]
  BY <1>6, <1>7
<1> QED
  BY <1>1, <1>2, <1>6, <1>9, <1>10, <1>11, Zenon DEF u, s, d

(* It is still sane.                                                         *)
LEMMA PartedSane ==
  ASSUME NEW t, NEW c, Parts(t, c)
  PROVE  Sane(Parted(t, c)) /\ Allocated(Parted(t, c)) = Allocated(t)
<1> DEFINE u == Parted(t, c)
           d == t.parent[c]
<1>1. /\ u.freed = t.freed \cup Below(t, c) /\ u.name = t.name
      /\ u.parent = t.parent /\ u.next = t.next
      /\ u.children[d] = Shifted(t, d, c)
      /\ \A b \in Ids : b # d => u.children[b] = t.children[b] /\ u.num[b] = t.num[b]
      /\ u \in Trees /\ t \in Trees /\ d \in Allocated(t) /\ d \in Ids /\ c \in Ids
      /\ c \in Allocated(t)
  BY PartedFields
<1>2. Shifted(t, d, c) \in [Slots -> Pointers(t, d)]
  BY <1>1, ShiftedType
<1>3. Sane(t) /\ c # Root /\ d \in 1 .. t.next - 1 /\ t.next \in Nat
  BY <1>1, Fields DEF Parts
<1> HIDE DEF u, d
<1>4. Allocated(u) = Allocated(t)
  BY <1>1 DEF Allocated
<1>5. SlotsOwn(u)
  <2> SUFFICES ASSUME NEW b \in Ids, NEW k \in Slots, NEW e, e = u.children[b][k], e # Null
               PROVE  u.parent[e] = b /\ b < e /\ e < u.next
    BY DEF SlotsOwn
  <2>1. \E l \in Slots : e = t.children[b][l]
    BY <1>1, <1>2 DEF Pointers
  <2> QED
    BY <1>1, <1>3, <2>1 DEF Sane, SlotsOwn
<1>6. Fresh(u)
  <2> SUFFICES ASSUME NEW b \in Ids, b >= t.next
               PROVE  u.num[b] = 0 /\ \A k \in Slots : u.children[b][k] = Null
    BY <1>1 DEF Fresh
  <2>1. b # d
    BY <1>3, Bounds
  <2> QED
    BY <1>1, <1>3, <2>1 DEF Sane, Fresh
<1>7. Below(t, c) \subseteq Allocated(t) \ {Root}
  <2>1. \A x \in Below(t, c) : x >= c
    BY <1>1, <1>3, BelowFacts
  <2>2. c > Root
    BY <1>1, <1>3, Bounds
  <2>3. c \in Nat /\ Root \in Nat
    BY <1>1, Bounds
  <2>4. Root \notin Below(t, c)
    BY <2>1, <2>2, <2>3
  <2> QED
    BY <1>1, <1>3, <2>4, BelowFacts
<1>8. Parents(u)
  BY <1>1, <1>3, <1>4, <1>7 DEF Sane, Parents
<1> QED
  BY <1>1, <1>4, <1>5, <1>6, <1>8 DEF Sane, u

(* The slots of the parent, as they come from slots there were.              *)
LEMMA PartedSlots ==
  ASSUME NEW t, NEW c, Parts(t, c), Tidy(t)
  PROVE  LET u == Parted(t, c)
             d == t.parent[c]
         IN  /\ ChildrenOf(u, d) \subseteq ChildrenOf(t, d) \ {c}
             /\ ChildrenOf(t, d) \ (Dropped(t, d, c) \cup {c}) \subseteq ChildrenOf(u, d)
             /\ Differ(u, d)
<1> DEFINE u == Parted(t, c)
           d == t.parent[c]
           n == t.num[d]
           old == t.children[d]
           new == u.children[d]
<1>1. /\ u.name = t.name /\ new = Shifted(t, d, c) /\ u.num[d] = n - 1
      /\ t \in Trees /\ d \in Ids /\ c \in Ids
  BY PartedFields
<1>2. /\ Differ(t, d) /\ c # Null /\ n \in Nat /\ n > 0 /\ n <= MaxSlots
  <2>1. t.num[d] \in 0 .. MaxSlots
    BY <1>1, Fields
  <2> QED
    BY <1>1, <2>1, Bounds DEF Parts, Tidy
<1> DEFINE In(k) == k \in Slots /\ k < n /\ old[k] = c
<1>3. PICK at \in 0 .. n : \A k \in Slots : k < n => (old[k] = c <=> k = at)
  <2>1. CASE c \in ChildrenOf(t, d)
    <3>1. PICK k \in Slots : k < n /\ old[k] = c
      BY <2>1 DEF ChildrenOf, Visible
    <3>2. ASSUME NEW l \in Slots, l < n, old[l] = c PROVE l = k
      BY <1>2, <3>1, <3>2 DEF Differ, Visible
    <3>3. k \in 0 .. n
      BY <1>2, <3>1, Bounds
    <3> QED
      BY <3>1, <3>2, <3>3
  <2>2. CASE c \notin ChildrenOf(t, d)
    <3>1. \A k \in Slots : k < n => old[k] # c
      BY <1>2, <2>2 DEF ChildrenOf, Visible
    <3>2. \A k \in Slots : k < n => k # n
      BY <1>2, Bounds
    <3>3. n \in 0 .. n
      BY <1>2
    <3> QED
      BY <3>1, <3>2, <3>3
  <2> QED
    BY <2>1, <2>2
<1>4. new = Moved(t, d, at)
  BY <1>1, <1>3, ShiftedMoves
<1>5. at \in Nat /\ \A k \in Slots : k \in Nat
  BY <1>2, Bounds
<1>6. at = n \/ c \in ChildrenOf(t, d)
  <2> SUFFICES ASSUME at # n PROVE c \in ChildrenOf(t, d)
    OBVIOUS
  <2>1. at \in Slots /\ at < n
    BY <1>2, <1>5, Bounds
  <2>2. old[at] = c
    BY <1>3, <2>1
  <2> QED
    BY <1>2, <2>1, <2>2 DEF ChildrenOf, Visible
<1> DEFINE From(k) == IF at <= k THEN k + 1 ELSE k
<1>7. ASSUME NEW k \in Visible(u, d)
      PROVE  From(k) \in Visible(t, d) /\ new[k] = old[From(k)] /\ From(k) # at
  <2>1. k \in Slots /\ k < n - 1 /\ new[k] # Null
    BY <1>1 DEF Visible
  <2>2. From(k) \in Slots /\ From(k) < n /\ From(k) # at
    BY <1>2, <1>5, <2>1, Bounds
  <2>3. new[k] = old[From(k)]
    BY <1>2, <1>4, <1>5, <2>1 DEF Moved
  <2> HIDE DEF From
  <2> QED
    BY <2>1, <2>2, <2>3 DEF Visible
<1>8. ChildrenOf(u, d) \subseteq ChildrenOf(t, d) \ {c}
  <2> SUFFICES ASSUME NEW k \in Visible(u, d) PROVE new[k] \in ChildrenOf(t, d) /\ new[k] # c
    BY DEF ChildrenOf
  <2> HIDE DEF From
  <2>1. From(k) \in Visible(t, d) /\ new[k] = old[From(k)] /\ From(k) # at
    BY <1>7
  <2>2. old[From(k)] # c
    BY <1>3, <2>1 DEF Visible
  <2> QED
    BY <2>1, <2>2 DEF ChildrenOf
<1>9. ASSUME NEW e \in ChildrenOf(t, d), e \notin Dropped(t, d, c), e # c
      PROVE  e \in ChildrenOf(u, d)
  <2>1. PICK k \in Slots : k < n /\ old[k] = e /\ e # Null
    BY DEF ChildrenOf, Visible
  <2>2. k # at
    BY <1>3, <1>9, <2>1
  <2>3. CASE k < at
    <3>1. k < n - 1
      <4>1. CASE at = n
        <5>1. c \notin ChildrenOf(t, d)
          <6> SUFFICES ASSUME NEW l \in Slots, l < n, old[l] = c PROVE FALSE
            BY DEF ChildrenOf, Visible
          <6> QED
            BY <1>3, <1>2, <1>5, <4>1
        <5>2. Dropped(t, d, c) = {old[n - 1]} \ {Null}
          BY SMTT(30), <1>2, <5>1 DEF Dropped
        <5>3. k # n - 1
          BY <1>9, <2>1, <5>2
        <5> QED
          BY <1>2, <1>5, <2>1, <5>3
      <4>2. CASE at # n
        BY <1>2, <1>5, <2>1, <2>3, <4>2
      <4> QED
        BY <4>1, <4>2
    <3>2. new[k] = e
      BY <1>4, <1>5, <2>1, <2>3 DEF Moved
    <3> QED
      BY <1>1, <2>1, <3>1, <3>2 DEF ChildrenOf, Visible
  <2>4. CASE k > at
    <3>1. k - 1 \in Slots /\ k - 1 < n - 1 /\ at <= k - 1 /\ (k - 1) + 1 = k
      BY <1>2, <1>5, <2>1, <2>4, Bounds
    <3>2. new[k - 1] = e
      BY <1>4, <2>1, <3>1 DEF Moved
    <3> QED
      BY <1>1, <2>1, <3>1, <3>2 DEF ChildrenOf, Visible
  <2> QED
    BY <1>5, <2>2, <2>3, <2>4
<1>10. Differ(u, d)
  <2> SUFFICES ASSUME NEW k \in Visible(u, d), NEW l \in Visible(u, d),
                      u.name[new[k]] = u.name[new[l]]
               PROVE  k = l
    BY DEF Differ
  <2>1. From(k) = From(l)
    <3> HIDE DEF From
    <3>1. /\ From(k) \in Visible(t, d) /\ new[k] = old[From(k)]
          /\ From(l) \in Visible(t, d) /\ new[l] = old[From(l)]
      BY <1>7
    <3>2. t.name[old[From(k)]] = t.name[old[From(l)]]
      BY <1>1, <3>1
    <3> QED
      BY <1>2, <3>1, <3>2 DEF Differ
  <2>2. k \in Nat /\ l \in Nat
    BY <1>5 DEF Visible
  <2> QED
    BY SMTT(30), <1>5, <2>1, <2>2
<1> QED
  BY <1>8, <1>9, <1>10

(* It is still tidy, and no live context is lost but the one dropped.        *)
LEMMA PartedTidy ==
  ASSUME NEW t, NEW c, NEW gone, Parts(t, c), Tidy(t), Homed(t, gone)
  PROVE  /\ Tidy(Parted(t, c))
         /\ Homed(Parted(t, c), gone \cup Dropped(t, t.parent[c], c))
<1> DEFINE u == Parted(t, c)
           d == t.parent[c]
           B == Below(t, c)
<1>1. /\ u.freed = t.freed \cup B /\ u.name = t.name /\ u.parent = t.parent
      /\ \A b \in Ids : b # d => u.children[b] = t.children[b] /\ u.num[b] = t.num[b]
      /\ t \in Trees /\ d \in Ids /\ c \in Ids /\ c \in Allocated(t)
  BY PartedFields
<1>2. /\ ChildrenOf(u, d) \subseteq ChildrenOf(t, d) \ {c}
      /\ ChildrenOf(t, d) \ (Dropped(t, d, c) \cup {c}) \subseteq ChildrenOf(u, d)
      /\ Differ(u, d)
  BY PartedSlots
<1>3. /\ Sane(t) /\ Allocated(u) = Allocated(t) /\ Allocated(t) \subseteq Ids
  BY <1>1, PartedSane, Fields DEF Parts
<1>4. /\ c \in B /\ B \subseteq Allocated(t) /\ (\A x \in B : ChildrenOf(t, x) \subseteq B)
      /\ \A x \in B : x # c => t.parent[x] \in B
  BY <1>1, <1>3, BelowFacts
<1> HIDE DEF u, B
<1>5. \A b \in Ids : b # d => ChildrenOf(u, b) = ChildrenOf(t, b) /\ Visible(u, b) = Visible(t, b)
  BY <1>1 DEF ChildrenOf, Visible
<1>6. \A b \in Ids : ChildrenOf(u, b) \subseteq ChildrenOf(t, b)
  BY <1>2, <1>5
<1>7. Live(u) = Live(t) \ B
  BY <1>1, <1>3 DEF Live
<1>8. ASSUME NEW b \in Live(u) PROVE ChildrenOf(u, b) \cap u.freed = {} /\ Differ(u, b)
  <2>1. b \in Live(t) /\ b \notin B /\ b \in Ids
    BY <1>3, <1>7 DEF Live
  <2>2. ChildrenOf(t, b) \cap t.freed = {} /\ Differ(t, b)
    BY <2>1 DEF Tidy
  <2>3. ASSUME NEW e \in ChildrenOf(u, b), e \in B PROVE FALSE
    <3>1. t.parent[e] = b
      BY <1>3, <1>6, <2>1, <2>3, ChildFacts
    <3>2. e = c
      BY <1>4, <2>1, <2>3, <3>1
    <3> QED
      BY <1>2, <2>3, <3>1, <3>2
  <2>4. Differ(u, b)
    <3>1. CASE b = d
      BY <1>2, <3>1
    <3>2. CASE b # d
      BY <1>1, <1>5, <2>1, <2>2, <3>2 DEF Differ
    <3> QED
      BY <3>1, <3>2
  <2> QED
    BY <1>1, <1>6, <2>1, <2>2, <2>3, <2>4
<1>9. ASSUME NEW b \in u.freed PROVE ChildrenOf(u, b) \subseteq u.freed
  <2>1. b \in Ids
    BY <1>1, <1>3, <1>4, Fields
  <2> QED
    BY <1>1, <1>4, <1>6, <2>1 DEF Tidy
<1>10. ASSUME NEW x \in Live(u) \ {Root}, x \notin gone, x \notin Dropped(t, d, c)
       PROVE  x \in ChildrenOf(u, u.parent[x])
  <2>1. x \in Live(t) \ {Root} /\ x # c /\ x \in Allocated(t)
    BY <1>4, <1>7 DEF Live
  <2>2. x \in ChildrenOf(t, t.parent[x])
    BY <1>10, <2>1 DEF Homed
  <2>3. t.parent[x] \in Ids
    <3>1. t.parent[x] \in 1 .. x - 1 /\ x \in Ids
      BY <1>3, <2>1 DEF Sane, Parents
    <3> QED
      BY <3>1, Bounds
  <2> QED
    BY <1>1, <1>2, <1>5, <1>10, <2>1, <2>2, <2>3
<1>11. Tidy(u)
  BY <1>8, <1>9 DEF Tidy
<1>12. Homed(u, gone \cup Dropped(t, d, c))
  BY <1>10 DEF Homed
<1> QED
  BY <1>11, <1>12 DEF u

-----------------------------------------------------------------------------
(* save: what is written are records.                                        *)

FileRecords == [name : Names, children : 0 .. MaxSlots]

(* A context's own record and those below it, one after the other.           *)
LEMMA RecordsWithType ==
  ASSUME NEW t, NEW c, NEW R, NEW below, t.num[c] \in Nat, c = Root \/ Record(t, c) \in R,
         \A i \in 0 .. t.num[c] - 1 :
           t.children[c][i] # Null => below[t.children[c][i]] \in Seq(R)
  PROVE  RecordsWith(t, c, below) \in Seq(R)
<1> DEFINE n == t.num[c]
           T == Seq(R)
           first == IF c = Root THEN <<>> ELSE <<Record(t, c)>>
           More(i) == IF t.children[c][i - 1] = Null THEN <<>> ELSE below[t.children[c][i - 1]]
           F == [i \in 1 .. n |-> [s \in T |-> s \o More(i)]]
           Body(w) == [i \in 0 .. n |-> IF i = 0 THEN first ELSE w[i - 1] \o More(i)]
           a == CHOOSE w : w = Body(w)
<1>1. n \in Nat /\ first \in T
  OBVIOUS
<1>2. ASSUME NEW i \in 1 .. n PROVE More(i) \in T
  <2>1. i - 1 \in 0 .. n - 1
    BY <1>1
  <2> QED
    BY <2>1
<1> HIDE DEF More, first
<1>3. F \in Steps(n, T)
  BY <1>2 DEF Steps
<1>4. ASSUME NEW i \in 1 .. n, NEW s \in T PROVE F[i][s] = s \o More(i)
  OBVIOUS
<1> HIDE DEF F, T
<1>5. PICK g \in [0 .. n -> T] : g[0] = first /\ \A i \in 1 .. n : g[i] = F[i][g[i - 1]]
  <2>1. Runs(n, T, first, F) # {}
    BY <1>1, <1>3, Recursion
  <2> QED
    BY <2>1 DEF Runs
<1>6. \A i \in 1 .. n : g[i] = g[i - 1] \o More(i)
  <2> SUFFICES ASSUME NEW i \in 1 .. n PROVE g[i] = g[i - 1] \o More(i)
    OBVIOUS
  <2>1. g[i - 1] \in T
    BY <1>1
  <2> QED
    BY <1>4, <1>5, <2>1
<1>7. g = Body(g)
  BY SMTT(30), <1>1, <1>5, <1>6
<1>8. a = Body(a)
  <2> HIDE DEF Body
  <2> QED
    BY <1>7
<1>9. RecordsWith(t, c, below) = a[n]
  BY DEF RecordsWith, first, More
<1>10. /\ a = [i \in 0 .. n |-> a[i]] /\ a[0] = first
       /\ \A i \in 1 .. n : a[i] = a[i - 1] \o More(i)
  <2> HIDE DEF a
  <2>1. a = [i \in 0 .. n |-> a[i]] /\ a[0] = first
    BY <1>1, <1>8
  <2>2. ASSUME NEW i \in 1 .. n PROVE a[i] = a[i - 1] \o More(i)
    <3>1. i \in 0 .. n /\ i # 0
      BY <1>1
    <3> QED
      BY <1>8, <3>1
  <2> QED
    BY <2>1, <2>2
<1>11. a \in Runs(n, T, first, F)
  <2>1. \A i \in 1 .. n : a[i - 1] \in T => a[i] = F[i][a[i - 1]]
    <3> HIDE DEF a
    <3> QED
      BY <1>4, <1>10
  <2> HIDE DEF a
  <2> QED
    BY <1>1, <1>3, <1>10, <2>1, Follows
<1>12. a[n] \in T
  <2>1. a \in [0 .. n -> T]
    BY <1>11 DEF Runs
  <2> HIDE DEF a
  <2> QED
    BY <1>1, <2>1
<1> QED
  BY <1>9, <1>12 DEF T

(* The records of a context and all below it.                                *)
LEMMA RecordsType ==
  ASSUME NEW t, Sane(t), NEW c \in Allocated(t)
  PROVE  Records(t, c) \in Seq(FileRecords)
<1> DEFINE M == MaxContexts
           Any == [name : Names \cup {"none"}, children : 0 .. MaxSlots]
           T == {f \in [Ids -> Seq(Any)] : \A b \in Allocated(t) : f[b] \in Seq(FileRecords)}
           Level(f) == [b \in Ids |-> RecordsWith(t, b, f)]
           first == [b \in Ids |-> <<>>]
           F == [h \in 1 .. M |-> [f \in T |-> Level(f)]]
           Body(w) == [h \in 0 .. M |-> IF h = 0 THEN first ELSE Level(w[h - 1])]
           a == CHOOSE w : w = Body(w)
<1>0. t \in Trees /\ Allocated(t) \subseteq Ids /\ M \in Nat
  BY Fields, Bounds DEF Sane
<1>1. first \in T
  <2>1. <<>> \in Seq(Any) /\ <<>> \in Seq(FileRecords)
    OBVIOUS
  <2> HIDE DEF Any
  <2> QED
    BY <1>0, <2>1
<1>2. ASSUME NEW b \in Ids
      PROVE  /\ t.num[b] \in Nat /\ Record(t, b) \in Any
             /\ b \in Allocated(t) /\ b # Root => Record(t, b) \in FileRecords
             /\ \A i \in 0 .. t.num[b] - 1 :
                  t.children[b][i] # Null => t.children[b][i] \in Allocated(t)
  <2>1. /\ t.num[b] \in 0 .. MaxSlots /\ t.name[b] \in Names \cup {"none"}
        /\ b \in Allocated(t) /\ b # Root => t.name[b] \in Names
    BY <1>0, Fields DEF Sane, Parents
  <2>2. ASSUME NEW i \in 0 .. t.num[b] - 1, t.children[b][i] # Null
        PROVE  t.children[b][i] \in Allocated(t)
    <3>1. i \in Slots /\ i < t.num[b]
      BY <2>1, Bounds
    <3>2. t.children[b][i] \in ChildrenOf(t, b)
      BY <2>2, <3>1 DEF ChildrenOf, Visible
    <3> QED
      BY <3>2, ChildFacts
  <2>3. t.num[b] \in Nat
    BY <2>1, Bounds
  <2> QED
    BY <2>1, <2>2, <2>3 DEF Record, FileRecords
<1>3. ASSUME NEW f \in T PROVE Level(f) \in T
  <2>1. ASSUME NEW b \in Ids PROVE RecordsWith(t, b, f) \in Seq(Any)
    <3>1. \A i \in 0 .. t.num[b] - 1 :
            t.children[b][i] # Null => f[t.children[b][i]] \in Seq(Any)
      BY <1>0, <1>2
    <3> HIDE DEF Any
    <3> QED
      BY <1>2, <3>1, RecordsWithType
  <2>2. ASSUME NEW b \in Allocated(t) PROVE RecordsWith(t, b, f) \in Seq(FileRecords)
    <3>0. b \in Ids
      BY <1>0
    <3>1. \A i \in 0 .. t.num[b] - 1 :
            t.children[b][i] # Null => f[t.children[b][i]] \in Seq(FileRecords)
      BY <1>2, <3>0
    <3> QED
      BY <1>2, <3>0, <3>1, RecordsWithType
  <2> QED
    BY <1>0, <2>1, <2>2
<1>4. F \in Steps(M, T)
  BY <1>3 DEF Steps
<1>5. ASSUME NEW h \in 1 .. M, NEW f \in T PROVE F[h][f] = Level(f)
  OBVIOUS
<1> HIDE DEF F, T, first
<1>6. PICK g \in [0 .. M -> T] : g[0] = first /\ \A h \in 1 .. M : g[h] = F[h][g[h - 1]]
  <2>1. Runs(M, T, first, F) # {}
    BY <1>0, <1>1, <1>4, Recursion
  <2> QED
    BY <2>1 DEF Runs
<1>7. \A h \in 1 .. M : g[h] = Level(g[h - 1])
  <2> SUFFICES ASSUME NEW h \in 1 .. M PROVE g[h] = Level(g[h - 1])
    OBVIOUS
  <2>1. g[h - 1] \in T
    BY <1>0
  <2> HIDE DEF Level
  <2> QED
    BY <1>5, <1>6, <2>1
<1>8. g = Body(g)
  <2> HIDE DEF Level
  <2> QED
    BY <1>0, <1>6, <1>7
<1>9. a = Body(a)
  <2> HIDE DEF Body
  <2> QED
    BY <1>8
<1>10. Records(t, c) = a[M][c]
  BY DEF Records, first
<1>11. /\ a = [h \in 0 .. M |-> a[h]] /\ a[0] = first
       /\ \A h \in 1 .. M : a[h] = Level(a[h - 1])
  <2> HIDE DEF a
  <2>1. a = [h \in 0 .. M |-> a[h]]
    BY <1>9
  <2>2. a[0] = first
    BY <1>0, <1>9 DEF first
  <2>3. ASSUME NEW h \in 1 .. M PROVE a[h] = Level(a[h - 1])
    <3>1. h \in 0 .. M /\ h # 0
      BY <1>0
    <3> QED
      BY <1>9, <3>1
  <2> QED
    BY <2>1, <2>2, <2>3
<1>12. a \in Runs(M, T, first, F)
  <2>1. \A h \in 1 .. M : a[h - 1] \in T => a[h] = F[h][a[h - 1]]
    <3> HIDE DEF a, Level
    <3> QED
      BY <1>5, <1>11
  <2> HIDE DEF a
  <2> QED
    BY <1>0, <1>1, <1>4, <1>11, <2>1, Follows
<1>13. a[M] \in T
  <2>1. a \in [0 .. M -> T]
    BY <1>12 DEF Runs
  <2> HIDE DEF a
  <2> QED
    BY <1>0, <2>1
<1> HIDE DEF a
<1> QED
  BY <1>10, <1>13 DEF T

-----------------------------------------------------------------------------
(* load: what holds of the tree after each record.                           *)

(* A load that makes no slot visible that deletion had left behind.          *)
Quiet == ~exposed /\ (HasNumbered => \A b \in Targets : ~LeftOver(tree, b))

(* The contexts that a load may come to: named by a path, or new.            *)
Within(t) == Targets \cup (Allocated(t) \ Allocated(tree))
Spotless(t) ==
  \A b \in Within(t) :
    /\ ChildrenOf(t, b) \subseteq Within(t) /\ b \notin t.freed
    /\ HasNumbered => ~LeftOver(t, b)

(* The tree keeps what it has while it grows.                                *)
Keeps(t) ==
  /\ t.freed = tree.freed /\ Allocated(tree) \subseteq Allocated(t)
  /\ \A b \in Allocated(tree) : /\ t.name[b] = tree.name[b] /\ t.parent[b] = tree.parent[b]
                               /\ t.num[b] >= tree.num[b]

(* The tree after k records.                                                 *)
HasRoom(t, k) ==
  /\ t.next + (Len(file) - k) <= MaxContexts + 1
  /\ \A b \in Ids : t.num[b] + (Len(file) - k) <= MaxSlots
Growing(t, k) ==
  /\ Sane(t) /\ Keeps(t) /\ HasRoom(t, k)
  /\ Quiet => Tidy(t) /\ Spotless(t) /\ (~HasNumbered => Homed(t, replaced))

(* The load after k records.                                                 *)
Loading(k) ==
  {p \in [t : Trees, due : Seq(Ids)] :
     /\ Growing(p.t, k) /\ p.due \in Seq(Allocated(p.t))
     /\ Quiet => p.due \in Seq(Within(p.t))}

Loads(c) ==
  /\ Sane(tree) /\ current \in Live(tree) /\ Sound /\ file \in Seq(FileRecords)
  /\ Room(tree) /\ c \in Targets

(* A record that needs a new context makes one.                              *)
LEMMA LoadMakes ==
  ASSUME NEW c, Loads(c), NEW k \in 0 .. Len(file) - 1, NEW t, Growing(t, k),
         NEW e \in Allocated(t), Quiet => e \in Within(t),
         NEW n, n = file[k + 1].name, Named(t, e, n) = {}
  PROVE  LET new == NewContext(t, e, n)
         IN  /\ new.t \in Trees /\ Growing(new.t, k + 1)
             /\ new.c \in Allocated(new.t) /\ Allocated(t) \subseteq Allocated(new.t)
             /\ Quiet => new.c \in Within(new.t) /\ Within(t) \subseteq Within(new.t)
<1> DEFINE L == Len(file)
           u == NewContext(t, e, n).t
           i == SlotFor(t, e, n)
           x == t.next
<1>1. /\ L \in Nat /\ k \in Nat /\ k < L /\ k + 1 \in DOMAIN file /\ n \in Names
      /\ n \in Numbered => HasNumbered
  <2>1. file \in Seq(FileRecords)
    BY DEF Loads
  <2>2. L \in Nat /\ k \in Nat /\ k < L /\ k + 1 \in DOMAIN file
    BY <2>1
  <2>3. file[k + 1] \in FileRecords
    BY <2>1, <2>2
  <2> QED
    BY <2>2, <2>3 DEF FileRecords, HasNumbered
<1>2. /\ Sane(t) /\ t \in Trees /\ e \in Ids /\ t.num \in [Ids -> 0 .. MaxSlots]
      /\ t.next \in Nat /\ IndexOf[n] \in -1 .. MaxSlots - 1
  <2>1. Sane(t) /\ t \in Trees
    BY DEF Growing, Sane
  <2>2. /\ e \in Ids /\ t.num \in [Ids -> 0 .. MaxSlots] /\ t.next \in 2 .. MaxContexts + 1
    BY <2>1, Fields
  <2>3. IndexOf[n] \in -1 .. MaxSlots - 1
    BY <1>1, Bounds
  <2>4. t.next \in Nat
    BY <2>2, Bounds
  <2> QED
    BY <2>1, <2>2, <2>3, <2>4
<1>3. t.next <= MaxContexts /\ i < MaxSlots
  <2>1. t.next + (L - k) <= MaxContexts + 1 /\ t.num[e] + (L - k) <= MaxSlots
    BY <1>2 DEF Growing, HasRoom
  <2>2. IndexOf[n] + 1 + L <= MaxSlots
    BY <1>1, <1>2 DEF Loads, Room
  <2>3. t.num[e] \in Nat /\ MaxSlots \in Nat /\ MaxContexts \in Nat
    BY <1>2, Bounds
  <2>4. i = t.num[e] \/ i = IndexOf[n]
    BY DEF SlotFor
  <2> HIDE DEF i, L
  <2>5. t.next <= MaxContexts
    BY <1>1, <1>2, <2>1, <2>3
  <2>6. t.num[e] < MaxSlots
    BY <1>1, <2>1, <2>3
  <2>7. IndexOf[n] < MaxSlots
    BY <1>2, <2>3
  <2> QED
    BY <2>4, <2>5, <2>6, <2>7
<1>4. Makes(t, e, n)
  BY <1>1, <1>2, <1>3 DEF Makes
<1>5. /\ NewContext(t, e, n).c = x /\ u \in Trees /\ Grown(t, u, e, n, i) /\ i \in Slots
  BY <1>4, NewGrows
<1> HIDE DEF u, i
<1>6. /\ Sane(u) /\ Allocated(u) = Allocated(t) \cup {x}
      /\ x \in Ids /\ x \notin Allocated(t) /\ x # e /\ Allocated(t) \subseteq Ids
  BY <1>4, <1>5, GrownSane, MakesFacts
<1>7. /\ u.freed = t.freed /\ u.next = t.next + 1
      /\ \A b \in Allocated(t) : u.name[b] = t.name[b] /\ u.parent[b] = t.parent[b]
      /\ \A b \in Ids : u.num[b] \in Nat /\ t.num[b] \in Nat /\ t.num[b] <= u.num[b]
      /\ \A b \in Ids : b # e => u.num[b] = t.num[b] /\ u.children[b] = t.children[b]
      /\ u.num[e] = IF i + 1 > t.num[e] THEN i + 1 ELSE t.num[e]
      /\ \A j \in Slots : u.children[e][j] = IF j = i THEN x ELSE t.children[e][j]
  <2>1. u.freed = t.freed /\ u.next = t.next + 1
    BY <1>4, <1>5, GrownFields
  <2> QED
    BY <1>4, <1>5, <2>1, GrownKeeps
<1>8. Keeps(u)
  <2>1. Keeps(t) /\ Allocated(tree) \subseteq Allocated(t) /\ Allocated(tree) \subseteq Ids
    BY <1>6 DEF Growing, Keeps
  <2>2. \A b \in Allocated(tree) : tree.num[b] \in Nat
    <3>1. tree.num \in [Ids -> 0 .. MaxSlots]
      BY Fields DEF Loads, Sane
    <3> QED
      BY <2>1, <3>1
  <2>3. \A b \in Allocated(tree) : u.num[b] >= tree.num[b]
    BY <1>7, <2>1, <2>2 DEF Keeps
  <2> QED
    BY <1>6, <1>7, <2>1, <2>3 DEF Keeps
<1>9. HasRoom(u, k + 1)
  <2>1. HasRoom(t, k)
    BY DEF Growing
  <2>2. u.next + (L - (k + 1)) <= MaxContexts + 1
    BY SMTT(30), <1>1, <1>2, <1>7, <2>1, Bounds DEF HasRoom
  <2>3. ASSUME NEW b \in Ids PROVE u.num[b] + (L - (k + 1)) <= MaxSlots
    <3>1. t.num[b] + (L - k) <= MaxSlots /\ t.num[b] \in Nat
      BY <1>7, <2>1 DEF HasRoom
    <3>2. CASE b # e
      BY <1>1, <1>7, <3>1, <3>2, Bounds
    <3>3. CASE b = e
      <4>1. IndexOf[n] + 1 + L <= MaxSlots
        BY <1>1, <1>2 DEF Loads, Room
      <4>2. i = t.num[e] \/ i = IndexOf[n]
        BY DEF SlotFor, i
      <4>3. u.num[b] = i + 1 \/ u.num[b] = t.num[b]
        BY <1>7, <3>3
      <4>4. MaxSlots \in Nat
        BY Bounds
      <4>5. t.num[e] \in Nat /\ t.num[e] + (L - k) <= MaxSlots /\ L \in Nat /\ k \in Nat /\ k < L
        BY <1>1, <3>1, <3>3
      <4>6. u.num[b] \in {t.num[e] + 1, IndexOf[n] + 1, t.num[e]}
        BY <3>3, <4>2, <4>3
      <4> HIDE DEF L
      <4>7. IndexOf[n] \in Int
        BY <1>2, <4>4
      <4>8. CASE u.num[b] = t.num[e] + 1
        BY <4>4, <4>5, <4>8
      <4>9. CASE u.num[b] = IndexOf[n] + 1
        BY SMTT(30), <4>1, <4>4, <4>5, <4>7, <4>9
      <4>10. CASE u.num[b] = t.num[e]
        BY <4>4, <4>5, <4>10
      <4> QED
        BY <4>6, <4>8, <4>9, <4>10
    <3> QED
      BY <3>2, <3>3
  <2> QED
    BY <2>2, <2>3 DEF HasRoom
<1>10. x \in Within(u) /\ Within(u) = Within(t) \cup {x}
  <2>1. Allocated(tree) \subseteq Allocated(t)
    BY DEF Growing, Keeps
  <2> QED
    BY <1>6, <2>1 DEF Within
<1>11. ASSUME Quiet PROVE Tidy(u) /\ Spotless(u) /\ (~HasNumbered => Homed(u, replaced))
  <2>1. Tidy(t) /\ Spotless(t) /\ (~HasNumbered => Homed(t, replaced)) /\ e \in Within(t)
    BY <1>11 DEF Growing
  <2>2. e \in Live(t) /\ (HasNumbered => ~LeftOver(t, e))
    BY <2>1 DEF Spotless, Live
  <2>3. ~HasNumbered => i = t.num[e]
    BY <1>1, <1>2 DEF Numbered, SlotFor, i
  <2>4. ~Exposes(t, e, i)
    <3>1. CASE HasNumbered
      BY <2>2, <3>1 DEF LeftOver, Exposes
    <3>2. CASE ~HasNumbered
      <4>1. i = t.num[e] /\ t.num[e] \in Nat /\ \A j \in Slots : j \in Nat
        BY <1>2, <1>7, <2>3, <3>2, Bounds
      <4> QED
        BY <4>1 DEF Exposes
    <3> QED
      BY <3>1, <3>2
  <2>5. /\ Tidy(u) /\ ChildrenOf(u, e) \subseteq ChildrenOf(t, e) \cup {x} /\ ChildrenOf(u, x) = {}
        /\ \A b \in Ids : b # e => ChildrenOf(u, b) = ChildrenOf(t, b)
        /\ x \notin t.freed
    <3>1. /\ Tidy(u) /\ ChildrenOf(u, e) \subseteq ChildrenOf(t, e) \cup {x}
          /\ ChildrenOf(u, x) = {}
      BY SMTT(30), <1>4, <1>5, <2>1, <2>2, <2>4, GrownTidy
    <3>2. /\ \A b \in Ids : b # e => ChildrenOf(u, b) = ChildrenOf(t, b)
          /\ x \notin t.freed
      <4>1. x \notin t.freed
        BY <1>4, <1>5, GrownKeeps
      <4>2. ASSUME NEW b \in Ids, b # e PROVE ChildrenOf(u, b) = ChildrenOf(t, b)
        BY <1>7, <4>2 DEF ChildrenOf, Visible
      <4> QED
        BY <4>1, <4>2
    <3> QED
      BY <3>1, <3>2
  <2>6. Within(t) \subseteq Ids
    <3>1. Targets \subseteq Live(tree)
      BY TargetFacts DEF Loads
    <3>2. Allocated(tree) \subseteq Allocated(t)
      BY DEF Growing, Keeps
    <3> QED
      BY <1>6, <3>1, <3>2 DEF Within, Live
  <2>7. ASSUME NEW b \in Within(u)
        PROVE  ChildrenOf(u, b) \subseteq Within(u) /\ b \notin u.freed
    BY <1>7, <1>10, <2>1, <2>5, <2>6 DEF Spotless
  <2>8. ASSUME NEW b \in Within(u), HasNumbered PROVE ~LeftOver(u, b)
    <3> SUFFICES ASSUME NEW j \in Slots, u.num[b] <= j PROVE u.children[b][j] = Null
      BY DEF LeftOver
    <3>0. j \in Nat /\ i \in Nat /\ b \in Ids
      BY <1>5, <1>6, <1>10, <2>6, Bounds
    <3>1. CASE b = e
      <4>1. j # i /\ t.num[e] <= j
        BY <1>2, <1>7, <3>0, <3>1
      <4> QED
        BY <1>7, <2>2, <2>8, <3>1, <4>1 DEF LeftOver
    <3>2. CASE b = x
      <4>1. x >= t.next
        BY <1>2
      <4>2. t.children[x][j] = Null
        BY <1>2, <1>6, <4>1 DEF Sane, Fresh
      <4> QED
        BY <1>6, <1>7, <3>2, <4>2
    <3>3. CASE b \in Within(t) /\ b # e
      BY <1>7, <2>1, <2>8, <3>0, <3>3 DEF Spotless, LeftOver
    <3> QED
      BY <1>10, <3>1, <3>2, <3>3
  <2>9. ASSUME ~HasNumbered PROVE Homed(u, replaced)
    <3>1. Replaces(t, e, i) = {}
      <4>1. i = t.num[e] /\ t.num[e] \in Nat
        BY <1>2, <1>7, <2>3, <2>9
      <4> QED
        BY <4>1 DEF Replaces
    <3>2. Homed(u, replaced \cup Replaces(t, e, i))
      BY <1>4, <1>5, <2>1, <2>9, GrownHomed
    <3>3. replaced \cup Replaces(t, e, i) = replaced
      BY <3>1
    <3> QED
      BY <3>2, <3>3
  <2> QED
    BY <2>5, <2>7, <2>8, <2>9 DEF Spotless
<1>12. Growing(u, k + 1)
  BY <1>6, <1>8, <1>9, <1>11 DEF Growing
<1> QED
  BY <1>5, <1>6, <1>10, <1>12 DEF u

(* One more record.                                                          *)
LEMMA LoadStep ==
  ASSUME NEW c, Loads(c), NEW k \in 0 .. Len(file) - 1, NEW p \in Loading(k)
  PROVE  LoadMore(p, c, file[k + 1]) \in Loading(k + 1)
<1> DEFINE t == p.t
           e == Into(p, c)
           n == file[k + 1].name
           m == file[k + 1].children
           new == NewContext(t, e, n)
           due == [i \in 1 .. m |-> new.c] \o Later(p)
<1>1. /\ t \in Trees /\ Growing(t, k) /\ p.due \in Seq(Allocated(t)) /\ Sane(t)
      /\ Quiet => p.due \in Seq(Within(t))
  BY DEF Loading, Growing
<1>2. m \in Nat
  <2>1. file \in Seq(FileRecords) /\ k + 1 \in DOMAIN file
    BY DEF Loads
  <2>2. file[k + 1] \in FileRecords
    BY <2>1
  <2> QED
    BY <2>2, Bounds DEF FileRecords
<1>3. c \in Allocated(t) /\ c \in Within(t)
  <2>1. Targets \subseteq Live(tree) /\ Allocated(tree) \subseteq Allocated(t)
    BY <1>1, TargetFacts DEF Loads, Growing, Keeps
  <2> QED
    BY <2>1 DEF Loads, Within, Live
<1> HIDE DEF t, n, m
<1>4. /\ e \in Allocated(t) /\ (Quiet => e \in Within(t))
      /\ Later(p) \in Seq(Allocated(t)) /\ (Quiet => Later(p) \in Seq(Within(t)))
  BY <1>1, <1>3 DEF Into, Later
<1> HIDE DEF e
<1>5. /\ new.t \in Trees /\ Growing(new.t, k + 1)
      /\ new.c \in Allocated(new.t) /\ Allocated(t) \subseteq Allocated(new.t)
      /\ Quiet => new.c \in Within(new.t) /\ Within(t) \subseteq Within(new.t)
  <2>1. CASE Named(t, e, n) = {}
    BY <1>1, <1>4, <2>1, LoadMakes DEF n
  <2>2. CASE Named(t, e, n) # {}
    <3>1. new = [t |-> t, c |-> FirstNamed(t, e, n)]
      BY <2>2 DEF NewContext
    <3>2. e \in Ids
      BY <1>1, <1>4, Fields
    <3>3. FirstNamed(t, e, n) \in ChildrenOf(t, e)
      BY <1>1, <2>2, <3>2, FirstNamedFacts
    <3>4. FirstNamed(t, e, n) \in Allocated(t)
      BY <1>1, <3>2, <3>3, ChildFacts
    <3>5. Quiet => FirstNamed(t, e, n) \in Within(t)
      BY <1>1, <1>4, <3>3 DEF Growing, Spotless
    <3>6. HasRoom(t, k + 1)
      <4>1. Len(file) \in Nat /\ k \in Nat /\ t.next \in Nat /\ \A b \in Ids : t.num[b] \in Nat
        <5>1. t.next \in 2 .. MaxContexts + 1 /\ t.num \in [Ids -> 0 .. MaxSlots]
          BY <1>1, Fields
        <5>2. Len(file) \in Nat
          BY DEF Loads
        <5> QED
          BY <5>1, <5>2, Bounds
      <4>2. HasRoom(t, k)
        BY <1>1 DEF Growing
      <4>3. \A x, y \in Nat : x + (Len(file) - k) <= y => x + (Len(file) - (k + 1)) <= y
        BY <4>1
      <4>4. MaxContexts + 1 \in Nat /\ MaxSlots \in Nat
        BY Bounds
      <4> QED
        BY <4>1, <4>2, <4>3, <4>4 DEF HasRoom
    <3>7. Growing(t, k + 1)
      BY <1>1, <3>6 DEF Growing
    <3> QED
      BY <1>1, <3>1, <3>4, <3>5, <3>7
  <2> QED
    BY <2>1, <2>2
<1> HIDE DEF new
<1>6. ASSUME NEW S, Later(p) \in Seq(S), NEW R, S \subseteq R, new.c \in R PROVE due \in Seq(R)
  <2>1. [i \in 1 .. m |-> new.c] \in Seq(R)
    BY <1>2, <1>6
  <2>2. Later(p) \in Seq(R)
    BY <1>6
  <2> QED
    BY <2>1, <2>2
<1>7. due \in Seq(Allocated(new.t)) /\ (Quiet => due \in Seq(Within(new.t)))
  <2> HIDE DEF due
  <2> QED
    BY <1>4, <1>5, <1>6
<1>8. due \in Seq(Ids)
  <2>1. Allocated(new.t) \subseteq Ids
    BY <1>5, Fields
  <2> HIDE DEF due
  <2> QED
    BY <1>7, <2>1
<1>9. LoadMore(p, c, file[k + 1]) = [t |-> new.t, due |-> due]
  BY DEF LoadMore, new, t, e, n, m
<1> HIDE DEF due
<1> QED
  BY <1>5, <1>7, <1>8, <1>9 DEF Loading

(* All the records.                                                          *)
LEMMA LoadedGrows ==
  ASSUME NEW c, Loads(c), ~exposed => Tidy(tree) /\ Homed(tree, replaced)
  PROVE  Loaded(tree, c) \in Trees /\ Growing(Loaded(tree, c), Len(file))
<1> DEFINE L == Len(file)
           T == [t : Trees, due : Seq(Ids)]
           first == [t |-> tree, due |-> <<>>]
           F == [i \in 1 .. L |->
                   [p \in T |-> IF p \in Loading(i - 1) THEN LoadMore(p, c, file[i]) ELSE p]]
           Body(w) == [i \in 0 .. L |->
                         IF i = 0 THEN first ELSE LoadMore(w[i - 1], c, file[i])]
           a == CHOOSE w : w = Body(w)
<1>1. L \in Nat /\ tree \in Trees /\ Sane(tree)
  BY DEF Loads, Sane
<1>2. first \in Loading(0)
  <2>1. Keeps(tree)
    <3>1. \A b \in Allocated(tree) : tree.num[b] \in Nat
      BY <1>1, Fields
    <3> QED
      BY <3>1 DEF Keeps
  <2>2. HasRoom(tree, 0)
    BY <1>1 DEF Loads, Room, HasRoom
  <2>3. Within(tree) = Targets
    BY DEF Within
  <2>4. ASSUME Quiet PROVE Spotless(tree)
    <3>1. Targets \subseteq Live(tree) /\ \A b \in Targets : ChildrenOf(tree, b) \subseteq Targets
      BY TargetFacts DEF Loads
    <3> QED
      BY <2>3, <2>4, <3>1 DEF Spotless, Live, Quiet
  <2>5. Growing(tree, 0)
    BY <1>1, <2>1, <2>2, <2>4 DEF Growing, Quiet
  <2>6. \A S : <<>> \in Seq(S)
    OBVIOUS
  <2> QED
    BY <1>1, <2>5, <2>6 DEF Loading
<1>3. \A i \in 0 .. L : Loading(i) \subseteq T
  BY DEF Loading
<1>4. ASSUME NEW i \in 1 .. L, NEW p \in Loading(i - 1)
      PROVE  LoadMore(p, c, file[i]) \in Loading(i)
  <2>1. i - 1 \in 0 .. Len(file) - 1 /\ (i - 1) + 1 = i
    BY <1>1
  <2>2. LoadMore(p, c, file[(i - 1) + 1]) \in Loading((i - 1) + 1)
    BY <2>1, LoadStep
  <2> QED
    BY <2>1, <2>2
<1>5. F \in Steps(L, T)
  <2>1. ASSUME NEW i \in 1 .. L, NEW p \in T
        PROVE  (IF p \in Loading(i - 1) THEN LoadMore(p, c, file[i]) ELSE p) \in T
    <3>1. i \in 0 .. L
      BY <1>1
    <3> HIDE DEF T
    <3> QED
      BY <1>3, <1>4, <3>1
  <2> HIDE DEF T
  <2> QED
    BY <2>1 DEF Steps
<1>6. ASSUME NEW i \in 1 .. L, NEW p \in Loading(i - 1)
      PROVE  F[i][p] = LoadMore(p, c, file[i])
  <2>1. p \in T
    BY DEF Loading
  <2> HIDE DEF T
  <2> QED
    BY <2>1
<1> HIDE DEF F, T, first
<1>7. PICK g \in [0 .. L -> T] : g[0] = first /\ \A i \in 1 .. L : g[i] = F[i][g[i - 1]]
  <2>1. first \in T
    BY <1>1, <1>2, <1>3
  <2>2. Runs(L, T, first, F) # {}
    BY <1>1, <1>5, <2>1, Recursion
  <2> QED
    BY <2>2 DEF Runs
<1>8. ASSUME NEW h, h[0] = first,
             \A i \in 1 .. L : h[i - 1] \in Loading(i - 1) => h[i] = LoadMore(h[i - 1], c, file[i])
      PROVE  \A i \in 0 .. L : h[i] \in Loading(i)
  <2> DEFINE S == {i \in 0 .. L : h[i] \in Loading(i)}
  <2>1. 0 \in S
    BY <1>1, <1>2, <1>8
  <2>2. ASSUME NEW i \in 0 .. L - 1, i \in S PROVE i + 1 \in S
    <3>1. i + 1 \in 1 .. L /\ (i + 1) - 1 = i /\ i + 1 \in 0 .. L
      BY <1>1
    <3>2. h[i + 1] = LoadMore(h[i], c, file[i + 1])
      BY <1>8, <2>2, <3>1
    <3>3. LoadMore(h[i], c, file[i + 1]) \in Loading(i + 1)
      BY <1>4, <2>2, <3>1
    <3> QED
      BY <3>1, <3>2, <3>3
  <2>3. 0 .. L \subseteq S
    <3> HIDE DEF S
    <3> QED
      BY <1>1, <2>1, <2>2, UpTo
  <2> QED
    BY <2>3
<1>9. \A i \in 0 .. L : g[i] \in Loading(i)
  <2>1. \A i \in 1 .. L : g[i - 1] \in Loading(i - 1) => g[i] = LoadMore(g[i - 1], c, file[i])
    BY <1>6, <1>7
  <2> QED
    BY <1>7, <1>8, <2>1
<1>10. g = Body(g)
  <2>1. ASSUME NEW i \in 1 .. L PROVE g[i] = LoadMore(g[i - 1], c, file[i])
    <3>1. i - 1 \in 0 .. L
      BY <1>1
    <3> QED
      BY <1>6, <1>7, <1>9, <3>1
  <2> QED
    BY <1>1, <1>7, <2>1
<1>11. a = Body(a)
  <2> HIDE DEF Body
  <2> QED
    BY <1>10
<1>12. Loaded(tree, c) = a[L].t
  BY DEF Loaded, first
<1>13. a[0] = first /\ \A i \in 1 .. L : a[i] = LoadMore(a[i - 1], c, file[i])
  <2> HIDE DEF a
  <2>1. a[0] = first
    BY <1>1, <1>11
  <2>2. ASSUME NEW i \in 1 .. L PROVE a[i] = LoadMore(a[i - 1], c, file[i])
    <3>1. i \in 0 .. L /\ i # 0
      BY <1>1
    <3> QED
      BY <1>11, <3>1
  <2> QED
    BY <2>1, <2>2
<1> HIDE DEF a
<1>14. a[L] \in Loading(L)
  <2>1. \A i \in 0 .. L : a[i] \in Loading(i)
    BY <1>8, <1>13
  <2> QED
    BY <1>1, <2>1
<1> QED
  BY <1>12, <1>14 DEF Loading

-----------------------------------------------------------------------------
(* Every command keeps the invariant.                                        *)

(* In a tree that grew the way up is the same, or shorter.                   *)
LEMMA UpKept ==
  ASSUME NEW t, NEW u, Sane(t), Sane(u), NEW c \in Allocated(t), Allocated(t) \subseteq Allocated(u),
         \A b \in Allocated(t) : u.parent[b] = t.parent[b]
  PROVE  Up(u, c) \subseteq Up(t, c)
<1>1. /\ c \in Up(t, c) /\ Up(t, c) \subseteq Allocated(t)
      /\ \A x \in Up(t, c) \ {Root} : t.parent[x] \in Up(t, c)
  BY UpFacts
<1>2. Up(t, c) \in SUBSET Ids
  BY <1>1, Fields DEF Sane
<1>3. c \in Allocated(u) /\ \A x \in Up(t, c) \ {Root} : u.parent[x] \in Up(t, c)
  BY <1>1
<1> QED
  BY <1>1, <1>2, <1>3, UpFacts

(* The root alone is above the root.                                         *)
LEMMA UpRoot ==
  ASSUME NEW t, Sane(t)
  PROVE  Up(t, Root) \subseteq {Root} /\ Root \in Allocated(t) /\ Root \notin t.freed
<1>1. Root \in Allocated(t) /\ {Root} \in SUBSET Ids
  BY Fields, Bounds DEF Sane
<1>2. \A x \in {Root} \ {Root} : t.parent[x] \in {Root}
  OBVIOUS
<1> QED
  BY <1>1, <1>2, UpFacts DEF Sane, Parents

(* A tree of the right type is what TypeOK says of it.                       *)
TreeTyped ==
  /\ tree.freed \subseteq Ids
  /\ tree.name \in [Ids -> Names \cup {"none"}]
  /\ tree.parent \in [Ids -> Ids \cup {Null}]
  /\ tree.children \in [Ids -> [Slots -> Ids \cup {Null}]]
  /\ tree.num \in [Ids -> 0 .. MaxSlots]
  /\ tree.next \in 2 .. MaxContexts + 1

(* What a step leaves, collected.                                            *)
LEMMA Settles ==
  ASSUME IInv, Sane(tree'), Stands', file' \in Seq(FileRecords), exposed' \in BOOLEAN,
         replaced' \subseteq Ids, ~exposed' => Tidy(tree') /\ Homed(tree', replaced')
  PROVE  IInv'
<1>1. tree' \in Trees
  BY DEF Sane
<1>2. TreeTyped'
  BY <1>1 DEF TreeTyped, Trees
<1>3. current' \in Ids
  BY <1>1, Fields DEF Stands, Live
<1>4. TypeOK'
  BY <1>2, <1>3 DEF TypeOK, TreeTyped, FileRecords
<1> QED
  BY <1>4 DEF IInv

(* What the commands may use.                                                *)
LEMMA Before ==
  ASSUME IInv, Sound
  PROVE  /\ Sane(tree) /\ tree \in Trees /\ current \in Live(tree) /\ current \in Allocated(tree)
         /\ Targets \subseteq Live(tree) /\ Targets \subseteq Allocated(tree) /\ Targets \subseteq Ids
         /\ file \in Seq(FileRecords) /\ exposed \in BOOLEAN /\ replaced \subseteq Ids
         /\ ~exposed => Tidy(tree) /\ Homed(tree, replaced)
<1>1. Sane(tree) /\ tree \in Trees /\ current \in Live(tree)
  BY DEF IInv, Sane, Stands
<1>2. Targets \subseteq Live(tree)
  BY <1>1, TargetFacts
<1>3. Allocated(tree) \subseteq Ids
  BY <1>1, Fields
<1> QED
  BY <1>1, <1>2, <1>3 DEF IInv, TypeOK, Live, FileRecords

(* Where current stands in a tree that grew.                                 *)
LEMMA StandsOn ==
  ASSUME IInv, Sane(tree'), Keeps(tree'), current' = current
  PROVE  Stands'
<1>1. /\ Sane(tree) /\ current \in Live(tree) /\ current \in Allocated(tree)
      /\ \A c \in Up(tree, current) \ {Root} : tree.num[tree.parent[c]] > 0
  BY DEF IInv, Stands, Live
<1>2. /\ Allocated(tree) \subseteq Allocated(tree') /\ tree'.freed = tree.freed
      /\ \A b \in Allocated(tree) : tree'.parent[b] = tree.parent[b] /\ tree'.num[b] >= tree.num[b]
  BY DEF Keeps
<1>3. Up(tree', current) \subseteq Up(tree, current)
  BY <1>1, <1>2, UpKept
<1>4. Up(tree, current) \subseteq Allocated(tree)
      /\ \A c \in Up(tree, current) \ {Root} : tree.parent[c] \in Up(tree, current)
  BY <1>1, UpFacts
<1>5. ASSUME NEW c \in Up(tree', current) \ {Root} PROVE tree'.num[tree'.parent[c]] > 0
  <2>1. /\ c \in Up(tree, current) \ {Root} /\ tree.parent[c] \in Allocated(tree)
        /\ tree'.parent[c] = tree.parent[c]
    BY <1>2, <1>3, <1>4
  <2>2. tree'.num[tree.parent[c]] >= tree.num[tree.parent[c]] /\ tree.num[tree.parent[c]] > 0
    BY <1>1, <1>2, <2>1
  <2>3. tree.parent[c] \in Ids
    BY <1>1, <2>1, Fields DEF Sane
  <2>4. tree.num[tree.parent[c]] \in Nat /\ tree'.num[tree.parent[c]] \in Nat
    BY <1>1, <2>3, Fields DEF Sane
  <2> QED
    BY <2>1, <2>2, <2>4
<1>6. current \in Live(tree')
  BY <1>1, <1>2 DEF Live
<1> QED
  BY <1>5, <1>6 DEF Stands

(* Create: a new child changes its parent's slots only.                      *)
LEMMA CreateKeeps ==
  ASSUME IInv, Sound, NEW c \in Targets, NEW n \in Names, Create(c, n)
  PROVE  IInv' /\ Keeps(tree')
<1> DEFINE i == SlotFor(tree, c, n)
           r == Replaces(tree, c, i)
<1>1. /\ Sane(tree) /\ tree \in Trees /\ c \in Live(tree) /\ c \in Allocated(tree) /\ c \in Ids
      /\ file \in Seq(FileRecords) /\ exposed \in BOOLEAN /\ replaced \subseteq Ids
      /\ ~exposed => Tidy(tree) /\ Homed(tree, replaced)
  BY Before
<1>2. Makes(tree, c, n) /\ tree' = NewContext(tree, c, n).t
  BY <1>1 DEF Create, Makes
<1>3. tree' \in Trees /\ Grown(tree, tree', c, n, i) /\ i \in Slots
  BY <1>2, NewGrows
<1>4. /\ current' = current /\ file' = file /\ exposed' = (exposed \/ Exposes(tree, c, i))
      /\ replaced' = replaced \cup r
  BY DEF Create
<1> HIDE DEF i
<1>5. Sane(tree') /\ Allocated(tree') = Allocated(tree) \cup {tree.next}
  BY <1>2, <1>3, GrownSane
<1>6. Keeps(tree')
  <2>1. tree'.freed = tree.freed
    BY <1>2, <1>3, GrownFields
  <2>2. /\ \A b \in Allocated(tree) : tree'.name[b] = tree.name[b] /\ tree'.parent[b] = tree.parent[b]
        /\ \A b \in Ids : tree'.num[b] \in Nat /\ tree.num[b] \in Nat /\ tree.num[b] <= tree'.num[b]
    <3> HIDE DEF r
    <3>1. \A b \in Allocated(tree) : tree'.name[b] = tree.name[b] /\ tree'.parent[b] = tree.parent[b]
      <4>1. tree.next \notin Allocated(tree) /\ Allocated(tree) \subseteq Ids
        BY <1>2, MakesFacts
      <4>2. /\ tree'.parent = [tree.parent EXCEPT ![tree.next] = c]
            /\ tree'.name = [tree.name EXCEPT ![tree.next] = n]
        BY <1>3 DEF Grown
      <4>3. tree.parent \in [Ids -> Ids \cup {Null}] /\ tree.name \in [Ids -> Names \cup {"none"}]
        BY <1>1, Fields
      <4> QED
        BY <4>1, <4>2, <4>3
    <3>2. \A b \in Ids : tree'.num[b] \in Nat /\ tree.num[b] \in Nat /\ tree.num[b] <= tree'.num[b]
      BY <1>2, <1>3, GrownKeeps
    <3> QED
      BY <3>1, <3>2
  <2>3. Allocated(tree) \subseteq Ids
    BY <1>1, Fields
  <2> QED
    BY <1>5, <2>1, <2>2, <2>3 DEF Keeps
<1>7. Stands'
  BY <1>4, <1>5, <1>6, StandsOn
<1>8. ASSUME ~exposed' PROVE Tidy(tree') /\ Homed(tree', replaced')
  <2>1. ~exposed /\ ~Exposes(tree, c, i)
    BY <1>4, <1>8
  <2>2. Tidy(tree')
    BY <1>1, <1>2, <1>3, <2>1, GrownTidy
  <2>3. Homed(tree', replaced \cup r)
    BY <1>1, <1>2, <1>3, <2>1, GrownHomed
  <2> HIDE DEF r
  <2> QED
    BY <1>4, <2>2, <2>3
<1>9. replaced' \subseteq Ids /\ exposed' \in BOOLEAN
  <2>1. r \subseteq Ids
    BY <1>1, <1>3, Fields DEF Replaces
  <2> HIDE DEF r
  <2> QED
    BY <1>1, <1>4, <2>1
<1>10. IInv'
  <2>1. file' \in Seq(FileRecords)
    BY <1>1, <1>4
  <2> QED
    BY <1>5, <1>7, <1>8, <1>9, <2>1, Settles
<1> QED
  BY <1>6, <1>10

(* Delete: the slots of the parent move, and what is below c is freed.       *)
LEMMA DeleteKeeps ==
  ASSUME IInv, Sound, NEW c \in Targets, Delete(c)
  PROVE  /\ IInv' /\ tree' = Parted(tree, c) /\ Parts(tree, c)
<1> DEFINE d == tree.parent[c]
           r == Dropped(tree, d, c)
<1>1. /\ Sane(tree) /\ tree \in Trees /\ c \in Live(tree) /\ c \in Allocated(tree) /\ c \in Ids
      /\ file \in Seq(FileRecords) /\ exposed \in BOOLEAN /\ replaced \subseteq Ids
      /\ ~exposed => Tidy(tree) /\ Homed(tree, replaced)
      /\ current \in Live(tree) /\ Targets \subseteq Live(tree) /\ Targets \subseteq Ids
  BY Before
<1>2. c # Root /\ d \in Live(tree) /\ d \in Targets
  <2>1. c # Root
    BY DEF Delete
  <2> QED
    BY <1>1, <2>1, TargetFacts
<1>3. tree.num[d] > 0
  <2>1. CASE c \in Beginnings
    <3>1. c \in Up(tree, current) \ {Root}
      BY <1>2, <2>1 DEF Beginnings
    <3> QED
      BY <3>1 DEF IInv, Stands
  <2>2. CASE c \notin Beginnings
    <3>1. c \in ChildrenOf(tree, d)
      BY <1>1, <2>2, TargetFacts
    <3> QED
      BY <1>1, <1>2, <3>1, ChildFacts
  <2> QED
    BY <2>1, <2>2
<1>4. Parts(tree, c)
  BY <1>1, <1>2, <1>3 DEF Parts
<1>5. /\ tree' = Parted(tree, c) /\ replaced' = replaced \cup r
      /\ current' = Root /\ file' = file /\ exposed' = exposed
  BY DEF Delete, Parted
<1>6. Sane(tree')
  BY <1>4, <1>5, PartedSane
<1>7. Stands'
  BY <1>5, <1>6, UpRoot DEF Stands, Live
<1>8. ASSUME ~exposed' PROVE Tidy(tree') /\ Homed(tree', replaced')
  BY <1>1, <1>4, <1>5, <1>8, PartedTidy
<1>9. replaced' \subseteq Ids
  <2>1. r \subseteq Ids
    <3>1. tree.num[d] \in 0 .. MaxSlots
      BY <1>1, <1>2, Fields
    <3>2. tree.num[d] - 1 \in Slots
      BY <1>3, <3>1, Bounds
    <3> QED
      BY <1>1, <1>2, <3>2, Fields DEF Dropped
  <2> HIDE DEF r
  <2> QED
    BY <1>1, <1>5, <2>1
<1>10. IInv'
  <2>1. file' \in Seq(FileRecords) /\ exposed' \in BOOLEAN
    BY <1>1, <1>5
  <2> QED
    BY <1>6, <1>7, <1>8, <1>9, <2>1, Settles
<1> QED
  BY <1>4, <1>5, <1>10

(* Cd: a path can only name a live context.                                  *)
LEMMA CdKeeps ==
  ASSUME IInv, Sound, NEW c \in Targets, Cd(c)
  PROVE  IInv' /\ Keeps(tree')
<1>1. /\ Sane(tree) /\ tree \in Trees /\ c \in Live(tree) /\ c \in Allocated(tree) /\ c \in Ids
      /\ file \in Seq(FileRecords) /\ exposed \in BOOLEAN /\ replaced \subseteq Ids
      /\ ~exposed => Tidy(tree) /\ Homed(tree, replaced)
      /\ current \in Live(tree) /\ Targets \subseteq Live(tree) /\ Targets \subseteq Ids
  BY Before
<1>2. tree' = tree /\ current' = c /\ file' = file /\ exposed' = exposed /\ replaced' = replaced
  BY DEF Cd
<1>3. Up(tree, c) \subseteq Targets
  <2>1. c \in Targets /\ \A x \in Targets \ {Root} : tree.parent[x] \in Targets
    BY <1>1, TargetFacts
  <2> QED
    BY <1>1, <2>1, UpFacts
<1>4. ASSUME NEW x \in Targets \ {Root} PROVE tree.num[tree.parent[x]] > 0
  <2>1. CASE x \in Beginnings
    <3>1. x \in Up(tree, current) \ {Root}
      BY <2>1 DEF Beginnings
    <3> QED
      BY <3>1 DEF IInv, Stands
  <2>2. CASE x \notin Beginnings
    <3>1. x \in ChildrenOf(tree, tree.parent[x]) /\ tree.parent[x] \in Ids
      BY <1>1, <2>2, TargetFacts
    <3> QED
      BY <1>1, <3>1, ChildFacts
  <2> QED
    BY <2>1, <2>2
<1>5. Stands'
  BY <1>1, <1>2, <1>3, <1>4 DEF Stands
<1>6. Keeps(tree')
  <2>1. \A b \in Allocated(tree) : tree.num[b] \in Nat
    BY <1>1, Fields
  <2> QED
    BY <1>2, <2>1 DEF Keeps
<1>7. IInv'
  BY <1>1, <1>2, <1>5, Settles
<1> QED
  BY <1>6, <1>7

(* Save: only the file changes.                                              *)
LEMMA SaveKeeps ==
  ASSUME IInv, Sound, NEW c \in Targets, Save(c)
  PROVE  IInv' /\ Keeps(tree')
<1>1. /\ Sane(tree) /\ tree \in Trees /\ c \in Allocated(tree)
      /\ exposed \in BOOLEAN /\ replaced \subseteq Ids
      /\ ~exposed => Tidy(tree) /\ Homed(tree, replaced)
  BY Before
<1>2. /\ tree' = tree /\ current' = current /\ file' = Records(tree, c)
      /\ exposed' = exposed /\ replaced' = replaced
  BY DEF Save
<1>3. file' \in Seq(FileRecords)
  BY <1>1, <1>2, RecordsType
<1>4. Keeps(tree')
  <2>1. \A b \in Allocated(tree) : tree.num[b] \in Nat
    BY <1>1, Fields
  <2> QED
    BY <1>2, <2>1 DEF Keeps
<1>5. Stands'
  BY <1>1, <1>2, <1>4, StandsOn
<1>6. IInv'
  BY <1>1, <1>2, <1>3, <1>5, Settles
<1> QED
  BY <1>4, <1>6

(* Load: as many creations as there are records.                             *)
LEMMA LoadKeeps ==
  ASSUME IInv, Sound, NEW c \in Targets, Load(c)
  PROVE  IInv' /\ Keeps(tree')
<1>1. /\ Sane(tree) /\ tree \in Trees /\ c \in Allocated(tree) /\ current \in Live(tree)
      /\ exposed \in BOOLEAN /\ replaced \subseteq Ids /\ file \in Seq(FileRecords)
      /\ ~exposed => Tidy(tree) /\ Homed(tree, replaced)
  BY Before
<1>2. /\ tree' = Loaded(tree, c) /\ current' = current /\ file' = file
      /\ replaced' = IF HasNumbered THEN replaced \cup Unreached(tree') ELSE replaced
      /\ exposed' = (exposed \/ (HasNumbered /\ \E b \in Targets : LeftOver(tree, b)))
      /\ Room(tree)
  BY DEF Load
<1>3. Loads(c)
  BY <1>1, <1>2 DEF Loads
<1>4. tree' \in Trees /\ Growing(tree', Len(file))
  BY <1>1, <1>2, <1>3, LoadedGrows
<1>5. Sane(tree') /\ Keeps(tree')
  BY <1>4 DEF Growing
<1>6. Stands'
  BY <1>2, <1>5, StandsOn
<1>7. replaced' \subseteq Ids /\ exposed' \in BOOLEAN
  <2>1. Unreached(tree') \subseteq Ids
    BY <1>4, Fields DEF Unreached
  <2> QED
    BY <1>1, <1>2, <2>1
<1>8. ASSUME ~exposed' PROVE Tidy(tree') /\ Homed(tree', replaced')
  <2>1. Quiet
    BY <1>2, <1>8 DEF Quiet
  <2>2. Tidy(tree') /\ (~HasNumbered => Homed(tree', replaced))
    BY <1>4, <2>1 DEF Growing
  <2>3. ASSUME HasNumbered PROVE Homed(tree', replaced')
    <3> SUFFICES ASSUME NEW x \in Live(tree') \ {Root}, x \notin Unreached(tree')
                 PROVE  x \in ChildrenOf(tree', tree'.parent[x])
      BY <1>2, <2>3 DEF Homed
    <3>1. x \in Below(tree', Root)
      BY DEF Live, Unreached
    <3>2. Root \in Allocated(tree')
      BY <1>5, UpRoot
    <3> QED
      BY <1>5, <3>1, <3>2, BelowFacts
  <2> QED
    BY <1>2, <2>2, <2>3
<1>9. IInv'
  BY <1>1, <1>2, <1>5, <1>6, <1>7, <1>8, Settles
<1> QED
  BY <1>5, <1>9

-----------------------------------------------------------------------------
(* The theorems.                                                             *)

(* The first tree is the root alone.                                         *)
LEMMA Begins == Init => IInv
<1> SUFFICES ASSUME Init PROVE IInv
  OBVIOUS
<1>1. /\ tree = [freed |-> {}, name |-> [c \in Ids |-> "none"],
                 parent |-> [c \in Ids |-> Null],
                 children |-> [c \in Ids |-> [i \in Slots |-> Null]],
                 num |-> [c \in Ids |-> 0], next |-> 2]
      /\ current = Root /\ file = <<>> /\ exposed = FALSE /\ replaced = {}
  BY DEF Init
<1>2. tree \in Trees
  <2>1. 2 \in 2 .. MaxContexts + 1 /\ 0 \in 0 .. MaxSlots
    BY Bounds
  <2> QED
    BY <1>1, <2>1 DEF Trees
<1>3. Allocated(tree) = {Root}
  BY <1>1, Bounds DEF Allocated
<1>4. /\ \A c \in Ids, i \in Slots : tree.children[c][i] = Null
      /\ \A c \in Ids : tree.num[c] = 0 /\ tree.parent[c] = Null
      /\ tree.freed = {}
  BY <1>1
<1>5. Sane(tree)
  <2>1. SlotsOwn(tree)
    BY <1>4 DEF SlotsOwn
  <2>2. Fresh(tree)
    BY <1>4 DEF Fresh
  <2>3. Parents(tree)
    BY <1>3, <1>4, Bounds DEF Parents
  <2> QED
    BY <1>2, <2>1, <2>2, <2>3 DEF Sane
<1>6. \A c \in Ids : Visible(tree, c) = {} /\ ChildrenOf(tree, c) = {}
  BY <1>4 DEF Visible, ChildrenOf
<1>7. Live(tree) = {Root} /\ Root \in Ids
  BY <1>3, <1>4, Bounds DEF Live
<1>8. Tidy(tree) /\ Homed(tree, replaced)
  BY <1>4, <1>6, <1>7 DEF Tidy, Homed, Differ
<1>9. Stands
  BY <1>1, <1>5, <1>7, UpRoot DEF Stands
<1>10. TypeOK
  <2>1. <<>> \in Seq(FileRecords)
    OBVIOUS
  <2>2. TreeTyped
    BY <1>2 DEF Trees, TreeTyped
  <2> QED
    BY <1>1, <1>7, <2>1, <2>2 DEF TypeOK, TreeTyped, FileRecords
<1> QED
  BY <1>5, <1>8, <1>9, <1>10 DEF IInv

(* Each step keeps it.                                                       *)
LEMMA StepKeeps == IInv /\ [Next]_vars => IInv'
<1> SUFFICES ASSUME IInv, [Next]_vars PROVE IInv'
  OBVIOUS
<1>1. ASSUME Sound, NEW c \in Targets, Command(c) PROVE IInv'
  <2>1. CASE \E n \in Names : Create(c, n)
    BY <1>1, <2>1, CreateKeeps
  <2>2. CASE Delete(c)
    BY <1>1, <2>2, DeleteKeeps
  <2>3. CASE Cd(c)
    BY <1>1, <2>3, CdKeeps
  <2>4. CASE Save(c)
    BY <1>1, <2>4, SaveKeeps
  <2>5. CASE Load(c)
    BY <1>1, <2>5, LoadKeeps
  <2> QED
    BY <1>1, <2>1, <2>2, <2>3, <2>4, <2>5 DEF Command
<1>2. CASE UNCHANGED vars
  <2>1. /\ tree' = tree /\ current' = current /\ file' = file /\ exposed' = exposed
        /\ replaced' = replaced
    BY <1>2 DEF vars
  <2> QED
    BY <2>1, Zenon DEF IInv, TypeOK, Stands
<1> QED
  BY <1>1, <1>2 DEF Next

(* The tree is sane in every state, and tidy as long as no slot that         *)
(* deletion left behind was made visible (ctree.c:2386, 4292).               *)
THEOREM TreeInvariant == Spec => []IInv
BY Begins, StepKeeps, PTL DEF Spec

(* Whatever commands are given, the variables keep their types: the counts   *)
(* of slots never go below zero, because a context that a path can name is   *)
(* one that its parent counts (ctree.c:4287).                                *)
THEOREM TypeCorrect == Spec => []TypeOK
<1>1. IInv => TypeOK
  BY DEF IInv
<1> QED
  BY <1>1, TreeInvariant, PTL

(* Below the root are live contexts.                                         *)
LEMMA BelowRootLives ==
  ASSUME NEW t, Sane(t), Tidy(t)
  PROVE  Below(t, Root) \subseteq Live(t)
<1>1. Root \in Allocated(t) /\ Root \in Live(t) /\ Live(t) \in SUBSET Ids
  BY UpRoot, Fields DEF Live, Sane
<1>2. ASSUME NEW x \in Live(t) PROVE ChildrenOf(t, x) \subseteq Live(t)
  <2>1. x \in Ids /\ ChildrenOf(t, x) \cap t.freed = {}
    BY <1>1, <1>2 DEF Tidy
  <2> QED
    BY <2>1, ChildFacts DEF Live
<1> QED
  BY <1>1, <1>2, BelowFacts

(* The children of a context are live, are its own and have different names, *)
(* however deletion moved them (ctree.c:4287).                               *)
THEOREM ChildrenStayOwn == Spec => []OwnChildren
<1>1. ASSUME IInv PROVE OwnChildren
  <2> SUFFICES ASSUME ~exposed, NEW c \in Below(tree, Root)
               PROVE  /\ \A d \in ChildrenOf(tree, c) : d \notin tree.freed /\ tree.parent[d] = c
                      /\ Differ(tree, c)
    BY DEF OwnChildren, Differ
  <2>1. Sane(tree) /\ Tidy(tree)
    BY <1>1 DEF IInv
  <2>2. c \in Live(tree) /\ c \in Ids
    BY <2>1, BelowRootLives, Fields DEF Live, Sane
  <2>3. ChildrenOf(tree, c) \cap tree.freed = {} /\ Differ(tree, c)
    BY <2>1, <2>2 DEF Tidy
  <2> QED
    BY <2>1, <2>2, <2>3, ChildFacts
<1> QED
  BY <1>1, TreeInvariant, PTL

(* No context is lost: each one that is not freed can be reached, but for    *)
(* those whose slot a #n has taken, and what is below them (ctree.c:2386).   *)
(* The oldest lost context would have a parent that is not lost.             *)
THEOREM NothingIsLost == Spec => []NothingLost
<1>1. ASSUME IInv PROVE NothingLost
  <2> DEFINE Lost == Unreached(tree) \ BelowAny(tree, replaced)
  <2> SUFFICES ASSUME ~exposed, Lost # {} PROVE FALSE
    BY DEF NothingLost
  <2>1. /\ Sane(tree) /\ Tidy(tree) /\ Homed(tree, replaced) /\ replaced \subseteq Ids
        /\ Root \in Allocated(tree) /\ Allocated(tree) \subseteq Ids
    BY <1>1, UpRoot, Fields DEF IInv, TypeOK, Sane
  <2>2. PICK x \in Lost : \A y \in Lost : x <= y
    <3>1. Lost \in SUBSET Nat
      BY <2>1, Bounds DEF Unreached
    <3> HIDE DEF Lost
    <3> QED
      BY <3>1, LeastNatural
  <2>3. x \in Live(tree) /\ x \notin Below(tree, Root) /\ x \in Allocated(tree) /\ x \in Ids
    BY <2>1 DEF Unreached, Live
  <2>4. x # Root
    BY <2>1, <2>3, BelowFacts
  <2>5. x \notin replaced
    <3>1. x \in Below(tree, x) /\ x \notin tree.freed
      BY <2>1, <2>3, BelowFacts DEF Live
    <3> QED
      BY <3>1 DEF BelowAny
  <2> DEFINE p == tree.parent[x]
  <2>6. x \in ChildrenOf(tree, p)
    BY <2>1, <2>3, <2>4, <2>5 DEF Homed
  <2>7. p \in Allocated(tree) /\ p < x /\ p \in Ids
    <3>1. p \in 1 .. x - 1 /\ tree.next \in 2 .. MaxContexts + 1 /\ x \in 1 .. tree.next - 1
      BY <2>1, <2>3, <2>4, Fields DEF Sane, Parents
    <3>2. p \in 1 .. tree.next - 1 /\ p < x
      BY <3>1, Bounds
    <3> QED
      BY <2>1, <3>2, Fields DEF Sane
  <2>8. p \notin tree.freed
    BY <2>1, <2>3, <2>6 DEF Tidy, Live
  <2>9. p \notin Below(tree, Root)
    BY <2>1, <2>3, <2>6, BelowFacts
  <2>10. p \in Unreached(tree)
    BY <2>7, <2>8, <2>9 DEF Unreached
  <2>11. p \in BelowAny(tree, replaced)
    <3>1. ~(x <= p)
      BY <2>3, <2>7, Bounds
    <3> QED
      BY <2>2, <2>10, <3>1
  <2>12. PICK r \in replaced \ tree.freed : p \in Below(tree, r)
    BY <2>11 DEF BelowAny
  <2>13. r \in Allocated(tree)
    <3>1. CASE r = p
      BY <2>7, <3>1
    <3>2. CASE r \notin Allocated(tree)
      <4>1. r \in Ids /\ r >= tree.next
        <5>1. Allocated(tree) = 1 .. tree.next - 1 /\ tree.next \in 2 .. MaxContexts + 1
          BY <2>1, Fields DEF Sane
        <5> QED
          BY <2>1, <3>2, <5>1, Bounds
      <4>2. ChildrenOf(tree, r) = {}
        BY <2>1, <4>1 DEF Sane, Fresh, ChildrenOf, Visible
      <4>3. Below(tree, r) \subseteq {r}
        <5> DEFINE leads == [b \in Ids |-> ChildrenOf(tree, b)]
        <5>1. leads \in Leading
          BY <2>1, Fields DEF Leading, Sane
        <5>2. Closed(leads, {r}) /\ {r} \in SUBSET Ids
          BY <4>1, <4>2 DEF Closed
        <5>3. Below(tree, r) = Closure(leads, r)
          BY DEF Below
        <5> HIDE DEF leads
        <5> QED
          BY <4>1, <5>1, <5>2, <5>3, ClosureIsLeast
      <4> QED
        BY <2>7, <2>12, <3>2, <4>3
    <3> QED
      BY <3>2
  <2>14. x \in Below(tree, r)
    BY <2>1, <2>6, <2>12, <2>13, BelowFacts
  <2> QED
    BY <2>12, <2>14 DEF BelowAny
<1> QED
  BY <1>1, TreeInvariant, PTL

(* The current context is never a freed one (ctree.c:4295).                  *)
THEOREM CurrentStandsFirm == Spec => []CurrentStands
<1>1. IInv => CurrentStands
  BY DEF IInv, Stands, Live, CurrentStands
<1> QED
  BY <1>1, TreeInvariant, PTL

(* What a step may change of a context that is not deleted: not its name or  *)
(* its parent.                                                               *)
LEMMA StepSteady ==
  ASSUME IInv, Next
  PROVE  \A b \in Allocated(tree) : /\ b \in Allocated(tree')
                                    /\ tree'.name[b] = tree.name[b]
                                    /\ tree'.parent[b] = tree.parent[b]
<1>1. PICK c \in Targets : Sound /\ Command(c)
  BY DEF Next
<1>2. CASE Delete(c)
  <2>1. tree' = Parted(tree, c) /\ Parts(tree, c)
    BY <1>1, <1>2, DeleteKeeps
  <2>2. tree'.name = tree.name /\ tree'.parent = tree.parent /\ Allocated(tree') = Allocated(tree)
    BY <2>1, PartedFields, PartedSane
  <2> QED
    BY <2>2
<1>3. CASE ~Delete(c)
  <2>1. Keeps(tree')
    BY <1>1, <1>3, CreateKeeps, CdKeeps, SaveKeeps, LoadKeeps DEF Command
  <2> QED
    BY <2>1 DEF Keeps
<1> QED
  BY <1>2, <1>3

(* A step changes nothing for the contexts it is not about: one that is not  *)
(* deleted or replaced keeps its name, its parent and the path that finds it *)
(* (ctree.c:2386, 4287).                                                     *)
THEOREM OthersStayFound == Spec => OthersStay
<1> DEFINE Found(c) ==
             \/ c \in tree'.freed \cup BelowAny(tree', replaced')
             \/ /\ c \in ChildrenOf(tree', tree.parent[c])
                /\ FirstNamed(tree', tree.parent[c], tree.name[c]) = c
           Stay == ~exposed' => \A c \in Below(tree, Root) \ {Root} : Found(c)
<1>1. ASSUME IInv, IInv', Next PROVE Stay
  <2> SUFFICES ASSUME ~exposed', NEW c \in Below(tree, Root) \ {Root},
                      c \notin tree'.freed, c \notin BelowAny(tree', replaced')
               PROVE  /\ c \in ChildrenOf(tree', tree.parent[c])
                      /\ FirstNamed(tree', tree.parent[c], tree.name[c]) = c
    OBVIOUS
  <2> DEFINE p == tree.parent[c]
             n == tree.name[c]
  <2>1. /\ Sane(tree) /\ Sane(tree') /\ Tidy(tree') /\ Homed(tree', replaced')
        /\ tree' \in Trees
    BY <1>1 DEF IInv, Sane
  <2>2. c \in Allocated(tree)
    <3>1. Root \in Allocated(tree)
      BY <2>1, UpRoot
    <3> QED
      BY <2>1, <3>1, BelowFacts
  <2>3. c \in Allocated(tree') /\ tree'.name[c] = n /\ tree'.parent[c] = p
    BY <1>1, <2>2, StepSteady
  <2>4. c \notin replaced'
    <3>1. c \in Below(tree', c)
      BY <2>1, <2>3, BelowFacts
    <3> QED
      BY <3>1 DEF BelowAny
  <2>5. c \in ChildrenOf(tree', p)
    BY <2>1, <2>3, <2>4 DEF Homed, Live
  <2>6. p \in Allocated(tree') /\ p \in Ids
    <3>1. /\ p \in 1 .. c - 1 /\ tree'.next \in 2 .. MaxContexts + 1
          /\ c \in 1 .. tree'.next - 1
      BY <2>1, <2>2, <2>3, Fields DEF Sane, Parents
    <3>2. p \in 1 .. tree'.next - 1
      BY <3>1, Bounds
    <3> QED
      BY <2>1, <3>2, Fields
  <2>7. Differ(tree', p)
    <3>1. p \in Live(tree')
      BY <2>1, <2>5, <2>6 DEF Tidy, Live
    <3> QED
      BY <2>1, <3>1 DEF Tidy
  <2>8. PICK i \in Visible(tree', p) : tree'.children[p][i] = c
    BY <2>5 DEF ChildrenOf
  <2>9. Named(tree', p, n) = {i}
    BY <2>3, <2>7, <2>8 DEF Named, Differ
  <2>10. FirstNamed(tree', p, n) = c
    <3>1. i <= i
      BY <2>1, <2>6, Fields, Bounds DEF Visible
    <3> DEFINE k == CHOOSE j \in {i} : \A l \in {i} : j <= l
    <3>2. k = i
      BY <3>1
    <3>3. FirstNamed(tree', p, n) = tree'.children[p][k]
      BY <2>9 DEF FirstNamed
    <3> QED
      BY <2>8, <3>2, <3>3
  <2> QED
    BY <2>5, <2>10
<1>2. IInv /\ IInv' /\ [Next]_vars => [Stay]_vars
  BY <1>1
<1>3. Spec => [][Next]_vars
  BY DEF Spec
<1>4. Spec => [][Stay]_vars
  BY <1>2, <1>3, TreeInvariant, PTL
<1> QED
  BY <1>4 DEF OthersStay
=============================================================================
