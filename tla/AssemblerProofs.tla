-------------------------- MODULE AssemblerProofs ---------------------------
(***************************************************************************)
(* Machine-checked proof that the assembler links every jump, for any      *)
(* source: whatever is nested in whatever, every jump that it writes       *)
(* without a target is to a label that is set later and linked after that. *)
(***************************************************************************)
EXTENDS GammaAssembly, SequenceTheorems, Induction

-----------------------------------------------------------------------------
(* Sequences whose elements have no common type.                             *)

(* The elements, the rest and the length of a sequence.                      *)
LEMMA SequenceParts ==
  ASSUME NEW s, Sequence(s)
  PROVE  /\ Len(s) \in Nat /\ DOMAIN s = 1 .. Len(s)
         /\ s = <<>> <=> Len(s) = 0
<1> DEFINE S == {s[k] : k \in DOMAIN s}
<1>1. s \in Seq(S)
  BY DEF Sequence
<1> HIDE DEF S
<1> QED
  BY <1>1

(* A sequence of anything is a sequence.                                     *)
LEMMA AnySequence ==
  ASSUME NEW S, NEW s \in Seq(S)
  PROVE  Sequence(s)
<1> DEFINE T == {s[k] : k \in DOMAIN s}
<1>1. Len(s) \in Nat /\ DOMAIN s = 1 .. Len(s) /\ s \in [1 .. Len(s) -> S]
  BY LenProperties
<1>2. s \in [1 .. Len(s) -> T]
  BY <1>1
<1>3. s \in Seq(T)
  <2> HIDE DEF T
  <2> QED
    BY <1>1, <1>2, SeqDef
<1> QED
  BY <1>3 DEF Sequence

(* A function on 1 .. n is a sequence.                                       *)
LEMMA FunctionSequence ==
  ASSUME NEW n \in Nat, NEW s, DOMAIN s = 1 .. n, s = [k \in DOMAIN s |-> s[k]]
  PROVE  Sequence(s) /\ Len(s) = n
<1> DEFINE T == {s[k] : k \in DOMAIN s}
<1>1. s \in [1 .. n -> T]
  OBVIOUS
<1> HIDE DEF T
<1>2. s \in Seq(T) /\ Len(s) = n
  BY <1>1, SeqDef
<1> QED
  BY <1>2, AnySequence

(* One sequence after another.                                               *)
LEMMA Joined ==
  ASSUME NEW s, NEW t, Sequence(s), Sequence(t)
  PROVE  /\ Sequence(s \o t) /\ Len(s \o t) = Len(s) + Len(t)
         /\ \A k \in 1 .. Len(s) : (s \o t)[k] = s[k]
         /\ \A k \in 1 .. Len(t) : (s \o t)[Len(s) + k] = t[k]
         /\ \A k \in DOMAIN (s \o t) :
              k \in 1 .. Len(s) \/ (k - Len(s) \in 1 .. Len(t) /\ (s \o t)[k] = t[k - Len(s)])
<1> DEFINE S == {s[k] : k \in DOMAIN s} \cup {t[k] : k \in DOMAIN t}
<1>1. s \in Seq(S) /\ t \in Seq(S)
  <2>1. s \in Seq({s[k] : k \in DOMAIN s}) /\ t \in Seq({t[k] : k \in DOMAIN t})
    BY DEF Sequence
  <2> QED
    BY <2>1, SeqMonotonic
<1> HIDE DEF S
<1>2. /\ s \o t \in Seq(S) /\ Len(s \o t) = Len(s) + Len(t)
      /\ \A i \in 1 .. Len(s) + Len(t) :
           (s \o t)[i] = IF i <= Len(s) THEN s[i] ELSE t[i - Len(s)]
  BY <1>1, ConcatProperties
<1>3. Len(s) \in Nat /\ Len(t) \in Nat
  BY SequenceParts
<1>4. DOMAIN (s \o t) = 1 .. Len(s) + Len(t)
  BY <1>2, LenProperties
<1>5. Sequence(s \o t)
  BY <1>2, AnySequence
<1>6. \A k \in 1 .. Len(t) : (s \o t)[Len(s) + k] = t[k]
  BY <1>2, <1>3
<1>7. \A k \in 1 .. Len(s) : (s \o t)[k] = s[k]
  BY <1>2, <1>3
<1>8. ASSUME NEW k \in DOMAIN (s \o t)
      PROVE  k \in 1 .. Len(s) \/ (k - Len(s) \in 1 .. Len(t) /\ (s \o t)[k] = t[k - Len(s)])
  BY <1>2, <1>3, <1>4
<1> QED
  BY <1>2, <1>5, <1>6, <1>7, <1>8

(* What is left without the head.                                            *)
LEMMA Rest ==
  ASSUME NEW s, Sequence(s), s # <<>>
  PROVE  /\ Sequence(Tail(s)) /\ Len(s) = Len(Tail(s)) + 1 /\ Head(s) = s[1] /\ 1 \in DOMAIN s
         /\ \A k \in 1 .. Len(Tail(s)) : Tail(s)[k] = s[k + 1] /\ k + 1 \in DOMAIN s
<1> DEFINE S == {s[k] : k \in DOMAIN s}
<1>1. s \in Seq(S)
  BY DEF Sequence
<1> HIDE DEF S
<1>2. /\ Tail(s) \in Seq(S) /\ Len(Tail(s)) = Len(s) - 1
      /\ \A i \in 1 .. Len(Tail(s)) : Tail(s)[i] = s[i + 1]
  BY <1>1, HeadTailProperties
<1>3. Len(s) \in Nat /\ DOMAIN s = 1 .. Len(s) /\ Len(s) # 0
  BY SequenceParts
<1>4. Sequence(Tail(s))
  BY <1>2, AnySequence
<1>5. Head(s) = s[1]
  BY <1>1
<1> QED
  BY <1>2, <1>3, <1>4, <1>5

-----------------------------------------------------------------------------
(* A label is settled behind item i: it is set, and linked afterwards.       *)
Links(s, i) == \E j \in DOMAIN s : i < j /\ s[j] = Link
Settles(s, i, l) ==
  \E m, j \in DOMAIN s : i < m /\ m < j /\ s[m] = Label(l) /\ s[j] = Link

(* What is settled is linked, and settled further in front.                  *)
LEMMA SettledIsLinked ==
  ASSUME NEW s, Sequence(s), NEW i \in Int, NEW h \in Int, h <= i, NEW l
  PROVE  /\ Settles(s, i, l) => Links(s, i) /\ Settles(s, h, l)
         /\ Links(s, i) => Links(s, h)
<1>1. \A k \in DOMAIN s : k \in Int
  BY SequenceParts
<1>2. ASSUME Settles(s, i, l) PROVE Links(s, i) /\ Settles(s, h, l)
  <2>1. PICK m \in DOMAIN s, j \in DOMAIN s : i < m /\ m < j /\ s[m] = Label(l) /\ s[j] = Link
    BY <1>2 DEF Settles
  <2>2. h < m /\ i < j
    BY <1>1, <2>1
  <2> QED
    BY <2>1, <2>2 DEF Settles, Links
<1>3. ASSUME Links(s, i) PROVE Links(s, h)
  BY <1>1, <1>3 DEF Links
<1> QED
  BY <1>2, <1>3

(* Nothing that is settled behind the head is lost with it.                  *)
LEMMA RestSettles ==
  ASSUME NEW s, Sequence(s), s # <<>>, NEW i \in Nat, NEW l
  PROVE  /\ Links(s, i + 1) => Links(Tail(s), i)
         /\ Settles(s, i + 1, l) => Settles(Tail(s), i, l)
         /\ Links(s, 0) /\ Head(s) # Link => Links(Tail(s), 0)
         /\ Settles(s, 0, l) => Settles(Tail(s), 0, l) \/ (Head(s) = Label(l) /\ Links(Tail(s), 0))
<1> DEFINE r == Tail(s)
<1>1. /\ Sequence(r) /\ Len(s) = Len(r) + 1 /\ Head(s) = s[1] /\ 1 \in DOMAIN s
      /\ \A k \in 1 .. Len(r) : r[k] = s[k + 1]
      /\ Len(r) \in Nat /\ DOMAIN r = 1 .. Len(r) /\ DOMAIN s = 1 .. Len(s)
  BY Rest, SequenceParts
<1> HIDE DEF r
<1>2. ASSUME NEW k \in DOMAIN s, k > 1 PROVE k - 1 \in DOMAIN r /\ r[k - 1] = s[k]
  <2>1. k - 1 \in 1 .. Len(r) /\ (k - 1) + 1 = k
    BY <1>1, <1>2
  <2> QED
    BY <1>1, <2>1
<1>3. ASSUME NEW e \in Nat, NEW k \in DOMAIN s, k > e + 1 PROVE k > 1 /\ e < k - 1 /\ k \in Int
  BY <1>1, <1>3
<1>4. ASSUME NEW e \in Nat, Links(s, e + 1) PROVE Links(r, e)
  <2>1. PICK j \in DOMAIN s : e + 1 < j /\ s[j] = Link
    BY <1>4 DEF Links
  <2> QED
    BY <1>2, <1>3, <2>1 DEF Links
<1>5. ASSUME NEW e \in Nat, Settles(s, e + 1, l) PROVE Settles(r, e, l)
  <2>1. PICK m \in DOMAIN s, j \in DOMAIN s : e + 1 < m /\ m < j /\ s[m] = Label(l) /\ s[j] = Link
    BY <1>5 DEF Settles
  <2>2. m > 1 /\ e < m - 1 /\ j > 1 /\ m - 1 < j - 1
    BY <1>1, <2>1
  <2> QED
    BY <1>2, <2>1, <2>2 DEF Settles
<1>6. ASSUME Links(s, 0), Head(s) # Link PROVE Links(r, 0)
  <2>1. PICK j \in DOMAIN s : 0 < j /\ s[j] = Link
    BY <1>6 DEF Links
  <2>2. j > 0 + 1
    BY <1>1, <1>6, <2>1
  <2>3. Links(s, 0 + 1)
    BY <2>1, <2>2 DEF Links
  <2> QED
    BY <1>4, <2>3
<1>7. ASSUME Settles(s, 0, l) PROVE Settles(r, 0, l) \/ (Head(s) = Label(l) /\ Links(r, 0))
  <2>1. PICK m \in DOMAIN s, j \in DOMAIN s : 0 < m /\ m < j /\ s[m] = Label(l) /\ s[j] = Link
    BY <1>7 DEF Settles
  <2>2. CASE m = 1
    <3>1. Head(s) = Label(l) /\ 0 + 1 < j
      BY <1>1, <2>1, <2>2
    <3>2. Links(s, 0 + 1)
      BY <2>1, <3>1 DEF Links
    <3> QED
      BY <1>4, <3>1, <3>2
  <2>3. CASE m # 1
    <3>1. 0 + 1 < m
      BY <1>1, <2>1, <2>3
    <3>2. Settles(s, 0 + 1, l)
      BY <2>1, <3>1 DEF Settles
    <3> QED
      BY <1>5, <3>2
  <2> QED
    BY <2>2, <2>3
<1> QED
  BY <1>4, <1>5, <1>6, <1>7 DEF r

(* What is put in front keeps everything behind it settled.                  *)
LEMMA FrontSettles ==
  ASSUME NEW n, NEW r, Sequence(n), Sequence(r), NEW l
  PROVE  /\ \A i \in 0 .. Len(r) : Links(r, i) => Links(n \o r, Len(n) + i)
         /\ \A i \in 0 .. Len(r) : Settles(r, i, l) => Settles(n \o r, Len(n) + i, l)
         /\ \A k \in 0 .. Len(n) : Links(r, 0) => Links(n \o r, k)
         /\ \A k \in 0 .. Len(n) : Settles(r, 0, l) => Settles(n \o r, k, l)
         /\ \A k \in 0 .. Len(n) : Links(n, k) => Links(n \o r, k)
         /\ \A k \in 0 .. Len(n) : Settles(n, k, l) => Settles(n \o r, k, l)
         /\ \A m \in 1 .. Len(n), k \in 0 .. Len(n) :
              k < m /\ n[m] = Label(l) /\ Links(r, 0) => Settles(n \o r, k, l)
<1> DEFINE s == n \o r
<1>1. /\ Sequence(s) /\ Len(n) \in Nat /\ Len(r) \in Nat /\ DOMAIN s = 1 .. Len(n) + Len(r)
      /\ DOMAIN n = 1 .. Len(n) /\ DOMAIN r = 1 .. Len(r)
      /\ \A k \in 1 .. Len(n) : s[k] = n[k]
      /\ \A k \in 1 .. Len(r) : s[Len(n) + k] = r[k]
  BY Joined, SequenceParts
<1> HIDE DEF s
<1>2. ASSUME NEW i \in 0 .. Len(r), Links(r, i) PROVE Links(s, Len(n) + i)
  <2>1. PICK j \in DOMAIN r : i < j /\ r[j] = Link
    BY <1>2 DEF Links
  <2>2. Len(n) + j \in DOMAIN s /\ s[Len(n) + j] = Link /\ Len(n) + i < Len(n) + j
    BY <1>1, <2>1
  <2> QED
    BY <2>2 DEF Links
<1>3. ASSUME NEW i \in 0 .. Len(r), Settles(r, i, l) PROVE Settles(s, Len(n) + i, l)
  <2>1. PICK m \in DOMAIN r, j \in DOMAIN r : i < m /\ m < j /\ r[m] = Label(l) /\ r[j] = Link
    BY <1>3 DEF Settles
  <2>2. /\ Len(n) + j \in DOMAIN s /\ s[Len(n) + j] = Link
        /\ Len(n) + m \in DOMAIN s /\ s[Len(n) + m] = Label(l)
        /\ Len(n) + i < Len(n) + m /\ Len(n) + m < Len(n) + j
    BY <1>1, <2>1
  <2> QED
    BY <2>2 DEF Settles
<1>4. ASSUME NEW k \in 0 .. Len(n), Links(r, 0) PROVE Links(s, k)
  <2>1. Links(s, Len(n) + 0) /\ Len(n) + 0 = Len(n)
    BY <1>1, <1>2, <1>4
  <2>2. k \in Int /\ Len(n) \in Int /\ k <= Len(n)
    BY <1>1
  <2> QED
    BY <1>1, <2>1, <2>2, SettledIsLinked
<1>5. ASSUME NEW k \in 0 .. Len(n), Settles(r, 0, l) PROVE Settles(s, k, l)
  <2>1. Settles(s, Len(n) + 0, l) /\ Len(n) + 0 = Len(n)
    BY <1>1, <1>3, <1>5
  <2>2. k \in Int /\ Len(n) \in Int /\ k <= Len(n)
    BY <1>1
  <2> QED
    BY <1>1, <2>1, <2>2, SettledIsLinked
<1>6. ASSUME NEW k \in 0 .. Len(n), Links(n, k) PROVE Links(s, k)
  <2>1. PICK j \in DOMAIN n : k < j /\ n[j] = Link
    BY <1>6 DEF Links
  <2>2. j \in DOMAIN s /\ s[j] = Link
    BY <1>1, <2>1
  <2> QED
    BY <2>1, <2>2 DEF Links
<1>7. ASSUME NEW k \in 0 .. Len(n), Settles(n, k, l) PROVE Settles(s, k, l)
  <2>1. PICK m \in DOMAIN n, j \in DOMAIN n : k < m /\ m < j /\ n[m] = Label(l) /\ n[j] = Link
    BY <1>7 DEF Settles
  <2>2. j \in DOMAIN s /\ s[j] = Link /\ m \in DOMAIN s /\ s[m] = Label(l)
    BY <1>1, <2>1
  <2> QED
    BY <2>1, <2>2 DEF Settles
<1>8. ASSUME NEW m \in 1 .. Len(n), NEW k \in 0 .. Len(n), k < m, n[m] = Label(l), Links(r, 0)
      PROVE  Settles(s, k, l)
  <2>1. PICK j \in DOMAIN s : Len(n) < j /\ s[j] = Link
    <3>1. Links(s, Len(n) + 0) /\ Len(n) + 0 = Len(n)
      BY <1>1, <1>2, <1>8
    <3> QED
      BY <3>1 DEF Links
  <2>2. m \in DOMAIN s /\ s[m] = Label(l) /\ m < j
    BY <1>1, <1>8, <2>1
  <2> QED
    BY <1>8, <2>1, <2>2 DEF Settles
<1> QED
  BY <1>2, <1>3, <1>4, <1>5, <1>6, <1>7, <1>8 DEF s

-----------------------------------------------------------------------------
(* The states of the assembler.                                              *)

IsState(a) ==
  a \in [code : {a.code}, labels : {a.labels}, pending : {a.pending},
         counter : {a.counter}, functions : {a.functions}, start : {a.start},
         todo : {a.todo}]

(* Position t of a batch is a command, or is where the next command comes.   *)
Lands(code, t) == t \in 0 .. Len(code) /\ (t < Len(code) => code[t + 1].cell = "func")

IsJump(c) == c.cell = "func" /\ c.is \in {"Goto", "GoSub"}

(* A command that can be written: a jump in it has its target.               *)
Writable(code, f, operands) ==
  /\ Sequence(operands)
  /\ f \in {"Goto", "GoSub"} => Len(operands) = 1 /\ Lands(code, operands[1])

(* What the items hold.                                                      *)
IsPlain(i) ==
  \/ i.do = "value" /\ i.e \in Expressions
  \/ i.do = "jump"
  \/ i.do = "label" /\ i = Label(i.l)
  \/ i.do = "link" /\ i = Link
  \/ i.do = "case" /\ i.arm \in [cond : Expressions, code : Code]
  \/ IsStatement(i)
  \/ IsFunction(i)
  \/ i.do = "main" /\ i.code \in Code
IsExit(code, i) == i.do = "jump" \/ (i.do = "put" /\ Writable(code, i.f, i.operands))
IsItem(code, i) ==
  \/ IsPlain(i)
  \/ i.do = "put" /\ Writable(code, i.f, i.operands)
  \/ i.do = "guarded" /\ i.code \in Code /\ IsExit(code, i.exit)

(* Whatever item k jumps to is settled behind it.                            *)
Served(s, k) ==
  /\ s[k].do = "jump" => Settles(s, k, s[k].l)
  /\ s[k].do = "case" => Settles(s, k, s[k].end)
  /\ s[k].do = "guarded" =>
       /\ Links(s, k)
       /\ s[k].exit.do = "jump" => Settles(s, k, s[k].exit.l)

Settled(a, l) ==
  Settles(a.todo, 0, l) \/ (l \in DOMAIN a.labels /\ Links(a.todo, 0))

(* Each jump has its target, or is pending.                                  *)
JumpsKnown(a) ==
  \A k \in DOMAIN a.code :
    IsJump(a.code[k]) =>
      /\ k + 1 \in DOMAIN a.code
      /\ \/ Lands(a.code, a.code[k + 1].is)
         \/ a.code[k + 1].is = -1 /\ \E p \in a.pending : p[2] = k

(* A pending jump that is not linked yet will be.                            *)
PendingSettled(a) ==
  \A p \in a.pending :
    /\ p[2] \in DOMAIN a.code /\ p[2] + 1 \in DOMAIN a.code
    /\ IsJump(a.code[p[2]]) /\ a.code[p[2] + 1].cell = "data"
    /\ a.code[p[2] + 1].is = -1 => Settled(a, p[1])

TablesLand(a) ==
  /\ \A l \in DOMAIN a.labels : Lands(a.code, a.labels[l])
  /\ \A f \in DOMAIN a.functions : Lands(a.code, a.functions[f])

Serves(code, s) ==
  Sequence(s) /\ \A k \in DOMAIN s : IsItem(code, s[k]) /\ Served(s, k)

(* The last item writes a command, so that a label at the end of the batch   *)
(* comes to stand before one.                                                *)
Last(s) == s[Len(s)]
EndsWell(a) ==
  /\ a.todo # <<>> => Last(a.todo).do \in {"put", "main"}
  /\ a.todo = <<>> =>
       \A k \in DOMAIN a.code : IsJump(a.code[k]) => a.code[k + 1].is < Len(a.code)

Linking(a) ==
  /\ IsState(a) /\ Sequence(a.code) /\ Serves(a.code, a.todo)
  /\ JumpsKnown(a) /\ PendingSettled(a) /\ TablesLand(a)
  /\ EndsWell(a)

(* One batch goes on with another: the cells keep their kinds, and what is   *)
(* added starts with a command.                                              *)
GoesOnAs(code, more) ==
  /\ Sequence(code) /\ Sequence(more) /\ Len(code) <= Len(more)
  /\ \A k \in DOMAIN code : more[k].cell = code[k].cell
  /\ Len(code) < Len(more) => more[Len(code) + 1].cell = "func"

(* Then what was a command stays one.                                        *)
LEMMA LandsStill ==
  ASSUME NEW code, NEW more, GoesOnAs(code, more)
  PROVE  /\ \A t : Lands(code, t) => Lands(more, t)
         /\ \A f, operands : Writable(code, f, operands) => Writable(more, f, operands)
         /\ \A i : IsItem(code, i) => IsItem(more, i)
<1>1. Len(code) \in Nat /\ Len(more) \in Nat /\ DOMAIN code = 1 .. Len(code)
  BY SequenceParts DEF GoesOnAs
<1>2. ASSUME NEW t, Lands(code, t) PROVE Lands(more, t)
  <2>1. Len(code) <= Len(more)
    BY DEF GoesOnAs
  <2>2. t \in 0 .. Len(code)
    BY <1>2 DEF Lands
  <2>3. ASSUME NEW u \in Nat, u < Len(code), Lands(code, u) PROVE Lands(more, u)
    <3>1. u + 1 \in DOMAIN code /\ u \in 0 .. Len(more)
      BY <1>1, <2>1, <2>3
    <3>2. code[u + 1].cell = "func"
      BY <2>3 DEF Lands
    <3> QED
      BY <3>1, <3>2 DEF GoesOnAs, Lands
  <2>4. Lands(more, Len(code))
    BY <1>1, <2>1 DEF GoesOnAs, Lands
  <2>5. \A n \in Nat : t \in 0 .. n => t \in Nat /\ (t < n \/ t = n)
    OBVIOUS
  <2> QED
    BY <1>1, <1>2, <2>2, <2>3, <2>4, <2>5
<1>3. ASSUME NEW f, NEW operands, Writable(code, f, operands) PROVE Writable(more, f, operands)
  BY <1>2, <1>3 DEF Writable
<1>4. ASSUME NEW i, IsItem(code, i) PROVE IsItem(more, i)
  BY <1>3, <1>4 DEF IsItem, IsExit
<1> QED
  BY <1>2, <1>3, <1>4

(* The parts of a state with something put in front of what is to be done.   *)
LEMMA FirstParts ==
  ASSUME NEW a, IsState(a), NEW items
  PROVE  LET b == First(a, items) IN
         /\ IsState(b) /\ b.todo = items \o a.todo
         /\ b.code = a.code /\ b.labels = a.labels /\ b.pending = a.pending
         /\ b.functions = a.functions /\ b.start = a.start
BY DEF IsState, First

-----------------------------------------------------------------------------
(* What holds of the rest when the first item is taken.                      *)
LEMMA RestServes ==
  ASSUME NEW code, NEW s, Serves(code, s), s # <<>>
  PROVE  /\ Serves(code, Tail(s)) /\ IsItem(code, Head(s))
         /\ Head(s).do = "jump" => Settles(Tail(s), 0, Head(s).l)
         /\ Head(s).do = "case" => Settles(Tail(s), 0, Head(s).end)
         /\ Head(s).do = "guarded" =>
              /\ Links(Tail(s), 0)
              /\ Head(s).exit.do = "jump" => Settles(Tail(s), 0, Head(s).exit.l)
<1> DEFINE r == Tail(s)
<1>1. /\ Sequence(s) /\ Sequence(r) /\ Head(s) = s[1] /\ 1 \in DOMAIN s
      /\ Len(r) \in Nat /\ DOMAIN r = 1 .. Len(r)
      /\ \A k \in DOMAIN r : r[k] = s[k + 1] /\ k + 1 \in DOMAIN s
  BY Rest, SequenceParts DEF Serves
<1>2. \A i \in Nat : \A l :
        (Links(s, i + 1) => Links(r, i)) /\ (Settles(s, i + 1, l) => Settles(r, i, l))
  BY <1>1, RestSettles
<1> HIDE DEF r
<1>3. ASSUME NEW k \in DOMAIN r PROVE IsItem(code, r[k]) /\ Served(r, k)
  <2>1. k \in Nat /\ r[k] = s[k + 1] /\ IsItem(code, s[k + 1]) /\ Served(s, k + 1)
    BY <1>1, <1>3 DEF Serves
  <2> QED
    BY <1>2, <2>1 DEF Served
<1>4. IsItem(code, s[1]) /\ Served(s, 1)
  BY <1>1 DEF Serves
<1>5. \A l : (Links(s, 1) => Links(r, 0)) /\ (Settles(s, 1, l) => Settles(r, 0, l))
  <2>1. 0 \in Nat /\ 0 + 1 = 1
    OBVIOUS
  <2> QED
    BY <1>2, <2>1
<1> QED
  BY <1>1, <1>3, <1>4, <1>5 DEF Serves, Served, r

(* New items in front, each well served, leave the rest well served.         *)
LEMMA FrontServes ==
  ASSUME NEW code, NEW n, NEW r, Serves(code, r), Sequence(n),
         \A k \in 1 .. Len(n) : IsItem(code, n[k]) /\ Served(n \o r, k)
  PROVE  Serves(code, n \o r)
<1> DEFINE s == n \o r
<1>1. /\ Sequence(r) /\ Sequence(s) /\ Len(n) \in Nat /\ Len(r) \in Nat
      /\ DOMAIN r = 1 .. Len(r) /\ DOMAIN n = 1 .. Len(n)
      /\ \A k \in 1 .. Len(n) : s[k] = n[k]
      /\ \A k \in DOMAIN s : k \in 1 .. Len(n) \/ (k - Len(n) \in 1 .. Len(r) /\ s[k] = r[k - Len(n)])
  BY Joined, SequenceParts DEF Serves
<1>2. ASSUME NEW k \in DOMAIN s PROVE IsItem(code, s[k]) /\ Served(s, k)
  <2>1. CASE k \in 1 .. Len(n)
    BY <1>1, <2>1
  <2>2. CASE k \notin 1 .. Len(n)
    <3> DEFINE h == k - Len(n)
    <3>1. h \in 1 .. Len(r) /\ s[k] = r[h] /\ IsItem(code, r[h]) /\ Served(r, h)
      BY <1>1, <1>2, <2>2 DEF Serves
    <3>2. k = Len(n) + h
      <4>1. DOMAIN s = 1 .. Len(s)
        BY <1>1, SequenceParts
      <4> QED
        BY <1>1, <1>2, <4>1
    <3> HIDE DEF h
    <3>3. h \in 0 .. Len(r)
      BY <1>1, <3>1
    <3>4. \A l : /\ Links(r, h) => Links(s, Len(n) + h)
                 /\ Settles(r, h, l) => Settles(s, Len(n) + h, l)
      BY <1>1, <3>3, FrontSettles
    <3> QED
      BY <3>1, <3>2, <3>4 DEF Served
  <2> QED
    BY <2>1, <2>2
<1> QED
  BY <1>1, <1>2 DEF Serves

(* The last item of the rest is that of the whole.                           *)
LEMMA LastOfRest ==
  ASSUME NEW s, Sequence(s), s # <<>>
  PROVE  /\ Tail(s) # <<>> => Last(Tail(s)) = Last(s)
         /\ Tail(s) = <<>> => Head(s) = Last(s)
<1> DEFINE r == Tail(s)
<1>1. /\ Sequence(r) /\ Len(s) = Len(r) + 1 /\ Head(s) = s[1] /\ Len(r) \in Nat
      /\ \A k \in 1 .. Len(r) : r[k] = s[k + 1]
      /\ r = <<>> <=> Len(r) = 0
  BY Rest, SequenceParts
<1> HIDE DEF r
<1>2. ASSUME r # <<>> PROVE Last(r) = Last(s)
  <2>1. Len(r) \in 1 .. Len(r)
    BY <1>1, <1>2
  <2> QED
    BY <1>1, <2>1 DEF Last
<1>3. ASSUME r = <<>> PROVE Head(s) = Last(s)
  BY <1>1, <1>3 DEF Last
<1> QED
  BY <1>2, <1>3 DEF r

(* The last item of two sequences is that of the second, if it has one.      *)
LEMMA LastOfJoined ==
  ASSUME NEW n, NEW r, Sequence(n), Sequence(r)
  PROVE  /\ r # <<>> => Last(n \o r) = Last(r)
         /\ r = <<>> /\ n # <<>> => Last(n \o r) = Last(n)
         /\ n # <<>> => n \o r # <<>>
<1>1. /\ Len(n \o r) = Len(n) + Len(r) /\ Len(n) \in Nat /\ Len(r) \in Nat
      /\ \A k \in 1 .. Len(n) : (n \o r)[k] = n[k]
      /\ \A k \in 1 .. Len(r) : (n \o r)[Len(n) + k] = r[k]
      /\ r = <<>> <=> Len(r) = 0
      /\ n = <<>> <=> Len(n) = 0
      /\ n \o r = <<>> <=> Len(n \o r) = 0
  BY Joined, SequenceParts
<1>2. ASSUME r # <<>> PROVE Last(n \o r) = Last(r)
  <2>1. Len(r) \in 1 .. Len(r)
    BY <1>1, <1>2
  <2> QED
    BY <1>1, <2>1 DEF Last
<1>3. ASSUME r = <<>>, n # <<>> PROVE Last(n \o r) = Last(n)
  <2>1. Len(n) \in 1 .. Len(n) /\ Len(n \o r) = Len(n)
    BY <1>1, <1>3
  <2> QED
    BY <1>1, <2>1 DEF Last
<1> QED
  BY <1>1, <1>2, <1>3

(* An unlinked jump is settled by what is left, or is ready for the item     *)
(* that links.                                                               *)
LEMMA StillSettled ==
  ASSUME NEW a, Sequence(a.todo), a.todo # <<>>, NEW l, Settled(a, l), Head(a.todo) # Link
  PROVE  \/ Settles(Tail(a.todo), 0, l)
         \/ /\ Links(Tail(a.todo), 0)
            /\ l \in DOMAIN a.labels \/ Head(a.todo) = Label(l)
<1>1. /\ Links(a.todo, 0) => Links(Tail(a.todo), 0)
      /\ Settles(a.todo, 0, l) => \/ Settles(Tail(a.todo), 0, l)
                                  \/ Head(a.todo) = Label(l) /\ Links(Tail(a.todo), 0)
  <2>1. 0 \in Nat
    OBVIOUS
  <2> QED
    BY <2>1, RestSettles
<1> QED
  BY <1>1 DEF Settled

(* An item replaced by others: the batch does not change.                    *)
LEMMA ExpandKeeps ==
  ASSUME NEW a, Linking(a), a.todo # <<>>, NEW b, IsState(b), NEW n, Sequence(n), n # <<>>,
         b.code = a.code, b.labels = a.labels, b.pending = a.pending,
         b.todo = n \o Tail(a.todo),
         \A f \in DOMAIN b.functions : Lands(a.code, b.functions[f]),
         Head(a.todo) # Link, \A l : Head(a.todo) # Label(l),
         \A k \in 1 .. Len(n) : IsItem(a.code, n[k]) /\ Served(n \o Tail(a.todo), k),
         Last(a.todo).do \in {"put", "main"} /\ Tail(a.todo) = <<>> =>
           Last(n).do \in {"put", "main"}
  PROVE  Linking(b)
<1> DEFINE r == Tail(a.todo)
<1>1. Serves(a.code, a.todo) /\ Serves(a.code, r) /\ Sequence(r) /\ Sequence(a.todo)
  BY RestServes DEF Linking, Serves
<1>2. Serves(b.code, b.todo)
  BY <1>1, FrontServes
<1>3. JumpsKnown(b) /\ TablesLand(b) /\ Sequence(b.code)
  BY DEF Linking, JumpsKnown, TablesLand
<1>4. ASSUME NEW l, Settled(a, l) PROVE Settled(b, l)
  <2>1. Settles(r, 0, l) \/ (Links(r, 0) /\ l \in DOMAIN a.labels)
    BY <1>1, <1>4, StillSettled
  <2>2. 0 \in 0 .. Len(n)
    BY SequenceParts
  <2>3. /\ Links(r, 0) => Links(n \o r, 0)
        /\ Settles(r, 0, l) => Settles(n \o r, 0, l)
    BY <1>1, <2>2, FrontSettles
  <2> QED
    BY <2>1, <2>3 DEF Settled
<1>5. PendingSettled(b)
  BY <1>4 DEF Linking, PendingSettled
<1>6. EndsWell(b)
  <2>1. Last(a.todo).do \in {"put", "main"}
    BY DEF Linking, EndsWell
  <2>2. /\ r # <<>> => Last(n \o r) = Last(r)
        /\ r = <<>> => Last(n \o r) = Last(n)
        /\ n \o r # <<>>
    BY <1>1, LastOfJoined
  <2>3. r # <<>> => Last(r) = Last(a.todo)
    BY <1>1, LastOfRest
  <2>4. r = <<>> => Last(n).do \in {"put", "main"}
    BY <2>1
  <2> QED
    BY <2>1, <2>2, <2>3, <2>4 DEF EndsWell
<1> QED
  BY <1>2, <1>3, <1>5, <1>6 DEF Linking

(* Short sequences.                                                          *)
LEMMA Nothing == Sequence(<<>>) /\ Len(<<>>) = 0
<1>1. <<>> \in Seq({})
  OBVIOUS
<1> QED
  BY <1>1, AnySequence

LEMMA Single ==
  ASSUME NEW e
  PROVE  Sequence(<<e>>) /\ Len(<<e>>) = 1 /\ <<e>>[1] = e
<1>1. <<e>> \in Seq({e})
  OBVIOUS
<1> QED
  BY <1>1, AnySequence

(* A batch with one more command.                                            *)
Written(code, f, operands) ==
  code \o <<[cell |-> "func", is |-> f]>>
       \o [k \in DOMAIN operands |-> [cell |-> "data", is |-> operands[k]]]

HasWritten(code, more, f, operands) ==
  /\ Sequence(more) /\ GoesOnAs(code, more)
  /\ Len(more) = Len(code) + 1 + Len(operands)
  /\ \A k \in 1 .. Len(code) : more[k] = code[k]
  /\ more[Len(code) + 1] = [cell |-> "func", is |-> f]
  /\ \A k \in 1 .. Len(operands) :
       more[Len(code) + 1 + k] = [cell |-> "data", is |-> operands[k]]

LEMMA WrittenParts ==
  ASSUME NEW code, NEW f, NEW operands, Sequence(code), Sequence(operands)
  PROVE  HasWritten(code, Written(code, f, operands), f, operands)
<1> DEFINE c == <<[cell |-> "func", is |-> f]>>
           d == [k \in DOMAIN operands |-> [cell |-> "data", is |-> operands[k]]]
           more == Written(code, f, operands)
<1>1. Len(code) \in Nat /\ Len(operands) \in Nat /\ DOMAIN operands = 1 .. Len(operands)
      /\ DOMAIN code = 1 .. Len(code)
  BY SequenceParts
<1>2. Sequence(c) /\ Len(c) = 1 /\ c[1] = [cell |-> "func", is |-> f]
  BY Single
<1>3. Sequence(d) /\ Len(d) = Len(operands)
  <2>1. DOMAIN d = 1 .. Len(operands) /\ d = [k \in DOMAIN d |-> d[k]]
    BY <1>1
  <2> HIDE DEF d
  <2> QED
    BY <1>1, <2>1, FunctionSequence
<1>4. \A k \in 1 .. Len(operands) : d[k] = [cell |-> "data", is |-> operands[k]]
  BY <1>1
<1> HIDE DEF c, d
<1>5. /\ Sequence(code \o c) /\ Len(code \o c) = Len(code) + 1
      /\ \A k \in 1 .. Len(code) : (code \o c)[k] = code[k]
      /\ \A k \in 1 .. 1 : (code \o c)[Len(code) + k] = c[k]
  <2>1. /\ Sequence(code \o c) /\ Len(code \o c) = Len(code) + Len(c)
        /\ \A k \in 1 .. Len(code) : (code \o c)[k] = code[k]
        /\ \A k \in 1 .. Len(c) : (code \o c)[Len(code) + k] = c[k]
    <3>1. Sequence(code) /\ Sequence(c)
      BY <1>2
    <3> QED
      BY ONLY <3>1, Joined
  <2> QED
    BY <1>2, <2>1
<1>6. /\ Sequence((code \o c) \o d) /\ Len((code \o c) \o d) = Len(code \o c) + Len(d)
      /\ \A k \in 1 .. Len(code \o c) : ((code \o c) \o d)[k] = (code \o c)[k]
      /\ \A k \in 1 .. Len(d) : ((code \o c) \o d)[Len(code \o c) + k] = d[k]
  BY <1>3, <1>5, Joined
<1>7. more = (code \o c) \o d
  BY DEF Written, c, d
<1> HIDE DEF more
<1>8. /\ Sequence(more) /\ Len(more) = Len(code) + 1 + Len(operands)
      /\ \A k \in 1 .. Len(code) : more[k] = code[k]
      /\ more[Len(code) + 1] = [cell |-> "func", is |-> f]
  <2>1. \A k \in 1 .. Len(code) : k \in 1 .. Len(code \o c)
    BY <1>1, <1>5
  <2>2. 1 \in 1 .. 1 /\ Len(code) + 1 \in 1 .. Len(code \o c)
    BY <1>1, <1>5
  <2>3. more[Len(code) + 1] = c[1]
    BY <1>5, <1>6, <1>7, <2>2
  <2> QED
    BY <1>2, <1>3, <1>5, <1>6, <1>7, <2>1, <2>3
<1>9. \A k \in 1 .. Len(operands) :
        more[Len(code) + 1 + k] = [cell |-> "data", is |-> operands[k]]
  BY <1>3, <1>4, <1>5, <1>6, <1>7
<1>10. GoesOnAs(code, more)
  BY <1>1, <1>8 DEF GoesOnAs
<1> QED
  BY <1>8, <1>9, <1>10 DEF more, HasWritten

(* A command is written: its operand is a target, or is put on record.       *)
LEMMA WriteKeeps ==
  ASSUME NEW a, Linking(a), a.todo # <<>>, NEW b, IsState(b), NEW f, NEW operands,
         Sequence(operands),
         Head(a.todo) # Link, \A l : Head(a.todo) # Label(l),
         b.code = Written(a.code, f, operands), b.todo = Tail(a.todo),
         b.labels = a.labels, b.functions = a.functions,
         \/ Writable(a.code, f, operands) /\ b.pending = a.pending
         \/ /\ f = "Goto" /\ Len(operands) = 1 /\ operands[1] = -1
            /\ \E l : /\ b.pending = a.pending \cup {<<l, Len(a.code) + 1>>}
                      /\ Settles(Tail(a.todo), 0, l)
  PROVE  Linking(b)
<1> DEFINE r == Tail(a.todo)
           n == Len(a.code)
           f1 == [cell |-> "func", is |-> f]
           d(k) == [cell |-> "data", is |-> operands[k]]
<1>1. /\ Sequence(b.code) /\ GoesOnAs(a.code, b.code)
      /\ Len(b.code) = n + 1 + Len(operands)
      /\ \A k \in 1 .. n : b.code[k] = a.code[k]
      /\ b.code[n + 1] = f1
      /\ \A k \in 1 .. Len(operands) : b.code[n + 1 + k] = d(k)
  <2>1. Sequence(a.code) /\ Sequence(operands)
    BY DEF Linking
  <2>2. HasWritten(a.code, b.code, f, operands)
    BY <2>1, WrittenParts
  <2> QED
    BY <2>2 DEF HasWritten
<1>2. n \in Nat /\ Len(operands) \in Nat /\ DOMAIN a.code = 1 .. n
      /\ DOMAIN b.code = 1 .. n + 1 + Len(operands)
  <2>1. Sequence(a.code) /\ Sequence(b.code) /\ Sequence(operands)
    BY <1>1 DEF Linking
  <2> QED
    BY <1>1, <2>1, SequenceParts
<1>3. Serves(a.code, a.todo) /\ Serves(a.code, r) /\ Sequence(r) /\ Sequence(a.todo)
  BY RestServes DEF Linking, Serves
<1>4. /\ \A t : Lands(a.code, t) => Lands(b.code, t) /\ t < n + 1
      /\ \A i : IsItem(a.code, i) => IsItem(b.code, i)
  <2>1. \A t : Lands(a.code, t) => t < n + 1
    BY <1>2 DEF Lands
  <2> QED
    BY <1>1, <2>1, LandsStill
<1>5. \A p \in a.pending : p \in b.pending
  OBVIOUS
<1> HIDE DEF n, f1, d
<1>6. Serves(b.code, b.todo) /\ TablesLand(b)
  BY <1>3, <1>4 DEF Serves, Linking, TablesLand
(* An old cell stays what it was.                                            *)
<1>7. ASSUME NEW k \in DOMAIN b.code, IsJump(b.code[k]), k <= n
      PROVE  /\ k \in DOMAIN a.code /\ k + 1 \in DOMAIN a.code /\ k + 1 \in DOMAIN b.code
             /\ IsJump(a.code[k]) /\ b.code[k + 1] = a.code[k + 1]
             /\ \/ Lands(a.code, a.code[k + 1].is)
                \/ a.code[k + 1].is = -1 /\ \E p \in a.pending : p[2] = k
  <2>1. k \in 1 .. n /\ b.code[k] = a.code[k]
    BY <1>1, <1>2, <1>7
  <2>2. IsJump(a.code[k]) /\ k + 1 \in DOMAIN a.code
        /\ \/ Lands(a.code, a.code[k + 1].is)
           \/ a.code[k + 1].is = -1 /\ \E p \in a.pending : p[2] = k
    BY <1>2, <1>7, <2>1 DEF Linking, JumpsKnown
  <2> QED
    BY <1>1, <1>2, <2>1, <2>2
(* The new command.                                                          *)
<1>8. ASSUME NEW k \in DOMAIN b.code, IsJump(b.code[k]), ~(k <= n)
      PROVE  /\ k = n + 1 /\ k + 1 \in DOMAIN b.code /\ b.code[k + 1].is = operands[1]
             /\ \/ Lands(a.code, operands[1])
                \/ operands[1] = -1 /\ \E p \in b.pending : p[2] = k
  <2>1. k = n + 1
    <3>1. k = n + 1 \/ k - (n + 1) \in 1 .. Len(operands)
      BY <1>2, <1>8
    <3>2. ASSUME NEW j \in 1 .. Len(operands), j = k - (n + 1) PROVE FALSE
      <4>1. k = n + 1 + j
        BY <1>2, <1>8, <3>2
      <4>2. b.code[k] = d(j)
        BY <1>1, <4>1
      <4>3. b.code[k].cell = "data"
        BY <4>2 DEF d
      <4> QED
        BY <1>8, <4>3 DEF IsJump
    <3> QED
      BY <3>1, <3>2
  <2>2. f \in {"Goto", "GoSub"}
    BY <1>1, <1>8, <2>1 DEF IsJump, f1
  <2>3. Len(operands) = 1
    BY <2>2 DEF Writable
  <2>4. k + 1 \in DOMAIN b.code /\ b.code[k + 1].is = operands[1]
    <3>1. 1 \in 1 .. Len(operands) /\ n + 1 + 1 = k + 1
      BY <1>2, <2>1, <2>3
    <3>2. b.code[k + 1] = d(1)
      BY <1>1, <3>1
    <3> QED
      BY <1>2, <2>1, <2>3, <3>2 DEF d
  <2>5. \/ Lands(a.code, operands[1])
        \/ operands[1] = -1 /\ \E p \in b.pending : p[2] = k
    <3>1. CASE Writable(a.code, f, operands)
      BY <2>2, <3>1 DEF Writable
    <3>2. ASSUME NEW l, operands[1] = -1, b.pending = a.pending \cup {<<l, n + 1>>}
          PROVE  operands[1] = -1 /\ \E p \in b.pending : p[2] = k
      <4>1. <<l, n + 1>> \in b.pending /\ <<l, n + 1>>[2] = k
        BY <2>1, <3>2
      <4> QED
        BY <3>2, <4>1
    <3> QED
      BY <3>1, <3>2 DEF n
  <2> QED
    BY <2>1, <2>4, <2>5
<1>9. JumpsKnown(b)
  <2> SUFFICES ASSUME NEW k \in DOMAIN b.code, IsJump(b.code[k])
               PROVE  /\ k + 1 \in DOMAIN b.code
                      /\ \/ Lands(b.code, b.code[k + 1].is)
                         \/ b.code[k + 1].is = -1 /\ \E p \in b.pending : p[2] = k
    BY DEF JumpsKnown
  <2>1. CASE k <= n
    BY <1>4, <1>5, <1>7, <2>1
  <2>2. CASE ~(k <= n)
    BY <1>4, <1>8, <2>2
  <2> QED
    BY <2>1, <2>2
<1>10. PendingSettled(b)
  <2> SUFFICES ASSUME NEW p \in b.pending
               PROVE  /\ p[2] \in DOMAIN b.code /\ p[2] + 1 \in DOMAIN b.code
                      /\ IsJump(b.code[p[2]]) /\ b.code[p[2] + 1].cell = "data"
                      /\ b.code[p[2] + 1].is = -1 => Settled(b, p[1])
    BY DEF PendingSettled
  <2>1. CASE p \in a.pending
    <3>1. /\ p[2] \in DOMAIN a.code /\ p[2] + 1 \in DOMAIN a.code
          /\ IsJump(a.code[p[2]]) /\ a.code[p[2] + 1].cell = "data"
          /\ a.code[p[2] + 1].is = -1 => Settled(a, p[1])
      BY <2>1 DEF Linking, PendingSettled
    <3>2. /\ b.code[p[2]] = a.code[p[2]] /\ b.code[p[2] + 1] = a.code[p[2] + 1]
          /\ p[2] \in DOMAIN b.code /\ p[2] + 1 \in DOMAIN b.code
      BY <1>1, <1>2, <3>1
    <3>3. Settled(a, p[1]) => Settled(b, p[1])
      BY <1>3, StillSettled DEF Settled
    <3> QED
      BY <3>1, <3>2, <3>3
  <2>2. ASSUME NEW l, p = <<l, n + 1>>, Settles(r, 0, l), f = "Goto", Len(operands) = 1
        PROVE  /\ p[2] \in DOMAIN b.code /\ p[2] + 1 \in DOMAIN b.code
               /\ IsJump(b.code[p[2]]) /\ b.code[p[2] + 1].cell = "data"
               /\ Settled(b, p[1])
    <3>1. p[2] = n + 1 /\ p[1] = l
      BY <2>2
    <3>2. n + 1 \in DOMAIN b.code /\ n + 1 + 1 \in DOMAIN b.code /\ 1 \in 1 .. Len(operands)
      BY <1>2, <2>2
    <3>3. b.code[n + 1] = f1 /\ b.code[n + 1 + 1] = d(1)
      BY <1>1, <3>2
    <3>4. Settled(b, l)
      BY <2>2 DEF Settled
    <3> QED
      BY <2>2, <3>1, <3>2, <3>3, <3>4 DEF IsJump, f1, d
  <2> QED
    BY <2>1, <2>2 DEF n
<1>11. EndsWell(b)
  <2>1. CASE r # <<>>
    <3>1. Last(r).do \in {"put", "main"}
      BY <1>3, <2>1, LastOfRest DEF Linking, EndsWell
    <3> QED
      BY <2>1, <3>1 DEF EndsWell
  <2>2. CASE r = <<>>
    <3>1. ASSUME NEW k \in DOMAIN b.code, IsJump(b.code[k]) PROVE b.code[k + 1].is < n + 1
      <4>1. -1 < n + 1
        BY <1>2
      <4>2. CASE k <= n
        BY <1>4, <1>7, <3>1, <4>1, <4>2
      <4>3. CASE ~(k <= n)
        BY <1>4, <1>8, <3>1, <4>1, <4>3
      <4> QED
        BY <4>2, <4>3
    <3>2. n + 1 <= Len(b.code)
      BY <1>1, <1>2
    <3>3. ASSUME NEW k \in DOMAIN b.code, IsJump(b.code[k])
          PROVE  b.code[k + 1].is < Len(b.code)
      <4>1. b.code[k + 1].is \in Int
        <5>1. \A t : Lands(a.code, t) => t \in Int
          BY DEF Lands
        <5> QED
          BY <1>7, <1>8, <3>3, <5>1
      <4> QED
        BY <1>1, <1>2, <3>1, <3>2, <3>3, <4>1
    <3> QED
      BY <2>2, <3>3 DEF EndsWell
  <2> QED
    BY <2>1, <2>2
<1> QED
  BY <1>1, <1>6, <1>9, <1>10, <1>11 DEF Linking

(* A label is set where the next command comes.                              *)
LEMMA SetLabelKeeps ==
  ASSUME NEW a, Linking(a), a.todo # <<>>, NEW l, Head(a.todo) = Label(l),
         NEW b, IsState(b), b.code = a.code, b.pending = a.pending,
         b.functions = a.functions, b.todo = Tail(a.todo),
         b.labels = Entered(a.labels, l, Len(a.code))
  PROVE  Linking(b)
<1> DEFINE r == Tail(a.todo)
<1>1. Serves(a.code, a.todo) /\ Serves(a.code, r) /\ Sequence(r) /\ Sequence(a.todo)
  BY RestServes DEF Linking, Serves
<1>2. Serves(b.code, b.todo) /\ JumpsKnown(b) /\ Sequence(b.code)
  BY <1>1 DEF Linking, JumpsKnown
<1>3. TablesLand(b)
  <2>1. Len(a.code) \in Nat
    BY SequenceParts DEF Linking
  <2>2. Lands(a.code, Len(a.code))
    BY <2>1 DEF Lands
  <2> QED
    BY <2>2 DEF Linking, TablesLand, Entered
<1>4. Head(a.todo) # Link
  BY DEF Label, Link
<1>5. ASSUME NEW m, Settled(a, m) PROVE Settled(b, m)
  <2>1. \/ Settles(r, 0, m)
        \/ Links(r, 0) /\ (m \in DOMAIN a.labels \/ Head(a.todo) = Label(m))
    BY <1>1, <1>4, <1>5, StillSettled
  <2>2. Head(a.todo) = Label(m) => m = l
    BY DEF Label
  <2>3. m \in DOMAIN a.labels \/ m = l => m \in DOMAIN b.labels
    BY DEF Entered
  <2> QED
    BY <2>1, <2>2, <2>3 DEF Settled
<1>6. PendingSettled(b)
  BY <1>5 DEF Linking, PendingSettled
<1>7. EndsWell(b)
  <2>1. Last(a.todo).do \in {"put", "main"} /\ Head(a.todo).do = "label"
    BY DEF Linking, EndsWell, Label
  <2>2. r # <<>> /\ Last(r) = Last(a.todo)
    BY <1>1, <2>1, LastOfRest
  <2> QED
    BY <2>1, <2>2 DEF EndsWell
<1> QED
  BY <1>2, <1>3, <1>6, <1>7 DEF Linking

(* A batch in which the jumps to labels that are set have their targets.     *)
HasLinked(a, more) ==
  /\ Sequence(more) /\ Len(more) = Len(a.code)
  /\ \A k \in DOMAIN a.code :
       \/ more[k] = a.code[k] /\ \A p \in Due(a) : p[2] + 1 # k
       \/ /\ a.code[k].cell = "data" /\ a.code[k].is = -1
          /\ more[k].cell = "data" /\ Lands(a.code, more[k].is)

LEMMA LinkedParts ==
  ASSUME NEW a, Linking(a)
  PROVE  HasLinked(a, Patched(a, Due(a)).code)
<1> DEFINE due == Due(a)
           at(k) == CHOOSE p \in due : p[2] + 1 = k
           more == [k \in DOMAIN a.code |->
                      IF \E p \in due : p[2] + 1 = k
                      THEN [cell |-> "data", is |-> a.labels[at(k)[1]]] ELSE a.code[k]]
<1>1. Patched(a, Due(a)).code = more
  <2>1. DOMAIN a = {"code", "labels", "pending", "counter", "functions", "start", "todo"}
    BY DEF Linking, IsState
  <2> QED
    BY <2>1 DEF Patched
<1>2. Len(a.code) \in Nat /\ DOMAIN a.code = 1 .. Len(a.code)
  BY SequenceParts DEF Linking
<1>3. Sequence(more) /\ Len(more) = Len(a.code)
  <2>1. DOMAIN more = 1 .. Len(a.code) /\ more = [k \in DOMAIN more |-> more[k]]
    BY <1>2
  <2> HIDE DEF more
  <2> QED
    BY <1>2, <2>1, FunctionSequence
<1>4. ASSUME NEW k \in DOMAIN a.code, \E p \in due : p[2] + 1 = k
      PROVE  /\ a.code[k].cell = "data" /\ a.code[k].is = -1
             /\ more[k].cell = "data" /\ Lands(a.code, more[k].is)
  <2>1. at(k) \in due /\ at(k)[2] + 1 = k
    BY <1>4
  <2>2. more[k] = [cell |-> "data", is |-> a.labels[at(k)[1]]]
    BY <1>4
  <2> HIDE DEF at, more
  <2>3. at(k) \in a.pending /\ at(k)[1] \in DOMAIN a.labels /\ a.code[k].is = -1
    BY <2>1 DEF Due
  <2>4. a.code[k].cell = "data"
    BY <2>1, <2>3 DEF Linking, PendingSettled
  <2>5. Lands(a.code, a.labels[at(k)[1]])
    BY <2>3 DEF Linking, TablesLand
  <2> QED
    BY <2>2, <2>3, <2>4, <2>5
<1>5. ASSUME NEW k \in DOMAIN a.code, ~ \E p \in due : p[2] + 1 = k
      PROVE  more[k] = a.code[k]
  BY <1>5
<1> HIDE DEF more
<1> QED
  BY <1>1, <1>3, <1>4, <1>5 DEF HasLinked

(* Linking leaves only jumps whose labels are still to come.                 *)
LEMMA LinkKeeps ==
  ASSUME NEW a, Linking(a), a.todo # <<>>, Head(a.todo) = Link,
         NEW b, IsState(b), b.pending = a.pending, b.labels = a.labels,
         b.functions = a.functions, b.todo = Tail(a.todo), HasLinked(a, b.code)
  PROVE  Linking(b)
<1> DEFINE r == Tail(a.todo)
<1>1. Serves(a.code, a.todo) /\ Serves(a.code, r) /\ Sequence(r) /\ Sequence(a.todo)
  BY RestServes DEF Linking, Serves
<1>2. /\ Sequence(a.code) /\ Len(a.code) \in Nat /\ DOMAIN a.code = 1 .. Len(a.code)
      /\ Sequence(b.code) /\ Len(b.code) = Len(a.code) /\ DOMAIN b.code = DOMAIN a.code
  BY SequenceParts DEF Linking, HasLinked
<1>3. GoesOnAs(a.code, b.code)
  BY <1>2 DEF GoesOnAs, HasLinked
<1>4. ASSUME NEW t, Lands(a.code, t) PROVE Lands(b.code, t) /\ t # -1
  <2>1. t # -1
    BY <1>4 DEF Lands
  <2> QED
    BY <1>3, <1>4, <2>1, LandsStill
<1>5. \A i : IsItem(a.code, i) => IsItem(b.code, i)
  BY <1>3, LandsStill
<1>6. Serves(b.code, b.todo) /\ TablesLand(b)
  BY <1>1, <1>4, <1>5 DEF Serves, Linking, TablesLand
<1>7. ASSUME NEW k \in DOMAIN a.code
      PROVE  /\ IsJump(b.code[k]) <=> IsJump(a.code[k])
             /\ b.code[k].cell = a.code[k].cell
  BY DEF IsJump, HasLinked
<1>8. JumpsKnown(b)
  <2> SUFFICES ASSUME NEW k \in DOMAIN a.code, IsJump(b.code[k])
               PROVE  /\ k + 1 \in DOMAIN b.code
                      /\ \/ Lands(b.code, b.code[k + 1].is)
                         \/ b.code[k + 1].is = -1 /\ \E p \in b.pending : p[2] = k
    BY <1>2 DEF JumpsKnown
  <2>1. /\ k + 1 \in DOMAIN a.code
        /\ \/ Lands(a.code, a.code[k + 1].is)
           \/ a.code[k + 1].is = -1 /\ \E p \in a.pending : p[2] = k
    BY <1>7 DEF Linking, JumpsKnown
  <2>2. b.code[k + 1] = a.code[k + 1] \/ Lands(a.code, b.code[k + 1].is)
    BY <2>1 DEF HasLinked
  <2> QED
    BY <1>2, <1>4, <2>1, <2>2
<1>9. PendingSettled(b)
  <2> SUFFICES ASSUME NEW p \in a.pending
               PROVE  /\ p[2] \in DOMAIN b.code /\ p[2] + 1 \in DOMAIN b.code
                      /\ IsJump(b.code[p[2]]) /\ b.code[p[2] + 1].cell = "data"
                      /\ b.code[p[2] + 1].is = -1 => Settled(b, p[1])
    BY DEF PendingSettled
  <2>1. /\ p[2] \in DOMAIN a.code /\ p[2] + 1 \in DOMAIN a.code
        /\ IsJump(a.code[p[2]]) /\ a.code[p[2] + 1].cell = "data"
        /\ a.code[p[2] + 1].is = -1 => Settled(a, p[1])
    BY DEF Linking, PendingSettled
  <2>2. ASSUME b.code[p[2] + 1].is = -1 PROVE Settled(b, p[1])
    <3>1. /\ b.code[p[2] + 1] = a.code[p[2] + 1]
          /\ \A q \in Due(a) : q[2] + 1 # p[2] + 1
      BY <1>4, <2>1, <2>2 DEF HasLinked
    <3>2. p[1] \notin DOMAIN a.labels
      BY <2>2, <3>1 DEF Due
    <3>3. Settles(a.todo, 0, p[1])
      BY <2>1, <2>2, <3>1, <3>2 DEF Settled
    <3>4. Head(a.todo) # Label(p[1]) /\ 0 \in Nat
      BY DEF Label, Link
    <3>5. Settles(r, 0, p[1])
      BY <1>1, <3>3, <3>4, RestSettles
    <3> QED
      BY <3>5 DEF Settled
  <2> QED
    BY <1>2, <1>7, <2>1, <2>2
<1>10. EndsWell(b)
  <2>1. Last(a.todo).do \in {"put", "main"} /\ Head(a.todo).do = "link"
    BY DEF Linking, EndsWell, Link
  <2>2. r # <<>> /\ Last(r) = Last(a.todo)
    BY <1>1, <2>1, LastOfRest
  <2> QED
    BY <2>1, <2>2 DEF EndsWell
<1> QED
  BY <1>2, <1>6, <1>8, <1>9, <1>10 DEF Linking

-----------------------------------------------------------------------------
(* Each item of the assembler.                                               *)

(* Two and three items.                                                      *)
LEMMA Few ==
  ASSUME NEW d, NEW e, NEW f
  PROVE  /\ Sequence(<<d, e>>) /\ Len(<<d, e>>) = 2
         /\ <<d, e>>[1] = d /\ <<d, e>>[2] = e
         /\ Sequence(<<d, e, f>>) /\ Len(<<d, e, f>>) = 3
         /\ <<d, e, f>>[1] = d /\ <<d, e, f>>[2] = e /\ <<d, e, f>>[3] = f
<1>1. <<d, e>> \in Seq({d, e}) /\ <<d, e, f>> \in Seq({d, e, f})
  OBVIOUS
<1> QED
  BY <1>1, AnySequence

(* An item that jumps nowhere needs nothing behind it.                       *)
Straight(i) == i.do \notin {"jump", "case", "guarded"}

LEMMA ServedStraight ==
  ASSUME NEW n, NEW r, Sequence(n), Sequence(r), NEW k \in 1 .. Len(n)
  PROVE  (n \o r)[k] = n[k] /\ (Straight(n[k]) => Served(n \o r, k))
<1>1. (n \o r)[k] = n[k]
  BY Joined
<1> QED
  BY <1>1 DEF Straight, Served

(* The commands of a body are such items.                                    *)
LEMMA BodyItems ==
  ASSUME NEW body \in Code, NEW code
  PROVE  /\ Sequence(body)
         /\ \A k \in 1 .. Len(body) :
              body[k] \in Statements /\ IsItem(code, body[k]) /\ Straight(body[k])
<1>1. body \in Seq(Statements)
  BY DEF Code
<1>2. \A k \in 1 .. Len(body) : body[k] \in Statements
  BY <1>1, LenProperties
<1>3. \A s \in Statements : IsStatement(s)
  BY SourceAssumption
<1>4. ASSUME NEW s \in Statements PROVE IsItem(code, s) /\ Straight(s)
  <2>1. IsStatement(s)
    BY <1>3
  <2> QED
    BY <2>1 DEF IsItem, IsPlain, IsStatement, Straight
<1> QED
  BY <1>1, <1>2, <1>4, AnySequence

(* What each new item is.                                                    *)
LEMMA Items ==
  ASSUME NEW code
  PROVE  /\ \A e \in Expressions : \A formals :
              IsItem(code, Value(e, formals)) /\ Straight(Value(e, formals))
         /\ \A f, operands :
              /\ Writable(code, f, operands) => IsItem(code, Put(f, operands))
              /\ Straight(Put(f, operands)) /\ Put(f, operands).do = "put"
              /\ f \notin {"Goto", "GoSub"} /\ Sequence(operands) =>
                   Writable(code, f, operands)
         /\ \A l : IsItem(code, JumpTo(l)) /\ IsItem(code, Label(l)) /\ Straight(Label(l))
         /\ IsItem(code, Link) /\ Straight(Link)
<1>1. \A e \in Expressions : \A formals :
        IsItem(code, Value(e, formals)) /\ Straight(Value(e, formals))
  BY DEF IsItem, IsPlain, Value, Straight
<1>2. \A f, operands :
        /\ Writable(code, f, operands) => IsItem(code, Put(f, operands))
        /\ Straight(Put(f, operands)) /\ Put(f, operands).do = "put"
        /\ f \notin {"Goto", "GoSub"} /\ Sequence(operands) => Writable(code, f, operands)
  BY DEF IsItem, Put, Straight, Writable
<1>3. \A l : IsItem(code, JumpTo(l)) /\ IsItem(code, Label(l)) /\ Straight(Label(l))
  BY DEF IsItem, IsPlain, JumpTo, Label, Straight
<1>4. IsItem(code, Link) /\ Straight(Link)
  BY DEF IsItem, IsPlain, Link, Straight
<1> QED
  BY <1>1, <1>2, <1>3, <1>4

(* ExpandKeeps for items that jump nowhere.                                  *)
LEMMA StraightKeeps ==
  ASSUME NEW a, Linking(a), a.todo # <<>>, NEW b, IsState(b), NEW n, Sequence(n), n # <<>>,
         b.code = a.code, b.labels = a.labels, b.pending = a.pending,
         b.todo = n \o Tail(a.todo),
         \A f \in DOMAIN b.functions : Lands(a.code, b.functions[f]),
         Head(a.todo).do \notin {"label", "link"},
         \A k \in 1 .. Len(n) : IsItem(a.code, n[k]) /\ Straight(n[k]),
         Head(a.todo).do \in {"put", "main"} => Last(n).do \in {"put", "main"}
  PROVE  Linking(b)
<1>1. Sequence(a.todo) /\ Sequence(Tail(a.todo))
  BY RestServes DEF Linking, Serves
<1>2. \A k \in 1 .. Len(n) : Served(n \o Tail(a.todo), k)
  BY <1>1, ServedStraight
<1>3. Head(a.todo) # Link /\ \A l : Head(a.todo) # Label(l)
  BY DEF Link, Label
<1>4. Tail(a.todo) = <<>> => Head(a.todo) = Last(a.todo)
  BY <1>1, LastOfRest
<1> QED
  BY <1>2, <1>3, <1>4, ExpandKeeps

(* The state without its first item.                                         *)
Taken(a) == [a EXCEPT !.todo = Tail(@)]

LEMMA TakenParts ==
  ASSUME NEW a, IsState(a)
  PROVE  /\ IsState(Taken(a)) /\ Taken(a).todo = Tail(a.todo)
         /\ Taken(a).code = a.code /\ Taken(a).labels = a.labels
         /\ Taken(a).pending = a.pending /\ Taken(a).functions = a.functions
         /\ Taken(a).counter = a.counter
BY DEF IsState, Taken

(* New items that jump nowhere, put in front of the rest.                    *)
LEMMA FirstKeeps ==
  ASSUME NEW a, Linking(a), a.todo # <<>>, NEW n, Sequence(n), n # <<>>,
         Head(a.todo).do \notin {"label", "link", "put", "main"},
         \A k \in 1 .. Len(n) : IsItem(a.code, n[k]) /\ Straight(n[k])
  PROVE  Linking(First(Taken(a), n))
<1> DEFINE b == First(Taken(a), n)
<1>1. IsState(a) /\ \A f \in DOMAIN a.functions : Lands(a.code, a.functions[f])
  BY DEF Linking, TablesLand
<1>2. /\ IsState(b) /\ b.todo = n \o Tail(a.todo) /\ b.code = a.code
      /\ b.labels = a.labels /\ b.pending = a.pending /\ b.functions = a.functions
  <2>1. /\ IsState(Taken(a)) /\ Taken(a).todo = Tail(a.todo) /\ Taken(a).code = a.code
        /\ Taken(a).labels = a.labels /\ Taken(a).pending = a.pending
        /\ Taken(a).functions = a.functions
    BY <1>1, TakenParts
  <2> HIDE DEF Taken
  <2>2. /\ IsState(b) /\ b.todo = n \o Taken(a).todo /\ b.code = Taken(a).code
        /\ b.labels = Taken(a).labels /\ b.pending = Taken(a).pending
        /\ b.functions = Taken(a).functions
    BY <2>1, FirstParts
  <2> QED
    BY <2>1, <2>2
<1> HIDE DEF b
<1>3. Linking(b)
  BY <1>1, <1>2, StraightKeeps
<1> QED
  BY <1>3 DEF b

(* The optimizer makes an expression of an expression.                       *)
LEMMA SimplifiedInExpressions ==
  ASSUME NEW e \in Expressions, e.tree = "bin"
  PROVE  Simplified(e) \in Expressions
<1>1. N(0) \in Expressions /\ e.l \in Expressions /\ e.r \in Expressions
  BY SourceAssumption DEF IsExpression
<1> QED
  BY <1>1 DEF Simplified

(* The arguments of a call, and then the call.                               *)
LEMMA ArgumentItems ==
  ASSUME NEW e \in Expressions, e.tree = "call", NEW formals, NEW code, NEW put,
         IsItem(code, put), Straight(put)
  PROVE  LET n == Arguments(e, formals) \o <<put>> IN
         /\ Sequence(n) /\ n # <<>>
         /\ \A k \in 1 .. Len(n) : IsItem(code, n[k]) /\ Straight(n[k])
<1> DEFINE m == Arguments(e, formals)
           n == m \o <<put>>
<1>1. e.actuals \in Seq(Expressions)
  BY SourceAssumption DEF IsExpression
<1>2. /\ Len(e.actuals) \in Nat /\ DOMAIN e.actuals = 1 .. Len(e.actuals)
      /\ \A k \in 1 .. Len(e.actuals) : e.actuals[k] \in Expressions
  BY <1>1, LenProperties
<1>3. /\ DOMAIN m = 1 .. Len(e.actuals) /\ m = [k \in DOMAIN m |-> m[k]]
      /\ \A k \in 1 .. Len(e.actuals) : m[k] = Value(e.actuals[Len(e.actuals) + 1 - k], formals)
  BY <1>2 DEF Arguments
<1> HIDE DEF m
<1>4. Sequence(m) /\ Len(m) = Len(e.actuals)
  BY <1>2, <1>3, FunctionSequence
<1>5. ASSUME NEW k \in 1 .. Len(m) PROVE IsItem(code, m[k]) /\ Straight(m[k])
  <2>1. Len(e.actuals) + 1 - k \in 1 .. Len(e.actuals)
    BY <1>2, <1>4
  <2>2. e.actuals[Len(e.actuals) + 1 - k] \in Expressions
    BY <1>2, <2>1
  <2> QED
    BY <1>3, <1>4, <2>2, Items
<1>6. Sequence(<<put>>) /\ Len(<<put>>) = 1 /\ <<put>>[1] = put
  BY Single
<1>7. /\ Sequence(n) /\ Len(n) = Len(m) + 1
      /\ \A k \in 1 .. Len(m) : n[k] = m[k]
      /\ \A k \in 1 .. 1 : n[Len(m) + k] = put
  <2>1. /\ Sequence(n) /\ Len(n) = Len(m) + Len(<<put>>)
        /\ \A k \in 1 .. Len(m) : n[k] = m[k]
        /\ \A k \in 1 .. Len(<<put>>) : n[Len(m) + k] = <<put>>[k]
    BY <1>4, <1>6, Joined
  <2>2. \A k \in 1 .. 1 : <<put>>[k] = put
    BY <1>6
  <2> QED
    BY <1>6, <2>1, <2>2
<1>8. Len(m) \in Nat
  BY <1>2, <1>4
<1> HIDE DEF n
<1>9. ASSUME NEW k \in 1 .. Len(n) PROVE IsItem(code, n[k]) /\ Straight(n[k])
  <2>1. k \in 1 .. Len(m) \/ (1 \in 1 .. 1 /\ k = Len(m) + 1)
    BY <1>7, <1>8
  <2>2. (n[k] = m[k] /\ k \in 1 .. Len(m)) \/ n[k] = put
    BY <1>7, <2>1
  <2> QED
    BY <1>5, <2>2
<1>10. n # <<>>
  <2>1. Len(n) # 0
    BY <1>7, <1>8
  <2> QED
    BY <1>7, <2>1, SequenceParts
<1> QED
  BY <1>7, <1>9, <1>10 DEF n, m

(* A command that is no jump, or a jump to a command.                        *)
LEMMA EmitKeeps ==
  ASSUME NEW a, Linking(a), a.todo # <<>>, NEW f, NEW operands,
         Head(a.todo).do \notin {"label", "link"}, Writable(a.code, f, operands)
  PROVE  Linking(Emit(Taken(a), f, operands))
<1> DEFINE b == Emit(Taken(a), f, operands)
<1>1. IsState(a)
  BY DEF Linking
<1>2. /\ IsState(b) /\ b.todo = Tail(a.todo) /\ b.code = Written(a.code, f, operands)
      /\ b.labels = a.labels /\ b.pending = a.pending /\ b.functions = a.functions
  <2>1. /\ IsState(Taken(a)) /\ Taken(a).todo = Tail(a.todo) /\ Taken(a).code = a.code
        /\ Taken(a).labels = a.labels /\ Taken(a).pending = a.pending
        /\ Taken(a).functions = a.functions
    BY <1>1, TakenParts
  <2> HIDE DEF Taken
  <2> QED
    BY <2>1 DEF IsState, Emit, Written
<1> HIDE DEF b
<1>3. Sequence(operands)
  BY DEF Writable
<1>4. Head(a.todo) # Link /\ \A l : Head(a.todo) # Label(l)
  BY DEF Link, Label
<1>5. Linking(b)
  BY <1>2, <1>3, <1>4, WriteKeeps
<1> QED
  BY <1>5 DEF b

(* Compiling an expression.                                                  *)
LEMMA ExpressionKeeps ==
  ASSUME NEW a, Linking(a), a.todo # <<>>, NEW e \in Expressions, NEW formals,
         Head(a.todo).do = "value"
  PROVE  Linking(CompileExpr(Taken(a), e, formals))
<1> DEFINE b == CompileExpr(Taken(a), e, formals)
<1>0. Head(a.todo).do \notin {"label", "link", "put", "main"}
  OBVIOUS
<1>1. IsExpression(e)
  BY SourceAssumption
<1>2. IsState(a) /\ Taken(a).functions = a.functions
  BY TakenParts DEF Linking
<1>3. ASSUME NEW f, NEW c, f \notin {"Goto", "GoSub"}
      PROVE  Linking(Emit(Taken(a), f, <<c>>))
  <2>1. Sequence(<<c>>)
    BY Single
  <2>2. Writable(a.code, f, <<c>>)
    BY <1>3, <2>1, Items
  <2> QED
    BY <1>0, <2>2, EmitKeeps
<1> HIDE DEF Taken
<1>4. CASE e.tree = "num"
  <2>1. b = Emit(Taken(a), "Push", <<e.n>>)
    BY <1>4 DEF CompileExpr
  <2> QED
    BY <1>3, <2>1
<1>5. CASE e.tree = "ref"
  <2>1. \/ b = Emit(Taken(a), "PushArg", <<formals[e.name]>>)
        \/ b = Emit(Taken(a), "PushVar", <<e.name>>)
    BY <1>5 DEF CompileExpr
  <2> QED
    BY <1>3, <2>1
<1>6. ASSUME NEW v \in Expressions, b = First(Taken(a), <<Value(v, formals)>>)
      PROVE  Linking(b)
  <2> DEFINE i == Value(v, formals)
  <2>1. IsItem(a.code, i) /\ Straight(i)
    BY Items
  <2>2. b = First(Taken(a), <<i>>)
    BY <1>6
  <2> HIDE DEF i, b
  <2>3. Sequence(<<i>>) /\ Len(<<i>>) = 1 /\ <<i>>[1] = i /\ <<i>> # <<>>
    BY Single
  <2>4. \A k \in 1 .. Len(<<i>>) : IsItem(a.code, <<i>>[k]) /\ Straight(<<i>>[k])
    BY <2>1, <2>3
  <2> QED
    BY <1>0, <2>2, <2>3, <2>4, FirstKeeps DEF b
<1>7. CASE e.tree = "bin" /\ Simplified(e) # e
  <2>1. b = First(Taken(a), <<Value(Simplified(e), formals)>>)
    BY <1>7 DEF CompileExpr
  <2>2. Simplified(e) \in Expressions
    BY <1>7, SimplifiedInExpressions
  <2> QED
    BY <1>6, <2>1, <2>2
<1>8. CASE e.tree = "bin" /\ Simplified(e) = e
  <2> DEFINE n == <<Value(e.r, formals), Value(e.l, formals), Put(e.f, <<>>)>>
  <2>1. b = First(Taken(a), n)
    BY <1>8 DEF CompileExpr
  <2>2. /\ e.l \in Expressions /\ e.r \in Expressions
        /\ e.f \in Arithmetic \cup Comparisons \cup Logic
    BY <1>1, <1>8 DEF IsExpression
  <2>3. e.f \notin {"Goto", "GoSub"}
    BY <2>2 DEF Arithmetic, Comparisons, Logic
  <2>4. Sequence(<<>>)
    BY Nothing
  <2>5. /\ IsItem(a.code, Value(e.r, formals)) /\ Straight(Value(e.r, formals))
        /\ IsItem(a.code, Value(e.l, formals)) /\ Straight(Value(e.l, formals))
        /\ IsItem(a.code, Put(e.f, <<>>)) /\ Straight(Put(e.f, <<>>))
    BY <2>2, <2>3, <2>4, Items
  <2>6. /\ Sequence(n) /\ Len(n) = 3 /\ n # <<>> /\ n[1] = Value(e.r, formals)
        /\ n[2] = Value(e.l, formals) /\ n[3] = Put(e.f, <<>>)
    BY Few
  <2> HIDE DEF n, b
  <2>7. \A k \in 1 .. Len(n) : IsItem(a.code, n[k]) /\ Straight(n[k])
    <3>1. \A k \in 1 .. 3 : k = 1 \/ k = 2 \/ k = 3
      OBVIOUS
    <3> QED
      BY <2>5, <2>6, <3>1
  <2>8. Linking(First(Taken(a), n))
    BY <1>0, <2>6, <2>7, FirstKeeps
  <2>9. Linking(b)
    BY <2>1, <2>8
  <2> QED
    BY <2>9 DEF b
<1>9. ASSUME e.tree = "call", NEW put, IsItem(a.code, put), Straight(put)
      PROVE  Linking(First(Taken(a), Arguments(e, formals) \o <<put>>))
  <2> DEFINE n == Arguments(e, formals) \o <<put>>
  <2>1. /\ Sequence(n) /\ n # <<>>
        /\ \A k \in 1 .. Len(n) : IsItem(a.code, n[k]) /\ Straight(n[k])
    BY <1>9, ArgumentItems
  <2> HIDE DEF n
  <2>2. Linking(First(Taken(a), n))
    BY <1>0, <2>1, FirstKeeps
  <2> QED
    BY <2>2 DEF n
<1>10. CASE e.tree = "call" /\ e.f \in DOMAIN a.functions
  <2> DEFINE put == Put("GoSub", <<a.functions[e.f]>>)
  <2>1. b = First(Taken(a), Arguments(e, formals) \o <<put>>)
    BY <1>2, <1>10 DEF CompileExpr
  <2>2. Lands(a.code, a.functions[e.f])
    BY <1>10 DEF Linking, TablesLand
  <2>3. Sequence(<<a.functions[e.f]>>)
    BY Single
  <2>4. Writable(a.code, "GoSub", <<a.functions[e.f]>>)
    BY <2>2, <2>3 DEF Writable
  <2>5. IsItem(a.code, put) /\ Straight(put)
    BY <2>4, Items
  <2> QED
    BY <1>9, <1>10, <2>1, <2>5
<1>11. CASE e.tree = "call" /\ e.f \notin DOMAIN a.functions /\ e.f \in DOMAIN BuiltIn
  <2> DEFINE put == Put(BuiltIn[e.f], <<>>)
  <2>1. b = First(Taken(a), Arguments(e, formals) \o <<put>>)
    BY <1>2, <1>11 DEF CompileExpr
  <2>2. BuiltIn[e.f] \notin {"Goto", "GoSub"}
    BY <1>11 DEF BuiltIn
  <2>3. Sequence(<<>>)
    BY Nothing
  <2>4. IsItem(a.code, put) /\ Straight(put)
    BY <2>2, <2>3, Items
  <2> QED
    BY <1>9, <1>11, <2>1, <2>4
<1>12. CASE e.tree = "call" /\ e.f \notin DOMAIN a.functions /\ e.f \notin DOMAIN BuiltIn
  <2>1. b = First(Taken(a), <<Value(e, formals)>>)
    BY <1>2, <1>12 DEF CompileExpr
  <2> QED
    BY <1>6, <2>1
<1> QED
  BY <1>1, <1>4, <1>5, <1>7, <1>8, <1>10, <1>11, <1>12 DEF IsExpression

(* A jump has its target, or is put on record.                               *)
LEMMA JumpKeeps ==
  ASSUME NEW a, Linking(a), a.todo # <<>>, NEW l,
         Head(a.todo).do = "jump", Settles(Tail(a.todo), 0, l)
  PROVE  Linking(Jump(Taken(a), l))
<1>1. /\ IsState(Taken(a)) /\ Taken(a).todo = Tail(a.todo) /\ Taken(a).code = a.code
      /\ Taken(a).labels = a.labels /\ Taken(a).pending = a.pending
      /\ Taken(a).functions = a.functions
  BY TakenParts DEF Linking
<1>2. Head(a.todo).do \notin {"label", "link"}
  OBVIOUS
<1>3. CASE l \in DOMAIN a.labels
  <2>1. Jump(Taken(a), l) = Emit(Taken(a), "Goto", <<a.labels[l]>>)
    BY <1>1, <1>3 DEF Jump
  <2>2. Lands(a.code, a.labels[l])
    BY <1>3 DEF Linking, TablesLand
  <2>3. Sequence(<<a.labels[l]>>)
    BY Single
  <2>4. Writable(a.code, "Goto", <<a.labels[l]>>)
    BY <2>2, <2>3 DEF Writable
  <2> QED
    BY <1>2, <2>1, <2>4, EmitKeeps
<1>4. CASE l \notin DOMAIN a.labels
  <2> DEFINE b == Jump(Taken(a), l)
             c == Taken(a)
  <2>1. b = Emit([c EXCEPT !.pending = @ \cup {<<l, Position(c) + 1>>}], "Goto", <<-1>>)
    BY <1>1, <1>4 DEF Jump
  <2>2. IsState(c)
    BY <1>1
  <2> HIDE DEF c, b
  <2>3. /\ IsState(b) /\ b.todo = c.todo /\ b.code = Written(c.code, "Goto", <<-1>>)
        /\ b.labels = c.labels /\ b.functions = c.functions
        /\ b.pending = c.pending \cup {<<l, Len(c.code) + 1>>}
    BY <2>1, <2>2 DEF IsState, Emit, Written, Position
  <2>4. /\ IsState(b) /\ b.todo = Tail(a.todo) /\ b.code = Written(a.code, "Goto", <<-1>>)
        /\ b.labels = a.labels /\ b.functions = a.functions
        /\ b.pending = a.pending \cup {<<l, Len(a.code) + 1>>}
    BY <1>1, <2>3 DEF c
  <2>5. Sequence(<<-1>>) /\ Len(<<-1>>) = 1 /\ <<-1>>[1] = -1
    BY Single
  <2>6. Head(a.todo) # Link /\ \A m : Head(a.todo) # Label(m)
    BY DEF Link, Label
  <2>7. Linking(b)
    BY <2>4, <2>5, <2>6, WriteKeeps
  <2> QED
    BY <2>7 DEF b
<1> QED
  BY <1>3, <1>4

(* New items in front of the rest, each served there.                        *)
LEMMA ServedKeeps ==
  ASSUME NEW a, Linking(a), a.todo # <<>>, NEW b, IsState(b), NEW n, Sequence(n), n # <<>>,
         b.code = a.code, b.labels = a.labels, b.pending = a.pending,
         b.functions = a.functions, b.todo = n \o Tail(a.todo),
         Head(a.todo).do \notin {"label", "link", "put", "main"},
         \A k \in 1 .. Len(n) : IsItem(a.code, n[k]) /\ Served(n \o Tail(a.todo), k)
  PROVE  Linking(b)
<1>1. Sequence(a.todo)
  BY DEF Linking, Serves
<1>2. \A f \in DOMAIN b.functions : Lands(a.code, b.functions[f])
  BY DEF Linking, TablesLand
<1>3. Head(a.todo) # Link /\ \A l : Head(a.todo) # Label(l)
  BY DEF Link, Label
<1>4. Tail(a.todo) = <<>> => Last(a.todo).do \notin {"put", "main"}
  BY <1>1, LastOfRest
<1> QED
  BY <1>2, <1>3, <1>4, ExpandKeeps

(* A body, and two items behind it.                                          *)
LEMMA TwoBehind ==
  ASSUME NEW h, Sequence(h), NEW d, NEW e
  PROVE  LET n == h \o <<d, e>> IN
         /\ Sequence(n) /\ Len(n) = Len(h) + 2 /\ Len(h) \in Nat /\ n # <<>>
         /\ \A k \in 1 .. Len(h) : n[k] = h[k]
         /\ n[Len(h) + 1] = d /\ n[Len(h) + 2] = e
<1> DEFINE t == <<d, e>>
           n == h \o t
<1>1. Sequence(t) /\ Len(t) = 2 /\ t[1] = d /\ t[2] = e
  BY Few
<1> HIDE DEF t
<1>2. /\ Sequence(n) /\ Len(n) = Len(h) + Len(t)
      /\ \A k \in 1 .. Len(h) : n[k] = h[k]
      /\ \A k \in 1 .. Len(t) : n[Len(h) + k] = t[k]
  <2>1. Sequence(h) /\ Sequence(t)
    BY <1>1
  <2> QED
    BY ONLY <2>1, Joined
<1>3. Len(h) \in Nat
  BY SequenceParts
<1> HIDE DEF n
<1>4. n[Len(h) + 1] = d /\ n[Len(h) + 2] = e
  <2>1. 1 \in 1 .. Len(t) /\ 2 \in 1 .. Len(t)
    BY <1>1
  <2> QED
    BY <1>1, <1>2, <2>1
<1>5. n # <<>>
  <2>1. Len(n) # 0
    BY <1>1, <1>2, <1>3
  <2> QED
    BY <1>2, <2>1, SequenceParts
<1> QED
  BY <1>1, <1>2, <1>3, <1>4, <1>5 DEF n, t

(* .if: every arm jumps to the label at the end, which the .if links.        *)
LEMMA IfKeeps ==
  ASSUME NEW a, Linking(a), a.todo # <<>>, Head(a.todo).do = "if",
         NEW arms \in Seq([cond : Expressions, code : Code]), NEW else \in Code
  PROVE  Linking(CompileIf(Taken(a), arms, else))
<1> DEFINE end == a.counter + 1
           c == [k \in DOMAIN arms |-> Case(arms[k], end)]
           h == c \o else
           n == h \o <<Label(end), Link>>
           b == First([Taken(a) EXCEPT !.counter = @ + 1], n)
           r == Tail(a.todo)
<1>1. IsState(Taken(a)) /\ Taken(a).todo = Tail(a.todo) /\ Taken(a).code = a.code
      /\ Taken(a).labels = a.labels /\ Taken(a).pending = a.pending
      /\ Taken(a).functions = a.functions /\ Taken(a).counter = a.counter
  BY TakenParts DEF Linking
<1>2. CompileIf(Taken(a), arms, else) = b
  BY <1>1 DEF CompileIf
<1>3. /\ IsState(b) /\ b.todo = n \o r /\ b.code = a.code
      /\ b.labels = a.labels /\ b.pending = a.pending /\ b.functions = a.functions
  <2> HIDE DEF n, Taken
  <2> QED
    BY <1>1 DEF IsState, First
<1>4. /\ Len(arms) \in Nat /\ DOMAIN arms = 1 .. Len(arms)
      /\ \A k \in 1 .. Len(arms) : arms[k] \in [cond : Expressions, code : Code]
  BY LenProperties
<1>5. /\ Sequence(c) /\ Len(c) = Len(arms)
      /\ \A k \in 1 .. Len(arms) : c[k] = Case(arms[k], end)
  <2>1. DOMAIN c = 1 .. Len(arms) /\ c = [k \in DOMAIN c |-> c[k]]
    BY <1>4
  <2>2. \A k \in 1 .. Len(arms) : c[k] = Case(arms[k], end)
    BY <1>4
  <2> HIDE DEF c
  <2> QED
    BY <1>4, <2>1, <2>2, FunctionSequence
<1> HIDE DEF end, c, b
<1>6. ASSUME NEW k \in 1 .. Len(c) PROVE IsItem(a.code, c[k]) /\ c[k].do = "case" /\ c[k].end = end
  <2>1. c[k] = Case(arms[k], end) /\ arms[k] \in [cond : Expressions, code : Code]
    BY <1>4, <1>5
  <2>2. \A arm : /\ Case(arm, end).do = "case" /\ Case(arm, end).end = end
                 /\ Case(arm, end).arm = arm
    BY DEF Case
  <2> QED
    BY <2>1, <2>2 DEF IsItem, IsPlain
<1>7. /\ Sequence(else)
      /\ \A k \in 1 .. Len(else) : IsItem(a.code, else[k]) /\ Straight(else[k])
  BY BodyItems
<1>8. /\ Sequence(h) /\ Len(h) = Len(c) + Len(else) /\ Len(h) \in Nat
      /\ Len(c) \in Nat /\ Len(else) \in Nat
      /\ \A k \in 1 .. Len(c) : h[k] = c[k]
      /\ \A k \in 1 .. Len(else) : h[Len(c) + k] = else[k]
      /\ \A k \in DOMAIN h :
           k \in 1 .. Len(c) \/ (k - Len(c) \in 1 .. Len(else) /\ h[k] = else[k - Len(c)])
      /\ DOMAIN h = 1 .. Len(h)
  <2>1. Sequence(c) /\ Sequence(else)
    BY <1>5, <1>7
  <2> QED
    BY ONLY <2>1, Joined, SequenceParts
<1> HIDE DEF h
<1>9. ASSUME NEW k \in 1 .. Len(h)
      PROVE  IsItem(a.code, h[k]) /\ (Straight(h[k]) \/ (h[k].do = "case" /\ h[k].end = end))
  <2>1. CASE k \in 1 .. Len(c)
    BY <1>6, <1>8, <2>1
  <2>2. CASE k - Len(c) \in 1 .. Len(else) /\ h[k] = else[k - Len(c)]
    BY <1>7, <2>2
  <2> QED
    BY <1>8, <2>1, <2>2
<1>10. /\ Sequence(n) /\ Len(n) = Len(h) + 2 /\ n # <<>>
       /\ \A k \in 1 .. Len(h) : n[k] = h[k]
       /\ n[Len(h) + 1] = Label(end) /\ n[Len(h) + 2] = Link
  <2>1. Sequence(h)
    BY <1>8
  <2> QED
    BY ONLY <2>1, TwoBehind
<1> HIDE DEF n
<1>11. Sequence(r)
  BY RestServes DEF Linking, Serves
<1>12. ASSUME NEW k \in 1 .. Len(h) PROVE Settles(n \o r, k, end)
  <2>1. DOMAIN n = 1 .. Len(h) + 2
    BY <1>10, SequenceParts
  <2>2. /\ Len(h) + 1 \in DOMAIN n /\ Len(h) + 2 \in DOMAIN n
        /\ k < Len(h) + 1 /\ Len(h) + 1 < Len(h) + 2
    BY <1>8, <2>1
  <2>3. Settles(n, k, end)
    BY <1>10, <2>2 DEF Settles
  <2>4. k \in 0 .. Len(n)
    BY <1>8, <1>10
  <2> QED
    BY <1>10, <1>11, <2>3, <2>4, FrontSettles
<1>13. ASSUME NEW k \in 1 .. Len(n) PROVE IsItem(a.code, n[k]) /\ Served(n \o r, k)
  <2>1. (n \o r)[k] = n[k] /\ (Straight(n[k]) => Served(n \o r, k))
    BY <1>10, <1>11, ServedStraight
  <2>2. CASE k \in 1 .. Len(h)
    <3>1. /\ IsItem(a.code, n[k])
          /\ Straight(n[k]) \/ (n[k].do = "case" /\ n[k].end = end)
      BY <1>9, <1>10, <2>2
    <3>2. Settles(n \o r, k, end)
      BY <1>12, <2>2
    <3> QED
      BY <2>1, <3>1, <3>2 DEF Served
  <2>3. CASE k = Len(h) + 1
    BY <1>10, <2>1, <2>3, Items
  <2>4. CASE k = Len(h) + 2
    BY <1>10, <2>1, <2>4, Items
  <2>5. k \in 1 .. Len(h) \/ k = Len(h) + 1 \/ k = Len(h) + 2
    BY <1>8, <1>10
  <2> QED
    BY <2>2, <2>3, <2>4, <2>5
<1>14. Linking(b)
  BY <1>3, <1>10, <1>13, ServedKeeps
<1> QED
  BY <1>2, <1>14

(* One arm of a choice: its condition, and the code that it guards.          *)
LEMMA CaseKeeps ==
  ASSUME NEW a, Linking(a), a.todo # <<>>, Head(a.todo).do = "case",
         NEW arm \in [cond : Expressions, code : Code], NEW end,
         Settles(Tail(a.todo), 0, end)
  PROVE  Linking(CompileCase(Taken(a), arm, end))
<1> DEFINE g == Guarded(arm.code, JumpTo(end))
           v == Value(arm.cond, <<>>)
           n == <<v, g>>
           b == First(Taken(a), n)
           r == Tail(a.todo)
<1>1. IsState(Taken(a)) /\ Taken(a).todo = Tail(a.todo) /\ Taken(a).code = a.code
      /\ Taken(a).labels = a.labels /\ Taken(a).pending = a.pending
      /\ Taken(a).functions = a.functions
  BY TakenParts DEF Linking
<1>2. CompileCase(Taken(a), arm, end) = b
  BY DEF CompileCase
<1>3. /\ IsState(b) /\ b.todo = n \o r /\ b.code = a.code
      /\ b.labels = a.labels /\ b.pending = a.pending /\ b.functions = a.functions
  <2> HIDE DEF n, Taken
  <2> QED
    BY <1>1 DEF IsState, First
<1>4. IsItem(a.code, v) /\ Straight(v)
  BY Items
<1>5. /\ IsItem(a.code, g) /\ g.do = "guarded" /\ g.exit = JumpTo(end)
      /\ JumpTo(end).do = "jump" /\ JumpTo(end).l = end
  BY DEF Guarded, JumpTo, IsItem, IsExit
<1>6. Sequence(r) /\ Links(r, 0)
  <2>1. Sequence(r)
    BY RestServes DEF Linking, Serves
  <2>2. 0 \in Int /\ 0 <= 0
    OBVIOUS
  <2> QED
    BY <2>1, <2>2, SettledIsLinked
<1> HIDE DEF v, g, b
<1>7. Sequence(n) /\ Len(n) = 2 /\ n[1] = v /\ n[2] = g /\ n # <<>>
  BY Few
<1> HIDE DEF n, r
<1>8. Settles(n \o r, 2, end) /\ Links(n \o r, 2)
  <2>1. 2 \in 0 .. Len(n) /\ Settles(r, 0, end)
    BY <1>7 DEF r
  <2> QED
    BY <1>6, <1>7, <2>1, FrontSettles
<1>9. ASSUME NEW k \in 1 .. Len(n) PROVE IsItem(a.code, n[k]) /\ Served(n \o r, k)
  <2>1. (n \o r)[k] = n[k] /\ (Straight(n[k]) => Served(n \o r, k))
    BY <1>6, <1>7, ServedStraight
  <2>2. CASE k = 1
    BY <1>4, <1>7, <2>1, <2>2
  <2>3. CASE k = 2
    BY <1>5, <1>7, <1>8, <2>1, <2>3 DEF Served
  <2>4. k = 1 \/ k = 2
    BY <1>7
  <2> QED
    BY <2>2, <2>3, <2>4
<1>10. Linking(b)
  BY <1>3, <1>7, <1>9, ServedKeeps DEF r
<1> QED
  BY <1>2, <1>10

(* A loop: its condition, the code that goes back to it, and the links.      *)
LEMMA LoopKeeps ==
  ASSUME NEW a, Linking(a), a.todo # <<>>, Head(a.todo).do = "while",
         NEW cond \in Expressions, NEW body \in Code
  PROVE  Linking(CompileLoop(Taken(a), cond, body))
<1> DEFINE back == Put("Goto", <<Len(a.code)>>)
           g == Guarded(body, back)
           v == Value(cond, <<>>)
           n == <<v, g, Link>>
           b == First(Taken(a), n)
           r == Tail(a.todo)
<1>1. IsState(Taken(a)) /\ Taken(a).todo = Tail(a.todo) /\ Taken(a).code = a.code
      /\ Taken(a).labels = a.labels /\ Taken(a).pending = a.pending
      /\ Taken(a).functions = a.functions
  BY TakenParts DEF Linking
<1>2. CompileLoop(Taken(a), cond, body) = b
  BY <1>1 DEF CompileLoop, Position
<1>3. /\ IsState(b) /\ b.todo = n \o r /\ b.code = a.code
      /\ b.labels = a.labels /\ b.pending = a.pending /\ b.functions = a.functions
  <2> HIDE DEF n, Taken
  <2> QED
    BY <1>1 DEF IsState, First
<1>4. /\ IsItem(a.code, v) /\ Straight(v)
      /\ IsItem(a.code, Link) /\ Straight(Link)
  BY Items
<1>5. IsItem(a.code, g) /\ g.do = "guarded" /\ g.exit.do = "put"
  <2>1. Lands(a.code, Len(a.code))
    <3>1. Len(a.code) \in Nat
      BY SequenceParts DEF Linking
    <3> QED
      BY <3>1 DEF Lands
  <2>2. Writable(a.code, "Goto", <<Len(a.code)>>)
    <3>1. /\ Sequence(<<Len(a.code)>>) /\ Len(<<Len(a.code)>>) = 1
          /\ <<Len(a.code)>>[1] = Len(a.code)
      BY Single
    <3> QED
      BY <2>1, <3>1 DEF Writable
  <2>3. back.do = "put" /\ back.f = "Goto" /\ back.operands = <<Len(a.code)>>
    BY DEF Put
  <2> HIDE DEF back
  <2>4. g.do = "guarded" /\ g.code = body /\ g.exit = back
    BY DEF Guarded
  <2> QED
    BY <2>2, <2>3, <2>4 DEF IsItem, IsExit
<1>6. Sequence(r)
  BY RestServes DEF Linking, Serves
<1> HIDE DEF v, g, b
<1>7. Sequence(n) /\ Len(n) = 3 /\ n[1] = v /\ n[2] = g /\ n[3] = Link /\ n # <<>>
  BY Few
<1> HIDE DEF n, r
<1>8. Links(n \o r, 2)
  <2>1. 2 \in 0 .. Len(n) /\ 3 \in DOMAIN n /\ 2 < 3
    BY <1>7, SequenceParts
  <2>2. Links(n, 2)
    BY <1>7, <2>1 DEF Links
  <2> QED
    BY <1>6, <1>7, <2>1, <2>2, FrontSettles
<1>9. ASSUME NEW k \in 1 .. Len(n) PROVE IsItem(a.code, n[k]) /\ Served(n \o r, k)
  <2>1. (n \o r)[k] = n[k] /\ (Straight(n[k]) => Served(n \o r, k))
    BY <1>6, <1>7, ServedStraight
  <2>2. CASE k = 1
    BY <1>4, <1>7, <2>1, <2>2
  <2>3. CASE k = 2
    BY <1>5, <1>7, <1>8, <2>1, <2>3 DEF Served
  <2>4. CASE k = 3
    BY <1>4, <1>7, <2>1, <2>4
  <2>5. k = 1 \/ k = 2 \/ k = 3
    BY <1>7
  <2> QED
    BY <2>2, <2>3, <2>4, <2>5
<1>10. Linking(b)
  BY <1>3, <1>7, <1>9, ServedKeeps DEF r
<1> QED
  BY <1>2, <1>10

(* The code that a condition guards, between its two labels.                 *)
LEMMA GuardedKeeps ==
  ASSUME NEW a, Linking(a), a.todo # <<>>, Head(a.todo).do = "guarded",
         NEW code \in Code, NEW exit, IsExit(a.code, exit), Links(Tail(a.todo), 0),
         exit.do = "jump" => Settles(Tail(a.todo), 0, exit.l)
  PROVE  Linking(CompileGuarded(Taken(a), code, exit))
<1> DEFINE do == a.counter + 1
           past == a.counter + 2
           f == <<JumpTo(do), JumpTo(past), Label(do)>>
           h == f \o code
           n == h \o <<exit, Label(past)>>
           b == First([Taken(a) EXCEPT !.counter = @ + 2], n)
           r == Tail(a.todo)
<1>1. IsState(Taken(a)) /\ Taken(a).todo = Tail(a.todo) /\ Taken(a).code = a.code
      /\ Taken(a).labels = a.labels /\ Taken(a).pending = a.pending
      /\ Taken(a).functions = a.functions /\ Taken(a).counter = a.counter
  BY TakenParts DEF Linking
<1>2. CompileGuarded(Taken(a), code, exit) = b
  BY <1>1 DEF CompileGuarded
<1>3. /\ IsState(b) /\ b.todo = n \o r /\ b.code = a.code
      /\ b.labels = a.labels /\ b.pending = a.pending /\ b.functions = a.functions
  <2> HIDE DEF n, Taken
  <2> QED
    BY <1>1 DEF IsState, First
<1> HIDE DEF do, past, b
<1>4. /\ Sequence(f) /\ Len(f) = 3
      /\ f[1] = JumpTo(do) /\ f[2] = JumpTo(past) /\ f[3] = Label(do)
  BY Few
<1> HIDE DEF f
<1>5. /\ Sequence(code)
      /\ \A k \in 1 .. Len(code) : IsItem(a.code, code[k]) /\ Straight(code[k])
  BY BodyItems
<1>6. /\ Sequence(h) /\ Len(h) = Len(f) + Len(code) /\ Len(h) \in Nat /\ Len(code) \in Nat
      /\ \A k \in 1 .. Len(f) : h[k] = f[k]
      /\ \A k \in DOMAIN h :
           k \in 1 .. Len(f) \/ (k - Len(f) \in 1 .. Len(code) /\ h[k] = code[k - Len(f)])
      /\ DOMAIN h = 1 .. Len(h)
  <2>1. Sequence(f) /\ Sequence(code)
    BY <1>4, <1>5
  <2> QED
    BY ONLY <2>1, Joined, SequenceParts
<1> HIDE DEF h
<1>7. /\ Sequence(n) /\ Len(n) = Len(h) + 2 /\ n # <<>>
      /\ \A k \in 1 .. Len(h) : n[k] = h[k]
      /\ n[Len(h) + 1] = exit /\ n[Len(h) + 2] = Label(past)
  <2>1. Sequence(h)
    BY <1>6
  <2> QED
    BY ONLY <2>1, TwoBehind
<1> HIDE DEF n
<1>8. n[1] = JumpTo(do) /\ n[2] = JumpTo(past) /\ n[3] = Label(do) /\ Len(n) >= 5
  <2>1. 1 \in 1 .. Len(f) /\ 2 \in 1 .. Len(f) /\ 3 \in 1 .. Len(f)
    BY <1>4
  <2>2. 1 \in 1 .. Len(h) /\ 2 \in 1 .. Len(h) /\ 3 \in 1 .. Len(h) /\ Len(n) >= 5
    BY <1>4, <1>6, <1>7
  <2> QED
    BY <1>4, <1>6, <1>7, <2>1, <2>2
<1>9. ASSUME NEW k \in 1 .. Len(n)
      PROVE  \/ k = 1 \/ k = 2 \/ k = 3
             \/ k = Len(h) + 1 /\ n[k] = exit
             \/ k = Len(h) + 2 /\ n[k] = Label(past)
             \/ IsItem(a.code, n[k]) /\ Straight(n[k])
  <2>1. CASE k \in 1 .. Len(h)
    <3>1. n[k] = h[k]
      BY <1>7, <2>1
    <3>2. CASE k \in 1 .. Len(f)
      BY <1>4, <3>2
    <3>3. CASE k - Len(f) \in 1 .. Len(code) /\ h[k] = code[k - Len(f)]
      BY <1>5, <3>1, <3>3
    <3> QED
      BY <1>6, <2>1, <3>2, <3>3
  <2>2. k \in 1 .. Len(h) \/ k = Len(h) + 1 \/ k = Len(h) + 2
    BY <1>6, <1>7
  <2> QED
    BY <1>7, <2>1, <2>2
<1>10. Sequence(r)
  BY RestServes DEF Linking, Serves
<1>11. Links(r, 0) /\ (exit.do = "jump" => Settles(r, 0, exit.l))
  OBVIOUS
<1> HIDE DEF r
<1>12. Settles(n \o r, 1, do) /\ Settles(n \o r, 2, past)
  <2>1. /\ 1 \in 0 .. Len(n) /\ 2 \in 0 .. Len(n) /\ 3 \in 1 .. Len(n)
        /\ Len(h) + 2 \in 1 .. Len(n) /\ 1 < 3 /\ 2 < Len(h) + 2
    BY <1>4, <1>6, <1>7, <1>8
  <2> QED
    BY <1>7, <1>8, <1>10, <1>11, <2>1, FrontSettles
<1>13. ASSUME NEW k \in 1 .. Len(n), exit.do = "jump" PROVE Settles(n \o r, k, exit.l)
  <2>1. k \in 0 .. Len(n)
    OBVIOUS
  <2> QED
    BY <1>7, <1>10, <1>11, <1>13, <2>1, FrontSettles
<1>14. \A l : /\ IsItem(a.code, JumpTo(l)) /\ JumpTo(l).do = "jump" /\ JumpTo(l).l = l
              /\ IsItem(a.code, Label(l)) /\ Straight(Label(l))
  BY Items DEF JumpTo
<1>15. IsItem(a.code, exit) /\ exit.do \in {"jump", "put"}
  BY DEF IsExit, IsItem, IsPlain
<1>16. ASSUME NEW k \in 1 .. Len(n) PROVE IsItem(a.code, n[k]) /\ Served(n \o r, k)
  <2>1. (n \o r)[k] = n[k] /\ (Straight(n[k]) => Served(n \o r, k))
    BY <1>7, <1>10, ServedStraight
  <2>2. CASE k = 1
    BY <1>8, <1>12, <1>14, <2>1, <2>2 DEF Served
  <2>3. CASE k = 2
    BY <1>8, <1>12, <1>14, <2>1, <2>3 DEF Served
  <2>4. CASE k = 3
    BY <1>8, <1>14, <2>1, <2>4
  <2>5. CASE n[k] = exit
    BY <1>13, <1>15, <2>1, <2>5 DEF Served
  <2>6. CASE n[k] = Label(past)
    BY <1>14, <2>1, <2>6
  <2>7. CASE IsItem(a.code, n[k]) /\ Straight(n[k])
    BY <2>1, <2>7
  <2> QED
    BY <1>9, <2>2, <2>3, <2>4, <2>5, <2>6, <2>7
<1>17. Linking(b)
  BY <1>3, <1>7, <1>16, ServedKeeps DEF r
<1> QED
  BY <1>2, <1>17

(* .for: the first command, and a loop whose body ends in the step.          *)
LEMMA ForKeeps ==
  ASSUME NEW a, Linking(a), a.todo # <<>>, Head(a.todo).do = "for",
         NEW init \in Statements, NEW step \in Statements,
         NEW cond \in Expressions, NEW body \in Code
  PROVE  Linking(First(Taken(a), <<init, While(cond, body \o <<step>>)>>))
<1> DEFINE more == body \o <<step>>
           w == While(cond, more)
           n == <<init, w>>
<1>1. more \in Code
  BY DEF Code
<1> HIDE DEF more
<1>2. IsItem(a.code, w) /\ Straight(w)
  BY <1>1 DEF While, IsItem, IsPlain, IsStatement, Straight
<1>3. IsItem(a.code, init) /\ Straight(init)
  <2>1. IsStatement(init)
    BY SourceAssumption
  <2> QED
    BY <2>1 DEF IsItem, IsPlain, IsStatement, Straight
<1> HIDE DEF w
<1>4. Sequence(n) /\ Len(n) = 2 /\ n[1] = init /\ n[2] = w /\ n # <<>>
  BY Few
<1> HIDE DEF n
<1>5. ASSUME NEW k \in 1 .. Len(n) PROVE IsItem(a.code, n[k]) /\ Straight(n[k])
  <2>1. k = 1 \/ k = 2
    BY <1>4
  <2> QED
    BY <1>2, <1>3, <1>4, <2>1
<1>6. Head(a.todo).do \notin {"label", "link", "put", "main"}
  OBVIOUS
<1>7. Linking(First(Taken(a), n))
  BY <1>4, <1>5, <1>6, FirstKeeps
<1> QED
  BY <1>7 DEF n, w, more

(* .let                                                                      *)
LEMMA LetKeeps ==
  ASSUME NEW a, Linking(a), a.todo # <<>>, Head(a.todo).do = "let",
         NEW e \in Expressions, NEW v
  PROVE  Linking(First(Taken(a), <<Value(e, <<>>), Put("PopVar", <<v>>)>>))
<1> DEFINE i == Value(e, <<>>)
           p == Put("PopVar", <<v>>)
           n == <<i, p>>
<1>1. Sequence(<<v>>)
  BY Single
<1>2. IsItem(a.code, i) /\ Straight(i) /\ IsItem(a.code, p) /\ Straight(p)
  BY <1>1, Items
<1> HIDE DEF i, p
<1>3. Sequence(n) /\ Len(n) = 2 /\ n[1] = i /\ n[2] = p /\ n # <<>>
  BY Few
<1> HIDE DEF n
<1>4. ASSUME NEW k \in 1 .. Len(n) PROVE IsItem(a.code, n[k]) /\ Straight(n[k])
  <2>1. k = 1 \/ k = 2
    BY <1>3
  <2> QED
    BY <1>2, <1>3, <2>1
<1>5. Head(a.todo).do \notin {"label", "link", "put", "main"}
  OBVIOUS
<1>6. Linking(First(Taken(a), n))
  BY <1>3, <1>4, <1>5, FirstKeeps
<1> QED
  BY <1>6 DEF n, i, p

(* .function: it starts where the next command comes.                        *)
LEMMA FunctionKeeps ==
  ASSUME NEW a, Linking(a), a.todo # <<>>, Head(a.todo).do = "function",
         NEW fn, IsFunction(fn)
  PROVE  Linking(CompileFunction(Taken(a), fn))
<1> DEFINE i == Value(fn.body, Numbered(fn.params))
           p == Put("Return", <<Len(fn.params)>>)
           n == <<i, p>>
           b == First([Taken(a) EXCEPT !.functions = Entered(@, fn.name, Len(a.code))], n)
<1>1. IsState(Taken(a)) /\ Taken(a).todo = Tail(a.todo) /\ Taken(a).code = a.code
      /\ Taken(a).labels = a.labels /\ Taken(a).pending = a.pending
      /\ Taken(a).functions = a.functions
  BY TakenParts DEF Linking
<1>2. CompileFunction(Taken(a), fn) = b
  BY <1>1 DEF CompileFunction, Position
<1>3. /\ IsState(b) /\ b.todo = n \o Tail(a.todo) /\ b.code = a.code
      /\ b.labels = a.labels /\ b.pending = a.pending
      /\ b.functions = Entered(a.functions, fn.name, Len(a.code))
  <2> HIDE DEF n, Taken
  <2> QED
    BY <1>1 DEF IsState, First
<1>4. \A f \in DOMAIN b.functions : Lands(a.code, b.functions[f])
  <2>1. Lands(a.code, Len(a.code))
    <3>1. Len(a.code) \in Nat
      BY SequenceParts DEF Linking
    <3> QED
      BY <3>1 DEF Lands
  <2>2. \A f \in DOMAIN a.functions : Lands(a.code, a.functions[f])
    BY DEF Linking, TablesLand
  <2> QED
    BY <1>3, <2>1, <2>2 DEF Entered
<1>5. IsItem(a.code, i) /\ Straight(i) /\ IsItem(a.code, p) /\ Straight(p)
  <2>1. fn.body \in Expressions
    BY DEF IsFunction
  <2>2. Sequence(<<Len(fn.params)>>)
    BY Single
  <2> QED
    BY <2>1, <2>2, Items
<1> HIDE DEF i, p, b
<1>6. Sequence(n) /\ Len(n) = 2 /\ n[1] = i /\ n[2] = p /\ n # <<>>
  BY Few
<1> HIDE DEF n
<1>7. ASSUME NEW k \in 1 .. Len(n) PROVE IsItem(a.code, n[k]) /\ Straight(n[k])
  <2>1. k = 1 \/ k = 2
    BY <1>6
  <2> QED
    BY <1>5, <1>6, <2>1
<1>8. Head(a.todo).do \notin {"label", "link", "put", "main"}
  OBVIOUS
<1>9. Linking(b)
  BY <1>3, <1>4, <1>6, <1>7, <1>8, StraightKeeps
<1> QED
  BY <1>2, <1>9

(* The main code ends in a command.                                          *)
LEMMA MainKeeps ==
  ASSUME NEW a, Linking(a), a.todo # <<>>, Head(a.todo).do = "main",
         NEW main, main.code \in Code
  PROVE  Linking(CompileMain(Taken(a), main))
<1> DEFINE t == IF main.script THEN <<Put("DumpStack", <<>>), Put("Stop", <<>>)>>
                               ELSE <<Put("Return", <<0>>)>>
           c == main.code
           n == c \o t
           b == First([Taken(a) EXCEPT !.start = Len(a.code)], n)
<1>1. IsState(Taken(a)) /\ Taken(a).todo = Tail(a.todo) /\ Taken(a).code = a.code
      /\ Taken(a).labels = a.labels /\ Taken(a).pending = a.pending
      /\ Taken(a).functions = a.functions
  BY TakenParts DEF Linking
<1>2. CompileMain(Taken(a), main) = b
  BY <1>1 DEF CompileMain, Position
<1>3. /\ IsState(b) /\ b.todo = n \o Tail(a.todo) /\ b.code = a.code
      /\ b.labels = a.labels /\ b.pending = a.pending /\ b.functions = a.functions
  <2> HIDE DEF n, Taken
  <2> QED
    BY <1>1 DEF IsState, First
<1>4. /\ Sequence(t) /\ Len(t) \in Nat \ {0} /\ t # <<>>
      /\ \A k \in 1 .. Len(t) : t[k].do = "put" /\ IsItem(a.code, t[k]) /\ Straight(t[k])
  <2> DEFINE d == Put("DumpStack", <<>>)
             s == Put("Stop", <<>>)
             p == Put("Return", <<0>>)
  <2>1. /\ d.do = "put" /\ IsItem(a.code, d) /\ Straight(d)
        /\ s.do = "put" /\ IsItem(a.code, s) /\ Straight(s)
        /\ p.do = "put" /\ IsItem(a.code, p) /\ Straight(p)
    <3>1. Sequence(<<>>) /\ Sequence(<<0>>)
      BY Nothing, Single
    <3> QED
      BY <3>1, Items
  <2>2. t = <<d, s>> \/ t = <<p>>
    OBVIOUS
  <2> HIDE DEF d, s, p, t
  <2>3. CASE t = <<d, s>>
    <3>1. Sequence(t) /\ Len(t) = 2 /\ t[1] = d /\ t[2] = s /\ t # <<>>
      BY <2>3, Few
    <3>2. \A k \in 1 .. 2 : k = 1 \/ k = 2
      OBVIOUS
    <3> QED
      BY <2>1, <3>1, <3>2
  <2>4. CASE t = <<p>>
    <3>1. Sequence(t) /\ Len(t) = 1 /\ t[1] = p /\ t # <<>>
      BY <2>4, Single
    <3>2. \A k \in 1 .. 1 : k = 1
      OBVIOUS
    <3> QED
      BY <2>1, <3>1, <3>2
  <2> QED
    BY <2>2, <2>3, <2>4
<1>5. /\ Sequence(c) /\ Len(c) \in Nat
      /\ \A k \in 1 .. Len(c) : IsItem(a.code, c[k]) /\ Straight(c[k])
  BY BodyItems, SequenceParts
<1> HIDE DEF t, c, b
<1>6. /\ Sequence(n)
      /\ \A k \in 1 .. Len(c) : n[k] = c[k]
      /\ \A k \in DOMAIN n :
           k \in 1 .. Len(c) \/ (k - Len(c) \in 1 .. Len(t) /\ n[k] = t[k - Len(c)])
      /\ DOMAIN n = 1 .. Len(n)
  <2>1. Sequence(c) /\ Sequence(t)
    BY <1>4, <1>5
  <2> QED
    BY ONLY <2>1, Joined, SequenceParts
<1>7. n # <<>> /\ Last(n) = Last(t)
  <2>1. Sequence(c) /\ Sequence(t) /\ t # <<>>
    BY <1>4, <1>5
  <2>2. Last(n) = Last(t)
    BY ONLY <2>1, LastOfJoined
  <2>3. Len(n) = Len(c) + Len(t)
    BY ONLY <2>1, Joined
  <2>4. Len(n) # 0
    BY <1>4, <1>5, <2>3
  <2> QED
    BY <1>6, <2>2, <2>4, SequenceParts
<1> HIDE DEF n
<1>8. Last(n).do = "put"
  <2>1. Len(t) \in 1 .. Len(t)
    BY <1>4
  <2> QED
    BY <1>4, <1>7, <2>1 DEF Last
<1>9. ASSUME NEW k \in 1 .. Len(n) PROVE IsItem(a.code, n[k]) /\ Straight(n[k])
  BY <1>4, <1>5, <1>6
<1>10. /\ Head(a.todo).do \notin {"label", "link"}
       /\ \A f \in DOMAIN b.functions : Lands(a.code, b.functions[f])
  BY <1>3 DEF Linking, TablesLand
<1>11. Linking(b)
  BY <1>3, <1>6, <1>7, <1>8, <1>9, <1>10, StraightKeeps
<1> QED
  BY <1>2, <1>11

(* Whatever the assembler does, what it has linked stays linked.             *)
LEMMA AssembleKeeps ==
  ASSUME NEW a, Linking(a), a.todo # <<>>
  PROVE  Linking(Assemble(a))
<1> DEFINE i == Head(a.todo)
           c == Taken(a)
<1>1. Assemble(a) = Done(c, i)
  BY DEF Assemble, Taken
<1>2. /\ IsItem(a.code, i)
      /\ i.do = "jump" => Settles(Tail(a.todo), 0, i.l)
      /\ i.do = "case" => Settles(Tail(a.todo), 0, i.end)
      /\ i.do = "guarded" =>
           /\ Links(Tail(a.todo), 0)
           /\ i.exit.do = "jump" => Settles(Tail(a.todo), 0, i.exit.l)
  BY RestServes DEF Linking
<1>3. IsState(c) /\ c.todo = Tail(a.todo) /\ c.code = a.code
      /\ c.labels = a.labels /\ c.pending = a.pending
      /\ c.functions = a.functions /\ c.counter = a.counter
  BY TakenParts DEF Linking
<1> HIDE DEF c, i
<1>4. CASE i.do = "value" /\ i.e \in Expressions
  <2>1. Done(c, i) = CompileExpr(c, i.e, i.formals)
    BY <1>4 DEF Done
  <2> QED
    BY <1>1, <1>4, <2>1, ExpressionKeeps DEF c, i
<1>5. CASE i.do = "jump"
  <2>1. Done(c, i) = Jump(c, i.l)
    BY <1>5 DEF Done
  <2> QED
    BY <1>1, <1>2, <1>5, <2>1, JumpKeeps DEF c, i
<1>6. CASE i.do = "label" /\ i = Label(i.l)
  <2> DEFINE b == [c EXCEPT !.labels = Entered(@, i.l, Position(c))]
  <2>1. Done(c, i) = b
    BY <1>6 DEF Done
  <2>2. /\ IsState(b) /\ b.code = a.code /\ b.pending = a.pending
        /\ b.functions = a.functions /\ b.todo = Tail(a.todo)
        /\ b.labels = Entered(a.labels, i.l, Len(a.code))
    BY <1>3 DEF IsState, Position
  <2> HIDE DEF b
  <2>3. Linking(b)
    BY <1>6, <2>2, SetLabelKeeps DEF i
  <2> QED
    BY <1>1, <2>1, <2>3
<1>7. CASE i.do = "link" /\ i = Link
  <2> DEFINE b == Patched(c, Due(c))
  <2>1. Done(c, i) = b
    BY <1>7 DEF Done, LinkAll
  <2>2. Due(c) = Due(a)
    BY <1>3 DEF Due
  <2>3. b.code = Patched(a, Due(a)).code
    <3>1. /\ DOMAIN a = {"code", "labels", "pending", "counter", "functions", "start", "todo"}
          /\ DOMAIN c = {"code", "labels", "pending", "counter", "functions", "start", "todo"}
      BY <1>3 DEF Linking, IsState
    <3> QED
      BY <1>3, <2>2, <3>1 DEF Patched
  <2>4. /\ IsState(b) /\ b.pending = a.pending /\ b.labels = a.labels
        /\ b.functions = a.functions /\ b.todo = Tail(a.todo)
    BY <1>3 DEF IsState, Patched
  <2>5. HasLinked(a, b.code)
    BY <2>3, LinkedParts
  <2> HIDE DEF b
  <2>6. Linking(b)
    BY <1>7, <2>4, <2>5, LinkKeeps DEF i
  <2> QED
    BY <1>1, <2>1, <2>6
<1>8. CASE i.do = "case" /\ i.arm \in [cond : Expressions, code : Code]
  <2>1. Done(c, i) = CompileCase(c, i.arm, i.end)
    BY <1>8 DEF Done
  <2> QED
    BY <1>1, <1>2, <1>8, <2>1, CaseKeeps DEF c, i
<1>9. CASE i.do = "let" /\ i.e \in Expressions
  <2>1. Done(c, i) = First(c, <<Value(i.e, <<>>), Put("PopVar", <<i.v>>)>>)
    BY <1>9 DEF Done
  <2> QED
    BY <1>1, <1>9, <2>1, LetKeeps DEF c, i
<1>10. CASE /\ i.do = "if" /\ i.else \in Code
            /\ i.arms \in Seq([cond : Expressions, code : Code])
  <2>1. Done(c, i) = CompileIf(c, i.arms, i.else)
    BY <1>10 DEF Done
  <2> QED
    BY <1>1, <1>10, <2>1, IfKeeps DEF c, i
<1>11. CASE i.do = "while" /\ i.cond \in Expressions /\ i.body \in Code
  <2>1. Done(c, i) = CompileLoop(c, i.cond, i.body)
    BY <1>11 DEF Done
  <2> QED
    BY <1>1, <1>11, <2>1, LoopKeeps DEF c, i
<1>12. CASE /\ i.do = "for" /\ i.cond \in Expressions /\ i.body \in Code
            /\ i.init \in Statements /\ i.step \in Statements
  <2>1. Done(c, i) = First(c, <<i.init, While(i.cond, i.body \o <<i.step>>)>>)
    BY <1>12 DEF Done
  <2> QED
    BY <1>1, <1>12, <2>1, ForKeeps DEF c, i
<1>13. CASE IsFunction(i)
  <2>1. i.do = "function"
    BY <1>13 DEF IsFunction
  <2>2. Done(c, i) = CompileFunction(c, i)
    BY <2>1 DEF Done
  <2> QED
    BY <1>1, <1>13, <2>1, <2>2, FunctionKeeps DEF c, i
<1>14. CASE i.do = "main" /\ i.code \in Code
  <2>1. Done(c, i) = CompileMain(c, i)
    BY <1>14 DEF Done
  <2> QED
    BY <1>1, <1>14, <2>1, MainKeeps DEF c, i
<1>15. CASE i.do = "put" /\ Writable(a.code, i.f, i.operands)
  <2>1. Done(c, i) = Emit(c, i.f, i.operands)
    BY <1>15 DEF Done
  <2>2. i.do \notin {"label", "link"}
    BY <1>15
  <2> QED
    BY <1>1, <1>15, <2>1, <2>2, EmitKeeps DEF c, i
<1>16. CASE i.do = "guarded" /\ i.code \in Code /\ IsExit(a.code, i.exit)
  <2>1. Done(c, i) = CompileGuarded(c, i.code, i.exit)
    BY <1>16 DEF Done
  <2> QED
    BY <1>1, <1>2, <1>16, <2>1, GuardedKeeps DEF c, i
<1> QED
  BY <1>2, <1>4, <1>5, <1>6, <1>7, <1>8, <1>9, <1>10, <1>11, <1>12, <1>13, <1>14, <1>15, <1>16
     DEF IsItem, IsPlain, IsStatement

-----------------------------------------------------------------------------
(* From the source to the batch.                                             *)

(* A session has nothing to link.                                            *)
LEMMA SessionLinks ==
  ASSUME NEW source, source.main \in Code, Sequence(source.functions),
         \A k \in DOMAIN source.functions : IsFunction(source.functions[k])
  PROVE  Linking(Session(source))
<1> DEFINE m == MainCode(source.main, source.script)
           f == source.functions
           t == <<m>>
           s == f \o t
           a == Session(source)
<1>1. /\ IsState(a) /\ a.code = <<>> /\ a.labels = <<>> /\ a.pending = {}
      /\ a.functions = <<>> /\ a.todo = s
  BY DEF Session, Begin, IsState
<1> HIDE DEF a
<1>2. m.do = "main" /\ IsItem(<<>>, m) /\ Straight(m)
  BY DEF MainCode, IsItem, IsPlain, Straight
<1>3. ASSUME NEW k \in DOMAIN f PROVE IsItem(<<>>, f[k]) /\ Straight(f[k])
  BY <1>3 DEF IsFunction, IsItem, IsPlain, Straight
<1> HIDE DEF m
<1>4. Sequence(t) /\ Len(t) = 1 /\ t[1] = m /\ t # <<>>
  BY Single
<1> HIDE DEF t
<1>5. /\ Sequence(f) /\ DOMAIN f = 1 .. Len(f) /\ Sequence(s) /\ DOMAIN s = 1 .. Len(s)
      /\ \A k \in 1 .. Len(f) : s[k] = f[k]
      /\ \A k \in DOMAIN s :
           k \in 1 .. Len(f) \/ (k - Len(f) \in 1 .. Len(t) /\ s[k] = t[k - Len(f)])
      /\ s # <<>> /\ Last(s) = Last(t)
  <2>1. Sequence(f) /\ Sequence(t) /\ t # <<>>
    BY <1>4
  <2>2. Last(s) = Last(t)
    BY ONLY <2>1, LastOfJoined
  <2>3. Len(s) = Len(f) + Len(t) /\ Len(f) \in Nat
    BY ONLY <2>1, Joined, SequenceParts
  <2>4. /\ DOMAIN f = 1 .. Len(f) /\ Sequence(s) /\ DOMAIN s = 1 .. Len(s)
        /\ \A k \in 1 .. Len(f) : s[k] = f[k]
        /\ \A k \in DOMAIN s :
             k \in 1 .. Len(f) \/ (k - Len(f) \in 1 .. Len(t) /\ s[k] = t[k - Len(f)])
    BY ONLY <2>1, Joined, SequenceParts
  <2>5. s # <<>>
    <3>1. Len(s) # 0
      BY <1>4, <2>3
    <3> QED
      BY <2>4, <3>1, SequenceParts
  <2> QED
    BY <2>1, <2>2, <2>4, <2>5
<1> HIDE DEF s, f
<1>6. ASSUME NEW k \in DOMAIN s PROVE IsItem(<<>>, s[k]) /\ Served(s, k)
  <2>1. IsItem(<<>>, s[k]) /\ Straight(s[k])
    <3>1. CASE k \in 1 .. Len(f)
      BY <1>3, <1>5, <3>1
    <3>2. CASE k - Len(f) \in 1 .. Len(t) /\ s[k] = t[k - Len(f)]
      BY <1>2, <1>4, <3>2
    <3> QED
      BY <1>5, <1>6, <3>1, <3>2
  <2> QED
    BY <2>1 DEF Served, Straight
<1>7. Serves(a.code, a.todo)
  BY <1>1, <1>5, <1>6 DEF Serves
<1>8. Sequence(a.code) /\ JumpsKnown(a) /\ PendingSettled(a)
  <2>1. Sequence(a.code)
    BY <1>1, Nothing
  <2> QED
    BY <1>1, <2>1 DEF JumpsKnown, PendingSettled
<1>9. TablesLand(a)
  BY <1>1 DEF TablesLand
<1>10. EndsWell(a)
  <2>1. Last(t) = m
    BY <1>4 DEF Last
  <2> QED
    BY <1>1, <1>2, <1>5, <2>1 DEF EndsWell
<1>11. Linking(a)
  BY <1>1, <1>7, <1>8, <1>9, <1>10 DEF Linking
<1> QED
  BY <1>11 DEF a

(* With nothing left to do, every jump has its target.                       *)
LEMMA FinishedIsLinked ==
  ASSUME NEW a, Linking(a), a.todo = <<>>, NEW k \in DOMAIN a.code, IsJump(a.code[k])
  PROVE  /\ k + 1 \in DOMAIN a.code
         /\ a.code[k + 1].is \in 0 .. Len(a.code) - 1
         /\ a.code[a.code[k + 1].is + 1].cell = "func"
<1>1. /\ k + 1 \in DOMAIN a.code
      /\ \/ Lands(a.code, a.code[k + 1].is)
         \/ a.code[k + 1].is = -1 /\ \E p \in a.pending : p[2] = k
  BY DEF Linking, JumpsKnown
<1>2. ASSUME a.code[k + 1].is = -1, NEW p \in a.pending, p[2] = k PROVE FALSE
  <2>1. Settled(a, p[1])
    BY <1>2 DEF Linking, PendingSettled
  <2>2. \A j : j \notin DOMAIN a.todo
    OBVIOUS
  <2> QED
    BY <2>1, <2>2 DEF Settled, Settles, Links
<1>3. Lands(a.code, a.code[k + 1].is)
  BY <1>1, <1>2
<1>4. a.code[k + 1].is < Len(a.code)
  BY DEF Linking, EndsWell
<1>5. Len(a.code) \in Nat
  BY SequenceParts DEF Linking
<1> QED
  BY <1>1, <1>3, <1>4, <1>5 DEF Lands

(* So it is for each program that the assembler made.                        *)
LEMMA AssembledIsLinked ==
  ASSUME NEW p \in Programs, p.compiled
  PROVE  \E a : Linking(a) /\ a.todo = <<>> /\ p.batch = a.code
<1> DEFINE states == Assemblies[p]
           n == Len(states)
           S == {k \in 0 .. n - 1 : Linking(states[k + 1])}
<1>1. IsAssembly(states, p)
  BY AssemblyAssumption
<1> HIDE DEF states
<1>2. n \in Nat \ {0} /\ n - 1 \in Nat
  BY <1>1 DEF IsAssembly
<1>3. 0 \in S
  <2>1. states[1] = Session(p.source)
    BY <1>1 DEF IsAssembly
  <2>2. Linking(Session(p.source))
    BY <1>1, SessionLinks DEF IsAssembly
  <2>3. 0 \in 0 .. n - 1 /\ 0 + 1 = 1
    BY <1>2
  <2> QED
    BY <2>1, <2>2, <2>3
<1>4. ASSUME NEW k \in 0 .. (n - 1) - 1, k \in S PROVE k + 1 \in S
  <2>1. k + 1 \in 1 .. n - 1 /\ k + 1 \in 0 .. n - 1 /\ (k + 1) + 1 = k + 2
    BY <1>2
  <2>2. states[k + 1].todo # <<>> /\ states[k + 2] = Assemble(states[k + 1])
    BY <1>1, <2>1 DEF IsAssembly
  <2>3. Linking(states[k + 1])
    BY <1>4
  <2>4. Linking(states[k + 2])
    BY <2>2, <2>3, AssembleKeeps
  <2> QED
    BY <2>1, <2>4
<1> HIDE DEF S
<1>5. n - 1 \in S
  <2>1. 0 .. n - 1 \subseteq S
    BY <1>2, <1>3, <1>4, UpTo
  <2> QED
    BY <1>2, <2>1
<1>6. Linking(states[n])
  BY <1>2, <1>5 DEF S
<1> QED
  BY <1>1, <1>6 DEF IsAssembly

(* The machine never changes its program.                                    *)
LEMMA SameProgram == prog \in Programs /\ [Next]_vars => (prog \in Programs)'
BY DEF Next, vars, Step, TclReset, TclPush, TclRun, SkipOver, Push, PushVar, PushArg,
       Pushing, PopVar, Pop, Default, Compute, Compare, Combine, Judge, Adjust, Pass,
       GoSub, Return, Leave, Branch, Goto, Stop, RunAway, Kept

(* In every batch that the assembler makes, however its constructs are       *)
(* nested, each jump and each call leads to a command: LinkGamma leaves no   *)
(* jump unlinked (.Gamma.tcl:64).                                            *)
THEOREM EveryJumpLinked == Spec => []JumpsLinked
<1>1. Init => prog \in Programs
  BY DEF Init
<1>2. prog \in Programs => JumpsLinked
  <2> SUFFICES ASSUME prog \in Programs, prog.compiled, NEW k \in Positions,
                      Batch(k).cell = "func", Batch(k).is \in {"Goto", "GoSub"}
               PROVE  Batch(k + 1).is \in Positions /\ Batch(Batch(k + 1).is).cell = "func"
    BY DEF JumpsLinked
  <2>1. PICK a : Linking(a) /\ a.todo = <<>> /\ prog.batch = a.code
    BY AssembledIsLinked
  <2>2. Len(a.code) \in Nat /\ DOMAIN a.code = 1 .. Len(a.code)
    BY <2>1, SequenceParts DEF Linking
  <2>3. k \in 0 .. Len(a.code) - 1 /\ k + 1 \in DOMAIN a.code
    BY <2>1, <2>2 DEF Positions
  <2>4. IsJump(a.code[k + 1])
    BY <2>1 DEF Batch, IsJump
  <2>5. /\ a.code[k + 1 + 1].is \in 0 .. Len(a.code) - 1
        /\ a.code[a.code[k + 1 + 1].is + 1].cell = "func"
    BY <2>1, <2>3, <2>4, FinishedIsLinked
  <2> QED
    BY <2>1, <2>5 DEF Batch, Positions
<1> QED
  BY <1>1, <1>2, SameProgram, PTL DEF Spec
=============================================================================
