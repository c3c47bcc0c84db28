--------------------------- MODULE ParetoProperties ---------------------------
(***************************************************************************)
(* What the Pareto-associative table must do, stated over the states and   *)
(* steps of ParetoTable.                                                   *)
(***************************************************************************)
EXTENDS ParetoTable

(* The vector, the entries, the command in progress and the histories have   *)
(* the shapes the code gives them.                                           *)
TypeOK ==
  /\ content \in [Slots -> Ids]
  /\ numOf \in 0 .. idCounter
  /\ idCounter \in 0 .. MaxIds
  /\ entry \in [Ids -> Entry]
  /\ op \in {Idle, Exited} \cup AddOp \cup UniqueOp \cup StarsOp
  /\ ret \in {NoRet, -2, -1} \cup Nat
  /\ last \in Commands \cup {"none"}
  /\ forced \in SUBSET Ids
  /\ before \in [ids : SUBSET Ids, first : Ids \cup {0}]
  /\ trail \in Seq([seen : SUBSET Ids, upTo : 0 .. MaxIds])
  /\ lost \in BOOLEAN

(* Insertion has compared the slots before op.i: the new circuit improves on *)
(* each of them and beats none of them.                                      *)
ScanInv ==
  op.cmd = "add" =>
    /\ idCounter < MaxIds
    /\ \A k \in Used : k < op.i =>
         /\ ~AtMost(op.pt, PointAt(k))
         /\ ~(AtMost(PointAt(k), op.pt) /\ SignificantlyBetter(op.pt, PointAt(k)))

-----------------------------------------------------------------------------
(* No entry sits in two slots: the swap that delete_entry does in the middle *)
(* of an insertion, of unique and of stars never duplicates a pointer, and   *)
(* every stored id was handed out.                                           *)
SlotsDistinct ==
  /\ \A k, m \in Used : content[k] = content[m] => k = m
  /\ \A k \in Used : content[k] < idCounter

(* A circuit that was inserted (not forced) while another one was stored     *)
(* improves on it in some property: insertion never keeps a newer circuit    *)
(* that an older stored one matches everywhere, though it deletes entries    *)
(* and moves others while it compares.                                       *)
NewcomersImprove ==
  \A a, b \in Stored :
    a < b /\ b \notin forced => ~AtMost(entry[b].pt, entry[a].pt)

(* A stored circuit that a newer insertion matches everywhere and beats      *)
(* beyond the margin somewhere is gone: the insertion loop does not skip the *)
(* entry that delete_entry swaps into the slot it has just examined.         *)
BeatenAreGone ==
  \A a, b \in Stored :
    a < b /\ b \notin forced
      => ~(/\ AtMost(entry[a].pt, entry[b].pt)
           /\ SignificantlyBetter(entry[b].pt, entry[a].pt))

(* What an insertion answers, after all the deletions the call made.  The    *)
(* index of add_pat_array, which generated breeding code keeps in            *)
(* status:index, designates a circuit at least as good as the one offered;   *)
(* so does the count of <<<, whose last circuit is the new one.  A negative  *)
(* answer stores nothing: -1 because a stored circuit is at least as good,   *)
(* -2 because the call was refused before it looked at the table.            *)
AnswerDesignates ==
  [][last' = "add" /\ op' = Idle =>
       /\ ret' >= 0 => \E k \in Used' : /\ k = IF op.array THEN ret' ELSE ret' - 1
                                       /\ AtMost(op.pt, PointAt(k)')
       /\ ret' < 0 => UNCHANGED patVars
       /\ ret' = -1 => \E k \in Used : AtMost(op.pt, PointAt(k))
       /\ ret' = -2 => op = Idle]_vars

(* The circuits a table reaches: those stored and the one being inserted.    *)
Reached ==
  {q \in Point : \E k \in Used : AtMost(q, PointAt(k))}
    \cup {q \in Point : op.cmd = "add" /\ AtMost(q, op.pt)}

Region == INSTANCE DominatedRegion WITH
  Reach <- Below,
  region <- Reached,
  mode <- IF last \in TrimCommands THEN "trim" ELSE "grow"

(* Refinement: whatever insertion rejects, deletes and swaps, the table goes *)
(* on reaching every specification that some circuit offered to it reached,  *)
(* and nothing else, until a command trims it.                               *)
Promise == Region!Spec

-----------------------------------------------------------------------------
(* No property known of both tells the two circuits apart.                   *)
Twins(p, q) ==
  {k \in Props : p[k] # NaN /\ q[k] # NaN /\ Apart(p[k], q[k], k)} = {}

(* When PAT unique ends no two circuits left are closer than the interval in *)
(* every property, although the entries moved while pairs were compared.     *)
UniqueLeavesNoTwins ==
  [][op.cmd = "unique" /\ op' = Idle =>
       \A k, m \in Used : k # m => ~Twins(PointAt(k), PointAt(m))]_vars

(* When PAT unique ends every circuit it deleted has a near twin among the   *)
(* circuits left, even where closeness is not transitive.                    *)
UniqueKeepsTwin ==
  [][op.cmd = "unique" /\ op' = Idle =>
       \A d \in before.ids : \E k \in Used : Twins(PointAt(k), entry[d].pt)]_vars

(* PAT stars leaves a best circuit for every property, when all records are  *)
(* complete and slot 0 held entry 0 as it began.  Without that condition the *)
(* code takes the initial 0 for the id of slot 0 and may delete the star.    *)
StarsKeepBest ==
  [][op.cmd = "stars" /\ op' = Idle
       /\ (\A d \in before.ids : Complete(entry[d].pt))
       /\ before.first = 0 /\ before.ids # {}
     => \A j \in Props : \E k \in Used : \A d \in before.ids :
          entry[d].pt[j] <= PointAt(k)[j]]_vars

-----------------------------------------------------------------------------
(* Reference definition of a query's answer.  The shortlist: fewer than      *)
(* TopLimit circuits meet more thresholds.                                   *)
Shortlist(th) ==
  {k \in Used : Cardinality({m \in Used : Met(th, m) > Met(th, k)}) < TopLimit}

Contenders(th) == {k \in Shortlist(th) : FlagsAt(k) = 0}

HasCared(th, k) == \A j \in Props : th[j] # NaN => PointAt(k)[j] # NaN

WorthAtMost(th, k, m) ==
  \A j \in Props :
    th[j] # NaN => Clamp(th[j], PointAt(k)[j]) <= Clamp(th[j], PointAt(m)[j])

(* When the contenders have every number the query cares about, it shows     *)
(* exactly those that no other contender matches, numbers beyond a threshold *)
(* counting as the threshold; the answer does not depend on the order of the *)
(* vector, although the loop hides entries while it compares.                *)
QueryShowsUnmatched ==
  [][last' = "query" => \A spec \in QuerySpecs :
       LET th == NormalisedSpec(spec) IN
       (/\ Query(spec) /\ ~lost'
        /\ \A k \in Contenders(th) : HasCared(th, k))
       => Visible' = {content[k] : k \in {c \in Contenders(th) :
                        \A m \in Contenders(th) \ {c} : ~WorthAtMost(th, c, m)}}]_vars

(* A nested query shows only circuits that were visible before it, as long   *)
(* as no bit has been shifted out of the flags.                              *)
QueryNarrows ==
  [][last' = "query" /\ trail' # trail /\ ~lost' => Visible' \subseteq Visible]_vars

(* Undo shows again exactly what was visible before the query it undoes:     *)
(* the circuits seen then that are still stored, and those inserted since    *)
(* (they entered unhidden) that no query still in force has hidden.          *)
UndoRestores ==
  [][(/\ Undo /\ ~lost' /\ trail # <<>>)
       => LET top == trail[Len(trail)] IN
          /\ Visible' \cap 0 .. top.upTo - 1 = top.seen \cap Stored
          /\ \A d \in Stored : d >= top.upTo => d \in Visible']_vars

(* No bit is shifted out while fewer queries are in force than the flags     *)
(* have bits: of n nested queries only an n with 2^n > FlagTop = 2^(w-1),    *)
(* that is n >= w, lets the next query or undo lose one.  PAT graph issues   *)
(* a query of its own and needs room for one more.                           *)
LosesOnlyWhenDeep ==
  [][lost' /\ ~lost =>
       2 ^ (IF last' = "graph" THEN Len(trail) + 1 ELSE Len(trail)) > FlagTop]_vars

-----------------------------------------------------------------------------
(* Comment in pat_front: "This entry can't be dominated by ones that are     *)
(* missing properties it has."  Every circuit a query hides among the        *)
(* contenders is matched by one that has all the numbers it has.             *)
PartialRecordsProtected ==
  [][last' = "query" => \A spec \in QuerySpecs :
       LET th == NormalisedSpec(spec) IN
       Query(spec) /\ ~lost' =>
         \A k \in Contenders(th) : content[k] \notin Visible' =>
           \E m \in Contenders(th) \ {k} :
             \A j \in Props : th[j] # NaN /\ PointAt(k)[j] # NaN =>
                                PointAt(m)[j] # NaN]_vars

(* README: "Pareto front automated storage and retrieval".  A front of       *)
(* complete contenders is not empty when there are contenders.               *)
FrontNotEmpty ==
  [][last' = "query" => \A spec \in QuerySpecs :
       LET th == NormalisedSpec(spec) IN
       (/\ Query(spec) /\ ~lost'
        /\ Contenders(th) # {}
        /\ \A k \in Contenders(th) : HasCared(th, k))
       => Visible' # {}]_vars

-----------------------------------------------------------------------------
(* The inductive invariant behind the theorems of ParetoProofs.              *)
IInv == TypeOK /\ SlotsDistinct /\ ScanInv /\ NewcomersImprove /\ BeatenAreGone
=============================================================================
