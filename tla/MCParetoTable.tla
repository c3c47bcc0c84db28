---------------------------- MODULE MCParetoTable ----------------------------
(***************************************************************************)
(* Instances of the Pareto-associative table for TLC.  Two properties: the *)
(* first is "less is better" and tolerates no margin, the second has a     *)
(* margin that one step of its scale does not exceed.                      *)
(***************************************************************************)
EXTENDS ParetoProperties

MCProps == {1, 2}
MCLessIsBetter == {1}
MCMargin == [j \in MCProps |-> IF j = 1 THEN 0 ELSE 2]
MCValues == {-1, 1}

(* Every complete record, and records that miss one property each.           *)
MCOffers == {<<a, b>> : a, b \in MCValues} \cup {<<NaN, 1>>, <<-1, NaN>>}

StoreCommands == {"add", "force", "delete", "unique", "stars"}

(* Queries do not depend on how the table was filled, so it is filled the    *)
(* shortest way and holds dominated circuits too.                            *)
InsertAndQuery == {"add", "query"}
QueryCommands == {"force", "query", "undo", "reset", "graph"}
CompleteOffers == {<<a, b>> : a, b \in MCValues}
QueryOffers == {<<-1, 1>>, <<1, 1>>, <<-1, -1>>, <<NaN, 1>>}

(* The front of both properties, of one beyond a floor on the other, and     *)
(* floors on both.                                                           *)
MCQuerySpecs == {<<Inf, Inf>>, <<NaN, -1>>, <<1, -1>>}
=============================================================================
