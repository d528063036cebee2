------------------------------- MODULE MCCatalog --------------------------------
(* Constants of the runs of CatalogSearch.  Off sale every status is like   *)
(* every other, so PAUSED stands for them in NewStatuses.                  *)
EXTENDS CatalogSearch, TLC

CONSTANTS p1, p2, w1, w2, r1, r2

Draft  == [status |-> "DRAFT", saleable |-> FALSE, deleted |-> FALSE]
Filled == [Draft EXCEPT !.saleable = TRUE]
OnSale == [Filled EXCEPT !.status = "ACTIVE"]

(* A product that can be put on sale next. *)
OneFilled == p1 :> <<Draft, Filled>>

(* Two products of which the second is on sale. *)
TwoProducts == p1 :> <<Draft, Filled>> @@ p2 :> <<Draft, Filled, OnSale>>

NothingYet == p1 :> <<>>

Replicas == Permutations({w1, w2})
===============================================================================
