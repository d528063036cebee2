------------------------------ MODULE MCPlacement ------------------------------
(* Constants of the run of Placement: o1 and o2 are one request sent twice, *)
(* o3 asks for something else, under their key or another; two adjustments  *)
(* share a key.                                                             *)
EXTENDS Placement, TLC

CONSTANTS o1, o2, o3, p1, p2, i1, i2, k1, k2, m1, m2, r1

Lines == LET one == i1 :> 1 @@ i2 :> 0
         IN  o1 :> one @@ o2 :> one @@ o3 :> (i1 :> 1 @@ i2 :> 1)
InStock == i1 :> 1 @@ i2 :> 1
Belongs == i1 :> p1 @@ i2 :> p2
Ids == p1 :> 1 @@ p2 :> 2 @@ i1 :> 3 @@ i2 :> 4
Carried == o1 :> {k1} @@ o2 :> {k1} @@ o3 :> {k1, k2}
Asked == o1 :> m1 @@ o2 :> m1 @@ o3 :> m2
Repeated == [caller : Callers, item : {i1}, key : {r1}, delta : {1}]

Alike == Permutations({o1, o2}) \cup Permutations(Callers)
===============================================================================
