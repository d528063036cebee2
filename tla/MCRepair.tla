-------------------------------- MODULE MCRepair --------------------------------
(* Constants and initial states of the run of SearchRepair. *)
EXTENDS SearchRepair, TLC

CONSTANT p1

Draft  == [status |-> "DRAFT", saleable |-> FALSE, deleted |-> FALSE]
Filled == [Draft EXCEPT !.saleable = TRUE]
OnSale == [Filled EXCEPT !.status = "ACTIVE"]

OneOnSale == p1 :> <<Draft, Filled, OnSale>>

(* What put the product on sale was projected at the second attempt; the   *)
(* request of the first one may still arrive.                              *)
FirstRequest == [target |-> FirstIndex, product |-> p1, entry |-> CurrentEntry(p1)]

Delayed ==
  /\ Served
  /\ attempts = [e \in Events |-> IF e = <<p1, 3>> THEN 1 ELSE 0]
  /\ requeues = [e \in Events |-> 0]
  /\ late = {FirstRequest}

(* There is no index yet; every row failed, was requeued and failed again. *)
NoIndex ==
  /\ index = [i \in Indices |-> [p \in Products |-> Absent]] /\ readAlias = {}
  /\ status = [e \in Events |-> IF e[2] > 3 THEN "NONE" ELSE "DEAD_LETTER"]
  /\ attempts = [e \in Events |-> IF e[2] > 3 THEN 0 ELSE MaxAttempts + MaxRequeues]
  /\ requeues = [e \in Events |-> IF e[2] > 3 THEN 0 ELSE MaxRequeues]
  /\ late = {}

Start ==
  /\ history = Past
  /\ Delayed \/ NoIndex
  /\ writeAlias = readAlias
  /\ lease = [e \in Events |-> NoWorker] /\ overdue = {}
  /\ worker = [w \in Workers |-> Resting]
  /\ owner = NoRebuild /\ shared = {} /\ exclusive = NoRebuild
  /\ rebuild = [r \in Rebuilds |-> NotStarted] /\ lateCutOver = {}
  /\ faults = 0
  /\ repair = [m \in Repairs |-> Idle]

DeliverySpec == Start /\ [][RepairNext]_repairVars /\ RepairFairness
=================================================================================
