------------------------------ MODULE SearchRepair ------------------------------
(***************************************************************************)
(* search:reconcile --repair (src/src/infra/search), run beside commands,  *)
(* relays and rebuilds, as often as somebody likes.  It holds the gate FOR *)
(* SHARE, pins the index it found behind the write alias and goes through  *)
(* the catalog and then through the index.  What differs is projected      *)
(* again from the row as it is by then.                                    *)
(*                                                                         *)
(* Without --repair nothing is written: that reconciliation is Matches.    *)
(* A document is a function of its revision here, so the branches for a    *)
(* difference under the very same revision (external_gte) are not taken.   *)
(* Rows of products are never removed: a deleted one is found again.       *)
(***************************************************************************)
EXTENDS CatalogSearch

VARIABLE repair    \* what each run is doing

repairVars == <<vars, repair>>

RepairAt == {"off", "admitted", "pinned", "comparing", "listed", "sent",
             "conflict", "done"}

(* todo: the products the pass has not come to; listed: the revisions the  *)
(* batch should be found at; due: the differences found in it.             *)
Run == [at : RepairAt, pass : {"catalog", "index"}, target : Indices,
        todo : SUBSET Products, listed : [Products -> 0 .. MaxRevision],
        due : SUBSET Products, product : Products, entry : Entry]

Nothing == [p \in Products |-> 0]

Idle == [at |-> "off", pass |-> "catalog", target |-> FirstIndex, todo |-> Products,
         listed |-> Nothing, due |-> {}, product |-> CHOOSE p \in Products : TRUE,
         entry |-> Absent]

RepairTypeOK == SearchTypeOK /\ repair \in [Repairs -> Run]

RepairInit == Init /\ repair = [m \in Repairs |-> Idle]

Doing(m, at) == repair[m].at = at

(* The revision a search should find p at as the catalog is now. *)
Wanted(p) == IF Revision(p) = 0 THEN 0 ELSE Projection(p, Revision(p))

(* The run ends and its transaction with it; a failed one ends as well. *)
End(m, at) ==
  /\ repair' = [repair EXCEPT ![m] = [Idle EXCEPT !.at = at]]
  /\ shared' = shared \ {m}

BeginRepair(m) ==
  /\ repair[m].at \in {"off", "done"} /\ Writable
  /\ repair' = [repair EXCEPT ![m] = [Idle EXCEPT !.at = "admitted"]]
  /\ shared' = shared \cup {m}
  /\ UNCHANGED <<history, indexVars, outboxVars, worker, late, owner, exclusive,
                 rebuild, lateCutOver, faults>>

PinTarget(m) ==
  /\ Doing(m, "admitted")
  /\ \/ \E i \in Indices :
          /\ writeAlias = {i}
          /\ repair' = [repair EXCEPT ![m].at = "pinned", ![m].target = i]
          /\ UNCHANGED shared
     \/ Cardinality(writeAlias) # 1 /\ End(m, "off")
  /\ UNCHANGED <<history, indexVars, outboxVars, worker, late, owner, exclusive,
                 rebuild, lateCutOver, faults>>

(* The one assertOwnership of a run. *)
ConfirmOnce(m) ==
  /\ Doing(m, "pinned")
  /\ IF m \in shared
     THEN repair' = [repair EXCEPT ![m].at = "comparing"] /\ UNCHANGED shared
     ELSE End(m, "off")
  /\ UNCHANGED <<history, indexVars, outboxVars, worker, late, owner, exclusive,
                 rebuild, lateCutOver, faults>>

-----------------------------------------------------------------------------
(* Nothing but the record of the run changes. *)
Proceed(m, run) == repair' = [repair EXCEPT ![m] = run] /\ UNCHANGED vars

Free(m, pass) ==
  Doing(m, "comparing") /\ repair[m].pass = pass /\ repair[m].due = {}

(* fetchSearchableBatch: one snapshot of what should be found. *)
ListBatch(m) ==
  /\ Free(m, "catalog")
  /\ \E batch \in SUBSET repair[m].todo \ {{}} :
       Proceed(m, [repair[m] EXCEPT !.at = "listed", !.todo = @ \ batch,
         !.listed = [p \in Products |-> IF p \in batch THEN Wanted(p) ELSE 0]])

(* getDocuments, later: what is MISSING or STALE. *)
CompareBatch(m) ==
  LET run == repair[m] IN
  /\ Doing(m, "listed")
  /\ Proceed(m, [run EXCEPT !.at = "comparing", !.listed = Nothing,
       !.due = {p \in Products : /\ run.listed[p] > 0
                                 /\ Shown(run.target, p) # run.listed[p]}])

(* Mutant of OpenScan: only what the catalog names is looked at. *)
OpenNoScan(m) ==
  /\ Free(m, "catalog") /\ repair[m].todo = {}
  /\ Proceed(m, [repair[m] EXCEPT !.pass = "index"])

(* scanDocuments: the point in time the second pass goes through. *)
OpenScan(m) ==
  /\ Free(m, "catalog") /\ repair[m].todo = {}
  /\ Proceed(m, [repair[m] EXCEPT !.pass = "index",
       !.todo = {p \in Products : Shown(repair[m].target, p) > 0}])

(* findByIds for a batch of the scan: what is EXTRA. *)
CompareScanned(m) ==
  /\ Free(m, "index")
  /\ \E batch \in SUBSET repair[m].todo \ {{}} :
       Proceed(m, [repair[m] EXCEPT !.todo = @ \ batch,
                                    !.due = {p \in batch : Wanted(p) = 0}])

(* CatalogSearchWorker.synchronize with the target of the run: the row is  *)
(* read once more, and the write is fixed by it.                           *)
Resynchronize(m) ==
  /\ Doing(m, "comparing")
  /\ \E p \in repair[m].due :
       Proceed(m, [repair[m] EXCEPT !.at = "sent", !.due = @ \ {p}, !.product = p,
                                    !.entry = CurrentEntry(p)])

Again(run) == [Idle EXCEPT !.at = "comparing", !.pass = run.pass,
                 !.target = run.target, !.todo = run.todo, !.due = run.due]

RepairAnswered(m) ==
  LET run == repair[m] IN
  /\ Doing(m, "sent")
  /\ \/ /\ Put(run.target, run.product, run.entry)
        /\ repair' = [repair EXCEPT ![m] = Again(run)]
     \/ /\ Conflicts(run.target, run.product, run.entry)
        /\ repair' = [repair EXCEPT ![m].at = "conflict"]
        /\ UNCHANGED indexVars
  /\ UNCHANGED <<history, outboxVars, worker, late, gateVars, rebuild, lateCutOver,
                 faults>>

(* assertAlreadyConverged; a difference that stays ends the run. *)
VerifyRepair(m) ==
  LET run  == repair[m]
      held == index[run.target][run.product]
  IN
  /\ Doing(m, "conflict")
  /\ IF IF run.entry.live THEN held = run.entry ELSE ~held.live
     THEN repair' = [repair EXCEPT ![m] = Again(run)] /\ UNCHANGED shared
     ELSE End(m, "off")
  /\ UNCHANGED <<history, indexVars, outboxVars, worker, late, owner, exclusive,
                 rebuild, lateCutOver, faults>>

(* The transaction commits: on a dead connection it cannot. *)
FinishRepair(m) ==
  /\ Free(m, "index") /\ repair[m].todo = {}
  /\ End(m, IF m \in shared THEN "done" ELSE "off")
  /\ UNCHANGED <<history, indexVars, outboxVars, worker, late, owner, exclusive,
                 rebuild, lateCutOver, faults>>

(* An error of the engine or of the database, the death of the process, or *)
(* a request that is given up and may still arrive.                        *)
RepairFails(m) ==
  LET run  == repair[m]
      sent == IF Doing(m, "sent")
              THEN {[target |-> run.target, product |-> run.product, entry |-> run.entry]}
              ELSE {}
  IN
  /\ run.at \notin {"off", "done"} /\ Fault
  /\ late' \in {late, late \cup sent}
  /\ End(m, "off")
  /\ UNCHANGED <<history, indexVars, outboxVars, worker, owner, exclusive, rebuild,
                 lateCutOver>>

(* The connection dies; the run learns of it at its end. *)
LoseRepairGate(m) ==
  /\ m \in shared /\ Fault
  /\ shared' = shared \ {m}
  /\ UNCHANGED <<history, indexVars, outboxVars, worker, late, owner, exclusive,
                 rebuild, lateCutOver, repair>>

RepairStep(m) ==
  \/ BeginRepair(m) \/ PinTarget(m) \/ ConfirmOnce(m)
  \/ ListBatch(m) \/ CompareBatch(m) \/ OpenScan(m) \/ CompareScanned(m)
  \/ Resynchronize(m) \/ RepairAnswered(m) \/ VerifyRepair(m) \/ FinishRepair(m)

RepairNext ==
  \/ Next /\ UNCHANGED repair
  \/ \E m \in Repairs : RepairStep(m) \/ RepairFails(m) \/ LoseRepairGate(m)

RepairSpec == RepairInit /\ [][RepairNext]_repairVars

(* Rows move on while somebody drains: every step of a relay but a fault,  *)
(* and the end of a lease nobody renews.  Commands, rebuilds, requeues,    *)
(* repairs and faults need not happen.                                     *)
RepairFairness ==
  /\ \A w \in Workers : WF_repairVars(WorkerStep(w) /\ UNCHANGED repair)
  /\ \A e \in Events : WF_repairVars(LeaseRunsOut(e) /\ UNCHANGED repair)

FairRepairSpec == RepairSpec /\ RepairFairness

-----------------------------------------------------------------------------
(* Whoever keeps running repairs until one succeeds, again and again, has  *)
(* in the end an index that shows the catalog as it is: what late writes   *)
(* brought back after their deletion was forgotten goes away, and what     *)
(* dead letters left out comes in (opensearch-index-synchronization.md     *)
(* leaves both to the reconciliation).                                     *)
RepairConverges ==
  \A m \in Repairs :
    ([]<>(repair[m].at = "done") /\ []<>(repair[m].at # "done"))
      => <>[](\A i \in readAlias : Matches(i))
================================================================================
