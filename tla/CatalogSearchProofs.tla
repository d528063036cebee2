-------------------------- MODULE CatalogSearchProofs --------------------------
(***************************************************************************)
(* Safety of the path from a catalog change to the index for every value   *)
(* of its constants: types, the maintenance gate as mutual exclusion, the  *)
(* retry budget and the outcomes of the outbox rows, where the aliases go, *)
(* and what a search finds.                                                *)
(***************************************************************************)
EXTENDS CatalogSearch, SequenceTheorems, TLAPS

-----------------------------------------------------------------------------
(* The type invariant. *)

(* No product has more revisions than the model allows, and whoever is     *)
(* under way knows its event.                                              *)
HistoryBounded == \A p \in Products : Len(history[p]) <= MaxRevision
JobsHaveEvents == \A w \in Workers : worker[w].at # "idle" => worker[w].event \in Events

CatalogInv == SearchTypeOK /\ HistoryBounded /\ JobsHaveEvents

LEMMA CurrentTyped ==
  ASSUME CatalogInv, NEW p \in Products, Revision(p) > 0
  PROVE  Current(p) \in Row
BY DEF CatalogInv, SearchTypeOK, Revision, Current

LEMMA CurrentEntryTyped ==
  ASSUME history \in [Products -> Seq(Row)], HistoryBounded, NEW p \in Products
  PROVE  CurrentEntry(p) \in Entry
<1>1. Revision(p) \in 0 .. MaxRevision
  BY CatalogAssumption DEF Revision, HistoryBounded
<1>2. Searchable(Current(p)) \in BOOLEAN
  BY DEF Searchable
<1> QED
  BY <1>1, <1>2 DEF CurrentEntry, Entry

LEMMA RowExcept ==
  ASSUME NEW row \in Row
  PROVE  /\ \A s \in ProductStatus : [row EXCEPT !.status = s] \in Row
         /\ \A b \in BOOLEAN : [row EXCEPT !.saleable = b] \in Row
         /\ [row EXCEPT !.deleted = FALSE] \in Row
         /\ [row EXCEPT !.status = "CLOSED", !.deleted = TRUE] \in Row
BY DEF Row, ProductStatus

LEMMA SaveTyped ==
  ASSUME CatalogInv, NEW p \in Products, NEW row \in Row, Save(p, row)
  PROVE  /\ history' \in [Products -> Seq(Row)]
         /\ HistoryBounded'
         /\ Revision(p) + 1 \in 1 .. MaxRevision
         /\ Len(history'[p]) = Revision(p) + 1
         /\ \A q \in Products \ {p} : history'[q] = history[q]
<1>1. history[p] \in Seq(Row)
  BY DEF CatalogInv, SearchTypeOK
<1>2. Revision(p) \in Nat /\ Revision(p) < MaxRevision
  BY <1>1 DEF Save, Revision
<1>3. /\ Append(history[p], row) \in Seq(Row)
      /\ Len(Append(history[p], row)) = Revision(p) + 1
  BY <1>1, AppendProperties DEF Revision
<1>4. history' = [history EXCEPT ![p] = Append(history[p], row)]
  BY DEF Save
<1>5. history \in [Products -> Seq(Row)]
  BY DEF CatalogInv, SearchTypeOK
<1>6. /\ history'[p] = Append(history[p], row)
      /\ \A q \in Products \ {p} : history'[q] = history[q]
      /\ history' \in [Products -> Seq(Row)]
  BY <1>3, <1>4, <1>5
<1>7. HistoryBounded'
  BY <1>2, <1>3, <1>6, CatalogAssumption DEF HistoryBounded, CatalogInv
<1> QED
  BY <1>2, <1>3, <1>6, <1>7, CatalogAssumption

LEMMA CommandSaves ==
  ASSUME CatalogInv, NEW p \in Products, Command(p)
  PROVE  \E row \in Row : Save(p, row)
<1>1. CASE Create(p)
  BY <1>1 DEF Create, Row, ProductStatus
<1>2. CASE Update(p)
  BY <1>2, CurrentTyped, RowExcept, CatalogAssumption DEF Update, Live
<1>3. CASE Delete(p)
  BY <1>3, CurrentTyped, RowExcept DEF Delete, Live
<1>4. CASE ChangeCatalog(p)
  BY <1>4, CurrentTyped, RowExcept DEF ChangeCatalog, Live
<1>5. CASE Restore(p)
  <2>1. PICK r \in 1 .. Revision(p) - 1 : Save(p, [history[p][r] EXCEPT !.deleted = FALSE])
    BY <1>5 DEF Restore
  <2>2. history[p] \in Seq(Row)
    BY DEF CatalogInv, SearchTypeOK
  <2>3. history[p][r] \in Row
    BY <2>2 DEF Revision
  <2> QED
    BY <2>1, <2>3, RowExcept
<1> QED
  BY <1>1, <1>2, <1>3, <1>4, <1>5 DEF Command

LEMMA CommandTyped ==
  ASSUME CatalogInv, NEW p \in Products, Command(p)
  PROVE  /\ history' \in [Products -> Seq(Row)]
         /\ HistoryBounded'
         /\ Revision(p) + 1 \in 1 .. MaxRevision
         /\ Len(history'[p]) = Revision(p) + 1
         /\ \A q \in Products \ {p} : history'[q] = history[q]
BY CommandSaves, SaveTyped

LEMMA EventTyped ==
  ASSUME CatalogInv, NEW w \in Workers, ~At(w, "idle")
  PROVE  /\ worker[w] \in Job
         /\ worker[w].event \in Events
         /\ worker[w].event[1] \in Products
BY DEF CatalogInv, SearchTypeOK, JobsHaveEvents, At, Events

LEMMA AbsentTyped ==
  Absent \in Entry /\ Resting \in Job /\ FirstIndex \in Indices
<1>1. Absent \in Entry
  BY CatalogAssumption DEF Absent, Entry
<1> QED
  BY <1>1 DEF Resting, Job, WorkerAt, Indices

LEMMA MoveTyped ==
  ASSUME worker \in [Workers -> Job], NEW w \in Workers, NEW at \in WorkerAt, Move(w, at)
  PROVE  /\ worker' \in [Workers -> Job]
         /\ \A v \in Workers : v # w => worker'[v] = worker[v]
         /\ worker'[w].event = worker[w].event /\ worker'[w].at = at
BY DEF Move, Job

(* The other ways in which one field or all of a job changes. *)
LEMMA JobTyped ==
  ASSUME CatalogInv, NEW w \in Workers,
         \/ worker' = [worker EXCEPT ![w].owns = FALSE]
         \/ worker' = [worker EXCEPT ![w] = Resting]
         \/ /\ ~At(w, "idle")
            /\ \E i \in Indices :
                 worker' = [worker EXCEPT ![w].at = "pinned", ![w].target = i]
         \/ /\ ~At(w, "idle")
            /\ \E entry \in Entry :
                 worker' = [worker EXCEPT ![w].at = "sent", ![w].entry = entry]
  PROVE  worker' \in [Workers -> Job] /\ JobsHaveEvents'
<1>1. worker \in [Workers -> Job] /\ worker[w] \in Job
  BY DEF CatalogInv, SearchTypeOK
<1>2. CASE worker' = [worker EXCEPT ![w].owns = FALSE]
  <2>1. [worker[w] EXCEPT !.owns = FALSE] \in Job
    BY <1>1 DEF Job
  <2>2. worker' \in [Workers -> Job]
    BY <1>1, <1>2, <2>1
  <2>3. \A v \in Workers : worker'[v].at = worker[v].at /\ worker'[v].event = worker[v].event
    BY <1>1, <1>2 DEF Job
  <2> QED
    BY <2>2, <2>3 DEF CatalogInv, JobsHaveEvents
<1>3. CASE worker' = [worker EXCEPT ![w] = Resting]
  <2>1. Resting.at = "idle"
    BY DEF Resting
  <2> QED
    BY <1>1, <1>3, <2>1, AbsentTyped DEF CatalogInv, JobsHaveEvents
<1>4. ASSUME ~At(w, "idle"), NEW i \in Indices,
             worker' = [worker EXCEPT ![w].at = "pinned", ![w].target = i]
      PROVE  worker' \in [Workers -> Job] /\ JobsHaveEvents'
  <2>1. [worker[w] EXCEPT !.at = "pinned", !.target = i] \in Job
    BY <1>1, <1>4 DEF Job, WorkerAt
  <2>2. worker' \in [Workers -> Job]
    BY <1>1, <1>4, <2>1
  <2>3. \A v \in Workers : worker'[v].event = worker[v].event
                           /\ (v # w => worker'[v].at = worker[v].at)
    BY <1>1, <1>4 DEF Job
  <2> QED
    BY <1>4, <2>2, <2>3, EventTyped DEF CatalogInv, JobsHaveEvents
<1>5. ASSUME ~At(w, "idle"), NEW entry \in Entry,
             worker' = [worker EXCEPT ![w].at = "sent", ![w].entry = entry]
      PROVE  worker' \in [Workers -> Job] /\ JobsHaveEvents'
  <2>1. [worker[w] EXCEPT !.at = "sent", !.entry = entry] \in Job
    BY <1>1, <1>5 DEF Job, WorkerAt
  <2>2. worker' \in [Workers -> Job]
    BY <1>1, <1>5, <2>1
  <2>3. \A v \in Workers : worker'[v].event = worker[v].event
                           /\ (v # w => worker'[v].at = worker[v].at)
    BY <1>1, <1>5 DEF Job
  <2> QED
    BY <1>5, <2>2, <2>3, EventTyped DEF CatalogInv, JobsHaveEvents
<1> QED
  BY <1>2, <1>3, <1>4, <1>5

LEMMA InitTyped ==
  ASSUME Init
  PROVE  CatalogInv
<1>1. history \in [Products -> Seq(Row)] /\ HistoryBounded
  BY SearchAssumption DEF Init, HistoryBounded
<1>2. index \in [Indices -> [Products -> Entry]] /\ readAlias \in SUBSET Indices
  <2>1. CASE Served
    BY <1>1, <2>1, CurrentEntryTyped, AbsentTyped DEF Served
  <2>2. CASE Unserved
    BY <2>2, AbsentTyped DEF Unserved
  <2> QED
    BY <2>1, <2>2 DEF Init
<1>3. status \in [Events -> {"NONE"} \cup OutboxStatus]
  BY DEF Init, Served, Unserved, OutboxStatus
<1>4. worker \in [Workers -> Job] /\ JobsHaveEvents
  BY AbsentTyped DEF Init, JobsHaveEvents, Resting
<1>5. rebuild \in [Rebuilds -> Build]
  BY DEF Init, NotStarted, Build, RebuildAt
<1>6. IndexTypeOK
  BY <1>2 DEF Init, IndexTypeOK
<1>7. /\ attempts \in [Events -> Nat]
      /\ requeues \in [Events -> 0 .. MaxRequeues]
      /\ faults \in 0 .. MaxFaults
      /\ lease \in [Events -> Workers \cup {NoWorker}]
  BY SearchAssumption DEF Init
<1>8. /\ overdue \in SUBSET Events /\ late \in SUBSET Write
      /\ owner \in Rebuilds \cup {NoRebuild} /\ exclusive \in Rebuilds \cup {NoRebuild}
      /\ shared \in SUBSET Sessions /\ lateCutOver \in SUBSET Rebuilds
  BY DEF Init
<1> QED
  BY <1>1, <1>3, <1>4, <1>5, <1>6, <1>7, <1>8 DEF CatalogInv, SearchTypeOK

LEMMA PutTyped ==
  ASSUME IndexTypeOK, NEW i \in Indices, NEW p \in Products, NEW entry \in Entry,
         Put(i, p, entry)
  PROVE  IndexTypeOK'
BY DEF Put, IndexTypeOK

(* A step of one relay that only moves on, may leave the gate and may fail. *)
LEMMA MovedTyped ==
  ASSUME CatalogInv, NEW w \in Workers, ~At(w, "idle"),
         NEW at \in WorkerAt, Move(w, at), shared' \in SUBSET Sessions,
         faults' \in 0 .. MaxFaults, late' \in SUBSET Write, IndexTypeOK',
         UNCHANGED <<history, outboxVars, owner, exclusive, rebuild, lateCutOver>>
  PROVE  CatalogInv'
<1>1. worker' \in [Workers -> Job] /\ JobsHaveEvents'
  BY MoveTyped, EventTyped DEF CatalogInv, SearchTypeOK, JobsHaveEvents
<1> QED
  BY <1>1 DEF CatalogInv, SearchTypeOK, IndexTypeOK, HistoryBounded, JobsHaveEvents,
         indexVars, outboxVars, gateVars

LEMMA BeginCommandTyped ==
  ASSUME CatalogInv, NEW c \in Editors, BeginCommand(c)
  PROVE  CatalogInv'
BY DEF BeginCommand, Sessions, CatalogInv, SearchTypeOK, IndexTypeOK, HistoryBounded,
    JobsHaveEvents, indexVars, outboxVars, gateVars

LEMMA RollBackCommandTyped ==
  ASSUME CatalogInv, NEW c \in Editors, RollBackCommand(c)
  PROVE  CatalogInv'
BY DEF RollBackCommand, CatalogInv, SearchTypeOK, IndexTypeOK, HistoryBounded,
    JobsHaveEvents, indexVars, outboxVars, gateVars

LEMMA CommitCommandTyped ==
  ASSUME CatalogInv, NEW c \in Editors, NEW p \in Products, CommitCommand(c, p)
  PROVE  CatalogInv'
BY CommandTyped DEF CommitCommand, OutboxStatus,
         CatalogInv, SearchTypeOK, IndexTypeOK, HistoryBounded, JobsHaveEvents,
         indexVars, outboxVars, gateVars

LEMMA ClaimTyped ==
  ASSUME CatalogInv, NEW w \in Workers, NEW e \in Events, Claim(w, e)
  PROVE  CatalogInv'
BY AbsentTyped DEF Claim, OutboxStatus, Job, WorkerAt, Resting,
         CatalogInv, SearchTypeOK, IndexTypeOK, HistoryBounded, JobsHaveEvents,
         indexVars, outboxVars, gateVars

LEMMA AdmitTyped ==
  ASSUME CatalogInv, NEW w \in Workers, Admit(w)
  PROVE  CatalogInv'
BY MoveTyped, EventTyped DEF Admit, Sessions, At, WorkerAt,
         CatalogInv, SearchTypeOK, IndexTypeOK, HistoryBounded, JobsHaveEvents,
         indexVars, outboxVars, gateVars

LEMMA ResolveTyped ==
  ASSUME CatalogInv, NEW w \in Workers, Resolve(w)
  PROVE  CatalogInv'
<1>1. CASE Move(w, "failed")
  BY <1>1, MovedTyped
  DEF Resolve, At, WorkerAt, CatalogInv, SearchTypeOK, IndexTypeOK, indexVars
<1>2. ASSUME NEW i \in Indices,
             worker' = [worker EXCEPT ![w].at = "pinned", ![w].target = i], UNCHANGED shared
      PROVE  CatalogInv'
  <2>1. worker' \in [Workers -> Job] /\ JobsHaveEvents'
    BY <1>2, JobTyped DEF Resolve, At
  <2> QED
    BY <1>2, <2>1
    DEF Resolve, CatalogInv, SearchTypeOK, IndexTypeOK, HistoryBounded,
        JobsHaveEvents, indexVars, outboxVars, gateVars
<1> QED
  BY <1>1, <1>2 DEF Resolve

LEMMA ConfirmTyped ==
  ASSUME CatalogInv, NEW w \in Workers, Confirm(w)
  PROVE  CatalogInv'
BY MoveTyped, EventTyped DEF Confirm, At, WorkerAt,
         CatalogInv, SearchTypeOK, IndexTypeOK, HistoryBounded, JobsHaveEvents,
         indexVars, outboxVars, gateVars

LEMMA ReadTyped ==
  ASSUME CatalogInv, NEW w \in Workers, Read(w)
  PROVE  CatalogInv'
<1>1. CurrentEntry(worker[w].event[1]) \in Entry
  BY EventTyped, CurrentEntryTyped DEF Read, At, CatalogInv, SearchTypeOK
<1>2. worker' \in [Workers -> Job] /\ JobsHaveEvents'
  BY <1>1, JobTyped DEF Read, At
<1> QED
  BY <1>2 DEF Read, CatalogInv, SearchTypeOK, IndexTypeOK, HistoryBounded, JobsHaveEvents,
         indexVars, outboxVars, gateVars

LEMMA WriteAnsweredTyped ==
  ASSUME CatalogInv, NEW w \in Workers, WriteAnswered(w)
  PROVE  CatalogInv'
<1>1. /\ worker[w].target \in Indices /\ worker[w].entry \in Entry
      /\ worker[w].event[1] \in Products /\ ~At(w, "idle")
  BY EventTyped DEF WriteAnswered, At, Job
<1>2. IndexTypeOK'
  BY <1>1, PutTyped DEF WriteAnswered, CatalogInv, SearchTypeOK, IndexTypeOK, indexVars
<1>3. PICK at \in {"synced", "conflict"} : Move(w, at)
  BY DEF WriteAnswered
<1> QED
  BY <1>1, <1>2, <1>3, MovedTyped
  DEF WriteAnswered, WorkerAt, CatalogInv, SearchTypeOK, gateVars

LEMMA WriteRefusedTyped ==
  ASSUME CatalogInv, NEW w \in Workers, WriteRefused(w)
  PROVE  CatalogInv'
<1>1. faults' \in 0 .. MaxFaults
  BY SearchAssumption DEF WriteRefused, Fault, CatalogInv, SearchTypeOK
<1> QED
  BY <1>1, MovedTyped
  DEF WriteRefused, At, WorkerAt, CatalogInv, SearchTypeOK, IndexTypeOK, indexVars

LEMMA PendingTyped ==
  ASSUME CatalogInv, NEW w \in Workers
  PROVE  Pending(w) \subseteq Write
BY EventTyped DEF Pending, At, Write, Job

LEMMA WriteTimesOutTyped ==
  ASSUME CatalogInv, NEW w \in Workers, WriteTimesOut(w)
  PROVE  CatalogInv'
<1>1. faults' \in 0 .. MaxFaults
  BY SearchAssumption DEF WriteTimesOut, Fault, CatalogInv, SearchTypeOK
<1>2. late' \in SUBSET Write
  BY PendingTyped DEF WriteTimesOut, CatalogInv, SearchTypeOK
<1> QED
  BY <1>1, <1>2, MovedTyped
  DEF WriteTimesOut, At, WorkerAt, CatalogInv, SearchTypeOK, IndexTypeOK, indexVars

LEMMA LateWriteLandsTyped ==
  ASSUME CatalogInv, NEW write \in late, LateWriteLands(write)
  PROVE  CatalogInv'
<1>1. /\ write.target \in Indices /\ write.product \in Products /\ write.entry \in Entry
      /\ Destination(write) = {write.target}
  BY DEF CatalogInv, SearchTypeOK, Write, Destination
<1>2. IndexTypeOK'
  BY <1>1, PutTyped DEF LateWriteLands, CatalogInv, SearchTypeOK, IndexTypeOK, indexVars
<1> QED
  BY <1>2 DEF LateWriteLands, CatalogInv, SearchTypeOK, HistoryBounded, JobsHaveEvents,
         outboxVars, gateVars

LEMMA VerifyTyped ==
  ASSUME CatalogInv, NEW w \in Workers, Verify(w)
  PROVE  CatalogInv'
BY MoveTyped, EventTyped DEF Verify, At, WorkerAt,
         CatalogInv, SearchTypeOK, IndexTypeOK, HistoryBounded, JobsHaveEvents,
         indexVars, outboxVars, gateVars

LEMMA EndProjectionTyped ==
  ASSUME CatalogInv, NEW w \in Workers, EndProjection(w)
  PROVE  CatalogInv'
BY MoveTyped, EventTyped DEF EndProjection, At, WorkerAt,
         CatalogInv, SearchTypeOK, IndexTypeOK, HistoryBounded, JobsHaveEvents,
         indexVars, outboxVars, gateVars

LEMMA HeartbeatTyped ==
  ASSUME CatalogInv, NEW w \in Workers, Heartbeat(w)
  PROVE  CatalogInv'
<1>1. worker' \in [Workers -> Job] /\ JobsHaveEvents'
  <2>1. CASE UNCHANGED worker
    BY <2>1 DEF CatalogInv, SearchTypeOK, JobsHaveEvents
  <2>2. CASE worker' = [worker EXCEPT ![w].owns = FALSE]
    BY <2>2, JobTyped
  <2> QED
    BY <2>1, <2>2 DEF Heartbeat
<1>2. faults' \in 0 .. MaxFaults
  BY SearchAssumption DEF Heartbeat, Fault, CatalogInv, SearchTypeOK
<1>3. overdue' \in SUBSET Events
  BY DEF Heartbeat, CatalogInv, SearchTypeOK
<1> QED
  BY <1>1, <1>2, <1>3
  DEF Heartbeat, CatalogInv, SearchTypeOK, IndexTypeOK, HistoryBounded,
      JobsHaveEvents, indexVars, outboxVars, gateVars

LEMMA ReleaseTyped ==
  ASSUME CatalogInv, NEW w \in Workers, NEW s \in OutboxStatus, NEW n \in Nat, Release(w, s, n)
  PROVE  CatalogInv'
<1>1. worker' \in [Workers -> Job] /\ JobsHaveEvents'
  BY JobTyped DEF Release
<1>2. /\ status' \in [Events -> {"NONE"} \cup OutboxStatus]
      /\ lease' \in [Events -> Workers \cup {NoWorker}]
      /\ overdue' \in SUBSET Events
  <2>1. CASE Holds(w)
    <3>1. /\ status \in [Events -> {"NONE"} \cup OutboxStatus]
          /\ lease \in [Events -> Workers \cup {NoWorker}]
          /\ overdue \in SUBSET Events
      BY DEF CatalogInv, SearchTypeOK
    <3>2. \E e : /\ status' = [status EXCEPT ![e] = s]
                 /\ lease' = [lease EXCEPT ![e] = NoWorker]
                 /\ overdue' = overdue \ {e}
      BY <2>1 DEF Release
    <3> QED
      BY <3>1, <3>2
  <2>2. CASE ~Holds(w)
    BY <2>2 DEF Release, CatalogInv, SearchTypeOK
  <2> QED
    BY <2>1, <2>2
<1>3. attempts' \in [Events -> Nat]
  BY DEF Release, CatalogInv, SearchTypeOK
<1> QED
  BY <1>1, <1>2, <1>3
  DEF Release, CatalogInv, SearchTypeOK, IndexTypeOK, HistoryBounded, JobsHaveEvents,
      indexVars, outboxVars, gateVars

LEMMA RelinquishTyped ==
  ASSUME CatalogInv, NEW w \in Workers, Relinquish(w)
  PROVE  CatalogInv'
BY AbsentTyped DEF Relinquish, Resting,
         CatalogInv, SearchTypeOK, IndexTypeOK, HistoryBounded, JobsHaveEvents,
         indexVars, outboxVars, gateVars

LEMMA LeaseRunsOutTyped ==
  ASSUME CatalogInv, NEW e \in Events, LeaseRunsOut(e)
  PROVE  CatalogInv'
BY SearchAssumption DEF LeaseRunsOut, Fault,
         CatalogInv, SearchTypeOK, IndexTypeOK, HistoryBounded, JobsHaveEvents,
         indexVars, outboxVars, gateVars

LEMMA CrashWorkerTyped ==
  ASSUME CatalogInv, NEW w \in Workers, CrashWorker(w)
  PROVE  CatalogInv'
BY AbsentTyped, EventTyped, SearchAssumption
DEF CrashWorker, Resting, Fault, At, Pending, Write, Job, CatalogInv, SearchTypeOK,
    IndexTypeOK, HistoryBounded, JobsHaveEvents, indexVars, outboxVars, gateVars

LEMMA LoseGateTyped ==
  ASSUME CatalogInv, NEW w \in Workers, LoseGate(w)
  PROVE  CatalogInv'
BY SearchAssumption DEF LoseGate, Fault,
         CatalogInv, SearchTypeOK, IndexTypeOK, HistoryBounded, JobsHaveEvents,
         indexVars, outboxVars, gateVars

LEMMA RetryDeadLettersTyped ==
  ASSUME CatalogInv, NEW chosen \in SUBSET Events, RetryDeadLetters(chosen)
  PROVE  CatalogInv'
<1>1. requeues' \in [Events -> 0 .. MaxRequeues]
  BY SearchAssumption DEF RetryDeadLetters, CatalogInv, SearchTypeOK
<1>2. /\ status' \in [Events -> {"NONE"} \cup OutboxStatus]
      /\ lease' \in [Events -> Workers \cup {NoWorker}]
      /\ overdue' \in SUBSET Events
  BY DEF RetryDeadLetters, CatalogInv, SearchTypeOK, OutboxStatus
<1> QED
  BY <1>1, <1>2
  DEF RetryDeadLetters, CatalogInv, SearchTypeOK, IndexTypeOK, HistoryBounded,
      JobsHaveEvents, indexVars, outboxVars, gateVars

LEMMA ForgetDeletionTyped ==
  ASSUME CatalogInv, NEW i \in Indices, NEW p \in Products, ForgetDeletion(i, p)
  PROVE  CatalogInv'
BY AbsentTyped DEF ForgetDeletion, Forget,
         CatalogInv, SearchTypeOK, IndexTypeOK, HistoryBounded, JobsHaveEvents,
         indexVars, outboxVars, gateVars

LEMMA AdvanceTyped ==
  ASSUME rebuild \in [Rebuilds -> Build], NEW r \in Rebuilds, NEW at \in RebuildAt,
         Advance(r, at)
  PROVE  rebuild' \in [Rebuilds -> Build]
BY DEF Advance, Build

LEMMA AbandonTyped ==
  ASSUME CatalogInv, NEW r \in Rebuilds, Abandon(r),
         lateCutOver' \in SUBSET Rebuilds, faults' \in 0 .. MaxFaults
  PROVE  CatalogInv'
<1>1. rebuild' \in [Rebuilds -> Build]
  BY AdvanceTyped DEF Abandon, CatalogInv, SearchTypeOK, RebuildAt
<1> QED
  BY <1>1
  DEF Abandon, CatalogInv, SearchTypeOK, IndexTypeOK, HistoryBounded, JobsHaveEvents,
      indexVars, outboxVars, gateVars

LEMMA CloseGateTyped ==
  ASSUME CatalogInv, NEW r \in Rebuilds, CloseGate(r)
  PROVE  CatalogInv'
<1>1. rebuild' \in [Rebuilds -> Build]
  BY AdvanceTyped DEF CloseGate, CatalogInv, SearchTypeOK, RebuildAt
<1> QED
  BY <1>1
  DEF CloseGate, CatalogInv, SearchTypeOK, IndexTypeOK, HistoryBounded, JobsHaveEvents,
      indexVars, outboxVars, gateVars

LEMMA LockGateTyped ==
  ASSUME CatalogInv, NEW r \in Rebuilds, LockGate(r)
  PROVE  CatalogInv'
<1>1. rebuild' \in [Rebuilds -> Build]
  BY AdvanceTyped DEF LockGate, CatalogInv, SearchTypeOK, RebuildAt
<1> QED
  BY <1>1
  DEF LockGate, CatalogInv, SearchTypeOK, IndexTypeOK, HistoryBounded, JobsHaveEvents,
      indexVars, outboxVars, gateVars

LEMMA StartBuildTyped ==
  ASSUME CatalogInv, NEW r \in Rebuilds, StartBuild(r)
  PROVE  CatalogInv'
<1>1. CASE Owns(r) /\ Advance(r, "building")
            /\ UNCHANGED <<history, indexVars, outboxVars, worker, late, gateVars>>
  <2>1. rebuild' \in [Rebuilds -> Build]
    BY <1>1, AdvanceTyped DEF CatalogInv, SearchTypeOK, RebuildAt
  <2> QED
    BY <1>1, <2>1
    DEF StartBuild, CatalogInv, SearchTypeOK, IndexTypeOK, HistoryBounded,
        JobsHaveEvents, indexVars, outboxVars, gateVars
<1>2. CASE Abandon(r)
  BY <1>2, AbandonTyped DEF StartBuild, CatalogInv, SearchTypeOK
<1> QED
  BY <1>1, <1>2 DEF StartBuild

LEMMA VerifyIndexTyped ==
  ASSUME CatalogInv, NEW r \in Rebuilds, VerifyIndex(r)
  PROVE  CatalogInv'
<1>1. CASE Matches(r) /\ Advance(r, "verified")
            /\ UNCHANGED <<history, indexVars, outboxVars, worker, late, gateVars>>
  <2>1. rebuild' \in [Rebuilds -> Build]
    BY <1>1, AdvanceTyped DEF CatalogInv, SearchTypeOK, RebuildAt
  <2> QED
    BY <1>1, <2>1
    DEF VerifyIndex, CatalogInv, SearchTypeOK, IndexTypeOK, HistoryBounded,
        JobsHaveEvents, indexVars, outboxVars, gateVars
<1>2. CASE Abandon(r)
  BY <1>2, AbandonTyped DEF VerifyIndex, CatalogInv, SearchTypeOK
<1> QED
  BY <1>1, <1>2 DEF VerifyIndex

LEMMA SendCutOverTyped ==
  ASSUME CatalogInv, NEW r \in Rebuilds, SendCutOver(r)
  PROVE  CatalogInv'
<1>1. CASE Owns(r) /\ Advance(r, "switching")
            /\ UNCHANGED <<history, indexVars, outboxVars, worker, late, gateVars>>
  <2>1. rebuild' \in [Rebuilds -> Build]
    BY <1>1, AdvanceTyped DEF CatalogInv, SearchTypeOK, RebuildAt
  <2> QED
    BY <1>1, <2>1
    DEF SendCutOver, CatalogInv, SearchTypeOK, IndexTypeOK, HistoryBounded,
        JobsHaveEvents, indexVars, outboxVars, gateVars
<1>2. CASE Abandon(r)
  BY <1>2, AbandonTyped DEF SendCutOver, CatalogInv, SearchTypeOK
<1> QED
  BY <1>1, <1>2 DEF SendCutOver

LEMMA CutOverAnsweredTyped ==
  ASSUME CatalogInv, NEW r \in Rebuilds, CutOverAnswered(r)
  PROVE  CatalogInv'
<1>1. CASE CutOver(r, rebuild[r].read, rebuild[r].write) /\ Advance(r, "switched")
            /\ UNCHANGED <<history, outboxVars, worker, late, gateVars>>
  <2>1. rebuild' \in [Rebuilds -> Build]
    BY <1>1, AdvanceTyped DEF CatalogInv, SearchTypeOK, RebuildAt
  <2> QED
    BY <1>1, <2>1
    DEF CutOverAnswered, CutOver, Indices, CatalogInv, SearchTypeOK, IndexTypeOK,
        HistoryBounded, JobsHaveEvents, indexVars, outboxVars, gateVars
<1>2. CASE Abandon(r)
  BY <1>2, AbandonTyped DEF CutOverAnswered, CatalogInv, SearchTypeOK
<1> QED
  BY <1>1, <1>2 DEF CutOverAnswered

LEMMA GiveUpTyped ==
  ASSUME CatalogInv, NEW r \in Rebuilds, GiveUp(r)
  PROVE  CatalogInv'
<1>1. faults' \in 0 .. MaxFaults
  BY SearchAssumption DEF GiveUp, Fault, CatalogInv, SearchTypeOK
<1>2. lateCutOver' \in SUBSET Rebuilds
  BY DEF GiveUp, CatalogInv, SearchTypeOK
<1> QED
  BY <1>1, <1>2, AbandonTyped DEF GiveUp

LEMMA LateCutOverLandsTyped ==
  ASSUME CatalogInv, NEW r \in Rebuilds, LateCutOverLands(r)
  PROVE  CatalogInv'
BY DEF LateCutOverLands, CutOver, Indices, Advance, Abandon, Build, RebuildAt,
         CatalogInv, SearchTypeOK, IndexTypeOK, HistoryBounded, JobsHaveEvents,
         indexVars, outboxVars, gateVars

LEMMA LoseLockTyped ==
  ASSUME CatalogInv, NEW r \in Rebuilds, LoseLock(r)
  PROVE  CatalogInv'
BY SearchAssumption DEF LoseLock, Fault, Advance, Abandon, Build, RebuildAt,
         CatalogInv, SearchTypeOK, IndexTypeOK, HistoryBounded, JobsHaveEvents,
         indexVars, outboxVars, gateVars

LEMMA ReopenTyped ==
  ASSUME CatalogInv, NEW r \in Rebuilds, Reopen(r)
  PROVE  CatalogInv'
<1>1. CASE Advance(r, "reopened") /\ owner' = NoRebuild /\ exclusive' = NoRebuild
            /\ UNCHANGED <<history, indexVars, outboxVars, worker, late, shared>>
  <2>1. rebuild' \in [Rebuilds -> Build]
    BY <1>1, AdvanceTyped DEF CatalogInv, SearchTypeOK, RebuildAt
  <2> QED
    BY <1>1, <2>1
    DEF Reopen, CatalogInv, SearchTypeOK, IndexTypeOK, HistoryBounded, JobsHaveEvents,
        indexVars, outboxVars, gateVars
<1>2. CASE Abandon(r)
  BY <1>2, AbandonTyped DEF Reopen, CatalogInv, SearchTypeOK
<1> QED
  BY <1>1, <1>2 DEF Reopen

LEMMA AskAliasTyped ==
  ASSUME CatalogInv, NEW r \in Rebuilds, NEW alias \in {"read", "write"}, AskAlias(r, alias)
  PROVE  CatalogInv'
<1>1. rebuild[r] \in Build /\ rebuild \in [Rebuilds -> Build]
      /\ readAlias \in SUBSET Indices /\ writeAlias \in SUBSET Indices
  BY DEF CatalogInv, SearchTypeOK, IndexTypeOK
<1>2. [rebuild[r] EXCEPT
         !.asked = rebuild[r].asked \cup {alias},
         !.read  = IF alias = "read"  THEN readAlias  ELSE rebuild[r].read,
         !.write = IF alias = "write" THEN writeAlias ELSE rebuild[r].write] \in Build
  BY <1>1 DEF Build
<1>3. rebuild' \in [Rebuilds -> Build]
  BY <1>1, <1>2 DEF AskAlias
<1> QED
  BY <1>3
  DEF AskAlias, CatalogInv, SearchTypeOK, IndexTypeOK, HistoryBounded, JobsHaveEvents,
      indexVars, outboxVars, gateVars

LEMMA IndexBatchTyped ==
  ASSUME CatalogInv, NEW r \in Rebuilds, NEW p \in Products, IndexBatch(r, p)
  PROVE  CatalogInv'
<1>1. CASE Abandon(r)
  BY <1>1, AbandonTyped DEF IndexBatch, CatalogInv, SearchTypeOK
<1>2. CASE rebuild' = [rebuild EXCEPT ![r].todo = @ \ {p}]
           /\ index' = (IF Revision(p) > 0 /\ Searchable(Current(p))
                        THEN [index EXCEPT ![r][p] = CurrentEntry(p)] ELSE index)
           /\ UNCHANGED <<history, readAlias, writeAlias, outboxVars, worker, late,
                          gateVars>>
  <2>1. rebuild' \in [Rebuilds -> Build]
    <3>1. rebuild \in [Rebuilds -> Build]
      BY DEF CatalogInv, SearchTypeOK
    <3>2. [rebuild[r] EXCEPT !.todo = rebuild[r].todo \ {p}] \in Build
      BY <3>1 DEF Build
    <3> QED
      BY <1>2, <3>1, <3>2
  <2>2. CurrentEntry(p) \in Entry
    BY CurrentEntryTyped DEF CatalogInv, SearchTypeOK
  <2>3. IndexTypeOK'
    BY <1>2, <2>2 DEF CatalogInv, SearchTypeOK, IndexTypeOK, Indices
  <2> QED
    BY <1>2, <2>1, <2>3 DEF IndexBatch, CatalogInv, SearchTypeOK, HistoryBounded,
         JobsHaveEvents, outboxVars, gateVars
<1> QED
  BY <1>1, <1>2 DEF IndexBatch

LEMMA StepTyped ==
  ASSUME CatalogInv, [Next]_vars
  PROVE  CatalogInv'
<1>1. CASE EditorStep
  BY <1>1, BeginCommandTyped, RollBackCommandTyped, CommitCommandTyped DEF EditorStep
<1>2. ASSUME NEW w \in Workers, WorkerStep(w)
      PROVE  CatalogInv'
  <2>1. CASE MarkProcessed(w) \/ DeferForMaintenance(w) \/ MarkFailed(w)
    BY <2>1, ReleaseTyped
    DEF MarkProcessed, DeferForMaintenance, MarkFailed, OutboxStatus
  <2> QED
    BY <1>2, <2>1, ClaimTyped, AdmitTyped, ResolveTyped, ConfirmTyped, ReadTyped,
       WriteAnsweredTyped, VerifyTyped, EndProjectionTyped, RelinquishTyped DEF WorkerStep
<1>3. ASSUME NEW w \in Workers, WorkerFault(w)
      PROVE  CatalogInv'
  BY <1>3, WriteRefusedTyped, WriteTimesOutTyped, HeartbeatTyped, CrashWorkerTyped,
     LoseGateTyped DEF WorkerFault
<1>4. ASSUME NEW r \in Rebuilds, RebuildStep(r)
      PROVE  CatalogInv'
  BY <1>4, CloseGateTyped, LockGateTyped, AskAliasTyped, StartBuildTyped, IndexBatchTyped,
     VerifyIndexTyped, SendCutOverTyped, CutOverAnsweredTyped, GiveUpTyped,
     LateCutOverLandsTyped, LoseLockTyped, ReopenTyped DEF RebuildStep
<1>5. CASE UNCHANGED vars
  BY <1>5 DEF vars, CatalogInv, SearchTypeOK, IndexTypeOK, HistoryBounded, JobsHaveEvents,
         indexVars, outboxVars, gateVars
<1> QED
  BY <1>1, <1>2, <1>3, <1>4, <1>5, LateWriteLandsTyped, LeaseRunsOutTyped,
     RetryDeadLettersTyped, ForgetDeletionTyped DEF Next

LEMMA CatalogInvHolds == SearchSpec => []CatalogInv
<1>1. Init => CatalogInv
  BY InitTyped
<1>2. CatalogInv /\ [Next]_vars => CatalogInv'
  BY StepTyped
<1> QED
  BY <1>1, <1>2, PTL DEF SearchSpec

(* Every variable keeps its type: in particular no row is requeued, and no *)
(* document versioned, beyond what the row and the product allow.          *)
THEOREM SearchTypeCorrect == SearchSpec => []SearchTypeOK
BY CatalogInvHolds, PTL DEF CatalogInv
-----------------------------------------------------------------------------
(* The gate.  Whoever owns it got it while nobody held it FOR SHARE, and   *)
(* nobody is let in as long as it is owned.                                *)
GateInv == owner # NoRebuild => shared = {}

LEMMA GateInvStep ==
  ASSUME GateInv, [Next]_vars
  PROVE  GateInv'
<1>1. CASE EditorStep
  BY <1>1 DEF EditorStep, BeginCommand, RollBackCommand, CommitCommand, Writable, GateInv
<1>2. ASSUME NEW w \in Workers, WorkerStep(w)
      PROVE  GateInv'
  BY <1>2 DEF WorkerStep, Claim, Admit, Resolve, Confirm, Read, WriteAnswered, Verify,
              EndProjection, MarkProcessed, DeferForMaintenance, MarkFailed, Release,
              Relinquish, Writable, gateVars, GateInv
<1>3. ASSUME NEW w \in Workers, WorkerFault(w)
      PROVE  GateInv'
  BY <1>3 DEF WorkerFault, WriteRefused, WriteTimesOut, Heartbeat, CrashWorker, LoseGate,
              gateVars, GateInv
<1>4. ASSUME NEW r \in Rebuilds, RebuildStep(r)
      PROVE  GateInv'
  <2>1. CASE CloseGate(r) \/ LockGate(r) \/ LoseLock(r) \/ GiveUp(r) \/ LateCutOverLands(r)
    BY <2>1 DEF CloseGate, Lockable, LockGate, LoseLock, GiveUp, Abandon,
                LateCutOverLands, gateVars, GateInv
  <2>2. CASE StartBuild(r) \/ VerifyIndex(r) \/ SendCutOver(r) \/ CutOverAnswered(r) \/ Reopen(r)
    BY <2>2 DEF StartBuild, VerifyIndex, SendCutOver, CutOverAnswered, Reopen, Abandon,
                gateVars, GateInv
  <2>3. ASSUME NEW alias \in {"read", "write"}, AskAlias(r, alias)
        PROVE  GateInv'
    BY <2>3 DEF AskAlias, gateVars, GateInv
  <2>4. ASSUME NEW p \in Products, IndexBatch(r, p)
        PROVE  GateInv'
    BY <2>4 DEF IndexBatch, Abandon, gateVars, GateInv
  <2> QED
    BY <1>4, <2>1, <2>2, <2>3, <2>4 DEF RebuildStep
<1>5. CASE UNCHANGED vars
  BY <1>5 DEF vars, gateVars, GateInv
<1>6. ASSUME NEW write \in late, LateWriteLands(write)
      PROVE  GateInv'
  BY <1>6 DEF LateWriteLands, gateVars, GateInv
<1>7. ASSUME NEW e \in Events, LeaseRunsOut(e)
      PROVE  GateInv'
  BY <1>7 DEF LeaseRunsOut, gateVars, GateInv
<1>8. ASSUME NEW chosen \in SUBSET Events, RetryDeadLetters(chosen)
      PROVE  GateInv'
  BY <1>8 DEF RetryDeadLetters, gateVars, GateInv
<1>9. ASSUME NEW i \in Indices, NEW p \in Products, ForgetDeletion(i, p)
      PROVE  GateInv'
  BY <1>9 DEF ForgetDeletion, gateVars, GateInv
<1> QED
  BY <1>1, <1>2, <1>3, <1>4, <1>5, <1>6, <1>7, <1>8, <1>9 DEF Next

(* What a step does to the catalog, the rows of the outbox and the claims  *)
(* on them: a command, a claim, the release of a row, a requeue, or        *)
(* nothing but that claims are dropped and leases run out.                 *)
RowsKept ==
  /\ UNCHANGED <<history, status, attempts, lease, requeues>>
  /\ \A w \in Workers :
       ~At(w, "idle")' => /\ ~At(w, "idle")
                          /\ worker'[w].event = worker[w].event
                          /\ worker'[w].tries = worker[w].tries

ReleaseStep(w) == MarkProcessed(w) \/ DeferForMaintenance(w) \/ MarkFailed(w)

LEMMA JobKept ==
  ASSUME CatalogInv, NEW w \in Workers,
         \/ UNCHANGED worker
         \/ worker' = [worker EXCEPT ![w].owns = FALSE]
         \/ worker' = [worker EXCEPT ![w] = Resting]
         \/ /\ ~At(w, "idle")
            /\ \E at \in WorkerAt : Move(w, at)
         \/ /\ ~At(w, "idle")
            /\ \E i : worker' = [worker EXCEPT ![w].at = "pinned", ![w].target = i]
         \/ /\ ~At(w, "idle")
            /\ \E entry : worker' = [worker EXCEPT ![w].at = "sent", ![w].entry = entry],
         UNCHANGED <<history, status, attempts, lease, requeues>>
  PROVE  RowsKept
<1>1. worker \in [Workers -> Job]
  BY DEF CatalogInv, SearchTypeOK
<1>2. CASE worker' = [worker EXCEPT ![w] = Resting]
  BY <1>1, <1>2 DEF RowsKept, At, Resting
<1>3. CASE worker' = [worker EXCEPT ![w].owns = FALSE]
  BY <1>1, <1>3 DEF RowsKept, At, Job
<1>4. ASSUME ~At(w, "idle"), NEW at \in WorkerAt, Move(w, at)
      PROVE  RowsKept
  <2>1. \A v \in Workers : v # w => worker'[v] = worker[v]
    BY <1>1, <1>4 DEF Move
  <2>2. worker'[w] = [worker[w] EXCEPT !.at = at]
    BY <1>1, <1>4 DEF Move
  <2>3. worker'[w].event = worker[w].event /\ worker'[w].tries = worker[w].tries
    BY <1>1, <2>2 DEF Job
  <2>4. worker[w].at # "idle"
    BY <1>4 DEF At
  <2> QED
    BY <2>1, <2>3, <2>4 DEF RowsKept, At
<1>5. ASSUME ~At(w, "idle"), NEW i,
             worker' = [worker EXCEPT ![w].at = "pinned", ![w].target = i]
      PROVE  RowsKept
  <2>1. \A v \in Workers : v # w => worker'[v] = worker[v]
    BY <1>1, <1>5
  <2>2. worker'[w] = [worker[w] EXCEPT !.at = "pinned", !.target = i]
    BY <1>1, <1>5
  <2>3. worker'[w].event = worker[w].event /\ worker'[w].tries = worker[w].tries
    BY <1>1, <2>2 DEF Job
  <2>4. worker[w].at # "idle"
    BY <1>5 DEF At
  <2> QED
    BY <2>1, <2>3, <2>4 DEF RowsKept, At
<1>6. ASSUME ~At(w, "idle"), NEW entry,
             worker' = [worker EXCEPT ![w].at = "sent", ![w].entry = entry]
      PROVE  RowsKept
  <2>1. \A v \in Workers : v # w => worker'[v] = worker[v]
    BY <1>1, <1>6
  <2>2. worker'[w] = [worker[w] EXCEPT !.at = "sent", !.entry = entry]
    BY <1>1, <1>6
  <2>3. worker'[w].event = worker[w].event /\ worker'[w].tries = worker[w].tries
    BY <1>1, <2>2 DEF Job
  <2>4. worker[w].at # "idle"
    BY <1>6 DEF At
  <2> QED
    BY <2>1, <2>3, <2>4 DEF RowsKept, At
<1>7. CASE UNCHANGED worker
  BY <1>7 DEF RowsKept, At
<1> QED
  BY <1>2, <1>3, <1>4, <1>5, <1>6, <1>7

LEMMA RowSteps ==
  ASSUME CatalogInv, [Next]_vars
  PROVE  \/ RowsKept
         \/ \E c \in Editors, p \in Products : CommitCommand(c, p)
         \/ \E w \in Workers, e \in Events : Claim(w, e)
         \/ \E w \in Workers : ReleaseStep(w)
         \/ \E chosen \in SUBSET Events : RetryDeadLetters(chosen)
<1> USE DEF outboxVars
<1>0. ASSUME UNCHANGED <<history, status, attempts, lease, requeues, worker>>
      PROVE  RowsKept
  BY <1>0 DEF RowsKept, At
<1>1. ASSUME NEW c \in Editors, BeginCommand(c) \/ RollBackCommand(c)
      PROVE  RowsKept
  BY <1>0, <1>1 DEF BeginCommand, RollBackCommand
<1>2. ASSUME NEW w \in Workers,
             \/ Admit(w) \/ Confirm(w) \/ WriteAnswered(w) \/ Verify(w) \/ EndProjection(w)
             \/ WriteRefused(w) \/ WriteTimesOut(w)
      PROVE  RowsKept
  <2>1. UNCHANGED <<history, status, attempts, lease, requeues>>
    BY <1>2 DEF Admit, Confirm, WriteAnswered, Verify, EndProjection, WriteRefused,
                WriteTimesOut
  <2>2. ~At(w, "idle") /\ \E at \in WorkerAt : Move(w, at)
    BY <1>2 DEF Admit, Confirm, WriteAnswered, Verify, EndProjection, WriteRefused,
                WriteTimesOut, At, WorkerAt
  <2> QED
    BY <2>1, <2>2, JobKept
<1>3. ASSUME NEW w \in Workers, Resolve(w)
      PROVE  RowsKept
  <2>1. UNCHANGED <<history, status, attempts, lease, requeues>> /\ ~At(w, "idle")
    BY <1>3 DEF Resolve, At
  <2>2. \/ Move(w, "failed")
        \/ \E i : worker' = [worker EXCEPT ![w].at = "pinned", ![w].target = i]
    BY <1>3 DEF Resolve
  <2> QED
    BY <2>1, <2>2, JobKept DEF WorkerAt
<1>4. ASSUME NEW w \in Workers, Read(w)
      PROVE  RowsKept
  <2>1. UNCHANGED <<history, status, attempts, lease, requeues>> /\ ~At(w, "idle")
    BY <1>4 DEF Read, At
  <2>2. \E entry : worker' = [worker EXCEPT ![w].at = "sent", ![w].entry = entry]
    BY <1>4 DEF Read
  <2> QED
    BY <2>1, <2>2, JobKept
<1>5. ASSUME NEW w \in Workers, Relinquish(w) \/ Heartbeat(w) \/ CrashWorker(w) \/ LoseGate(w)
      PROVE  RowsKept
  BY <1>5, JobKept DEF Relinquish, Heartbeat, CrashWorker, LoseGate
<1>6. ASSUME NEW r \in Rebuilds, RebuildStep(r)
      PROVE  RowsKept
  <2>1. CASE CloseGate(r) \/ LockGate(r) \/ LoseLock(r) \/ GiveUp(r) \/ LateCutOverLands(r)
    BY <1>0, <2>1 DEF CloseGate, LockGate, LoseLock, GiveUp, Abandon, LateCutOverLands
  <2>2. CASE StartBuild(r) \/ VerifyIndex(r) \/ SendCutOver(r) \/ CutOverAnswered(r) \/ Reopen(r)
    BY <1>0, <2>2
    DEF StartBuild, VerifyIndex, SendCutOver, CutOverAnswered, Reopen, Abandon
  <2>3. ASSUME NEW alias \in {"read", "write"}, AskAlias(r, alias)
        PROVE  RowsKept
    BY <1>0, <2>3 DEF AskAlias
  <2>4. ASSUME NEW p \in Products, IndexBatch(r, p)
        PROVE  RowsKept
    BY <1>0, <2>4 DEF IndexBatch, Abandon
  <2> QED
    BY <1>6, <2>1, <2>2, <2>3, <2>4 DEF RebuildStep
<1>7. ASSUME NEW write \in late, LateWriteLands(write)
      PROVE  RowsKept
  BY <1>0, <1>7 DEF LateWriteLands
<1>8. ASSUME NEW e \in Events, LeaseRunsOut(e)
      PROVE  RowsKept
  BY <1>0, <1>8 DEF LeaseRunsOut
<1>9. ASSUME NEW i \in Indices, NEW p \in Products, ForgetDeletion(i, p)
      PROVE  RowsKept
  BY <1>0, <1>9 DEF ForgetDeletion
<1>10. CASE UNCHANGED vars
  BY <1>0, <1>10 DEF vars
<1> QED
  BY <1>1, <1>2, <1>3, <1>4, <1>5, <1>6, <1>7, <1>8, <1>9, <1>10
  DEF Next, EditorStep, WorkerStep, WorkerFault, ReleaseStep

-----------------------------------------------------------------------------
(* Outcomes.  There is one row for each revision that exists, so a command *)
(* never meets a row that has had its outcome.                             *)
RowsFollowHistory == \A e \in Events : e[2] > Len(history[e[1]]) => status[e] = "NONE"

LEMMA CommitSteps ==
  ASSUME CatalogInv, NEW c \in Editors, NEW p \in Products, CommitCommand(c, p)
  PROVE  /\ <<p, Revision(p) + 1>> \in Events
         /\ Len(history'[p]) = Revision(p) + 1
         /\ \A q \in Products \ {p} : history'[q] = history[q]
         /\ status' = [status EXCEPT ![<<p, Revision(p) + 1>>] = "PENDING"]
         /\ UNCHANGED <<attempts, lease, requeues, worker>>
BY CommandTyped DEF CommitCommand, Events

LEMMA ReleaseSteps ==
  ASSUME CatalogInv, NEW w \in Workers, ReleaseStep(w)
  PROVE  /\ ~At(w, "idle")
         /\ UNCHANGED <<history, requeues>>
         /\ worker' = [worker EXCEPT ![w] = Resting]
         /\ \/ UNCHANGED <<status, attempts, lease>>
            \/ \E s \in OutboxStatus, n \in {0, 1} :
                 /\ Holds(w)
                 /\ n = 0 => s \in {"PENDING", "PROCESSED"}
                 /\ n = 1 => s = IF Exhausted(w) THEN "DEAD_LETTER" ELSE "PENDING"
                 /\ status' = [status EXCEPT ![worker[w].event] = s]
                 /\ attempts' = [attempts EXCEPT ![worker[w].event] = @ + n]
                 /\ lease' = [lease EXCEPT ![worker[w].event] = NoWorker]
BY DEF ReleaseStep, MarkProcessed, DeferForMaintenance, MarkFailed, Release, At,
    OutboxStatus

LEMMA RowsFollowStep ==
  ASSUME CatalogInv, RowsFollowHistory, [Next]_vars
  PROVE  RowsFollowHistory'
<1>1. CASE RowsKept
  BY <1>1 DEF RowsKept, RowsFollowHistory
<1>2. ASSUME NEW c \in Editors, NEW p \in Products, CommitCommand(c, p)
      PROVE  RowsFollowHistory'
  <2>1. SUFFICES ASSUME NEW e \in Events, e[2] > Len(history'[e[1]])
                 PROVE  status'[e] = "NONE"
    BY DEF RowsFollowHistory
  <2>2. e \in Products \X (1 .. MaxRevision) /\ e[1] \in Products /\ e[2] \in Int
    BY CatalogAssumption DEF Events
  <2>3. status \in [Events -> {"NONE"} \cup OutboxStatus] /\ Revision(p) \in Nat
    BY DEF CatalogInv, SearchTypeOK, Revision
  <2>4. CASE e[1] = p
    <3>1. e[2] > Revision(p) + 1
      BY <1>2, <2>1, <2>4, CommitSteps
    <3>2. e # <<p, Revision(p) + 1>>
      BY <2>3, <3>1
    <3>3. status[e] = "NONE"
      BY <2>2, <2>3, <2>4, <3>1 DEF RowsFollowHistory, Revision
    <3> QED
      BY <1>2, <2>3, <3>2, <3>3, CommitSteps
  <2>5. CASE e[1] # p
    <3>1. e # <<p, Revision(p) + 1>>
      BY <2>5
    <3>2. history'[e[1]] = history[e[1]]
      BY <1>2, <2>2, <2>5, CommitSteps
    <3> QED
      BY <1>2, <2>1, <2>3, <3>1, <3>2, CommitSteps DEF RowsFollowHistory
  <2> QED
    BY <2>4, <2>5
<1>3. ASSUME NEW w \in Workers, NEW e \in Events, Claim(w, e)
      PROVE  RowsFollowHistory'
  BY <1>3 DEF Claim, Claimable, RowsFollowHistory, CatalogInv, SearchTypeOK
<1>4. ASSUME NEW w \in Workers, ReleaseStep(w)
      PROVE  RowsFollowHistory'
  <2>1. /\ status \in [Events -> {"NONE"} \cup OutboxStatus]
        /\ worker[w].event \in Events
    BY <1>4, ReleaseSteps, EventTyped DEF CatalogInv, SearchTypeOK
  <2>2. \A e \in Events : status'[e] = status[e] \/ status[e] = "PROCESSING"
    BY <1>4, <2>1, ReleaseSteps DEF Holds
  <2> QED
    BY <1>4, <2>2, ReleaseSteps DEF RowsFollowHistory
<1>5. ASSUME NEW chosen \in SUBSET Events, RetryDeadLetters(chosen)
      PROVE  RowsFollowHistory'
  BY <1>5 DEF RetryDeadLetters, RowsFollowHistory
<1> QED
  BY <1>1, <1>2, <1>3, <1>4, <1>5, RowSteps

LEMMA OutcomeStep ==
  ASSUME CatalogInv, RowsFollowHistory, [Next]_vars, NEW e \in Events
  PROVE  /\ status[e] = "PROCESSED" => status'[e] = "PROCESSED"
         /\ status[e] = "DEAD_LETTER" /\ status'[e] # "DEAD_LETTER"
              => requeues'[e] = requeues[e] + 1
<1> DEFINE Stays == /\ status[e] = "PROCESSED" => status'[e] = "PROCESSED"
                    /\ status[e] = "DEAD_LETTER" /\ status'[e] # "DEAD_LETTER"
                         => requeues'[e] = requeues[e] + 1
<1>0. status \in [Events -> {"NONE"} \cup OutboxStatus]
  BY DEF CatalogInv, SearchTypeOK
<1>1. CASE RowsKept
  BY <1>1 DEF RowsKept
<1>2. ASSUME NEW c \in Editors, NEW p \in Products, CommitCommand(c, p)
      PROVE  Stays
  <2>1. status[<<p, Revision(p) + 1>>] = "NONE"
    <3>1. <<p, Revision(p) + 1>> \in Events /\ Revision(p) \in Nat
      BY <1>2, CommitSteps DEF CatalogInv, SearchTypeOK, Revision
    <3> QED
      BY <3>1 DEF RowsFollowHistory, Revision
  <2> QED
    BY <1>0, <1>2, <2>1, CommitSteps
<1>3. ASSUME NEW w \in Workers, NEW f \in Events, Claim(w, f)
      PROVE  Stays
  BY <1>0, <1>3 DEF Claim, Claimable
<1>4. ASSUME NEW w \in Workers, ReleaseStep(w)
      PROVE  Stays
  BY <1>0, <1>4, ReleaseSteps DEF Holds
<1>5. ASSUME NEW chosen \in SUBSET Events, RetryDeadLetters(chosen)
      PROVE  Stays
  BY <1>0, <1>5 DEF RetryDeadLetters
<1> QED
  BY <1>1, <1>2, <1>3, <1>4, <1>5, RowSteps

-----------------------------------------------------------------------------
(* Attempts.  The failure that exhausts a row is judged by the count its   *)
(* worker saw when it claimed the row, so that count must still be the     *)
(* count of the row as long as the lease holds.                            *)
RowBudget(e) ==
  /\ status[e] = "NONE" => attempts[e] = 0
  /\ status[e] # "NONE" /\ status[e] # "DEAD_LETTER"
       => attempts[e] < MaxAttempts + requeues[e]
  /\ status[e] = "DEAD_LETTER"
       => MaxAttempts <= attempts[e] /\ attempts[e] <= MaxAttempts + requeues[e]

HolderCounts ==
  \A w \in Workers : ~At(w, "idle") /\ Holds(w)
                       => worker[w].tries = attempts[worker[w].event]

BudgetInv == (\A e \in Events : RowBudget(e)) /\ HolderCounts

LEMMA RowTyped ==
  ASSUME CatalogInv
  PROVE  /\ status \in [Events -> {"NONE"} \cup OutboxStatus]
         /\ attempts \in [Events -> Nat]
         /\ lease \in [Events -> Workers \cup {NoWorker}]
         /\ requeues \in [Events -> Nat]
         /\ worker \in [Workers -> Job]
         /\ MaxAttempts \in Nat /\ MaxAttempts > 0 /\ NoWorker \notin Workers
BY SearchAssumption DEF CatalogInv, SearchTypeOK

LEMMA BudgetInvStep ==
  ASSUME CatalogInv, RowsFollowHistory, BudgetInv, [Next]_vars
  PROVE  BudgetInv'
<1>1. CASE RowsKept
  <2>1. \A e \in Events : RowBudget(e)'
    BY <1>1 DEF RowsKept, BudgetInv, RowBudget
  <2>2. HolderCounts'
    BY <1>1 DEF RowsKept, BudgetInv, HolderCounts, Holds
  <2> QED
    BY <2>1, <2>2 DEF BudgetInv
<1>2. ASSUME NEW c \in Editors, NEW p \in Products, CommitCommand(c, p)
      PROVE  BudgetInv'
  <2> DEFINE new == <<p, Revision(p) + 1>>
  <2>1. new \in Events /\ status[new] = "NONE"
    <3>1. new \in Events /\ Revision(p) \in Nat
      BY <1>2, CommitSteps DEF CatalogInv, SearchTypeOK, Revision
    <3> QED
      BY <3>1 DEF RowsFollowHistory, Revision
  <2>2. /\ status' = [status EXCEPT ![new] = "PENDING"]
        /\ UNCHANGED <<attempts, lease, requeues, worker>>
    BY <1>2, CommitSteps
  <2> HIDE DEF new
  <2>3. \A e \in Events : RowBudget(e)'
    BY <2>1, <2>2, RowTyped DEF BudgetInv, RowBudget
  <2>4. HolderCounts'
    BY <2>1, <2>2, RowTyped DEF BudgetInv, HolderCounts, Holds, At
  <2> QED
    BY <2>3, <2>4 DEF BudgetInv
<1>3. ASSUME NEW w \in Workers, NEW e \in Events, Claim(w, e)
      PROVE  BudgetInv'
  <2>1. /\ At(w, "idle") /\ Claimable(e)
        /\ status' = [status EXCEPT ![e] = "PROCESSING"]
        /\ lease' = [lease EXCEPT ![e] = w]
        /\ UNCHANGED <<attempts, requeues>>
    BY <1>3 DEF Claim
  <2>2. /\ worker'[w].event = e /\ worker'[w].tries = attempts[e]
        /\ \A v \in Workers : v # w => worker'[v] = worker[v]
    BY <1>3, RowTyped DEF Claim, Resting
  <2>3. \A f \in Events : RowBudget(f)'
    BY <2>1, RowTyped DEF BudgetInv, RowBudget, Claimable
  <2>4. HolderCounts'
    <3>1. SUFFICES ASSUME NEW v \in Workers, ~At(v, "idle")', Holds(v)'
                   PROVE  worker'[v].tries = attempts'[worker'[v].event]
      BY DEF HolderCounts
    <3>2. CASE v = w
      BY <2>1, <2>2, <3>2
    <3>3. CASE v # w
      <4>1. worker'[v] = worker[v] /\ ~At(v, "idle")
        BY <2>2, <3>1, <3>3 DEF At
      <4>2. worker[v].event # e
        BY <2>1, <3>1, <3>3, <4>1, RowTyped DEF Holds
      <4>3. Holds(v)
        BY <2>1, <3>1, <4>1, <4>2, RowTyped DEF Holds
      <4> QED
        BY <2>1, <4>1, <4>3 DEF BudgetInv, HolderCounts
    <3> QED
      BY <3>2, <3>3
  <2> QED
    BY <2>3, <2>4 DEF BudgetInv
<1>4. ASSUME NEW w \in Workers, ReleaseStep(w)
      PROVE  BudgetInv'
  <2>1. /\ ~At(w, "idle") /\ UNCHANGED <<history, requeues>>
        /\ worker'[w].at = "idle"
        /\ \A v \in Workers : v # w => worker'[v] = worker[v]
    BY <1>4, ReleaseSteps, RowTyped DEF Resting
  <2>2. CASE UNCHANGED <<status, attempts, lease>>
    <3>1. \A f \in Events : RowBudget(f)'
      BY <2>1, <2>2 DEF BudgetInv, RowBudget
    <3>2. HolderCounts'
      BY <2>1, <2>2 DEF BudgetInv, HolderCounts, Holds, At
    <3> QED
      BY <3>1, <3>2 DEF BudgetInv
  <2>3. ASSUME NEW s \in OutboxStatus, NEW n \in {0, 1}, Holds(w),
               n = 0 => s \in {"PENDING", "PROCESSED"},
               n = 1 => s = IF Exhausted(w) THEN "DEAD_LETTER" ELSE "PENDING",
               status' = [status EXCEPT ![worker[w].event] = s],
               attempts' = [attempts EXCEPT ![worker[w].event] = @ + n],
               lease' = [lease EXCEPT ![worker[w].event] = NoWorker]
        PROVE  BudgetInv'
    <3>1. PICK e \in Events : e = worker[w].event /\ status[e] = "PROCESSING" /\ lease[e] = w
      BY <2>1, <2>3, EventTyped DEF Holds
    <3>2. worker[w].tries = attempts[e]
      BY <2>1, <2>3, <3>1 DEF BudgetInv, HolderCounts
    <3>3. attempts[e] < MaxAttempts + requeues[e]
      BY <3>1 DEF BudgetInv, RowBudget
    <3>4. RowBudget(e)'
      <4>1. /\ attempts'[e] = attempts[e] + n /\ status'[e] = s /\ requeues'[e] = requeues[e]
            /\ attempts[e] \in Nat /\ requeues[e] \in Nat
        BY <2>1, <2>3, <3>1, RowTyped
      <4>2. CASE n = 0
        BY <2>3, <3>3, <4>1, <4>2 DEF RowBudget
      <4>3. CASE n = 1
        BY <2>3, <3>2, <3>3, <4>1, <4>3, RowTyped DEF RowBudget, Exhausted
      <4> QED
        BY <4>2, <4>3
    <3>5. ASSUME NEW f \in Events, f # e
          PROVE  RowBudget(f)'
      <4>1. status'[f] = status[f] /\ attempts'[f] = attempts[f] /\ requeues'[f] = requeues[f]
        BY <2>1, <2>3, <3>1, <3>5, RowTyped
      <4> QED
        BY <4>1 DEF BudgetInv, RowBudget
    <3>6. HolderCounts'
      <4>1. SUFFICES ASSUME NEW v \in Workers, ~At(v, "idle")', Holds(v)'
                     PROVE  worker'[v].tries = attempts'[worker'[v].event]
        BY DEF HolderCounts
      <4>2. v # w /\ worker'[v] = worker[v] /\ ~At(v, "idle")
        BY <2>1, <4>1 DEF At
      <4>3. worker[v].event \in Events
        BY <4>2, EventTyped
      <4>4. worker[v].event # e
        BY <2>3, <3>1, <4>1, <4>2, RowTyped DEF Holds
      <4>5. Holds(v) /\ attempts'[worker[v].event] = attempts[worker[v].event]
        BY <2>3, <3>1, <4>1, <4>2, <4>3, <4>4, RowTyped DEF Holds
      <4> QED
        BY <4>2, <4>5 DEF BudgetInv, HolderCounts
    <3> QED
      BY <3>4, <3>5, <3>6 DEF BudgetInv
  <2> QED
    BY <1>4, <2>2, <2>3, ReleaseSteps
<1>5. ASSUME NEW chosen \in SUBSET Events, RetryDeadLetters(chosen)
      PROVE  BudgetInv'
  <2>1. \A e \in Events : RowBudget(e)'
    BY <1>5, RowTyped DEF RetryDeadLetters, BudgetInv, RowBudget
  <2>2. HolderCounts'
    <3>1. SUFFICES ASSUME NEW v \in Workers, ~At(v, "idle")', Holds(v)'
                   PROVE  worker'[v].tries = attempts'[worker'[v].event]
      BY DEF HolderCounts
    <3>2. worker' = worker /\ attempts' = attempts
      BY <1>5 DEF RetryDeadLetters
    <3>3. ~At(v, "idle") /\ worker[v].event \in Events
      BY <3>1, <3>2, EventTyped DEF At
    <3>4. Holds(v)
      BY <1>5, <3>1, <3>2, <3>3 DEF RetryDeadLetters, Holds
    <3> QED
      BY <3>2, <3>3, <3>4 DEF BudgetInv, HolderCounts
  <2> QED
    BY <2>1, <2>2 DEF BudgetInv
<1> QED
  BY <1>1, <1>2, <1>3, <1>4, <1>5, RowSteps

LEMMA BudgetInvKept ==
  ASSUME CatalogInv, BudgetInv
  PROVE  AttemptsWithinBudget
BY RowTyped DEF BudgetInv, RowBudget, AttemptsWithinBudget

-----------------------------------------------------------------------------
(* The invariant of the whole, and the theorems. *)
SearchInv == CatalogInv /\ GateInv /\ RowsFollowHistory /\ BudgetInv

LEMMA SearchInvInit ==
  ASSUME Init
  PROVE  SearchInv
<1>1. CatalogInv
  BY InitTyped
<1>2. GateInv
  BY DEF Init, GateInv
<1>3. RowsFollowHistory
  BY DEF Init, Served, Unserved, RowsFollowHistory
<1>4. BudgetInv
  <2>1. \A e \in Events : attempts[e] = 0 /\ requeues[e] = 0 /\ status[e] # "DEAD_LETTER"
    BY DEF Init, Served, Unserved
  <2>2. \A e \in Events : RowBudget(e)
    BY <2>1, SearchAssumption DEF RowBudget
  <2>3. HolderCounts
    BY DEF Init, HolderCounts, At, Resting
  <2> QED
    BY <2>2, <2>3 DEF BudgetInv
<1> QED
  BY <1>1, <1>2, <1>3, <1>4 DEF SearchInv

LEMMA SearchInvHolds == SearchSpec => []SearchInv
<1>1. Init => SearchInv
  BY SearchInvInit
<1>2. SearchInv /\ [Next]_vars => SearchInv'
  BY StepTyped, GateInvStep, RowsFollowStep, BudgetInvStep DEF SearchInv
<1> QED
  BY <1>1, <1>2, PTL DEF SearchSpec

(* No row is tried more than MAX_ATTEMPTS times, and once more for each    *)
(* requeue, whichever relays lose their lease over it: no count is lost or *)
(* added by a worker whose claim another one took over.                    *)
THEOREM AttemptsStayWithinBudget == SearchSpec => []AttemptsWithinBudget
<1>1. SearchInv => AttemptsWithinBudget
  BY BudgetInvKept DEF SearchInv
<1> QED
  BY <1>1, SearchInvHolds, PTL

(* A row that is PROCESSED stays so whatever a late relay does, and a dead *)
(* letter comes back only by a requeue.                                    *)
THEOREM OutcomesAreFinal == SearchSpec => OutcomesStay
<1>1. SearchInv /\ [Next]_vars
        => [\A e \in Events :
              /\ status[e] = "PROCESSED" => status'[e] = "PROCESSED"
              /\ status[e] = "DEAD_LETTER" /\ status'[e] # "DEAD_LETTER"
                   => requeues'[e] = requeues[e] + 1]_vars
  BY OutcomeStep DEF SearchInv
<1> QED
  BY <1>1, SearchInvHolds, PTL DEF SearchSpec, OutcomesStay

(* While a rebuild owns the gate no command commits: a command that began  *)
(* before would still hold the gate FOR SHARE, and none can begin.         *)
THEOREM CatalogStandsStill == SearchSpec => CatalogStillWhileOwned
<1>1. SearchInv /\ [Next]_vars => [owner # NoRebuild => UNCHANGED history]_vars
  <2>1. ASSUME SearchInv, [Next]_vars, owner # NoRebuild
        PROVE  UNCHANGED history
    <3>1. shared = {}
      BY <2>1 DEF SearchInv, GateInv
    <3>2. \A c \in Editors, p \in Products : ~CommitCommand(c, p)
      BY <3>1 DEF CommitCommand
    <3> QED
      BY <2>1, <3>2, RowSteps
      DEF SearchInv, RowsKept, Claim, ReleaseStep, MarkProcessed, DeferForMaintenance,
          MarkFailed, Release, RetryDeadLetters
  <2> QED
    BY <2>1
<1> QED
  BY <1>1, SearchInvHolds, PTL DEF SearchSpec, CatalogStillWhileOwned

-----------------------------------------------------------------------------
(* The aliases.  What a relay, a late write or the clock does never        *)
(* touches them, nor the rebuilds and the gate, and it writes only to an   *)
(* index that some relay pinned; a relay pins what the write alias names.  *)
TargetsKept ==
  /\ \A w \in Workers : worker'[w].target \in {FirstIndex, worker[w].target} \cup writeAlias
  /\ \A x \in late' : x \in late \/ \E w \in Workers : x.target = worker[w].target

Pinned(i) == (\E w \in Workers : worker[w].target = i) \/ (\E x \in late : x.target = i)

OnlyPinnedChange ==
  \A i \in Indices, p \in Products : Shown(i, p)' = Shown(i, p) \/ Pinned(i)

RelayOnly ==
  /\ UNCHANGED <<history, readAlias, writeAlias, owner, exclusive, rebuild, lateCutOver>>
  /\ TargetsKept
  /\ OnlyPinnedChange

LEMMA TargetsStay ==
  ASSUME CatalogInv, NEW w \in Workers,
         \/ UNCHANGED worker
         \/ worker' = [worker EXCEPT ![w].owns = FALSE]
         \/ worker' = [worker EXCEPT ![w] = Resting]
         \/ \E at \in WorkerAt : Move(w, at)
         \/ \E i \in writeAlias : worker' = [worker EXCEPT ![w].at = "pinned", ![w].target = i]
         \/ \E entry : worker' = [worker EXCEPT ![w].at = "sent", ![w].entry = entry]
  PROVE  \A v \in Workers : worker'[v].target \in {FirstIndex, worker[v].target} \cup writeAlias
<1>1. worker \in [Workers -> Job]
  BY DEF CatalogInv, SearchTypeOK
<1>2. CASE UNCHANGED worker
  BY <1>2
<1>3. CASE worker' = [worker EXCEPT ![w] = Resting]
  BY <1>1, <1>3 DEF Resting
<1>4. CASE worker' = [worker EXCEPT ![w].owns = FALSE]
  BY <1>1, <1>4 DEF Job
<1>5. ASSUME NEW job, worker' = [worker EXCEPT ![w] = job],
             job.target \in {worker[w].target} \cup writeAlias
      PROVE  \A v \in Workers : worker'[v].target \in {worker[v].target} \cup writeAlias
  BY <1>1, <1>5
<1>6. ASSUME NEW at \in WorkerAt, Move(w, at)
      PROVE  \A v \in Workers : worker'[v].target \in {worker[v].target} \cup writeAlias
  <2>1. worker' = [worker EXCEPT ![w] = [worker[w] EXCEPT !.at = at]]
    BY <1>6 DEF Move
  <2>2. [worker[w] EXCEPT !.at = at].target = worker[w].target
    BY <1>1 DEF Job
  <2> QED
    BY <1>5, <2>1, <2>2
<1>7. ASSUME NEW i \in writeAlias,
             worker' = [worker EXCEPT ![w].at = "pinned", ![w].target = i]
      PROVE  \A v \in Workers : worker'[v].target \in {worker[v].target} \cup writeAlias
  <2>1. worker' = [worker EXCEPT ![w] = [worker[w] EXCEPT !.at = "pinned", !.target = i]]
    BY <1>1, <1>7
  <2>2. [worker[w] EXCEPT !.at = "pinned", !.target = i].target = i
    BY <1>1 DEF Job
  <2> QED
    BY <1>5, <2>1, <2>2
<1>8. ASSUME NEW entry, worker' = [worker EXCEPT ![w].at = "sent", ![w].entry = entry]
      PROVE  \A v \in Workers : worker'[v].target \in {worker[v].target} \cup writeAlias
  <2>1. worker' = [worker EXCEPT ![w] = [worker[w] EXCEPT !.at = "sent", !.entry = entry]]
    BY <1>1, <1>8
  <2>2. [worker[w] EXCEPT !.at = "sent", !.entry = entry].target = worker[w].target
    BY <1>1 DEF Job
  <2> QED
    BY <1>5, <2>1, <2>2
<1> QED
  BY <1>2, <1>3, <1>4, <1>6, <1>7, <1>8

LEMMA PutShows ==
  ASSUME CatalogInv, NEW i \in Indices, NEW p \in Products, NEW entry \in Entry,
         Put(i, p, entry)
  PROVE  /\ \A j \in Indices, q \in Products :
              <<j, q>> # <<i, p>> => index'[j][q] = index[j][q]
         /\ index'[i][p] = entry
         /\ UNCHANGED <<readAlias, writeAlias>>
<1>1. index \in [Indices -> [Products -> Entry]]
  BY DEF CatalogInv, SearchTypeOK, IndexTypeOK
<1>2. index' = [index EXCEPT ![i][p] = entry] /\ UNCHANGED <<readAlias, writeAlias>>
  BY DEF Put
<1>3. ASSUME NEW j \in Indices, NEW q \in Products, <<j, q>> # <<i, p>>
      PROVE  index'[j][q] = index[j][q]
  <2>1. CASE j # i
    BY <1>1, <1>2, <2>1
  <2>2. CASE j = i /\ q # p
    BY <1>1, <1>2, <2>2
  <2> QED
    BY <1>3, <2>1, <2>2
<1> QED
  BY <1>1, <1>2, <1>3

LEMMA RelaySteps ==
  ASSUME CatalogInv, [Next]_vars
  PROVE  \/ RelayOnly
         \/ \E c \in Editors, p \in Products : CommitCommand(c, p)
         \/ \E r \in Rebuilds : RebuildStep(r)
<1> USE DEF outboxVars, gateVars, indexVars
<1>0. ASSUME UNCHANGED <<history, index, readAlias, writeAlias, owner, exclusive, rebuild,
                         lateCutOver, worker, late>>
      PROVE  RelayOnly
  BY <1>0 DEF RelayOnly, TargetsKept, OnlyPinnedChange, Shown
<1>1. ASSUME NEW w \in Workers,
             UNCHANGED <<history, index, readAlias, writeAlias, owner, exclusive, rebuild,
                         lateCutOver>>,
             late' = late \/ late' = late \cup Pending(w),
             \A v \in Workers : worker'[v].target \in {FirstIndex, worker[v].target} \cup writeAlias
      PROVE  RelayOnly
  <2>1. \A x \in Pending(w) : x.target = worker[w].target
    BY DEF Pending
  <2> QED
    BY <1>1, <2>1 DEF RelayOnly, TargetsKept, OnlyPinnedChange, Shown
<1>2. ASSUME NEW c \in Editors, BeginCommand(c) \/ RollBackCommand(c)
      PROVE  RelayOnly
  BY <1>0, <1>2 DEF BeginCommand, RollBackCommand
<1>3. ASSUME NEW w \in Workers, NEW e \in Events, Claim(w, e)
      PROVE  RelayOnly
  <2>1. \A v \in Workers : worker'[v].target \in {FirstIndex, worker[v].target} \cup writeAlias
    BY <1>3 DEF Claim, Resting, CatalogInv, SearchTypeOK
  <2> QED
    BY <1>1, <1>3, <2>1 DEF Claim
<1>4. ASSUME NEW w \in Workers, Admit(w) \/ Confirm(w) \/ Verify(w) \/ EndProjection(w)
      PROVE  RelayOnly
  <2>1. \E at \in WorkerAt : Move(w, at)
    BY <1>4 DEF Admit, Confirm, Verify, EndProjection, WorkerAt
  <2> QED
    BY <1>1, <1>4, <2>1, TargetsStay DEF Admit, Confirm, Verify, EndProjection
<1>5. ASSUME NEW w \in Workers, WriteRefused(w) \/ WriteTimesOut(w)
      PROVE  RelayOnly
  <2>1. \E at \in WorkerAt : Move(w, at)
    BY <1>5 DEF WriteRefused, WriteTimesOut, WorkerAt
  <2> QED
    BY <1>1, <1>5, <2>1, TargetsStay DEF WriteRefused, WriteTimesOut
<1>6. ASSUME NEW w \in Workers, Resolve(w)
      PROVE  RelayOnly
  <2>1. \/ Move(w, "failed")
        \/ \E i \in writeAlias : worker' = [worker EXCEPT ![w].at = "pinned", ![w].target = i]
    BY <1>6 DEF Resolve
  <2> QED
    BY <1>1, <1>6, <2>1, TargetsStay DEF Resolve, WorkerAt
<1>7. ASSUME NEW w \in Workers, Read(w)
      PROVE  RelayOnly
  <2>1. \E entry : worker' = [worker EXCEPT ![w].at = "sent", ![w].entry = entry]
    BY <1>7 DEF Read
  <2> QED
    BY <1>1, <1>7, <2>1, TargetsStay DEF Read
<1>8. ASSUME NEW w \in Workers,
             \/ MarkProcessed(w) \/ DeferForMaintenance(w) \/ MarkFailed(w)
             \/ Relinquish(w) \/ Heartbeat(w) \/ CrashWorker(w) \/ LoseGate(w)
      PROVE  RelayOnly
  BY <1>1, <1>8, TargetsStay DEF MarkProcessed, DeferForMaintenance, MarkFailed, Release,
     Relinquish, Heartbeat, CrashWorker, LoseGate
<1>9. ASSUME NEW w \in Workers, WriteAnswered(w)
      PROVE  RelayOnly
  <2>1. \E at \in WorkerAt : Move(w, at)
    BY <1>9 DEF WriteAnswered, WorkerAt
  <2>2. \A v \in Workers : worker'[v].target \in {FirstIndex, worker[v].target} \cup writeAlias
    BY <2>1, TargetsStay
  <2>3. UNCHANGED <<history, late, owner, exclusive, rebuild, lateCutOver>>
    BY <1>9 DEF WriteAnswered
  <2>4. CASE UNCHANGED indexVars
    BY <1>1, <2>2, <2>3, <2>4
  <2>5. CASE Put(worker[w].target, worker[w].event[1], worker[w].entry)
    <3>1. /\ worker[w].target \in Indices /\ worker[w].entry \in Entry
          /\ worker[w].event[1] \in Products
      BY <1>9, EventTyped DEF WriteAnswered, At, Job
    <3>2. /\ \A i \in Indices, p \in Products :
               i # worker[w].target => index'[i][p] = index[i][p]
          /\ UNCHANGED <<readAlias, writeAlias>>
      BY <2>5, <3>1, PutShows
    <3>3. OnlyPinnedChange
      BY <3>2 DEF OnlyPinnedChange, Pinned, Shown
    <3> QED
      BY <2>2, <2>3, <3>2, <3>3 DEF RelayOnly, TargetsKept
  <2> QED
    BY <1>9, <2>4, <2>5 DEF WriteAnswered
<1>10. ASSUME NEW x \in late, LateWriteLands(x)
       PROVE  RelayOnly
  <2>1. x.target \in Indices /\ x.product \in Products /\ x.entry \in Entry
    BY DEF CatalogInv, SearchTypeOK, Write
  <2>2. late' = late \ {x} /\ UNCHANGED <<history, worker, owner, exclusive, rebuild, lateCutOver>>
    BY <1>10 DEF LateWriteLands
  <2>3. TargetsKept
    BY <2>2 DEF TargetsKept
  <2>4. CASE UNCHANGED indexVars
    BY <2>2, <2>3, <2>4 DEF RelayOnly, OnlyPinnedChange, Shown
  <2>5. CASE Put(x.target, x.product, x.entry)
    <3>1. /\ \A i \in Indices, p \in Products :
               i # x.target => index'[i][p] = index[i][p]
          /\ UNCHANGED <<readAlias, writeAlias>>
      BY <2>1, <2>5, PutShows
    <3>2. OnlyPinnedChange
      BY <3>1 DEF OnlyPinnedChange, Pinned, Shown
    <3> QED
      BY <2>2, <2>3, <3>1, <3>2 DEF RelayOnly
  <2> QED
    BY <1>10, <2>4, <2>5 DEF LateWriteLands, Destination
<1>11. ASSUME NEW e \in Events, LeaseRunsOut(e)
       PROVE  RelayOnly
  BY <1>0, <1>11 DEF LeaseRunsOut
<1>12. ASSUME NEW chosen \in SUBSET Events, RetryDeadLetters(chosen)
       PROVE  RelayOnly
  BY <1>0, <1>12 DEF RetryDeadLetters
<1>13. ASSUME NEW i \in Indices, NEW p \in Products, ForgetDeletion(i, p)
       PROVE  RelayOnly
  <2>1. /\ ~index[i][p].live /\ index' = [index EXCEPT ![i][p] = Absent]
        /\ UNCHANGED <<history, readAlias, writeAlias, owner, exclusive, rebuild,
                       lateCutOver, worker, late>>
    BY <1>13 DEF ForgetDeletion, Forget
  <2>2. index \in [Indices -> [Products -> Entry]]
    BY DEF CatalogInv, SearchTypeOK, IndexTypeOK
  <2>3. \A j \in Indices, q \in Products : Shown(j, q)' = Shown(j, q)
    <3>1. SUFFICES ASSUME NEW j \in Indices, NEW q \in Products
                   PROVE  Shown(j, q)' = Shown(j, q)
      OBVIOUS
    <3>2. CASE j = i /\ q = p
      BY <2>1, <2>2, <3>2 DEF Shown, Absent
    <3>3. CASE ~(j = i /\ q = p)
      <4>1. index'[j][q] = index[j][q]
        BY <2>1, <2>2, <3>3
      <4> QED
        BY <4>1 DEF Shown
    <3> QED
      BY <3>2, <3>3
  <2> QED
    BY <2>1, <2>3 DEF RelayOnly, TargetsKept, OnlyPinnedChange
<1>14. CASE UNCHANGED vars
  BY <1>0, <1>14 DEF vars
<1> QED
  BY <1>2, <1>3, <1>4, <1>5, <1>6, <1>7, <1>8, <1>9, <1>10, <1>11, <1>12, <1>13, <1>14
  DEF Next, EditorStep, WorkerStep, WorkerFault

(* A rebuild has asked for the aliases and may still move them; it has     *)
(* found its index exact as well; it may move them at all, now or later.   *)
Underway(r) == rebuild[r].at \in {"building", "verified", "switching"} \/ r \in lateCutOver
Decided(r)  == rebuild[r].at \in {"verified", "switching"} \/ r \in lateCutOver
Unswitched(r) ==
  rebuild[r].at \notin {"switched", "reopened", "failed"} \/ r \in lateCutOver

(* Until its aliases move nobody but its own rebuild knows of an index.    *)
(* So the write alias never comes back to where it was, and the aliases a  *)
(* rebuild read tell it whether anything moved since.  Where they still    *)
(* are what it read, the gate has an owner, and what was exact is exact.   *)
LateFailed == \A r \in lateCutOver : RebuildAtStep(r, "failed")

NewIndexUnknown ==
  \A r \in Rebuilds : Unswitched(r) =>
    /\ r \notin writeAlias
    /\ \A s \in Rebuilds : r \notin rebuild[s].write
    /\ ~Pinned(r)

OwnerSwitched ==
  \A r \in Rebuilds : RebuildAtStep(r, "switched") /\ Owns(r) =>
    /\ writeAlias = {r}
    /\ \A s \in Rebuilds : Underway(s) => r \notin rebuild[s].write

CutOversExact ==
  \A r \in Rebuilds : Underway(r) /\ rebuild[r].write = writeAlias =>
    /\ owner # NoRebuild
    /\ Decided(r) => Matches(r)

CutOverInv == LateFailed /\ NewIndexUnknown /\ OwnerSwitched /\ CutOversExact

(* What one rebuild may do from one step to the next without moving the    *)
(* aliases: get no further than it may.                                    *)
Tame(r) ==
  /\ Unswitched(r)' => Unswitched(r)
  /\ rebuild'[r].write \in {rebuild[r].write, writeAlias}
  /\ RebuildAtStep(r, "switched")' /\ Owns(r)' => RebuildAtStep(r, "switched") /\ Owns(r)
  /\ Underway(r)' => \/ Underway(r) /\ rebuild'[r].write = rebuild[r].write
                     \/ RebuildAtStep(r, "building")' /\ Owns(r)'
  /\ Decided(r)' => Decided(r) \/ Matches(r)
  /\ r \in lateCutOver' => RebuildAtStep(r, "failed")'

LEMMA UnderwayUnswitched ==
  ASSUME NEW r \in Rebuilds, Underway(r)
  PROVE  Unswitched(r)
BY DEF Underway, Unswitched

LEMMA MatchesSame ==
  ASSUME NEW i, UNCHANGED history, \A p \in Products : Shown(i, p)' = Shown(i, p)
  PROVE  Matches(i)' <=> Matches(i)
BY DEF Matches, Revision, Projection

LEMMA CutOverFrame ==
  ASSUME CatalogInv, CutOverInv, UNCHANGED <<history, writeAlias>>, TargetsKept,
         owner # NoRebuild => owner' # NoRebuild,
         \A r \in Rebuilds : Tame(r),
         \A r \in Rebuilds : Decided(r)' => \A p \in Products : Shown(r, p)' = Shown(r, p),
         lateCutOver' \subseteq Rebuilds
  PROVE  CutOverInv'
<1>1. LateFailed'
  BY DEF Tame, LateFailed
<1>2. NewIndexUnknown'
  <2>1. SUFFICES ASSUME NEW r \in Rebuilds, Unswitched(r)'
                 PROVE  /\ r \notin writeAlias
                        /\ \A s \in Rebuilds : r \notin rebuild'[s].write
                        /\ ~Pinned(r)'
    BY DEF NewIndexUnknown
  <2>2. /\ r \notin writeAlias
        /\ \A s \in Rebuilds : r \notin rebuild[s].write
        /\ ~Pinned(r)
    BY <2>1 DEF Tame, CutOverInv, NewIndexUnknown
  <2>3. \A s \in Rebuilds : r \notin rebuild'[s].write
    BY <2>2 DEF Tame
  <2>4. ~Pinned(r)'
    <3>1. r # FirstIndex
      BY IndexAssumption
    <3>2. \A w \in Workers : worker'[w].target # r
      BY <2>2, <3>1 DEF TargetsKept, Pinned
    <3>3. \A x \in late' : x.target # r
      BY <2>2 DEF TargetsKept, Pinned
    <3> QED
      BY <3>2, <3>3 DEF Pinned
  <2> QED
    BY <2>2, <2>3, <2>4
<1>3. OwnerSwitched'
  <2>1. SUFFICES ASSUME NEW r \in Rebuilds, RebuildAtStep(r, "switched")', Owns(r)'
                 PROVE  /\ writeAlias = {r}
                        /\ \A s \in Rebuilds : Underway(s)' => r \notin rebuild'[s].write
    BY DEF OwnerSwitched
  <2>2. /\ writeAlias = {r}
        /\ \A s \in Rebuilds : Underway(s) => r \notin rebuild[s].write
    BY <2>1 DEF Tame, CutOverInv, OwnerSwitched
  <2>3. ASSUME NEW s \in Rebuilds, Underway(s)'
        PROVE  r \notin rebuild'[s].write
    <3>1. CASE Underway(s) /\ rebuild'[s].write = rebuild[s].write
      BY <2>2, <3>1
    <3>2. CASE RebuildAtStep(s, "building")' /\ Owns(s)'
      BY <2>1, <3>2 DEF Owns, RebuildAtStep
    <3> QED
      BY <2>3, <3>1, <3>2 DEF Tame
  <2> QED
    BY <2>2, <2>3
<1>4. CutOversExact'
  <2>1. SUFFICES ASSUME NEW r \in Rebuilds, Underway(r)', rebuild'[r].write = writeAlias
                 PROVE  /\ owner' # NoRebuild
                        /\ Decided(r)' => Matches(r)'
    BY DEF CutOversExact
  <2>2. CASE Underway(r) /\ rebuild'[r].write = rebuild[r].write
    <3>1. owner # NoRebuild /\ (Decided(r) => Matches(r))
      BY <2>1, <2>2 DEF CutOverInv, CutOversExact
    <3>2. ASSUME Decided(r)'
          PROVE  Matches(r)'
      <4>1. Matches(r)
        BY <3>1, <3>2 DEF Tame
      <4> QED
        BY <3>2, <4>1, MatchesSame
    <3> QED
      BY <3>1, <3>2
  <2>3. CASE RebuildAtStep(r, "building")' /\ Owns(r)'
    <3>1. owner' # NoRebuild
      BY <2>3, SearchAssumption DEF Owns
    <3>2. ~Decided(r)'
      BY <2>3, <1>1 DEF LateFailed, Decided, RebuildAtStep
    <3> QED
      BY <3>1, <3>2
  <2> QED
    BY <2>1, <2>2, <2>3 DEF Tame
<1> QED
  BY <1>1, <1>2, <1>3, <1>4 DEF CutOverInv

(* A relay writes to no index whose aliases have not moved. *)
LEMMA RelayOnlyCutOver ==
  ASSUME CatalogInv, CutOverInv, RelayOnly
  PROVE  CutOverInv'
<1>1. \A r \in Rebuilds : Tame(r)
  BY DEF RelayOnly, Tame, Unswitched, Underway, Decided, Owns, RebuildAtStep, CutOverInv,
         LateFailed
<1>2. ASSUME NEW r \in Rebuilds, Decided(r)'
      PROVE  \A p \in Products : Shown(r, p)' = Shown(r, p)
  <2>1. Decided(r)
    BY <1>2 DEF RelayOnly, Decided
  <2>2. Unswitched(r)
    BY <2>1 DEF Decided, Unswitched
  <2>3. ~Pinned(r) /\ r \in Indices
    BY <2>2 DEF CutOverInv, NewIndexUnknown, Indices
  <2> QED
    BY <2>3 DEF RelayOnly, OnlyPinnedChange
<1>3. lateCutOver' \subseteq Rebuilds
  BY DEF RelayOnly, CatalogInv, SearchTypeOK
<1> QED
  BY <1>1, <1>2, <1>3, CutOverFrame DEF RelayOnly

(* A command commits only while nobody owns the gate, and then no rebuild  *)
(* that is still under way can move the aliases.                           *)
LEMMA CommitCutOver ==
  ASSUME CatalogInv, GateInv, CutOverInv,
         NEW c \in Editors, NEW p \in Products, CommitCommand(c, p)
  PROVE  CutOverInv'
<1>1. owner = NoRebuild
  BY DEF CommitCommand, GateInv
<1>2. UNCHANGED <<indexVars, worker, late, owner, exclusive, rebuild, lateCutOver>>
  BY DEF CommitCommand
<1>3. \A r \in Rebuilds : ~(Underway(r) /\ rebuild[r].write = writeAlias)
  BY <1>1 DEF CutOverInv, CutOversExact
<1>4. CutOversExact'
  BY <1>2, <1>3 DEF CutOversExact, Underway, indexVars
<1>5. LateFailed' /\ NewIndexUnknown' /\ OwnerSwitched'
  BY <1>2 DEF CutOverInv, LateFailed, NewIndexUnknown, OwnerSwitched, Unswitched, Underway,
              Owns, RebuildAtStep, Pinned, indexVars
<1> QED
  BY <1>4, <1>5 DEF CutOverInv

(* A rebuild that moves on: only its own record changes. *)
LEMMA AdvanceSteps ==
  ASSUME CatalogInv, NEW r \in Rebuilds, NEW at \in RebuildAt, Advance(r, at)
  PROVE  /\ rebuild'[r].at = at
         /\ rebuild'[r].read = rebuild[r].read /\ rebuild'[r].write = rebuild[r].write
         /\ rebuild'[r].asked = rebuild[r].asked
         /\ \A s \in Rebuilds \ {r} : rebuild'[s] = rebuild[s]
<1>1. rebuild \in [Rebuilds -> Build] /\ rebuild[r] \in Build
  BY DEF CatalogInv, SearchTypeOK
<1>2. rebuild' = [rebuild EXCEPT ![r] = [rebuild[r] EXCEPT !.at = at]]
  BY DEF Advance
<1>3. rebuild'[r] = [rebuild[r] EXCEPT !.at = at]
  BY <1>1, <1>2
<1>4. [rebuild[r] EXCEPT !.at = at].at = at
  BY <1>1 DEF Build
<1> QED
  BY <1>1, <1>2, <1>3, <1>4 DEF Build

(* The other rebuilds are tame while one of them steps: none of them gets  *)
(* the gate, and none comes to hold a request on its way.                  *)
LEMMA OthersTame ==
  ASSUME CatalogInv, CutOverInv, NEW r \in Rebuilds, NEW s \in Rebuilds \ {r},
         rebuild'[s] = rebuild[s],
         lateCutOver' \subseteq lateCutOver \cup {r},
         RebuildAtStep(s, "switched") /\ Owns(s)' => Owns(s)
  PROVE  Tame(s)
BY DEF Tame, Unswitched, Underway, Decided, RebuildAtStep, CutOverInv, LateFailed

LEMMA AbandonCutOver ==
  ASSUME CatalogInv, CutOverInv, NEW r \in Rebuilds, Abandon(r),
         lateCutOver' \subseteq
           lateCutOver \cup (IF RebuildAtStep(r, "switching") THEN {r} ELSE {})
  PROVE  CutOverInv'
<1>1. /\ rebuild'[r].at = "failed" /\ rebuild'[r].write = rebuild[r].write
      /\ \A s \in Rebuilds \ {r} : rebuild'[s] = rebuild[s]
  BY AdvanceSteps DEF Abandon, RebuildAt
<1>2. /\ UNCHANGED <<history, index, writeAlias, worker, late, owner>>
      /\ exclusive' \in {exclusive, NoRebuild}
  BY DEF Abandon, indexVars
<1>3. Tame(r)
  BY <1>1 DEF Tame, Unswitched, Underway, Decided, RebuildAtStep
<1>4. ASSUME NEW s \in Rebuilds \ {r}
      PROVE  Tame(s)
  <2>1. Owns(s)' => Owns(s)
    BY <1>2, SearchAssumption DEF Owns
  <2> QED
    BY <1>1, <2>1, OthersTame
<1>5. TargetsKept /\ \A s, p : Shown(s, p)' = Shown(s, p)
  BY <1>2 DEF TargetsKept, Shown
<1>6. lateCutOver' \subseteq Rebuilds
  BY DEF CatalogInv, SearchTypeOK
<1> QED
  BY <1>2, <1>3, <1>4, <1>5, <1>6, CutOverFrame

(* A rebuild closes, locks, asks, builds, verifies and sends. *)
LEMMA PrepareCutOver ==
  ASSUME CatalogInv, CutOverInv, NEW r \in Rebuilds,
         NEW at \in {"closed", "locked", "building", "verified", "switching"},
         Advance(r, at),
         rebuild[r].at \notin {"switched", "reopened", "failed"},
         at = "building" => Owns(r)',
         at = "verified" => RebuildAtStep(r, "building") /\ Matches(r),
         at = "switching" => RebuildAtStep(r, "verified"),
         UNCHANGED <<history, indexVars, worker, late, lateCutOver>>,
         owner # NoRebuild => owner' # NoRebuild,
         \A s \in Rebuilds \ {r} : RebuildAtStep(s, "switched") /\ Owns(s)' => Owns(s)
  PROVE  CutOverInv'
<1>1. /\ rebuild'[r].at = at /\ rebuild'[r].write = rebuild[r].write
      /\ \A s \in Rebuilds \ {r} : rebuild'[s] = rebuild[s]
  BY AdvanceSteps DEF RebuildAt
<1>2. r \notin lateCutOver
  BY DEF CutOverInv, LateFailed, RebuildAtStep
<1>3. Tame(r)
  <2>1. Unswitched(r)
    BY DEF Unswitched
  <2>2. Underway(r)' => \/ Underway(r)
                        \/ RebuildAtStep(r, "building")' /\ Owns(r)'
    BY <1>1, <1>2 DEF Underway, RebuildAtStep
  <2>3. Decided(r)' => Decided(r) \/ Matches(r)
    BY <1>1, <1>2 DEF Decided, RebuildAtStep
  <2> QED
    BY <1>1, <1>2, <2>1, <2>2, <2>3 DEF Tame, RebuildAtStep
<1>4. \A s \in Rebuilds \ {r} : Tame(s)
  BY <1>1, OthersTame
<1>5. TargetsKept /\ writeAlias' = writeAlias /\ \A s, p : Shown(s, p)' = Shown(s, p)
  BY DEF TargetsKept, Shown, indexVars
<1>6. lateCutOver' \subseteq Rebuilds
  BY DEF CatalogInv, SearchTypeOK
<1> QED
  BY <1>3, <1>4, <1>5, <1>6, CutOverFrame

LEMMA CloseGateCutOver ==
  ASSUME CatalogInv, CutOverInv, NEW r \in Rebuilds, CloseGate(r)
  PROVE  CutOverInv'
<1>1. /\ RebuildAtStep(r, "off") /\ Advance(r, "closed")
      /\ owner' = r /\ exclusive' = exclusive /\ exclusive = NoRebuild
      /\ UNCHANGED <<history, indexVars, worker, late, lateCutOver>>
  BY DEF CloseGate, Lockable
<1>2. \A s \in Rebuilds \ {r} : ~Owns(s)'
  BY <1>1 DEF Owns
<1> QED
  BY <1>1, <1>2, SearchAssumption, PrepareCutOver DEF RebuildAtStep

LEMMA LockGateCutOver ==
  ASSUME CatalogInv, CutOverInv, NEW r \in Rebuilds, LockGate(r)
  PROVE  CutOverInv'
<1>1. /\ RebuildAtStep(r, "closed")
      /\ UNCHANGED <<history, indexVars, worker, late, owner, shared, lateCutOver>>
  BY DEF LockGate
<1>2. CASE Advance(r, "locked") /\ exclusive' = r
  <2>1. \A s \in Rebuilds \ {r} : ~Owns(s)'
    BY <1>2 DEF Owns
  <2> QED
    BY <1>1, <1>2, <2>1, PrepareCutOver DEF RebuildAtStep
<1>3. CASE Advance(r, "failed") /\ UNCHANGED exclusive
  <2>1. /\ rebuild'[r].at = "failed" /\ rebuild'[r].write = rebuild[r].write
        /\ \A s \in Rebuilds \ {r} : rebuild'[s] = rebuild[s]
    BY <1>3, AdvanceSteps DEF RebuildAt
  <2>2. Tame(r)
    BY <1>1, <2>1 DEF Tame, Unswitched, Underway, Decided, RebuildAtStep
  <2>3. ASSUME NEW s \in Rebuilds \ {r}
        PROVE  Tame(s)
    BY <1>1, <1>3, <2>1, OthersTame DEF Owns
  <2>4. TargetsKept /\ writeAlias' = writeAlias /\ \A s, p : Shown(s, p)' = Shown(s, p)
    BY <1>1 DEF TargetsKept, Shown, indexVars
  <2>5. lateCutOver' \subseteq Rebuilds
    BY <1>1 DEF CatalogInv, SearchTypeOK
  <2> QED
    BY <1>1, <2>2, <2>3, <2>4, <2>5, CutOverFrame
<1> QED
  BY <1>2, <1>3 DEF LockGate

LEMMA AskAliasCutOver ==
  ASSUME CatalogInv, CutOverInv, NEW r \in Rebuilds, NEW alias \in {"read", "write"},
         AskAlias(r, alias)
  PROVE  CutOverInv'
<1>1. /\ RebuildAtStep(r, "locked")
      /\ UNCHANGED <<history, indexVars, worker, late, owner, exclusive, lateCutOver>>
  BY DEF AskAlias, gateVars
<1>2. /\ rebuild'[r].at = "locked" /\ rebuild'[r].write \in {rebuild[r].write, writeAlias}
      /\ \A s \in Rebuilds \ {r} : rebuild'[s] = rebuild[s]
  <2>1. rebuild \in [Rebuilds -> Build] /\ rebuild[r] \in Build /\ rebuild[r].at = "locked"
    BY <1>1 DEF CatalogInv, SearchTypeOK, RebuildAtStep
  <2>2. rebuild' = [rebuild EXCEPT ![r] = [rebuild[r] EXCEPT
          !.asked = rebuild[r].asked \cup {alias},
          !.read  = IF alias = "read"  THEN readAlias  ELSE rebuild[r].read,
          !.write = IF alias = "write" THEN writeAlias ELSE rebuild[r].write]]
    BY <2>1 DEF AskAlias, Build
  <2> QED
    BY <2>1, <2>2 DEF Build
<1>3. Tame(r)
  BY <1>1, <1>2 DEF Tame, Unswitched, Underway, Decided, RebuildAtStep, CutOverInv, LateFailed
<1>4. ASSUME NEW s \in Rebuilds \ {r}
      PROVE  Tame(s)
  BY <1>1, <1>2, OthersTame DEF Owns
<1>5. TargetsKept /\ writeAlias' = writeAlias /\ \A s, p : Shown(s, p)' = Shown(s, p)
  BY <1>1 DEF TargetsKept, Shown, indexVars
<1>6. lateCutOver' \subseteq Rebuilds
  BY <1>1 DEF CatalogInv, SearchTypeOK
<1> QED
  BY <1>1, <1>3, <1>4, <1>5, <1>6, CutOverFrame

LEMMA StartBuildCutOver ==
  ASSUME CatalogInv, CutOverInv, NEW r \in Rebuilds, StartBuild(r)
  PROVE  CutOverInv'
<1>1. RebuildAtStep(r, "locked") /\ UNCHANGED lateCutOver
  BY DEF StartBuild
<1>2. CASE /\ Owns(r) /\ Advance(r, "building")
           /\ UNCHANGED <<history, indexVars, outboxVars, worker, late, gateVars>>
  <2>1. Owns(r)' /\ \A s \in Rebuilds \ {r} : Owns(s)' => Owns(s)
    BY <1>2 DEF Owns, gateVars
  <2>2. owner' = owner
    BY <1>2 DEF gateVars
  <2> QED
    BY <1>1, <1>2, <2>1, <2>2, PrepareCutOver DEF RebuildAtStep
<1> QED
  BY <1>1, <1>2, AbandonCutOver DEF StartBuild

LEMMA IndexBatchCutOver ==
  ASSUME CatalogInv, CutOverInv, NEW r \in Rebuilds, NEW p \in Products, IndexBatch(r, p)
  PROVE  CutOverInv'
<1>1. RebuildAtStep(r, "building") /\ UNCHANGED lateCutOver
  BY DEF IndexBatch
<1>2. CASE /\ Owns(r)
           /\ index' = (IF Revision(p) > 0 /\ Searchable(Current(p))
                        THEN [index EXCEPT ![r][p] = CurrentEntry(p)] ELSE index)
           /\ rebuild' = [rebuild EXCEPT ![r].todo = @ \ {p}]
           /\ UNCHANGED <<history, readAlias, writeAlias, outboxVars, worker, late, gateVars>>
  <2>1. /\ rebuild'[r].at = "building" /\ rebuild'[r].write = rebuild[r].write
        /\ \A s \in Rebuilds \ {r} : rebuild'[s] = rebuild[s]
    <3>1. rebuild \in [Rebuilds -> Build] /\ rebuild[r].at = "building"
      BY <1>1 DEF CatalogInv, SearchTypeOK, RebuildAtStep
    <3> QED
      BY <1>2, <3>1 DEF Build
  <2>2. r \notin lateCutOver
    BY <1>1 DEF CutOverInv, LateFailed, RebuildAtStep
  <2>3. Tame(r)
    BY <1>1, <2>1, <2>2 DEF Tame, Unswitched, Underway, Decided, RebuildAtStep
  <2>4. ASSUME NEW s \in Rebuilds \ {r}
        PROVE  Tame(s)
    BY <1>1, <1>2, <2>1, OthersTame DEF Owns, gateVars
  <2>5. ~Decided(r)'
    BY <1>1, <2>1, <2>2 DEF Decided
  <2>6. ASSUME NEW s \in Rebuilds \ {r}, NEW q \in Products
        PROVE  Shown(s, q)' = Shown(s, q)
    <3>1. index'[s] = index[s]
      BY <1>2 DEF CatalogInv, SearchTypeOK, IndexTypeOK, Indices
    <3> QED
      BY <3>1 DEF Shown
  <2>7. TargetsKept
    BY <1>2 DEF TargetsKept
  <2>8. lateCutOver' \subseteq Rebuilds /\ UNCHANGED owner
    BY <1>1, <1>2 DEF CatalogInv, SearchTypeOK, gateVars
  <2> QED
    BY <1>2, <2>3, <2>4, <2>5, <2>6, <2>7, <2>8, CutOverFrame
<1> QED
  BY <1>1, <1>2, AbandonCutOver DEF IndexBatch

LEMMA VerifyIndexCutOver ==
  ASSUME CatalogInv, CutOverInv, NEW r \in Rebuilds, VerifyIndex(r)
  PROVE  CutOverInv'
<1>1. RebuildAtStep(r, "building") /\ UNCHANGED lateCutOver
  BY DEF VerifyIndex
<1>2. CASE /\ Matches(r) /\ Advance(r, "verified")
           /\ UNCHANGED <<history, indexVars, outboxVars, worker, late, gateVars>>
  <2>1. UNCHANGED owner /\ \A s \in Rebuilds \ {r} : Owns(s)' => Owns(s)
    BY <1>2 DEF Owns, gateVars
  <2> QED
    BY <1>1, <1>2, <2>1, PrepareCutOver DEF RebuildAtStep
<1> QED
  BY <1>1, <1>2, AbandonCutOver DEF VerifyIndex

LEMMA SendCutOverCutOver ==
  ASSUME CatalogInv, CutOverInv, NEW r \in Rebuilds, SendCutOver(r)
  PROVE  CutOverInv'
<1>1. RebuildAtStep(r, "verified") /\ UNCHANGED lateCutOver
  BY DEF SendCutOver
<1>2. CASE /\ Owns(r) /\ Advance(r, "switching")
           /\ UNCHANGED <<history, indexVars, outboxVars, worker, late, gateVars>>
  <2>1. UNCHANGED owner /\ \A s \in Rebuilds \ {r} : Owns(s)' => Owns(s)
    BY <1>2 DEF Owns, gateVars
  <2> QED
    BY <1>1, <1>2, <2>1, PrepareCutOver DEF RebuildAtStep
<1> QED
  BY <1>1, <1>2, AbandonCutOver DEF SendCutOver

(* The aliases move, for a rebuild that waits for it or for one long dead. *)
LEMMA MovedCutOver ==
  ASSUME CatalogInv, CutOverInv, NEW r \in Rebuilds, Underway(r), ~Unswitched(r)',
         CutOver(r, rebuild[r].read, rebuild[r].write),
         \A s \in Rebuilds \ {r} : rebuild'[s].at = rebuild[s].at,
         \A s \in Rebuilds : rebuild'[s].write = rebuild[s].write,
         rebuild'[r].at \in {"switched", "failed"},
         lateCutOver' = lateCutOver \ {r},
         UNCHANGED <<history, worker, late, owner, exclusive>>
  PROVE  CutOverInv'
<1>1. writeAlias' = {r} /\ rebuild[r].write = writeAlias /\ UNCHANGED index
  BY DEF CutOver, Switchable
<1>2. Unswitched(r) /\ \A s \in Rebuilds : r \notin rebuild[s].write
  BY UnderwayUnswitched DEF CutOverInv, NewIndexUnknown
<1>3. \A s \in Rebuilds : /\ Unswitched(s)' => Unswitched(s) /\ s # r
                          /\ Underway(s)' => Underway(s) /\ s # r
  BY UnderwayUnswitched DEF Unswitched, Underway
<1>4. LateFailed'
  <2>1. ASSUME NEW s \in lateCutOver'
        PROVE  rebuild'[s].at = "failed"
    <3>1. s \in Rebuilds \ {r} /\ s \in lateCutOver
      BY <2>1 DEF CatalogInv, SearchTypeOK
    <3> QED
      BY <3>1 DEF CutOverInv, LateFailed, RebuildAtStep
  <2> QED
    BY <2>1 DEF LateFailed, RebuildAtStep
<1>5. NewIndexUnknown'
  BY <1>1, <1>3 DEF CutOverInv, NewIndexUnknown, Pinned
<1>6. OwnerSwitched'
  <2>1. SUFFICES ASSUME NEW s \in Rebuilds, RebuildAtStep(s, "switched")', Owns(s)'
                 PROVE  s = r
    BY <1>1, <1>2 DEF OwnerSwitched
  <2>2. SUFFICES ASSUME s # r
                 PROVE  FALSE
    OBVIOUS
  <2>3. RebuildAtStep(s, "switched") /\ Owns(s)
    BY <2>1, <2>2 DEF Owns, RebuildAtStep
  <2>4. writeAlias = {s} /\ s \notin rebuild[r].write
    BY <2>3 DEF CutOverInv, OwnerSwitched
  <2> QED
    BY <1>1, <2>4
<1>7. CutOversExact'
  BY <1>1, <1>2 DEF CutOversExact
<1> QED
  BY <1>4, <1>5, <1>6, <1>7 DEF CutOverInv

LEMMA CutOverAnsweredCutOver ==
  ASSUME CatalogInv, CutOverInv, NEW r \in Rebuilds, CutOverAnswered(r)
  PROVE  CutOverInv'
<1>1. RebuildAtStep(r, "switching") /\ UNCHANGED lateCutOver
  BY DEF CutOverAnswered
<1>2. CASE /\ CutOver(r, rebuild[r].read, rebuild[r].write) /\ Advance(r, "switched")
           /\ UNCHANGED <<history, outboxVars, worker, late, gateVars>>
  <2>1. /\ rebuild'[r].at = "switched" /\ rebuild'[r].write = rebuild[r].write
        /\ \A s \in Rebuilds \ {r} : rebuild'[s] = rebuild[s]
    BY <1>2, AdvanceSteps DEF RebuildAt
  <2>2. r \notin lateCutOver
    BY <1>1 DEF CutOverInv, LateFailed, RebuildAtStep
  <2>3. Underway(r) /\ ~Unswitched(r)'
    BY <1>1, <2>1, <2>2 DEF Underway, Unswitched, RebuildAtStep
  <2>4. lateCutOver' = lateCutOver \ {r}
    BY <1>1, <2>2
  <2> QED
    BY <1>1, <1>2, <2>1, <2>3, <2>4, MovedCutOver DEF gateVars
<1> QED
  BY <1>1, <1>2, AbandonCutOver DEF CutOverAnswered

LEMMA LateCutOverLandsCutOver ==
  ASSUME CatalogInv, CutOverInv, NEW r \in Rebuilds, LateCutOverLands(r)
  PROVE  CutOverInv'
<1>1. /\ r \in lateCutOver /\ rebuild[r].at = "failed" /\ lateCutOver' = lateCutOver \ {r}
      /\ UNCHANGED <<history, worker, late, owner, exclusive, rebuild>>
  BY DEF LateCutOverLands, gateVars, CutOverInv, LateFailed, RebuildAtStep
<1>2. CASE CutOver(r, rebuild[r].read, rebuild[r].write)
  <2>1. Underway(r) /\ ~Unswitched(r)'
    BY <1>1 DEF Underway, Unswitched
  <2> QED
    BY <1>1, <1>2, <2>1, MovedCutOver
<1>3. CASE UNCHANGED indexVars
  <2>1. \A s \in Rebuilds : Tame(s)
    BY <1>1 DEF Tame, Unswitched, Underway, Decided, Owns, RebuildAtStep, CutOverInv,
                LateFailed
  <2>2. TargetsKept /\ writeAlias' = writeAlias /\ \A s, p : Shown(s, p)' = Shown(s, p)
    BY <1>1, <1>3 DEF TargetsKept, Shown, indexVars
  <2>3. lateCutOver' \subseteq Rebuilds
    BY <1>1 DEF CatalogInv, SearchTypeOK
  <2> QED
    BY <1>1, <2>1, <2>2, <2>3, CutOverFrame
<1> QED
  BY <1>2, <1>3 DEF LateCutOverLands

LEMMA LoseLockCutOver ==
  ASSUME CatalogInv, CutOverInv, NEW r \in Rebuilds, LoseLock(r)
  PROVE  CutOverInv'
<1>1. /\ exclusive' = NoRebuild
      /\ UNCHANGED <<history, indexVars, worker, late, owner, rebuild, lateCutOver>>
  BY DEF LoseLock
<1>2. \A s \in Rebuilds : ~Owns(s)'
  BY <1>1, SearchAssumption DEF Owns
<1>3. \A s \in Rebuilds : Tame(s)
  BY <1>1, <1>2 DEF Tame, Unswitched, Underway, Decided, RebuildAtStep, CutOverInv, LateFailed
<1>4. TargetsKept /\ writeAlias' = writeAlias /\ \A s, p : Shown(s, p)' = Shown(s, p)
  BY <1>1 DEF TargetsKept, Shown, indexVars
<1>5. lateCutOver' \subseteq Rebuilds
  BY <1>1 DEF CatalogInv, SearchTypeOK
<1> QED
  BY <1>1, <1>3, <1>4, <1>5, CutOverFrame

(* The gate reopens.  What is still under way read the aliases before they *)
(* named the index of the owner, so it cannot move them any more.          *)
LEMMA ReopenCutOver ==
  ASSUME CatalogInv, CutOverInv, NEW r \in Rebuilds, Reopen(r)
  PROVE  CutOverInv'
<1>1. RebuildAtStep(r, "switched") /\ UNCHANGED lateCutOver
  BY DEF Reopen
<1>2. CASE /\ Owns(r) /\ Advance(r, "reopened")
           /\ owner' = NoRebuild /\ exclusive' = NoRebuild
           /\ UNCHANGED <<history, indexVars, outboxVars, worker, late, shared>>
  <2>1. /\ rebuild'[r].at = "reopened" /\ rebuild'[r].write = rebuild[r].write
        /\ \A s \in Rebuilds \ {r} : rebuild'[s] = rebuild[s]
    BY <1>2, AdvanceSteps DEF RebuildAt
  <2>2. writeAlias = {r} /\ \A s \in Rebuilds : Underway(s) => r \notin rebuild[s].write
    BY <1>1, <1>2 DEF CutOverInv, OwnerSwitched
  <2>3. \A s \in Rebuilds : /\ Unswitched(s)' => Unswitched(s)
                            /\ Underway(s)' => Underway(s)
                            /\ rebuild'[s].write = rebuild[s].write
    BY <1>1, <2>1 DEF Unswitched, Underway, RebuildAtStep
  <2>4. CutOversExact'
    BY <1>2, <2>2, <2>3 DEF CutOversExact, indexVars
  <2>5. OwnerSwitched'
    BY <1>2, SearchAssumption DEF OwnerSwitched, Owns
  <2>6. NewIndexUnknown'
    BY <1>2, <2>3 DEF CutOverInv, NewIndexUnknown, Pinned, indexVars
  <2>7. LateFailed'
    <3>1. ASSUME NEW s \in lateCutOver'
          PROVE  rebuild'[s].at = "failed"
      <4>1. s \in Rebuilds /\ rebuild[s].at = "failed"
        BY <1>1, <3>1 DEF CatalogInv, SearchTypeOK, CutOverInv, LateFailed, RebuildAtStep
      <4> QED
        BY <1>1, <2>1, <4>1 DEF RebuildAtStep
    <3> QED
      BY <3>1 DEF LateFailed, RebuildAtStep
  <2> QED
    BY <2>4, <2>5, <2>6, <2>7 DEF CutOverInv
<1> QED
  BY <1>1, <1>2, AbandonCutOver DEF Reopen

LEMMA CutOverInvStep ==
  ASSUME CatalogInv, GateInv, CutOverInv, [Next]_vars
  PROVE  CutOverInv'
<1>1. ASSUME NEW r \in Rebuilds, RebuildStep(r)
      PROVE  CutOverInv'
  <2>1. CASE GiveUp(r)
    BY <2>1, AbandonCutOver DEF GiveUp
  <2> QED
    BY <1>1, <2>1, CloseGateCutOver, LockGateCutOver, AskAliasCutOver, StartBuildCutOver,
       IndexBatchCutOver, VerifyIndexCutOver, SendCutOverCutOver, CutOverAnsweredCutOver,
       LateCutOverLandsCutOver, LoseLockCutOver, ReopenCutOver DEF RebuildStep
<1> QED
  BY <1>1, RelaySteps, RelayOnlyCutOver, CommitCutOver

LEMMA CutOverInvInit ==
  ASSUME Init
  PROVE  CutOverInv
<1>1. \A r \in Rebuilds : rebuild[r] = NotStarted
  BY DEF Init
<1>2. LateFailed /\ OwnerSwitched /\ CutOversExact
  BY <1>1 DEF Init, NotStarted, LateFailed, OwnerSwitched, CutOversExact, Underway,
              RebuildAtStep
<1>3. writeAlias \subseteq {FirstIndex}
  BY DEF Init, Served, Unserved
<1>4. NewIndexUnknown
  <2>1. \A w \in Workers : worker[w].target = FirstIndex
    BY DEF Init, Resting
  <2> QED
    BY <1>1, <1>3, <2>1, IndexAssumption DEF Init, NewIndexUnknown, Pinned, NotStarted
<1> QED
  BY <1>2, <1>4 DEF CutOverInv

LEMMA CutOverInvHolds == SearchSpec => []CutOverInv
<1>1. Init => CutOverInv
  BY CutOverInvInit
<1>2. SearchInv /\ CutOverInv /\ [Next]_vars => CutOverInv'
  BY CutOverInvStep DEF SearchInv
<1> QED
  BY <1>1, <1>2, SearchInvHolds, PTL DEF SearchSpec

(* Which steps move the aliases, and that they find the index exact. *)
LEMMA AliasSteps ==
  ASSUME CatalogInv, CutOverInv, [Next]_vars
  PROVE  \/ UNCHANGED <<readAlias, writeAlias>>
         \/ \E r \in Rebuilds :
              /\ CutOver(r, rebuild[r].read, rebuild[r].write)
              /\ Underway(r) /\ Matches(r) /\ Matches(r)'
              /\ UNCHANGED <<history, owner, status, worker, late>>
<1>1. ASSUME NEW r \in Rebuilds, RebuildStep(r)
      PROVE  \/ UNCHANGED <<readAlias, writeAlias>>
             \/ /\ CutOver(r, rebuild[r].read, rebuild[r].write)
                /\ Decided(r) /\ UNCHANGED <<history, owner, status, worker, late>>
  <2>1. CASE CutOverAnswered(r)
    BY <2>1 DEF CutOverAnswered, Abandon, Decided, RebuildAtStep, gateVars, indexVars,
                outboxVars
  <2>2. CASE LateCutOverLands(r)
    BY <2>2 DEF LateCutOverLands, Decided, gateVars, indexVars, outboxVars
  <2> QED
    BY <1>1, <2>1, <2>2
    DEF RebuildStep, CloseGate, LockGate, StartBuild, VerifyIndex, SendCutOver, GiveUp,
        LoseLock, Reopen, AskAlias, IndexBatch, Abandon, indexVars
<1>2. ASSUME NEW r \in Rebuilds, CutOver(r, rebuild[r].read, rebuild[r].write), Decided(r),
             UNCHANGED history
      PROVE  Underway(r) /\ Matches(r) /\ Matches(r)'
  <2>1. Underway(r) /\ rebuild[r].write = writeAlias
    BY <1>2 DEF CutOver, Switchable, Decided, Underway
  <2>2. Matches(r)
    BY <1>2, <2>1 DEF CutOverInv, CutOversExact
  <2>3. \A p \in Products : Shown(r, p)' = Shown(r, p)
    BY <1>2 DEF CutOver, Shown
  <2> QED
    BY <1>2, <2>1, <2>2, <2>3, MatchesSame
<1>3. ASSUME NEW c \in Editors, NEW p \in Products, CommitCommand(c, p)
      PROVE  UNCHANGED <<readAlias, writeAlias>>
  BY <1>3 DEF CommitCommand, indexVars
<1> QED
  BY <1>1, <1>2, <1>3, RelaySteps DEF RelayOnly

(* The aliases move only to an index that shows the catalog as it is: a    *)
(* request that lands long after its rebuild died either finds an alias    *)
(* gone and is refused, or finds a catalog nobody could change since.      *)
THEOREM AliasesMoveToExactIndex == SearchSpec => CutOverIsExact
<1>1. SearchInv /\ CutOverInv /\ [Next]_vars
        => [\A i \in readAlias' \ readAlias : Matches(i)]_vars
  <2>1. ASSUME SearchInv, CutOverInv, [Next]_vars, NEW i \in readAlias' \ readAlias
        PROVE  Matches(i)
    BY <2>1, AliasSteps DEF SearchInv, CutOver
  <2> QED
    BY <2>1
<1> QED
  BY <1>1, SearchInvHolds, CutOverInvHolds, PTL DEF SearchSpec, CutOverIsExact

-----------------------------------------------------------------------------
(* With an index in service from the start.  The two aliases name one and  *)
(* the same index, and a rebuild that gets as far as its request has found *)
(* one, so its request names what to remove.                               *)
AliasesServe == \E a \in Indices : readAlias = {a} /\ writeAlias = {a}

AskedServe ==
  \A r \in Rebuilds :
    /\ "read" \in rebuild[r].asked => rebuild[r].read # {}
    /\ Underway(r) => "read" \in rebuild[r].asked

ServiceInv == AliasesServe /\ AskedServe

LEMMA ServiceInvInit ==
  ASSUME Init, InService = {TRUE}
  PROVE  ServiceInv
<1>1. Served /\ writeAlias = readAlias
  BY DEF Init
<1>2. AliasesServe
  BY <1>1 DEF Served, AliasesServe, Indices
<1>3. AskedServe
  BY DEF Init, NotStarted, AskedServe, Underway
<1> QED
  BY <1>2, <1>3 DEF ServiceInv

(* The step of a rebuild that moves on keeps what it read. *)
LEMMA AdvanceAsked ==
  ASSUME CatalogInv, AskedServe, NEW r \in Rebuilds, NEW at \in RebuildAt, Advance(r, at),
         lateCutOver' \subseteq lateCutOver \cup {r},
         Underway(r)' => "read" \in rebuild[r].asked
  PROVE  AskedServe'
<1>1. /\ rebuild'[r].asked = rebuild[r].asked /\ rebuild'[r].read = rebuild[r].read
      /\ \A s \in Rebuilds \ {r} : rebuild'[s] = rebuild[s]
  BY AdvanceSteps
<1>2. \A s \in Rebuilds \ {r} : Underway(s)' => Underway(s)
  BY <1>1 DEF Underway
<1> QED
  BY <1>1, <1>2 DEF AskedServe

LEMMA AskedServeStep ==
  ASSUME CatalogInv, LateFailed, ServiceInv, [Next]_vars
  PROVE  AskedServe'
<1>1. CASE UNCHANGED <<rebuild, lateCutOver>>
  BY <1>1 DEF ServiceInv, AskedServe, Underway
<1>2. ASSUME NEW r \in Rebuilds, RebuildStep(r)
      PROVE  AskedServe'
  <2> DEFINE Asked == "read" \in rebuild[r].asked
  <2>0. Underway(r) => Asked
    BY DEF ServiceInv, AskedServe
  <2>1. CASE CloseGate(r) \/ LockGate(r)
    <3>1. PICK at \in {"closed", "locked", "failed"} : Advance(r, at)
      BY <2>1 DEF CloseGate, LockGate
    <3>2. ~Underway(r)'
      BY <2>1, <3>1, AdvanceSteps
      DEF CloseGate, LockGate, LateFailed, RebuildAtStep, Underway, RebuildAt
    <3> QED
      BY <2>1, <3>1, <3>2, AdvanceAsked DEF CloseGate, LockGate, ServiceInv, RebuildAt
  <2>2. ASSUME NEW alias \in {"read", "write"}, AskAlias(r, alias)
        PROVE  AskedServe'
    <3>1. rebuild \in [Rebuilds -> Build] /\ rebuild[r] \in Build
      BY DEF CatalogInv, SearchTypeOK
    <3>2. rebuild' = [rebuild EXCEPT ![r] = [rebuild[r] EXCEPT
            !.asked = rebuild[r].asked \cup {alias},
            !.read  = IF alias = "read"  THEN readAlias  ELSE rebuild[r].read,
            !.write = IF alias = "write" THEN writeAlias ELSE rebuild[r].write]]
      BY <2>2, <3>1 DEF AskAlias, Build
    <3>3. /\ rebuild'[r].at = rebuild[r].at
          /\ rebuild'[r].asked = rebuild[r].asked \cup {alias}
          /\ rebuild'[r].read = IF alias = "read" THEN readAlias ELSE rebuild[r].read
          /\ \A s \in Rebuilds \ {r} : rebuild'[s] = rebuild[s]
      BY <3>1, <3>2 DEF Build
    <3>4. readAlias # {}
      BY DEF ServiceInv, AliasesServe
    <3>5. lateCutOver' = lateCutOver
      BY <2>2 DEF AskAlias
    <3> QED
      BY <2>2, <3>3, <3>4, <3>5 DEF ServiceInv, AskedServe, Underway
  <2>3. CASE StartBuild(r)
    <3>1. Asked /\ lateCutOver' = lateCutOver
      BY <2>3 DEF StartBuild
    <3>2. \E at \in RebuildAt : Advance(r, at)
      BY <2>3 DEF StartBuild, Abandon, RebuildAt
    <3> QED
      BY <3>1, <3>2, AdvanceAsked DEF ServiceInv
  <2>4. ASSUME NEW p \in Products, IndexBatch(r, p)
        PROVE  AskedServe'
    <3>1. Asked /\ lateCutOver' = lateCutOver
      BY <2>0, <2>4 DEF IndexBatch, Underway, RebuildAtStep
    <3>2. CASE Abandon(r)
      BY <3>1, <3>2, AdvanceAsked DEF Abandon, ServiceInv, RebuildAt
    <3>3. CASE rebuild' = [rebuild EXCEPT ![r].todo = @ \ {p}]
      <4>1. rebuild \in [Rebuilds -> Build]
        BY DEF CatalogInv, SearchTypeOK
      <4>2. \A s \in Rebuilds : /\ rebuild'[s].at = rebuild[s].at
                                /\ rebuild'[s].asked = rebuild[s].asked
                                /\ rebuild'[s].read = rebuild[s].read
        BY <3>3, <4>1 DEF Build
      <4> QED
        BY <3>1, <4>2 DEF ServiceInv, AskedServe, Underway
    <3> QED
      BY <2>4, <3>2, <3>3 DEF IndexBatch
  <2>5. CASE VerifyIndex(r) \/ SendCutOver(r) \/ CutOverAnswered(r)
    <3>1. Asked /\ lateCutOver' = lateCutOver
      BY <2>0, <2>5 DEF VerifyIndex, SendCutOver, CutOverAnswered, Underway, RebuildAtStep
    <3>2. \E at \in RebuildAt : Advance(r, at)
      BY <2>5 DEF VerifyIndex, SendCutOver, CutOverAnswered, Abandon, RebuildAt
    <3> QED
      BY <3>1, <3>2, AdvanceAsked DEF ServiceInv
  <2>6. CASE GiveUp(r)
    <3>1. /\ Advance(r, "failed") /\ "failed" \in RebuildAt
          /\ lateCutOver' = IF RebuildAtStep(r, "switching") THEN lateCutOver \cup {r}
                            ELSE lateCutOver
      BY <2>6 DEF GiveUp, Abandon, RebuildAt
    <3>2. Underway(r)' => Underway(r)
      BY <3>1, AdvanceSteps DEF Underway, RebuildAtStep
    <3> QED
      BY <2>0, <3>1, <3>2, AdvanceAsked DEF ServiceInv
  <2>7. CASE LateCutOverLands(r) \/ LoseLock(r)
    <3>1. rebuild' = rebuild /\ lateCutOver' \subseteq lateCutOver
      BY <2>7 DEF LateCutOverLands, LoseLock
    <3> QED
      BY <3>1 DEF ServiceInv, AskedServe, Underway
  <2>8. CASE Reopen(r)
    <3>1. PICK at \in {"reopened", "failed"} : Advance(r, at)
      BY <2>8 DEF Reopen, Abandon
    <3>2. lateCutOver' = lateCutOver /\ r \notin lateCutOver
      BY <2>8 DEF Reopen, LateFailed, RebuildAtStep
    <3>3. ~Underway(r)'
      BY <3>1, <3>2, AdvanceSteps DEF Underway, RebuildAt
    <3> QED
      BY <3>1, <3>2, <3>3, AdvanceAsked DEF ServiceInv, RebuildAt
  <2> QED
    BY <1>2, <2>1, <2>2, <2>3, <2>4, <2>5, <2>6, <2>7, <2>8 DEF RebuildStep
<1> QED
  BY <1>1, <1>2, RelaySteps DEF RelayOnly, CommitCommand

LEMMA ServiceInvStep ==
  ASSUME CatalogInv, CutOverInv, ServiceInv, [Next]_vars
  PROVE  ServiceInv'
<1>1. AskedServe'
  BY AskedServeStep DEF CutOverInv
<1>2. CASE UNCHANGED <<readAlias, writeAlias>>
  BY <1>1, <1>2 DEF ServiceInv, AliasesServe
<1>3. ASSUME NEW r \in Rebuilds, CutOver(r, rebuild[r].read, rebuild[r].write), Underway(r)
      PROVE  ServiceInv'
  <2>1. PICK a \in Indices : readAlias = {a} /\ writeAlias = {a}
    BY DEF ServiceInv, AliasesServe
  <2>2. rebuild[r].read # {}
    BY <1>3 DEF ServiceInv, AskedServe
  <2>3. rebuild[r].read = {a} /\ rebuild[r].write = {a}
    BY <1>3, <2>1, <2>2 DEF CutOver, Switchable
  <2>4. readAlias' = {r} /\ writeAlias' = {r} /\ r \in Indices
    BY <1>3, <2>1, <2>3 DEF CutOver, Indices
  <2> QED
    BY <1>1, <2>4 DEF ServiceInv, AliasesServe
<1> QED
  BY <1>2, <1>3, AliasSteps

LEMMA ServiceInvHolds == InService = {TRUE} /\ SearchSpec => []ServiceInv
<1>1. InService = {TRUE} /\ Init => ServiceInv
  BY ServiceInvInit
<1>2. SearchInv /\ CutOverInv /\ ServiceInv /\ [Next]_vars => ServiceInv'
  BY ServiceInvStep DEF SearchInv
<1> QED
  BY <1>1, <1>2, SearchInvHolds, CutOverInvHolds, PTL DEF SearchSpec

(* Once an index is in service search and projection never part: only the  *)
(* very first activations can part them (see MCCatalogFirst).              *)
THEOREM AliasesStayTogether == InService = {TRUE} /\ SearchSpec => []AliasesTogether
<1>1. ServiceInv => AliasesTogether
  BY DEF ServiceInv, AliasesServe, AliasesTogether
<1> QED
  BY <1>1, ServiceInvHolds, PTL

(* The gate reopens only onto the index of the rebuild that owns it: no    *)
(* older request can have moved the aliases since it moved them itself.    *)
THEOREM GateReopensOntoOwnIndex ==
  InService = {TRUE} /\ SearchSpec => ReopensOntoOwnIndex
<1>1. SearchInv /\ CutOverInv /\ ServiceInv /\ [Next]_vars
        => [owner # NoRebuild /\ owner' = NoRebuild
              => readAlias = {owner} /\ writeAlias = {owner}]_vars
  <2>1. ASSUME SearchInv, CutOverInv, ServiceInv, [Next]_vars,
               owner # NoRebuild, owner' = NoRebuild
        PROVE  readAlias = {owner} /\ writeAlias = {owner}
    <3>1. PICK r \in Rebuilds : RebuildStep(r)
      BY <2>1, RelaySteps DEF SearchInv, RelayOnly, CommitCommand
    <3>2. Reopen(r)
      BY <2>1, <3>1, SearchAssumption
      DEF RebuildStep, CloseGate, LockGate, StartBuild, VerifyIndex, SendCutOver,
          CutOverAnswered, GiveUp, LateCutOverLands, LoseLock, AskAlias, IndexBatch, Abandon,
          gateVars
    <3>3. RebuildAtStep(r, "switched") /\ Owns(r)
      BY <2>1, <3>2 DEF Reopen, Abandon
    <3>4. writeAlias = {owner}
      BY <2>1, <3>3 DEF CutOverInv, OwnerSwitched, Owns
    <3> QED
      BY <2>1, <3>4 DEF ServiceInv, AliasesServe
  <2> QED
    BY <2>1
<1> QED
  BY <1>1, SearchInvHolds, CutOverInvHolds, ServiceInvHolds, PTL
  DEF SearchSpec, ReopensOntoOwnIndex

-----------------------------------------------------------------------------
(* Documents.  What one relay, the writes on their way, an index and the   *)
(* catalog may do in one step.                                             *)
JobStep(w) ==
  \/ At(w, "idle")'
  \/ At(w, "claimed")' /\ Claimable(worker'[w].event) /\ UNCHANGED history
  \/ /\ ~At(w, "idle") /\ worker'[w].event = worker[w].event
     /\ \/ worker'[w].at \in {"admitted", "refused", "failed"}
        \/ /\ worker'[w].at = worker[w].at
           /\ worker'[w].target = worker[w].target /\ worker'[w].entry = worker[w].entry
        \/ At(w, "admitted") /\ At(w, "pinned")' /\ writeAlias = {worker'[w].target}
        \/ At(w, "pinned") /\ At(w, "confirmed")' /\ worker'[w].target = worker[w].target
        \/ /\ At(w, "confirmed") /\ At(w, "sent")' /\ worker'[w].target = worker[w].target
           /\ worker'[w].entry = CurrentEntry(worker[w].event[1]) /\ UNCHANGED history
        \/ /\ At(w, "sent") /\ At(w, "conflict")'
           /\ worker'[w].target = worker[w].target /\ worker'[w].entry = worker[w].entry
           /\ Conflicts(worker[w].target, worker[w].event[1], worker[w].entry)
           /\ UNCHANGED index
        \/ /\ At(w, "sent") /\ At(w, "synced")'
           /\ Put(worker[w].target, worker[w].event[1], worker[w].entry)
           /\ worker'[w].target = worker[w].target
        \/ At(w, "conflict") /\ At(w, "synced")' /\ worker'[w].target = worker[w].target
        \/ At(w, "synced") /\ At(w, "done")'

LateStep ==
  \A x \in late' : x \in late \/ \E w \in Workers : x \in Pending(w)

IndexStep ==
  \/ UNCHANGED index
  \/ \E w \in Workers : /\ At(w, "sent") /\ UNCHANGED history
                        /\ Put(worker[w].target, worker[w].event[1], worker[w].entry)
  \/ \E x \in late : Put(x.target, x.product, x.entry) /\ UNCHANGED history
  \/ \E i \in Indices, p \in Products :
       DeletesForgotten /\ Forget(i, p) /\ UNCHANGED history
  \/ \E r \in Rebuilds, p \in Products :
       /\ RebuildAtStep(r, "building") /\ UNCHANGED history
       /\ index' = [index EXCEPT ![r][p] = CurrentEntry(p)]

LEMMA JobStays ==
  ASSUME NEW w \in Workers, worker'[w] = worker[w]
  PROVE  JobStep(w)
BY DEF JobStep, At

LEMMA MoveSteps ==
  ASSUME CatalogInv, NEW w \in Workers, NEW at \in WorkerAt, Move(w, at)
  PROVE  /\ worker'[w].at = at /\ worker'[w].event = worker[w].event
         /\ worker'[w].target = worker[w].target /\ worker'[w].entry = worker[w].entry
         /\ \A v \in Workers \ {w} : worker'[v] = worker[v]
<1>1. worker \in [Workers -> Job] /\ worker[w] \in Job
  BY DEF CatalogInv, SearchTypeOK
<1>2. worker' = [worker EXCEPT ![w] = [worker[w] EXCEPT !.at = at]]
  BY DEF Move
<1>3. worker'[w] = [worker[w] EXCEPT !.at = at]
  BY <1>1, <1>2
<1> QED
  BY <1>1, <1>2, <1>3 DEF Job

LEMMA JobSteps ==
  ASSUME CatalogInv, [Next]_vars, NEW v \in Workers
  PROVE  JobStep(v)
<1>0. worker \in [Workers -> Job] /\ worker[v] \in Job
  BY DEF CatalogInv, SearchTypeOK
<1>1. CASE UNCHANGED worker
  BY <1>1, JobStays
<1>2. ASSUME NEW w \in Workers, worker' = [worker EXCEPT ![w] = Resting]
      PROVE  JobStep(v)
  <2>1. CASE v = w
    BY <1>0, <1>2, <2>1 DEF JobStep, At, Resting
  <2>2. CASE v # w
    BY <1>0, <1>2, <2>2, JobStays
  <2> QED
    BY <2>1, <2>2
<1>3. ASSUME NEW w \in Workers, worker' = [worker EXCEPT ![w].owns = FALSE], Working(w)
      PROVE  JobStep(v)
  <2>1. CASE v = w
    <3>1. worker'[v] = [worker[v] EXCEPT !.owns = FALSE]
      BY <1>0, <1>3, <2>1
    <3>2. /\ worker'[v].at = worker[v].at /\ worker'[v].event = worker[v].event
          /\ worker'[v].target = worker[v].target /\ worker'[v].entry = worker[v].entry
      BY <1>0, <3>1 DEF Job
    <3>3. ~At(v, "idle")
      BY <1>3, <2>1 DEF Working, At
    <3> QED
      BY <3>2, <3>3 DEF JobStep
  <2>2. CASE v # w
    BY <1>0, <1>3, <2>2, JobStays
  <2> QED
    BY <2>1, <2>2
<1>4. ASSUME NEW w \in Workers, NEW e \in Events, Claim(w, e)
      PROVE  JobStep(v)
  <2>1. CASE v = w
    BY <1>0, <1>4, <2>1 DEF Claim, JobStep, At, Resting
  <2>2. CASE v # w
    BY <1>0, <1>4, <2>2, JobStays DEF Claim
  <2> QED
    BY <2>1, <2>2
<1>5. ASSUME NEW w \in Workers, NEW at \in {"admitted", "refused", "failed"}, Move(w, at),
             ~At(w, "idle")
      PROVE  JobStep(v)
  <2>1. /\ worker'[w].at = at /\ worker'[w].event = worker[w].event
        /\ \A u \in Workers \ {w} : worker'[u] = worker[u]
    BY <1>5, MoveSteps DEF WorkerAt
  <2> QED
    BY <1>5, <2>1, JobStays DEF JobStep
<1>6. ASSUME NEW w \in Workers, Admit(w) \/ WriteRefused(w) \/ WriteTimesOut(w)
      PROVE  JobStep(v)
  <2>1. \E at \in {"admitted", "refused", "failed"} : Move(w, at)
    BY <1>6 DEF Admit, WriteRefused, WriteTimesOut
  <2> QED
    BY <1>5, <1>6, <2>1 DEF Admit, WriteRefused, WriteTimesOut, At
<1>7. ASSUME NEW w \in Workers, Resolve(w)
      PROVE  JobStep(v)
  <2>1. CASE Move(w, "failed")
    BY <1>5, <1>7, <2>1 DEF Resolve, At
  <2>2. ASSUME NEW i \in Indices, writeAlias = {i},
               worker' = [worker EXCEPT ![w].at = "pinned", ![w].target = i]
        PROVE  JobStep(v)
    <3>1. CASE v = w
      <4>1. worker'[v] = [worker[v] EXCEPT !.at = "pinned", !.target = i]
        BY <1>0, <2>2, <3>1
      <4>2. worker'[v].at = "pinned" /\ worker'[v].target = i /\ worker'[v].event = worker[v].event
        BY <1>0, <4>1 DEF Job
      <4> QED
        BY <1>7, <2>2, <3>1, <4>2 DEF Resolve, JobStep, At
    <3>2. CASE v # w
      BY <1>0, <2>2, <3>2, JobStays
    <3> QED
      BY <3>1, <3>2
  <2> QED
    BY <1>7, <2>1, <2>2 DEF Resolve
<1>8. ASSUME NEW w \in Workers, Read(w)
      PROVE  JobStep(v)
  <2>1. CASE v = w
    <3> DEFINE entry == CurrentEntry(worker[w].event[1])
    <3>1. worker' = [worker EXCEPT ![w].at = "sent", ![w].entry = entry]
      BY <1>8 DEF Read
    <3> HIDE DEF entry
    <3>2. worker'[v] = [worker[v] EXCEPT !.at = "sent", !.entry = entry]
      BY <1>0, <2>1, <3>1
    <3>3. /\ worker'[v].at = "sent" /\ worker'[v].entry = entry
          /\ worker'[v].event = worker[v].event /\ worker'[v].target = worker[v].target
      BY <1>0, <3>2 DEF Job
    <3> QED
      BY <1>8, <2>1, <3>3 DEF Read, JobStep, At, entry
  <2>2. CASE v # w
    BY <1>0, <1>8, <2>2, JobStays DEF Read
  <2> QED
    BY <2>1, <2>2
<1>9. ASSUME NEW w \in Workers, Confirm(w) \/ WriteAnswered(w) \/ Verify(w) \/ EndProjection(w)
      PROVE  JobStep(v)
  <2>1. PICK at \in {"confirmed", "synced", "conflict", "done", "failed"} :
          /\ Move(w, at)
          /\ \/ at = "failed" /\ ~At(w, "idle")
             \/ At(w, "pinned") /\ at = "confirmed"
             \/ /\ At(w, "sent") /\ at = "conflict" /\ UNCHANGED index
                /\ Conflicts(worker[w].target, worker[w].event[1], worker[w].entry)
             \/ /\ At(w, "sent") /\ at = "synced"
                /\ Put(worker[w].target, worker[w].event[1], worker[w].entry)
             \/ At(w, "conflict") /\ at = "synced"
             \/ At(w, "synced") /\ at = "done"
    <3>1. CASE Confirm(w)
      BY <3>1 DEF Confirm, At
    <3>2. CASE WriteAnswered(w)
      BY <3>2 DEF WriteAnswered, At, indexVars
    <3>3. CASE Verify(w)
      BY <3>3 DEF Verify, At
    <3>4. CASE EndProjection(w)
      BY <3>4 DEF EndProjection, At
    <3> QED
      BY <1>9, <3>1, <3>2, <3>3, <3>4
  <2>2. /\ worker'[w].at = at /\ worker'[w].event = worker[w].event
        /\ worker'[w].target = worker[w].target /\ worker'[w].entry = worker[w].entry
        /\ \A u \in Workers \ {w} : worker'[u] = worker[u]
    BY <2>1, MoveSteps DEF WorkerAt
  <2>3. CASE v = w
    <3>1. ~At(v, "idle")
      BY <2>1, <2>3 DEF At
    <3> QED
      BY <2>1, <2>2, <2>3, <3>1 DEF JobStep, At
  <2>4. CASE v # w
    BY <2>2, <2>4, JobStays
  <2> QED
    BY <2>3, <2>4
<1>10. ASSUME NEW w \in Workers,
              \/ MarkProcessed(w) \/ DeferForMaintenance(w) \/ MarkFailed(w)
              \/ Relinquish(w) \/ Heartbeat(w) \/ CrashWorker(w) \/ LoseGate(w)
       PROVE  JobStep(v)
  BY <1>1, <1>2, <1>3, <1>10 DEF MarkProcessed, DeferForMaintenance, MarkFailed, Release,
     Relinquish, Heartbeat, CrashWorker, LoseGate
<1>11. ASSUME NEW r \in Rebuilds, RebuildStep(r)
       PROVE  UNCHANGED worker
  BY <1>11
  DEF RebuildStep, CloseGate, LockGate, StartBuild, VerifyIndex, SendCutOver, CutOverAnswered,
      GiveUp, LateCutOverLands, LoseLock, Reopen, AskAlias, IndexBatch, Abandon
<1>12. CASE \/ EditorStep \/ UNCHANGED vars
            \/ \E x \in late : LateWriteLands(x)
            \/ \E e \in Events : LeaseRunsOut(e)
            \/ \E chosen \in SUBSET Events : RetryDeadLetters(chosen)
            \/ \E i \in Indices, p \in Products : ForgetDeletion(i, p)
  <2>1. UNCHANGED worker
    BY <1>12 DEF EditorStep, BeginCommand, RollBackCommand, CommitCommand, LateWriteLands,
       LeaseRunsOut, RetryDeadLetters, ForgetDeletion, vars
  <2> QED
    BY <1>1, <2>1
<1> QED
  BY <1>1, <1>4, <1>6, <1>7, <1>8, <1>9, <1>10, <1>11, <1>12 DEF Next, WorkerStep, WorkerFault

LEMMA LateSteps ==
  ASSUME CatalogInv, [Next]_vars
  PROVE  LateStep
<1>1. CASE late' \subseteq late
  BY <1>1 DEF LateStep
<1>2. ASSUME NEW w \in Workers, WriteTimesOut(w) \/ CrashWorker(w)
      PROVE  LateStep
  BY <1>2 DEF WriteTimesOut, CrashWorker, LateStep
<1>3. CASE EditorStep
  BY <1>1, <1>3 DEF EditorStep, BeginCommand, RollBackCommand, CommitCommand
<1>4. ASSUME NEW w \in Workers, WorkerStep(w)
      PROVE  LateStep
  BY <1>1, <1>4 DEF WorkerStep, Claim, Admit, Resolve, Confirm, Read, WriteAnswered, Verify,
     EndProjection, MarkProcessed, DeferForMaintenance, MarkFailed, Release, Relinquish
<1>5. ASSUME NEW w \in Workers, WorkerFault(w)
      PROVE  LateStep
  BY <1>1, <1>2, <1>5 DEF WorkerFault, WriteRefused, Heartbeat, LoseGate
<1>6. ASSUME NEW r \in Rebuilds, RebuildStep(r)
      PROVE  LateStep
  BY <1>1, <1>6
  DEF RebuildStep, CloseGate, LockGate, StartBuild, VerifyIndex, SendCutOver, CutOverAnswered,
      GiveUp, LateCutOverLands, LoseLock, Reopen, AskAlias, IndexBatch, Abandon
<1>7. CASE \/ UNCHANGED vars
           \/ \E x \in late : LateWriteLands(x)
           \/ \E e \in Events : LeaseRunsOut(e)
           \/ \E chosen \in SUBSET Events : RetryDeadLetters(chosen)
           \/ \E i \in Indices, p \in Products : ForgetDeletion(i, p)
  BY <1>1, <1>7 DEF LateWriteLands, LeaseRunsOut, RetryDeadLetters, ForgetDeletion, vars
<1> QED
  BY <1>3, <1>4, <1>5, <1>6, <1>7 DEF Next

LEMMA IndexSteps ==
  ASSUME CatalogInv, [Next]_vars
  PROVE  IndexStep
<1> USE DEF indexVars
<1>1. ASSUME NEW w \in Workers, WriteAnswered(w)
      PROVE  IndexStep
  BY <1>1 DEF WriteAnswered, IndexStep
<1>2. ASSUME NEW x \in late, LateWriteLands(x)
      PROVE  IndexStep
  BY <1>2 DEF LateWriteLands, Destination, IndexStep
<1>3. ASSUME NEW i \in Indices, NEW p \in Products, ForgetDeletion(i, p)
      PROVE  IndexStep
  BY <1>3 DEF ForgetDeletion, IndexStep
<1>4. ASSUME NEW r \in Rebuilds, NEW p \in Products, IndexBatch(r, p)
      PROVE  IndexStep
  BY <1>4 DEF IndexBatch, Abandon, IndexStep
<1>5. CASE EditorStep
  BY <1>5 DEF EditorStep, BeginCommand, RollBackCommand, CommitCommand, IndexStep
<1>6. ASSUME NEW w \in Workers, WorkerStep(w) \/ WorkerFault(w), ~WriteAnswered(w)
      PROVE  IndexStep
  BY <1>6 DEF WorkerStep, WorkerFault, Claim, Admit, Resolve, Confirm, Read, Verify,
     EndProjection, MarkProcessed, DeferForMaintenance, MarkFailed, Release, Relinquish,
     WriteRefused, WriteTimesOut, Heartbeat, CrashWorker, LoseGate, IndexStep
<1>7. ASSUME NEW r \in Rebuilds, RebuildStep(r)
      PROVE  IndexStep
  BY <1>4, <1>7
  DEF RebuildStep, CloseGate, LockGate, StartBuild, VerifyIndex, SendCutOver, CutOverAnswered,
      GiveUp, LateCutOverLands, LoseLock, Reopen, AskAlias, Abandon, CutOver, IndexStep
<1>8. CASE \/ UNCHANGED vars
           \/ \E e \in Events : LeaseRunsOut(e)
           \/ \E chosen \in SUBSET Events : RetryDeadLetters(chosen)
  BY <1>8 DEF LeaseRunsOut, RetryDeadLetters, vars, IndexStep
<1> QED
  BY <1>1, <1>2, <1>3, <1>5, <1>6, <1>7, <1>8 DEF Next

(* The catalog only grows: what a revision was it stays. *)
LEMMA HistoryGrows ==
  ASSUME CatalogInv, [Next]_vars, NEW p \in Products
  PROVE  /\ Revision(p) \in Nat /\ Revision(p)' \in Nat /\ Revision(p) <= Revision(p)'
         /\ \A r \in 1 .. Revision(p) : history'[p][r] = history[p][r]
<1>0. Revision(p) \in Nat
  BY DEF CatalogInv, SearchTypeOK, Revision
<1>1. CASE UNCHANGED history
  BY <1>0, <1>1 DEF Revision
<1>2. ASSUME NEW c \in Editors, NEW q \in Products, CommitCommand(c, q)
      PROVE  /\ Revision(p)' \in Nat /\ Revision(p) <= Revision(p)'
             /\ \A r \in 1 .. Revision(p) : history'[p][r] = history[p][r]
  <2>1. PICK row \in Row : Save(q, row)
    BY <1>2, CommandSaves DEF CommitCommand
  <2>2. history \in [Products -> Seq(Row)] /\ history[q] \in Seq(Row)
    BY DEF CatalogInv, SearchTypeOK
  <2>3. history' = [history EXCEPT ![q] = Append(history[q], row)]
    BY <2>1 DEF Save
  <2>4. CASE p = q
    <3>1. history'[p] = Append(history[p], row)
      BY <2>2, <2>3, <2>4
    <3>2. /\ Len(Append(history[p], row)) = Len(history[p]) + 1
          /\ \A r \in 1 .. Len(history[p]) : Append(history[p], row)[r] = history[p][r]
      BY <2>2, <2>4, AppendProperties
    <3> QED
      BY <1>0, <3>1, <3>2 DEF Revision
  <2>5. CASE p # q
    BY <1>0, <2>2, <2>3, <2>5 DEF Revision
  <2> QED
    BY <2>4, <2>5
<1>3. UNCHANGED history \/ \E c \in Editors, q \in Products : CommitCommand(c, q)
  <2>1. ASSUME NEW r \in Rebuilds, RebuildStep(r)
        PROVE  UNCHANGED history
    BY <2>1
    DEF RebuildStep, CloseGate, LockGate, StartBuild, VerifyIndex, SendCutOver,
        CutOverAnswered, GiveUp, LateCutOverLands, LoseLock, Reopen, AskAlias, IndexBatch,
        Abandon
  <2> QED
    BY <2>1, RelaySteps DEF RelayOnly
<1> QED
  BY <1>0, <1>1, <1>2, <1>3

(* Whatever is in an index or on its way to one was the catalog at some    *)
(* time, and a relay sends what is no older than the event it delivers.    *)
Truthful(p, entry) ==
  /\ entry.version \in 1 .. Revision(p)
  /\ entry.live = Searchable(history[p][entry.version])

IndexKnown == \A i \in Indices, p \in Products : index[i][p].version <= Revision(p)

JobsKnown ==
  \A w \in Workers : ~At(w, "idle") => worker[w].event[2] <= Revision(worker[w].event[1])

JobsTruthful ==
  \A w \in Workers : worker[w].at \in {"sent", "conflict"} =>
    /\ Truthful(worker[w].event[1], worker[w].entry)
    /\ worker[w].event[2] <= worker[w].entry.version

LateTruthful == \A x \in late : Truthful(x.product, x.entry)

VersionInv == IndexKnown /\ JobsKnown /\ JobsTruthful /\ LateTruthful

LEMMA EventParts ==
  ASSUME NEW e \in Events
  PROVE  e[1] \in Products /\ e[2] \in 1 .. MaxRevision /\ e[2] \in Nat /\ e[2] > 0
BY CatalogAssumption DEF Events

LEMMA IndexKnownStep ==
  ASSUME CatalogInv, VersionInv, [Next]_vars
  PROVE  IndexKnown'
<1>0. index \in [Indices -> [Products -> Entry]]
  BY DEF CatalogInv, SearchTypeOK, IndexTypeOK
<1>1. ASSUME NEW i \in Indices, NEW p \in Products, NEW entry \in Entry, UNCHANGED history,
             index' = [index EXCEPT ![i][p] = entry], entry.version <= Revision(p)
      PROVE  IndexKnown'
  <2>1. ASSUME NEW j \in Indices, NEW q \in Products
        PROVE  index'[j][q].version <= Revision(q)'
    <3>1. CASE j = i /\ q = p
      BY <1>0, <1>1, <3>1 DEF Revision
    <3>2. CASE ~(j = i /\ q = p)
      <4>1. index'[j][q] = index[j][q]
        BY <1>0, <1>1, <3>2
      <4> QED
        BY <1>1, <4>1 DEF VersionInv, IndexKnown, Revision
    <3> QED
      BY <3>1, <3>2
  <2> QED
    BY <2>1 DEF IndexKnown
<1>2. CASE UNCHANGED index
  <2>1. \A i \in Indices, p \in Products :
          index[i][p].version \in Nat /\ index[i][p].version <= Revision(p)
    BY <1>0, CatalogAssumption DEF VersionInv, IndexKnown, Entry
  <2> QED
    BY <1>2, <2>1, HistoryGrows DEF IndexKnown
<1>3. ASSUME NEW w \in Workers, At(w, "sent"), UNCHANGED history,
             Put(worker[w].target, worker[w].event[1], worker[w].entry)
      PROVE  IndexKnown'
  <2>1. /\ worker[w].target \in Indices /\ worker[w].entry \in Entry
        /\ worker[w].event[1] \in Products
    BY <1>3, EventTyped DEF At, Job
  <2>2. worker[w].entry.version <= Revision(worker[w].event[1])
    BY <1>3 DEF VersionInv, JobsTruthful, Truthful, At
  <2> QED
    BY <1>1, <1>3, <2>1, <2>2 DEF Put
<1>4. ASSUME NEW x \in late, Put(x.target, x.product, x.entry), UNCHANGED history
      PROVE  IndexKnown'
  <2>1. x.target \in Indices /\ x.product \in Products /\ x.entry \in Entry
    BY DEF CatalogInv, SearchTypeOK, Write
  <2>2. x.entry.version <= Revision(x.product)
    BY DEF VersionInv, LateTruthful, Truthful
  <2> QED
    BY <1>1, <1>4, <2>1, <2>2 DEF Put
<1>5. ASSUME NEW i \in Indices, NEW p \in Products, Forget(i, p), UNCHANGED history
      PROVE  IndexKnown'
  <2>1. Absent.version <= Revision(p)
    BY HistoryGrows DEF Absent
  <2> QED
    BY <1>1, <1>5, <2>1, AbsentTyped DEF Forget
<1>6. ASSUME NEW r \in Rebuilds, NEW p \in Products, UNCHANGED history,
             index' = [index EXCEPT ![r][p] = CurrentEntry(p)]
      PROVE  IndexKnown'
  <2>1. r \in Indices /\ CurrentEntry(p) \in Entry
    BY CurrentEntryTyped DEF Indices, CatalogInv, SearchTypeOK
  <2>2. CurrentEntry(p).version <= Revision(p)
    BY HistoryGrows DEF CurrentEntry
  <2> QED
    BY <1>1, <1>6, <2>1, <2>2
<1> QED
  BY <1>2, <1>3, <1>4, <1>5, <1>6, IndexSteps DEF IndexStep

LEMMA JobsTruthfulStep ==
  ASSUME CatalogInv, RowsFollowHistory, VersionInv, [Next]_vars
  PROVE  JobsKnown' /\ JobsTruthful'
<1>1. ASSUME NEW w \in Workers, ~At(w, "idle")'
      PROVE  worker'[w].event[2] <= Len(history'[worker'[w].event[1]])
  <2>1. worker'[w].event \in Events
    BY <1>1, StepTyped DEF CatalogInv, JobsHaveEvents, At
  <2>2. PICK e \in Events : worker'[w].event = e
    BY <2>1
  <2>3. e[1] \in Products /\ e[2] \in Nat
    BY EventParts
  <2>4. e[2] <= Revision(e[1])
    <3>1. CASE At(w, "claimed")' /\ Claimable(worker'[w].event) /\ UNCHANGED history
      <4>1. status[e] # "NONE"
        BY <2>2, <3>1 DEF Claimable
      <4>2. Revision(e[1]) \in Nat
        BY <2>3, HistoryGrows
      <4> QED
        BY <2>3, <4>1, <4>2 DEF RowsFollowHistory, Revision
    <3>2. CASE ~At(w, "idle") /\ worker'[w].event = worker[w].event
      BY <2>2, <3>2 DEF VersionInv, JobsKnown
    <3> QED
      BY <1>1, <3>1, <3>2, JobSteps DEF JobStep
  <2>5. Revision(e[1]) \in Nat /\ Revision(e[1])' \in Nat /\ Revision(e[1]) <= Revision(e[1])'
    BY <2>3, HistoryGrows
  <2> QED
    BY <2>2, <2>3, <2>4, <2>5 DEF Revision
<1>2. ASSUME NEW w \in Workers, worker'[w].at \in {"sent", "conflict"}
      PROVE  /\ worker'[w].entry.version \in 1 .. Len(history'[worker'[w].event[1]])
             /\ worker'[w].entry.live
                  = Searchable(history'[worker'[w].event[1]][worker'[w].entry.version])
             /\ worker'[w].event[2] <= worker'[w].entry.version
  <2>1. /\ ~At(w, "idle") /\ worker'[w].event = worker[w].event
        /\ \/ /\ worker[w].at \in {"sent", "conflict"}
              /\ worker'[w].entry = worker[w].entry
           \/ worker'[w].entry = CurrentEntry(worker[w].event[1])
    BY <1>2, JobSteps DEF JobStep, At
  <2>2. PICK e \in Events : worker[w].event = e
    BY <2>1, EventTyped
  <2>3. PICK entry : worker'[w].entry = entry
    OBVIOUS
  <2>4. e[1] \in Products /\ e[2] \in Nat /\ e[2] > 0
    BY EventParts
  <2>5. /\ Revision(e[1]) \in Nat /\ Revision(e[1])' \in Nat /\ Revision(e[1]) <= Revision(e[1])'
        /\ \A r \in 1 .. Revision(e[1]) : history'[e[1]][r] = history[e[1]][r]
    BY <2>4, HistoryGrows
  <2>6. /\ entry.version \in 1 .. Revision(e[1])
        /\ entry.live = Searchable(history[e[1]][entry.version])
        /\ e[2] <= entry.version
    <3>1. CASE worker[w].at \in {"sent", "conflict"} /\ worker'[w].entry = worker[w].entry
      BY <2>2, <2>3, <3>1 DEF VersionInv, JobsTruthful, Truthful
    <3>2. CASE worker'[w].entry = CurrentEntry(worker[w].event[1])
      <4>1. entry.version = Revision(e[1]) /\ entry.live = Searchable(history[e[1]][Revision(e[1])])
        BY <2>2, <2>3, <3>2 DEF CurrentEntry, Current
      <4>2. e[2] <= Revision(e[1])
        BY <2>1, <2>2 DEF VersionInv, JobsKnown
      <4> QED
        BY <2>4, <2>5, <4>1, <4>2
    <3> QED
      BY <2>1, <3>1, <3>2
  <2>7. /\ entry.version \in 1 .. Len(history'[e[1]])
        /\ entry.live = Searchable(history'[e[1]][entry.version])
    BY <2>5, <2>6 DEF Revision
  <2> QED
    BY <2>1, <2>2, <2>3, <2>6, <2>7
<1> QED
  BY <1>1, <1>2 DEF JobsKnown, JobsTruthful, Truthful, Revision, At

LEMMA LateTruthfulStep ==
  ASSUME CatalogInv, VersionInv, [Next]_vars
  PROVE  LateTruthful'
<1>1. ASSUME NEW x \in late'
      PROVE  x.product \in Products /\ Truthful(x.product, x.entry)
  <2>1. CASE x \in late
    BY <2>1 DEF CatalogInv, SearchTypeOK, Write, VersionInv, LateTruthful
  <2>2. ASSUME NEW w \in Workers, x \in Pending(w)
        PROVE  x.product \in Products /\ Truthful(x.product, x.entry)
    <3>1. At(w, "sent") /\ x.product = worker[w].event[1] /\ x.entry = worker[w].entry
      BY <2>2 DEF Pending
    <3> QED
      BY <3>1, EventTyped DEF At, VersionInv, JobsTruthful
  <2> QED
    BY <2>1, <2>2, LateSteps DEF LateStep
<1>2. ASSUME NEW x \in late'
      PROVE  Truthful(x.product, x.entry)'
  <2> DEFINE p == x.product  entry == x.entry
  <2>1. /\ p \in Products /\ entry.version \in 1 .. Revision(p)
        /\ entry.live = Searchable(history[p][entry.version])
    BY <1>1, <1>2 DEF Truthful
  <2>2. /\ Revision(p) \in Nat /\ Revision(p)' \in Nat /\ Revision(p) <= Revision(p)'
        /\ \A r \in 1 .. Revision(p) : history'[p][r] = history[p][r]
    BY <2>1, HistoryGrows
  <2> QED
    BY <2>1, <2>2 DEF Truthful
<1> QED
  BY <1>2 DEF LateTruthful

LEMMA VersionInvInit ==
  ASSUME Init
  PROVE  VersionInv
<1>0. CatalogInv
  BY InitTyped
<1>1. \A p \in Products : Revision(p) \in Nat
  BY <1>0 DEF CatalogInv, SearchTypeOK, Revision
<1>2. IndexKnown
  <2>1. SUFFICES ASSUME NEW i \in Indices, NEW p \in Products
                 PROVE  index[i][p].version <= Revision(p)
    BY DEF IndexKnown
  <2>2. index[i][p] = Absent \/ index[i][p] = CurrentEntry(p)
    <3>1. CASE Served
      <4>1. index[i] = [q \in Products |->
              IF i = FirstIndex /\ Len(Past[q]) > 0 THEN CurrentEntry(q) ELSE Absent]
        BY <3>1 DEF Served
      <4> QED
        BY <4>1
    <3>2. CASE Unserved
      BY <3>2 DEF Unserved
    <3> QED
      BY <3>1, <3>2 DEF Init
  <2>3. Absent.version = 0 /\ CurrentEntry(p).version = Revision(p)
    BY DEF Absent, CurrentEntry
  <2> QED
    BY <1>1, <2>2, <2>3
<1>3. JobsKnown /\ JobsTruthful /\ LateTruthful
  BY DEF Init, JobsKnown, JobsTruthful, LateTruthful, At, Resting
<1> QED
  BY <1>2, <1>3 DEF VersionInv

LEMMA VersionInvHolds == SearchSpec => []VersionInv
<1>1. Init => VersionInv
  BY VersionInvInit
<1>2. SearchInv /\ VersionInv /\ [Next]_vars => VersionInv'
  BY IndexKnownStep, JobsTruthfulStep, LateTruthfulStep DEF SearchInv, VersionInv
<1> QED
  BY <1>1, <1>2, SearchInvHolds, PTL DEF SearchSpec

(* What a step does to one document of an index that no rebuild is filling. *)
LEMMA DocumentSteps ==
  ASSUME CatalogInv, [Next]_vars, NEW a \in Indices, NEW p \in Products,
         a \in Rebuilds => ~RebuildAtStep(a, "building")
  PROVE  \/ index'[a][p] = index[a][p]
         \/ /\ UNCHANGED <<history, readAlias, writeAlias>>
            /\ index'[a][p].version > index[a][p].version
            /\ \/ \E w \in Workers : /\ At(w, "sent") /\ worker[w].target = a
                                     /\ worker[w].event[1] = p
                                     /\ index'[a][p] = worker[w].entry
               \/ \E x \in late : x.target = a /\ x.product = p /\ index'[a][p] = x.entry
         \/ DeletesForgotten /\ ~index[a][p].live
<1>0. index \in [Indices -> [Products -> Entry]]
  BY DEF CatalogInv, SearchTypeOK, IndexTypeOK
<1>1. ASSUME NEW i \in Indices, NEW q \in Products, NEW entry,
             index' = [index EXCEPT ![i][q] = entry]
      PROVE  \/ index'[a][p] = index[a][p] /\ ~(a = i /\ p = q)
             \/ a = i /\ p = q /\ index'[a][p] = entry
  <2>1. CASE a = i /\ p = q
    BY <1>0, <1>1, <2>1
  <2>2. CASE ~(a = i /\ p = q)
    BY <1>0, <1>1, <2>2
  <2> QED
    BY <2>1, <2>2
<1>2. ASSUME NEW w \in Workers, At(w, "sent"), UNCHANGED history,
             Put(worker[w].target, worker[w].event[1], worker[w].entry)
      PROVE  \/ index'[a][p] = index[a][p]
             \/ /\ UNCHANGED <<history, readAlias, writeAlias>>
                /\ index'[a][p].version > index[a][p].version
                /\ worker[w].target = a /\ worker[w].event[1] = p
                /\ index'[a][p] = worker[w].entry
  <2>1. worker[w].target \in Indices /\ worker[w].event[1] \in Products
    BY <1>2, EventTyped DEF At, Job
  <2>2. /\ index' = [index EXCEPT ![worker[w].target][worker[w].event[1]] = worker[w].entry]
        /\ worker[w].entry.version > index[worker[w].target][worker[w].event[1]].version
        /\ UNCHANGED <<readAlias, writeAlias>>
    BY <1>2 DEF Put, Accepts
  <2> QED
    BY <1>1, <1>2, <2>1, <2>2
<1>3. ASSUME NEW x \in late, Put(x.target, x.product, x.entry), UNCHANGED history
      PROVE  \/ index'[a][p] = index[a][p]
             \/ /\ UNCHANGED <<history, readAlias, writeAlias>>
                /\ index'[a][p].version > index[a][p].version
                /\ x.target = a /\ x.product = p /\ index'[a][p] = x.entry
  <2>1. x.target \in Indices /\ x.product \in Products
    BY DEF CatalogInv, SearchTypeOK, Write
  <2>2. /\ index' = [index EXCEPT ![x.target][x.product] = x.entry]
        /\ x.entry.version > index[x.target][x.product].version
        /\ UNCHANGED <<readAlias, writeAlias>>
    BY <1>3 DEF Put, Accepts
  <2> QED
    BY <1>1, <1>3, <2>1, <2>2
<1>4. ASSUME NEW i \in Indices, NEW q \in Products, DeletesForgotten, Forget(i, q)
      PROVE  index'[a][p] = index[a][p] \/ (DeletesForgotten /\ ~index[a][p].live)
  BY <1>1, <1>4 DEF Forget
<1>5. ASSUME NEW r \in Rebuilds, NEW q \in Products, RebuildAtStep(r, "building"),
             index' = [index EXCEPT ![r][q] = CurrentEntry(q)]
      PROVE  index'[a][p] = index[a][p]
  BY <1>1, <1>5 DEF Indices
<1> QED
  BY <1>2, <1>3, <1>4, <1>5, IndexSteps DEF IndexStep

(* An index in service is filled by no rebuild. *)
LEMMA ServedNotFilled ==
  ASSUME CutOverInv, NEW a \in writeAlias, a \in Rebuilds
  PROVE  ~RebuildAtStep(a, "building") /\ ~Unswitched(a)
BY DEF CutOverInv, NewIndexUnknown, Unswitched, RebuildAtStep

LEMMA ShownTyped ==
  ASSUME CatalogInv, NEW a \in Indices, NEW p \in Products
  PROVE  /\ index[a][p].version \in Nat /\ index[a][p].live \in BOOLEAN
         /\ Shown(a, p) \in Nat /\ Shown(a, p) <= index[a][p].version
<1>1. index[a][p] \in Entry
  BY DEF CatalogInv, SearchTypeOK, IndexTypeOK
<1>2. index[a][p].version \in 0 .. MaxRevision /\ index[a][p].live \in BOOLEAN
  BY <1>1 DEF Entry
<1> QED
  BY <1>2, CatalogAssumption DEF Shown

LEMMA RegressStep ==
  ASSUME CatalogInv, CutOverInv, ServiceInv, VersionInv, [Next]_vars,
         NEW p \in Products, NEW i \in readAlias, NEW j \in readAlias',
         Shown(i, p) > 0, Shown(j, p)' > 0
  PROVE  Shown(j, p)' >= Shown(i, p)
<1>1. PICK a \in Indices : readAlias = {a} /\ writeAlias = {a}
  BY DEF ServiceInv, AliasesServe
<1>2. i = a /\ index[a][p].live /\ Shown(a, p) = index[a][p].version
  BY <1>1 DEF Shown
<1>3. Shown(a, p) \in Nat /\ index[a][p].version \in Nat
  BY ShownTyped
<1>4. CASE UNCHANGED <<readAlias, writeAlias>>
  <2>1. j = a
    BY <1>1, <1>4
  <2>2. index'[a][p].live /\ Shown(a, p)' = index'[a][p].version
    BY <2>1 DEF Shown
  <2>3. CatalogInv'
    BY StepTyped
  <2>4. index'[a][p].version \in Nat
    <3>1. index'[a][p] \in Entry
      BY <2>3 DEF CatalogInv, SearchTypeOK, IndexTypeOK
    <3> QED
      BY <3>1, CatalogAssumption DEF Entry
  <2>5. index'[a][p] = index[a][p] \/ index'[a][p].version > index[a][p].version
    BY <1>1, <1>2, DocumentSteps, ServedNotFilled
  <2> QED
    BY <1>2, <1>3, <2>1, <2>2, <2>4, <2>5
<1>5. ASSUME NEW r \in Rebuilds, CutOver(r, rebuild[r].read, rebuild[r].write), Underway(r),
             Matches(r)', UNCHANGED history
      PROVE  Shown(j, p)' >= Shown(i, p)
  <2>1. ServiceInv'
    BY ServiceInvStep
  <2>2. j = r
    BY <1>5, <2>1 DEF CutOver, ServiceInv, AliasesServe
  <2>3. Shown(r, p)' = IF Revision(p)' = 0 THEN 0 ELSE Projection(p, Revision(p))'
    BY <1>5 DEF Matches, Revision, Projection
  <2>4. Shown(j, p)' = Revision(p)
    BY <1>5, <2>2, <2>3 DEF Projection, Revision
  <2>5. index[a][p].version <= Revision(p)
    BY DEF VersionInv, IndexKnown
  <2>6. Revision(p) \in Nat
    BY HistoryGrows
  <2> QED
    BY <1>2, <1>3, <2>4, <2>5, <2>6
<1> QED
  BY <1>4, <1>5, AliasSteps

(* The revision a search finds a product at never goes back while the      *)
(* product stays visible, whatever arrives late and wherever the alias     *)
(* moves, and even if deletions are forgotten.                             *)
THEOREM SearchNeverRegresses ==
  InService = {TRUE} /\ SearchSpec => DocumentsNeverRegress
<1>1. SearchInv /\ CutOverInv /\ ServiceInv /\ VersionInv /\ [Next]_vars
        => [\A p \in Products, i \in readAlias, j \in readAlias' :
              Shown(i, p) > 0 /\ Shown(j, p)' > 0 => Shown(j, p)' >= Shown(i, p)]_vars
  BY RegressStep DEF SearchInv
<1> QED
  BY <1>1, SearchInvHolds, CutOverInvHolds, ServiceInvHolds, VersionInvHolds, PTL
  DEF SearchSpec, DocumentsNeverRegress

-----------------------------------------------------------------------------
(* PROCESSED means visible.  As long as deletions are remembered, what the *)
(* index in service holds of a product is what the catalog was at some     *)
(* revision m; every event that is PROCESSED, or about to be, is covered   *)
(* by m, and whatever may still arrive is no older than m or refused.      *)
NotOlder(a, p, m, entry) == entry.version >= m \/ entry.version <= index[a][p].version

DocumentAt(a, p, m) ==
  /\ index[a][p].version <= m
  /\ Shown(a, p) = IF m = 0 THEN 0 ELSE Projection(p, m)

RowsAt(p, m) == \A e \in Events : e[1] = p /\ status[e] = "PROCESSED" => e[2] <= m

JobAt(w, a, p, m) ==
  worker[w].event[1] = p =>
    /\ worker[w].at \in {"synced", "done"} => worker[w].event[2] <= m
    /\ worker[w].at \in {"pinned", "confirmed", "sent", "conflict"} /\ worker[w].target # a
         => worker[w].event[2] <= m
    /\ worker[w].at \in {"sent", "conflict"} /\ worker[w].target = a
         => NotOlder(a, p, m, worker[w].entry)

LateAt(a, p, m) ==
  \A x \in late : x.product = p /\ x.target = a => NotOlder(a, p, m, x.entry)

VisibleAt(a, p, m) ==
  /\ DocumentAt(a, p, m)
  /\ RowsAt(p, m)
  /\ \A w \in Workers : JobAt(w, a, p, m)
  /\ LateAt(a, p, m)

VisibleInv ==
  \A a \in readAlias, p \in Products : \E m \in 0 .. Revision(p) : VisibleAt(a, p, m)

(* A relay that met a conflict met something no older than what it sent.   *)
ConflictInv ==
  \A w \in Workers : At(w, "conflict") =>
    worker[w].entry.version <= index[worker[w].target][worker[w].event[1]].version

(* While deletions are remembered no version in an index gets smaller.     *)
LEMMA VersionsGrow ==
  ASSUME CatalogInv, DeletesForgotten = FALSE, [Next]_vars,
         NEW i \in Indices, NEW p \in Products, i \in Rebuilds => ~RebuildAtStep(i, "building")
  PROVE  index'[i][p].version >= index[i][p].version
<1>1. index[i][p].version \in Nat
  BY ShownTyped
<1>2. CatalogInv'
  BY StepTyped
<1>3. index'[i][p].version \in Nat
  <2>1. index'[i][p] \in Entry
    BY <1>2 DEF CatalogInv, SearchTypeOK, IndexTypeOK
  <2> QED
    BY <2>1, CatalogAssumption DEF Entry
<1> QED
  BY <1>1, <1>3, DocumentSteps

LEMMA PinnedNotFilled ==
  ASSUME CutOverInv, NEW w \in Workers, worker[w].target \in Rebuilds
  PROVE  ~RebuildAtStep(worker[w].target, "building")
BY DEF CutOverInv, NewIndexUnknown, Pinned, Unswitched, RebuildAtStep

LEMMA ConflictInvStep ==
  ASSUME CatalogInv, CutOverInv, VersionInv, ConflictInv, DeletesForgotten = FALSE, [Next]_vars
  PROVE  ConflictInv'
<1>1. SUFFICES ASSUME NEW w \in Workers, At(w, "conflict")'
               PROVE  worker'[w].entry.version
                        <= index'[worker'[w].target][worker'[w].event[1]].version
  BY DEF ConflictInv
<1>2. /\ ~At(w, "idle") /\ worker'[w].event = worker[w].event
      /\ worker'[w].target = worker[w].target /\ worker'[w].entry = worker[w].entry
      /\ \/ At(w, "conflict")
         \/ /\ Conflicts(worker[w].target, worker[w].event[1], worker[w].entry)
            /\ UNCHANGED index
  BY <1>1, JobSteps DEF JobStep, At
<1>3. PICK i \in Indices, p \in Products, entry \in Entry :
        worker[w].target = i /\ worker[w].event[1] = p /\ worker[w].entry = entry
  BY <1>2, EventTyped DEF Job
<1>4. entry.version \in Nat
  BY CatalogAssumption DEF Entry
<1>5. index[i][p].version \in Nat
  BY ShownTyped
<1>6. entry.version <= index[i][p].version
  BY <1>2, <1>3, <1>4, <1>5 DEF ConflictInv, Conflicts, Accepts
<1>7. index'[i][p].version >= index[i][p].version
  <2>1. i \in Rebuilds => ~RebuildAtStep(i, "building")
    BY <1>3, PinnedNotFilled
  <2> QED
    BY <2>1, VersionsGrow
<1>8. index'[i][p].version \in Nat
  <2>1. CatalogInv'
    BY StepTyped
  <2>2. index'[i][p] \in Entry
    BY <2>1 DEF CatalogInv, SearchTypeOK, IndexTypeOK
  <2> QED
    BY <2>2, CatalogAssumption DEF Entry
<1> QED
  BY <1>2, <1>3, <1>4, <1>5, <1>6, <1>7, <1>8

LEMMA ConflictInvHolds ==
  ASSUME DeletesForgotten = FALSE
  PROVE  SearchSpec => []ConflictInv
<1>1. Init => ConflictInv
  BY DEF Init, ConflictInv, At, Resting
<1>2. SearchInv /\ CutOverInv /\ VersionInv /\ ConflictInv /\ [Next]_vars => ConflictInv'
  BY ConflictInvStep DEF SearchInv
<1> QED
  BY <1>1, <1>2, SearchInvHolds, CutOverInvHolds, VersionInvHolds, PTL DEF SearchSpec

(* A row becomes PROCESSED only by a relay that is done with it. *)
LEMMA ProcessedSteps ==
  ASSUME CatalogInv, [Next]_vars, NEW e \in Events, status'[e] = "PROCESSED"
  PROVE  \/ status[e] = "PROCESSED"
         \/ \E w \in Workers : At(w, "done") /\ worker[w].event = e
<1>0. status \in [Events -> {"NONE"} \cup OutboxStatus]
  BY DEF CatalogInv, SearchTypeOK
<1>1. CASE RowsKept
  BY <1>1 DEF RowsKept
<1>2. ASSUME NEW c \in Editors, NEW p \in Products, CommitCommand(c, p)
      PROVE  status[e] = "PROCESSED"
  BY <1>0, <1>2, CommitSteps
<1>3. ASSUME NEW w \in Workers, NEW f \in Events, Claim(w, f)
      PROVE  status[e] = "PROCESSED"
  BY <1>0, <1>3 DEF Claim
<1>4. ASSUME NEW w \in Workers, ReleaseStep(w)
      PROVE  status[e] = "PROCESSED" \/ (At(w, "done") /\ worker[w].event = e)
  <2>1. worker[w].event \in Events
    BY <1>4, ReleaseSteps, EventTyped
  <2>2. CASE MarkProcessed(w)
    BY <1>0, <2>1, <2>2 DEF MarkProcessed, Release
  <2>3. CASE DeferForMaintenance(w)
    BY <1>0, <2>1, <2>3 DEF DeferForMaintenance, Release
  <2>4. CASE MarkFailed(w)
    BY <1>0, <2>1, <2>4 DEF MarkFailed, Release
  <2> QED
    BY <1>4, <2>2, <2>3, <2>4 DEF ReleaseStep
<1>5. ASSUME NEW chosen \in SUBSET Events, RetryDeadLetters(chosen)
      PROVE  status[e] = "PROCESSED"
  BY <1>0, <1>5 DEF RetryDeadLetters
<1> QED
  BY <1>1, <1>2, <1>3, <1>4, <1>5, RowSteps

(* What the invariant asks of a relay survives the step of that relay. *)
LEMMA JobAtStep ==
  ASSUME CatalogInv, VersionInv, ConflictInv, [Next]_vars,
         NEW a \in Indices, writeAlias = {a}, NEW p \in Products,
         NEW m \in 0 .. Revision(p), VisibleAt(a, p, m), NEW n \in Nat, m <= n,
         \/ n = m /\ index'[a][p] = index[a][p]
         \/ index'[a][p].version = n,
         NEW w \in Workers
  PROVE  JobAt(w, a, p, n)'
<1>1. SUFFICES ASSUME worker'[w].event[1] = p,
                      worker'[w].at \in {"pinned", "confirmed", "sent", "conflict", "synced", "done"}
               PROVE  JobAt(w, a, p, n)'
  BY DEF JobAt
<1>2. ~At(w, "idle") /\ worker'[w].event = worker[w].event
  BY <1>1, JobSteps DEF JobStep, At
<1>3. PICK e \in Events : worker[w].event = e
  BY <1>2, EventTyped
<1>4. e[1] = p /\ e[2] \in Nat
  BY <1>1, <1>2, <1>3, EventParts
<1>5. m \in Nat /\ index[a][p].version \in Nat /\ index[a][p].version <= m
  <2>1. m \in Nat
    BY HistoryGrows
  <2> QED
    BY <2>1, ShownTyped DEF VisibleAt, DocumentAt
<1>6. JobAt(w, a, p, m)
  BY DEF VisibleAt
<1>7. ASSUME NEW entry \in Entry, NotOlder(a, p, m, entry)
      PROVE  NotOlder(a, p, n, entry)'
  <2>1. entry.version \in Nat
    BY CatalogAssumption DEF Entry
  <2>2. CASE n = m /\ index'[a][p] = index[a][p]
    BY <1>7, <2>2 DEF NotOlder
  <2>3. CASE index'[a][p].version = n
    BY <2>1, <2>3 DEF NotOlder
  <2> QED
    BY <2>2, <2>3
<1>8. CASE worker'[w].at \in {"synced", "done"}
  <2>1. SUFFICES e[2] <= n
    BY <1>2, <1>3, <1>8 DEF JobAt
  <2>2. CASE worker[w].at \in {"synced", "done"}
    BY <1>3, <1>4, <1>5, <1>6, <2>2 DEF JobAt
  <2>3. CASE worker[w].at \in {"sent", "conflict"} /\ worker[w].target # a
    BY <1>3, <1>4, <1>5, <1>6, <2>3 DEF JobAt
  <2>4. CASE worker[w].at \in {"sent", "conflict"} /\ worker[w].target = a
    <3>1. worker[w].entry \in Entry /\ worker[w].entry.version \in Nat
      BY <1>2, EventTyped, CatalogAssumption DEF Job, Entry
    <3>2. e[2] <= worker[w].entry.version
      BY <1>3, <2>4 DEF VersionInv, JobsTruthful
    <3>3. CASE At(w, "conflict")
      <4>1. worker[w].entry.version <= index[a][p].version
        BY <1>3, <1>4, <2>4, <3>3 DEF ConflictInv
      <4> QED
        BY <1>4, <1>5, <3>1, <3>2, <4>1
    <3>4. CASE At(w, "sent")
      <4>1. Put(a, p, worker[w].entry)
        BY <1>3, <1>4, <1>8, <2>4, <3>4, JobSteps DEF JobStep, At
      <4>2. /\ index'[a][p] = worker[w].entry
            /\ worker[w].entry.version > index[a][p].version
        <5>1. index \in [Indices -> [Products -> Entry]]
          BY DEF CatalogInv, SearchTypeOK, IndexTypeOK
        <5>2. /\ index' = [index EXCEPT ![a][p] = worker[w].entry]
              /\ worker[w].entry.version > index[a][p].version
          BY <4>1 DEF Put, Accepts
        <5> QED
          BY <5>1, <5>2
      <4>3. index'[a][p].version = n
        BY <1>5, <3>1, <4>2
      <4> QED
        BY <3>2, <4>2, <4>3
    <3> QED
      BY <2>4, <3>3, <3>4 DEF At
  <2>5. worker[w].at \in {"synced", "done", "sent", "conflict"}
    BY <1>8, JobSteps DEF JobStep, At
  <2> QED
    BY <2>2, <2>3, <2>4, <2>5
<1>9. CASE worker'[w].at \in {"pinned", "confirmed", "sent", "conflict"}
  <2>1. CASE At(w, "admitted")
    <3>1. At(w, "pinned")' /\ worker'[w].target = a
      BY <1>9, <2>1, JobSteps DEF JobStep, At
    <3> QED
      BY <3>1 DEF JobAt, At
  <2>2. CASE ~At(w, "admitted")
    <3>1. /\ worker'[w].target = worker[w].target
          /\ worker[w].at \in {"pinned", "confirmed", "sent", "conflict"}
          /\ \/ worker'[w].at \notin {"sent", "conflict"}
             \/ worker[w].at \in {"sent", "conflict"} /\ worker'[w].entry = worker[w].entry
             \/ worker'[w].entry = CurrentEntry(worker[w].event[1])
      BY <1>9, <2>2, JobSteps DEF JobStep, At
    <3>2. worker'[w].target # a => e[2] <= n
      BY <1>3, <1>4, <1>5, <1>6, <3>1 DEF JobAt
    <3>3. ASSUME worker'[w].at \in {"sent", "conflict"}, worker'[w].target = a
          PROVE  NotOlder(a, p, m, worker'[w].entry)
      <4>1. CASE worker[w].at \in {"sent", "conflict"} /\ worker'[w].entry = worker[w].entry
        BY <1>3, <1>4, <1>6, <3>1, <3>3, <4>1 DEF JobAt
      <4>2. CASE worker'[w].entry = CurrentEntry(worker[w].event[1])
        <5>1. worker'[w].entry.version = Revision(p)
          BY <1>3, <1>4, <4>2 DEF CurrentEntry
        <5> QED
          BY <5>1, HistoryGrows DEF NotOlder
      <4> QED
        BY <3>1, <3>3, <4>1, <4>2
    <3>4. PICK entry \in Entry : worker'[w].entry = entry
      BY StepTyped DEF CatalogInv, SearchTypeOK, Job
    <3>5. ASSUME worker'[w].at \in {"sent", "conflict"}, worker'[w].target = a
          PROVE  NotOlder(a, p, n, entry)'
      BY <1>7, <3>3, <3>4, <3>5
    <3> QED
      BY <1>2, <1>3, <1>9, <3>2, <3>4, <3>5 DEF JobAt, NotOlder
  <2> QED
    BY <2>1, <2>2
<1> QED
  BY <1>1, <1>8, <1>9

LEMMA LateAtStep ==
  ASSUME CatalogInv, [Next]_vars, NEW a \in Indices, NEW p \in Products,
         NEW m \in Nat, VisibleAt(a, p, m), NEW n \in Nat,
         \/ n = m /\ index'[a][p] = index[a][p]
         \/ index'[a][p].version = n
  PROVE  LateAt(a, p, n)'
<1>1. SUFFICES ASSUME NEW x \in late', x.product = p, x.target = a
               PROVE  x.entry.version >= n \/ x.entry.version <= index'[a][p].version
  BY DEF LateAt, NotOlder
<1>2. x.entry.version \in Nat
  <2>1. x \in Write
    BY StepTyped DEF CatalogInv, SearchTypeOK
  <2> QED
    BY <2>1, CatalogAssumption DEF Write, Entry
<1>3. CASE n = m /\ index'[a][p] = index[a][p]
  <2>1. NotOlder(a, p, m, x.entry)
    <3>1. CASE x \in late
      BY <1>1, <3>1 DEF VisibleAt, LateAt
    <3>2. ASSUME NEW w \in Workers, x \in Pending(w)
          PROVE  NotOlder(a, p, m, x.entry)
      <4>1. /\ At(w, "sent") /\ worker[w].event[1] = p /\ worker[w].target = a
            /\ worker[w].entry = x.entry
        BY <1>1, <3>2 DEF Pending
      <4> QED
        BY <4>1 DEF VisibleAt, JobAt, At
    <3> QED
      BY <3>1, <3>2, LateSteps DEF LateStep
  <2> QED
    BY <1>3, <2>1 DEF NotOlder
<1>4. CASE index'[a][p].version = n
  BY <1>2, <1>4
<1> QED
  BY <1>3, <1>4

LEMMA VisibleAtStep ==
  ASSUME CatalogInv, VersionInv, ConflictInv, [Next]_vars,
         NEW a \in Indices, writeAlias = {a}, NEW p \in Products,
         NEW m \in 0 .. Revision(p), VisibleAt(a, p, m), NEW n \in Nat, m <= n,
         \/ n = m /\ index'[a][p] = index[a][p]
         \/ index'[a][p].version = n,
         DocumentAt(a, p, n)'
  PROVE  VisibleAt(a, p, n)'
<1>1. m \in Nat
  BY HistoryGrows
<1>2. RowsAt(p, n)'
  <2>1. SUFFICES ASSUME NEW e \in Events, e[1] = p, status'[e] = "PROCESSED"
                 PROVE  e[2] <= n
    BY DEF RowsAt
  <2>2. e[2] <= m
    BY <2>1, ProcessedSteps DEF VisibleAt, RowsAt, JobAt, At
  <2> QED
    BY <1>1, <2>2, EventParts
<1>3. \A w \in Workers : JobAt(w, a, p, n)'
  BY JobAtStep
<1>4. LateAt(a, p, n)'
  BY <1>1, LateAtStep
<1> QED
  BY <1>2, <1>3, <1>4 DEF VisibleAt

(* The alias stays: the document is as it was, or a newer one came in. *)
LEMMA VisibleWithoutMove ==
  ASSUME CatalogInv, CutOverInv, VersionInv, ConflictInv, DeletesForgotten = FALSE, [Next]_vars,
         NEW a \in Indices, writeAlias = {a}, NEW p \in Products,
         NEW m \in 0 .. Revision(p), VisibleAt(a, p, m)
  PROVE  \E n \in 0 .. Revision(p)' : VisibleAt(a, p, n)'
<1>1. /\ Revision(p) \in Nat /\ Revision(p)' \in Nat /\ Revision(p) <= Revision(p)'
      /\ \A r \in 1 .. Revision(p) : history'[p][r] = history[p][r]
  BY HistoryGrows
<1>2. m \in Nat /\ m <= Revision(p)
  BY <1>1
<1>3. DocumentAt(a, p, m) /\ index[a][p].version \in Nat
  BY ShownTyped DEF VisibleAt
<1>4. CASE index'[a][p] = index[a][p]
  <2>1. DocumentAt(a, p, m)'
    <3>1. m > 0 => Projection(p, m)' = Projection(p, m)
      BY <1>1, <1>2 DEF Projection
    <3> QED
      BY <1>2, <1>3, <1>4, <3>1 DEF DocumentAt, Shown
  <2>2. VisibleAt(a, p, m)'
    BY <1>2, <1>4, <2>1, VisibleAtStep
  <2> QED
    BY <1>1, <1>2, <2>2
<1>5. ASSUME NEW entry \in Entry, index'[a][p] = entry, UNCHANGED history,
             entry.version > index[a][p].version, Truthful(p, entry),
             NotOlder(a, p, m, entry)
      PROVE  \E n \in 0 .. Revision(p)' : VisibleAt(a, p, n)'
  <2> DEFINE n == entry.version
  <2>1. n \in Nat /\ n \in 1 .. Revision(p) /\ m <= n
    BY <1>1, <1>2, <1>3, <1>5 DEF Truthful, NotOlder
  <2>2. DocumentAt(a, p, n)'
    <3>1. entry.live = Searchable(history[p][n])
      BY <1>5 DEF Truthful
    <3>2. Projection(p, n)' = IF entry.live THEN n ELSE 0
      BY <1>5, <3>1 DEF Projection
    <3>3. Shown(a, p)' = IF entry.live THEN n ELSE 0
      BY <1>5 DEF Shown
    <3> QED
      BY <1>5, <2>1, <3>2, <3>3 DEF DocumentAt
  <2>3. VisibleAt(a, p, n)'
    BY <1>5, <2>1, <2>2, VisibleAtStep
  <2> QED
    BY <1>1, <2>1, <2>3
<1>6. ASSUME NEW w \in Workers, At(w, "sent"), worker[w].target = a,
             worker[w].event[1] = p, index'[a][p] = worker[w].entry, UNCHANGED history,
             index'[a][p].version > index[a][p].version
      PROVE  \E n \in 0 .. Revision(p)' : VisibleAt(a, p, n)'
  <2>1. PICK entry \in Entry : worker[w].entry = entry
    BY <1>6, EventTyped DEF At, Job
  <2>2. Truthful(p, entry)
    BY <1>6, <2>1 DEF VersionInv, JobsTruthful, At
  <2>3. NotOlder(a, p, m, entry)
    BY <1>6, <2>1 DEF VisibleAt, JobAt, At
  <2> QED
    BY <1>5, <1>6, <2>1, <2>2, <2>3
<1>7. ASSUME NEW x \in late, x.target = a, x.product = p, index'[a][p] = x.entry,
             UNCHANGED history, index'[a][p].version > index[a][p].version
      PROVE  \E n \in 0 .. Revision(p)' : VisibleAt(a, p, n)'
  <2>1. x.entry \in Entry
    BY DEF CatalogInv, SearchTypeOK, Write
  <2>2. Truthful(p, x.entry)
    BY <1>7 DEF VersionInv, LateTruthful
  <2>3. NotOlder(a, p, m, x.entry)
    BY <1>7 DEF VisibleAt, LateAt
  <2> QED
    BY <1>5, <1>7, <2>1, <2>2, <2>3
<1>8. a \in Rebuilds => ~RebuildAtStep(a, "building")
  BY ServedNotFilled
<1> QED
  BY <1>4, <1>6, <1>7, <1>8, DocumentSteps

(* The alias moves: the new index shows every product as it is, and        *)
(* nothing is on its way to it yet.                                        *)
LEMMA VisibleAfterMove ==
  ASSUME CatalogInv, RowsFollowHistory, CutOverInv, VersionInv, [Next]_vars,
         NEW r \in Rebuilds, CutOver(r, rebuild[r].read, rebuild[r].write), Underway(r),
         Matches(r), UNCHANGED <<history, status, worker, late>>, NEW p \in Products
  PROVE  VisibleAt(r, p, Revision(p))'
<1>1. UNCHANGED index /\ r \in Indices
  BY DEF CutOver, Indices
<1>2. PICK m \in Nat : Revision(p) = m /\ Revision(p)' = m
  BY HistoryGrows DEF Revision
<1>3. DocumentAt(r, p, m)'
  <2>1. Shown(r, p) = IF m = 0 THEN 0 ELSE Projection(p, m)
    BY <1>2 DEF Matches
  <2>2. index[r][p].version <= m
    BY <1>1, <1>2 DEF VersionInv, IndexKnown
  <2> QED
    BY <1>1, <2>1, <2>2 DEF DocumentAt, Shown, Projection
<1>4. ASSUME NEW e \in Events, e[1] = p, status[e] # "NONE"
      PROVE  e[2] <= m
  BY <1>2, <1>4, EventParts DEF RowsFollowHistory, Revision
<1>5. ASSUME NEW w \in Workers, ~At(w, "idle"), worker[w].event[1] = p
      PROVE  worker[w].event[2] <= m
  BY <1>2, <1>5 DEF VersionInv, JobsKnown
<1>6. ~Pinned(r)
  BY UnderwayUnswitched DEF CutOverInv, NewIndexUnknown
<1>7. RowsAt(p, m)'
  BY <1>4 DEF RowsAt
<1>8. ASSUME NEW w \in Workers
      PROVE  JobAt(w, r, p, m)'
  BY <1>5, <1>6 DEF JobAt, Pinned, At
<1>9. LateAt(r, p, m)'
  BY <1>6 DEF LateAt, Pinned
<1> QED
  BY <1>2, <1>3, <1>7, <1>8, <1>9 DEF VisibleAt

LEMMA VisibleInvStep ==
  ASSUME CatalogInv, RowsFollowHistory, CutOverInv, ServiceInv, VersionInv, ConflictInv,
         VisibleInv, DeletesForgotten = FALSE, [Next]_vars
  PROVE  VisibleInv'
<1>1. PICK a \in Indices : readAlias = {a} /\ writeAlias = {a}
  BY DEF ServiceInv, AliasesServe
<1>2. CASE UNCHANGED <<readAlias, writeAlias>>
  <2>1. SUFFICES ASSUME NEW p \in Products
                 PROVE  \E n \in 0 .. Revision(p)' : VisibleAt(a, p, n)'
    BY <1>1, <1>2 DEF VisibleInv
  <2>2. PICK m \in 0 .. Revision(p) : VisibleAt(a, p, m)
    BY <1>1 DEF VisibleInv
  <2> QED
    BY <1>1, <2>2, VisibleWithoutMove
<1>3. ASSUME NEW r \in Rebuilds, CutOver(r, rebuild[r].read, rebuild[r].write), Underway(r),
             Matches(r), UNCHANGED <<history, status, worker, late>>
      PROVE  VisibleInv'
  <2>1. readAlias' = {r}
    <3>1. ServiceInv'
      BY ServiceInvStep
    <3> QED
      BY <1>3, <3>1 DEF CutOver, ServiceInv, AliasesServe
  <2>2. SUFFICES ASSUME NEW p \in Products
                 PROVE  \E n \in 0 .. Revision(p)' : VisibleAt(r, p, n)'
    BY <2>1 DEF VisibleInv
  <2>3. PICK m \in Nat : Revision(p) = m /\ Revision(p)' = m
    BY <1>3, HistoryGrows DEF Revision
  <2>4. VisibleAt(r, p, m)'
    BY <1>3, <2>3, VisibleAfterMove
  <2> QED
    BY <2>3, <2>4
<1> QED
  BY <1>2, <1>3, AliasSteps

LEMMA VisibleInvInit ==
  ASSUME Init, InService = {TRUE}
  PROVE  VisibleInv
<1>0. CatalogInv
  BY InitTyped
<1>1. Served /\ readAlias = {FirstIndex} /\ history = Past
  BY DEF Init, Served
<1>a. \A q \in Products : Revision(q) \in 0 .. Revision(q)
  BY <1>0 DEF CatalogInv, SearchTypeOK, Revision
<1>2. SUFFICES ASSUME NEW p \in Products
               PROVE  VisibleAt(FirstIndex, p, Revision(p))
  BY <1>1, <1>a DEF VisibleInv
<1>3. Revision(p) \in Nat
  BY <1>0 DEF CatalogInv, SearchTypeOK, Revision
<1>4. index[FirstIndex][p] = IF Revision(p) > 0 THEN CurrentEntry(p) ELSE Absent
  BY <1>1 DEF Served, Indices, Revision
<1>5. DocumentAt(FirstIndex, p, Revision(p))
  <2>1. CASE Revision(p) > 0
    <3>1. /\ index[FirstIndex][p].version = Revision(p)
          /\ index[FirstIndex][p].live = Searchable(history[p][Revision(p)])
      BY <1>4, <2>1 DEF CurrentEntry, Current
    <3> QED
      BY <1>3, <2>1, <3>1 DEF DocumentAt, Shown, Projection
  <2>2. CASE Revision(p) = 0
    BY <1>4, <2>2 DEF DocumentAt, Shown, Absent
  <2> QED
    BY <1>3, <2>1, <2>2
<1>6. RowsAt(p, Revision(p))
  <2>1. SUFFICES ASSUME NEW e \in Events, e[1] = p, status[e] = "PROCESSED"
                 PROVE  e[2] <= Len(Past[p])
    BY <1>1 DEF RowsAt, Revision
  <2>2. Len(Past[p]) \in Nat
    BY <1>1, <1>3 DEF Revision
  <2> QED
    BY <1>1, <2>1, <2>2, EventParts DEF Served
<1>7. \A w \in Workers : JobAt(w, FirstIndex, p, Revision(p))
  BY DEF Init, Resting, JobAt
<1>8. LateAt(FirstIndex, p, Revision(p))
  BY DEF Init, LateAt
<1> QED
  BY <1>5, <1>6, <1>7, <1>8 DEF VisibleAt

LEMMA VisibleInvHolds ==
  ASSUME DeletesForgotten = FALSE
  PROVE  InService = {TRUE} /\ SearchSpec => []VisibleInv
<1>1. InService = {TRUE} /\ Init => VisibleInv
  BY VisibleInvInit
<1>2. SearchInv /\ CutOverInv /\ ServiceInv /\ VersionInv /\ ConflictInv /\ VisibleInv
        /\ [Next]_vars => VisibleInv'
  BY VisibleInvStep DEF SearchInv
<1> QED
  BY <1>1, <1>2, SearchInvHolds, CutOverInvHolds, ServiceInvHolds, VersionInvHolds,
     ConflictInvHolds, PTL DEF SearchSpec

(* A search never finds a product as it was before a change whose event is *)
(* PROCESSED, for any number of relays and rebuilds, crashes, lost leases, *)
(* duplicate projections and requests that arrive late, as long as the     *)
(* search engine remembers its deletions.                                  *)
THEOREM ProcessedStaysVisible ==
  ASSUME DeletesForgotten = FALSE
  PROVE  InService = {TRUE} /\ SearchSpec => []ProcessedIsVisible
<1>1. ASSUME CatalogInv, VisibleInv
      PROVE  ProcessedIsVisible
  <2>1. SUFFICES ASSUME NEW e \in Events, status[e] = "PROCESSED", NEW i \in readAlias
                 PROVE  \E r \in e[2] .. Revision(e[1]) : Shown(i, e[1]) = Projection(e[1], r)
    BY DEF ProcessedIsVisible
  <2>2. e[1] \in Products /\ e[2] \in Nat /\ e[2] > 0
    BY EventParts
  <2>3. PICK m \in 0 .. Revision(e[1]) : VisibleAt(i, e[1], m)
    BY <1>1, <2>1, <2>2 DEF VisibleInv
  <2>4. Revision(e[1]) \in Nat
    BY <1>1, <2>2 DEF CatalogInv, SearchTypeOK, Revision
  <2>5. e[2] <= m
    BY <2>1, <2>3 DEF VisibleAt, RowsAt
  <2>6. m \in e[2] .. Revision(e[1]) /\ m # 0
    BY <2>2, <2>4, <2>5
  <2> QED
    BY <2>3, <2>6 DEF VisibleAt, DocumentAt
<1>2. SearchInv /\ VisibleInv => ProcessedIsVisible
  BY <1>1 DEF SearchInv
<1> QED
  BY <1>2, SearchInvHolds, VisibleInvHolds, PTL

===============================================================================
