----------------------------- MODULE CatalogSearch ------------------------------
(***************************************************************************)
(* From a catalog change to the search index (src/src/infra/search): the   *)
(* outbox row a command writes with its change, the relays that lease a    *)
(* row and project the product, the maintenance gate that keeps both out   *)
(* while an index is rebuilt, and the rebuild that moves the aliases.      *)
(*                                                                         *)
(* The gate is one database row.  Commands and projections hold it FOR     *)
(* SHARE until their transaction ends, a rebuild holds it FOR UPDATE, all  *)
(* with NOWAIT.  A session whose database connection dies loses the lock   *)
(* at once and learns of it at its next statement; meanwhile what it asked *)
(* of the search engine may still arrive.                                  *)
(*                                                                         *)
(* available_at is a moment that passes: a claim may simply come later,    *)
(* and in any order.                                                       *)
(***************************************************************************)
EXTENDS SearchIndex, FiniteSets

CONSTANTS
  Editors,         \* catalog commands that may be under way at once
  Workers,         \* the relays; a worker stands for its current lease token
  Repairs,         \* runs of search:reconcile --repair, see SearchRepair
  NoWorker,
  NoEvent,
  NoRebuild,
  Past,            \* Past[p]: the rows of product p at the start
  InService,       \* whether FirstIndex may, or may not, be behind the
                   \* aliases at the start
  MaxAttempts,     \* MAX_ATTEMPTS
  MaxRequeues,     \* bound: search:outbox:dead-letter:retry per row
  MaxFaults,       \* bound: crashes, dead connections, timeouts, lost leases
  DeletesForgotten \* whether deletions outlive index.gc_deletes

Events == Products \X (1 .. MaxRevision)

(* Whoever may hold the gate together with others. *)
Sessions == Editors \cup Workers \cup Repairs

ASSUME SearchAssumption ==
  /\ NoWorker \notin Workers
  /\ NoEvent \notin Events
  /\ NoRebuild \notin Rebuilds
  /\ Editors \cap Workers = {} /\ Repairs \cap (Editors \cup Workers) = {}
  /\ Past \in [Products -> Seq(Row)]
  /\ \A p \in Products : Len(Past[p]) <= MaxRevision
  /\ InService \subseteq BOOLEAN /\ DeletesForgotten \in BOOLEAN
  /\ MaxAttempts \in Nat \ {0}
  /\ MaxRequeues \in Nat /\ MaxFaults \in Nat

VARIABLES
  status,          \* SearchProjectionOutbox.status, "NONE" before the row exists
  attempts,        \* SearchProjectionOutbox.attempts
  lease,           \* the worker whose token the row holds
  overdue,         \* the events whose leased_until has passed
  requeues,        \* the rows of the retry history
  worker,          \* what each relay is doing
  late,            \* writes given up by their sender that may still arrive
  owner,           \* CatalogMaintenance.ownerToken
  shared,          \* the sessions that hold the gate FOR SHARE
  exclusive,       \* the rebuild that holds it FOR UPDATE
  rebuild,         \* what each rebuild is doing
  lateCutOver,     \* the rebuilds whose alias request may still arrive
  faults

outboxVars == <<status, attempts, lease, overdue, requeues>>
gateVars   == <<owner, shared, exclusive>>
vars == <<history, indexVars, outboxVars, worker, late, gateVars, rebuild,
          lateCutOver, faults>>

OutboxStatus == {"PENDING", "PROCESSING", "PROCESSED", "DEAD_LETTER"}

WorkerAt == {"idle", "claimed", "admitted", "pinned", "confirmed", "sent",
             "conflict", "synced", "done", "failed", "refused"}

Job == [at : WorkerAt, event : Events \cup {NoEvent}, tries : Nat,
        target : Indices, entry : Entry, owns : BOOLEAN]

Resting == [at |-> "idle", event |-> NoEvent, tries |-> 0,
            target |-> FirstIndex, entry |-> Absent, owns |-> FALSE]

Write == [target : Indices, product : Products, entry : Entry]

RebuildAt == {"off", "closed", "locked", "building", "verified", "switching",
              "switched", "reopened", "failed"}

Build == [at : RebuildAt, asked : SUBSET {"read", "write"},
          read : SUBSET Indices, write : SUBSET Indices, todo : SUBSET Products]

NotStarted == [at |-> "off", asked |-> {}, read |-> {}, write |-> {}, todo |-> Products]

SearchTypeOK ==
  /\ history \in [Products -> Seq(Row)]
  /\ IndexTypeOK
  /\ status \in [Events -> {"NONE"} \cup OutboxStatus]
  /\ attempts \in [Events -> Nat]
  /\ lease \in [Events -> Workers \cup {NoWorker}]
  /\ overdue \in SUBSET Events
  /\ requeues \in [Events -> 0 .. MaxRequeues]
  /\ worker \in [Workers -> Job]
  /\ late \in SUBSET Write
  /\ owner \in Rebuilds \cup {NoRebuild}
  /\ shared \in SUBSET Sessions
  /\ exclusive \in Rebuilds \cup {NoRebuild}
  /\ rebuild \in [Rebuilds -> Build]
  /\ lateCutOver \in SUBSET Rebuilds
  /\ faults \in 0 .. MaxFaults

(* Once an index is in service everything so far has been projected to it. *)
(* Before that every row of the outbox still waits.                        *)
Served ==
  /\ index = [i \in Indices |-> [p \in Products |->
       IF i = FirstIndex /\ Len(Past[p]) > 0 THEN CurrentEntry(p) ELSE Absent]]
  /\ readAlias = {FirstIndex}
  /\ status = [e \in Events |-> IF e[2] > Len(Past[e[1]]) THEN "NONE" ELSE "PROCESSED"]

Unserved ==
  /\ index = [i \in Indices |-> [p \in Products |-> Absent]]
  /\ readAlias = {}
  /\ status = [e \in Events |-> IF e[2] > Len(Past[e[1]]) THEN "NONE" ELSE "PENDING"]

Init ==
  /\ history = Past
  /\ \/ TRUE \in InService /\ Served
     \/ FALSE \in InService /\ Unserved
  /\ writeAlias = readAlias
  /\ attempts = [e \in Events |-> 0]
  /\ lease = [e \in Events |-> NoWorker]
  /\ overdue = {}
  /\ requeues = [e \in Events |-> 0]
  /\ worker = [w \in Workers |-> Resting]
  /\ late = {}
  /\ owner = NoRebuild
  /\ shared = {}
  /\ exclusive = NoRebuild
  /\ rebuild = [r \in Rebuilds |-> NotStarted]
  /\ lateCutOver = {}
  /\ faults = 0

Fault == faults < MaxFaults /\ faults' = faults + 1

-----------------------------------------------------------------------------
(* The gate and the catalog commands.                                      *)

(* Mutant of Writable: the lock is taken, the owner is not looked at. *)
Unlocked == exclusive = NoRebuild

(* assertCatalogWritable: FOR SHARE NOWAIT, and nobody owns the gate. *)
Writable == exclusive = NoRebuild /\ owner = NoRebuild

(* Mutant of Lockable: a command reads the gate without locking it. *)
LockableOverShares == exclusive = NoRebuild

(* lockExclusive: FOR UPDATE NOWAIT. *)
Lockable == exclusive = NoRebuild /\ shared = {}

BeginCommand(c) ==
  /\ c \notin shared /\ Writable
  /\ shared' = shared \cup {c}
  /\ UNCHANGED <<history, indexVars, outboxVars, worker, late, owner, exclusive,
                 rebuild, lateCutOver, faults>>

(* The command, its snapshot and its outbox row commit together. *)
CommitCommand(c, p) ==
  /\ c \in shared
  /\ Command(p)
  /\ status' = [status EXCEPT ![<<p, Revision(p) + 1>>] = "PENDING"]
  /\ shared' = shared \ {c}
  /\ UNCHANGED <<indexVars, attempts, lease, overdue, requeues, worker, late,
                 owner, exclusive, rebuild, lateCutOver, faults>>

(* A wrong expected revision, a broken rule or a dead connection. *)
RollBackCommand(c) ==
  /\ c \in shared
  /\ shared' = shared \ {c}
  /\ UNCHANGED <<history, indexVars, outboxVars, worker, late, owner, exclusive,
                 rebuild, lateCutOver, faults>>

-----------------------------------------------------------------------------
(* The relay.                                                              *)

At(w, at) == worker[w].at = at
Move(w, at) == worker' = [worker EXCEPT ![w].at = at]

(* Mutant of Claimable: expired leases are not looked for. *)
ClaimableFresh(e) == status[e] = "PENDING"

Claimable(e) == status[e] = "PENDING" \/ (status[e] = "PROCESSING" /\ e \in overdue)

(* claimOne.  The poll of a replica waits for a write alias; a drain from  *)
(* the command line does not ask.                                          *)
Claim(w, e) ==
  /\ At(w, "idle") /\ Claimable(e)
  /\ status' = [status EXCEPT ![e] = "PROCESSING"]
  /\ lease' = [lease EXCEPT ![e] = w]
  /\ overdue' = overdue \ {e}
  /\ worker' = [worker EXCEPT ![w] = [Resting EXCEPT !.at = "claimed", !.event = e,
                                      !.tries = attempts[e], !.owns = TRUE]]
  /\ UNCHANGED <<history, indexVars, attempts, requeues, late, gateVars, rebuild,
                 lateCutOver, faults>>

(* withProjection: CatalogMaintenanceError while the gate is shut. *)
Admit(w) ==
  /\ At(w, "claimed")
  /\ \/ Writable /\ Move(w, "admitted") /\ shared' = shared \cup {w}
     \/ ~Writable /\ Move(w, "refused") /\ UNCHANGED shared
  /\ UNCHANGED <<history, indexVars, outboxVars, late, owner, exclusive, rebuild,
                 lateCutOver, faults>>

(* resolveWriteTarget: the index behind the write alias, pinned under the  *)
(* alias of its own generation.                                            *)
Resolve(w) ==
  /\ At(w, "admitted")
  /\ \/ \E i \in Indices :
          /\ writeAlias = {i}
          /\ worker' = [worker EXCEPT ![w].at = "pinned", ![w].target = i]
          /\ UNCHANGED shared
     \/ /\ Cardinality(writeAlias) # 1
        /\ Move(w, "failed") /\ shared' = shared \ {w}
  /\ UNCHANGED <<history, indexVars, outboxVars, late, owner, exclusive, rebuild,
                 lateCutOver, faults>>

(* assertOwnership asks on the connection that holds the lock. *)
Confirm(w) ==
  /\ At(w, "pinned")
  /\ Move(w, IF w \in shared THEN "confirmed" ELSE "failed")
  /\ UNCHANGED <<history, indexVars, outboxVars, late, gateVars, rebuild,
                 lateCutOver, faults>>

(* findById and projectCatalogProduct: the write is fixed by the row as it *)
(* is now, which may be later than the event.                              *)
Read(w) ==
  /\ At(w, "confirmed")
  /\ worker' = [worker EXCEPT ![w].at = "sent",
                              ![w].entry = CurrentEntry(worker[w].event[1])]
  /\ UNCHANGED <<history, indexVars, outboxVars, late, gateVars, rebuild,
                 lateCutOver, faults>>

(* The answer to writeExternal or deleteExternal. *)
WriteAnswered(w) ==
  LET job == worker[w] IN
  /\ At(w, "sent")
  /\ \/ Put(job.target, job.event[1], job.entry) /\ Move(w, "synced")
     \/ Conflicts(job.target, job.event[1], job.entry) /\ Move(w, "conflict")
        /\ UNCHANGED indexVars
  /\ UNCHANGED <<history, outboxVars, late, gateVars, rebuild, lateCutOver, faults>>

(* An error of the engine, and a request given up that may still arrive.   *)
WriteRefused(w) ==
  /\ At(w, "sent") /\ Fault
  /\ Move(w, "failed") /\ shared' = shared \ {w}
  /\ UNCHANGED <<history, indexVars, outboxVars, late, owner, exclusive, rebuild,
                 lateCutOver>>

Pending(w) ==
  IF At(w, "sent")
  THEN {[target |-> worker[w].target, product |-> worker[w].event[1],
         entry |-> worker[w].entry]}
  ELSE {}

WriteTimesOut(w) ==
  /\ At(w, "sent") /\ Fault
  /\ late' = late \cup Pending(w)
  /\ Move(w, "failed") /\ shared' = shared \ {w}
  /\ UNCHANGED <<history, indexVars, outboxVars, owner, exclusive, rebuild,
                 lateCutOver>>

(* Mutant of Destination: the request names the write alias of the catalog. *)
FollowsAlias(write) == writeAlias

(* The pinned alias stays with its index. *)
Destination(write) == {write.target}

LateWriteLands(write) ==
  /\ write \in late
  /\ late' = late \ {write}
  /\ \/ \E i \in Destination(write) : Put(i, write.product, write.entry)
     \/ /\ \A i \in Destination(write) : Conflicts(i, write.product, write.entry)
        /\ UNCHANGED indexVars
  /\ UNCHANGED <<history, outboxVars, worker, gateVars, rebuild, lateCutOver, faults>>

(* assertAlreadyConverged: no document is wanted and there is none, or the *)
(* very document that is wanted is there.                                  *)
Converged(w) ==
  LET job  == worker[w]
      held == index[job.target][job.event[1]]
  IN IF job.entry.live THEN held = job.entry ELSE ~held.live

Verify(w) ==
  /\ At(w, "conflict")
  /\ \/ Converged(w) /\ Move(w, "synced") /\ UNCHANGED shared
     \/ ~Converged(w) /\ Move(w, "failed") /\ shared' = shared \ {w}
  /\ UNCHANGED <<history, indexVars, outboxVars, late, owner, exclusive, rebuild,
                 lateCutOver, faults>>

(* The projection transaction ends: on a dead connection it cannot. *)
EndProjection(w) ==
  /\ At(w, "synced")
  /\ Move(w, IF w \in shared THEN "done" ELSE "failed")
  /\ shared' = shared \ {w}
  /\ UNCHANGED <<history, indexVars, outboxVars, late, owner, exclusive, rebuild,
                 lateCutOver, faults>>

(* Mutant of Holds: the claim is trusted. *)
HoldsAnyway(w) == TRUE

(* executeLeaseUpdate: the condition of every update of a claimed row. *)
Holds(w) == LET e == worker[w].event IN status[e] = "PROCESSING" /\ lease[e] = w

(* renewLease.  A worker whose renewal finds no row, or fails, no longer   *)
(* owns the lease and leaves the row to the next claim.                    *)
Working(w) == worker[w].at \notin {"idle", "done", "failed", "refused"}

Heartbeat(w) ==
  /\ Working(w) /\ worker[w].owns
  /\ \/ /\ Holds(w) /\ worker[w].event \in overdue
        /\ overdue' = overdue \ {worker[w].event}
        /\ UNCHANGED <<worker, faults>>
     \/ /\ ~Holds(w)
        /\ worker' = [worker EXCEPT ![w].owns = FALSE]
        /\ UNCHANGED <<overdue, faults>>
     \/ /\ Fault
        /\ worker' = [worker EXCEPT ![w].owns = FALSE]
        /\ UNCHANGED overdue
  /\ UNCHANGED <<history, indexVars, status, attempts, lease, requeues, late,
                 gateVars, rebuild, lateCutOver>>

(* What an update of the claimed row does when the token still matches. *)
Release(w, s, n) ==
  LET e == worker[w].event IN
  /\ IF Holds(w)
     THEN /\ status' = [status EXCEPT ![e] = s]
          /\ attempts' = [attempts EXCEPT ![e] = @ + n]
          /\ lease' = [lease EXCEPT ![e] = NoWorker]
          /\ overdue' = overdue \ {e}
     ELSE UNCHANGED <<status, attempts, lease, overdue>>
  /\ worker' = [worker EXCEPT ![w] = Resting]
  /\ UNCHANGED <<history, indexVars, requeues, late, gateVars, rebuild, lateCutOver,
                 faults>>

MarkProcessed(w) ==
  /\ At(w, "done") /\ worker[w].owns
  /\ Release(w, "PROCESSED", 0)

DeferForMaintenance(w) ==
  /\ At(w, "refused") /\ worker[w].owns
  /\ Release(w, "PENDING", 0)

(* Mutant of Exhausted: the failure at hand is not counted. *)
ExhaustedBefore(w) == worker[w].tries >= MaxAttempts

(* The attempt that fails is counted on top of those seen at the claim.    *)
Exhausted(w) == worker[w].tries + 1 >= MaxAttempts

MarkFailed(w) ==
  /\ At(w, "failed") /\ worker[w].owns
  /\ Release(w, IF Exhausted(w) THEN "DEAD_LETTER" ELSE "PENDING", 1)

Relinquish(w) ==
  /\ worker[w].at \in {"done", "failed", "refused"} /\ ~worker[w].owns
  /\ worker' = [worker EXCEPT ![w] = Resting]
  /\ UNCHANGED <<history, indexVars, outboxVars, late, gateVars, rebuild,
                 lateCutOver, faults>>

(* Time passes.  The lease of a worker that is alive runs out only if its  *)
(* heartbeat is held up.                                                   *)
LeaseRunsOut(e) ==
  /\ status[e] = "PROCESSING" /\ e \notin overdue
  /\ overdue' = overdue \cup {e}
  /\ IF \E w \in Workers : worker[w].event = e /\ worker[w].owns /\ Holds(w)
     THEN Fault ELSE UNCHANGED faults
  /\ UNCHANGED <<history, indexVars, status, attempts, lease, requeues, worker, late,
                 gateVars, rebuild, lateCutOver>>

(* The process of a relay dies, or only its connection with the gate. *)
CrashWorker(w) ==
  /\ ~At(w, "idle") /\ Fault
  /\ late' = late \cup Pending(w)
  /\ worker' = [worker EXCEPT ![w] = Resting]
  /\ shared' = shared \ {w}
  /\ UNCHANGED <<history, indexVars, outboxVars, owner, exclusive, rebuild,
                 lateCutOver>>

LoseGate(w) ==
  /\ w \in shared /\ Fault
  /\ shared' = shared \ {w}
  /\ UNCHANGED <<history, indexVars, outboxVars, worker, late, owner, exclusive,
                 rebuild, lateCutOver>>

(* retryDeadLetters: the rows chosen are requeued together, each with its  *)
(* line in the retry history.  attempts stays as it is.                    *)
RetryDeadLetters(chosen) ==
  /\ chosen # {}
  /\ \A e \in chosen : status[e] = "DEAD_LETTER" /\ requeues[e] < MaxRequeues
  /\ status' = [e \in Events |-> IF e \in chosen THEN "PENDING" ELSE status[e]]
  /\ requeues' = [e \in Events |-> IF e \in chosen THEN requeues[e] + 1 ELSE requeues[e]]
  /\ lease' = [e \in Events |-> IF e \in chosen THEN NoWorker ELSE lease[e]]
  /\ overdue' = overdue \ chosen
  /\ UNCHANGED <<history, indexVars, attempts, worker, late, gateVars, rebuild,
                 lateCutOver, faults>>

ForgetDeletion(i, p) ==
  /\ DeletesForgotten
  /\ Forget(i, p)
  /\ UNCHANGED <<history, outboxVars, worker, late, gateVars, rebuild, lateCutOver,
                 faults>>

-----------------------------------------------------------------------------
(* The rebuild.                                                            *)

RebuildAtStep(r, at) == rebuild[r].at = at
Advance(r, at) == rebuild' = [rebuild EXCEPT ![r].at = at]

(* The transaction that closes the gate commits by itself; a rebuild that  *)
(* resumes takes an owned gate over, any other one needs it free.          *)
CloseGate(r) ==
  /\ RebuildAtStep(r, "off") /\ Lockable
  /\ owner' = r
  /\ Advance(r, "closed")
  /\ UNCHANGED <<history, indexVars, outboxVars, worker, late, shared, exclusive,
                 lateCutOver, faults>>

(* The second transaction takes the lock for the rest of the rebuild. *)
LockGate(r) ==
  /\ RebuildAtStep(r, "closed")
  /\ \/ Lockable /\ owner = r /\ Advance(r, "locked") /\ exclusive' = r
     \/ ~(Lockable /\ owner = r) /\ Advance(r, "failed") /\ UNCHANGED exclusive
  /\ UNCHANGED <<history, indexVars, outboxVars, worker, late, owner, shared,
                 lateCutOver, faults>>

(* getActiveAliasTargets asks for the two aliases side by side. *)
AskAlias(r, alias) ==
  /\ RebuildAtStep(r, "locked") /\ alias \notin rebuild[r].asked
  /\ rebuild' = [rebuild EXCEPT
       ![r].asked = @ \cup {alias},
       ![r].read  = IF alias = "read"  THEN readAlias  ELSE @,
       ![r].write = IF alias = "write" THEN writeAlias ELSE @]
  /\ UNCHANGED <<history, indexVars, outboxVars, worker, late, gateVars, lateCutOver,
                 faults>>

(* assertOwnership, on the connection of the lock: while it lives nobody   *)
(* else can change the owner.                                              *)
Owns(r) == exclusive = r /\ owner = r

(* A rebuild that fails rolls back, which frees the lock and leaves the    *)
(* owner of the gate.                                                      *)
Abandon(r) ==
  /\ Advance(r, "failed")
  /\ exclusive' = IF exclusive = r THEN NoRebuild ELSE exclusive
  /\ UNCHANGED <<history, indexVars, outboxVars, worker, late, owner, shared>>

StartBuild(r) ==
  /\ RebuildAtStep(r, "locked") /\ rebuild[r].asked = {"read", "write"}
  /\ \/ /\ Owns(r) /\ Advance(r, "building")
        /\ UNCHANGED <<history, indexVars, outboxVars, worker, late, gateVars>>
     \/ ~Owns(r) /\ Abandon(r)
  /\ UNCHANGED <<lateCutOver, faults>>

(* A batch is read and indexed; it holds what a search should find. *)
IndexBatch(r, p) ==
  /\ RebuildAtStep(r, "building") /\ p \in rebuild[r].todo
  /\ \/ /\ Owns(r)
        /\ index' = IF Revision(p) > 0 /\ Searchable(Current(p))
                    THEN [index EXCEPT ![r][p] = CurrentEntry(p)] ELSE index
        /\ rebuild' = [rebuild EXCEPT ![r].todo = @ \ {p}]
        /\ UNCHANGED <<history, readAlias, writeAlias, outboxVars, worker, late, gateVars>>
     \/ ~Owns(r) /\ Abandon(r)
  /\ UNCHANGED <<lateCutOver, faults>>

(* Both directions of the reconciliation find nothing. *)
Matches(i) == \A p \in Products :
  Shown(i, p) = IF Revision(p) = 0 THEN 0 ELSE Projection(p, Revision(p))

(* count, sample, query and reconcile over the finished index. *)
VerifyIndex(r) ==
  /\ RebuildAtStep(r, "building") /\ rebuild[r].todo = {}
  /\ \/ /\ Matches(r) /\ Advance(r, "verified")
        /\ UNCHANGED <<history, indexVars, outboxVars, worker, late, gateVars>>
     \/ ~Matches(r) /\ Abandon(r)
  /\ UNCHANGED <<lateCutOver, faults>>

(* The last assertOwnership; the alias request leaves after it. *)
SendCutOver(r) ==
  /\ RebuildAtStep(r, "verified")
  /\ \/ /\ Owns(r) /\ Advance(r, "switching")
        /\ UNCHANGED <<history, indexVars, outboxVars, worker, late, gateVars>>
     \/ ~Owns(r) /\ Abandon(r)
  /\ UNCHANGED <<lateCutOver, faults>>

CutOverAnswered(r) ==
  /\ RebuildAtStep(r, "switching")
  /\ \/ /\ CutOver(r, rebuild[r].read, rebuild[r].write) /\ Advance(r, "switched")
        /\ UNCHANGED <<history, outboxVars, worker, late, gateVars>>
     \/ ~Switchable(rebuild[r].read, rebuild[r].write) /\ Abandon(r)
  /\ UNCHANGED <<lateCutOver, faults>>

(* Any step fails, the process dies, or the alias request is given up.     *)
GiveUp(r) ==
  /\ rebuild[r].at \notin {"off", "reopened", "failed"} /\ Fault
  /\ Abandon(r)
  /\ lateCutOver' = IF RebuildAtStep(r, "switching") THEN lateCutOver \cup {r}
                    ELSE lateCutOver

LateCutOverLands(r) ==
  /\ r \in lateCutOver
  /\ lateCutOver' = lateCutOver \ {r}
  /\ \/ CutOver(r, rebuild[r].read, rebuild[r].write)
     \/ ~Switchable(rebuild[r].read, rebuild[r].write) /\ UNCHANGED indexVars
  /\ UNCHANGED <<history, outboxVars, worker, late, gateVars, rebuild, faults>>

LoseLock(r) ==
  /\ exclusive = r /\ Fault
  /\ exclusive' = NoRebuild
  /\ UNCHANGED <<history, indexVars, outboxVars, worker, late, owner, shared, rebuild,
                 lateCutOver>>

(* The gate reopens with the commit of the transaction that holds it. *)
Reopen(r) ==
  /\ RebuildAtStep(r, "switched")
  /\ \/ /\ Owns(r) /\ Advance(r, "reopened")
        /\ owner' = NoRebuild /\ exclusive' = NoRebuild
        /\ UNCHANGED <<history, indexVars, outboxVars, worker, late, shared>>
     \/ ~Owns(r) /\ Abandon(r)
  /\ UNCHANGED <<lateCutOver, faults>>

-----------------------------------------------------------------------------
EditorStep ==
  \E c \in Editors :
    \/ BeginCommand(c) \/ RollBackCommand(c)
    \/ \E p \in Products : CommitCommand(c, p)

WorkerStep(w) ==
  \/ \E e \in Events : Claim(w, e)
  \/ Admit(w) \/ Resolve(w) \/ Confirm(w) \/ Read(w) \/ WriteAnswered(w)
  \/ Verify(w) \/ EndProjection(w) \/ MarkProcessed(w) \/ DeferForMaintenance(w)
  \/ MarkFailed(w) \/ Relinquish(w)

WorkerFault(w) ==
  WriteRefused(w) \/ WriteTimesOut(w) \/ Heartbeat(w) \/ CrashWorker(w) \/ LoseGate(w)

RebuildStep(r) ==
  \/ CloseGate(r) \/ LockGate(r) \/ StartBuild(r) \/ VerifyIndex(r) \/ SendCutOver(r)
  \/ CutOverAnswered(r) \/ GiveUp(r) \/ LateCutOverLands(r) \/ LoseLock(r) \/ Reopen(r)
  \/ \E alias \in {"read", "write"} : AskAlias(r, alias)
  \/ \E p \in Products : IndexBatch(r, p)

Next ==
  \/ EditorStep
  \/ \E w \in Workers : WorkerStep(w) \/ WorkerFault(w)
  \/ \E write \in late : LateWriteLands(write)
  \/ \E e \in Events : LeaseRunsOut(e)
  \/ \E chosen \in SUBSET Events : RetryDeadLetters(chosen)
  \/ \E i \in Indices, p \in Products : ForgetDeletion(i, p)
  \/ \E r \in Rebuilds : RebuildStep(r)

SearchSpec == Init /\ [][Next]_vars

-----------------------------------------------------------------------------
(* A search never finds a product as it was before a change whose event is *)
(* PROCESSED: some revision from that change on is what the index shows.   *)
(* With every event PROCESSED the index shows the product as it is.  Stale *)
(* reads, late writes, duplicate projections and a change of index do not  *)
(* bring anything older back (the guarantee that a late task never covers  *)
(* a newer document, opensearch-index-synchronization.md).                 *)
ProcessedIsVisible ==
  \A e \in Events : status[e] = "PROCESSED" =>
    \A i \in readAlias : \E r \in e[2] .. Revision(e[1]) :
      Shown(i, e[1]) = Projection(e[1], r)

(* The revision a search finds a product at never goes back while the      *)
(* product stays visible, whether a late write lands or the alias moves on *)
(* (a late task never covers a newer document).                            *)
DocumentsNeverRegress ==
  [][\A p \in Products, i \in readAlias, j \in readAlias' :
       Shown(i, p) > 0 /\ Shown(j, p)' > 0 => Shown(j, p)' >= Shown(i, p)]_vars

(* Work is counted once: a PROCESSED row stays PROCESSED whatever a relay  *)
(* that lost its lease still does, and a dead letter comes back only by    *)
(* being requeued (executeLeaseUpdate, retryDeadLetters).                  *)
OutcomesStay ==
  [][\A e \in Events :
       /\ status[e] = "PROCESSED" => status'[e] = "PROCESSED"
       /\ status[e] = "DEAD_LETTER" /\ status'[e] # "DEAD_LETTER"
            => requeues'[e] = requeues[e] + 1]_vars

(* No row is tried more than MAX_ATTEMPTS times, and once more for each    *)
(* time it was requeued, and none is given up before (drainBatchInternal). *)
AttemptsWithinBudget ==
  \A e \in Events :
    /\ attempts[e] <= MaxAttempts + requeues[e]
    /\ status[e] = "DEAD_LETTER" => attempts[e] >= MaxAttempts
    /\ status[e] \in {"PENDING", "PROCESSING"} /\ requeues[e] = 0
         => attempts[e] < MaxAttempts

(* While the gate has an owner no command commits, whoever that owner is   *)
(* and however many rebuilds fail and are resumed, so a rebuild reads a    *)
(* catalog that stands still (assertCatalogWritable, rebuild).             *)
CatalogStillWhileOwned == [][owner # NoRebuild => UNCHANGED history]_vars

(* The aliases move only to an index that shows the catalog as it is, also *)
(* when the request arrives long after the rebuild that sent it is dead    *)
(* (cutOverAliases: a delayed rebuild must not replace aliases already     *)
(* moved by its successor).                                                *)
CutOverIsExact ==
  [][\A i \in readAlias' \ readAlias : Matches(i)]_vars

(* The gate reopens only by the rebuild that owns it and only when its own *)
(* index is behind both aliases: a rebuild overtaken by an older request   *)
(* leaves it shut.                                                         *)
ReopensOntoOwnIndex ==
  [][owner # NoRebuild /\ owner' = NoRebuild
       => readAlias = {owner} /\ writeAlias = {owner}]_vars

(* Search and projection go to one and the same index: the two aliases are *)
(* moved in one request, and of two first activations the later one is     *)
(* refused as a whole (opensearch-index-synchronization.md).               *)
AliasesTogether == readAlias = writeAlias

(* A row of the outbox that a command writes is PROCESSED or a dead letter *)
(* in the end.                                                             *)
EventsDelivered ==
  \A e \in {n \in Events : n[2] > Len(Past[n[1]])} :
    status[e] \in {"PENDING", "PROCESSING"} ~> status[e] \in {"PROCESSED", "DEAD_LETTER"}
===============================================================================
