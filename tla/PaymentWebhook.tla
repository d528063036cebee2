----------------------------- MODULE PaymentWebhook -----------------------------
(***************************************************************************)
(* The inbox of payment webhooks (src/src/api/payment), on top of the      *)
(* commerce life cycle: signed deliveries, the recovery relay of each HTTP *)
(* replica and the administrator all work on the same inbox rows and, when *)
(* they apply one, on the same orders as every other client.               *)
(*                                                                         *)
(* Storing an event, applying it and recording a refusal are transactions  *)
(* of their own.  Between any two of them the process may die, the lease   *)
(* of a relay may run out, and everybody else goes on.  Applying an event  *)
(* takes the order, the attempt and then the inbox row FOR UPDATE, so it   *)
(* is one step that moves the commerce state and the inbox row together.   *)
(*                                                                         *)
(* next_retry_at is a moment that passes: a claim may simply come later.   *)
(* An administrator who applies an event enters the provider's command.    *)
(***************************************************************************)
EXTENDS CommerceLifecycle

CONSTANTS
  Events,          \* the provider's event ids
  Command,         \* Command[e]: the normalized command of event e
  WebhookKey,      \* WebhookKey[e]: the idempotency key digested from e
  Deliveries,      \* HTTP requests that may be in flight at once
  Workers,         \* the relays; a worker stands for its current lease token
  NoWorker,
  NoEvent,
  MaxRetries,      \* MAX_RECOVERY_ATTEMPTS
  MaxFaults        \* bound: relay crashes and leases lost while working

Outcomes == {"CAPTURED", "REFUNDED", "FAILED"}

(* An amount of 0 stands for a command without one. *)
ASSUME WebhookAssumption ==
  /\ Command \in [Events -> [attempt : Attempts, outcome : Outcomes,
                             providerId : ProviderIds, amount : Nat]]
  /\ \A e \in Events : Command[e].outcome = "REFUNDED"
                         => Command[e].amount \in RefundAmounts \cup {0}
  /\ WebhookKey \in [Events -> PaymentKeys]
  /\ \A d, e \in Events : WebhookKey[d] = WebhookKey[e] => d = e
  /\ NoWorker \notin Workers
  /\ MaxRetries \in Nat \ {0}
  /\ MaxFaults \in Nat

VARIABLES
  event,           \* PaymentWebhookEvent.status, "NONE" before the row exists
  verified,        \* the events whose verified command is stored (outcome)
  retryCount,      \* PaymentWebhookEvent.retryCount
  lease,           \* the worker whose token the row holds
  overdue,         \* the events whose lease_until has passed
  claims,          \* what the relays have claimed and not yet marked
  delivery,        \* where each signed delivery stands
  faults

inboxVars   == <<event, verified, retryCount, lease, overdue, claims, delivery, faults>>
webhookVars == <<vars, inboxVars>>

EventStatus == {"RECEIVED", "PROCESSED", "FAILED"}

(* PaymentWebhookRecoveryResult; ERROR is any other exception. *)
Results == {"PROCESSED", "RETRY", "FAILED", "ERROR"}

ClaimedEvent == [worker : Workers, event : Events, retryCount : 0 .. MaxRetries,
                 result : {"none"} \cup Results]

InboxTypeOK ==
  /\ event \in [Events -> {"NONE"} \cup EventStatus]
  /\ verified \in SUBSET Events
  /\ retryCount \in [Events -> 0 .. MaxRetries]
  /\ lease \in [Events -> Workers \cup {NoWorker}]
  /\ overdue \in SUBSET Events
  /\ claims \in SUBSET ClaimedEvent
  /\ delivery \in [Deliveries -> [at : {"idle", "stored", "refused"},
                                  event : Events \cup {NoEvent}]]
  /\ faults \in 0 .. MaxFaults

Idle == [at |-> "idle", event |-> NoEvent]

WebhookInit ==
  /\ Init
  /\ event = [e \in Events |-> "NONE"]
  /\ verified = {}
  /\ retryCount = [e \in Events |-> 0]
  /\ lease = [e \in Events |-> NoWorker]
  /\ overdue = {}
  /\ claims = {}
  /\ delivery = [d \in Deliveries |-> Idle]
  /\ faults = 0

-----------------------------------------------------------------------------
(* The transaction an event calls for, under a key k. *)
Recording(e, k) ==
  LET c == Command[e] IN
  [attempt    |-> c.attempt,
   type       |-> CASE c.outcome = "CAPTURED" -> "CAPTURE"
                    [] c.outcome = "REFUNDED" -> "REFUND"
                    [] c.outcome = "FAILED"   -> "AUTHORIZE",
   status     |-> IF c.outcome = "FAILED" THEN "FAILED" ELSE "SUCCEEDED",
   amount     |-> IF c.outcome = "REFUNDED" THEN c.amount ELSE Price[c.attempt],
   key        |-> k,
   providerId |-> IF c.outcome = "FAILED" THEN NoProviderId ELSE c.providerId]

(* The one it leaves when it is applied, and any that already says so:     *)
(* assertSameTransaction does not compare keys.                            *)
Effect(e)     == Recording(e, WebhookKey[e])
Records(t, e) == \E k \in PaymentKeys : t = Recording(e, k)

(* findTransaction: by key, and by provider id only if no key matches. *)
Found(e) ==
  LET c == Command[e]
      byKey == {t \in txns : t.attempt = c.attempt /\ t.key = WebhookKey[e]}
  IN IF byKey # {} \/ c.outcome = "FAILED" THEN byKey
     ELSE {t \in txns : t.attempt = c.attempt /\ t.providerId = c.providerId}

(* The amount a command must or may carry. *)
WellFormed(e) ==
  LET c == Command[e] IN
  /\ c.outcome = "CAPTURED" => c.amount \in {0, Price[c.attempt]}
  /\ c.outcome = "REFUNDED" => c.amount > 0

(* NotFoundException, PaymentWebhookPrerequisitePending: too early, not    *)
(* wrong.                                                                  *)
Waiting(e) ==
  LET c == Command[e] IN
  \/ attempt[c.attempt] = "NONE"
  \/ c.outcome = "REFUNDED" /\ WellFormed(e) /\ attempt[c.attempt] \in Failable

Repeats(e) == WellFormed(e) /\ ~Waiting(e) /\ \E t \in Found(e) : Records(t, e)

(* What the commerce operation will accept, by the clock as it is. *)
Acceptable(e) ==
  LET c == Command[e]
      a == c.attempt
      o == AttemptOrder[a]
  IN /\ WellFormed(e) /\ Found(e) = {}
     /\ c.outcome = "CAPTURED" =>
          /\ order[o] = "PENDING" /\ attempt[a] \in Capturable
          /\ LinesIn(o, {"RESERVED"}) = LinesOf(o) /\ ~Due(o)
     /\ c.outcome = "REFUNDED" =>
          /\ attempt[a] \in Refundable
          /\ Total(a, "REFUND") + c.amount <= Total(a, "CAPTURE")
          /\ Total(a, "REFUND") + c.amount = Total(a, "CAPTURE") => ShipmentsIdle(o)
     /\ c.outcome = "FAILED" => attempt[a] \in Failable

Refused(e) == ~Waiting(e) /\ ~Repeats(e) /\ ~Acceptable(e)

(* applyWebhookOutcome *)
ApplyOutcome(e) ==
  LET c == Command[e] IN
  /\ WellFormed(e)
  /\ \/ c.outcome = "CAPTURED" /\ Capture(c.attempt, WebhookKey[e], c.providerId)
     \/ c.outcome = "REFUNDED" /\ Refund(c.attempt, WebhookKey[e], c.providerId, c.amount)
     \/ c.outcome = "FAILED" /\ Fail(c.attempt, WebhookKey[e])

(* Mutants of Process: the event is marked by somebody else, in a commit   *)
(* of its own; the refund does not ask for shipments.                      *)
ProcessUnmarked(e) ==
  /\ ApplyOutcome(e) \/ (Repeats(e) /\ UNCHANGED vars)
  /\ UNCHANGED event

ProcessUnblocked(e) ==
  LET c == Command[e] IN
  /\ \/ ApplyOutcome(e)
     \/ Repeats(e) /\ UNCHANGED vars
     \/ /\ c.outcome = "REFUNDED"
        /\ RefundAttempt(c.attempt, WebhookKey[e], c.providerId, c.amount, TRUE)
        /\ UNCHANGED <<order, lapsed, closing, inventoryVars, fulfillmentVars>>
  /\ event' = [event EXCEPT ![e] = "PROCESSED"]

(* processWebhook for an event that is not PROCESSED: its effect, or the   *)
(* transaction that already records it, and the inbox row in one commit.   *)
Process(e) ==
  /\ ApplyOutcome(e) \/ (Repeats(e) /\ UNCHANGED vars)
  /\ event' = [event EXCEPT ![e] = "PROCESSED"]

(* recoverStoredWebhook: a PROCESSED or FAILED event is left alone, a      *)
(* command is applied, waits or is refused, and anything else that goes    *)
(* wrong is an exception that changes nothing.                             *)
Recover(e, result) ==
  \/ /\ result = "PROCESSED"
     /\ \/ event[e] = "PROCESSED" /\ UNCHANGED <<vars, event>>
        \/ event[e] = "RECEIVED" /\ e \in verified /\ Process(e)
  \/ /\ result = "RETRY"
     /\ event[e] = "RECEIVED" /\ e \in verified /\ Waiting(e)
     /\ UNCHANGED <<vars, event>>
  \/ /\ result = "FAILED"
     /\ \/ event[e] = "FAILED"
        \/ event[e] = "RECEIVED" /\ (e \notin verified \/ Refused(e))
     /\ UNCHANGED <<vars, event>>
  \/ /\ result = "ERROR"
     /\ UNCHANGED <<vars, event>>

-----------------------------------------------------------------------------
(* storeWebhook with a verified command, for a signed delivery.  The first *)
(* verified command reopens an event that failed without one.              *)
StoreVerified(d, e) ==
  LET fresh == event[e] = "NONE" \/ (event[e] = "FAILED" /\ e \notin verified)
  IN /\ delivery[d].at = "idle"
     /\ event' = IF fresh THEN [event EXCEPT ![e] = "RECEIVED"] ELSE event
     /\ retryCount' = IF fresh THEN [retryCount EXCEPT ![e] = 0] ELSE retryCount
     /\ lease' = IF fresh THEN [lease EXCEPT ![e] = NoWorker] ELSE lease
     /\ overdue' = IF fresh THEN overdue \ {e} ELSE overdue
     /\ verified' = verified \cup {e}
     /\ delivery' = [delivery EXCEPT ![d] = [at |-> "stored", event |-> e]]
     /\ UNCHANGED <<vars, claims, faults>>

(* receiveSignedDelivery, its recovery *)
DeliveryRecovers(d, result) ==
  /\ delivery[d].at = "stored"
  /\ Recover(delivery[d].event, result)
  /\ delivery' = [delivery EXCEPT ![d] =
       IF result = "FAILED" THEN [@ EXCEPT !.at = "refused"] ELSE Idle]
  /\ UNCHANGED <<verified, retryCount, lease, overdue, claims, faults>>

(* receiveSignedDelivery, failWebhook: a conflict if PROCESSED meanwhile *)
DeliveryFails(d) ==
  LET e == delivery[d].event IN
  /\ delivery[d].at = "refused"
  /\ event' = IF event[e] = "PROCESSED" THEN event ELSE [event EXCEPT ![e] = "FAILED"]
  /\ delivery' = [delivery EXCEPT ![d] = Idle]
  /\ UNCHANGED <<vars, verified, retryCount, lease, overdue, claims, faults>>

(* The process or the connection dies; the provider may deliver again. *)
DeliveryDies(d) ==
  /\ delivery[d].at # "idle"
  /\ delivery' = [delivery EXCEPT ![d] = Idle]
  /\ UNCHANGED <<vars, event, verified, retryCount, lease, overdue, claims, faults>>

(* receiveWebhook, processWebhook and failWebhook by an administrator *)
AdminReceives(e) ==
  /\ event[e] = "NONE"
  /\ event' = [event EXCEPT ![e] = "RECEIVED"]
  /\ UNCHANGED <<vars, verified, retryCount, lease, overdue, claims, delivery, faults>>

AdminProcesses(e) ==
  /\ event[e] \in {"RECEIVED", "FAILED"}
  /\ Process(e)
  /\ UNCHANGED <<verified, retryCount, lease, overdue, claims, delivery, faults>>

AdminFails(e) ==
  /\ event[e] = "RECEIVED"
  /\ event' = [event EXCEPT ![e] = "FAILED"]
  /\ UNCHANGED <<vars, verified, retryCount, lease, overdue, claims, delivery, faults>>

-----------------------------------------------------------------------------
ClaimsOf(w) == {c \in claims : c.worker = w}

(* Mutant of Claimable: a lease ends only when its worker says so. *)
ClaimableUnleased(e) == event[e] = "RECEIVED" /\ e \in verified /\ lease[e] = NoWorker

Claimable(e) ==
  /\ event[e] = "RECEIVED" /\ e \in verified
  /\ lease[e] = NoWorker \/ e \in overdue

(* claim: rows another claim has locked are skipped, so any of them may    *)
(* be missing from the batch.                                              *)
Claim(w, S) ==
  /\ ClaimsOf(w) = {}
  /\ S # {} /\ \A e \in S : Claimable(e)
  /\ lease' = [e \in Events |-> IF e \in S THEN w ELSE lease[e]]
  /\ overdue' = overdue \ S
  /\ claims' = claims \cup {[worker |-> w, event |-> e, retryCount |-> retryCount[e],
                             result |-> "none"] : e \in S}
  /\ UNCHANGED <<vars, event, verified, retryCount, delivery, faults>>

RelayRecovers(c, result) ==
  /\ c.result = "none"
  /\ Recover(c.event, result)
  /\ claims' = (claims \ {c}) \cup {[c EXCEPT !.result = result]}
  /\ UNCHANGED <<verified, retryCount, lease, overdue, delivery, faults>>

(* Mutant of Holds: the updates forget the lease token. *)
HoldsUnfenced(c, statuses) == event[c.event] \in statuses

(* The WHERE clause of the marking updates: WHERE lease_token = ? AND status *)
Holds(c, statuses) == lease[c.event] = c.worker /\ event[c.event] \in statuses

(* Ends the lease and sets the columns of the row. *)
Mark(c, status, retries) ==
  /\ event' = [event EXCEPT ![c.event] = status]
  /\ retryCount' = [retryCount EXCEPT ![c.event] = retries]
  /\ lease' = [lease EXCEPT ![c.event] = NoWorker]
  /\ overdue' = overdue \ {c.event}

Unmarked == UNCHANGED <<event, retryCount, lease, overdue>>

Exhausted(retries) == retries >= MaxRetries

(* Mutant of Charged: waiting costs a retry. *)
ChargedAlways(c) == c.retryCount + 1

(* The retry count markRetry writes: the one at the claim, and one more    *)
(* for a processing failure but not for waiting.                           *)
Charged(c) == IF c.result = "ERROR" THEN c.retryCount + 1 ELSE c.retryCount

(* markProcessed, markFailed and markRetry.  The last processing failure   *)
(* fails the event.                                                        *)
RelayMarks(c) ==
  LET e == c.event
  IN /\ \/ /\ c.result = "PROCESSED"
           /\ IF Holds(c, {"PROCESSED"})
                THEN Mark(c, "PROCESSED", retryCount[e]) ELSE Unmarked
        \/ /\ c.result = "FAILED"
           /\ IF Holds(c, {"RECEIVED", "FAILED"})
                THEN Mark(c, "FAILED", retryCount[e]) ELSE Unmarked
        \/ /\ c.result = "RETRY"
           /\ IF Holds(c, {"RECEIVED"})
                THEN Mark(c, "RECEIVED", Charged(c)) ELSE Unmarked
        \/ /\ c.result = "ERROR"
           /\ IF Holds(c, {"RECEIVED"})
                THEN Mark(c, IF Exhausted(Charged(c)) THEN "FAILED" ELSE "RECEIVED", Charged(c))
                ELSE Unmarked
     /\ claims' = claims \ {c}
     /\ UNCHANGED <<vars, verified, delivery, faults>>

(* A marking update throws: the catch of drainBatch marks a retry instead. *)
RelayMarkThrows(c) ==
  /\ c.result \in {"PROCESSED", "FAILED", "RETRY"}
  /\ claims' = (claims \ {c}) \cup {[c EXCEPT !.result = "ERROR"]}
  /\ UNCHANGED <<vars, event, verified, retryCount, lease, overdue, delivery, faults>>

(* The replica dies, or the update inside the catch throws: the rest of    *)
(* the batch is dropped and its leases have to run out.                    *)
RelayDies(w) ==
  /\ ClaimsOf(w) # {} /\ faults < MaxFaults
  /\ faults' = faults + 1
  /\ claims' = claims \ ClaimsOf(w)
  /\ UNCHANGED <<vars, event, verified, retryCount, lease, overdue, delivery>>

Working(e) == \E c \in claims : c.event = e /\ c.worker = lease[e]

(* lease_until passes: on a worker that is gone, or on one that is slow. *)
LeaseLapses(e) ==
  /\ lease[e] # NoWorker /\ e \notin overdue
  /\ overdue' = overdue \cup {e}
  /\ IF Working(e) THEN faults < MaxFaults /\ faults' = faults + 1 ELSE UNCHANGED faults
  /\ UNCHANGED <<vars, event, verified, retryCount, lease, claims, delivery>>

(* Every other request to the shop; its keys are not digests of events. *)
ShopNext ==
  /\ Next
  /\ \A t \in txns' \ txns : \A e \in Events : t.key # WebhookKey[e]
  /\ UNCHANGED inboxVars

DeliveryNext(d) ==
  \/ \E e \in Events : StoreVerified(d, e)
  \/ \E result \in Results : DeliveryRecovers(d, result)
  \/ DeliveryFails(d)
  \/ DeliveryDies(d)

EventNext(e) ==
  \/ AdminReceives(e)
  \/ AdminProcesses(e)
  \/ AdminFails(e)
  \/ LeaseLapses(e)

RelayNext(w) ==
  \/ \E S \in SUBSET Events : Claim(w, S)
  \/ \E c \in ClaimsOf(w) :
       \/ \E result \in Results : RelayRecovers(c, result)
       \/ RelayMarks(c)
       \/ RelayMarkThrows(c)
  \/ RelayDies(w)

WebhookNext ==
  \/ ShopNext
  \/ \E d \in Deliveries : DeliveryNext(d)
  \/ \E e \in Events : EventNext(e)
  \/ \E w \in Workers : RelayNext(w)

WebhookSpec == WebhookInit /\ [][WebhookNext]_webhookVars

(* Each relay polls for ever and works off what it claimed; a poll takes   *)
(* every due row that is not locked just then, so no due row is passed     *)
(* over for ever; time passes, so abandoned leases run out.                *)
ClaimEvent(e)    == \E w \in Workers : \E S \in SUBSET Events : e \in S /\ Claim(w, S)
RelayWorks(w)    == \E c \in ClaimsOf(w) :
                      RelayMarks(c) \/ \E result \in Results : RelayRecovers(c, result)

FairWebhookSpec ==
  /\ WebhookSpec
  /\ \A w \in Workers : WF_webhookVars(RelayWorks(w))
  /\ \A e \in Events : SF_webhookVars(ClaimEvent(e)) /\ WF_webhookVars(LeaseLapses(e))

-----------------------------------------------------------------------------
(* The inbox never claims more or less than what happened: an event is     *)
(* PROCESSED exactly when the transaction it calls for is recorded on its  *)
(* attempt, its own key is used at most once and never by an event that    *)
(* was not processed, whatever crashed, repeated or raced in between       *)
(* (payment-webhook.service.ts 150-201).                                   *)
EventAppliedOnce ==
  \A e \in Events :
    LET own == {t \in txns : t.key = WebhookKey[e]} IN
    IF event[e] = "PROCESSED"
      THEN own \subseteq {Effect(e)} /\ \E t \in txns : Records(t, e)
      ELSE own = {}

(* What a step never does to a settled event or to its retry budget. *)
NothingReopens ==
  \A e \in Events :
    /\ event[e] = "PROCESSED" => event'[e] = "PROCESSED"
    /\ event[e] = "FAILED" /\ e \in verified => event'[e] \in {"FAILED", "PROCESSED"}
    /\ e \in verified => e \in verified' /\ retryCount'[e] >= retryCount[e]

(* Late results do not undo a decision: a worker that lost its lease, a    *)
(* delivery whose verdict is old or a marking update after the fact never  *)
(* takes PROCESSED back, reopens a failed verified event or gives retries  *)
(* back (payment-webhook-recovery.relay.ts 111-167).                       *)
SettledEventsStay == [][NothingReopens]_webhookVars

(* The event came before its attempt, or before the capture it refunds. *)
Early(e) ==
  \/ attempt[Command[e].attempt] = "NONE"
  \/ /\ Command[e].outcome = "REFUNDED" /\ Command[e].amount > 0
     /\ attempt[Command[e].attempt] = "PENDING"

(* This step ends a claim of the event whose result was r. *)
Answered(e, r) == \E c \in claims \ claims' : c.event = e /\ c.result = r

(* No step gives up on an event that came too early, but an                *)
(* administrator's and the mark of a processing failure that was the last  *)
(* one; and only the mark of a processing failure counts as one.           *)
NothingGivenUp ==
  \A e \in Events :
    /\ Early(e) /\ e \in verified /\ event[e] = "RECEIVED" /\ event'[e] = "FAILED" =>
         AdminFails(e) \/ (Answered(e, "ERROR") /\ retryCount'[e] = MaxRetries)
    /\ Answered(e, "RETRY") => retryCount'[e] = retryCount[e]
    /\ retryCount'[e] # retryCount[e] => Answered(e, "ERROR")

(* A webhook that overtakes the attempt it belongs to, or the capture it   *)
(* refunds, is kept until its turn comes: waiting costs no retries, only   *)
(* processing failures do (local-runtime-runbook.md 385-387).              *)
EarlyEventsKept == [][NothingGivenUp]_webhookVars

(* The shop does not notice the inbox: every step of the relays, the       *)
(* deliveries and the administrators is a step of the commerce life cycle  *)
(* or leaves it alone, so all that holds of it holds here.                 *)
ImplementsCommerce == Spec

(* A stored, verified event whose time has come is settled in the end,     *)
(* although relays may crash and overrun their leases a bounded number of  *)
(* times, and even if every attempt to process it throws.                  *)
EventsSettle ==
  \A e \in Events :
    (event[e] = "RECEIVED" /\ e \in verified /\ ~Waiting(e))
      ~> event[e] \in {"PROCESSED", "FAILED"}
=============================================================================
