-------------------------- MODULE PaymentWebhookProofs --------------------------
(***************************************************************************)
(* Safety of the webhook inbox for every value of its constants: the inbox *)
(* is invisible to the commerce life cycle, and no crash, late result or   *)
(* repeated delivery makes an event count twice or takes a decision back.  *)
(***************************************************************************)
EXTENDS PaymentWebhook, CommerceLifecycleProofs

-----------------------------------------------------------------------------
(* Every step is a commerce step or leaves commerce alone. *)

LEMMA CommandTyped ==
  ASSUME NEW e \in Events
  PROVE  /\ Command[e].attempt \in Attempts
         /\ Command[e].outcome \in Outcomes
         /\ Command[e].providerId \in ProviderIds
         /\ Command[e].amount \in Nat
         /\ WebhookKey[e] \in PaymentKeys
         /\ Command[e].outcome = "REFUNDED" /\ Command[e].amount > 0
              => Command[e].amount \in RefundAmounts
<1>1. Command[e] \in [attempt : Attempts, outcome : Outcomes,
                      providerId : ProviderIds, amount : Nat]
  BY WebhookAssumption
<1>2. Command[e].outcome = "REFUNDED" => Command[e].amount \in RefundAmounts \cup {0}
  BY WebhookAssumption
<1> QED
  BY <1>1, <1>2, WebhookAssumption

LEMMA OutcomeIsAttemptStep ==
  ASSUME NEW e \in Events, ApplyOutcome(e)
  PROVE  AttemptNext(Command[e].attempt)
<1> DEFINE c == Command[e]
<1>1. CASE Capture(c.attempt, WebhookKey[e], c.providerId)
  BY <1>1, CommandTyped DEF AttemptNext
<1>2. CASE c.outcome = "REFUNDED"
           /\ Refund(c.attempt, WebhookKey[e], c.providerId, c.amount)
  BY <1>2, CommandTyped DEF AttemptNext, ApplyOutcome, WellFormed
<1>3. CASE Fail(c.attempt, WebhookKey[e])
  BY <1>3, CommandTyped DEF AttemptNext
<1> QED
  BY <1>1, <1>2, <1>3 DEF ApplyOutcome

LEMMA ProcessIsCommerce ==
  ASSUME NEW e \in Events, Process(e)
  PROVE  [Next]_vars
BY OutcomeIsAttemptStep, CommandTyped DEF Process, Next, Repeats

LEMMA RecoverIsCommerce ==
  ASSUME NEW e, NEW result, e \in verified => e \in Events, Recover(e, result)
  PROVE  [Next]_vars
BY ProcessIsCommerce DEF Recover, vars

LEMMA CommerceStep ==
  ASSUME InboxTypeOK, [WebhookNext]_webhookVars
  PROVE  [Next]_vars
<1>1. verified \subseteq Events
  BY DEF InboxTypeOK
<1>2. CASE ShopNext
  BY <1>2 DEF ShopNext
<1>3. ASSUME NEW d \in Deliveries, DeliveryNext(d)
      PROVE  [Next]_vars
  BY <1>1, <1>3, RecoverIsCommerce
  DEF DeliveryNext, StoreVerified, DeliveryRecovers, DeliveryFails, DeliveryDies
<1>4. ASSUME NEW e \in Events, EventNext(e)
      PROVE  [Next]_vars
  BY <1>4, ProcessIsCommerce
  DEF EventNext, AdminReceives, AdminProcesses, AdminFails, LeaseLapses
<1>5. ASSUME NEW w \in Workers, RelayNext(w)
      PROVE  [Next]_vars
  BY <1>1, <1>5, RecoverIsCommerce
  DEF RelayNext, Claim, RelayRecovers, RelayMarks, RelayMarkThrows, RelayDies
<1>6. CASE UNCHANGED webhookVars
  BY <1>6 DEF webhookVars
<1> QED
  BY <1>2, <1>3, <1>4, <1>5, <1>6 DEF WebhookNext

-----------------------------------------------------------------------------
(* The inductive invariant of the inbox. *)

(* A row that is still to be processed has retries left; nothing was spent *)
(* before its command was verified.                                        *)
RowsInBudget ==
  \A e \in Events :
    /\ event[e] = "NONE" => e \notin verified
    /\ e \notin verified => retryCount[e] = 0
    /\ event[e] = "RECEIVED" /\ e \in verified => retryCount[e] < MaxRetries

(* A worker that still holds the lease knows the count the row holds. *)
ClaimsCurrent ==
  \A c \in claims :
    /\ c.event \in verified
    /\ c.retryCount < MaxRetries
    /\ lease[c.event] = c.worker => c.retryCount = retryCount[c.event]

(* A delivery under way has stored its verified command. *)
DeliveriesStored ==
  \A d \in Deliveries : delivery[d].at # "idle" => delivery[d].event \in verified

InboxInv == InboxTypeOK /\ RowsInBudget /\ ClaimsCurrent /\ DeliveriesStored

LEMMA InboxInvInit == WebhookInit => InboxInv
BY WebhookAssumption
DEF WebhookInit, InboxInv, InboxTypeOK, RowsInBudget, ClaimsCurrent, DeliveriesStored, Idle

LEMMA InboxUnchanged ==
  ASSUME InboxInv, UNCHANGED inboxVars
  PROVE  InboxInv'
BY DEF inboxVars, InboxInv, InboxTypeOK, RowsInBudget, ClaimsCurrent, DeliveriesStored,
       ClaimedEvent

(* Deliveries go on or end; none begins. *)
DeliveriesMove ==
  /\ delivery' \in [Deliveries -> [at : {"idle", "stored", "refused"},
                                  event : Events \cup {NoEvent}]]
  /\ \A d \in Deliveries :
       \/ delivery'[d].at = "idle"
       \/ delivery[d].at # "idle" /\ delivery'[d].event = delivery[d].event

(* Processing or refusing changes the row's status only: a row that is not *)
(* RECEIVED afterwards has no budget to keep.                              *)
LEMMA StatusOnly ==
  ASSUME InboxInv, NEW e \in Events, NEW to \in {"PROCESSED", "FAILED"},
         event[e] # "NONE", event' = [event EXCEPT ![e] = to],
         UNCHANGED <<verified, retryCount, lease, overdue, claims, faults>>,
         DeliveriesMove
  PROVE  InboxInv'
<1>1. InboxTypeOK'
  BY DEF InboxInv, InboxTypeOK, EventStatus, ClaimedEvent, DeliveriesMove
<1>2. RowsInBudget'
  BY DEF InboxInv, InboxTypeOK, RowsInBudget
<1>3. ClaimsCurrent'
  BY DEF InboxInv, ClaimsCurrent
<1>4. DeliveriesStored'
  BY DEF InboxInv, DeliveriesStored, DeliveriesMove
<1> QED
  BY <1>1, <1>2, <1>3, <1>4 DEF InboxInv

LEMMA StatusKept ==
  ASSUME InboxInv,
         UNCHANGED <<event, verified, retryCount, lease, overdue, claims, faults>>,
         DeliveriesMove
  PROVE  InboxInv'
BY DEF InboxInv, InboxTypeOK, RowsInBudget, ClaimsCurrent, DeliveriesStored, ClaimedEvent,
       DeliveriesMove

LEMMA StoreInbox ==
  ASSUME InboxInv, NEW d \in Deliveries, NEW e \in Events, StoreVerified(d, e)
  PROVE  InboxInv'
<1> DEFINE fresh == event[e] = "NONE" \/ (event[e] = "FAILED" /\ e \notin verified)
<1>1. InboxTypeOK'
  <2>1. [at |-> "stored", event |-> e] \in [at : {"idle", "stored", "refused"},
                                           event : Events \cup {NoEvent}]
    OBVIOUS
  <2>2. delivery' \in [Deliveries -> [at : {"idle", "stored", "refused"},
                                     event : Events \cup {NoEvent}]]
    BY <2>1 DEF StoreVerified, InboxInv, InboxTypeOK
  <2> QED
    BY <2>2, WebhookAssumption
    DEF StoreVerified, InboxInv, InboxTypeOK, EventStatus, ClaimedEvent
<1>2. RowsInBudget'
  <2>1. CASE fresh
    BY <2>1, WebhookAssumption DEF StoreVerified, InboxInv, InboxTypeOK, RowsInBudget
  <2>2. CASE ~fresh
    BY <2>2, WebhookAssumption DEF StoreVerified, InboxInv, InboxTypeOK, RowsInBudget
  <2> QED
    BY <2>1, <2>2
<1>3. ClaimsCurrent'
  <2>1. fresh => e \notin verified
    BY DEF InboxInv, RowsInBudget
  <2> QED
    BY <2>1 DEF StoreVerified, InboxInv, InboxTypeOK, ClaimsCurrent
<1>4. DeliveriesStored'
  BY DEF StoreVerified, InboxInv, InboxTypeOK, DeliveriesStored
<1> QED
  BY <1>1, <1>2, <1>3, <1>4 DEF InboxInv

(* What recovering an event does to its row. *)
LEMMA RecoverRow ==
  ASSUME NEW e, NEW result, Recover(e, result)
  PROVE  \/ UNCHANGED event
         \/ /\ result = "PROCESSED" /\ event[e] = "RECEIVED" /\ e \in verified
            /\ event' = [event EXCEPT ![e] = "PROCESSED"]
BY DEF Recover, Process

LEMMA DeliveryEnds ==
  ASSUME InboxInv, NEW d \in Deliveries, delivery' = [delivery EXCEPT ![d] = Idle]
  PROVE  DeliveriesMove
BY DEF InboxInv, InboxTypeOK, DeliveriesMove, Idle

LEMMA DeliveryInbox ==
  ASSUME InboxInv, NEW d \in Deliveries, DeliveryNext(d)
  PROVE  InboxInv'
<1> DEFINE e == delivery[d].event
<1>1. delivery[d].at # "idle" => e \in Events /\ e \in verified /\ event[e] # "NONE"
  BY DEF InboxInv, InboxTypeOK, DeliveriesStored, RowsInBudget
<1>2. ASSUME NEW x \in Events, StoreVerified(d, x)
      PROVE  InboxInv'
  BY <1>2, StoreInbox
<1>3. ASSUME NEW result \in Results, DeliveryRecovers(d, result)
      PROVE  InboxInv'
  <2>1. DeliveriesMove
    <3>1. CASE result = "FAILED"
      BY <1>3, <3>1 DEF DeliveryRecovers, InboxInv, InboxTypeOK, DeliveriesMove
    <3>2. CASE result # "FAILED"
      BY <1>3, <3>2, DeliveryEnds DEF DeliveryRecovers
    <3> QED
      BY <3>1, <3>2
  <2>2. UNCHANGED <<verified, retryCount, lease, overdue, claims, faults>>
    BY <1>3 DEF DeliveryRecovers
  <2>3. CASE UNCHANGED event
    BY <2>1, <2>2, <2>3, StatusKept
  <2>4. CASE ~UNCHANGED event
    <3>1. event' = [event EXCEPT ![e] = "PROCESSED"]
      BY <1>3, <2>4, RecoverRow DEF DeliveryRecovers
    <3> QED
      BY <1>1, <1>3, <2>1, <2>2, <3>1, StatusOnly DEF DeliveryRecovers
  <2> QED
    BY <2>3, <2>4
<1>4. CASE DeliveryFails(d)
  <2>1. DeliveriesMove
    BY <1>4, DeliveryEnds DEF DeliveryFails
  <2>2. CASE event[e] = "PROCESSED"
    BY <1>4, <2>1, <2>2, StatusKept DEF DeliveryFails
  <2>3. CASE event[e] # "PROCESSED"
    BY <1>1, <1>4, <2>1, <2>3, StatusOnly DEF DeliveryFails
  <2> QED
    BY <2>2, <2>3
<1>5. CASE DeliveryDies(d)
  BY <1>5, DeliveryEnds, StatusKept DEF DeliveryDies
<1> QED
  BY <1>2, <1>3, <1>4, <1>5 DEF DeliveryNext

LEMMA EventInbox ==
  ASSUME InboxInv, NEW e \in Events, EventNext(e)
  PROVE  InboxInv'
<1>1. UNCHANGED delivery => DeliveriesMove
  BY DEF InboxInv, InboxTypeOK, DeliveriesMove
<1>2. CASE AdminReceives(e)
  BY <1>2, WebhookAssumption
  DEF AdminReceives, InboxInv, InboxTypeOK, RowsInBudget, ClaimsCurrent, DeliveriesStored,
      EventStatus, ClaimedEvent
<1>3. CASE AdminProcesses(e)
  BY <1>1, <1>3, StatusOnly DEF AdminProcesses, Process
<1>4. CASE AdminFails(e)
  BY <1>1, <1>4, StatusOnly DEF AdminFails
<1>5. CASE LeaseLapses(e)
  <2>1. faults' \in 0 .. MaxFaults
    BY <1>5, WebhookAssumption DEF LeaseLapses, InboxInv, InboxTypeOK
  <2> QED
    BY <1>5, <2>1
    DEF LeaseLapses, InboxInv, InboxTypeOK, RowsInBudget, ClaimsCurrent, DeliveriesStored,
        ClaimedEvent
<1> QED
  BY <1>2, <1>3, <1>4, <1>5 DEF EventNext

LEMMA ClaimInbox ==
  ASSUME InboxInv, NEW w \in Workers, NEW S \in SUBSET Events, Claim(w, S)
  PROVE  InboxInv'
<1> DEFINE new == {[worker |-> w, event |-> e, retryCount |-> retryCount[e],
                    result |-> "none"] : e \in S}
<1>1. \A e \in S : e \in verified /\ retryCount[e] \in 0 .. MaxRetries
                   /\ retryCount[e] < MaxRetries
  BY DEF Claim, Claimable, InboxInv, InboxTypeOK, RowsInBudget
<1>2. new \subseteq ClaimedEvent
  BY <1>1 DEF ClaimedEvent
<1>3. InboxTypeOK'
  BY <1>2 DEF Claim, InboxInv, InboxTypeOK, ClaimedEvent
<1>4. RowsInBudget' /\ DeliveriesStored'
  BY DEF Claim, InboxInv, RowsInBudget, DeliveriesStored
<1>5. ClaimsCurrent'
  <2>1. ASSUME NEW c \in claims
        PROVE  /\ c.event \in Events /\ c.worker # w
               /\ lease'[c.event] = c.worker => lease[c.event] = c.worker
    BY DEF Claim, ClaimsOf, InboxInv, InboxTypeOK, ClaimedEvent
  <2>2. \A c \in new : /\ c.event \in S /\ c.retryCount = retryCount[c.event]
    OBVIOUS
  <2>3. \A c \in claims' : c \in claims \/ c \in new
    BY DEF Claim
  <2> QED
    BY <1>1, <2>1, <2>2, <2>3 DEF Claim, InboxInv, ClaimsCurrent
<1> QED
  BY <1>3, <1>4, <1>5 DEF InboxInv

(* Claims move on or are dropped, none begins, and no lease changes hands. *)
ClaimsMove ==
  /\ claims' \in SUBSET ClaimedEvent
  /\ \A c \in claims' : \E b \in claims :
       c.worker = b.worker /\ c.event = b.event /\ c.retryCount = b.retryCount

LEMMA ResultMoves ==
  ASSUME InboxInv, NEW c \in claims, NEW result \in Results,
         claims' = (claims \ {c}) \cup {[c EXCEPT !.result = result]}
  PROVE  ClaimsMove
<1>1. c \in ClaimedEvent
  BY DEF InboxInv, InboxTypeOK
<1>2. /\ [c EXCEPT !.result = result] \in ClaimedEvent
      /\ [c EXCEPT !.result = result].worker = c.worker
      /\ [c EXCEPT !.result = result].event = c.event
      /\ [c EXCEPT !.result = result].retryCount = c.retryCount
  BY <1>1 DEF ClaimedEvent
<1> QED
  BY <1>2 DEF ClaimsMove, InboxInv, InboxTypeOK

LEMMA DroppingMoves ==
  ASSUME InboxInv, claims' \subseteq claims
  PROVE  ClaimsMove
BY DEF ClaimsMove, InboxInv, InboxTypeOK

(* Claims move on while the rows keep their leases and budgets. *)
LEMMA ClaimsMoveInbox ==
  ASSUME InboxInv, ClaimsMove,
         \/ UNCHANGED event
         \/ \E e \in verified : event[e] = "RECEIVED"
                              /\ event' = [event EXCEPT ![e] = "PROCESSED"],
         UNCHANGED <<verified, retryCount, lease, overdue, delivery>>,
         faults' \in 0 .. MaxFaults
  PROVE  InboxInv'
<1>1. InboxTypeOK'
  BY DEF InboxInv, InboxTypeOK, ClaimsMove, EventStatus
<1>2. RowsInBudget' /\ DeliveriesStored'
  BY DEF InboxInv, InboxTypeOK, RowsInBudget, DeliveriesStored
<1>3. ClaimsCurrent'
  BY DEF InboxInv, ClaimsCurrent, ClaimsMove
<1> QED
  BY <1>1, <1>2, <1>3 DEF InboxInv

(* A marking update ends the lease of the row it writes to. *)
LEMMA MarkInbox ==
  ASSUME InboxInv, NEW e \in verified, NEW status \in EventStatus,
         NEW retries \in 0 .. MaxRetries, Mark([event |-> e], status, retries),
         status = "RECEIVED" => retries < MaxRetries,
         claims' \subseteq claims, UNCHANGED <<verified, delivery, faults>>
  PROVE  InboxInv'
<1>1. e \in Events
  BY DEF InboxInv, InboxTypeOK
<1>2. InboxTypeOK'
  BY <1>1 DEF Mark, InboxInv, InboxTypeOK
<1>3. RowsInBudget' /\ DeliveriesStored'
  BY <1>1 DEF Mark, InboxInv, InboxTypeOK, RowsInBudget, DeliveriesStored, EventStatus
<1>4. ClaimsCurrent'
  BY <1>1, WebhookAssumption
  DEF Mark, InboxInv, InboxTypeOK, ClaimsCurrent, ClaimedEvent
<1> QED
  BY <1>2, <1>3, <1>4 DEF InboxInv

LEMMA MarksInbox ==
  ASSUME InboxInv, NEW c \in claims, RelayMarks(c)
  PROVE  InboxInv'
<1> DEFINE e == c.event
<1>1. /\ c.event \in verified /\ c.event \in Events /\ c.retryCount \in Nat
      /\ c.retryCount < MaxRetries
      /\ retryCount[e] \in 0 .. MaxRetries
      /\ lease[e] = c.worker => c.retryCount = retryCount[e]
  BY DEF InboxInv, InboxTypeOK, ClaimsCurrent, ClaimedEvent
<1>2. claims' \subseteq claims /\ UNCHANGED <<verified, delivery, faults>>
  BY DEF RelayMarks
<1>3. CASE Unmarked
  <2>1. faults' \in 0 .. MaxFaults
    BY <1>2 DEF InboxInv, InboxTypeOK
  <2> QED
    BY <1>2, <1>3, <2>1, DroppingMoves, ClaimsMoveInbox DEF Unmarked
<1>4. CASE ~Unmarked
  <2>1. \E status \in EventStatus, n \in 0 .. MaxRetries :
          /\ Mark(c, status, n)
          /\ status = "RECEIVED" => n < MaxRetries
    BY <1>1, <1>4, WebhookAssumption DEF RelayMarks, Charged, Exhausted, EventStatus
  <2>2. PICK status \in EventStatus, n \in 0 .. MaxRetries :
          /\ Mark(c, status, n)
          /\ status = "RECEIVED" => n < MaxRetries
    BY <2>1
  <2>3. Mark([event |-> e], status, n)
    BY <2>2 DEF Mark
  <2> QED
    BY <1>1, <1>2, <2>2, <2>3, MarkInbox
<1> QED
  BY <1>3, <1>4

LEMMA RelayInbox ==
  ASSUME InboxInv, NEW w \in Workers, RelayNext(w)
  PROVE  InboxInv'
<1>1. ASSUME NEW S \in SUBSET Events, Claim(w, S)
      PROVE  InboxInv'
  BY <1>1, ClaimInbox
<1>2. ASSUME NEW c \in claims, NEW result \in Results, RelayRecovers(c, result)
      PROVE  InboxInv'
  <2>1. ClaimsMove
    BY <1>2, ResultMoves DEF RelayRecovers
  <2>2. /\ UNCHANGED <<verified, retryCount, lease, overdue, delivery>>
        /\ faults' \in 0 .. MaxFaults
    BY <1>2 DEF RelayRecovers, InboxInv, InboxTypeOK
  <2> QED
    BY <1>2, <2>1, <2>2, RecoverRow, ClaimsMoveInbox DEF RelayRecovers
<1>3. ASSUME NEW c \in claims, RelayMarks(c)
      PROVE  InboxInv'
  BY <1>3, MarksInbox
<1>4. ASSUME NEW c \in claims, RelayMarkThrows(c)
      PROVE  InboxInv'
  <2>1. ClaimsMove
    BY <1>4, ResultMoves DEF RelayMarkThrows, Results
  <2> QED
    BY <1>4, <2>1, ClaimsMoveInbox DEF RelayMarkThrows, InboxInv, InboxTypeOK
<1>5. CASE RelayDies(w)
  <2>1. faults' \in 0 .. MaxFaults
    BY <1>5, WebhookAssumption DEF RelayDies, InboxInv, InboxTypeOK
  <2> QED
    BY <1>5, <2>1, DroppingMoves, ClaimsMoveInbox DEF RelayDies
<1> QED
  BY <1>1, <1>2, <1>3, <1>4, <1>5 DEF RelayNext, ClaimsOf

LEMMA InboxInvStep ==
  ASSUME InboxInv, [WebhookNext]_webhookVars
  PROVE  InboxInv'
<1>1. CASE ShopNext
  BY <1>1, InboxUnchanged DEF ShopNext
<1>2. CASE UNCHANGED webhookVars
  BY <1>2, InboxUnchanged DEF webhookVars
<1> QED
  BY <1>1, <1>2, DeliveryInbox, EventInbox, RelayInbox DEF WebhookNext

LEMMA InboxInvariant == WebhookSpec => []InboxInv
<1>1. InboxInv /\ [WebhookNext]_webhookVars => InboxInv'
  BY InboxInvStep
<1> QED
  BY <1>1, InboxInvInit, PTL DEF WebhookSpec

(* The rows and claims keep their type; the retry budget is never exceeded *)
(* (payment-webhook-recovery.relay.ts 143-144).                            *)
THEOREM InboxTypeCorrect == WebhookSpec => []InboxTypeOK
BY InboxInvariant, PTL DEF InboxInv

(* The inbox implements the commerce life cycle                            *)
(* (payment-webhook.service.ts 150-201).                                   *)
THEOREM CommerceImplemented == WebhookSpec => ImplementsCommerce
<1>1. WebhookInit => Init
  BY DEF WebhookInit
<1>2. InboxInv /\ [WebhookNext]_webhookVars => [Next]_vars
  BY CommerceStep DEF InboxInv
<1> QED
  BY <1>1, <1>2, InboxInvariant, PTL DEF WebhookSpec, ImplementsCommerce, Spec

(* So every theorem about the life cycle holds with webhooks, relays and   *)
(* administrators at work.                                                 *)
LEMMA CommerceSafe ==
  WebhookSpec => /\ []TypeOK
                 /\ []ReservationsFollowOrder
                 /\ []MoneyFollowsOrder
                 /\ EndedStaysEnded
BY CommerceImplemented, TypeCorrect, ReservationsCorrect, MoneyCorrect,
   EndedStaysEndedCorrect, PTL DEF ImplementsCommerce

-----------------------------------------------------------------------------
(* Events are applied once. *)

LEMMA NothingResumesStep ==
  ASSUME TypeOK, ReservationsFollowOrder, Next
  PROVE  NothingResumes
BY OrderEnds, AttemptEnds, ShipmentEnds, AdjustEnds DEF Next

(* The transaction a webhook leaves behind. *)
LEMMA EffectRecorded ==
  ASSUME NEW e \in Events, ApplyOutcome(e)
  PROVE  txns' = txns \cup {Effect(e)}
<1> DEFINE c == Command[e]
<1>1. CASE c.outcome = "CAPTURED" /\ Capture(c.attempt, WebhookKey[e], c.providerId)
  BY <1>1 DEF Capture, CaptureAttempt, Effect, Recording
<1>2. CASE c.outcome = "REFUNDED"
           /\ Refund(c.attempt, WebhookKey[e], c.providerId, c.amount)
  BY <1>2 DEF Refund, RefundAttempt, Effect, Recording
<1>3. CASE c.outcome = "FAILED" /\ Fail(c.attempt, WebhookKey[e])
  BY <1>3 DEF Fail, FailAttempt, Effect, Recording
<1> QED
  BY <1>1, <1>2, <1>3 DEF ApplyOutcome

LEMMA EffectKey ==
  ASSUME NEW e \in Events
  PROVE  Effect(e).key = WebhookKey[e] /\ Records(Effect(e), e)
BY WebhookAssumption DEF Effect, Recording, Records

(* EventAppliedOnce, for one event. *)
Applied(e) ==
  LET own == {t \in txns : t.key = WebhookKey[e]} IN
  IF event[e] = "PROCESSED"
    THEN own \subseteq {Effect(e)} /\ \E t \in txns : Records(t, e)
    ELSE own = {}

(* Nobody else's transactions bear on an event. *)
LEMMA AppliedKept ==
  ASSUME NEW e \in Events, Applied(e), txns \subseteq txns',
         \A t \in txns' \ txns : t.key # WebhookKey[e],
         event'[e] = "PROCESSED" <=> event[e] = "PROCESSED"
  PROVE  Applied(e)'
BY DEF Applied, Records, Effect, Recording

LEMMA ProcessApplies ==
  ASSUME InboxTypeOK, EventAppliedOnce, NEW e \in Events, event[e] # "PROCESSED",
         Process(e)
  PROVE  EventAppliedOnce'
<1>1. event' = [event EXCEPT ![e] = "PROCESSED"] /\ event \in [Events -> {"NONE"} \cup EventStatus]
  BY DEF Process, InboxTypeOK
<1>2. \A t \in txns : t.key # WebhookKey[e]
  BY DEF EventAppliedOnce
<1>3. CASE ApplyOutcome(e)
  <2>1. txns' = txns \cup {Effect(e)}
    BY <1>3, EffectRecorded
  <2>2. Applied(e)'
    BY <1>1, <1>2, <2>1, EffectKey DEF Applied, Effect, Records, Recording
  <2>3. ASSUME NEW d \in Events \ {e}
        PROVE  Applied(d)'
    <3>1. Applied(d)
      BY DEF EventAppliedOnce, Applied
    <3>2. \A t \in txns' \ txns : t.key # WebhookKey[d]
      BY <2>1, EffectKey, WebhookAssumption
    <3> QED
      BY <1>1, <2>1, <3>1, <3>2, AppliedKept
  <2> QED
    BY <2>2, <2>3 DEF EventAppliedOnce, Applied
<1>4. CASE Repeats(e) /\ UNCHANGED vars
  <2>1. UNCHANGED txns
    BY <1>4 DEF vars
  <2>2. \E t \in txns : Records(t, e)
    BY <1>4 DEF Repeats, Found
  <2>3. Applied(e)'
    BY <1>1, <1>2, <2>1, <2>2 DEF Applied, Records, Effect, Recording
  <2>4. ASSUME NEW d \in Events \ {e}
        PROVE  Applied(d)'
    <3>1. Applied(d)
      BY DEF EventAppliedOnce, Applied
    <3> QED
      BY <1>1, <2>1, <3>1, AppliedKept
  <2> QED
    BY <2>3, <2>4 DEF EventAppliedOnce, Applied
<1> QED
  BY <1>3, <1>4 DEF Process

(* A step that neither records a transaction nor processes an event. *)
SameProcessed ==
  /\ UNCHANGED txns
  /\ \A e \in Events : event'[e] = "PROCESSED" <=> event[e] = "PROCESSED"

LEMMA SameProcessedApplies ==
  ASSUME EventAppliedOnce, SameProcessed
  PROVE  EventAppliedOnce'
<1>1. ASSUME NEW e \in Events
      PROVE  Applied(e)'
  <2>1. Applied(e)
    BY DEF EventAppliedOnce, Applied
  <2> QED
    BY <2>1, AppliedKept DEF SameProcessed
<1> QED
  BY <1>1 DEF EventAppliedOnce, Applied

(* Only processing an event makes it PROCESSED, and nothing undoes it. *)
LEMMA InboxStepKinds ==
  ASSUME InboxInv, WebhookNext, ~ShopNext
  PROVE  \/ SameProcessed
         \/ \E e \in Events : event[e] # "PROCESSED" /\ Process(e)
<1>1. verified \subseteq Events
  BY DEF InboxInv, InboxTypeOK
<1>2. event \in [Events -> {"NONE"} \cup EventStatus]
  BY DEF InboxInv, InboxTypeOK
<1>3. UNCHANGED vars => UNCHANGED txns
  BY DEF vars
<1>4. ASSUME NEW e, NEW result, Recover(e, result)
      PROVE  \/ SameProcessed
             \/ \E x \in Events : event[x] # "PROCESSED" /\ Process(x)
  BY <1>1, <1>3, <1>4 DEF Recover, SameProcessed
<1>5. ASSUME NEW d \in Deliveries, DeliveryNext(d)
      PROVE  \/ SameProcessed
             \/ \E x \in Events : event[x] # "PROCESSED" /\ Process(x)
  BY <1>2, <1>3, <1>4, <1>5
  DEF DeliveryNext, StoreVerified, DeliveryRecovers, DeliveryFails, DeliveryDies, SameProcessed
<1>6. ASSUME NEW e \in Events, EventNext(e)
      PROVE  \/ SameProcessed
             \/ \E x \in Events : event[x] # "PROCESSED" /\ Process(x)
  BY <1>2, <1>3, <1>6
  DEF EventNext, AdminReceives, AdminProcesses, AdminFails, LeaseLapses, SameProcessed
<1>7. ASSUME NEW w \in Workers, RelayNext(w)
      PROVE  \/ SameProcessed
             \/ \E x \in Events : event[x] # "PROCESSED" /\ Process(x)
  <2>1. ASSUME NEW c \in claims, RelayMarks(c)
        PROVE  SameProcessed
    BY <1>2, <1>3, <2>1 DEF RelayMarks, Mark, Unmarked, Holds, SameProcessed
  <2> QED
    BY <1>3, <1>4, <1>7, <2>1
    DEF RelayNext, ClaimsOf, Claim, RelayRecovers, RelayMarkThrows, RelayDies, SameProcessed
<1> QED
  BY <1>5, <1>6, <1>7 DEF WebhookNext

(* An event moves money exactly when, and only if, it is PROCESSED: a      *)
(* crash between storing and applying, a second delivery, a second relay   *)
(* and an administrator never apply it twice or mark it for nothing        *)
(* (payment-webhook.service.ts 150-201).                                   *)
THEOREM EventAppliedOnceCorrect == WebhookSpec => []EventAppliedOnce
<1>1. WebhookInit => EventAppliedOnce
  BY DEF WebhookInit, Init, PaymentInit, EventAppliedOnce
<1>2. ASSUME InboxInv, TypeOK, ReservationsFollowOrder, EventAppliedOnce,
             [WebhookNext]_webhookVars
      PROVE  EventAppliedOnce'
  <2>1. CASE ShopNext
    <3>1. txns \subseteq txns' /\ UNCHANGED event
      BY <1>2, <2>1, NothingResumesStep DEF ShopNext, inboxVars, NothingResumes
    <3>2. ASSUME NEW e \in Events
          PROVE  Applied(e)'
      <4>1. Applied(e)
        BY <1>2 DEF EventAppliedOnce, Applied
      <4> QED
        BY <2>1, <3>1, <4>1, AppliedKept DEF ShopNext
    <3> QED
      BY <3>2 DEF EventAppliedOnce, Applied
  <2>2. CASE WebhookNext /\ ~ShopNext
    BY <1>2, <2>2, InboxStepKinds, SameProcessedApplies, ProcessApplies DEF InboxInv
  <2>3. CASE UNCHANGED webhookVars
    BY <1>2, <2>3, SameProcessedApplies DEF SameProcessed, webhookVars, vars, inboxVars
  <2> QED
    BY <1>2, <2>1, <2>2, <2>3
<1> QED
  BY <1>1, <1>2, InboxInvariant, CommerceSafe, PTL DEF WebhookSpec

-----------------------------------------------------------------------------
(* Settled events stay settled. *)

LEMMA RowsKept ==
  ASSUME UNCHANGED <<verified, retryCount>>,
         UNCHANGED event \/ \E e \in Events : /\ event[e] \notin {"PROCESSED", "FAILED"}
                                              /\ \E to : event' = [event EXCEPT ![e] = to],
         InboxInv
  PROVE  NothingReopens
BY DEF NothingReopens, InboxInv, InboxTypeOK

LEMMA RecoverReopensNothing ==
  ASSUME InboxInv, NEW e, NEW result, Recover(e, result), UNCHANGED <<verified, retryCount>>
  PROVE  NothingReopens
<1>1. verified \subseteq Events
  BY DEF InboxInv, InboxTypeOK
<1> QED
  BY <1>1, RecoverRow, RowsKept

LEMMA StoreReopensNothing ==
  ASSUME InboxInv, NEW d \in Deliveries, NEW e \in Events, StoreVerified(d, e)
  PROVE  NothingReopens
<1> DEFINE fresh == event[e] = "NONE" \/ (event[e] = "FAILED" /\ e \notin verified)
<1>1. CASE fresh
  <2>1. e \notin verified /\ event[e] # "PROCESSED"
    BY <1>1 DEF InboxInv, RowsInBudget
  <2> QED
    BY <1>1, <2>1 DEF StoreVerified, NothingReopens, InboxInv, InboxTypeOK
<1>2. CASE ~fresh
  BY <1>2 DEF StoreVerified, NothingReopens, InboxInv, InboxTypeOK
<1> QED
  BY <1>1, <1>2

LEMMA MarksReopenNothing ==
  ASSUME InboxInv, NEW c \in claims, RelayMarks(c)
  PROVE  NothingReopens
<1> DEFINE e == c.event
<1>1. /\ e \in Events /\ c.retryCount \in Nat /\ retryCount \in [Events -> Nat]
      /\ lease[e] = c.worker => c.retryCount = retryCount[e]
      /\ event \in [Events -> {"NONE"} \cup EventStatus]
  BY WebhookAssumption DEF InboxInv, InboxTypeOK, ClaimsCurrent, ClaimedEvent
<1>2. UNCHANGED verified
  BY DEF RelayMarks
<1>3. CASE Unmarked
  BY <1>1, <1>2, <1>3 DEF Unmarked, NothingReopens
<1>4. CASE c.result = "PROCESSED" /\ event[e] = "PROCESSED"
           /\ Mark(c, "PROCESSED", retryCount[e])
  BY <1>1, <1>2, <1>4 DEF Mark, NothingReopens
<1>5. CASE c.result = "FAILED" /\ event[e] \in {"RECEIVED", "FAILED"}
           /\ Mark(c, "FAILED", retryCount[e])
  BY <1>1, <1>2, <1>5 DEF Mark, NothingReopens
<1>6. CASE \E to, n : /\ event[e] = "RECEIVED" /\ lease[e] = c.worker
                      /\ n \in {c.retryCount, c.retryCount + 1} /\ Mark(c, to, n)
  BY <1>1, <1>2, <1>6 DEF Mark, NothingReopens
<1> QED
  BY <1>3, <1>4, <1>5, <1>6 DEF RelayMarks, Charged, Holds

LEMMA NothingReopensStep ==
  ASSUME InboxInv, WebhookNext
  PROVE  NothingReopens
<1>1. event \in [Events -> {"NONE"} \cup EventStatus] /\ retryCount \in [Events -> Nat]
  BY WebhookAssumption DEF InboxInv, InboxTypeOK
<1>2. CASE ShopNext
  BY <1>1, <1>2 DEF ShopNext, inboxVars, NothingReopens
<1>3. ASSUME NEW d \in Deliveries, DeliveryNext(d)
      PROVE  NothingReopens
  <2>1. CASE DeliveryFails(d)
    <3>1. delivery[d].event \in verified
      BY <2>1 DEF DeliveryFails, InboxInv, DeliveriesStored
    <3> QED
      BY <1>1, <2>1, <3>1 DEF DeliveryFails, NothingReopens
  <2> QED
    BY <1>1, <1>3, <2>1, StoreReopensNothing, RecoverReopensNothing, RowsKept
    DEF DeliveryNext, DeliveryRecovers, DeliveryDies
<1>4. ASSUME NEW e \in Events, EventNext(e)
      PROVE  NothingReopens
  BY <1>1, <1>4
  DEF EventNext, AdminReceives, AdminProcesses, Process, AdminFails, LeaseLapses, NothingReopens
<1>5. ASSUME NEW w \in Workers, RelayNext(w)
      PROVE  NothingReopens
  BY <1>5, MarksReopenNothing, RecoverReopensNothing, RowsKept
  DEF RelayNext, ClaimsOf, Claim, RelayRecovers, RelayMarkThrows, RelayDies
<1> QED
  BY <1>2, <1>3, <1>4, <1>5 DEF WebhookNext

(* A processed event stays processed, a failed one is not reopened but by  *)
(* an administrator who processes it, and retries are never given back,    *)
(* however late a result is written (payment-webhook-recovery.relay.ts     *)
(* 111-167).                                                               *)
THEOREM SettledEventsStayCorrect == WebhookSpec => SettledEventsStay
<1>1. InboxInv /\ [WebhookNext]_webhookVars => [NothingReopens]_webhookVars
  BY NothingReopensStep
<1> QED
  BY <1>1, InboxInvariant, PTL DEF WebhookSpec, SettledEventsStay

-----------------------------------------------------------------------------
(* Early events are kept. *)

(* An attempt is opened once, and leaves PENDING once. *)
LEMMA AttemptsOpenOnce ==
  ASSUME TypeOK, [Next]_vars, NEW a \in Attempts
  PROVE  /\ attempt'[a] = "NONE" => attempt[a] = "NONE"
         /\ attempt'[a] = "PENDING" => attempt[a] \in {"NONE", "PENDING"}
<1>1. attempt \in [Attempts -> {"NONE"} \cup AttemptStatus]
  BY DEF TypeOK, PaymentTypeOK
<1>2. UNCHANGED paymentVars => UNCHANGED attempt
  BY DEF paymentVars
<1>3. ASSUME NEW o \in Orders, OrderNext(o)
      PROVE  UNCHANGED attempt \/ CancelAttempts(AttemptsOf(o))
  BY <1>2, <1>3 DEF OrderNext, Place, Lapse, Cancel, ExpireByAdmin, ExpireByBatch, ExpireOrder
<1>4. ASSUME NEW o \in Orders, CancelAttempts(AttemptsOf(o))
      PROVE  attempt'[a] \in {attempt[a], "CANCELLED"}
  BY <1>4 DEF CancelAttempts
<1>5. ASSUME NEW b \in Attempts, AttemptNext(b)
      PROVE  \/ attempt[b] = "NONE" /\ attempt' = [attempt EXCEPT ![b] = "PENDING"]
             \/ \E to \in {"CAPTURED", "FAILED", "PARTIALLY_REFUNDED", "REFUNDED"} :
                  attempt' = [attempt EXCEPT ![b] = to]
  BY <1>5 DEF AttemptNext, CreateAttempt, OpenAttempt, Fail, FailAttempt, Capture,
              CaptureAttempt, Refund, RefundAttempt
<1>6. ASSUME NEW f \in Shipments, ShipmentNext(f)
      PROVE  UNCHANGED attempt
  BY <1>2, <1>6 DEF ShipmentNext, CreateFulfillment, Pack, Ship, Deliver, CancelFulfillment
<1>7. ASSUME NEW i \in Items, NEW k \in Requests, NEW d \in Deltas, AdjustStock(i, k, d)
      PROVE  UNCHANGED attempt
  BY <1>2, <1>7 DEF AdjustStock
<1> QED
  BY <1>1, <1>3, <1>4, <1>5, <1>6, <1>7 DEF Next, vars

LEMMA EarlyOnce ==
  ASSUME TypeOK, [Next]_vars, NEW e \in Events, Early(e)'
  PROVE  Early(e)
BY AttemptsOpenOnce, CommandTyped DEF Early

(* A verdict that an event cannot be processed outlives the state it was   *)
(* given in: it must still be right when it is written.                    *)
Decided(e) == ~Early(e) \/ event[e] \in {"PROCESSED", "FAILED"}

VerdictsStand ==
  /\ \A c \in claims : c.result = "FAILED" => Decided(c.event)
  /\ \A d \in Deliveries : delivery[d].at = "refused" => Decided(delivery[d].event)

LEMMA DecidedStays ==
  ASSUME InboxInv, TypeOK, WebhookNext, NEW e \in verified, Decided(e)
  PROVE  Decided(e)'
<1>1. e \in Events
  BY DEF InboxInv, InboxTypeOK
<1>2. [Next]_vars
  BY CommerceStep DEF InboxInv
<1>3. event[e] \in {"PROCESSED", "FAILED"} => event'[e] \in {"PROCESSED", "FAILED"}
  BY <1>1, NothingReopensStep DEF NothingReopens
<1> QED
  BY <1>1, <1>2, <1>3, EarlyOnce DEF Decided

LEMMA VerdictDecided ==
  ASSUME NEW e \in verified, Recover(e, "FAILED")
  PROVE  Decided(e)
<1>1. event[e] = "FAILED" \/ ~Waiting(e)
  BY DEF Recover, Refused
<1>2. ~Waiting(e) => ~Early(e)
  BY DEF Waiting, WellFormed, Early, Failable
<1> QED
  BY <1>1, <1>2 DEF Decided

(* Who may carry a verdict after a step: who carried it before, or whoever *)
(* just got it.                                                            *)
LEMMA VerdictsCarried ==
  ASSUME InboxInv, VerdictsStand, WebhookNext
  PROVE  /\ \A c \in claims' : c.result = "FAILED" =>
              c.event \in verified /\ Decided(c.event)
         /\ \A d \in Deliveries : delivery'[d].at = "refused" =>
              delivery'[d].event \in verified /\ Decided(delivery'[d].event)
<1> DEFINE CarriedOn ==
      /\ \A c \in claims' : c.result = "FAILED" => c.event \in verified /\ Decided(c.event)
      /\ \A d \in Deliveries : delivery'[d].at = "refused" =>
           delivery'[d].event \in verified /\ Decided(delivery'[d].event)
<1>1. /\ \A c \in claims : c.result = "FAILED" => c.event \in verified /\ Decided(c.event)
      /\ \A d \in Deliveries : delivery[d].at = "refused" =>
           delivery[d].event \in verified /\ Decided(delivery[d].event)
  BY DEF InboxInv, ClaimsCurrent, DeliveriesStored, VerdictsStand
<1>2. /\ delivery \in [Deliveries -> [at : {"idle", "stored", "refused"},
                                     event : Events \cup {NoEvent}]]
      /\ claims \subseteq ClaimedEvent
  BY DEF InboxInv, InboxTypeOK
<1>3. CASE ShopNext
  BY <1>1, <1>3 DEF ShopNext, inboxVars
<1>4. ASSUME NEW d \in Deliveries, DeliveryNext(d)
      PROVE  CarriedOn
  <2>1. UNCHANGED claims
    BY <1>4 DEF DeliveryNext, StoreVerified, DeliveryRecovers, DeliveryFails, DeliveryDies
  <2>2. ASSUME NEW result \in Results, DeliveryRecovers(d, result)
        PROVE  CarriedOn
    <3>1. CASE result = "FAILED"
      <4>1. delivery[d].event \in verified /\ Decided(delivery[d].event)
        BY <2>2, <3>1, VerdictDecided DEF DeliveryRecovers, InboxInv, DeliveriesStored
      <4>2. /\ delivery'[d].event = delivery[d].event
            /\ \A x \in Deliveries \ {d} : delivery'[x] = delivery[x]
        BY <1>2, <2>2, <3>1 DEF DeliveryRecovers
      <4> QED
        BY <1>1, <2>1, <4>1, <4>2
    <3>2. CASE result # "FAILED"
      BY <1>1, <1>2, <2>1, <2>2, <3>2 DEF DeliveryRecovers, Idle
    <3> QED
      BY <3>1, <3>2
  <2>3. CASE \E e \in Events : StoreVerified(d, e)
    BY <1>1, <1>2, <2>1, <2>3 DEF StoreVerified
  <2>4. CASE DeliveryFails(d) \/ DeliveryDies(d)
    BY <1>1, <1>2, <2>1, <2>4 DEF DeliveryFails, DeliveryDies, Idle
  <2> QED
    BY <1>4, <2>2, <2>3, <2>4 DEF DeliveryNext
<1>5. ASSUME NEW e \in Events, EventNext(e)
      PROVE  CarriedOn
  BY <1>1, <1>5 DEF EventNext, AdminReceives, AdminProcesses, AdminFails, LeaseLapses
<1>6. ASSUME NEW w \in Workers, RelayNext(w)
      PROVE  CarriedOn
  <2>1. UNCHANGED delivery
    BY <1>6 DEF RelayNext, Claim, RelayRecovers, RelayMarks, RelayMarkThrows, RelayDies
  <2>2. ASSUME NEW c \in claims, NEW result \in Results, RelayRecovers(c, result)
        PROVE  CarriedOn
    <3>1. /\ [c EXCEPT !.result = result].result = result
          /\ [c EXCEPT !.result = result].event = c.event
          /\ c.event \in verified
      BY <1>2 DEF ClaimedEvent, InboxInv, ClaimsCurrent
    <3>2. result = "FAILED" => Decided(c.event)
      BY <2>2, <3>1, VerdictDecided DEF RelayRecovers
    <3> QED
      BY <1>1, <2>1, <2>2, <3>1, <3>2 DEF RelayRecovers
  <2>3. ASSUME NEW c \in claims, RelayMarkThrows(c)
        PROVE  CarriedOn
    <3>1. [c EXCEPT !.result = "ERROR"].result = "ERROR"
      BY <1>2 DEF ClaimedEvent
    <3> QED
      BY <1>1, <2>1, <2>3, <3>1 DEF RelayMarkThrows
  <2> QED
    BY <1>1, <1>6, <2>1, <2>2, <2>3 DEF RelayNext, ClaimsOf, Claim, RelayMarks, RelayDies
<1> QED
  BY <1>3, <1>4, <1>5, <1>6 DEF WebhookNext

LEMMA VerdictsStandStep ==
  ASSUME InboxInv, TypeOK, VerdictsStand, [WebhookNext]_webhookVars
  PROVE  VerdictsStand'
<1>1. CASE WebhookNext
  <2>1. \A e \in verified : Decided(e) => Decided(e)'
    BY <1>1, DecidedStays
  <2> QED
    BY <1>1, <2>1, VerdictsCarried DEF VerdictsStand, Decided, Early
<1>2. CASE UNCHANGED webhookVars
  BY <1>2 DEF webhookVars, vars, inboxVars, VerdictsStand, Decided, Early
<1> QED
  BY <1>1, <1>2

(* What a marking update does to the retry counts.                         *)
LEMMA MarksCharge ==
  ASSUME InboxInv, NEW c \in claims, RelayMarks(c), NEW e \in Events
  PROVE  /\ retryCount'[e] # retryCount[e] => Answered(e, "ERROR")
         /\ Answered(e, "RETRY") => retryCount'[e] = retryCount[e]
<1>1. /\ c.event \in Events /\ retryCount \in [Events -> Nat]
      /\ lease[c.event] = c.worker => c.retryCount = retryCount[c.event]
  BY WebhookAssumption DEF InboxInv, InboxTypeOK, ClaimsCurrent, ClaimedEvent
<1>2. claims \ claims' = {c}
  BY DEF RelayMarks
<1>3. CASE c.event = e /\ c.result = "ERROR"
  BY <1>2, <1>3 DEF Answered
<1>4. CASE c.event # e
  BY <1>1, <1>2, <1>4 DEF RelayMarks, Mark, Unmarked, Answered
<1>5. CASE c.event = e /\ c.result # "ERROR"
  <2>1. retryCount'[e] = retryCount[e]
    BY <1>1, <1>5 DEF RelayMarks, Mark, Unmarked, Holds, Charged
  <2> QED
    BY <2>1
<1> QED
  BY <1>3, <1>4, <1>5

(* Only the mark of a processing failure counts as one, waiting does not.  *)
LEMMA OnlyFailuresCharge ==
  ASSUME InboxInv, WebhookNext, NEW e \in Events
  PROVE  /\ retryCount'[e] # retryCount[e] => Answered(e, "ERROR")
         /\ Answered(e, "RETRY") => retryCount'[e] = retryCount[e]
<1>1. CASE UNCHANGED retryCount
  BY <1>1
<1>2. CASE \E c \in claims : RelayMarks(c)
  BY <1>2, MarksCharge
<1>3. ASSUME NEW d \in Deliveries, NEW x \in Events, StoreVerified(d, x)
      PROVE  retryCount'[e] = retryCount[e]
  BY <1>3 DEF StoreVerified, InboxInv, InboxTypeOK, RowsInBudget
<1>4. ASSUME NEW d \in Deliveries, DeliveryNext(d)
      PROVE  UNCHANGED retryCount \/ \E x \in Events : StoreVerified(d, x)
  BY <1>4 DEF DeliveryNext, DeliveryRecovers, DeliveryFails, DeliveryDies
<1>5. ASSUME NEW x \in Events, EventNext(x)
      PROVE  UNCHANGED retryCount
  BY <1>5 DEF EventNext, AdminReceives, AdminProcesses, AdminFails, LeaseLapses
<1>6. ASSUME NEW w \in Workers, RelayNext(w)
      PROVE  UNCHANGED retryCount \/ \E c \in claims : RelayMarks(c)
  BY <1>6 DEF RelayNext, ClaimsOf, Claim, RelayRecovers, RelayMarkThrows, RelayDies
<1>7. CASE ShopNext
  BY <1>1, <1>7 DEF ShopNext, inboxVars
<1> QED
  BY <1>1, <1>2, <1>3, <1>4, <1>5, <1>6, <1>7 DEF WebhookNext

(* Who gives up on an event that came too early.                           *)
LEMMA EarlyStep ==
  ASSUME InboxInv, VerdictsStand, WebhookNext,
         NEW e \in Events, Early(e), e \in verified, event[e] = "RECEIVED",
         event'[e] = "FAILED"
  PROVE  AdminFails(e) \/ (Answered(e, "ERROR") /\ retryCount'[e] = MaxRetries)
<1>1. event \in [Events -> {"NONE"} \cup EventStatus] /\ ~Decided(e)
  BY DEF InboxInv, InboxTypeOK, Decided
<1>2. ASSUME NEW x, NEW result, Recover(x, result)
      PROVE  FALSE
  BY <1>1, <1>2, RecoverRow
<1>3. ASSUME NEW d \in Deliveries, DeliveryNext(d)
      PROVE  FALSE
  BY <1>1, <1>2, <1>3
  DEF DeliveryNext, StoreVerified, DeliveryRecovers, DeliveryFails, DeliveryDies, VerdictsStand
<1>4. ASSUME NEW x \in Events, EventNext(x)
      PROVE  AdminFails(e)
  BY <1>1, <1>4 DEF EventNext, AdminReceives, AdminProcesses, Process, AdminFails, LeaseLapses
<1>5. ASSUME NEW w \in Workers, RelayNext(w)
      PROVE  Answered(e, "ERROR") /\ retryCount'[e] = MaxRetries
  <2>1. ASSUME NEW c \in claims, RelayMarks(c)
        PROVE  Answered(e, "ERROR") /\ retryCount'[e] = MaxRetries
    <3>1. /\ c.event \in Events /\ c.retryCount \in Nat /\ c.retryCount < MaxRetries
          /\ retryCount \in [Events -> 0 .. MaxRetries]
      BY WebhookAssumption DEF InboxInv, InboxTypeOK, ClaimsCurrent, ClaimedEvent
    <3>2. /\ c.event = e /\ c.result = "ERROR" /\ Exhausted(Charged(c))
          /\ Mark(c, "FAILED", Charged(c)) /\ c \notin claims'
      BY <1>1, <2>1, <3>1 DEF RelayMarks, Mark, Unmarked, VerdictsStand
    <3>3. Charged(c) = c.retryCount + 1
      BY <3>2 DEF Charged
    <3>4. MaxRetries \in Nat /\ c.retryCount \in Nat /\ c.retryCount < MaxRetries
      BY <3>1, WebhookAssumption
    <3>5. c.retryCount + 1 >= MaxRetries
      BY <3>2, <3>3 DEF Exhausted
    <3>6. c.retryCount + 1 = MaxRetries
      BY <3>4, <3>5
    <3>7. retryCount'[e] = Charged(c)
      BY <3>1, <3>2 DEF Mark
    <3> QED
      BY <3>2, <3>3, <3>6, <3>7 DEF Answered
  <2> QED
    BY <1>1, <1>2, <1>5, <2>1
    DEF RelayNext, ClaimsOf, Claim, RelayRecovers, RelayMarkThrows, RelayDies
<1> QED
  BY <1>1, <1>3, <1>4, <1>5 DEF WebhookNext, ShopNext, inboxVars

LEMMA NothingGivenUpStep ==
  ASSUME InboxInv, VerdictsStand, WebhookNext
  PROVE  NothingGivenUp
BY EarlyStep, OnlyFailuresCharge DEF NothingGivenUp

(* Nobody but an administrator gives up on an event that overtook its      *)
(* attempt or its capture while it has retries, not even with a verdict    *)
(* that was given long before it is written; and waiting for them is never *)
(* charged as a retry, whatever count a late relay writes                  *)
(* (payment-webhook.service.ts 139-145, payment-webhook-recovery.relay.ts  *)
(* 137-167).                                                               *)
THEOREM EarlyEventsKeptCorrect == WebhookSpec => EarlyEventsKept
<1>1. WebhookInit => VerdictsStand
  BY DEF WebhookInit, VerdictsStand, Idle
<1>2. InboxInv /\ TypeOK /\ VerdictsStand /\ [WebhookNext]_webhookVars => VerdictsStand'
  BY VerdictsStandStep
<1>3. InboxInv /\ VerdictsStand /\ [WebhookNext]_webhookVars
        => [NothingGivenUp]_webhookVars
  BY NothingGivenUpStep
<1> QED
  BY <1>1, <1>2, <1>3, InboxInvariant, CommerceSafe, PTL DEF WebhookSpec, EarlyEventsKept
===============================================================================
