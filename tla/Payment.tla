-------------------------------- MODULE Payment --------------------------------
(***************************************************************************)
(* Payment attempts and the provider transactions recorded under them      *)
(* (src/src/api/payment).  Every operation runs in one transaction that    *)
(* holds the order row and the attempt row FOR UPDATE, so it is one step;   *)
(* what the order, its reservations and its shipments must satisfy is added *)
(* by the module that composes them, CommerceLifecycle.                    *)
(*                                                                         *)
(* Amounts are small naturals: payment-money.ts compares exact decimals.   *)
(***************************************************************************)
EXTENDS Integers, FiniteSets, FiniteSetsExt

CONSTANTS
  Attempts,        \* attempt identities: one per (provider, idempotencyKey)
  Price,           \* Price[a]: requestedAmount, the total of the attempt's order
  RefundAmounts,   \* the amounts a refund request may carry
  PaymentKeys,     \* idempotency keys of capture, failure and refund requests
  ProviderIds,     \* provider transaction ids
  NoProviderId     \* a failed authorisation carries none

ASSUME PaymentAssumption ==
  /\ Price \in [Attempts -> Nat \ {0}]
  /\ RefundAmounts \subseteq Nat \ {0}
  /\ NoProviderId \notin ProviderIds

VARIABLES
  attempt,         \* PaymentAttempt.status, "NONE" before the row exists
  txns             \* the rows of payment_transactions

paymentVars == <<attempt, txns>>

AttemptStatus == {"PENDING", "REQUIRES_ACTION", "AUTHORIZED", "CAPTURED",
                  "PARTIALLY_REFUNDED", "REFUNDED", "CANCELLED", "FAILED"}

Capturable  == {"PENDING", "AUTHORIZED"}
Failable    == {"PENDING", "REQUIRES_ACTION", "AUTHORIZED"}
Refundable  == {"CAPTURED", "PARTIALLY_REFUNDED", "REFUNDED"}
Cancellable == {"PENDING", "REQUIRES_ACTION"}
CapturedWhole == {"CAPTURED"}    \* mutant: a partial refund undoes the payment
Funded      == {"CAPTURED", "PARTIALLY_REFUNDED"}

TransactionType == {"CAPTURE", "REFUND", "AUTHORIZE"}

Transaction == [attempt : Attempts, type : TransactionType,
                status : {"SUCCEEDED", "FAILED"}, amount : Nat, key : PaymentKeys,
                providerId : ProviderIds \cup {NoProviderId}]

PaymentTypeOK ==
  /\ attempt \in [Attempts -> {"NONE"} \cup AttemptStatus]
  /\ txns \in SUBSET Transaction

PaymentInit ==
  /\ attempt = [a \in Attempts |-> "NONE"]
  /\ txns = {}

(* Sum of the succeeded transactions of one type under an attempt. *)
Total(a, type) ==
  SumFunctionOnSet([t \in txns |-> t.amount],
    {t \in txns : t.attempt = a /\ t.type = type /\ t.status = "SUCCEEDED"})

(* Mutant of KnownTransaction: the provider's own id is not looked up. *)
KnownByKey(a, k, p) == \E t \in txns : t.attempt = a /\ t.key = k

(* findTransaction: a request repeats another if either identity is known. *)
KnownTransaction(a, k, p) ==
  \E t \in txns : t.attempt = a /\ (t.key = k \/ t.providerId = p)

(* hasUnrefundedCapture *)
HasUnrefundedCapture(a) ==
  \/ attempt[a] \in Funded
  \/ Total(a, "CAPTURE") > Total(a, "REFUND")

-----------------------------------------------------------------------------
(* createAttemptInTransaction, the attempt's row. *)
OpenAttempt(a) ==
  /\ attempt[a] = "NONE"
  /\ attempt' = [attempt EXCEPT ![a] = "PENDING"]
  /\ UNCHANGED txns

(* captureAttempt, the attempt and its transaction. *)
CaptureAttempt(a, k, p) ==
  /\ ~KnownTransaction(a, k, p)
  /\ attempt[a] \in Capturable
  /\ attempt' = [attempt EXCEPT ![a] = "CAPTURED"]
  /\ txns' = txns \cup {[attempt |-> a, type |-> "CAPTURE", status |-> "SUCCEEDED",
                         amount |-> Price[a], key |-> k, providerId |-> p]}

(* Mutant of FailAttempt: any attempt can fail. *)
FailAnyAttempt(a, k) ==
  /\ ~\E t \in txns : t.attempt = a /\ t.key = k
  /\ attempt[a] \notin {"NONE", "FAILED"}
  /\ attempt' = [attempt EXCEPT ![a] = "FAILED"]
  /\ txns' = txns \cup {[attempt |-> a, type |-> "AUTHORIZE", status |-> "FAILED",
                         amount |-> Price[a], key |-> k, providerId |-> NoProviderId]}

(* failAttempt: only the key identifies a failure. *)
FailAttempt(a, k) ==
  /\ ~\E t \in txns : t.attempt = a /\ t.key = k
  /\ attempt[a] \in Failable
  /\ attempt' = [attempt EXCEPT ![a] = "FAILED"]
  /\ txns' = txns \cup {[attempt |-> a, type |-> "AUTHORIZE", status |-> "FAILED",
                         amount |-> Price[a], key |-> k, providerId |-> NoProviderId]}

(* refundAttempt: refunds accumulate up to the captured amount, and one    *)
(* that completes it needs releaseAllowed (no shipment in progress).       *)
RefundAttempt(a, k, p, amount, releaseAllowed) ==
  LET refunded == Total(a, "REFUND") + amount
      captured == Total(a, "CAPTURE")
      full     == refunded = captured
  IN /\ ~KnownTransaction(a, k, p)
     /\ attempt[a] \in Refundable
     /\ refunded <= captured
     /\ full => releaseAllowed
     /\ attempt[a] = "REFUNDED" => full
     /\ attempt' = [attempt EXCEPT ![a] = IF full THEN "REFUNDED" ELSE "PARTIALLY_REFUNDED"]
     /\ txns' = txns \cup {[attempt |-> a, type |-> "REFUND", status |-> "SUCCEEDED",
                            amount |-> amount, key |-> k, providerId |-> p]}

(* cancelCancellablePaymentAttempts over the attempts of one order. *)
CancelAttempts(S) ==
  /\ attempt' = [a \in Attempts |->
       IF a \in S /\ attempt[a] \in Cancellable THEN "CANCELLED" ELSE attempt[a]]
  /\ UNCHANGED txns

-----------------------------------------------------------------------------
(* The status of an attempt is the one its transactions call for: refunds   *)
(* never exceed the capture, REFUNDED means exactly all of it came back,   *)
(* and a provider transaction is applied once, whatever keys its           *)
(* deliveries carry (payment.service.ts 407-478,                           *)
(* payment-transaction.entity.ts 8-24).  The cancellation guard trusts     *)
(* both the status and the sums, so they must never disagree.              *)
AttemptMatchesTransactions ==
  /\ \A a \in Attempts :
       LET captured == Total(a, "CAPTURE")
           refunded == Total(a, "REFUND")
       IN /\ attempt[a] \in Refundable <=> captured = Price[a]
          /\ attempt[a] \notin Refundable => captured = 0 /\ refunded = 0
          /\ attempt[a] = "CAPTURED" => refunded = 0
          /\ attempt[a] = "PARTIALLY_REFUNDED" => refunded \in 1 .. captured - 1
          /\ attempt[a] = "REFUNDED" => refunded = captured
  /\ \A s, t \in txns :
       /\ s.attempt = t.attempt
       /\ s.key = t.key \/ (s.providerId = t.providerId /\ s.providerId # NoProviderId)
       => s = t
=============================================================================
