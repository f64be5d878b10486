---------------------------- MODULE PaymentStore ----------------------------
(***************************************************************************)
(* The state the payment components share: the MongoDB collections they    *)
(* read and write, the charges the provider holds, the webhook events it   *)
(* has emitted, and the workflow executions Temporal holds.                *)
(*                                                                         *)
(* One operator per repository method that writes.  A whole document is    *)
(* read or written in one step, as MongoDB does; everything that takes two *)
(* calls in the code takes two steps in the components that EXTEND this    *)
(* module.                                                                 *)
(***************************************************************************)
EXTENDS Integers, FiniteSets

CONSTANTS
  Requests,      \* payment requests; a request's name is the uuid it draws for its transaction
  Batch,         \* the requests made to /payments/batch (the others to /payments/process)
  Keys, NoKey,   \* idempotency keys; NoKey: the request carries none
  KeyOf,         \* idempotency key of each request
  MethodOf,      \* payment method of each request
  ItemsOf,       \* installments each request names; /payments/process links none
  Installments,
  MaxAttempts,   \* HTTP attempts of one provider call (maxRetries, 3 in the client)
  Outcomes,      \* provider statuses a charge may move to in this instance
  TemporalEnabled, \* TEMPORAL_WORKER_ENABLED: otherwise starter and signaler are no-ops
  MaxFaults,     \* bound on the failures injected in one behaviour
  NoTx, NoCharge, NoItem, NoEvent   \* "absent" sentinels

TxStatus == {"PENDING", "PROCESSING", "COMPLETED", "FAILED", "CANCELLED"}
InstallmentStatus == {"PENDING", "PROCESSING", "PAID", "OVERDUE", "CANCELLED"}
ChargeStatus == {"PENDING", "CONFIRMED", "RECEIVED", "OVERDUE", "REFUNDED", "CANCELED"}
Methods == {"PIX", "BOLETO", "CREDIT_CARD"}

\* A charge is named by the request that created it and the HTTP attempt.
ChargeIds == Requests \X (1..MaxAttempts)
Charge == [ref: Requests, status: ChargeStatus]

\* A webhook event is identified by the charge and the status it reports.
Events == [charge: ChargeIds, status: ChargeStatus]

\* A payment_transactions document, and the copy of one that a handler holds.
\* pid is providerTransactionId; expires says whether expiresAt is set.
Tx == [id: Requests, status: TxStatus, pid: ChargeIds \cup {NoCharge}, expires: BOOLEAN]

ASSUME StoreAssumption ==
  /\ Batch \subseteq Requests
  /\ NoKey \notin Keys
  /\ KeyOf \in [Requests -> Keys \cup {NoKey}]
  /\ MethodOf \in [Requests -> Methods]
  /\ ItemsOf \in [Requests -> SUBSET Installments]
  /\ \A r \in Requests \ Batch : ItemsOf[r] = {}
  /\ Outcomes \subseteq ChargeStatus
  /\ TemporalEnabled \in BOOLEAN
  /\ MaxAttempts \in Nat /\ MaxFaults \in Nat
  /\ NoTx \notin Tx \cup Requests
  /\ NoCharge \notin ChargeIds /\ NoCharge \notin Charge
  /\ NoItem \notin Installments
  /\ NoEvent \notin Events

VARIABLES
  txs,           \* payment_transactions, by id
  installments,  \* payment_installments, by id: status and transaction_id
  allocations,   \* number of allocation groups in installment_allocations, by installment
  ledger,        \* ledger_entries: entry type and sourceEventId
  notified,      \* transactions whose owner got the "Pagamento Confirmado" notification
  processed,     \* processed_webhook_events
  charges,       \* charges at the provider
  sent,          \* webhook events the provider has emitted; any may be delivered again
  workflows,     \* PaymentExpirationWorkflow executions, by transaction
  faults         \* failures injected so far

storeVars == <<txs, installments, allocations, ledger, notified, processed,
               charges, sent, workflows, faults>>

WorkflowState == {"NONE", "WAITING", "EXPIRING", "LOADED",
                  "COMPLETED", "FAILED", "SKIPPED", "PAID"}
Workflow == [state: WorkflowState, signalled: BOOLEAN, attempts: Nat, tx: Tx \cup {NoTx}]
NoWorkflow == [state |-> "NONE", signalled |-> FALSE, attempts |-> 0, tx |-> NoTx]

LedgerEntries ==
  [type: {"COMMITMENT"}, source: Keys \cup Requests] \cup
  [type: {"CONFIRMATION"}, source: Requests]

StoreTypeOK ==
  /\ txs \in [Requests -> Tx \cup {NoTx}]
  /\ installments \in [Installments -> [status: InstallmentStatus, tx: Requests \cup {NoTx}]]
  /\ allocations \in [Installments -> Nat]
  /\ ledger \subseteq LedgerEntries
  /\ notified \subseteq Requests
  /\ processed \subseteq Events
  /\ charges \in [ChargeIds -> Charge \cup {NoCharge}]
  /\ sent \subseteq Events
  /\ workflows \in [Requests -> Workflow]
  /\ faults \in Nat

StoreInit ==
  /\ txs = [t \in Requests |-> NoTx]
  /\ installments = [i \in Installments |-> [status |-> "PENDING", tx |-> NoTx]]
  /\ allocations = [i \in Installments |-> 0]
  /\ ledger = {}
  /\ notified = {}
  /\ processed = {}
  /\ charges = [c \in ChargeIds |-> NoCharge]
  /\ sent = {}
  /\ workflows = [t \in Requests |-> NoWorkflow]
  /\ faults = 0

\* An injected failure: a failed call, a lost answer or a crash.
Fault == faults < MaxFaults /\ faults' = faults + 1

-----------------------------------------------------------------------------
(* Domain rules of a transaction.                                          *)

IsTerminal(tx) == tx.status \in {"COMPLETED", "FAILED", "CANCELLED"}
MarkCompleted(tx) == [tx EXCEPT !.status = "COMPLETED"]
\* Mutant: the provider's word for it becomes the status.
MarkFailedAsOverdue(tx) == [tx EXCEPT !.status = "OVERDUE"]
MarkFailed(tx) == [tx EXCEPT !.status = "FAILED"]

\* PaymentProviderStatus.IsTerminal
ProviderIsTerminal(s) == s \in {"RECEIVED", "CONFIRMED", "OVERDUE", "REFUNDED", "CANCELED"}

-----------------------------------------------------------------------------
(* Repository methods.                                                     *)

Stored(t) == txs[t] # NoTx

\* Update replaces the whole document: no version, no filter on the status.
UpdateTx(tx) == txs' = [txs EXCEPT ![tx.id] = tx]

FindByIdempotencyKey(k) == {t \in Requests : Stored(t) /\ KeyOf[t] = k}
FindByProviderTransactionID(c) == {t \in Requests : Stored(t) /\ txs[t].pid = c}

\* UpdateMany by _id alone; S is the part of the batch MongoDB got to.
MarkPaidBatch(S, t) ==
  installments' = [i \in Installments |->
                     IF i \in S THEN [status |-> "PAID", tx |-> t] ELSE installments[i]]

CommitmentSource(t) == IF KeyOf[t] # NoKey THEN KeyOf[t] ELSE t
AppendCommitment(t) == ledger' = ledger \cup {[type |-> "COMMITMENT", source |-> CommitmentSource(t)]}
AppendConfirmation(t) == ledger' = ledger \cup {[type |-> "CONFIRMATION", source |-> t]}

=============================================================================
