--------------------------- MODULE ProcessPayment ---------------------------
(***************************************************************************)
(* ProcessPayment and ProcessBatchPayment: from an HTTP request to a       *)
(* charge at the provider.  One action per call that reads or writes       *)
(* shared state; a request may stop before any of them.                    *)
(*                                                                         *)
(* Left out because nothing here depends on it: the cached customer link,  *)
(* saved cards, amounts and fees, ledger_snapshot_events.                  *)
(***************************************************************************)
EXTENDS PaymentStore

VARIABLE reqs   \* the handler of each request: next call, its tx variable, charges it created

ReqPc == {"start", "validate", "save", "commit", "charge", "markpaid", "update",
          "fail", "workflow", "done", "rejected", "crashed"}

ReqTypeOK ==
  reqs \in [Requests -> [pc: ReqPc, tx: Tx \cup {NoTx}, attempts: 0..MaxAttempts]]

ReqInit == reqs = [r \in Requests |-> [pc |-> "start", tx |-> NoTx, attempts |-> 0]]

Goto(r, pc) == reqs' = [reqs EXCEPT ![r].pc = pc]
Running(r) == reqs[r].pc \notin {"done", "rejected", "crashed"}

\* Steps 1-2: a stored transaction with this key is the answer; a batch goes on
\* to look at its installments.
CheckKey(r) ==
  /\ reqs[r].pc = "start"
  /\ \/ /\ KeyOf[r] # NoKey
        /\ \E t \in FindByIdempotencyKey(KeyOf[r]) :
             reqs' = [reqs EXCEPT ![r].pc = "done", ![r].tx = txs[t]]
     \/ /\ KeyOf[r] = NoKey \/ FindByIdempotencyKey(KeyOf[r]) = {}
        /\ Goto(r, IF r \in Batch THEN "validate" ELSE "save")
  /\ UNCHANGED storeVars

\* Batch steps 2-5: every installment must be neither paid, in process nor cancelled.
ValidateInstallments(r) ==
  /\ reqs[r].pc = "validate"
  /\ Goto(r, IF /\ ItemsOf[r] # {}
                /\ \A i \in ItemsOf[r] :
                     installments[i].status \notin {"PAID", "PROCESSING", "CANCELLED"}
             THEN "save" ELSE "rejected")
  /\ UNCHANGED storeVars

NewTx(r) == [id |-> r, status |-> "PENDING", pid |-> NoCharge, expires |-> FALSE]

\* Mutant: no unique index on the key.
SaveTxWithoutIndex(r) ==
  /\ reqs[r].pc = "save"
  /\ txs' = [txs EXCEPT ![r] = NewTx(r)]
  /\ reqs' = [reqs EXCEPT ![r].pc = "commit", ![r].tx = NewTx(r)]
  /\ UNCHANGED <<installments, allocations, ledger, notified, processed, charges,
                 sent, workflows, faults>>

\* Mutant: a failed insert is taken for the duplicate key and ignored.
SaveTxIgnoringError(r) ==
  /\ reqs[r].pc = "save"
  /\ reqs' = [reqs EXCEPT ![r].pc = "commit", ![r].tx = NewTx(r)]
  /\ UNCHANGED storeVars

\* Persist PENDING.  The unique index on the key turns a second insert into a
\* read: the caller's tx becomes a copy of the stored one, and it goes on.
SaveTx(r) ==
  /\ reqs[r].pc = "save"
  /\ \/ /\ KeyOf[r] = NoKey \/ FindByIdempotencyKey(KeyOf[r]) = {}
        /\ txs' = [txs EXCEPT ![r] = NewTx(r)]
        /\ reqs' = [reqs EXCEPT ![r].pc = "commit", ![r].tx = NewTx(r)]
     \/ /\ KeyOf[r] # NoKey
        /\ \E t \in FindByIdempotencyKey(KeyOf[r]) :
             reqs' = [reqs EXCEPT ![r].pc = "commit", ![r].tx = txs[t]]
        /\ UNCHANGED txs
  /\ UNCHANGED <<installments, allocations, ledger, notified, processed, charges,
                 sent, workflows, faults>>

\* AppendPaymentCommitment; its failure is logged and ignored.
CommitLedger(r) ==
  /\ reqs[r].pc = "commit"
  /\ \/ AppendCommitment(reqs[r].tx.id) /\ UNCHANGED faults
     \/ UNCHANGED ledger /\ Fault
  /\ Goto(r, "charge")
  /\ UNCHANGED <<txs, installments, allocations, notified, processed, charges, sent, workflows>>

\* Statuses a new charge can have: a card may be captured at once.
InitialStatuses(r) == IF MethodOf[r] = "CREDIT_CARD" THEN {"PENDING", "CONFIRMED"} \cap (Outcomes \cup {"PENDING"})
                      ELSE {"PENDING"}

\* POST /payments took effect at the provider, with this status.
PutCharge(c, t, s) ==
  /\ charges' = [charges EXCEPT ![c] = [ref |-> t, status |-> s]]
  /\ sent' = sent \cup {[charge |-> c, status |-> s]}

\* Mutant: a card is taken as captured whatever status the charge has.
AfterChargeAnyStatus(r, c, s, expires) ==
  LET tx == [reqs[r].tx EXCEPT !.pid = c, !.expires = IF expires THEN TRUE ELSE @]
      captured == MethodOf[r] = "CREDIT_CARD"
  IN  [pc |-> IF captured /\ r \in Batch THEN "markpaid" ELSE "update",
       tx |-> IF captured THEN MarkCompleted(tx) ELSE tx,
       attempts |-> reqs[r].attempts + 1]

\* What the caller makes of the answer: PIX and boleto get an expiry when the
\* second provider call answers; a captured card completes the transaction.
AfterCharge(r, c, s, expires) ==
  LET tx == [reqs[r].tx EXCEPT !.pid = c, !.expires = IF expires THEN TRUE ELSE @]
      captured == MethodOf[r] = "CREDIT_CARD" /\ s \in {"CONFIRMED", "RECEIVED"}
  IN  [pc |-> IF captured /\ r \in Batch THEN "markpaid" ELSE "update",
       tx |-> IF captured THEN MarkCompleted(tx) ELSE tx,
       attempts |-> reqs[r].attempts + 1]

\* CreatePayment succeeds on the next attempt.
CreateCharge(r) ==
  /\ reqs[r].pc = "charge"
  /\ reqs[r].attempts < MaxAttempts
  /\ LET c == <<r, reqs[r].attempts + 1>> IN
     \E s \in InitialStatuses(r), expires \in BOOLEAN :
       /\ expires => MethodOf[r] \in {"PIX", "BOLETO"}
       /\ PutCharge(c, reqs[r].tx.id, s)
       /\ reqs' = [reqs EXCEPT ![r] = AfterCharge(r, c, s, expires)]
  /\ UNCHANGED <<txs, installments, allocations, ledger, notified, processed, workflows, faults>>

\* The provider created the charge but the answer was lost (network error or
\* 5xx): doWithRetry posts again, and after the last attempt CreatePayment fails.
LoseChargeAnswer(r) ==
  /\ reqs[r].pc = "charge"
  /\ reqs[r].attempts < MaxAttempts
  /\ LET n == reqs[r].attempts + 1 IN
     /\ \E s \in InitialStatuses(r) : PutCharge(<<r, n>>, reqs[r].tx.id, s)
     /\ reqs' = [reqs EXCEPT
                   ![r].attempts = n,
                   ![r].pc = IF n = MaxAttempts THEN "fail" ELSE "charge",
                   ![r].tx = IF n = MaxAttempts THEN MarkFailed(@) ELSE @]
  /\ Fault
  /\ UNCHANGED <<txs, installments, allocations, ledger, notified, processed, workflows>>

\* Tokenisation or CreatePayment is refused.
RefuseCharge(r) ==
  /\ reqs[r].pc = "charge"
  /\ reqs' = [reqs EXCEPT ![r].pc = "fail", ![r].tx = MarkFailed(@)]
  /\ UNCHANGED storeVars

\* The FAILED transaction is written; the result of that write is discarded.
StoreFailure(r) ==
  /\ reqs[r].pc = "fail"
  /\ \/ UpdateTx(reqs[r].tx) /\ UNCHANGED faults
     \/ UNCHANGED txs /\ Fault
  /\ Goto(r, "done")
  /\ UNCHANGED <<installments, allocations, ledger, notified, processed, charges, sent, workflows>>

\* Batch, captured card: installments are marked before the transaction is
\* stored; an error part of the way is only logged.
MarkBatchPaid(r) ==
  /\ reqs[r].pc = "markpaid"
  /\ \/ MarkPaidBatch(ItemsOf[r], reqs[r].tx.id) /\ UNCHANGED faults
     \/ (\E S \in SUBSET ItemsOf[r] : MarkPaidBatch(S, reqs[r].tx.id)) /\ Fault
  /\ Goto(r, "update")
  /\ UNCHANGED <<txs, allocations, ledger, notified, processed, charges, sent, workflows>>

\* Persist the updated transaction; /payments/process then starts the expiration workflow.
StoreCharge(r) ==
  /\ reqs[r].pc = "update"
  /\ UpdateTx(reqs[r].tx)
  /\ Goto(r, IF /\ r \notin Batch /\ TemporalEnabled
                /\ reqs[r].tx.expires /\ MethodOf[reqs[r].tx.id] \in {"PIX", "BOLETO"}
             THEN "workflow" ELSE "done")
  /\ UNCHANGED <<installments, allocations, ledger, notified, processed, charges, sent,
                 workflows, faults>>

Closed(t) == workflows[t].state \in {"NONE", "COMPLETED", "FAILED", "SKIPPED", "PAID"}

\* StartWorkflow with an id made of the transaction id: refused while an execution
\* is open.  An execution whose expiry has passed before its first task is skipped.
\* Any failure to start is logged and ignored.
StartExpiration(r) ==
  LET t == reqs[r].tx.id IN
  /\ reqs[r].pc = "workflow"
  /\ \/ /\ Closed(t)
        /\ \E s \in {"WAITING", "SKIPPED"} :
             workflows' = [workflows EXCEPT ![t] = [NoWorkflow EXCEPT !.state = s]]
        /\ UNCHANGED faults
     \/ ~Closed(t) /\ UNCHANGED <<workflows, faults>>
     \/ UNCHANGED workflows /\ Fault
  /\ Goto(r, "done")
  /\ UNCHANGED <<txs, installments, allocations, ledger, notified, processed, charges, sent>>

\* The process crashes, or a read or write fails and the handler returns the error.
AbortRequest(r) ==
  /\ Running(r) /\ reqs[r].pc # "start"
  /\ Fault
  /\ Goto(r, "crashed")
  /\ UNCHANGED <<txs, installments, allocations, ledger, notified, processed, charges, sent, workflows>>

RequestStep(r) ==
  \/ CheckKey(r) \/ ValidateInstallments(r) \/ SaveTx(r) \/ CommitLedger(r)
  \/ CreateCharge(r) \/ LoseChargeAnswer(r) \/ RefuseCharge(r) \/ StoreFailure(r)
  \/ MarkBatchPaid(r) \/ StoreCharge(r) \/ StartExpiration(r) \/ AbortRequest(r)

=============================================================================
