---------------------------- MODULE ReconcilePsp ----------------------------
(***************************************************************************)
(* ReconcilePspTransactions: a run reads every PENDING or PROCESSING       *)
(* transaction in one query, then for each copy asks the provider for the  *)
(* charge and replaces the document.  Runs start at any time: the          *)
(* "created before" threshold is the caller's.                             *)
(***************************************************************************)
EXTENDS PaymentStore

CONSTANT Reconcilers   \* concurrent runs

VARIABLE runs   \* each run: the copies left, and the copy about to be stored

Run == [batch: SUBSET Tx, tx: Tx \cup {NoTx}]
NoRun == [batch |-> {}, tx |-> NoTx]

RunTypeOK == runs \in [Reconcilers -> Run]
RunInit == runs = [p \in Reconcilers |-> NoRun]

unchangedByReconcile ==
  <<installments, allocations, ledger, notified, processed, charges, sent, workflows>>

\* FindPendingOlderThan
PendingTxs == {txs[t] : t \in {u \in Requests : Stored(u) /\ txs[u].status \in {"PENDING", "PROCESSING"}}}

StartRun(p) ==
  /\ runs[p] = NoRun
  /\ PendingTxs # {}
  /\ runs' = [runs EXCEPT ![p].batch = PendingTxs]
  /\ UNCHANGED <<unchangedByReconcile, txs, faults>>

\* Mutant: an overdue charge completes the transaction.
CorrectedOverdueCompleted(tx, s) ==
  IF s \in {"REFUNDED", "CANCELED"} THEN [tx EXCEPT !.status = "CANCELLED"] ELSE MarkCompleted(tx)

\* Mutant: a status that is not a payment leaves the copy as it was read, and stores it.
CorrectedOtherUnchanged(tx, s) == IF s \in {"RECEIVED", "CONFIRMED"} THEN MarkCompleted(tx) ELSE tx

\* Status of a charge at the provider, as it corrects a transaction.
Corrected(tx, s) == CASE s \in {"RECEIVED", "CONFIRMED"} -> MarkCompleted(tx)
                      [] s \in {"REFUNDED", "CANCELED"} -> [tx EXCEPT !.status = "CANCELLED"]
                      [] OTHER -> MarkFailed(tx)

\* No provider id, or the provider has nothing final to say: next copy.
SkipTx(p) ==
  /\ runs[p].tx = NoTx
  /\ \E tx \in runs[p].batch :
       /\ \/ tx.pid = NoCharge
          \/ tx.pid # NoCharge /\ ~ProviderIsTerminal(charges[tx.pid].status)
       /\ runs' = [runs EXCEPT ![p].batch = @ \ {tx}]
  /\ UNCHANGED <<unchangedByReconcile, txs, faults>>

\* GetPayment reports a final status.
FetchPayment(p) ==
  /\ runs[p].tx = NoTx
  /\ \E tx \in runs[p].batch :
       /\ tx.pid # NoCharge
       /\ ProviderIsTerminal(charges[tx.pid].status)
       /\ runs' = [runs EXCEPT ![p].batch = @ \ {tx},
                     ![p].tx = Corrected(tx, charges[tx.pid].status)]
  /\ UNCHANGED <<unchangedByReconcile, txs, faults>>

\* The corrected copy, read when the run started, replaces the document.
StoreCorrected(p) ==
  /\ runs[p].tx # NoTx
  /\ UpdateTx(runs[p].tx)
  /\ runs' = [runs EXCEPT ![p].tx = NoTx]
  /\ UNCHANGED <<unchangedByReconcile, faults>>

\* GetPayment or Update fails: the copy is counted as failed and left.
FailTx(p) ==
  /\ \/ /\ runs[p].tx # NoTx
        /\ runs' = [runs EXCEPT ![p].tx = NoTx]
     \/ /\ runs[p].tx = NoTx
        /\ \E tx \in runs[p].batch : runs' = [runs EXCEPT ![p].batch = @ \ {tx}]
  /\ Fault
  /\ UNCHANGED <<unchangedByReconcile, txs>>

\* The worker crashes in the middle of a run.
CrashRun(p) ==
  /\ runs[p] # NoRun
  /\ runs' = [runs EXCEPT ![p] = NoRun]
  /\ Fault
  /\ UNCHANGED <<unchangedByReconcile, txs>>

RunStep(p) ==
  \/ StartRun(p) \/ SkipTx(p) \/ FetchPayment(p) \/ StoreCorrected(p) \/ FailTx(p) \/ CrashRun(p)

=============================================================================
