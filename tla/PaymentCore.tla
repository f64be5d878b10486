---------------------------- MODULE PaymentCore -----------------------------
(***************************************************************************)
(* The payment subsystem: requests, webhook deliveries, expiration         *)
(* workflows and reconciliation runs over the shared store, with the       *)
(* provider and the organiser as environment.                              *)
(***************************************************************************)
EXTENDS ProcessPayment, HandlePaymentCallback, PaymentExpiration, ReconcilePsp

vars == <<storeVars, reqs, callbackVars, runs>>

-----------------------------------------------------------------------------
(* Environment.                                                            *)

\* What may become of a charge: paid, captured, left to lapse and still paid
\* afterwards, cancelled, refunded.
NextStatuses(s) == CASE s = "PENDING" -> {"CONFIRMED", "RECEIVED", "OVERDUE", "CANCELED"}
                     [] s = "CONFIRMED" -> {"RECEIVED", "REFUNDED"}
                     [] s = "RECEIVED" -> {"REFUNDED"}
                     [] s = "OVERDUE" -> {"RECEIVED", "CANCELED"}
                     [] OTHER -> {}

\* The provider changes the status of a charge and emits the event.
MoveCharge(c) ==
  /\ charges[c] # NoCharge
  /\ \E s \in NextStatuses(charges[c].status) \cap Outcomes :
       PutCharge(c, charges[c].ref, s)
  /\ UNCHANGED <<txs, installments, allocations, ledger, notified, processed, workflows, faults>>

\* Mutant: no status in the filter.
CancelAnyInstallment(i) ==
  /\ installments' = [installments EXCEPT ![i].status = "CANCELLED"]
  /\ UNCHANGED <<txs, allocations, ledger, notified, processed, charges, sent, workflows, faults>>

\* CancelByParticipant on one of the participant's installments: the status is
\* part of the filter.
CancelInstallment(i) ==
  /\ installments[i].status \in {"PENDING", "OVERDUE"}
  /\ installments' = [installments EXCEPT ![i].status = "CANCELLED"]
  /\ UNCHANGED <<txs, allocations, ledger, notified, processed, charges, sent, workflows, faults>>

-----------------------------------------------------------------------------

Init == StoreInit /\ ReqInit /\ CallbackInit /\ RunInit

Requesting == (\E r \in Requests : RequestStep(r)) /\ UNCHANGED <<callbackVars, runs>>
Delivering == ((\E w \in Workers : CallbackStep(w)) \/ (\E k \in Confirmations : RunConfirmation(k)))
              /\ UNCHANGED <<reqs, runs>>
Expiring == (\E t \in Requests : ExpirationStep(t)) /\ UNCHANGED <<reqs, callbackVars, runs>>
Reconciling == (\E p \in Reconcilers : RunStep(p)) /\ UNCHANGED <<reqs, callbackVars>>
Environment == ((\E c \in ChargeIds : MoveCharge(c)) \/ (\E i \in Installments : CancelInstallment(i)))
               /\ UNCHANGED <<reqs, callbackVars, runs>>

Next == Requesting \/ Delivering \/ Expiring \/ Reconciling \/ Environment

Spec == Init /\ [][Next]_vars

TypeOK == StoreTypeOK /\ ReqTypeOK /\ CallbackTypeOK /\ RunTypeOK

-----------------------------------------------------------------------------
(* Money.  A transaction is funded once the provider reported one of its   *)
(* charges paid: events are never taken back.                              *)

Approved == {"CONFIRMED", "RECEIVED"}
PaidCharge(c) == \E s \in Approved : [charge |-> c, status |-> s] \in sent
Funded(t) == \E c \in ChargeIds : charges[c] # NoCharge /\ charges[c].ref = t /\ PaidCharge(c)

\* No transaction is COMPLETED on the strength of anything but money collected for
\* that very transaction: not by a late reconciliation, not by a copy read before
\* the document got another charge, not by an overdue or cancelled charge.
CompletedIsFunded ==
  \A t \in Requests : Stored(t) /\ txs[t].status = "COMPLETED" => Funded(t)

\* What a completion causes downstream - an installment PAID, a confirmation in the
\* ledger, a notification - names a transaction whose money was collected, whatever
\* failed or was repeated in between.
EffectsAreFunded ==
  /\ \A i \in Installments :
       installments[i].status = "PAID" => \E t \in Requests : installments[i].tx = t /\ Funded(t)
  /\ \A t \in Requests : [type |-> "CONFIRMATION", source |-> t] \in ledger => Funded(t)
  /\ \A t \in notified : Funded(t)

\* Every charge at the provider names a stored transaction, so it can be traced even
\* when its creator crashed or never got the answer: the document is saved first.
ChargesAreRecorded ==
  \A c \in ChargeIds : charges[c] # NoCharge => Stored(charges[c].ref)

\* Two requests that carry one idempotency key never leave two transactions, although
\* both may find none before either inserts: the unique index decides.
KeyNamesOneTransaction ==
  \A t, u \in Requests :
    Stored(t) /\ Stored(u) /\ KeyOf[t] = KeyOf[u] /\ KeyOf[t] # NoKey => t = u

\* However many deliveries of an event are in progress, at most one is past SaveUnique.
EventHasOneHandler ==
  \A v, w \in Workers :
    /\ v # w
    /\ {deliveries[v].pc, deliveries[w].pc} \cap {"idle", "record"} = {}
    => deliveries[v].event # deliveries[w].event

\* The three together, for instances in which requests share an installment or a key:
\* a second transaction or a second charge lends no money to the first.
FundingHolds == CompletedIsFunded /\ EffectsAreFunded /\ ChargesAreRecorded

\* An installment gets no more allocation groups than there are handlers to overlap,
\* although any number of transactions may pay it and every confirmation allocates all
\* the installments of its transaction: the count stops whoever comes after an insert.
AllocationsAreBounded == \A i \in Installments : allocations[i] <= Cardinality(Workers)

\* An expiration workflow that ended because the payment was settled leaves a
\* transaction that is settled: the signal is sent after the outcome is stored.
PaidWorkflowIsSettled ==
  \A t \in Requests : workflows[t].state = "PAID" => IsTerminal(txs[t])

\* An installment that was paid stays paid: cancelling the participant races with
\* the confirmation and must not undo it.
PaidIsFinal ==
  [][\A i \in Installments : installments[i].status = "PAID" => installments'[i].status = "PAID"]_vars

\* The subsystem implements the settlement of each transaction, as long as no two
\* requests share an idempotency key: a transaction is open until its status is
\* terminal, and its money is what the provider reported of its charges.
SettlementPhase(t) == IF ~Stored(t) THEN "absent"
                      ELSE IF txs[t].status = "COMPLETED" THEN "paid"
                      ELSE IF IsTerminal(txs[t]) THEN "unpaid" ELSE "open"
Abstract == INSTANCE Settlement WITH
  Transactions <- Requests,
  phase <- [t \in Requests |-> SettlementPhase(t)],
  money <- [t \in Requests |-> Funded(t)]
ImplementsSettlement == Abstract!Spec

-----------------------------------------------------------------------------
(* Progress.  A handler or a reconciliation run that has started runs on   *)
(* unless it fails; Temporal keeps driving open workflows.  Nobody has to  *)
(* make a request, pay, deliver an event or fail, and nobody has to start  *)
(* a reconciliation run: main creates no schedule for it.                  *)

FairRequest(r) == reqs[r].pc # "start" /\ RequestStep(r) /\ UNCHANGED <<callbackVars, runs, faults>>
FairDelivery(w) == deliveries[w].pc # "idle" /\ CallbackStep(w) /\ UNCHANGED <<reqs, runs, faults>>
FairExpiration(t) == ExpirationStep(t) /\ UNCHANGED <<reqs, callbackVars, runs, faults>>
FairRun(p) == runs[p] # NoRun /\ RunStep(p) /\ UNCHANGED <<reqs, callbackVars, faults>>

FairSpec ==
  /\ Spec
  /\ \A r \in Requests : WF_vars(FairRequest(r))
  /\ \A w \in Workers : WF_vars(FairDelivery(w))
  /\ \A t \in Requests : WF_vars(FairExpiration(t))
  /\ \A p \in Reconcilers : WF_vars(FairRun(p))

\* A payment whose expiration workflow waits is settled in the end - paid, failed or
\* expired - as long as fewer than ActivityAttempts calls fail: a lost signal, a
\* retried activity or a webhook between its read and its write leave none behind.
WaitingIsSettled ==
  \A t \in Requests : (workflows[t].state = "WAITING") ~> (Stored(t) /\ IsTerminal(txs[t]))

\* What a run has still to settle: a copy it has not looked at yet whose charge is final
\* at the provider, or the corrected copy it is about to store.
InReach(p) == {tx \in runs[p].batch : tx.pid # NoCharge /\ ProviderIsTerminal(charges[tx.pid].status)}
              \cup ({runs[p].tx} \ {NoTx})

\* A reconciliation run that is started settles every payment within its reach, whoever
\* writes the same documents meanwhile, unless a call fails or a crash ends it.
StartedRunSettles ==
  \A t \in Requests, p \in Reconcilers, n \in 0..MaxFaults :
    (faults = n /\ \E tx \in InReach(p) : tx.id = t)
      ~> (faults # n \/ (Stored(t) /\ IsTerminal(txs[t])))

-----------------------------------------------------------------------------
(* What a comment of the source claims, and the code does not do.          *)

\* port/in/payment_transaction.go: the idempotency key is enforced, so one key makes
\* one charge, whatever is posted again.
OneChargePerKey ==
  \A c, d \in ChargeIds :
    /\ charges[c] # NoCharge /\ charges[d] # NoCharge
    /\ KeyOf[c[1]] = KeyOf[d[1]] /\ KeyOf[c[1]] # NoKey
    => c = d

\* installment_allocation.go: concurrent duplicate inserts are no-ops, so an installment
\* is allocated once.
AllocatedOnce == \A i \in Installments : allocations[i] <= 1

=============================================================================
