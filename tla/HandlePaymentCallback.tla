----------------------- MODULE HandlePaymentCallback -----------------------
(***************************************************************************)
(* The webhook endpoint and HandlePaymentCallback: deliveries of provider  *)
(* events, at any time after the event was emitted, any number of times,   *)
(* several at once.  The endpoint answers 200 whatever the outcome, so an  *)
(* error after the event was recorded is never followed by a retry.        *)
(*                                                                         *)
(* Allocation groups are counted; how a group is split is not modelled.    *)
(***************************************************************************)
EXTENDS PaymentStore

CONSTANT Workers   \* concurrent executions of the handler

ASSUME WorkersAssumption == IsFiniteSet(Workers)

VARIABLES
  deliveries,    \* each handler: next call, event, its tx variable, installments left to allocate
  confirmations  \* PaymentConfirmationWorkflow executions, by charge and action

callbackVars == <<deliveries, confirmations>>

DeliveryPc == {"idle", "record", "load", "update", "markpaid", "allocate",
               "ledger", "notify", "signal", "confirm"}
Delivery == [pc: DeliveryPc, event: Events \cup {NoEvent}, tx: Tx \cup {NoTx},
             todo: SUBSET Installments, picked: Installments \cup {NoItem}]
\* The id of a confirmation workflow is made of the charge and the action, not of
\* the event: CONFIRMED and RECEIVED of one charge share it.
Confirmations == ChargeIds \X {"approved", "failed", "cancelled"}
Confirmation == [state: {"NONE", "RUNNING", "DONE"}, event: Events \cup {NoEvent}]

Idle == [pc |-> "idle", event |-> NoEvent, tx |-> NoTx, todo |-> {}, picked |-> NoItem]

CallbackTypeOK ==
  /\ deliveries \in [Workers -> Delivery]
  /\ confirmations \in [Confirmations -> Confirmation]

CallbackInit ==
  /\ deliveries = [w \in Workers |-> Idle]
  /\ confirmations = [k \in Confirmations |-> [state |-> "NONE", event |-> NoEvent]]

Proceed(w, pc) == deliveries' = [deliveries EXCEPT ![w].pc = pc]
Finish(w) == deliveries' = [deliveries EXCEPT ![w] = Idle]

\* Mutant: an overdue charge is approved.
ActionOverdueApproved(s) == IF s \in {"RECEIVED", "CONFIRMED", "OVERDUE"} THEN "approved"
                            ELSE IF s = "REFUNDED" THEN "cancelled" ELSE "noop"

\* Mutant: a status that is no case of the switch is approved.
ActionDefaultApproved(s) == IF s = "OVERDUE" THEN "failed"
                            ELSE IF s = "REFUNDED" THEN "cancelled" ELSE "approved"

\* mapCallbackStatus.  The provider spells CANCELED with one L: that is no case
\* of the switch, and the event is recorded and dropped.
Action(s) == CASE s \in {"RECEIVED", "CONFIRMED"} -> "approved"
               [] s = "OVERDUE" -> "failed"
               [] s = "REFUNDED" -> "cancelled"
               [] OTHER -> "noop"

\* Steps 1-2: an event already recorded, or one that reports no final status, is
\* answered without a change; any other goes on to be recorded.
Deliver(w) ==
  /\ deliveries[w].pc = "idle"
  /\ \E e \in sent \ processed :
       /\ e.status # "PENDING"
       /\ deliveries' = [deliveries EXCEPT ![w].pc = "record", ![w].event = e]
  /\ UNCHANGED <<storeVars, confirmations>>

\* Mutant: the event is upserted, so a second delivery goes through.
RecordEventUpsert(w) ==
  LET e == deliveries[w].event IN
  /\ deliveries[w].pc = "record"
  /\ processed' = processed \cup {e}
  /\ IF Action(e.status) = "noop" THEN Finish(w) ELSE Proceed(w, "load")
  /\ UNCHANGED <<txs, installments, allocations, ledger, notified, charges, sent,
                 workflows, faults, confirmations>>

\* Step 3, SaveUnique: the unique index lets one delivery of an event through.
RecordEvent(w) ==
  LET e == deliveries[w].event IN
  /\ deliveries[w].pc = "record"
  /\ \/ /\ e \in processed
        /\ Finish(w)
        /\ UNCHANGED processed
     \/ /\ e \notin processed
        /\ processed' = processed \cup {e}
        /\ IF Action(e.status) = "noop" THEN Finish(w) ELSE Proceed(w, "load")
  /\ UNCHANGED <<txs, installments, allocations, ledger, notified, charges, sent,
                 workflows, faults, confirmations>>

\* What each action makes of the transaction it loaded.
Outcome(tx, action) == CASE action = "approved" -> MarkCompleted(tx)
                         [] action = "failed" -> MarkFailed(tx)
                         [] OTHER -> [tx EXCEPT !.status = "CANCELLED"]

\* Step 4: find the transaction by the provider's id.  None: the error is logged
\* and the delivery is over.  Terminal: nothing to do, but the action succeeded.
LoadTx(w) ==
  LET e == deliveries[w].event
      found == FindByProviderTransactionID(e.charge) IN
  /\ deliveries[w].pc = "load"
  /\ \/ found = {} /\ Finish(w)
     \/ \E t \in found :
          IF IsTerminal(txs[t])
          THEN Proceed(w, "signal")
          ELSE deliveries' = [deliveries EXCEPT ![w].pc = "update",
                                ![w].tx = Outcome(txs[t], Action(e.status))]
  /\ UNCHANGED <<storeVars, confirmations>>

\* Mutant: an error of the update is ignored.
StoreOutcomeIgnoringError(w) ==
  LET d == deliveries[w] IN
  /\ d.pc = "update"
  /\ UpdateTx(d.tx) \/ UNCHANGED txs
  /\ Proceed(w, IF Action(d.event.status) # "approved" THEN "signal"
                ELSE IF ItemsOf[d.tx.id] = {} THEN "ledger" ELSE "markpaid")
  /\ UNCHANGED <<installments, allocations, ledger, notified, processed, charges, sent,
                 workflows, faults, confirmations>>

\* The copy loaded earlier replaces the document.
StoreOutcome(w) ==
  LET d == deliveries[w] IN
  /\ d.pc = "update"
  /\ UpdateTx(d.tx)
  /\ Proceed(w, IF Action(d.event.status) # "approved" THEN "signal"
                ELSE IF ItemsOf[d.tx.id] = {} THEN "ledger" ELSE "markpaid")
  /\ UNCHANGED <<installments, allocations, ledger, notified, processed, charges, sent,
                 workflows, faults, confirmations>>

\* MarkPaidBatch; if it fails, part of the way or at once, allocation is skipped.
MarkInstallmentsPaid(w) ==
  LET tx == deliveries[w].tx IN
  /\ deliveries[w].pc = "markpaid"
  /\ \/ /\ MarkPaidBatch(ItemsOf[tx.id], tx.id)
        /\ deliveries' = [deliveries EXCEPT ![w].pc = "allocate", ![w].todo = ItemsOf[tx.id]]
        /\ UNCHANGED faults
     \/ /\ \E S \in SUBSET ItemsOf[tx.id] : MarkPaidBatch(S, tx.id)
        /\ Proceed(w, "ledger")
        /\ Fault
  /\ UNCHANGED <<txs, allocations, ledger, notified, processed, charges, sent,
                 workflows, confirmations>>

\* Mutant: no count before the insert.
CheckAllocationUncounted(w) ==
  LET d == deliveries[w] IN
  /\ d.pc = "allocate" /\ d.picked = NoItem /\ d.todo # {}
  /\ \E i \in d.todo : deliveries' = [deliveries EXCEPT ![w].todo = d.todo \ {i}, ![w].picked = i]
  /\ UNCHANGED <<storeVars, confirmations>>

\* Allocate counts the groups of the next installment first ...
CheckAllocation(w) ==
  LET d == deliveries[w] IN
  /\ d.pc = "allocate" /\ d.picked = NoItem /\ d.todo # {}
  /\ \E i \in d.todo :
       deliveries' = [deliveries EXCEPT ![w].todo = d.todo \ {i},
                        ![w].picked = IF allocations[i] = 0 THEN i ELSE NoItem]
  /\ UNCHANGED <<storeVars, confirmations>>

\* ... and inserts a group, under fresh ids, if it saw none.
InsertAllocation(w) ==
  LET d == deliveries[w] IN
  /\ d.pc = "allocate" /\ d.picked # NoItem
  /\ allocations' = [allocations EXCEPT ![d.picked] = @ + 1]
  /\ deliveries' = [deliveries EXCEPT ![w].picked = NoItem]
  /\ UNCHANGED <<txs, installments, ledger, notified, processed, charges, sent,
                 workflows, faults, confirmations>>

\* Any of the allocations fails: it is logged and the next one is tried.
FailAllocation(w) ==
  /\ deliveries[w].pc = "allocate" /\ deliveries[w].picked # NoItem
  /\ Fault
  /\ deliveries' = [deliveries EXCEPT ![w].picked = NoItem]
  /\ UNCHANGED <<txs, installments, allocations, ledger, notified, processed, charges, sent,
                 workflows, confirmations>>

EndAllocation(w) ==
  LET d == deliveries[w] IN
  /\ d.pc = "allocate" /\ d.todo = {} /\ d.picked = NoItem
  /\ Proceed(w, "ledger")
  /\ UNCHANGED <<storeVars, confirmations>>

\* AppendPaymentConfirmation, best effort.
ConfirmLedger(w) ==
  /\ deliveries[w].pc = "ledger"
  /\ \/ AppendConfirmation(deliveries[w].tx.id) /\ UNCHANGED faults
     \/ UNCHANGED ledger /\ Fault
  /\ Proceed(w, "notify")
  /\ UNCHANGED <<txs, installments, allocations, notified, processed, charges, sent,
                 workflows, confirmations>>

\* Notify the participant, best effort.
NotifyParticipant(w) ==
  /\ deliveries[w].pc = "notify"
  /\ \/ notified' = notified \cup {deliveries[w].tx.id} /\ UNCHANGED faults
     \/ UNCHANGED notified /\ Fault
  /\ Proceed(w, "signal")
  /\ UNCHANGED <<txs, installments, allocations, ledger, processed, charges, sent,
                 workflows, confirmations>>

\* Step 5: after any action, approved or not, the transaction is looked up again
\* and its expiration workflow signalled; a closed or absent one refuses it.
SignalExpiration(w) ==
  LET found == FindByProviderTransactionID(deliveries[w].event.charge) IN
  /\ deliveries[w].pc = "signal"
  /\ \/ /\ TemporalEnabled
        /\ \E t \in found :
             IF workflows[t].state \in {"WAITING", "EXPIRING", "LOADED"}
             THEN workflows' = [workflows EXCEPT ![t].signalled = TRUE]
             ELSE UNCHANGED workflows
        /\ UNCHANGED faults
     \/ (~TemporalEnabled \/ found = {}) /\ UNCHANGED <<workflows, faults>>
     \/ UNCHANGED workflows /\ Fault
  /\ Proceed(w, "confirm")
  /\ UNCHANGED <<txs, installments, allocations, ledger, notified, processed, charges, sent,
                 confirmations>>

\* Start a PaymentConfirmationWorkflow for the same event, best effort: refused
\* while one with that id is open.
StartConfirmation(w) ==
  LET e == deliveries[w].event
      k == <<e.charge, Action(e.status)>> IN
  /\ deliveries[w].pc = "confirm"
  /\ \/ /\ TemporalEnabled /\ confirmations[k].state # "RUNNING"
        /\ confirmations' = [confirmations EXCEPT ![k] = [state |-> "RUNNING", event |-> e]]
        /\ UNCHANGED faults
     \/ /\ ~TemporalEnabled \/ confirmations[k].state = "RUNNING"
        /\ UNCHANGED <<confirmations, faults>>
     \/ UNCHANGED confirmations /\ Fault
  /\ Finish(w)
  /\ UNCHANGED <<txs, installments, allocations, ledger, notified, processed, charges, sent,
                 workflows>>

\* The workflow's activity executes the handler again with the event's id.  The
\* idempotency check of step 1 answers it, and the workflow is done.
RunConfirmation(k) ==
  /\ confirmations[k].state = "RUNNING"
  /\ confirmations[k].event \in processed
  /\ confirmations' = [confirmations EXCEPT ![k].state = "DONE"]
  /\ UNCHANGED <<storeVars, deliveries>>

\* A crash, or a failed call whose error the handler returns: the endpoint answers
\* 200 and the delivery is over.
AbortDelivery(w) ==
  /\ deliveries[w].pc # "idle"
  /\ Fault
  /\ Finish(w)
  /\ UNCHANGED <<txs, installments, allocations, ledger, notified, processed, charges, sent,
                 workflows, confirmations>>

CallbackStep(w) ==
  \/ Deliver(w) \/ RecordEvent(w) \/ LoadTx(w) \/ StoreOutcome(w)
  \/ MarkInstallmentsPaid(w) \/ CheckAllocation(w) \/ InsertAllocation(w)
  \/ FailAllocation(w) \/ EndAllocation(w) \/ ConfirmLedger(w) \/ NotifyParticipant(w)
  \/ SignalExpiration(w) \/ StartConfirmation(w) \/ AbortDelivery(w)

=============================================================================
