-------------------------- MODULE PaymentExpiration -------------------------
(***************************************************************************)
(* PaymentExpirationWorkflow and its ExpireTransaction activity.  Temporal *)
(* keeps the workflow's state across crashes, so only the activity can     *)
(* fail: it is retried until ActivityAttempts attempts have failed.        *)
(***************************************************************************)
EXTENDS PaymentStore

CONSTANT ActivityAttempts   \* MaximumAttempts of the activity's retry policy, 3 in the code
ASSUME ActivityAssumption == ActivityAttempts \in Nat \ {0}

unchangedByExpiration ==
  <<installments, allocations, ledger, notified, processed, charges, sent>>

SetState(t, s) == workflows' = [workflows EXCEPT ![t].state = s]

\* The selector takes the paymentCompleted signal: the workflow ends.
TakeSignal(t) ==
  /\ workflows[t].state = "WAITING" /\ workflows[t].signalled
  /\ SetState(t, "PAID")
  /\ UNCHANGED <<unchangedByExpiration, txs, faults>>

\* The timer fires; it may win against a signal that is already there.
FireTimer(t) ==
  /\ workflows[t].state = "WAITING"
  /\ SetState(t, "EXPIRING")
  /\ UNCHANGED <<unchangedByExpiration, txs, faults>>

\* The activity reads the transaction.  A terminal one is a non-retryable error,
\* which fails the workflow; otherwise the copy becomes CANCELLED (TIMEOUT).
LoadExpiring(t) ==
  /\ workflows[t].state = "EXPIRING"
  /\ IF IsTerminal(txs[t])
     THEN SetState(t, "FAILED")
     ELSE workflows' = [workflows EXCEPT ![t].state = "LOADED",
                          ![t].tx = [txs[t] EXCEPT !.status = "CANCELLED"]]
  /\ UNCHANGED <<unchangedByExpiration, txs, faults>>

\* The copy replaces the document.
StoreExpired(t) ==
  /\ workflows[t].state = "LOADED"
  /\ UpdateTx(workflows[t].tx)
  /\ workflows' = [workflows EXCEPT ![t].state = "COMPLETED", ![t].tx = NoTx]
  /\ UNCHANGED <<unchangedByExpiration, faults>>

\* Mutant: one attempt too few.
AttemptsLeftOffByOne(wf) == wf.attempts + 2 < ActivityAttempts

\* The retry policy allows another attempt after this one.
AttemptsLeft(wf) == wf.attempts + 1 < ActivityAttempts

\* An attempt fails: on the read, on the write, or once the write took effect.
FailAttempt(t) ==
  LET wf == workflows[t] IN
  /\ wf.state \in {"EXPIRING", "LOADED"}
  /\ \/ UNCHANGED txs
     \/ wf.state = "LOADED" /\ UpdateTx(wf.tx)
  /\ workflows' = [workflows EXCEPT ![t].attempts = @ + 1, ![t].tx = NoTx,
                     ![t].state = IF AttemptsLeft(wf) THEN "EXPIRING" ELSE "FAILED"]
  /\ Fault
  /\ UNCHANGED unchangedByExpiration

ExpirationStep(t) ==
  TakeSignal(t) \/ FireTimer(t) \/ LoadExpiring(t) \/ StoreExpired(t) \/ FailAttempt(t)

=============================================================================
