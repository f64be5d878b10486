-------------------------- MODULE PaymentCoreProofs --------------------------
(***************************************************************************)
(* Safety of PaymentCore for every number of requests, handlers, charges   *)
(* and failures, and that the allocation groups of an installment are      *)
(* bounded by the handlers that overlap.                                   *)
(***************************************************************************)
EXTENDS PaymentInvariant, TLAPS, FiniteSetTheorems

\* What no step takes back: a saved transaction, a charge and what it is for, an event.
Grows ==
  /\ \A t \in Requests : Stored(t) => Stored(t)'
  /\ \A c \in ChargeIds : charges[c] # NoCharge =>
       charges'[c] # NoCharge /\ charges'[c].ref = charges[c].ref
  /\ sent \subseteq sent'

\* Hence money that was collected stays collected ...
LEMMA FundedGrows ==
  ASSUME Grows
  PROVE  FundedTxs \subseteq FundedTxs'
BY DEF Grows, FundedTxs, Funded, PaidCharge

\* ... and a copy that was sound stays sound, however long it is held.
LEMMA SoundCopiesGrow ==
  ASSUME Grows
  PROVE  SoundCopies \subseteq SoundCopies'
BY FundedGrows DEF Grows, SoundCopies, Tx

LEMMA StoreKept ==
  ASSUME Sound, Grows, UNCHANGED txs
  PROVE  StoreSound'
BY SoundCopiesGrow DEF Sound, StoreSound, Stored

\* Writing back a sound copy, whatever was stored meanwhile.
LEMMA StoreUpdated ==
  ASSUME Sound, NEW tx \in SoundCopies, UpdateTx(tx), UNCHANGED <<charges, sent>>
  PROVE  Grows /\ StoreSound' /\ txs' \in [Requests -> Tx \cup {NoTx}]
<1>1. /\ tx \in Tx /\ tx.id \in Requests /\ tx # NoTx
      /\ txs \in [Requests -> Tx \cup {NoTx}]
  BY StoreAssumption DEF SoundCopies, Tx, Sound, TypeOK, StoreTypeOK
<1>2. txs' = [txs EXCEPT ![tx.id] = tx]
  BY DEF UpdateTx
<1>3. Grows
  BY <1>1, <1>2 DEF Grows, Stored
<1>4. StoreSound'
  BY <1>1, <1>2, <1>3, SoundCopiesGrow DEF Sound, StoreSound, Stored
<1> QED BY <1>1, <1>2, <1>3, <1>4

LEMMA ChargesKept ==
  ASSUME Sound, Grows, UNCHANGED charges
  PROVE  ChargesSound'
BY DEF Sound, ChargesSound, Grows, TypeOK, StoreTypeOK, Charge, Stored

\* A new status of a charge, or a new charge, for a stored transaction.
LEMMA ChargePut ==
  ASSUME Sound, NEW c \in ChargeIds, NEW t \in Requests, NEW s \in ChargeStatus,
         Stored(t), charges[c] = NoCharge \/ charges[c].ref = t,
         PutCharge(c, t, s), UNCHANGED txs
  PROVE  /\ Grows /\ ChargesSound'
         /\ charges' \in [ChargeIds -> Charge \cup {NoCharge}] /\ sent' \subseteq Events
         /\ charges'[c] # NoCharge /\ charges'[c].ref = t
         /\ \A d \in ChargeIds : d # c => charges'[d] = charges[d]
<1> DEFINE new == [ref |-> t, status |-> s]
<1>1. new \in Charge
  BY DEF Charge
<1>2. new # NoCharge
  BY <1>1, StoreAssumption
<1>3. /\ charges' = [charges EXCEPT ![c] = new] /\ new.ref = t /\ new.status = s
      /\ sent' = sent \cup {[charge |-> c, status |-> s]}
  BY DEF PutCharge
<1>4. charges \in [ChargeIds -> Charge \cup {NoCharge}] /\ sent \subseteq Events
  BY DEF Sound, TypeOK, StoreTypeOK
<1> HIDE DEF new
<1>5. Grows
  BY <1>2, <1>3, <1>4 DEF Grows, Stored
<1>6. ChargesSound'
  BY <1>2, <1>3, <1>4 DEF Sound, ChargesSound, Stored
<1>7. sent' \subseteq Events
  BY <1>3, <1>4 DEF Events
<1> QED BY <1>1, <1>2, <1>3, <1>4, <1>5, <1>6, <1>7

LEMMA RequestsKept ==
  ASSUME Sound, Grows, UNCHANGED reqs,
         \A c \in ChargeIds : charges[c] = NoCharge => charges'[c] = NoCharge
  PROVE  RequestsSound'
BY SoundCopiesGrow DEF Sound, RequestsSound, ChargeIds

LEMMA DeliveriesKept ==
  ASSUME Sound, Grows, UNCHANGED deliveries, processed \subseteq processed'
  PROVE  DeliveriesSound' /\ EventHasOneHandler'
<1>1. DeliveriesSound'
  BY SoundCopiesGrow, FundedGrows DEF Sound, DeliveriesSound, Grows
<1>2. EventHasOneHandler'
  BY DEF Sound, EventHasOneHandler
<1> QED BY <1>1, <1>2

LEMMA WorkflowsKept ==
  ASSUME Sound, Grows, UNCHANGED workflows
  PROVE  WorkflowsSound'
BY SoundCopiesGrow DEF Sound, WorkflowsSound, Grows

LEMMA RunsKept ==
  ASSUME Sound, Grows, UNCHANGED runs
  PROVE  RunsSound'
BY SoundCopiesGrow DEF Sound, RunsSound

LEMMA EffectsKept ==
  ASSUME Sound, Grows, UNCHANGED <<installments, ledger, notified>>
  PROVE  EffectsAreFunded'
<1>1. \A t \in Requests : Funded(t) => Funded(t)'
  BY FundedGrows DEF FundedTxs
<1> QED BY <1>1 DEF Sound, EffectsAreFunded, TypeOK, StoreTypeOK

-----------------------------------------------------------------------------
(* Requests.                                                               *)

\* Everything but the store, given what a step of a request leaves alone.
LEMMA RequestFrame ==
  ASSUME Sound, Grows, UNCHANGED <<callbackVars, runs, processed>>
  PROVE  CallbackTypeOK' /\ RunTypeOK' /\ DeliveriesSound' /\ EventHasOneHandler' /\ RunsSound'
BY DeliveriesKept, RunsKept DEF Sound, TypeOK, CallbackTypeOK, RunTypeOK, callbackVars

\* What one request does does not disturb what the others hold.
LEMMA OneRequestSound ==
  ASSUME Sound, Grows, NEW r \in Requests, NEW h,
         reqs' = [reqs EXCEPT ![r] = h],
         h.pc \in Holding => h.tx \in SoundCopies',
         h.pc = "markpaid" => h.tx.status = "COMPLETED",
         \A n \in 1..MaxAttempts : n > h.attempts => charges'[<<r, n>>] = NoCharge,
         \A q \in Requests, n \in 1..MaxAttempts :
           q # r /\ charges[<<q, n>>] = NoCharge => charges'[<<q, n>>] = NoCharge
  PROVE  RequestsSound'
<1> SUFFICES ASSUME NEW q \in Requests
             PROVE  /\ reqs'[q].pc \in Holding => reqs'[q].tx \in SoundCopies'
                    /\ reqs'[q].pc = "markpaid" => reqs'[q].tx.status = "COMPLETED"
                    /\ \A n \in 1..MaxAttempts :
                         n > reqs'[q].attempts => charges'[<<q, n>>] = NoCharge
  BY DEF RequestsSound, Holding
<1>1. reqs'[q] = IF q = r THEN h ELSE reqs[q]
  BY DEF Sound, TypeOK, ReqTypeOK
<1>2. CASE q = r
  BY <1>1, <1>2 DEF Sound, RequestsSound
<1>3. CASE q # r
  BY <1>1, <1>3, SoundCopiesGrow DEF Sound, RequestsSound
<1> QED BY <1>2, <1>3

LEMMA CheckKeySound ==
  ASSUME Sound, NEW r \in Requests, CheckKey(r), UNCHANGED <<callbackVars, runs>>
  PROVE  Sound'
<1>1. Grows
  BY DEF Grows, CheckKey, storeVars, Stored
<1>2. TypeOK'
  <2>1. StoreTypeOK'
    BY DEF Sound, TypeOK, StoreTypeOK, CheckKey, storeVars
  <2>2. ReqTypeOK'
    <3>1. \A t \in Requests : txs[t] \in Tx \cup {NoTx}
      BY DEF Sound, TypeOK, StoreTypeOK
    <3> QED
      BY <3>1 DEF Sound, TypeOK, ReqTypeOK, CheckKey, Goto, ReqPc, FindByIdempotencyKey
  <2> QED BY <1>1, <2>1, <2>2, RequestFrame DEF TypeOK, CheckKey, storeVars
<1>3. RequestsSound'
  BY <1>1, SoundCopiesGrow
     DEF Sound, RequestsSound, TypeOK, ReqTypeOK, CheckKey, Goto, Holding, storeVars, ChargeIds
<1> QED
  BY <1>1, <1>2, <1>3, RequestFrame, StoreKept, ChargesKept, WorkflowsKept, EffectsKept
     DEF Sound, CheckKey, storeVars

LEMMA ValidateInstallmentsSound ==
  ASSUME Sound, NEW r \in Requests, ValidateInstallments(r), UNCHANGED <<callbackVars, runs>>
  PROVE  Sound'
<1>1. Grows
  BY DEF Grows, ValidateInstallments, storeVars, Stored
<1>2. TypeOK'
  BY <1>1, RequestFrame
     DEF Sound, TypeOK, StoreTypeOK, ReqTypeOK, ValidateInstallments, Goto, ReqPc, storeVars
<1>3. RequestsSound'
  BY <1>1, SoundCopiesGrow
     DEF Sound, RequestsSound, TypeOK, ReqTypeOK, ValidateInstallments, Goto, Holding,
         storeVars, ChargeIds
<1> QED
  BY <1>1, <1>2, <1>3, RequestFrame, StoreKept, ChargesKept, WorkflowsKept, EffectsKept
     DEF Sound, ValidateInstallments, storeVars

\* Either a new document, which no copy precedes, or a copy of the stored one.
LEMMA SaveTxSound ==
  ASSUME Sound, NEW r \in Requests, SaveTx(r), UNCHANGED <<callbackVars, runs>>
  PROVE  Sound'
<1>1. NewTx(r) \in Tx /\ NewTx(r) # NoTx
  <2>1. NewTx(r) \in Tx
    BY DEF NewTx, Tx, TxStatus
  <2> QED BY <2>1, StoreAssumption
<1>2. Grows
  BY <1>1 DEF Sound, TypeOK, StoreTypeOK, Grows, SaveTx, Stored
<1>3. StoreTypeOK'
  BY <1>1 DEF Sound, TypeOK, StoreTypeOK, SaveTx
<1>4. ReqTypeOK'
  BY <1>1 DEF Sound, TypeOK, StoreTypeOK, ReqTypeOK, SaveTx, ReqPc, FindByIdempotencyKey
<1>5. StoreSound' /\ RequestsSound'
  <2>1. CASE txs' = [txs EXCEPT ![r] = NewTx(r)]
               /\ reqs' = [reqs EXCEPT ![r].pc = "commit", ![r].tx = NewTx(r)]
    <3>1. NewTx(r) \in SoundCopies'
      BY <1>1, <2>1 DEF SoundCopies, NewTx, Stored, Sound, TypeOK, StoreTypeOK
    <3>2. StoreSound'
      BY <1>1, <1>2, <2>1, <3>1, SoundCopiesGrow
         DEF Sound, StoreSound, TypeOK, StoreTypeOK, Stored, NewTx
    <3>3. RequestsSound'
      <4> DEFINE h == [reqs[r] EXCEPT !.pc = "commit", !.tx = NewTx(r)]
      <4>1. reqs' = [reqs EXCEPT ![r] = h]
        BY <2>1
      <4>2. h.pc = "commit" /\ h.tx = NewTx(r) /\ h.attempts = reqs[r].attempts
        BY DEF Sound, TypeOK, ReqTypeOK
      <4> HIDE DEF h
      <4> QED
        BY <1>2, <3>1, <4>1, <4>2, OneRequestSound DEF SaveTx, Sound, RequestsSound
    <3> QED BY <3>2, <3>3
  <2>2. CASE UNCHANGED txs /\ \E t \in FindByIdempotencyKey(KeyOf[r]) :
               reqs' = [reqs EXCEPT ![r].pc = "commit", ![r].tx = txs[t]]
    <3>1. StoreSound'
      BY <1>2, <2>2, StoreKept
    <3>2. RequestsSound'
      <4>1. PICK t \in Requests : Stored(t) /\
              reqs' = [reqs EXCEPT ![r].pc = "commit", ![r].tx = txs[t]]
        BY <2>2 DEF FindByIdempotencyKey
      <4> DEFINE h == [reqs[r] EXCEPT !.pc = "commit", !.tx = txs[t]]
      <4>2. reqs' = [reqs EXCEPT ![r] = h]
        BY <4>1
      <4>3. h.pc = "commit" /\ h.tx = txs[t] /\ h.attempts = reqs[r].attempts
        BY DEF Sound, TypeOK, ReqTypeOK
      <4>4. txs[t] \in SoundCopies'
        BY <1>2, <4>1, SoundCopiesGrow DEF Sound, StoreSound
      <4> HIDE DEF h
      <4> QED
        BY <1>2, <4>2, <4>3, <4>4, OneRequestSound DEF SaveTx, Sound, RequestsSound
    <3> QED BY <3>1, <3>2
  <2> QED BY <2>1, <2>2 DEF SaveTx
<1> QED
  BY <1>2, <1>3, <1>4, <1>5, RequestFrame, ChargesKept, WorkflowsKept, EffectsKept
     DEF Sound, TypeOK, SaveTx

LEMMA CommitLedgerSound ==
  ASSUME Sound, NEW r \in Requests, CommitLedger(r), UNCHANGED <<callbackVars, runs>>
  PROVE  Sound'
<1>1. Grows
  BY DEF Grows, CommitLedger, Stored
<1>2. reqs[r].tx \in Tx /\ reqs[r].tx.id \in Requests
  BY DEF Sound, RequestsSound, CommitLedger, Holding, SoundCopies, Tx
<1>3. StoreTypeOK'
  <2>1. CommitmentSource(reqs[r].tx.id) \in Keys \cup Requests
    BY <1>2, StoreAssumption DEF CommitmentSource
  <2>2. ledger' \subseteq LedgerEntries
    BY <2>1 DEF Sound, TypeOK, StoreTypeOK, CommitLedger, AppendCommitment, LedgerEntries
  <2>3. faults' \in Nat
    BY DEF Sound, TypeOK, StoreTypeOK, CommitLedger, Fault
  <2> QED BY <2>2, <2>3 DEF Sound, TypeOK, StoreTypeOK, CommitLedger
<1>4. ReqTypeOK'
  BY DEF Sound, TypeOK, ReqTypeOK, CommitLedger, Goto, ReqPc
<1>5. RequestsSound'
  BY <1>1, SoundCopiesGrow
     DEF Sound, RequestsSound, TypeOK, ReqTypeOK, CommitLedger, Goto, Holding, ChargeIds
<1>6. EffectsAreFunded'
  <2>1. \A t \in Requests : Funded(t) => Funded(t)'
    BY <1>1, FundedGrows DEF FundedTxs
  <2>2. \A t \in Requests : [type |-> "CONFIRMATION", source |-> t] \in ledger'
          => [type |-> "CONFIRMATION", source |-> t] \in ledger
    BY DEF CommitLedger, AppendCommitment
  <2> QED
    BY <2>1, <2>2 DEF Sound, EffectsAreFunded, TypeOK, StoreTypeOK, CommitLedger
<1> QED
  BY <1>1, <1>3, <1>4, <1>5, <1>6, RequestFrame, StoreKept, ChargesKept, WorkflowsKept
     DEF Sound, TypeOK, CommitLedger

LEMMA ChargeNames ==
  ASSUME Sound, NEW r \in Requests, reqs[r].attempts < MaxAttempts
  PROVE  /\ reqs[r].attempts + 1 \in 1..MaxAttempts
         /\ <<r, reqs[r].attempts + 1>> \in ChargeIds
         /\ charges[<<r, reqs[r].attempts + 1>>] = NoCharge
<1>1. reqs[r].attempts \in 0..MaxAttempts /\ MaxAttempts \in Nat
  BY StoreAssumption DEF Sound, TypeOK, ReqTypeOK
<1>2. reqs[r].attempts + 1 \in 1..MaxAttempts
  BY <1>1
<1> QED BY <1>1, <1>2 DEF Sound, RequestsSound, ChargeIds

\* A request that made its next charge: the rest of Sound follows from its new record.
LEMMA OneChargeSound ==
  ASSUME Sound, NEW r \in Requests, NEW h, NEW s \in ChargeStatus,
         reqs[r].pc = "charge", reqs[r].attempts < MaxAttempts,
         PutCharge(<<r, reqs[r].attempts + 1>>, reqs[r].tx.id, s),
         reqs' = [reqs EXCEPT ![r] = h],
         h.attempts = reqs[r].attempts + 1,
         h \in [pc : ReqPc, tx : Tx \cup {NoTx}, attempts : 0..MaxAttempts],
         h.pc \in Holding => h.tx \in SoundCopies',
         h.pc = "markpaid" => h.tx.status = "COMPLETED",
         faults' \in Nat,
         UNCHANGED <<callbackVars, runs, txs, installments, allocations, ledger, notified,
                     processed, workflows>>
  PROVE  Sound'
<1> DEFINE c == <<r, reqs[r].attempts + 1>>
           t == reqs[r].tx.id
<1>1. c \in ChargeIds /\ charges[c] = NoCharge
  BY ChargeNames
<1>2. t \in Requests /\ Stored(t)
  BY DEF Sound, RequestsSound, Holding, SoundCopies, Tx
<1>3. /\ Grows /\ ChargesSound'
      /\ charges' \in [ChargeIds -> Charge \cup {NoCharge}] /\ sent' \subseteq Events
      /\ \A d \in ChargeIds : d # c => charges'[d] = charges[d]
  BY <1>1, <1>2, ChargePut
<1>4. TypeOK'
  BY <1>3, RequestFrame DEF Sound, TypeOK, StoreTypeOK, ReqTypeOK
<1>5. RequestsSound'
  <2>1. \A q \in Requests, n \in 1..MaxAttempts :
          q # r /\ charges[<<q, n>>] = NoCharge => charges'[<<q, n>>] = NoCharge
    BY <1>3 DEF ChargeIds
  <2>2. \A n \in 1..MaxAttempts : n > h.attempts => charges'[<<r, n>>] = NoCharge
    <3> SUFFICES ASSUME NEW n \in 1..MaxAttempts, n > h.attempts
                 PROVE  charges'[<<r, n>>] = NoCharge
      OBVIOUS
    <3>1. reqs[r].attempts \in 0..MaxAttempts /\ MaxAttempts \in Nat
      BY StoreAssumption DEF Sound, TypeOK, ReqTypeOK
    <3>2. n > reqs[r].attempts /\ n # reqs[r].attempts + 1
      BY <3>1
    <3>3. charges[<<r, n>>] = NoCharge /\ <<r, n>> \in ChargeIds
      BY <3>2 DEF Sound, RequestsSound, ChargeIds
    <3>4. <<r, n>> # c
      BY <3>2
    <3> QED BY <3>3, <3>4, <1>3
  <2> QED BY <1>3, <2>1, <2>2, OneRequestSound
<1> QED
  BY <1>3, <1>4, <1>5, RequestFrame, StoreKept, WorkflowsKept, EffectsKept DEF Sound

LEMMA InitialStatusesTyped ==
  ASSUME NEW r \in Requests
  PROVE  InitialStatuses(r) \subseteq ChargeStatus
BY DEF InitialStatuses, ChargeStatus

LEMMA CreateChargeSound ==
  ASSUME Sound, NEW r \in Requests, CreateCharge(r), UNCHANGED <<callbackVars, runs>>
  PROVE  Sound'
<1> DEFINE c == <<r, reqs[r].attempts + 1>>
<1>1. /\ reqs[r].pc = "charge" /\ reqs[r].attempts < MaxAttempts
      /\ UNCHANGED <<txs, installments, allocations, ledger, notified, processed, workflows,
                     faults>>
  BY DEF CreateCharge
<1>2. PICK s \in InitialStatuses(r), e \in BOOLEAN :
        /\ PutCharge(c, reqs[r].tx.id, s)
        /\ reqs' = [reqs EXCEPT ![r] = AfterCharge(r, c, s, e)]
  BY DEF CreateCharge
<1>3. c \in ChargeIds /\ charges[c] = NoCharge /\ reqs[r].attempts + 1 \in 0..MaxAttempts
  BY <1>1, ChargeNames
<1>4. s \in ChargeStatus
  BY <1>2, InitialStatusesTyped
<1>5. reqs[r].tx \in SoundCopies /\ reqs[r].tx \in Tx /\ reqs[r].tx.id \in Requests
      /\ Stored(reqs[r].tx.id)
  BY <1>1 DEF Sound, RequestsSound, Holding, SoundCopies, Tx
<1>6. Grows /\ charges'[c] # NoCharge /\ charges'[c].ref = reqs[r].tx.id
  BY <1>1, <1>2, <1>3, <1>4, <1>5, ChargePut
<1> DEFINE tx == [reqs[r].tx EXCEPT !.pid = c, !.expires = IF e THEN TRUE ELSE @]
           captured == MethodOf[r] = "CREDIT_CARD" /\ s \in {"CONFIRMED", "RECEIVED"}
           h == AfterCharge(r, c, s, e)
<1>7. /\ tx \in Tx /\ tx.id = reqs[r].tx.id /\ tx.pid = c /\ tx.status = reqs[r].tx.status
      /\ MarkCompleted(tx) \in Tx /\ MarkCompleted(tx).id = reqs[r].tx.id
      /\ MarkCompleted(tx).pid = c /\ MarkCompleted(tx).status = "COMPLETED"
  BY <1>3, <1>5 DEF Tx, TxStatus, MarkCompleted
<1>8. captured => reqs[r].tx.id \in FundedTxs'
  BY <1>2, <1>3, <1>5, <1>6
     DEF FundedTxs, Funded, PaidCharge, Approved, PutCharge
<1>9. reqs[r].tx.status = "COMPLETED" => reqs[r].tx.id \in FundedTxs'
  BY <1>5, <1>6, FundedGrows DEF SoundCopies
<1>10. /\ h.tx = IF captured THEN MarkCompleted(tx) ELSE tx
       /\ h.pc = IF captured /\ r \in Batch THEN "markpaid" ELSE "update"
       /\ h.attempts = reqs[r].attempts + 1
       /\ h \in [pc : {"markpaid", "update"}, tx : {MarkCompleted(tx), tx},
                 attempts : {reqs[r].attempts + 1}]
  BY DEF AfterCharge
<1>11. txs'[reqs[r].tx.id] # NoTx
  BY <1>1, <1>5 DEF Stored
<1> HIDE DEF tx, captured, h, c
<1>12. h.tx \in SoundCopies'
  BY <1>6, <1>7, <1>8, <1>9, <1>10, <1>11 DEF SoundCopies, Stored
<1>13. h \in [pc : ReqPc, tx : Tx \cup {NoTx}, attempts : 0..MaxAttempts]
  BY <1>3, <1>7, <1>10 DEF ReqPc
<1>14. h.pc = "markpaid" => h.tx.status = "COMPLETED"
  BY <1>7, <1>10
<1>15. faults' \in Nat
  BY <1>1 DEF Sound, TypeOK, StoreTypeOK
<1> QED
  BY <1>1, <1>2, <1>4, <1>10, <1>12, <1>13, <1>14, <1>15, OneChargeSound DEF c, h

\* A copy may be marked FAILED: it claims less than before.
LEMMA MarkFailedSound ==
  ASSUME NEW tx \in SoundCopies
  PROVE  MarkFailed(tx) \in SoundCopies /\ MarkFailed(tx) \in Tx
BY DEF MarkFailed, SoundCopies, Tx, TxStatus

LEMMA HeldCopy ==
  ASSUME Sound, NEW r \in Requests, reqs[r].pc \in Holding
  PROVE  /\ reqs[r].tx \in SoundCopies /\ reqs[r].tx \in Tx
         /\ reqs[r].tx.id \in Requests /\ Stored(reqs[r].tx.id)
BY DEF Sound, RequestsSound, SoundCopies, Tx

LEMMA LoseChargeAnswerSound ==
  ASSUME Sound, NEW r \in Requests, LoseChargeAnswer(r), UNCHANGED <<callbackVars, runs>>
  PROVE  Sound'
<1> DEFINE n == reqs[r].attempts + 1
           h == [reqs[r] EXCEPT !.attempts = n,
                   !.pc = IF n = MaxAttempts THEN "fail" ELSE "charge",
                   !.tx = IF n = MaxAttempts THEN MarkFailed(@) ELSE @]
<1>1. /\ reqs[r].pc = "charge" /\ reqs[r].attempts < MaxAttempts /\ Fault
      /\ UNCHANGED <<txs, installments, allocations, ledger, notified, processed, workflows>>
  BY DEF LoseChargeAnswer
<1>2. PICK s \in InitialStatuses(r) : PutCharge(<<r, n>>, reqs[r].tx.id, s)
  BY DEF LoseChargeAnswer
<1>3. reqs' = [reqs EXCEPT ![r] = h]
  BY DEF LoseChargeAnswer
<1>4. s \in ChargeStatus
  BY <1>2, InitialStatusesTyped
<1>5. n \in 0..MaxAttempts /\ <<r, n>> \in ChargeIds /\ charges[<<r, n>>] = NoCharge
  BY <1>1, ChargeNames
<1>6. /\ reqs[r].tx \in SoundCopies /\ reqs[r].tx \in Tx
      /\ reqs[r].tx.id \in Requests /\ Stored(reqs[r].tx.id)
  BY <1>1, HeldCopy DEF Holding
<1>7. Grows
  BY <1>1, <1>2, <1>4, <1>5, <1>6, ChargePut
<1>8. MarkFailed(reqs[r].tx) \in SoundCopies /\ MarkFailed(reqs[r].tx) \in Tx
  BY <1>6, MarkFailedSound
<1>9. /\ h.attempts = n /\ h.pc \in {"fail", "charge"}
      /\ h.tx \in {MarkFailed(reqs[r].tx), reqs[r].tx}
      /\ h \in [pc : ReqPc, tx : Tx \cup {NoTx}, attempts : 0..MaxAttempts]
  BY <1>5, <1>6, <1>8 DEF Sound, TypeOK, ReqTypeOK, ReqPc
<1>10. faults' \in Nat
  BY <1>1 DEF Fault, Sound, TypeOK, StoreTypeOK
<1> HIDE DEF h
<1>11. h.tx \in SoundCopies'
  BY <1>6, <1>7, <1>8, <1>9, SoundCopiesGrow
<1> QED
  BY <1>1, <1>2, <1>3, <1>4, <1>9, <1>10, <1>11, OneChargeSound

LEMMA RefuseChargeSound ==
  ASSUME Sound, NEW r \in Requests, RefuseCharge(r), UNCHANGED <<callbackVars, runs>>
  PROVE  Sound'
<1> DEFINE h == [reqs[r] EXCEPT !.pc = "fail", !.tx = MarkFailed(@)]
<1>1. reqs[r].pc = "charge" /\ reqs' = [reqs EXCEPT ![r] = h] /\ UNCHANGED storeVars
  BY DEF RefuseCharge
<1>2. Grows
  BY <1>1 DEF Grows, storeVars, Stored
<1>3. MarkFailed(reqs[r].tx) \in SoundCopies /\ MarkFailed(reqs[r].tx) \in Tx
  BY <1>1, HeldCopy, MarkFailedSound DEF Holding
<1>4. /\ h.pc = "fail" /\ h.tx = MarkFailed(reqs[r].tx) /\ h.attempts = reqs[r].attempts
      /\ h \in [pc : ReqPc, tx : Tx \cup {NoTx}, attempts : 0..MaxAttempts]
  BY <1>3 DEF Sound, TypeOK, ReqTypeOK, ReqPc
<1> HIDE DEF h
<1>5. TypeOK'
  BY <1>1, <1>2, <1>4, RequestFrame DEF Sound, TypeOK, StoreTypeOK, ReqTypeOK, storeVars
<1>6. RequestsSound'
  BY <1>1, <1>2, <1>3, <1>4, SoundCopiesGrow, OneRequestSound
     DEF Sound, RequestsSound, storeVars
<1> QED
  BY <1>1, <1>2, <1>5, <1>6, RequestFrame, StoreKept, ChargesKept, WorkflowsKept, EffectsKept
     DEF Sound, storeVars

\* A request that goes on with the copy it holds, or stops.
LEMMA GotoSound ==
  ASSUME Sound, Grows, UNCHANGED charges, NEW r \in Requests, NEW pc \in ReqPc, Goto(r, pc),
         pc \in Holding => reqs[r].pc \in Holding,
         pc # "markpaid"
  PROVE  RequestsSound' /\ ReqTypeOK'
<1> DEFINE h == [reqs[r] EXCEPT !.pc = pc]
<1>1. reqs' = [reqs EXCEPT ![r] = h]
  BY DEF Goto
<1>2. /\ h.pc = pc /\ h.tx = reqs[r].tx /\ h.attempts = reqs[r].attempts
      /\ h \in [pc : ReqPc, tx : Tx \cup {NoTx}, attempts : 0..MaxAttempts]
  BY DEF Sound, TypeOK, ReqTypeOK
<1> HIDE DEF h
<1>3. h.pc \in Holding => h.tx \in SoundCopies'
  BY <1>2, SoundCopiesGrow, HeldCopy
<1>4. RequestsSound'
  BY <1>1, <1>2, <1>3, OneRequestSound DEF Sound, RequestsSound
<1> QED BY <1>1, <1>2, <1>4 DEF Sound, TypeOK, ReqTypeOK

LEMMA StoreFailureSound ==
  ASSUME Sound, NEW r \in Requests, StoreFailure(r), UNCHANGED <<callbackVars, runs>>
  PROVE  Sound'
<1>1. reqs[r].tx \in SoundCopies
  BY HeldCopy DEF StoreFailure, Holding
<1>2. Grows /\ StoreSound' /\ txs' \in [Requests -> Tx \cup {NoTx}]
  <2>1. CASE UpdateTx(reqs[r].tx)
    BY <1>1, <2>1, StoreUpdated DEF StoreFailure
  <2>2. CASE UNCHANGED txs
    <3>1. Grows
      BY <2>2 DEF Grows, StoreFailure, Stored
    <3> QED BY <2>2, <3>1, StoreKept DEF Sound, TypeOK, StoreTypeOK
  <2> QED BY <2>1, <2>2 DEF StoreFailure
<1>3. RequestsSound' /\ ReqTypeOK'
  BY <1>2, GotoSound DEF StoreFailure, ReqPc, Holding
<1>4. StoreTypeOK'
  BY <1>2 DEF Sound, TypeOK, StoreTypeOK, StoreFailure, Fault
<1> QED
  BY <1>2, <1>3, <1>4, RequestFrame, ChargesKept, WorkflowsKept, EffectsKept
     DEF Sound, TypeOK, StoreFailure

\* Installments marked on behalf of a funded transaction.
LEMMA MarkPaidSound ==
  ASSUME Sound, Grows, NEW S \in SUBSET Installments, NEW t \in FundedTxs,
         MarkPaidBatch(S, t), UNCHANGED <<ledger, notified>>
  PROVE  /\ EffectsAreFunded'
         /\ installments' \in [Installments -> [status : InstallmentStatus,
                                                tx : Requests \cup {NoTx}]]
<1>1. t \in Requests /\ Funded(t)'
  BY FundedGrows DEF FundedTxs
<1>2. \A u \in Requests : Funded(u) => Funded(u)'
  BY FundedGrows DEF FundedTxs
<1>3. installments' \in [Installments -> [status : InstallmentStatus,
                                          tx : Requests \cup {NoTx}]]
  BY <1>1 DEF MarkPaidBatch, Sound, TypeOK, StoreTypeOK, InstallmentStatus
<1>4. \A i \in Installments :
        installments'[i] = IF i \in S THEN [status |-> "PAID", tx |-> t] ELSE installments[i]
  BY DEF MarkPaidBatch
<1>5. ASSUME NEW i \in Installments, installments'[i].status = "PAID"
      PROVE  \E u \in Requests : installments'[i].tx = u /\ Funded(u)'
  <2>1. CASE i \in S
    BY <1>1, <1>4, <2>1
  <2>2. CASE i \notin S
    <3>1. PICK u \in Requests : installments[i].tx = u /\ Funded(u)
      BY <1>4, <1>5, <2>2 DEF Sound, EffectsAreFunded
    <3> QED BY <1>2, <1>4, <2>2, <3>1
  <2> QED BY <2>1, <2>2
<1>6. EffectsAreFunded'
  BY <1>2, <1>5 DEF Sound, EffectsAreFunded, TypeOK, StoreTypeOK
<1> QED BY <1>3, <1>6

LEMMA MarkBatchPaidSound ==
  ASSUME Sound, NEW r \in Requests, MarkBatchPaid(r), UNCHANGED <<callbackVars, runs>>
  PROVE  Sound'
<1>1. Grows
  BY DEF Grows, MarkBatchPaid, Stored
<1>2. reqs[r].tx.id \in FundedTxs
  BY HeldCopy DEF MarkBatchPaid, Holding, Sound, RequestsSound, SoundCopies
<1>3. \E S \in SUBSET Installments : MarkPaidBatch(S, reqs[r].tx.id)
  BY StoreAssumption DEF MarkBatchPaid
<1>4. EffectsAreFunded' /\ installments' \in [Installments -> [status : InstallmentStatus,
                                                              tx : Requests \cup {NoTx}]]
  BY <1>1, <1>2, <1>3, MarkPaidSound DEF MarkBatchPaid
<1>5. RequestsSound' /\ ReqTypeOK'
  BY <1>1, GotoSound DEF MarkBatchPaid, ReqPc, Holding
<1>6. StoreTypeOK'
  BY <1>4 DEF Sound, TypeOK, StoreTypeOK, MarkBatchPaid, Fault
<1> QED
  BY <1>1, <1>4, <1>5, <1>6, RequestFrame, StoreKept, ChargesKept, WorkflowsKept
     DEF Sound, TypeOK, MarkBatchPaid

LEMMA StoreChargeSound ==
  ASSUME Sound, NEW r \in Requests, StoreCharge(r), UNCHANGED <<callbackVars, runs>>
  PROVE  Sound'
<1>1. reqs[r].tx \in SoundCopies
  BY HeldCopy DEF StoreCharge, Holding
<1>2. Grows /\ StoreSound' /\ txs' \in [Requests -> Tx \cup {NoTx}]
  BY <1>1, StoreUpdated DEF StoreCharge
<1>3. RequestsSound' /\ ReqTypeOK'
  <2>1. Goto(r, "workflow") \/ Goto(r, "done")
    BY DEF StoreCharge
  <2> QED BY <1>2, <2>1, GotoSound DEF StoreCharge, ReqPc, Holding
<1>4. StoreTypeOK'
  BY <1>2 DEF Sound, TypeOK, StoreTypeOK, StoreCharge
<1> QED
  BY <1>2, <1>3, <1>4, RequestFrame, ChargesKept, WorkflowsKept, EffectsKept
     DEF Sound, TypeOK, StoreCharge

LEMMA StartExpirationSound ==
  ASSUME Sound, NEW r \in Requests, StartExpiration(r), UNCHANGED <<callbackVars, runs>>
  PROVE  Sound'
<1> DEFINE t == reqs[r].tx.id
<1>1. Grows
  BY DEF Grows, StartExpiration, Stored
<1>2. t \in Requests /\ Stored(t)
  BY HeldCopy DEF StartExpiration, Holding
<1>3. RequestsSound' /\ ReqTypeOK'
  BY <1>1, GotoSound DEF StartExpiration, ReqPc, Holding
<1>4. workflows' \in [Requests -> Workflow] /\ WorkflowsSound'
  <2>1. CASE UNCHANGED workflows
    BY <1>1, <2>1, WorkflowsKept DEF Sound, TypeOK, StoreTypeOK
  <2>2. CASE \E s \in {"WAITING", "SKIPPED"} :
               workflows' = [workflows EXCEPT ![t] = [NoWorkflow EXCEPT !.state = s]]
    <3>1. PICK s \in {"WAITING", "SKIPPED"} :
            workflows' = [workflows EXCEPT ![t] = [NoWorkflow EXCEPT !.state = s]]
      BY <2>2
    <3> DEFINE wf == [NoWorkflow EXCEPT !.state = s]
    <3>2. wf \in Workflow /\ wf.state \in {"WAITING", "SKIPPED"}
      BY DEF Workflow, WorkflowState, NoWorkflow
    <3> HIDE DEF wf
    <3>3. workflows' \in [Requests -> Workflow]
      BY <3>1, <3>2, <1>2 DEF Sound, TypeOK, StoreTypeOK, wf
    <3>4. WorkflowsSound'
      <4>1. workflows' = [workflows EXCEPT ![t] = wf]
        BY <3>1 DEF wf
      <4> HIDE DEF t
      <4> QED
        BY <4>1, <1>1, <1>2, <3>2, SoundCopiesGrow
           DEF Sound, WorkflowsSound, TypeOK, StoreTypeOK, Grows
    <3> QED BY <3>3, <3>4
  <2> QED BY <2>1, <2>2 DEF StartExpiration
<1>5. StoreTypeOK'
  BY <1>4 DEF Sound, TypeOK, StoreTypeOK, StartExpiration, Fault
<1> QED
  BY <1>1, <1>3, <1>4, <1>5, RequestFrame, StoreKept, ChargesKept, EffectsKept
     DEF Sound, TypeOK, StartExpiration

LEMMA AbortRequestSound ==
  ASSUME Sound, NEW r \in Requests, AbortRequest(r), UNCHANGED <<callbackVars, runs>>
  PROVE  Sound'
<1>1. Grows
  BY DEF Grows, AbortRequest, Stored
<1>2. RequestsSound' /\ ReqTypeOK'
  BY <1>1, GotoSound DEF AbortRequest, ReqPc, Holding
<1>3. StoreTypeOK'
  BY DEF Sound, TypeOK, StoreTypeOK, AbortRequest, Fault
<1> QED
  BY <1>1, <1>2, <1>3, RequestFrame, StoreKept, ChargesKept, WorkflowsKept, EffectsKept
     DEF Sound, TypeOK, AbortRequest

LEMMA RequestStepSound ==
  ASSUME Sound, NEW r \in Requests, RequestStep(r), UNCHANGED <<callbackVars, runs>>
  PROVE  Sound'
BY CheckKeySound, ValidateInstallmentsSound, SaveTxSound, CommitLedgerSound, CreateChargeSound,
   LoseChargeAnswerSound, RefuseChargeSound, StoreFailureSound, MarkBatchPaidSound,
   StoreChargeSound, StartExpirationSound, AbortRequestSound DEF RequestStep

-----------------------------------------------------------------------------
(* Webhook deliveries.                                                     *)

\* What the record of a delivery has to satisfy when it goes on.
SoundDelivery(d, recorded) ==
  /\ d \in Delivery
  /\ d.pc # "idle" => d.event \in sent'
  /\ d.pc \notin {"idle", "record"} => d.event \in recorded
  /\ d.pc = "update" => /\ d.tx \in SoundCopies'
                        /\ Action(d.event.status) = "approved" => d.tx.status = "COMPLETED"
  /\ d.pc \in {"markpaid", "allocate", "ledger", "notify"} =>
       d.tx \in Tx /\ d.tx.id \in FundedTxs'

\* One delivery goes on; it may pass SaveUnique only with an event nobody else has.
LEMMA OneDeliverySound ==
  ASSUME Sound, Grows, NEW w \in Workers, NEW d,
         deliveries' = [deliveries EXCEPT ![w] = d],
         processed \subseteq processed', SoundDelivery(d, processed'),
         d.pc \notin {"idle", "record"} =>
           \/ deliveries[w].pc \notin {"idle", "record"} /\ d.event = deliveries[w].event
           \/ d.event \notin processed
  PROVE  deliveries' \in [Workers -> Delivery] /\ DeliveriesSound' /\ EventHasOneHandler'
<1>1. deliveries \in [Workers -> Delivery]
  BY DEF Sound, TypeOK, CallbackTypeOK
<1>2. /\ deliveries'[w] = d
      /\ \A v \in Workers : v # w => deliveries'[v] = deliveries[v]
  BY <1>1
<1>3. DeliveriesSound'
  <2> SUFFICES ASSUME NEW v \in Workers
               PROVE  /\ deliveries'[v].pc # "idle" => deliveries'[v].event \in sent'
                      /\ deliveries'[v].pc \notin {"idle", "record"} =>
                           deliveries'[v].event \in processed'
                      /\ deliveries'[v].pc = "update" =>
                           /\ deliveries'[v].tx \in SoundCopies'
                           /\ Action(deliveries'[v].event.status) = "approved" =>
                                deliveries'[v].tx.status = "COMPLETED"
                      /\ deliveries'[v].pc \in {"markpaid", "allocate", "ledger", "notify"} =>
                           deliveries'[v].tx \in Tx /\ deliveries'[v].tx.id \in FundedTxs'
    BY DEF DeliveriesSound
  <2>1. CASE v = w
    BY <1>2, <2>1 DEF SoundDelivery
  <2>2. CASE v # w
    BY <1>2, <2>2, SoundCopiesGrow, FundedGrows DEF Sound, DeliveriesSound, Grows
  <2> QED BY <2>1, <2>2
<1>4. EventHasOneHandler'
  <2>1. ASSUME NEW v \in Workers, v # w, deliveries[v].pc \notin {"idle", "record"},
               d.pc \notin {"idle", "record"}
        PROVE  deliveries[v].event # d.event
    <3>1. deliveries[v].event \in processed
      BY <2>1 DEF Sound, DeliveriesSound
    <3>2. CASE d.event \notin processed
      BY <3>1, <3>2
    <3>3. CASE deliveries[w].pc \notin {"idle", "record"} /\ d.event = deliveries[w].event
      BY <2>1, <3>3 DEF Sound, EventHasOneHandler
    <3> QED BY <2>1, <3>2, <3>3
  <2>2. ASSUME NEW u \in Workers, NEW v \in Workers, u # v,
               deliveries'[u].pc \notin {"idle", "record"},
               deliveries'[v].pc \notin {"idle", "record"}
        PROVE  deliveries'[u].event # deliveries'[v].event
    <3>1. CASE u = w
      BY <1>2, <2>1, <2>2, <3>1
    <3>2. CASE v = w
      BY <1>2, <2>1, <2>2, <3>2
    <3>3. CASE u # w /\ v # w
      BY <1>2, <2>2, <3>3 DEF Sound, EventHasOneHandler
    <3> QED BY <3>1, <3>2, <3>3
  <2> QED BY <2>2 DEF EventHasOneHandler
<1> QED BY <1>1, <1>3, <1>4 DEF SoundDelivery

\* A delivery that is over.
LEMMA FinishSound ==
  ASSUME Sound, Grows, NEW w \in Workers, Finish(w), processed \subseteq processed'
  PROVE  deliveries' \in [Workers -> Delivery] /\ DeliveriesSound' /\ EventHasOneHandler'
<1>1. SoundDelivery(Idle, processed') /\ Idle.pc = "idle"
  BY DEF SoundDelivery, Idle, Delivery, DeliveryPc
<1> QED BY <1>1, OneDeliverySound DEF Finish

\* A delivery that takes its next step with the transaction it holds.
LEMMA ProceedSound ==
  ASSUME Sound, Grows, NEW w \in Workers, NEW pc \in DeliveryPc \ {"idle", "record", "update"},
         Proceed(w, pc), processed \subseteq processed',
         deliveries[w].pc \notin {"idle", "record"},
         pc \in {"markpaid", "allocate", "ledger", "notify"} =>
           deliveries[w].tx \in Tx /\ deliveries[w].tx.id \in FundedTxs
  PROVE  deliveries' \in [Workers -> Delivery] /\ DeliveriesSound' /\ EventHasOneHandler'
<1> DEFINE d == [deliveries[w] EXCEPT !.pc = pc]
<1>1. deliveries[w] \in Delivery
  BY DEF Sound, TypeOK, CallbackTypeOK
<1>2. /\ d \in Delivery /\ d.pc = pc /\ d.tx = deliveries[w].tx
      /\ d.event = deliveries[w].event
  BY <1>1 DEF Delivery
<1>3. deliveries' = [deliveries EXCEPT ![w] = d]
  BY DEF Proceed
<1> HIDE DEF d
<1>4. SoundDelivery(d, processed')
  BY <1>2, FundedGrows DEF SoundDelivery, Sound, DeliveriesSound, Grows
<1> QED BY <1>2, <1>3, <1>4, OneDeliverySound

\* What a delivery leaves alone.
LEMMA DeliveryFrame ==
  ASSUME Sound, Grows, UNCHANGED <<reqs, runs, charges, sent>>
  PROVE  ReqTypeOK' /\ RunTypeOK' /\ RequestsSound' /\ RunsSound' /\ ChargesSound'
BY RequestsKept, RunsKept, ChargesKept DEF Sound, TypeOK, ReqTypeOK, RunTypeOK

LEMMA DeliverSound ==
  ASSUME Sound, NEW w \in Workers, Deliver(w), UNCHANGED <<reqs, runs>>
  PROVE  Sound'
<1>1. Grows
  BY DEF Grows, Deliver, storeVars, Stored
<1>2. PICK e \in sent : deliveries' = [deliveries EXCEPT ![w].pc = "record", ![w].event = e]
  BY DEF Deliver
<1> DEFINE d == [deliveries[w] EXCEPT !.pc = "record", !.event = e]
<1>3. d \in Delivery /\ d.pc = "record" /\ d.event = e
  BY <1>2 DEF Sound, TypeOK, StoreTypeOK, CallbackTypeOK, Delivery, DeliveryPc
<1>4. deliveries' = [deliveries EXCEPT ![w] = d]
  BY <1>2
<1> HIDE DEF d
<1>5. SoundDelivery(d, processed')
  BY <1>3 DEF SoundDelivery, Deliver, storeVars
<1>6. deliveries' \in [Workers -> Delivery] /\ DeliveriesSound' /\ EventHasOneHandler'
  BY <1>1, <1>3, <1>4, <1>5, OneDeliverySound DEF Deliver, storeVars
<1>7. TypeOK'
  BY <1>1, <1>6, DeliveryFrame
     DEF Sound, TypeOK, StoreTypeOK, CallbackTypeOK, Deliver, storeVars
<1> QED
  BY <1>1, <1>6, <1>7, DeliveryFrame, StoreKept, WorkflowsKept, EffectsKept
     DEF Sound, Deliver, storeVars

LEMMA RecordEventSound ==
  ASSUME Sound, NEW w \in Workers, RecordEvent(w), UNCHANGED <<reqs, runs>>
  PROVE  Sound'
<1> DEFINE e == deliveries[w].event
<1>1. Grows
  BY DEF Grows, RecordEvent, Stored
<1>2. e \in Events /\ e \in sent
  BY DEF RecordEvent, Sound, DeliveriesSound, TypeOK, StoreTypeOK
<1>3. processed \subseteq processed' /\ processed' \subseteq Events
  BY <1>2 DEF RecordEvent, Sound, TypeOK, StoreTypeOK
<1>4. deliveries' \in [Workers -> Delivery] /\ DeliveriesSound' /\ EventHasOneHandler'
  <2>1. CASE Finish(w)
    BY <1>1, <1>3, <2>1, FinishSound
  <2>2. CASE e \notin processed /\ processed' = processed \cup {e} /\ Proceed(w, "load")
    <3> DEFINE d == [deliveries[w] EXCEPT !.pc = "load"]
    <3>1. d \in Delivery /\ d.pc = "load" /\ d.event = e
      BY DEF Sound, TypeOK, CallbackTypeOK, Delivery, DeliveryPc
    <3>2. deliveries' = [deliveries EXCEPT ![w] = d]
      BY <2>2 DEF Proceed
    <3> HIDE DEF d
    <3>3. SoundDelivery(d, processed')
      BY <1>1, <1>2, <2>2, <3>1 DEF SoundDelivery, Grows
    <3> QED BY <1>1, <1>3, <2>2, <3>1, <3>2, <3>3, OneDeliverySound
  <2> QED BY <2>1, <2>2 DEF RecordEvent
<1>5. TypeOK'
  BY <1>1, <1>3, <1>4, DeliveryFrame
     DEF Sound, TypeOK, StoreTypeOK, CallbackTypeOK, RecordEvent
<1> QED
  BY <1>1, <1>4, <1>5, DeliveryFrame, StoreKept, WorkflowsKept, EffectsKept
     DEF Sound, RecordEvent

\* What an event makes of a stored transaction: it may say COMPLETED because the
\* event itself reports one of its charges paid.
LEMMA OutcomeSound ==
  ASSUME Sound, NEW e \in sent, NEW t \in FindByProviderTransactionID(e.charge)
  PROVE  LET tx == Outcome(txs[t], Action(e.status)) IN
         /\ tx \in SoundCopies
         /\ Action(e.status) = "approved" => tx.status = "COMPLETED"
<1>1. /\ t \in Requests /\ txs[t] \in SoundCopies /\ txs[t] \in Tx
      /\ txs[t].id = t /\ txs[t].pid = e.charge /\ Stored(t)
  BY DEF Sound, StoreSound, FindByProviderTransactionID, SoundCopies
<1>2. e \in Events /\ e.charge \in ChargeIds
  BY DEF Sound, TypeOK, StoreTypeOK, Events
<1>3. charges[e.charge] # NoCharge /\ charges[e.charge].ref = t
  BY <1>1, <1>2, StoreAssumption DEF SoundCopies
<1>4. CASE Action(e.status) = "approved"
  <2>1. e.status \in Approved /\ e = [charge |-> e.charge, status |-> e.status]
    BY <1>2, <1>4 DEF Action, Approved, Events, ChargeStatus
  <2>2. t \in FundedTxs
    BY <1>1, <1>2, <1>3, <2>1 DEF FundedTxs, Funded, PaidCharge
  <2> QED BY <1>1, <1>4, <2>2 DEF Outcome, MarkCompleted, SoundCopies, Tx, TxStatus
<1>5. CASE Action(e.status) = "failed"
  BY <1>1, <1>5 DEF Outcome, MarkFailed, SoundCopies, Tx, TxStatus
<1>6. CASE Action(e.status) \notin {"approved", "failed"}
  BY <1>1, <1>6 DEF Outcome, SoundCopies, Tx, TxStatus
<1> QED BY <1>4, <1>5, <1>6

LEMMA LoadTxSound ==
  ASSUME Sound, NEW w \in Workers, LoadTx(w), UNCHANGED <<reqs, runs>>
  PROVE  Sound'
<1> DEFINE e == deliveries[w].event
<1>1. Grows
  BY DEF Grows, LoadTx, storeVars, Stored
<1>2. e \in sent /\ e \in processed
  BY DEF LoadTx, Sound, DeliveriesSound
<1>3. deliveries' \in [Workers -> Delivery] /\ DeliveriesSound' /\ EventHasOneHandler'
  <2>1. CASE Finish(w)
    BY <1>1, <2>1, FinishSound DEF LoadTx, storeVars
  <2>2. CASE Proceed(w, "signal")
    BY <1>1, <2>2, ProceedSound DEF LoadTx, storeVars, DeliveryPc
  <2>3. CASE \E t \in FindByProviderTransactionID(e.charge) :
               deliveries' = [deliveries EXCEPT ![w].pc = "update",
                                ![w].tx = Outcome(txs[t], Action(e.status))]
    <3>1. PICK t \in FindByProviderTransactionID(e.charge) :
            deliveries' = [deliveries EXCEPT ![w].pc = "update",
                             ![w].tx = Outcome(txs[t], Action(e.status))]
      BY <2>3
    <3> DEFINE tx == Outcome(txs[t], Action(e.status))
               d == [deliveries[w] EXCEPT !.pc = "update", !.tx = tx]
    <3>2. tx \in SoundCopies /\ (Action(e.status) = "approved" => tx.status = "COMPLETED")
      BY <1>2, OutcomeSound
    <3>3. deliveries' = [deliveries EXCEPT ![w] = d]
      BY <3>1
    <3> HIDE DEF tx
    <3>4. d \in Delivery /\ d.pc = "update" /\ d.tx = tx /\ d.event = e
      BY <3>2 DEF Sound, TypeOK, CallbackTypeOK, Delivery, DeliveryPc, SoundCopies
    <3> HIDE DEF d
    <3>5. SoundDelivery(d, processed')
      BY <1>1, <1>2, <3>2, <3>4, SoundCopiesGrow DEF SoundDelivery, LoadTx, storeVars
    <3> QED
      BY <1>1, <1>2, <3>3, <3>4, <3>5, OneDeliverySound DEF LoadTx, storeVars
  <2> QED BY <2>1, <2>2, <2>3 DEF LoadTx
<1>4. TypeOK'
  BY <1>1, <1>3, DeliveryFrame DEF Sound, TypeOK, StoreTypeOK, CallbackTypeOK, LoadTx, storeVars
<1> QED
  BY <1>1, <1>3, <1>4, DeliveryFrame, StoreKept, WorkflowsKept, EffectsKept
     DEF Sound, LoadTx, storeVars

LEMMA StoreOutcomeSound ==
  ASSUME Sound, NEW w \in Workers, StoreOutcome(w), UNCHANGED <<reqs, runs>>
  PROVE  Sound'
<1> DEFINE d == deliveries[w]
<1>1. d.tx \in SoundCopies /\ (Action(d.event.status) = "approved" => d.tx.status = "COMPLETED")
  BY DEF StoreOutcome, Sound, DeliveriesSound
<1>2. Grows /\ StoreSound' /\ txs' \in [Requests -> Tx \cup {NoTx}]
  BY <1>1, StoreUpdated DEF StoreOutcome
<1>3. deliveries' \in [Workers -> Delivery] /\ DeliveriesSound' /\ EventHasOneHandler'
  <2>1. CASE Action(d.event.status) # "approved"
    BY <1>2, <2>1, ProceedSound DEF StoreOutcome, DeliveryPc
  <2>2. CASE Action(d.event.status) = "approved"
    <3>1. d.tx \in Tx /\ d.tx.id \in FundedTxs
      BY <1>1, <2>2 DEF SoundCopies
    <3>2. Proceed(w, "ledger") \/ Proceed(w, "markpaid")
      BY <2>2 DEF StoreOutcome
    <3> QED BY <1>2, <3>1, <3>2, ProceedSound DEF StoreOutcome, DeliveryPc
  <2> QED BY <2>1, <2>2
<1>4. TypeOK'
  BY <1>2, <1>3, DeliveryFrame DEF Sound, TypeOK, StoreTypeOK, CallbackTypeOK, StoreOutcome
<1> QED
  BY <1>2, <1>3, <1>4, DeliveryFrame, WorkflowsKept, EffectsKept DEF Sound, StoreOutcome

\* A delivery past the update holds a transaction whose money was collected.
LEMMA FundedDelivery ==
  ASSUME Sound, NEW w \in Workers,
         deliveries[w].pc \in {"markpaid", "allocate", "ledger", "notify"}
  PROVE  /\ deliveries[w].tx \in Tx /\ deliveries[w].tx.id \in FundedTxs
         /\ deliveries[w].tx.id \in Requests
BY DEF Sound, DeliveriesSound, FundedTxs

LEMMA MarkInstallmentsPaidSound ==
  ASSUME Sound, NEW w \in Workers, MarkInstallmentsPaid(w), UNCHANGED <<reqs, runs>>
  PROVE  Sound'
<1> DEFINE tx == deliveries[w].tx
<1>1. Grows
  BY DEF Grows, MarkInstallmentsPaid, Stored
<1>2. tx \in Tx /\ tx.id \in FundedTxs /\ tx.id \in Requests
  BY FundedDelivery DEF MarkInstallmentsPaid
<1>3. ItemsOf[tx.id] \subseteq Installments
  BY <1>2, StoreAssumption
<1>4. \E S \in SUBSET Installments : MarkPaidBatch(S, tx.id)
  BY <1>3 DEF MarkInstallmentsPaid
<1>5. EffectsAreFunded' /\ installments' \in [Installments -> [status : InstallmentStatus,
                                                              tx : Requests \cup {NoTx}]]
  BY <1>1, <1>2, <1>4, MarkPaidSound DEF MarkInstallmentsPaid
<1>6. deliveries' \in [Workers -> Delivery] /\ DeliveriesSound' /\ EventHasOneHandler'
  <2>1. CASE Proceed(w, "ledger")
    BY <1>1, <1>2, <2>1, ProceedSound DEF MarkInstallmentsPaid, DeliveryPc
  <2>2. CASE deliveries' = [deliveries EXCEPT ![w].pc = "allocate", ![w].todo = ItemsOf[tx.id]]
    <3> DEFINE d == [deliveries[w] EXCEPT !.pc = "allocate", !.todo = ItemsOf[tx.id]]
    <3>1. d \in Delivery /\ d.pc = "allocate" /\ d.tx = tx /\ d.event = deliveries[w].event
      BY <1>3 DEF Sound, TypeOK, CallbackTypeOK, Delivery, DeliveryPc
    <3>2. deliveries' = [deliveries EXCEPT ![w] = d]
      BY <2>2
    <3> HIDE DEF d
    <3>3. SoundDelivery(d, processed')
      BY <1>1, <1>2, <3>1, FundedGrows
         DEF SoundDelivery, MarkInstallmentsPaid, Sound, DeliveriesSound
    <3> QED BY <1>1, <3>1, <3>2, <3>3, OneDeliverySound DEF MarkInstallmentsPaid
  <2> QED BY <2>1, <2>2 DEF MarkInstallmentsPaid
<1>7. TypeOK'
  BY <1>1, <1>5, <1>6, DeliveryFrame
     DEF Sound, TypeOK, StoreTypeOK, CallbackTypeOK, MarkInstallmentsPaid, Fault
<1> QED
  BY <1>1, <1>5, <1>6, <1>7, DeliveryFrame, StoreKept, WorkflowsKept
     DEF Sound, MarkInstallmentsPaid

\* A step of the allocation loop changes only what is left to allocate.
LEMMA AllocationStepSound ==
  ASSUME Sound, NEW w \in Workers, deliveries[w].pc = "allocate",
         NEW todo \in SUBSET Installments, NEW picked \in Installments \cup {NoItem},
         deliveries' = [deliveries EXCEPT ![w].todo = todo, ![w].picked = picked],
         allocations' \in [Installments -> Nat], faults' \in Nat,
         UNCHANGED <<txs, installments, ledger, notified, processed, charges, sent, workflows,
                     confirmations, reqs, runs>>
  PROVE  Sound'
<1> DEFINE d == [deliveries[w] EXCEPT !.todo = todo, !.picked = picked]
<1>1. Grows
  BY DEF Grows, Stored
<1>2. /\ d \in Delivery /\ d.pc = "allocate" /\ d.tx = deliveries[w].tx
      /\ d.event = deliveries[w].event
  BY DEF Sound, TypeOK, CallbackTypeOK, Delivery
<1>3. deliveries' = [deliveries EXCEPT ![w] = d]
  OBVIOUS
<1> HIDE DEF d
<1>4. SoundDelivery(d, processed')
  BY <1>1, <1>2, FundedGrows, FundedDelivery DEF SoundDelivery, Sound, DeliveriesSound
<1>5. deliveries' \in [Workers -> Delivery] /\ DeliveriesSound' /\ EventHasOneHandler'
  BY <1>1, <1>2, <1>3, <1>4, OneDeliverySound
<1>6. TypeOK'
  BY <1>1, <1>5, DeliveryFrame DEF Sound, TypeOK, StoreTypeOK, CallbackTypeOK
<1> QED
  BY <1>1, <1>5, <1>6, DeliveryFrame, StoreKept, WorkflowsKept, EffectsKept DEF Sound

LEMMA CheckAllocationSound ==
  ASSUME Sound, NEW w \in Workers, CheckAllocation(w), UNCHANGED <<reqs, runs>>
  PROVE  Sound'
<1> DEFINE d == deliveries[w]
<1>1. d.todo \subseteq Installments
  BY DEF Sound, TypeOK, CallbackTypeOK, Delivery
<1>2. PICK i \in d.todo :
        deliveries' = [deliveries EXCEPT ![w].todo = d.todo \ {i},
                         ![w].picked = IF allocations[i] = 0 THEN i ELSE NoItem]
  BY DEF CheckAllocation
<1>3. d.todo \ {i} \in SUBSET Installments
      /\ (IF allocations[i] = 0 THEN i ELSE NoItem) \in Installments \cup {NoItem}
  BY <1>1
<1>4. allocations' \in [Installments -> Nat] /\ faults' \in Nat
  BY DEF Sound, TypeOK, StoreTypeOK, CheckAllocation, storeVars
<1> QED
  BY <1>2, <1>3, <1>4, AllocationStepSound DEF CheckAllocation, storeVars

LEMMA InsertAllocationSound ==
  ASSUME Sound, NEW w \in Workers, InsertAllocation(w), UNCHANGED <<reqs, runs>>
  PROVE  Sound'
<1> DEFINE d == deliveries[w]
<1>1. d.todo \subseteq Installments /\ d.picked \in Installments
  BY DEF Sound, TypeOK, CallbackTypeOK, Delivery, InsertAllocation
<1>2. deliveries' = [deliveries EXCEPT ![w].todo = d.todo, ![w].picked = NoItem]
  BY DEF InsertAllocation, Sound, TypeOK, CallbackTypeOK, Delivery
<1>3. allocations' \in [Installments -> Nat] /\ faults' \in Nat
  BY <1>1 DEF Sound, TypeOK, StoreTypeOK, InsertAllocation
<1> QED
  BY <1>1, <1>2, <1>3, AllocationStepSound DEF InsertAllocation

LEMMA FailAllocationSound ==
  ASSUME Sound, NEW w \in Workers, FailAllocation(w), UNCHANGED <<reqs, runs>>
  PROVE  Sound'
<1> DEFINE d == deliveries[w]
<1>1. d.todo \subseteq Installments
  BY DEF Sound, TypeOK, CallbackTypeOK, Delivery
<1>2. deliveries' = [deliveries EXCEPT ![w].todo = d.todo, ![w].picked = NoItem]
  BY DEF FailAllocation, Sound, TypeOK, CallbackTypeOK, Delivery
<1>3. allocations' \in [Installments -> Nat] /\ faults' \in Nat
  BY DEF Sound, TypeOK, StoreTypeOK, FailAllocation, Fault
<1> QED
  BY <1>1, <1>2, <1>3, AllocationStepSound DEF FailAllocation

LEMMA EndAllocationSound ==
  ASSUME Sound, NEW w \in Workers, EndAllocation(w), UNCHANGED <<reqs, runs>>
  PROVE  Sound'
<1>1. Grows
  BY DEF Grows, EndAllocation, storeVars, Stored
<1>2. deliveries' \in [Workers -> Delivery] /\ DeliveriesSound' /\ EventHasOneHandler'
  BY <1>1, FundedDelivery, ProceedSound DEF EndAllocation, DeliveryPc, storeVars
<1>3. TypeOK'
  BY <1>1, <1>2, DeliveryFrame
     DEF Sound, TypeOK, StoreTypeOK, CallbackTypeOK, EndAllocation, storeVars
<1> QED
  BY <1>1, <1>2, <1>3, DeliveryFrame, StoreKept, WorkflowsKept, EffectsKept
     DEF Sound, EndAllocation, storeVars

LEMMA ConfirmLedgerSound ==
  ASSUME Sound, NEW w \in Workers, ConfirmLedger(w), UNCHANGED <<reqs, runs>>
  PROVE  Sound'
<1> DEFINE t == deliveries[w].tx.id
<1>1. Grows
  BY DEF Grows, ConfirmLedger, Stored
<1>2. t \in FundedTxs /\ t \in Requests
  BY FundedDelivery DEF ConfirmLedger
<1>3. deliveries' \in [Workers -> Delivery] /\ DeliveriesSound' /\ EventHasOneHandler'
  BY <1>1, FundedDelivery, ProceedSound DEF ConfirmLedger, DeliveryPc
<1>4. ledger' \subseteq LedgerEntries
  BY <1>2 DEF Sound, TypeOK, StoreTypeOK, ConfirmLedger, AppendConfirmation, LedgerEntries
<1>5. TypeOK'
  BY <1>1, <1>3, <1>4, DeliveryFrame
     DEF Sound, TypeOK, StoreTypeOK, CallbackTypeOK, ConfirmLedger, Fault
<1>6. EffectsAreFunded'
  <2>1. \A u \in FundedTxs : Funded(u)'
    BY <1>1, FundedGrows DEF FundedTxs
  <2>2. \A u \in Requests : [type |-> "CONFIRMATION", source |-> u] \in ledger' =>
          u = t \/ [type |-> "CONFIRMATION", source |-> u] \in ledger
    BY DEF ConfirmLedger, AppendConfirmation
  <2> QED
    BY <1>2, <2>1, <2>2
       DEF Sound, EffectsAreFunded, FundedTxs, TypeOK, StoreTypeOK, ConfirmLedger
<1> QED
  BY <1>1, <1>3, <1>5, <1>6, DeliveryFrame, StoreKept, WorkflowsKept DEF Sound, ConfirmLedger

LEMMA NotifyParticipantSound ==
  ASSUME Sound, NEW w \in Workers, NotifyParticipant(w), UNCHANGED <<reqs, runs>>
  PROVE  Sound'
<1> DEFINE t == deliveries[w].tx.id
<1>1. Grows
  BY DEF Grows, NotifyParticipant, Stored
<1>2. t \in FundedTxs /\ t \in Requests
  BY FundedDelivery DEF NotifyParticipant
<1>3. deliveries' \in [Workers -> Delivery] /\ DeliveriesSound' /\ EventHasOneHandler'
  BY <1>1, ProceedSound DEF NotifyParticipant, DeliveryPc
<1>4. TypeOK'
  BY <1>1, <1>2, <1>3, DeliveryFrame
     DEF Sound, TypeOK, StoreTypeOK, CallbackTypeOK, NotifyParticipant, Fault
<1>5. EffectsAreFunded'
  <2>1. \A u \in FundedTxs : Funded(u)'
    BY <1>1, FundedGrows DEF FundedTxs
  <2>2. notified' \subseteq notified \cup {t}
    BY DEF NotifyParticipant
  <2> QED
    BY <1>2, <2>1, <2>2
       DEF Sound, EffectsAreFunded, FundedTxs, TypeOK, StoreTypeOK, NotifyParticipant
<1> QED
  BY <1>1, <1>3, <1>4, <1>5, DeliveryFrame, StoreKept, WorkflowsKept
     DEF Sound, NotifyParticipant

LEMMA SignalExpirationSound ==
  ASSUME Sound, NEW w \in Workers, SignalExpiration(w), UNCHANGED <<reqs, runs>>
  PROVE  Sound'
<1>1. Grows
  BY DEF Grows, SignalExpiration, Stored
<1>2. deliveries' \in [Workers -> Delivery] /\ DeliveriesSound' /\ EventHasOneHandler'
  BY <1>1, ProceedSound DEF SignalExpiration, DeliveryPc
<1>3. workflows' \in [Requests -> Workflow] /\ WorkflowsSound'
  <2>1. CASE UNCHANGED workflows
    BY <1>1, <2>1, WorkflowsKept DEF Sound, TypeOK, StoreTypeOK
  <2>2. CASE \E t \in Requests : workflows' = [workflows EXCEPT ![t].signalled = TRUE]
    <3>1. PICK t \in Requests : workflows' = [workflows EXCEPT ![t].signalled = TRUE]
      BY <2>2
    <3>2. workflows \in [Requests -> Workflow]
      BY DEF Sound, TypeOK, StoreTypeOK
    <3>3. workflows' \in [Requests -> Workflow]
      BY <3>1, <3>2 DEF Workflow
    <3>4. \A u \in Requests : /\ workflows'[u].state = workflows[u].state
                              /\ workflows'[u].tx = workflows[u].tx
      BY <3>1, <3>2 DEF Workflow
    <3>5. WorkflowsSound'
      BY <1>1, <3>4, SoundCopiesGrow DEF Sound, WorkflowsSound, Grows
    <3> QED BY <3>3, <3>5
  <2> QED BY <2>1, <2>2 DEF SignalExpiration, FindByProviderTransactionID
<1>4. TypeOK'
  BY <1>1, <1>2, <1>3, DeliveryFrame
     DEF Sound, TypeOK, StoreTypeOK, CallbackTypeOK, SignalExpiration, Fault
<1> QED
  BY <1>1, <1>2, <1>3, <1>4, DeliveryFrame, StoreKept, EffectsKept DEF Sound, SignalExpiration

LEMMA StartConfirmationSound ==
  ASSUME Sound, NEW w \in Workers, StartConfirmation(w), UNCHANGED <<reqs, runs>>
  PROVE  Sound'
<1> DEFINE e == deliveries[w].event
           k == <<e.charge, Action(e.status)>>
<1>1. Grows
  BY DEF Grows, StartConfirmation, Stored
<1>2. deliveries' \in [Workers -> Delivery] /\ DeliveriesSound' /\ EventHasOneHandler'
  BY <1>1, FinishSound DEF StartConfirmation
<1>3. confirmations' \in [Confirmations -> Confirmation]
  <2>1. confirmations \in [Confirmations -> Confirmation]
    BY DEF Sound, TypeOK, CallbackTypeOK
  <2>2. e \in Events
    BY DEF StartConfirmation, Sound, DeliveriesSound, TypeOK, StoreTypeOK
  <2>3. [state |-> "RUNNING", event |-> e] \in Confirmation
    BY <2>2 DEF Confirmation
  <2>4. \/ UNCHANGED confirmations
        \/ confirmations' = [confirmations EXCEPT ![k] = [state |-> "RUNNING", event |-> e]]
    BY DEF StartConfirmation
  <2> HIDE DEF k
  <2> QED BY <2>1, <2>3, <2>4
<1>4. TypeOK'
  BY <1>1, <1>2, <1>3, DeliveryFrame
     DEF Sound, TypeOK, StoreTypeOK, CallbackTypeOK, StartConfirmation, Fault
<1> QED
  BY <1>1, <1>2, <1>4, DeliveryFrame, StoreKept, WorkflowsKept, EffectsKept
     DEF Sound, StartConfirmation

LEMMA RunConfirmationSound ==
  ASSUME Sound, NEW k \in Confirmations, RunConfirmation(k), UNCHANGED <<reqs, runs>>
  PROVE  Sound'
<1>1. Grows
  BY DEF Grows, RunConfirmation, storeVars, Stored
<1>2. deliveries' \in [Workers -> Delivery] /\ DeliveriesSound' /\ EventHasOneHandler'
  BY <1>1, DeliveriesKept DEF Sound, TypeOK, CallbackTypeOK, RunConfirmation, storeVars
<1>3. confirmations' \in [Confirmations -> Confirmation]
  BY DEF Sound, TypeOK, CallbackTypeOK, RunConfirmation, Confirmation
<1>4. TypeOK'
  BY <1>1, <1>2, <1>3, DeliveryFrame
     DEF Sound, TypeOK, StoreTypeOK, CallbackTypeOK, RunConfirmation, storeVars
<1> QED
  BY <1>1, <1>2, <1>4, DeliveryFrame, StoreKept, WorkflowsKept, EffectsKept
     DEF Sound, RunConfirmation, storeVars

LEMMA AbortDeliverySound ==
  ASSUME Sound, NEW w \in Workers, AbortDelivery(w), UNCHANGED <<reqs, runs>>
  PROVE  Sound'
<1>1. Grows
  BY DEF Grows, AbortDelivery, Stored
<1>2. deliveries' \in [Workers -> Delivery] /\ DeliveriesSound' /\ EventHasOneHandler'
  BY <1>1, FinishSound DEF AbortDelivery
<1>3. TypeOK'
  BY <1>1, <1>2, DeliveryFrame
     DEF Sound, TypeOK, StoreTypeOK, CallbackTypeOK, AbortDelivery, Fault
<1> QED
  BY <1>1, <1>2, <1>3, DeliveryFrame, StoreKept, WorkflowsKept, EffectsKept
     DEF Sound, AbortDelivery

LEMMA CallbackStepSound ==
  ASSUME Sound, NEW w \in Workers, CallbackStep(w), UNCHANGED <<reqs, runs>>
  PROVE  Sound'
BY DeliverSound, RecordEventSound, LoadTxSound, StoreOutcomeSound, MarkInstallmentsPaidSound,
   CheckAllocationSound, InsertAllocationSound, FailAllocationSound, EndAllocationSound,
   ConfirmLedgerSound, NotifyParticipantSound, SignalExpirationSound, StartConfirmationSound,
   AbortDeliverySound DEF CallbackStep

-----------------------------------------------------------------------------
(* Expiration workflows.                                                   *)

LEMMA ExpirationFrame ==
  ASSUME Sound, Grows, UNCHANGED unchangedByExpiration, UNCHANGED <<reqs, callbackVars, runs>>
  PROVE  /\ ReqTypeOK' /\ CallbackTypeOK' /\ RunTypeOK' /\ RequestsSound' /\ DeliveriesSound'
         /\ EventHasOneHandler' /\ RunsSound' /\ ChargesSound' /\ EffectsAreFunded'
BY RequestsKept, DeliveriesKept, RunsKept, ChargesKept, EffectsKept
   DEF Sound, TypeOK, ReqTypeOK, CallbackTypeOK, RunTypeOK, callbackVars, unchangedByExpiration

\* One workflow changes; a loaded one holds a sound copy.
LEMMA OneWorkflowSound ==
  ASSUME Sound, Grows, NEW t \in Requests, NEW wf \in Workflow,
         workflows' = [workflows EXCEPT ![t] = wf],
         wf.state \in {"WAITING", "EXPIRING", "LOADED"} => Stored(t),
         wf.state = "LOADED" => wf.tx \in SoundCopies
  PROVE  workflows' \in [Requests -> Workflow] /\ WorkflowsSound'
<1>1. workflows \in [Requests -> Workflow]
  BY DEF Sound, TypeOK, StoreTypeOK
<1>2. \A u \in Requests : workflows'[u] = IF u = t THEN wf ELSE workflows[u]
  BY <1>1
<1>3. ASSUME NEW u \in Requests
      PROVE  /\ workflows'[u].state \in {"WAITING", "EXPIRING", "LOADED"} => Stored(u)'
             /\ workflows'[u].state = "LOADED" => workflows'[u].tx \in SoundCopies'
  <2>1. CASE u = t
    BY <1>2, <2>1, SoundCopiesGrow DEF Grows
  <2>2. CASE u # t
    BY <1>2, <2>2, SoundCopiesGrow DEF Sound, WorkflowsSound, Grows
  <2> QED BY <2>1, <2>2
<1> QED BY <1>1, <1>3 DEF WorkflowsSound

\* A workflow that only moves to another state, none of them "LOADED".
LEMMA SetStateSound ==
  ASSUME Sound, NEW t \in Requests, NEW s \in WorkflowState \ {"LOADED"}, SetState(t, s),
         workflows[t].state \in {"WAITING", "EXPIRING"},
         UNCHANGED <<unchangedByExpiration, txs, faults, reqs, callbackVars, runs>>
  PROVE  Sound'
<1> DEFINE wf == [workflows[t] EXCEPT !.state = s]
<1>1. Grows
  BY DEF Grows, unchangedByExpiration, Stored
<1>2. wf \in Workflow /\ wf.state = s
  BY DEF Sound, TypeOK, StoreTypeOK, Workflow
<1>3. workflows' = [workflows EXCEPT ![t] = wf]
  BY DEF SetState
<1> HIDE DEF wf
<1>4. workflows' \in [Requests -> Workflow] /\ WorkflowsSound'
  BY <1>1, <1>2, <1>3, OneWorkflowSound DEF Sound, WorkflowsSound
<1>5. TypeOK'
  BY <1>1, <1>4, ExpirationFrame DEF Sound, TypeOK, StoreTypeOK, unchangedByExpiration
<1> QED BY <1>1, <1>4, <1>5, ExpirationFrame, StoreKept DEF Sound

LEMMA LoadExpiringSound ==
  ASSUME Sound, NEW t \in Requests, LoadExpiring(t), UNCHANGED <<reqs, callbackVars, runs>>
  PROVE  Sound'
<1> DEFINE tx == [txs[t] EXCEPT !.status = "CANCELLED"]
           wf == [workflows[t] EXCEPT !.state = "LOADED", !.tx = tx]
<1>1. CASE SetState(t, "FAILED")
  BY <1>1, SetStateSound DEF LoadExpiring, WorkflowState
<1>2. CASE workflows' = [workflows EXCEPT ![t].state = "LOADED", ![t].tx = tx]
  <2>1. Grows
    BY DEF Grows, LoadExpiring, unchangedByExpiration, Stored
  <2>2. Stored(t) /\ txs[t] \in SoundCopies
    BY DEF LoadExpiring, Sound, WorkflowsSound, StoreSound
  <2>3. tx \in SoundCopies /\ tx \in Tx
    BY <2>2 DEF SoundCopies, Tx, TxStatus
  <2>4. workflows' = [workflows EXCEPT ![t] = wf]
    BY <1>2
  <2> HIDE DEF tx
  <2>5. wf \in Workflow /\ wf.state = "LOADED" /\ wf.tx = tx
    BY <2>3 DEF Sound, TypeOK, StoreTypeOK, Workflow, WorkflowState
  <2> HIDE DEF wf
  <2>6. workflows' \in [Requests -> Workflow] /\ WorkflowsSound'
    BY <2>1, <2>2, <2>3, <2>4, <2>5, OneWorkflowSound
  <2>7. TypeOK'
    BY <2>1, <2>6, ExpirationFrame
       DEF Sound, TypeOK, StoreTypeOK, LoadExpiring, unchangedByExpiration
  <2> QED BY <2>1, <2>6, <2>7, ExpirationFrame, StoreKept DEF Sound, LoadExpiring
<1> QED BY <1>1, <1>2 DEF LoadExpiring

LEMMA StoreExpiredSound ==
  ASSUME Sound, NEW t \in Requests, StoreExpired(t), UNCHANGED <<reqs, callbackVars, runs>>
  PROVE  Sound'
<1> DEFINE wf == [workflows[t] EXCEPT !.state = "COMPLETED", !.tx = NoTx]
<1>1. workflows[t].tx \in SoundCopies
  BY DEF StoreExpired, Sound, WorkflowsSound
<1>2. Grows /\ StoreSound' /\ txs' \in [Requests -> Tx \cup {NoTx}]
  BY <1>1, StoreUpdated DEF StoreExpired, unchangedByExpiration
<1>3. wf \in Workflow /\ wf.state = "COMPLETED"
  BY DEF Sound, TypeOK, StoreTypeOK, Workflow, WorkflowState
<1>4. workflows' = [workflows EXCEPT ![t] = wf]
  BY DEF StoreExpired
<1> HIDE DEF wf
<1>5. workflows' \in [Requests -> Workflow] /\ WorkflowsSound'
  BY <1>2, <1>3, <1>4, OneWorkflowSound
<1>6. TypeOK'
  BY <1>2, <1>5, ExpirationFrame
     DEF Sound, TypeOK, StoreTypeOK, StoreExpired, unchangedByExpiration
<1> QED BY <1>2, <1>5, <1>6, ExpirationFrame DEF Sound, StoreExpired

LEMMA FailAttemptSound ==
  ASSUME Sound, NEW t \in Requests, FailAttempt(t), UNCHANGED <<reqs, callbackVars, runs>>
  PROVE  Sound'
<1> DEFINE wf == [workflows[t] EXCEPT !.attempts = @ + 1, !.tx = NoTx,
                    !.state = IF AttemptsLeft(workflows[t]) THEN "EXPIRING" ELSE "FAILED"]
<1>1. Grows /\ StoreSound' /\ txs' \in [Requests -> Tx \cup {NoTx}]
  <2>1. CASE UNCHANGED txs
    <3>1. Grows
      BY <2>1 DEF Grows, FailAttempt, unchangedByExpiration, Stored
    <3> QED BY <2>1, <3>1, StoreKept DEF Sound, TypeOK, StoreTypeOK
  <2>2. CASE workflows[t].state = "LOADED" /\ UpdateTx(workflows[t].tx)
    <3>1. workflows[t].tx \in SoundCopies
      BY <2>2 DEF Sound, WorkflowsSound
    <3> QED BY <2>2, <3>1, StoreUpdated DEF FailAttempt, unchangedByExpiration
  <2> QED BY <2>1, <2>2 DEF FailAttempt
<1>2. wf \in Workflow /\ wf.state \in {"EXPIRING", "FAILED"}
  <2>1. workflows[t] \in Workflow
    BY DEF Sound, TypeOK, StoreTypeOK
  <2>2. workflows[t].attempts + 1 \in Nat
    BY <2>1 DEF Workflow
  <2>3. PICK s \in {"EXPIRING", "FAILED"} :
          wf = [workflows[t] EXCEPT !.attempts = @ + 1, !.tx = NoTx, !.state = s]
    OBVIOUS
  <2> QED BY <2>1, <2>2, <2>3 DEF Workflow, WorkflowState
<1>3. workflows' = [workflows EXCEPT ![t] = wf]
  BY DEF FailAttempt
<1> HIDE DEF wf
<1>4. Stored(t)
  BY DEF FailAttempt, Sound, WorkflowsSound
<1>5. workflows' \in [Requests -> Workflow] /\ WorkflowsSound'
  BY <1>1, <1>2, <1>3, <1>4, OneWorkflowSound
<1>6. TypeOK'
  BY <1>1, <1>5, ExpirationFrame
     DEF Sound, TypeOK, StoreTypeOK, FailAttempt, Fault, unchangedByExpiration
<1> QED BY <1>1, <1>5, <1>6, ExpirationFrame DEF Sound, FailAttempt

LEMMA ExpirationStepSound ==
  ASSUME Sound, NEW t \in Requests, ExpirationStep(t), UNCHANGED <<reqs, callbackVars, runs>>
  PROVE  Sound'
<1>1. CASE TakeSignal(t)
  BY <1>1, SetStateSound DEF TakeSignal, WorkflowState
<1>2. CASE FireTimer(t)
  BY <1>2, SetStateSound DEF FireTimer, WorkflowState
<1> QED
  BY <1>1, <1>2, LoadExpiringSound, StoreExpiredSound, FailAttemptSound DEF ExpirationStep

-----------------------------------------------------------------------------
(* Reconciliation runs.                                                    *)

LEMMA RunFrame ==
  ASSUME Sound, Grows, UNCHANGED unchangedByReconcile, UNCHANGED <<reqs, callbackVars>>
  PROVE  /\ ReqTypeOK' /\ CallbackTypeOK' /\ RequestsSound' /\ DeliveriesSound'
         /\ EventHasOneHandler' /\ WorkflowsSound' /\ ChargesSound' /\ EffectsAreFunded'
BY RequestsKept, DeliveriesKept, WorkflowsKept, ChargesKept, EffectsKept
   DEF Sound, TypeOK, ReqTypeOK, CallbackTypeOK, callbackVars, unchangedByReconcile

\* One run changes; all the copies it holds are sound.
LEMMA OneRunSound ==
  ASSUME Sound, Grows, NEW p \in Reconcilers, NEW run \in Run,
         runs' = [runs EXCEPT ![p] = run],
         run.batch \subseteq SoundCopies,
         run.tx # NoTx => run.tx \in SoundCopies
  PROVE  RunTypeOK' /\ RunsSound'
<1>1. runs \in [Reconcilers -> Run]
  BY DEF Sound, TypeOK, RunTypeOK
<1>2. \A q \in Reconcilers : runs'[q] = IF q = p THEN run ELSE runs[q]
  BY <1>1
<1>3. ASSUME NEW q \in Reconcilers
      PROVE  /\ \A tx \in runs'[q].batch : tx \in SoundCopies'
             /\ runs'[q].tx # NoTx => runs'[q].tx \in SoundCopies'
  <2>1. CASE q = p
    BY <1>2, <2>1, SoundCopiesGrow
  <2>2. CASE q # p
    BY <1>2, <2>2, SoundCopiesGrow DEF Sound, RunsSound
  <2> QED BY <2>1, <2>2
<1> QED BY <1>1, <1>3 DEF RunTypeOK, RunsSound

\* A step of a run that leaves the store alone.
LEMMA QuietRunSound ==
  ASSUME Sound, NEW p \in Reconcilers, NEW run \in Run,
         runs' = [runs EXCEPT ![p] = run],
         run.batch \subseteq SoundCopies,
         run.tx # NoTx => run.tx \in SoundCopies,
         faults' \in Nat,
         UNCHANGED <<unchangedByReconcile, txs, reqs, callbackVars>>
  PROVE  Sound'
<1>1. Grows
  BY DEF Grows, unchangedByReconcile, Stored
<1>2. RunTypeOK' /\ RunsSound'
  BY <1>1, OneRunSound
<1>3. StoreTypeOK'
  BY DEF Sound, TypeOK, StoreTypeOK, unchangedByReconcile
<1> QED BY <1>1, <1>2, <1>3, RunFrame, StoreKept DEF Sound, TypeOK

\* What a run holds before its step.
LEMMA RunHolds ==
  ASSUME Sound, NEW p \in Reconcilers
  PROVE  /\ runs[p] \in Run /\ runs[p].batch \subseteq Tx
         /\ runs[p].batch \subseteq SoundCopies
         /\ runs[p].tx # NoTx => runs[p].tx \in SoundCopies
         /\ faults \in Nat
BY DEF Sound, TypeOK, StoreTypeOK, RunTypeOK, Run, RunsSound

LEMMA StartRunSound ==
  ASSUME Sound, NEW p \in Reconcilers, StartRun(p), UNCHANGED <<reqs, callbackVars>>
  PROVE  Sound'
<1> DEFINE run == [runs[p] EXCEPT !.batch = PendingTxs]
<1>1. PendingTxs \subseteq SoundCopies /\ PendingTxs \subseteq Tx
  BY DEF PendingTxs, Sound, StoreSound, SoundCopies
<1>2. run \in Run /\ run.batch = PendingTxs /\ run.tx = runs[p].tx
  BY <1>1, RunHolds DEF Run
<1>3. runs' = [runs EXCEPT ![p] = run]
  BY DEF StartRun
<1> HIDE DEF run
<1> QED BY <1>1, <1>2, <1>3, RunHolds, QuietRunSound DEF StartRun

LEMMA SkipTxSound ==
  ASSUME Sound, NEW p \in Reconcilers, SkipTx(p), UNCHANGED <<reqs, callbackVars>>
  PROVE  Sound'
<1>1. PICK tx \in runs[p].batch : runs' = [runs EXCEPT ![p].batch = @ \ {tx}]
  BY DEF SkipTx
<1> DEFINE run == [runs[p] EXCEPT !.batch = @ \ {tx}]
<1>2. run \in Run /\ run.batch \subseteq runs[p].batch /\ run.tx = runs[p].tx
  BY RunHolds DEF Run
<1>3. runs' = [runs EXCEPT ![p] = run]
  BY <1>1
<1> HIDE DEF run
<1> QED BY <1>2, <1>3, RunHolds, QuietRunSound DEF SkipTx

\* A final status other than a payment closes a copy; a payment makes it COMPLETED,
\* and the provider announced that payment.
LEMMA CorrectedSound ==
  ASSUME Sound, NEW tx \in SoundCopies, tx.pid # NoCharge
  PROVE  Corrected(tx, charges[tx.pid].status) \in SoundCopies
<1> DEFINE s == charges[tx.pid].status
           new == Corrected(tx, s)
<1>1. /\ tx \in Tx /\ Stored(tx.id) /\ tx.pid \in ChargeIds
      /\ charges[tx.pid] # NoCharge /\ charges[tx.pid].ref = tx.id
  BY DEF SoundCopies, Tx
<1>2. [charge |-> tx.pid, status |-> s] \in sent
  BY <1>1 DEF Sound, ChargesSound
<1>3. CASE s \in {"RECEIVED", "CONFIRMED"}
  <2>1. tx.id \in FundedTxs
    BY <1>1, <1>2, <1>3 DEF FundedTxs, Funded, PaidCharge, Approved, Tx
  <2>2. new = [tx EXCEPT !.status = "COMPLETED"]
    BY <1>3 DEF Corrected, MarkCompleted
  <2> HIDE DEF new
  <2> QED BY <1>1, <2>1, <2>2 DEF SoundCopies, Tx, TxStatus, new
<1>4. CASE s \notin {"RECEIVED", "CONFIRMED"}
  <2>1. \E x \in {"CANCELLED", "FAILED"} : new = [tx EXCEPT !.status = x]
    BY <1>4 DEF Corrected, MarkFailed
  <2> HIDE DEF new
  <2> QED BY <1>1, <2>1 DEF SoundCopies, Tx, TxStatus, new
<1> QED BY <1>3, <1>4

LEMMA FetchPaymentSound ==
  ASSUME Sound, NEW p \in Reconcilers, FetchPayment(p), UNCHANGED <<reqs, callbackVars>>
  PROVE  Sound'
<1>1. PICK tx \in runs[p].batch :
        /\ tx.pid # NoCharge
        /\ runs' = [runs EXCEPT ![p].batch = @ \ {tx},
                      ![p].tx = Corrected(tx, charges[tx.pid].status)]
  BY DEF FetchPayment
<1> DEFINE new == Corrected(tx, charges[tx.pid].status)
           run == [runs[p] EXCEPT !.batch = @ \ {tx}, !.tx = new]
<1>2. new \in SoundCopies /\ new \in Tx
  <2>1. new \in SoundCopies
    BY <1>1, RunHolds, CorrectedSound
  <2> HIDE DEF new
  <2> QED BY <2>1 DEF SoundCopies
<1>3. runs' = [runs EXCEPT ![p] = run]
  BY <1>1
<1> HIDE DEF new
<1>4. run \in Run /\ run.batch \subseteq runs[p].batch /\ run.tx = new
  BY <1>2, RunHolds DEF Run
<1> HIDE DEF run
<1> QED BY <1>2, <1>3, <1>4, RunHolds, QuietRunSound DEF FetchPayment

LEMMA StoreCorrectedSound ==
  ASSUME Sound, NEW p \in Reconcilers, StoreCorrected(p), UNCHANGED <<reqs, callbackVars>>
  PROVE  Sound'
<1> DEFINE run == [runs[p] EXCEPT !.tx = NoTx]
<1>1. runs[p].tx \in SoundCopies
  BY RunHolds DEF StoreCorrected
<1>2. Grows /\ StoreSound' /\ txs' \in [Requests -> Tx \cup {NoTx}]
  BY <1>1, StoreUpdated DEF StoreCorrected, unchangedByReconcile
<1>3. run \in Run /\ run.batch = runs[p].batch /\ run.tx = NoTx
  BY RunHolds DEF Run
<1>4. runs' = [runs EXCEPT ![p] = run]
  BY DEF StoreCorrected
<1> HIDE DEF run
<1>5. RunTypeOK' /\ RunsSound'
  BY <1>2, <1>3, <1>4, RunHolds, OneRunSound
<1>6. StoreTypeOK'
  BY <1>2 DEF Sound, TypeOK, StoreTypeOK, StoreCorrected, unchangedByReconcile
<1> QED BY <1>2, <1>5, <1>6, RunFrame DEF Sound, TypeOK, StoreCorrected

LEMMA FailTxSound ==
  ASSUME Sound, NEW p \in Reconcilers, FailTx(p), UNCHANGED <<reqs, callbackVars>>
  PROVE  Sound'
<1>1. faults' \in Nat
  BY RunHolds DEF FailTx, Fault
<1>2. CASE runs' = [runs EXCEPT ![p].tx = NoTx]
  <2> DEFINE run == [runs[p] EXCEPT !.tx = NoTx]
  <2>1. run \in Run /\ run.batch = runs[p].batch /\ run.tx = NoTx
    BY RunHolds DEF Run
  <2>2. runs' = [runs EXCEPT ![p] = run]
    BY <1>2
  <2> HIDE DEF run
  <2> QED BY <1>1, <2>1, <2>2, RunHolds, QuietRunSound DEF FailTx
<1>3. CASE \E tx \in runs[p].batch : runs' = [runs EXCEPT ![p].batch = @ \ {tx}]
  <2>1. PICK tx \in runs[p].batch : runs' = [runs EXCEPT ![p].batch = @ \ {tx}]
    BY <1>3
  <2> DEFINE run == [runs[p] EXCEPT !.batch = @ \ {tx}]
  <2>2. run \in Run /\ run.batch \subseteq runs[p].batch /\ run.tx = runs[p].tx
    BY RunHolds DEF Run
  <2>3. runs' = [runs EXCEPT ![p] = run]
    BY <2>1
  <2> HIDE DEF run
  <2> QED BY <1>1, <2>2, <2>3, RunHolds, QuietRunSound DEF FailTx
<1> QED BY <1>2, <1>3 DEF FailTx

LEMMA CrashRunSound ==
  ASSUME Sound, NEW p \in Reconcilers, CrashRun(p), UNCHANGED <<reqs, callbackVars>>
  PROVE  Sound'
<1>1. NoRun \in Run /\ NoRun.batch = {} /\ NoRun.tx = NoTx
  BY DEF NoRun, Run
<1>2. faults' \in Nat
  BY RunHolds DEF CrashRun, Fault
<1> QED BY <1>1, <1>2, QuietRunSound DEF CrashRun

LEMMA RunStepSound ==
  ASSUME Sound, NEW p \in Reconcilers, RunStep(p), UNCHANGED <<reqs, callbackVars>>
  PROVE  Sound'
BY StartRunSound, SkipTxSound, FetchPaymentSound, StoreCorrectedSound, FailTxSound, CrashRunSound
   DEF RunStep

-----------------------------------------------------------------------------
(* Environment.                                                            *)

LEMMA MoveChargeSound ==
  ASSUME Sound, NEW c \in ChargeIds, MoveCharge(c), UNCHANGED <<reqs, callbackVars, runs>>
  PROVE  Sound'
<1>1. PICK s \in NextStatuses(charges[c].status) \cap Outcomes : PutCharge(c, charges[c].ref, s)
  BY DEF MoveCharge
<1>2. s \in ChargeStatus
  BY StoreAssumption
<1>3. charges[c] # NoCharge /\ charges[c].ref \in Requests /\ Stored(charges[c].ref)
  BY DEF MoveCharge, Sound, ChargesSound, TypeOK, StoreTypeOK, Charge
<1>4. /\ Grows /\ ChargesSound'
      /\ charges' \in [ChargeIds -> Charge \cup {NoCharge}] /\ sent' \subseteq Events
      /\ \A d \in ChargeIds : d # c => charges'[d] = charges[d]
  BY <1>1, <1>2, <1>3, ChargePut DEF MoveCharge
<1>5. RequestsSound'
  BY <1>3, <1>4, RequestsKept
<1>6. TypeOK'
  BY <1>4, RequestFrame DEF Sound, TypeOK, StoreTypeOK, ReqTypeOK, MoveCharge
<1> QED
  BY <1>4, <1>5, <1>6, RequestFrame, StoreKept, WorkflowsKept, EffectsKept DEF Sound, MoveCharge

LEMMA CancelInstallmentSound ==
  ASSUME Sound, NEW i \in Installments, CancelInstallment(i),
         UNCHANGED <<reqs, callbackVars, runs>>
  PROVE  Sound'
<1>1. Grows
  BY DEF Grows, CancelInstallment, Stored
<1>2. installments' \in [Installments -> [status : InstallmentStatus, tx : Requests \cup {NoTx}]]
  BY DEF Sound, TypeOK, StoreTypeOK, CancelInstallment, InstallmentStatus
<1>3. TypeOK'
  BY <1>1, <1>2, RequestFrame DEF Sound, TypeOK, StoreTypeOK, ReqTypeOK, CancelInstallment
<1>4. EffectsAreFunded'
  <2>1. \A t \in Requests : Funded(t) => Funded(t)'
    BY <1>1, FundedGrows DEF FundedTxs
  <2>2. \A j \in Installments : installments'[j].status = "PAID" => installments'[j] = installments[j]
    BY DEF Sound, TypeOK, StoreTypeOK, CancelInstallment
  <2> QED BY <2>1, <2>2 DEF Sound, EffectsAreFunded, TypeOK, StoreTypeOK, CancelInstallment
<1> QED
  BY <1>1, <1>3, <1>4, RequestFrame, RequestsKept, StoreKept, ChargesKept, WorkflowsKept
     DEF Sound, CancelInstallment

-----------------------------------------------------------------------------
(* The invariant of the composed system.                                   *)

LEMMA InitSound ==
  ASSUME Init
  PROVE  Sound
<1> USE DEF Init, StoreInit, ReqInit, CallbackInit, RunInit
<1>1. StoreTypeOK
  <2>1. NoWorkflow \in Workflow
    BY DEF NoWorkflow, Workflow, WorkflowState
  <2> QED BY <2>1 DEF StoreTypeOK, InstallmentStatus
<1>2. ReqTypeOK /\ RunTypeOK
  BY StoreAssumption DEF ReqTypeOK, ReqPc, RunTypeOK, NoRun, Run
<1>3. CallbackTypeOK
  BY DEF CallbackTypeOK, Idle, Delivery, DeliveryPc, Confirmation
<1>4. StoreSound /\ ChargesSound /\ RequestsSound
  BY DEF StoreSound, Stored, ChargesSound, RequestsSound, Holding, ChargeIds
<1>5. DeliveriesSound /\ EventHasOneHandler
  BY DEF DeliveriesSound, EventHasOneHandler, Idle
<1>6. WorkflowsSound /\ RunsSound
  BY DEF WorkflowsSound, NoWorkflow, RunsSound, NoRun
<1>7. EffectsAreFunded
  BY DEF EffectsAreFunded
<1> QED BY <1>1, <1>2, <1>3, <1>4, <1>5, <1>6, <1>7 DEF Sound, TypeOK

LEMMA StutterSound ==
  ASSUME Sound, UNCHANGED vars
  PROVE  Sound'
<1> USE DEF vars, storeVars, callbackVars
<1>1. Grows
  BY DEF Grows, Stored
<1>2. TypeOK'
  BY DEF Sound, TypeOK, StoreTypeOK, ReqTypeOK, CallbackTypeOK, RunTypeOK
<1> QED
  BY <1>1, <1>2, StoreKept, ChargesKept, RequestsKept, DeliveriesKept, WorkflowsKept, RunsKept,
     EffectsKept DEF Sound

LEMMA NextSound ==
  ASSUME Sound, [Next]_vars
  PROVE  Sound'
<1>1. CASE Requesting
  BY <1>1, RequestStepSound DEF Requesting
<1>2. CASE Delivering
  BY <1>2, CallbackStepSound, RunConfirmationSound DEF Delivering
<1>3. CASE Expiring
  BY <1>3, ExpirationStepSound DEF Expiring
<1>4. CASE Reconciling
  BY <1>4, RunStepSound DEF Reconciling
<1>5. CASE Environment
  BY <1>5, MoveChargeSound, CancelInstallmentSound DEF Environment
<1>6. CASE UNCHANGED vars
  BY <1>6, StutterSound
<1> QED BY <1>1, <1>2, <1>3, <1>4, <1>5, <1>6 DEF Next

\* Every copy any handler holds is sound, always.
THEOREM SoundIsInvariant == Spec => []Sound
<1>1. Init => Sound
  BY InitSound
<1>2. Sound /\ [Next]_vars => Sound'
  BY NextSound
<1> QED BY <1>1, <1>2, PTL DEF Spec

\* The collections, the provider and the handlers hold what their types say: no status
\* outside the domain's enumeration is ever stored.
THEOREM TypesAreKept == Spec => []TypeOK
<1>1. Sound => TypeOK
  BY DEF Sound
<1> QED BY <1>1, SoundIsInvariant, PTL

\* However late a copy is written back, a COMPLETED transaction is one for which the
\* provider collected money.
THEOREM CompletionIsFunded == Spec => []CompletedIsFunded
<1>1. Sound => CompletedIsFunded
  BY DEF Sound, StoreSound, SoundCopies, FundedTxs, CompletedIsFunded
<1> QED BY <1>1, SoundIsInvariant, PTL

\* Installments marked PAID, confirmations in the ledger and notifications only name
\* transactions for which the provider collected money.
THEOREM EffectsStayFunded == Spec => []EffectsAreFunded
<1>1. Sound => EffectsAreFunded
  BY DEF Sound
<1> QED BY <1>1, SoundIsInvariant, PTL

\* No charge exists whose transaction was never saved, even when its creator crashed.
THEOREM ChargesStayRecorded == Spec => []ChargesAreRecorded
<1>1. Sound => ChargesAreRecorded
  BY DEF Sound, ChargesSound, ChargesAreRecorded
<1> QED BY <1>1, SoundIsInvariant, PTL

\* Two deliveries of one event are never both past SaveUnique.
THEOREM EventsAreHandledOnce == Spec => []EventHasOneHandler
<1>1. Sound => EventHasOneHandler
  BY DEF Sound
<1> QED BY <1>1, SoundIsInvariant, PTL

-----------------------------------------------------------------------------
storeKept == <<txs, charges, sent>>

\* The three ways in which a step changes transactions or charges.
Inserts(r) ==
  /\ reqs[r].pc = "save"
  /\ KeyOf[r] = NoKey \/ FindByIdempotencyKey(KeyOf[r]) = {}
  /\ txs' = [txs EXCEPT ![r] = NewTx(r)]
  /\ UNCHANGED <<charges, sent>>
Rewrites(tx) == tx \in SoundCopies /\ UpdateTx(tx) /\ UNCHANGED <<charges, sent>>
Reports(c, t, s) ==
  /\ Stored(t) /\ (charges[c] = NoCharge \/ charges[c].ref = t)
  /\ PutCharge(c, t, s) /\ UNCHANGED txs

\* Who holds the copy that is written.
Writer(tx) ==
  \/ \E r \in Requests : reqs[r].pc \in {"fail", "update"} /\ tx = reqs[r].tx
  \/ \E w \in Workers : deliveries[w].pc = "update" /\ tx = deliveries[w].tx
  \/ \E t \in Requests : workflows[t].state = "LOADED" /\ tx = workflows[t].tx
  \/ \E p \in Reconcilers : runs[p].tx # NoTx /\ tx = runs[p].tx

StoreStep ==
  \/ UNCHANGED storeKept
  \/ \E r \in Requests : Inserts(r)
  \/ \E tx \in Tx : Rewrites(tx) /\ Writer(tx)
  \/ \E c \in ChargeIds, t \in Requests, s \in ChargeStatus : Reports(c, t, s)

LEMMA RequestStoreStep ==
  ASSUME Sound, NEW r \in Requests, RequestStep(r)
  PROVE  StoreStep
<1> USE DEF storeKept
<1>1. CASE CheckKey(r) \/ ValidateInstallments(r) \/ RefuseCharge(r)
  BY <1>1 DEF StoreStep, CheckKey, ValidateInstallments, RefuseCharge, storeVars
<1>2. CASE SaveTx(r)
  BY <1>2 DEF StoreStep, SaveTx, Inserts
<1>3. CASE CommitLedger(r) \/ MarkBatchPaid(r) \/ StartExpiration(r) \/ AbortRequest(r)
  BY <1>3 DEF StoreStep, CommitLedger, MarkBatchPaid, StartExpiration, AbortRequest
<1>4. CASE CreateCharge(r) \/ LoseChargeAnswer(r)
  <2> DEFINE c == <<r, reqs[r].attempts + 1>>
  <2>1. PICK s \in InitialStatuses(r) : PutCharge(c, reqs[r].tx.id, s)
    BY <1>4 DEF CreateCharge, LoseChargeAnswer
  <2>2. reqs[r].pc = "charge" /\ reqs[r].attempts < MaxAttempts /\ UNCHANGED txs
    BY <1>4 DEF CreateCharge, LoseChargeAnswer
  <2>3. c \in ChargeIds /\ charges[c] = NoCharge
    BY <2>2, ChargeNames
  <2>4. reqs[r].tx.id \in Requests /\ Stored(reqs[r].tx.id)
    BY <2>2, HeldCopy DEF Holding
  <2>5. s \in ChargeStatus
    BY <2>1, InitialStatusesTyped
  <2> HIDE DEF c
  <2>6. Reports(c, reqs[r].tx.id, s)
    BY <2>1, <2>2, <2>3, <2>4 DEF Reports
  <2> QED BY <2>3, <2>4, <2>5, <2>6 DEF StoreStep
<1>5. CASE StoreFailure(r) \/ StoreCharge(r)
  <2>1. reqs[r].pc \in {"fail", "update"}
    BY <1>5 DEF StoreFailure, StoreCharge
  <2>2. reqs[r].tx \in SoundCopies /\ reqs[r].tx \in Tx
    BY <2>1, HeldCopy DEF Holding
  <2> QED BY <1>5, <2>1, <2>2 DEF StoreStep, StoreFailure, StoreCharge, Rewrites, Writer
<1> QED BY <1>1, <1>2, <1>3, <1>4, <1>5 DEF RequestStep

LEMMA CallbackStoreStep ==
  ASSUME Sound, NEW w \in Workers, CallbackStep(w)
  PROVE  StoreStep
<1> USE DEF storeKept
<1>1. CASE Deliver(w) \/ RecordEvent(w) \/ LoadTx(w) \/ CheckAllocation(w) \/ EndAllocation(w)
  BY <1>1 DEF StoreStep, Deliver, RecordEvent, LoadTx, CheckAllocation, EndAllocation, storeVars
<1>2. CASE MarkInstallmentsPaid(w) \/ InsertAllocation(w) \/ FailAllocation(w)
           \/ ConfirmLedger(w) \/ NotifyParticipant(w)
  BY <1>2 DEF StoreStep, MarkInstallmentsPaid, InsertAllocation, FailAllocation, ConfirmLedger,
              NotifyParticipant
<1>3. CASE SignalExpiration(w) \/ StartConfirmation(w) \/ AbortDelivery(w)
  BY <1>3 DEF StoreStep, SignalExpiration, StartConfirmation, AbortDelivery
<1>4. CASE StoreOutcome(w)
  <2>1. deliveries[w].pc = "update" /\ deliveries[w].tx \in SoundCopies
    BY <1>4 DEF StoreOutcome, Sound, DeliveriesSound
  <2>2. deliveries[w].tx \in Tx
    BY <2>1 DEF SoundCopies
  <2> QED BY <1>4, <2>1, <2>2 DEF StoreStep, StoreOutcome, Rewrites, Writer
<1> QED BY <1>1, <1>2, <1>3, <1>4 DEF CallbackStep

LEMMA ExpirationStoreStep ==
  ASSUME Sound, NEW t \in Requests, ExpirationStep(t)
  PROVE  StoreStep
<1> USE DEF storeKept
<1>1. CASE TakeSignal(t) \/ FireTimer(t) \/ LoadExpiring(t)
  BY <1>1 DEF StoreStep, TakeSignal, FireTimer, LoadExpiring, unchangedByExpiration
<1>2. CASE StoreExpired(t) \/ FailAttempt(t)
  <2>1. workflows[t].state = "LOADED" => workflows[t].tx \in SoundCopies /\ workflows[t].tx \in Tx
    BY DEF Sound, WorkflowsSound, SoundCopies
  <2> QED
    BY <1>2, <2>1 DEF StoreStep, StoreExpired, FailAttempt, Rewrites, Writer, unchangedByExpiration
<1> QED BY <1>1, <1>2 DEF ExpirationStep

LEMMA RunStoreStep ==
  ASSUME Sound, NEW p \in Reconcilers, RunStep(p)
  PROVE  StoreStep
<1> USE DEF storeKept
<1>1. CASE StartRun(p) \/ SkipTx(p) \/ FetchPayment(p) \/ FailTx(p) \/ CrashRun(p)
  BY <1>1 DEF StoreStep, StartRun, SkipTx, FetchPayment, FailTx, CrashRun, unchangedByReconcile
<1>2. CASE StoreCorrected(p)
  <2>1. runs[p].tx # NoTx /\ runs[p].tx \in SoundCopies
    BY <1>2 DEF StoreCorrected, Sound, RunsSound
  <2>2. runs[p].tx \in Tx
    BY <2>1 DEF SoundCopies
  <2> QED
    BY <1>2, <2>1, <2>2 DEF StoreStep, StoreCorrected, Rewrites, Writer, unchangedByReconcile
<1> QED BY <1>1, <1>2 DEF RunStep

LEMMA NextStoreStep ==
  ASSUME Sound, [Next]_vars
  PROVE  StoreStep
<1>1. CASE Requesting
  BY <1>1, RequestStoreStep DEF Requesting
<1>2. CASE Delivering
  <2>1. CASE \E k \in Confirmations : RunConfirmation(k)
    BY <2>1 DEF RunConfirmation, storeVars, StoreStep, storeKept
  <2> QED BY <1>2, <2>1, CallbackStoreStep DEF Delivering
<1>3. CASE Expiring
  BY <1>3, ExpirationStoreStep DEF Expiring
<1>4. CASE Reconciling
  BY <1>4, RunStoreStep DEF Reconciling
<1>5. CASE Environment
  <2>1. CASE \E i \in Installments : CancelInstallment(i)
    BY <2>1 DEF CancelInstallment, StoreStep, storeKept
  <2>2. CASE \E c \in ChargeIds : MoveCharge(c)
    <3>1. PICK c \in ChargeIds : MoveCharge(c)
      BY <2>2
    <3>2. PICK s \in NextStatuses(charges[c].status) \cap Outcomes :
            PutCharge(c, charges[c].ref, s)
      BY <3>1 DEF MoveCharge
    <3>3. /\ s \in ChargeStatus /\ UNCHANGED txs
          /\ charges[c].ref \in Requests /\ Stored(charges[c].ref)
      BY <3>1, StoreAssumption DEF MoveCharge, Sound, ChargesSound, TypeOK, StoreTypeOK, Charge
    <3>4. Reports(c, charges[c].ref, s)
      BY <3>2, <3>3 DEF Reports
    <3> QED BY <3>3, <3>4 DEF StoreStep
  <2> QED BY <1>5, <2>1, <2>2 DEF Environment
<1>6. CASE UNCHANGED vars
  BY <1>6 DEF vars, storeVars, StoreStep, storeKept
<1> QED BY <1>1, <1>2, <1>3, <1>4, <1>5, <1>6 DEF Next

-----------------------------------------------------------------------------
(* One transaction per key.                                                *)

\* A copy that is written back names a stored transaction; a new one is inserted only
\* when no stored one has its key.
LEMMA KeyStep ==
  ASSUME Sound, KeyNamesOneTransaction, StoreStep
  PROVE  KeyNamesOneTransaction'
<1>1. CASE UNCHANGED txs
  BY <1>1 DEF KeyNamesOneTransaction, Stored
<1>2. CASE \E r \in Requests : Inserts(r)
  <2>1. PICK r \in Requests : Inserts(r)
    BY <1>2
  <2>2. \A t \in Requests : t # r => (Stored(t)' <=> Stored(t))
    BY <2>1 DEF Inserts, Stored, Sound, TypeOK, StoreTypeOK
  <2>3. KeyOf[r] # NoKey => \A t \in Requests : Stored(t) => KeyOf[t] # KeyOf[r]
    BY <2>1 DEF Inserts, FindByIdempotencyKey
  <2> QED BY <2>2, <2>3 DEF KeyNamesOneTransaction
<1>3. CASE \E tx \in Tx : Rewrites(tx)
  <2>1. PICK tx \in Tx : Rewrites(tx)
    BY <1>3
  <2>2. tx.id \in Requests /\ Stored(tx.id)
    BY <2>1 DEF Rewrites, SoundCopies, Tx
  <2>3. \A t \in Requests : Stored(t)' => Stored(t)
    BY <2>1, <2>2 DEF Rewrites, UpdateTx, Stored, Sound, TypeOK, StoreTypeOK
  <2> QED BY <2>3 DEF KeyNamesOneTransaction
<1> QED BY <1>1, <1>2, <1>3 DEF StoreStep, storeKept, Reports

\* However the requests with one idempotency key overlap, they never leave two
\* transactions: the unique index of the insert decides, and nothing else adds one.
THEOREM OneTransactionPerKey == Spec => []KeyNamesOneTransaction
<1>1. Init => KeyNamesOneTransaction
  BY DEF Init, StoreInit, KeyNamesOneTransaction, Stored
<1>2. Sound /\ KeyNamesOneTransaction /\ [Next]_vars => KeyNamesOneTransaction'
  BY NextStoreStep, KeyStep
<1> QED BY <1>1, <1>2, SoundIsInvariant, PTL DEF Spec

\* In every instance, however requests share installments and keys, what is COMPLETED,
\* what a completion caused and what was charged rests on money collected for a stored
\* transaction.
THEOREM MoneyIsAccounted == Spec => []FundingHolds
<1> QED
  BY CompletionIsFunded, EffectsStayFunded, ChargesStayRecorded, PTL DEF FundingHolds

-----------------------------------------------------------------------------
(* Installments.                                                           *)

LEMMA InstallmentsOfRequest ==
  ASSUME NEW r \in Requests, RequestStep(r)
  PROVE  UNCHANGED installments
         \/ \E S \in SUBSET Installments, t \in Requests \cup {reqs[r].tx.id} : MarkPaidBatch(S, t)
<1>1. CASE MarkBatchPaid(r)
  BY <1>1, StoreAssumption DEF MarkBatchPaid
<1>2. CASE ~MarkBatchPaid(r)
  BY <1>2 DEF RequestStep, CheckKey, ValidateInstallments, SaveTx, CommitLedger, CreateCharge,
              LoseChargeAnswer, RefuseCharge, StoreFailure, StoreCharge, StartExpiration,
              AbortRequest, storeVars
<1> QED BY <1>1, <1>2

LEMMA InstallmentsOfDelivery ==
  ASSUME Sound, NEW w \in Workers, CallbackStep(w)
  PROVE  UNCHANGED installments
         \/ \E S \in SUBSET Installments : MarkPaidBatch(S, deliveries[w].tx.id)
<1>1. CASE MarkInstallmentsPaid(w)
  <2>1. deliveries[w].tx.id \in Requests
    BY <1>1 DEF MarkInstallmentsPaid, Sound, DeliveriesSound, Tx
  <2>2. ItemsOf[deliveries[w].tx.id] \subseteq Installments
    BY <2>1, StoreAssumption
  <2> QED BY <1>1, <2>2 DEF MarkInstallmentsPaid
<1>2. CASE ~MarkInstallmentsPaid(w)
  BY <1>2 DEF CallbackStep, Deliver, RecordEvent, LoadTx, StoreOutcome, CheckAllocation,
              InsertAllocation, FailAllocation, EndAllocation, ConfirmLedger, NotifyParticipant,
              SignalExpiration, StartConfirmation, AbortDelivery, storeVars
<1> QED BY <1>1, <1>2

\* A step marks installments paid, cancels one that is not, or leaves them alone.
LEMMA PaidStep ==
  ASSUME Sound, [Next]_vars, NEW i \in Installments, installments[i].status = "PAID"
  PROVE  installments'[i].status = "PAID"
<1>1. CASE UNCHANGED installments
  BY <1>1
<1>2. CASE \E S \in SUBSET Installments : \E t : MarkPaidBatch(S, t)
  BY <1>2 DEF MarkPaidBatch
<1>3. CASE \E j \in Installments : CancelInstallment(j)
  BY <1>3 DEF CancelInstallment, Sound, TypeOK, StoreTypeOK
<1>4. CASE Requesting
  BY <1>1, <1>2, <1>4, InstallmentsOfRequest DEF Requesting
<1>5. CASE Delivering
  BY <1>1, <1>2, <1>5, InstallmentsOfDelivery DEF Delivering, RunConfirmation, storeVars
<1>6. CASE Expiring
  BY <1>1, <1>6 DEF Expiring, ExpirationStep, TakeSignal, FireTimer, LoadExpiring, StoreExpired,
                    FailAttempt, unchangedByExpiration
<1>7. CASE Reconciling
  BY <1>1, <1>7 DEF Reconciling, RunStep, StartRun, SkipTx, FetchPayment, StoreCorrected, FailTx,
                    CrashRun, unchangedByReconcile
<1>8. CASE Environment
  BY <1>1, <1>3, <1>8 DEF Environment, MoveCharge
<1>9. CASE UNCHANGED vars
  BY <1>1, <1>9 DEF vars, storeVars
<1> QED BY <1>4, <1>5, <1>6, <1>7, <1>8, <1>9 DEF Next

\* An installment that was paid stays paid, whatever confirmations and cancellations
\* race: the filter of the cancellation is part of its update.
THEOREM PaidStaysPaid == Spec => PaidIsFinal
<1>1. Sound /\ [Next]_vars =>
        [\A i \in Installments : installments[i].status = "PAID" => installments'[i].status = "PAID"]_vars
  BY PaidStep
<1> QED BY <1>1, SoundIsInvariant, PTL DEF Spec, PaidIsFinal

-----------------------------------------------------------------------------
(* Allocation, by handlers that overlap.                                   *)

\* A delivery that counts nothing and inserts nothing.
LEMMA QuietAllocation ==
  ASSUME GroupsAreCovered, UNCHANGED allocations, allocations \in [Installments -> Nat],
         \A w \in Workers : deliveries'[w].picked \in {deliveries[w].picked, NoItem}
  PROVE  GroupsAreCovered'
<1> SUFFICES ASSUME NEW i \in Installments
             PROVE  allocations'[i] + Cardinality(PickersOf(i)') <= Cardinality(Workers)
  BY DEF GroupsAreCovered
<1>1. i # NoItem
  BY StoreAssumption
<1>2. PickersOf(i)' \subseteq PickersOf(i)
  BY <1>1 DEF PickersOf
<1>3. IsFiniteSet(PickersOf(i))
  BY WorkersAssumption, FS_Subset DEF PickersOf
<1>4. Cardinality(PickersOf(i)') <= Cardinality(PickersOf(i))
  BY <1>2, <1>3, FS_Subset
<1>5. /\ Cardinality(PickersOf(i)') \in Nat /\ Cardinality(PickersOf(i)) \in Nat
      /\ Cardinality(Workers) \in Nat
  BY <1>2, <1>3, FS_Subset, FS_CardinalityType, WorkersAssumption
<1>6. allocations[i] + Cardinality(PickersOf(i)) <= Cardinality(Workers)
  BY DEF GroupsAreCovered
<1>7. allocations'[i] = allocations[i] /\ allocations[i] \in Nat
  OBVIOUS
<1> QED BY <1>4, <1>5, <1>6, <1>7

\* Whoever counts no group is one more of those about to insert; there are handlers
\* enough for all of them.
LEMMA CheckCovers ==
  ASSUME Sound, GroupsAreCovered, NEW w \in Workers, CheckAllocation(w)
  PROVE  GroupsAreCovered'
<1> DEFINE d == deliveries[w]
<1>1. deliveries \in [Workers -> Delivery] /\ allocations \in [Installments -> Nat]
  BY DEF Sound, TypeOK, StoreTypeOK, CallbackTypeOK
<1>2. PICK j \in d.todo :
        deliveries' = [deliveries EXCEPT ![w].todo = d.todo \ {j},
                         ![w].picked = IF allocations[j] = 0 THEN j ELSE NoItem]
  BY DEF CheckAllocation
<1>3. UNCHANGED allocations /\ d.picked = NoItem
  BY DEF CheckAllocation, storeVars
<1>4. /\ deliveries'[w].picked = IF allocations[j] = 0 THEN j ELSE NoItem
      /\ \A v \in Workers \ {w} : deliveries'[v] = deliveries[v]
  BY <1>1, <1>2 DEF Delivery
<1>5. CASE allocations[j] # 0
  <2>1. \A v \in Workers : deliveries'[v].picked \in {deliveries[v].picked, NoItem}
    BY <1>4, <1>5
  <2> QED BY <1>1, <1>3, <2>1, QuietAllocation
<1>6. CASE allocations[j] = 0
  <2> SUFFICES ASSUME NEW i \in Installments
               PROVE  allocations'[i] + Cardinality(PickersOf(i)') <= Cardinality(Workers)
    BY DEF GroupsAreCovered
  <2>1. allocations'[i] = allocations[i] /\ allocations[i] \in Nat
    BY <1>1, <1>3
  <2>2. CASE i = j
    <3>1. PickersOf(i)' \subseteq Workers
      BY DEF PickersOf
    <3>2. Cardinality(PickersOf(i)') <= Cardinality(Workers)
      BY <3>1, WorkersAssumption, FS_Subset
    <3>3. Cardinality(PickersOf(i)') \in Nat
      BY <3>1, WorkersAssumption, FS_Subset, FS_CardinalityType
    <3> QED BY <1>6, <2>1, <2>2, <3>2, <3>3
  <2>3. CASE i # j
    <3>1. i # NoItem
      BY StoreAssumption
    <3>2. PickersOf(i)' = PickersOf(i)
      BY <1>3, <1>4, <1>6, <2>3, <3>1 DEF PickersOf
    <3> QED BY <2>1, <3>2 DEF GroupsAreCovered
  <2> QED BY <2>2, <2>3
<1> QED BY <1>5, <1>6

\* An insert makes a group of one that was about to be inserted.
LEMMA InsertCovers ==
  ASSUME Sound, GroupsAreCovered, NEW w \in Workers, InsertAllocation(w)
  PROVE  GroupsAreCovered'
<1> DEFINE j == deliveries[w].picked
<1>1. deliveries \in [Workers -> Delivery] /\ allocations \in [Installments -> Nat]
  BY DEF Sound, TypeOK, StoreTypeOK, CallbackTypeOK
<1>2. j \in Installments /\ j # NoItem
  BY <1>1 DEF InsertAllocation, Delivery
<1>3. allocations' = [allocations EXCEPT ![j] = allocations[j] + 1]
  BY DEF InsertAllocation
<1>4. deliveries' = [deliveries EXCEPT ![w].picked = NoItem]
  BY DEF InsertAllocation
<1>5. deliveries'[w].picked = NoItem /\ \A v \in Workers \ {w} : deliveries'[v] = deliveries[v]
  BY <1>1, <1>4 DEF Delivery
<1> SUFFICES ASSUME NEW i \in Installments
             PROVE  allocations'[i] + Cardinality(PickersOf(i)') <= Cardinality(Workers)
  BY DEF GroupsAreCovered
<1>6. allocations[i] \in Nat /\ allocations'[i] = IF i = j THEN allocations[i] + 1 ELSE allocations[i]
  BY <1>1, <1>2, <1>3
<1>7. allocations[i] + Cardinality(PickersOf(i)) <= Cardinality(Workers)
  BY DEF GroupsAreCovered
<1>8. IsFiniteSet(PickersOf(i)) /\ Cardinality(PickersOf(i)) \in Nat /\ Cardinality(Workers) \in Nat
  BY WorkersAssumption, FS_Subset, FS_CardinalityType DEF PickersOf
<1>9. i # NoItem
  BY StoreAssumption
<1>10. CASE i = j
  <2>1. w \in PickersOf(i) /\ PickersOf(i)' = PickersOf(i) \ {w}
    BY <1>5, <1>9, <1>10 DEF PickersOf
  <2>2. Cardinality(PickersOf(i)') = Cardinality(PickersOf(i)) - 1
    BY <1>8, <2>1, FS_RemoveElement
  <2> QED BY <1>6, <1>7, <1>8, <1>10, <2>2
<1>11. CASE i # j
  <2>1. PickersOf(i)' = PickersOf(i)
    BY <1>5, <1>9, <1>11 DEF PickersOf
  <2> QED BY <1>6, <1>7, <1>11, <2>1
<1> QED BY <1>10, <1>11

LEMMA CallbackAllocation ==
  ASSUME Sound, GroupsAreCovered, NEW w \in Workers, CallbackStep(w)
  PROVE  GroupsAreCovered'
<1> DEFINE d == deliveries[w]
<1>1. deliveries \in [Workers -> Delivery] /\ allocations \in [Installments -> Nat]
  BY DEF Sound, TypeOK, StoreTypeOK, CallbackTypeOK
<1>2. CASE ~CheckAllocation(w) /\ ~InsertAllocation(w)
  <2>1. UNCHANGED allocations
    BY <1>2 DEF CallbackStep, Deliver, RecordEvent, LoadTx, StoreOutcome, MarkInstallmentsPaid,
                FailAllocation, EndAllocation, ConfirmLedger, NotifyParticipant,
                SignalExpiration, StartConfirmation, AbortDelivery, storeVars
  <2>2. \A v \in Workers : deliveries'[v].picked \in {deliveries[v].picked, NoItem}
    BY <1>1, <1>2 DEF CallbackStep, Deliver, RecordEvent, LoadTx, StoreOutcome,
                MarkInstallmentsPaid, FailAllocation, EndAllocation, ConfirmLedger,
                NotifyParticipant, SignalExpiration, StartConfirmation, AbortDelivery,
                Proceed, Finish, Idle, Delivery
  <2> QED BY <1>1, <2>1, <2>2, QuietAllocation
<1> QED BY <1>2, CheckCovers, InsertCovers

LEMMA AllocationStep ==
  ASSUME Sound, GroupsAreCovered, [Next]_vars
  PROVE  GroupsAreCovered'
<1>1. CASE UNCHANGED <<allocations, deliveries>>
  <2>1. allocations \in [Installments -> Nat]
    BY DEF Sound, TypeOK, StoreTypeOK
  <2> QED BY <1>1, <2>1, QuietAllocation
<1>2. CASE Requesting
  BY <1>1, <1>2 DEF Requesting, RequestStep, CheckKey, ValidateInstallments, SaveTx, CommitLedger,
       CreateCharge, LoseChargeAnswer, RefuseCharge, StoreFailure, MarkBatchPaid, StoreCharge,
       StartExpiration, AbortRequest, storeVars, callbackVars
<1>3. CASE Delivering
  BY <1>1, <1>3, CallbackAllocation DEF Delivering, RunConfirmation, storeVars
<1>4. CASE Expiring
  BY <1>1, <1>4 DEF Expiring, ExpirationStep, TakeSignal, FireTimer, LoadExpiring, StoreExpired,
       FailAttempt, unchangedByExpiration, callbackVars
<1>5. CASE Reconciling
  BY <1>1, <1>5 DEF Reconciling, RunStep, StartRun, SkipTx, FetchPayment, StoreCorrected, FailTx,
       CrashRun, unchangedByReconcile, callbackVars
<1>6. CASE Environment
  BY <1>1, <1>6 DEF Environment, MoveCharge, CancelInstallment, callbackVars
<1>7. CASE UNCHANGED vars
  BY <1>1, <1>7 DEF vars, storeVars, callbackVars
<1> QED BY <1>2, <1>3, <1>4, <1>5, <1>6, <1>7 DEF Next

\* The count before the insert bounds the groups of an installment by the handlers
\* that overlap: whatever transactions, repetitions, failures and crashes there are,
\* only a handler that counted before the first insert adds another one.
THEOREM AllocationsStayBounded == Spec => []AllocationsAreBounded
<1>1. Init => GroupsAreCovered
  <2> SUFFICES ASSUME Init, NEW i \in Installments
               PROVE  allocations[i] + Cardinality(PickersOf(i)) <= Cardinality(Workers)
    BY DEF GroupsAreCovered
  <2>1. allocations[i] = 0
    BY DEF Init, StoreInit
  <2>2. PickersOf(i) = {}
    BY StoreAssumption DEF Init, CallbackInit, Idle, PickersOf
  <2>3. Cardinality(PickersOf(i)) = 0 /\ Cardinality(Workers) \in Nat
    BY <2>2, FS_EmptySet, FS_CardinalityType, WorkersAssumption
  <2> QED BY <2>1, <2>3
<1>2. Sound /\ GroupsAreCovered /\ [Next]_vars => GroupsAreCovered'
  BY AllocationStep
<1>3. Sound /\ GroupsAreCovered => AllocationsAreBounded
  <2> SUFFICES ASSUME Sound, GroupsAreCovered, NEW i \in Installments
               PROVE  allocations[i] <= Cardinality(Workers)
    BY DEF AllocationsAreBounded
  <2>1. allocations[i] \in Nat
    BY DEF Sound, TypeOK, StoreTypeOK
  <2>2. Cardinality(PickersOf(i)) \in Nat /\ Cardinality(Workers) \in Nat
    BY WorkersAssumption, FS_Subset, FS_CardinalityType DEF PickersOf
  <2>3. allocations[i] + Cardinality(PickersOf(i)) <= Cardinality(Workers)
    BY DEF GroupsAreCovered
  <2> QED BY <2>1, <2>2, <2>3
<1> QED BY <1>1, <1>2, <1>3, SoundIsInvariant, PTL DEF Spec

=============================================================================
