----------------------- MODULE PaymentRefinementProofs -----------------------
(***************************************************************************)
(* While no two requests share an idempotency key, a transaction that is   *)
(* settled stays settled, and PaymentCore implements Settlement.           *)
(***************************************************************************)
EXTENDS PaymentCoreProofs

\* What no step takes back from a transaction its request is done with.
Keeps ==
  \A t \in Requests : Handed(t) =>
    /\ Handed(t)'
    /\ txs'[t].pid = txs[t].pid
    /\ IsTerminal(txs[t]) => IsTerminal(txs[t])'

LEMMA NewTxIsOpen ==
  ASSUME NEW r \in Requests
  PROVE  /\ NewTx(r) \in Tx /\ NewTx(r) # NoTx
         /\ NewTx(r).id = r /\ NewTx(r).pid = NoCharge /\ NewTx(r).status = "PENDING"
         /\ ~IsTerminal(NewTx(r))
<1>1. NewTx(r) \in Tx
  BY DEF NewTx, Tx, TxStatus
<1> QED BY <1>1, StoreAssumption DEF NewTx, IsTerminal

\* A document that is terminal, or knows its charge, is no longer its request's.
LEMMA KnownIsHanded ==
  ASSUME Settling, NEW t \in Requests, Stored(t),
         IsTerminal(txs[t]) \/ txs[t].pid # NoCharge
  PROVE  Handed(t)
BY NewTxIsOpen DEF Settling, RequestsOwn, Handed

\* Hence what a delivery found, and what a final copy says, lasts.
LEMMA FinalCopiesGrow ==
  ASSUME Grows, Keeps
  PROVE  FinalCopies \subseteq FinalCopies'
<1> SUFFICES ASSUME NEW tx \in FinalCopies
             PROVE  tx \in FinalCopies'
  OBVIOUS
<1>1. tx \in SoundCopies' /\ tx.id \in Requests
  BY SoundCopiesGrow DEF FinalCopies, SoundCopies, Tx
<1> QED BY <1>1 DEF FinalCopies, Keeps, IsTerminal

\* What a write to the collection may be.
LEMMA WriterOwns ==
  ASSUME Settling, NEW tx \in SoundCopies, Writer(tx)
  PROVE  \/ tx \in FinalCopies
         \/ reqs[tx.id].pc \in {"fail", "update"} /\ tx = reqs[tx.id].tx
BY DEF Writer, Settling, RequestsOwn, DeliveriesSettle, WorkflowsSettle, RunsSettle, Holding, SoundCopies, Tx

-----------------------------------------------------------------------------

\* Nobody but its request enters the drafting of a transaction, and only by inserting it.
LEMMA DraftStep ==
  ASSUME Sound, Settling, [Next]_vars, NEW t \in Requests, Handed(t)
  PROVE  reqs'[t].pc \notin Drafting
<1>1. CASE UNCHANGED reqs
  BY <1>1 DEF Handed
<1>2. CASE Requesting
  <2>1. PICK r \in Requests : RequestStep(r)
    BY <1>2 DEF Requesting
  <2>2. reqs \in [Requests -> [pc: ReqPc, tx: Tx \cup {NoTx}, attempts: 0..MaxAttempts]]
    BY DEF Sound, TypeOK, ReqTypeOK
  <2>3. CASE t # r
    BY <2>1, <2>2, <2>3 DEF Handed, RequestStep, CheckKey, ValidateInstallments, SaveTx,
         CommitLedger, CreateCharge, LoseChargeAnswer, RefuseCharge, StoreFailure, MarkBatchPaid,
         StoreCharge, StartExpiration, AbortRequest, Goto
  <2>4. CASE t = r
    <3>1. reqs[r].pc \notin Drafting \cup {"start", "validate", "save"}
      BY <2>4 DEF Handed, Settling, RequestsOwn
    <3>2. StartExpiration(r) \/ AbortRequest(r)
      BY <2>1, <3>1 DEF RequestStep, CheckKey, ValidateInstallments, SaveTx, CommitLedger,
           CreateCharge, LoseChargeAnswer, RefuseCharge, StoreFailure, MarkBatchPaid, StoreCharge,
           Drafting
    <3>3. reqs'[r].pc \in {"done", "crashed"}
      BY <2>2, <3>2 DEF StartExpiration, AbortRequest, Goto
    <3> QED BY <2>4, <3>3 DEF Drafting
  <2> QED BY <2>3, <2>4
<1> QED
  BY <1>1, <1>2 DEF Next, Delivering, Expiring, Reconciling, Environment, vars

LEMMA StepGrows ==
  ASSUME Sound, StoreStep
  PROVE  Grows
<1>1. CASE UNCHANGED storeKept
  BY <1>1 DEF storeKept, Grows, Stored
<1>2. CASE \E r \in Requests : Inserts(r)
  BY <1>2, NewTxIsOpen DEF Inserts, Grows, Stored, Sound, TypeOK, StoreTypeOK
<1>3. CASE \E tx \in Tx : Rewrites(tx)
  BY <1>3, StoreUpdated DEF Rewrites
<1>4. CASE \E c \in ChargeIds, t \in Requests, s \in ChargeStatus : Reports(c, t, s)
  BY <1>4, ChargePut DEF Reports
<1> QED BY <1>1, <1>2, <1>3, <1>4 DEF StoreStep

LEMMA StepKeeps ==
  ASSUME Sound, Settling, [Next]_vars
  PROVE  Keeps
<1> SUFFICES ASSUME NEW t \in Requests, Handed(t)
             PROVE  /\ Handed(t)'
                    /\ txs'[t].pid = txs[t].pid
                    /\ IsTerminal(txs[t]) => IsTerminal(txs[t])'
  BY DEF Keeps
<1>1. StoreStep /\ Grows /\ reqs'[t].pc \notin Drafting
  BY NextStoreStep, StepGrows, DraftStep
<1>2. Handed(t)'
  BY <1>1 DEF Handed, Grows
<1>3. CASE txs'[t] = txs[t]
  BY <1>2, <1>3 DEF IsTerminal
<1>4. CASE \E r \in Requests : Inserts(r)
  <2>1. PICK r \in Requests : Inserts(r)
    BY <1>4
  <2>2. r # t
    BY <2>1 DEF Inserts, Settling, RequestsOwn, Handed
  <2> QED BY <1>3, <2>1, <2>2 DEF Inserts, Sound, TypeOK, StoreTypeOK
<1>5. CASE \E tx \in Tx : Rewrites(tx) /\ Writer(tx)
  <2>1. PICK tx \in Tx : Rewrites(tx) /\ Writer(tx)
    BY <1>5
  <2>2. tx \in SoundCopies /\ txs' = [txs EXCEPT ![tx.id] = tx]
    BY <2>1 DEF Rewrites, UpdateTx
  <2>3. CASE tx.id # t
    BY <1>3, <2>2, <2>3 DEF Sound, TypeOK, StoreTypeOK
  <2>4. CASE tx.id = t
    <3>1. tx \in FinalCopies
      BY <2>1, <2>2, <2>4, WriterOwns DEF Handed, Drafting
    <3>2. txs'[t] = tx
      BY <2>2, <2>4 DEF Sound, TypeOK, StoreTypeOK
    <3> QED BY <1>2, <2>4, <3>1, <3>2 DEF FinalCopies, IsTerminal
  <2> QED BY <2>3, <2>4
<1> QED BY <1>1, <1>3, <1>4, <1>5 DEF StoreStep, storeKept, Reports

-----------------------------------------------------------------------------
(* Each part of Settling, when what it speaks of is left alone.            *)

\* A final copy is written, or nothing.
WritesFinal == UNCHANGED txs \/ \E tx \in FinalCopies : UpdateTx(tx)

\* A step that leaves the requests alone touches no transaction that is being drafted.
LEMMA OthersKeepDrafts ==
  ASSUME Sound, Settling, UNCHANGED reqs, WritesFinal,
         \A t \in Requests : workflows[t].state = "NONE" => workflows'[t].state = "NONE"
  PROVE  RequestsOwn'
<1>1. \A t \in Requests : ~Handed(t) => txs'[t] = txs[t]
  BY DEF WritesFinal, UpdateTx, FinalCopies, Sound, TypeOK, StoreTypeOK
<1> QED BY <1>1 DEF Settling, RequestsOwn, Handed, Stored, Drafting, NewTx

LEMMA DeliveriesSettleKept ==
  ASSUME Settling, Grows, Keeps, UNCHANGED deliveries
  PROVE  DeliveriesSettle'
<1> SUFFICES ASSUME NEW w \in Workers
             PROVE  LET d == deliveries[w] IN
               /\ d.pc = "update" => d.tx \in FinalCopies' /\ d.tx.pid = d.event.charge
               /\ d.pc \in {"markpaid", "allocate", "ledger", "notify", "signal"} =>
                    \E t \in Requests :
                      Stored(t)' /\ txs'[t].pid = d.event.charge /\ IsTerminal(txs[t])'
  BY DEF DeliveriesSettle
<1> DEFINE d == deliveries[w]
<1>1. d.pc = "update" => d.tx \in FinalCopies' /\ d.tx.pid = d.event.charge
  BY FinalCopiesGrow DEF Settling, DeliveriesSettle
<1>2. ASSUME NEW t \in Requests, Stored(t), IsTerminal(txs[t])
      PROVE  Stored(t)' /\ txs'[t].pid = txs[t].pid /\ IsTerminal(txs[t])'
  BY <1>2, KnownIsHanded DEF Keeps, Handed
<1> QED BY <1>1, <1>2 DEF Settling, DeliveriesSettle

LEMMA WorkflowsSettleKept ==
  ASSUME Settling, Grows, Keeps, UNCHANGED workflows
  PROVE  WorkflowsSettle'
<1>1. ASSUME NEW t \in Requests, Stored(t), IsTerminal(txs[t])
      PROVE  Stored(t)' /\ IsTerminal(txs[t])'
  BY <1>1, KnownIsHanded DEF Keeps, Handed
<1> QED BY <1>1, FinalCopiesGrow DEF Settling, WorkflowsSettle

LEMMA RunsSettleKept ==
  ASSUME Sound, Settling, Grows, Keeps, UNCHANGED runs
  PROVE  RunsSettle'
<1>1. ASSUME NEW p \in Reconcilers, NEW tx \in runs[p].batch, tx.pid # NoCharge
      PROVE  Handed(tx.id)' /\ tx.pid = txs'[tx.id].pid
  <2>1. tx.id \in Requests
    BY <1>1 DEF Sound, RunsSound, SoundCopies, Tx
  <2> QED BY <1>1, <2>1 DEF Settling, RunsSettle, Keeps
<1> QED BY <1>1, FinalCopiesGrow DEF Settling, RunsSettle

-----------------------------------------------------------------------------
(* Requests.                                                               *)

\* A request goes on; what the other requests own is not touched.
LEMMA OneRequestOwns ==
  ASSUME Sound, Settling, NEW r \in Requests, NEW h,
         reqs' = [reqs EXCEPT ![r] = h],
         \A t \in Requests : t # r => txs'[t] = txs[t],
         \A t \in Requests : t # r => workflows'[t] = workflows[t],
         h.pc \in {"start", "validate", "save"} => ~Stored(r)' /\ workflows'[r].state = "NONE",
         h.pc \in Drafting => txs'[r] = NewTx(r) /\ workflows'[r].state = "NONE",
         h.pc \in Holding => h.tx.id = r,
         h.pc \in {"markpaid", "update"} => h.tx.pid # NoCharge,
         h.pc = "fail" => IsTerminal(h.tx)
  PROVE  RequestsOwn'
<1>1. reqs \in [Requests -> [pc: ReqPc, tx: Tx \cup {NoTx}, attempts: 0..MaxAttempts]]
  BY DEF Sound, TypeOK, ReqTypeOK
<1>2. \A t \in Requests : reqs'[t] = IF t = r THEN h ELSE reqs[t]
  BY <1>1
<1>3. \A t \in Requests : t # r => (Stored(t)' <=> Stored(t))
  BY DEF Stored
<1> SUFFICES ASSUME NEW t \in Requests
             PROVE  /\ reqs'[t].pc \in {"start", "validate", "save"}
                         => ~Stored(t)' /\ workflows'[t].state = "NONE"
                    /\ reqs'[t].pc \in Drafting => txs'[t] = NewTx(t) /\ workflows'[t].state = "NONE"
                    /\ reqs'[t].pc \in Holding => reqs'[t].tx.id = t
                    /\ reqs'[t].pc \in {"markpaid", "update"} => reqs'[t].tx.pid # NoCharge
                    /\ reqs'[t].pc = "fail" => IsTerminal(reqs'[t].tx)
  BY DEF RequestsOwn, Drafting, Holding, NewTx, IsTerminal
<1>4. CASE t = r
  BY <1>2, <1>4
<1>5. CASE t # r
  BY <1>2, <1>3, <1>5 DEF Settling, RequestsOwn
<1> QED BY <1>4, <1>5

\* Its own transaction is the only one a request works on.
LEMMA RequestOwns ==
  ASSUME Sound, Settling, KeysAreUnique, NEW r \in Requests, RequestStep(r)
  PROVE  RequestsOwn'
<1>1. reqs[r] \in [pc: ReqPc, tx: Tx \cup {NoTx}, attempts: 0..MaxAttempts]
  BY DEF Sound, TypeOK, ReqTypeOK
<1>2. /\ reqs[r].pc \in {"start", "validate", "save"} => ~Stored(r) /\ workflows[r].state = "NONE"
      /\ reqs[r].pc \in Drafting => txs[r] = NewTx(r) /\ workflows[r].state = "NONE"
      /\ reqs[r].pc \in Holding => reqs[r].tx.id = r
      /\ reqs[r].pc \in {"markpaid", "update"} => reqs[r].tx.pid # NoCharge
      /\ reqs[r].pc = "fail" => IsTerminal(reqs[r].tx)
  BY DEF Settling, RequestsOwn
<1>3. ASSUME NEW pc \in ReqPc, Goto(r, pc),
             \A t \in Requests : t # r => txs'[t] = txs[t] /\ workflows'[t] = workflows[t],
             pc \in {"start", "validate", "save"} => ~Stored(r)' /\ workflows'[r].state = "NONE",
             pc \in Drafting => txs'[r] = NewTx(r) /\ workflows'[r].state = "NONE",
             pc \in Holding => reqs[r].pc \in Holding,
             pc \in {"markpaid", "update"} => reqs[r].pc \in {"markpaid", "update"},
             pc # "fail"
      PROVE  RequestsOwn'
  <2> DEFINE h == [reqs[r] EXCEPT !.pc = pc]
  <2>1. h.pc = pc /\ h.tx = reqs[r].tx
    BY <1>1
  <2>2. reqs' = [reqs EXCEPT ![r] = h]
    BY <1>3 DEF Goto
  <2> HIDE DEF h
  <2> QED BY <1>2, <1>3, <2>1, <2>2, OneRequestOwns
<1>4. CASE CheckKey(r)
  <2>1. /\ reqs[r].pc = "start" /\ UNCHANGED <<txs, workflows>>
    BY <1>4 DEF CheckKey, storeVars
  <2>2. CASE \E pc \in {"validate", "save"} : Goto(r, pc)
    BY <1>2, <1>3, <2>1, <2>2 DEF ReqPc, Stored, Drafting, Holding
  <2>3. CASE \E t \in Requests : reqs' = [reqs EXCEPT ![r].pc = "done", ![r].tx = txs[t]]
    <3>1. PICK t \in Requests : reqs' = [reqs EXCEPT ![r].pc = "done", ![r].tx = txs[t]]
      BY <2>3
    <3> DEFINE h == [reqs[r] EXCEPT !.pc = "done", !.tx = txs[t]]
    <3>2. h.pc = "done" /\ reqs' = [reqs EXCEPT ![r] = h]
      BY <1>1, <3>1
    <3> HIDE DEF h
    <3> QED BY <2>1, <3>2, OneRequestOwns DEF Drafting, Holding
  <2> QED BY <1>4, <2>2, <2>3 DEF CheckKey, FindByIdempotencyKey
<1>5. CASE ValidateInstallments(r)
  <2>1. \E pc \in {"save", "rejected"} : Goto(r, pc)
    BY <1>5 DEF ValidateInstallments
  <2>2. reqs[r].pc = "validate" /\ UNCHANGED <<txs, workflows>>
    BY <1>5 DEF ValidateInstallments, storeVars
  <2> QED BY <1>2, <1>3, <2>1, <2>2 DEF ReqPc, Stored, Drafting, Holding
<1>6. CASE SaveTx(r)
  <2>1. reqs[r].pc = "save" /\ ~Stored(r) /\ UNCHANGED workflows /\ workflows[r].state = "NONE"
    BY <1>2, <1>6 DEF SaveTx
  <2>2. KeyOf[r] # NoKey => FindByIdempotencyKey(KeyOf[r]) = {}
    BY <2>1 DEF FindByIdempotencyKey, KeysAreUnique
  <2>3. /\ txs' = [txs EXCEPT ![r] = NewTx(r)]
        /\ reqs' = [reqs EXCEPT ![r].pc = "commit", ![r].tx = NewTx(r)]
    BY <1>6, <2>2 DEF SaveTx
  <2>4. txs \in [Requests -> Tx \cup {NoTx}]
    BY DEF Sound, TypeOK, StoreTypeOK
  <2> DEFINE h == [reqs[r] EXCEPT !.pc = "commit", !.tx = NewTx(r)]
  <2>5. h.pc = "commit" /\ h.tx = NewTx(r) /\ reqs' = [reqs EXCEPT ![r] = h]
    BY <1>1, <2>3
  <2>6. txs'[r] = NewTx(r) /\ \A t \in Requests : t # r => txs'[t] = txs[t]
    BY <2>3, <2>4
  <2> HIDE DEF h
  <2> QED BY <2>1, <2>5, <2>6, NewTxIsOpen, OneRequestOwns
<1>7. CASE CommitLedger(r)
  BY <1>2, <1>3, <1>7 DEF CommitLedger, ReqPc, Drafting, Holding
<1>8. CASE CreateCharge(r)
  <2>1. PICK s \in InitialStatuses(r), e \in BOOLEAN :
          reqs' = [reqs EXCEPT ![r] = AfterCharge(r, <<r, reqs[r].attempts + 1>>, s, e)]
    BY <1>8 DEF CreateCharge
  <2> DEFINE c == <<r, reqs[r].attempts + 1>>
             h == AfterCharge(r, c, s, e)
  <2>2. /\ reqs[r].pc = "charge" /\ reqs[r].attempts < MaxAttempts
        /\ UNCHANGED <<txs, workflows>>
    BY <1>8 DEF CreateCharge
  <2>3. c # NoCharge
    BY <2>2, ChargeNames, StoreAssumption
  <2>4. reqs[r].tx \in Tx
    BY <2>2, HeldCopy DEF Holding
  <2>5. h.pc \in {"markpaid", "update"} /\ h.tx.id = reqs[r].tx.id /\ h.tx.pid = c
    BY <2>4 DEF AfterCharge, MarkCompleted, Tx
  <2>6. reqs' = [reqs EXCEPT ![r] = h]
    BY <2>1
  <2> HIDE DEF h, c
  <2> QED BY <1>2, <2>2, <2>3, <2>5, <2>6, OneRequestOwns DEF Drafting, Holding
<1>9. CASE LoseChargeAnswer(r) \/ RefuseCharge(r)
  <2>1. /\ reqs[r].pc = "charge" /\ UNCHANGED <<txs, workflows>>
    BY <1>9 DEF LoseChargeAnswer, RefuseCharge, storeVars
  <2>2. reqs[r].tx \in Tx /\ MarkFailed(reqs[r].tx).id = reqs[r].tx.id
        /\ IsTerminal(MarkFailed(reqs[r].tx))
    BY <2>1, HeldCopy DEF Holding, MarkFailed, Tx, IsTerminal
  <2>3. PICK h : /\ reqs' = [reqs EXCEPT ![r] = h]
                 /\ \/ h.pc = "charge" /\ h.tx = reqs[r].tx
                    \/ h.pc = "fail" /\ h.tx = MarkFailed(reqs[r].tx)
    <3>1. CASE RefuseCharge(r)
      <4> WITNESS [reqs[r] EXCEPT !.pc = "fail", !.tx = MarkFailed(@)]
      <4> QED BY <1>1, <3>1 DEF RefuseCharge
    <3>2. CASE LoseChargeAnswer(r)
      <4> DEFINE n == reqs[r].attempts + 1
      <4> WITNESS [reqs[r] EXCEPT !.attempts = n,
                     !.pc = IF n = MaxAttempts THEN "fail" ELSE "charge",
                     !.tx = IF n = MaxAttempts THEN MarkFailed(@) ELSE @]
      <4> QED BY <1>1, <3>2 DEF LoseChargeAnswer
    <3> QED BY <1>9, <3>1, <3>2
  <2> QED BY <1>2, <2>1, <2>2, <2>3, OneRequestOwns DEF Drafting, Holding
<1>10. CASE StoreFailure(r) \/ StoreCharge(r)
  <2>1. reqs[r].pc \in {"fail", "update"} /\ UNCHANGED workflows
    BY <1>10 DEF StoreFailure, StoreCharge
  <2>2. reqs[r].tx.id = r
    BY <1>2, <2>1 DEF Holding
  <2>3. \A t \in Requests : t # r => txs'[t] = txs[t]
    BY <1>10, <2>2 DEF StoreFailure, StoreCharge, UpdateTx, Sound, TypeOK, StoreTypeOK
  <2>4. PICK pc \in {"done", "workflow"} : Goto(r, pc)
    BY <1>10 DEF StoreFailure, StoreCharge
  <2> QED BY <1>3, <2>1, <2>3, <2>4 DEF ReqPc, Drafting, Holding
<1>11. CASE MarkBatchPaid(r)
  BY <1>2, <1>3, <1>11 DEF MarkBatchPaid, ReqPc, Drafting, Holding
<1>12. CASE StartExpiration(r)
  <2>1. reqs[r].pc = "workflow" /\ Goto(r, "done") /\ UNCHANGED txs /\ reqs[r].tx.id = r
    BY <1>2, <1>12 DEF StartExpiration, Holding
  <2>2. \A t \in Requests : t # r => workflows'[t] = workflows[t]
    BY <1>12, <2>1 DEF StartExpiration, Sound, TypeOK, StoreTypeOK
  <2> QED BY <1>3, <2>1, <2>2 DEF ReqPc, Drafting, Holding
<1>13. CASE AbortRequest(r)
  BY <1>3, <1>13 DEF AbortRequest, ReqPc, Drafting, Holding
<1> QED
  BY <1>4, <1>5, <1>6, <1>7, <1>8, <1>9, <1>10, <1>11, <1>12, <1>13 DEF RequestStep

\* The other copies; only the workflow it starts is the request's own.
LEMMA RequestSettles ==
  ASSUME Sound, Settling, KeysAreUnique, Grows, Keeps, NEW r \in Requests, RequestStep(r),
         UNCHANGED <<callbackVars, runs>>
  PROVE  Settling'
<1>1. DeliveriesSettle' /\ RunsSettle'
  BY DeliveriesSettleKept, RunsSettleKept DEF callbackVars
<1>2. CASE UNCHANGED workflows
  BY <1>1, <1>2, RequestOwns, WorkflowsSettleKept DEF Settling
<1>3. CASE StartExpiration(r) /\ ~UNCHANGED workflows
  <2>1. UNCHANGED txs /\ reqs[r].tx.id \in Requests
    BY <1>3, HeldCopy DEF StartExpiration, Holding
  <2>2. \E s \in {"WAITING", "SKIPPED"} :
          workflows' = [workflows EXCEPT ![reqs[r].tx.id] = [NoWorkflow EXCEPT !.state = s]]
    BY <1>3 DEF StartExpiration
  <2>3. ASSUME NEW s \in {"WAITING", "SKIPPED"}
        PROVE  LET f == [NoWorkflow EXCEPT !.state = s]
               IN  f.state = s /\ f.signalled = FALSE
    BY DEF NoWorkflow
  <2>4. \A t \in Requests :
          \/ workflows'[t] = workflows[t]
          \/ ~workflows'[t].signalled /\ workflows'[t].state \in {"WAITING", "SKIPPED"}
    BY <2>1, <2>2, <2>3 DEF Sound, TypeOK, StoreTypeOK
  <2>5. ASSUME NEW t \in Requests, Stored(t), IsTerminal(txs[t])
        PROVE  Stored(t)' /\ IsTerminal(txs[t])'
    BY <2>1, <2>5 DEF Stored, IsTerminal
  <2>6. WorkflowsSettle'
    BY <2>4, <2>5, FinalCopiesGrow DEF Settling, WorkflowsSettle
  <2> QED BY <1>1, <2>6, RequestOwns DEF Settling
<1> QED
  BY <1>2, <1>3 DEF RequestStep, CheckKey, ValidateInstallments, SaveTx, CommitLedger, CreateCharge,
     LoseChargeAnswer, RefuseCharge, StoreFailure, MarkBatchPaid, StoreCharge, AbortRequest, storeVars

-----------------------------------------------------------------------------
(* Deliveries.                                                             *)

\* A charge has one transaction that knows it.
LEMMA OneFinder ==
  ASSUME Sound, NEW c \in ChargeIds, NEW t \in Requests, NEW u \in Requests,
         Stored(t), txs[t].pid = c, Stored(u), txs[u].pid = c
  PROVE  t = u
BY StoreAssumption DEF Sound, StoreSound, SoundCopies

\* A delivery's new record decides what it has found.
LEMMA OneDeliverySettles ==
  ASSUME Sound, Settling, Grows, Keeps, NEW w \in Workers, NEW d,
         \A v \in Workers : deliveries'[v] = IF v = w THEN d ELSE deliveries[v],
         d.pc = "update" => d.tx \in FinalCopies' /\ d.tx.pid = d.event.charge,
         d.pc \in {"markpaid", "allocate", "ledger", "notify", "signal"} =>
           \E t \in Requests : Stored(t)' /\ txs'[t].pid = d.event.charge /\ IsTerminal(txs[t])'
  PROVE  DeliveriesSettle'
<1>1. ASSUME NEW t \in Requests, Stored(t), IsTerminal(txs[t])
      PROVE  Stored(t)' /\ txs'[t].pid = txs[t].pid /\ IsTerminal(txs[t])'
  BY <1>1, KnownIsHanded DEF Keeps, Handed
<1> SUFFICES ASSUME NEW v \in Workers
             PROVE  LET e == deliveries'[v] IN
               /\ e.pc = "update" => e.tx \in FinalCopies' /\ e.tx.pid = e.event.charge
               /\ e.pc \in {"markpaid", "allocate", "ledger", "notify", "signal"} =>
                    \E t \in Requests :
                      Stored(t)' /\ txs'[t].pid = e.event.charge /\ IsTerminal(txs[t])'
  BY DEF DeliveriesSettle
<1>2. CASE v = w
  BY <1>2
<1>3. CASE v # w
  BY <1>1, <1>3, FinalCopiesGrow DEF Settling, DeliveriesSettle
<1> QED BY <1>2, <1>3

LEMMA LoadTxSettles ==
  ASSUME Sound, Sound', Settling, Grows, Keeps, NEW w \in Workers, LoadTx(w), UNCHANGED reqs
  PROVE  DeliveriesSettle'
<1> DEFINE d == deliveries[w]
           c == d.event.charge
<1>1. deliveries \in [Workers -> Delivery] /\ d \in Delivery /\ d.event \in Events /\ c \in ChargeIds
  BY DEF Sound, TypeOK, CallbackTypeOK, DeliveriesSound, LoadTx, StoreTypeOK, Events
<1>2. d.pc = "load" /\ UNCHANGED txs
  BY DEF LoadTx, storeVars
<1>3. CASE Finish(w)
  BY <1>1, <1>3, OneDeliverySettles DEF Finish, Idle
<1>4. CASE \E t \in FindByProviderTransactionID(c) : IsTerminal(txs[t]) /\ Proceed(w, "signal")
  <2>1. PICK t \in Requests : Stored(t) /\ txs[t].pid = c /\ IsTerminal(txs[t]) /\ Proceed(w, "signal")
    BY <1>4 DEF FindByProviderTransactionID
  <2> DEFINE e == [d EXCEPT !.pc = "signal"]
  <2>2. /\ e.pc = "signal" /\ e.event = d.event
        /\ \A v \in Workers : deliveries'[v] = IF v = w THEN e ELSE deliveries[v]
    BY <1>1, <2>1 DEF Proceed, Delivery
  <2>3. Stored(t)' /\ txs'[t].pid = c /\ IsTerminal(txs[t])'
    BY <1>2, <2>1 DEF Stored, IsTerminal
  <2> HIDE DEF e
  <2> QED BY <2>2, <2>3, OneDeliverySettles
<1>5. CASE \E t \in FindByProviderTransactionID(c) :
             deliveries' = [deliveries EXCEPT ![w].pc = "update",
                              ![w].tx = Outcome(txs[t], Action(d.event.status))]
  <2>1. PICK t \in Requests : /\ Stored(t) /\ txs[t].pid = c
                              /\ deliveries' = [deliveries EXCEPT ![w].pc = "update",
                                                  ![w].tx = Outcome(txs[t], Action(d.event.status))]
    BY <1>5 DEF FindByProviderTransactionID
  <2> DEFINE tx == Outcome(txs[t], Action(d.event.status))
             e == [d EXCEPT !.pc = "update", !.tx = tx]
  <2>2. /\ e.pc = "update" /\ e.event = d.event /\ e.tx = tx
        /\ \A v \in Workers : deliveries'[v] = IF v = w THEN e ELSE deliveries[v]
    BY <1>1, <2>1 DEF Delivery
  <2>3. Handed(t)' /\ txs[t] \in Tx /\ txs[t].id = t
    BY <1>1, <2>1, KnownIsHanded, StoreAssumption DEF Keeps, Sound, StoreSound, SoundCopies
  <2>4. tx.id = t /\ tx.pid = c /\ IsTerminal(tx)
    BY <2>1, <2>3 DEF Outcome, MarkCompleted, MarkFailed, IsTerminal, Tx
  <2> HIDE DEF tx, e
  <2>5. tx \in SoundCopies'
    BY <2>2 DEF Sound, DeliveriesSound
  <2>6. tx \in FinalCopies'
    BY <1>2, <2>1, <2>3, <2>4, <2>5 DEF FinalCopies, IsTerminal
  <2> QED BY <2>2, <2>4, <2>6, OneDeliverySettles
<1> QED BY <1>3, <1>4, <1>5 DEF LoadTx

LEMMA StoreOutcomeSettles ==
  ASSUME Sound, Settling, Grows, Keeps, NEW w \in Workers, StoreOutcome(w)
  PROVE  DeliveriesSettle'
<1> DEFINE d == deliveries[w]
<1>1. deliveries \in [Workers -> Delivery] /\ d \in Delivery
  BY DEF Sound, TypeOK, CallbackTypeOK
<1>2. d.tx \in FinalCopies /\ d.tx.pid = d.event.charge /\ UpdateTx(d.tx)
  BY DEF StoreOutcome, Settling, DeliveriesSettle
<1>3. PICK t \in Requests : t = d.tx.id /\ Stored(t)
  BY <1>2 DEF FinalCopies, SoundCopies, Tx
<1>4. Stored(t)' /\ txs'[t] = d.tx /\ txs'[t].pid = d.event.charge /\ IsTerminal(txs[t])'
  BY <1>2, <1>3 DEF FinalCopies, IsTerminal, UpdateTx, Sound, TypeOK, StoreTypeOK, Grows
<1>5. PICK pc \in {"signal", "ledger", "markpaid"} : Proceed(w, pc)
  BY DEF StoreOutcome
<1> DEFINE e == [d EXCEPT !.pc = pc]
<1>6. /\ e.pc = pc /\ e.event = d.event
      /\ \A v \in Workers : deliveries'[v] = IF v = w THEN e ELSE deliveries[v]
  BY <1>1, <1>5 DEF Proceed, Delivery
<1> HIDE DEF e
<1> QED BY <1>4, <1>6, OneDeliverySettles

\* A delivery that only goes on, or ends.
LEMMA GoesOnSettles ==
  ASSUME Sound, Settling, Grows, Keeps, NEW w \in Workers, NEW d,
         \A v \in Workers : deliveries'[v] = IF v = w THEN d ELSE deliveries[v],
         d.pc # "update",
         d.pc \in {"markpaid", "allocate", "ledger", "notify", "signal"} =>
           /\ deliveries[w].pc \in {"markpaid", "allocate", "ledger", "notify", "signal"}
           /\ d.event = deliveries[w].event
  PROVE  DeliveriesSettle'
<1>1. ASSUME NEW t \in Requests, Stored(t), IsTerminal(txs[t])
      PROVE  Stored(t)' /\ txs'[t].pid = txs[t].pid /\ IsTerminal(txs[t])'
  BY <1>1, KnownIsHanded DEF Keeps, Handed
<1>2. d.pc \in {"markpaid", "allocate", "ledger", "notify", "signal"} =>
        \E t \in Requests : Stored(t)' /\ txs'[t].pid = d.event.charge /\ IsTerminal(txs[t])'
  BY <1>1 DEF Settling, DeliveriesSettle
<1> QED BY <1>2, OneDeliverySettles

Settlers == {"markpaid", "allocate", "ledger", "notify", "signal"}

\* Which step a delivery goes on to, in which record.
LEMMA DeliveryGoesOn ==
  ASSUME Sound, NEW w \in Workers, CallbackStep(w), ~LoadTx(w), ~StoreOutcome(w)
  PROVE  \E d : /\ \A v \in Workers : deliveries'[v] = IF v = w THEN d ELSE deliveries[v]
                /\ d.pc # "update"
                /\ d.pc \in Settlers => deliveries[w].pc \in Settlers /\ d.event = deliveries[w].event
<1>1. deliveries \in [Workers -> Delivery] /\ deliveries[w] \in Delivery
  BY DEF Sound, TypeOK, CallbackTypeOK
<1>2. \A v \in Workers : v # w => deliveries'[v] = deliveries[v]
  BY <1>1 DEF CallbackStep, Deliver, RecordEvent, MarkInstallmentsPaid, CheckAllocation,
       InsertAllocation, FailAllocation, EndAllocation, ConfirmLedger, NotifyParticipant,
       SignalExpiration, StartConfirmation, AbortDelivery, Proceed, Finish
<1>3. CASE Finish(w)
  <2>1. deliveries'[w] = Idle /\ Idle.pc = "idle"
    BY <1>1, <1>3 DEF Finish, Idle
  <2> QED BY <1>2, <2>1 DEF Settlers
<1>4. CASE Deliver(w) \/ \E pc \in {"load", "confirm"} : Proceed(w, pc)
  <2>1. deliveries'[w].pc \in {"record", "load", "confirm"}
    BY <1>1, <1>4 DEF Deliver, Proceed, Delivery
  <2> QED BY <1>2, <2>1 DEF Settlers
<1>5. CASE /\ deliveries[w].pc \in Settlers
           /\ \/ \E pc \in Settlers : Proceed(w, pc)
              \/ MarkInstallmentsPaid(w) \/ CheckAllocation(w) \/ InsertAllocation(w)
              \/ FailAllocation(w)
  <2>1. CASE \E pc \in Settlers : Proceed(w, pc)
    BY <1>1, <1>2, <1>5, <2>1 DEF Proceed, Delivery, Settlers
  <2>2. CASE MarkInstallmentsPaid(w) /\ ~Proceed(w, "ledger")
    <3>1. deliveries'[w].pc = "allocate" /\ deliveries'[w].event = deliveries[w].event
      BY <1>1, <2>2 DEF MarkInstallmentsPaid, Delivery
    <3> QED BY <1>2, <1>5, <3>1 DEF Settlers
  <2>3. CASE CheckAllocation(w) \/ InsertAllocation(w) \/ FailAllocation(w)
    <3>1. deliveries'[w].pc = "allocate" /\ deliveries'[w].event = deliveries[w].event
      <4>1. \E todo, picked : deliveries' = [deliveries EXCEPT ![w].todo = todo, ![w].picked = picked]
        <5>1. CASE CheckAllocation(w)
          BY <5>1 DEF CheckAllocation
        <5>2. CASE InsertAllocation(w) \/ FailAllocation(w)
          <6>1. deliveries' = [deliveries EXCEPT ![w].picked = NoItem]
            BY <5>2 DEF InsertAllocation, FailAllocation
          <6>2. deliveries' = [deliveries EXCEPT ![w].todo = deliveries[w].todo, ![w].picked = NoItem]
            BY <1>1, <6>1 DEF Delivery
          <6> QED BY <6>2
        <5> QED BY <2>3, <5>1, <5>2
      <4>2. deliveries[w].pc = "allocate"
        BY <2>3 DEF CheckAllocation, InsertAllocation, FailAllocation
      <4> QED BY <1>1, <4>1, <4>2 DEF Delivery
    <3> QED BY <1>2, <1>5, <3>1 DEF Settlers
  <2> QED BY <1>5, <2>1, <2>2, <2>3 DEF Settlers
<1> QED
  BY <1>3, <1>4, <1>5 DEF CallbackStep, RecordEvent, MarkInstallmentsPaid, CheckAllocation,
     InsertAllocation, FailAllocation, EndAllocation, ConfirmLedger, NotifyParticipant,
     SignalExpiration, StartConfirmation, AbortDelivery, Settlers

\* A signal is sent for a transaction that is settled.
LEMMA SignalSettles ==
  ASSUME Sound, Settling, Grows, Keeps, NEW w \in Workers, CallbackStep(w)
  PROVE  /\ WorkflowsSettle'
         /\ \A t \in Requests : workflows[t].state = "NONE" => workflows'[t].state = "NONE"
<1>1. CASE UNCHANGED workflows
  BY <1>1, WorkflowsSettleKept
<1>2. CASE SignalExpiration(w) /\ ~UNCHANGED workflows
  <2> DEFINE c == deliveries[w].event.charge
  <2>1. PICK t \in Requests : /\ Stored(t) /\ txs[t].pid = c
                              /\ workflows[t].state \in {"WAITING", "EXPIRING", "LOADED"}
                              /\ workflows' = [workflows EXCEPT ![t].signalled = TRUE]
    BY <1>2 DEF SignalExpiration, FindByProviderTransactionID
  <2>2. deliveries[w].pc = "signal" /\ UNCHANGED txs
    BY <1>2 DEF SignalExpiration
  <2>3. c \in ChargeIds
    BY <2>2 DEF Sound, DeliveriesSound, TypeOK, StoreTypeOK, Events
  <2>4. PICK u \in Requests : Stored(u) /\ txs[u].pid = c /\ IsTerminal(txs[u])
    BY <2>2 DEF Settling, DeliveriesSettle
  <2>5. IsTerminal(txs[t])
    BY <2>1, <2>3, <2>4, OneFinder
  <2>6. \A q \in Requests : /\ workflows'[q].state = workflows[q].state
                            /\ workflows'[q].tx = workflows[q].tx
                            /\ workflows'[q].signalled => workflows[q].signalled \/ q = t
    BY <2>1 DEF Sound, TypeOK, StoreTypeOK, Workflow
  <2>7. \A q \in Requests : Stored(q) /\ IsTerminal(txs[q]) => Stored(q)' /\ IsTerminal(txs[q])'
    BY <2>2 DEF Stored, IsTerminal
  <2> QED BY <2>1, <2>5, <2>6, <2>7, FinalCopiesGrow DEF Settling, WorkflowsSettle
<1> QED
  BY <1>1, <1>2 DEF CallbackStep, Deliver, RecordEvent, LoadTx, StoreOutcome, MarkInstallmentsPaid,
     CheckAllocation, InsertAllocation, FailAllocation, EndAllocation, ConfirmLedger,
     NotifyParticipant, StartConfirmation, AbortDelivery, storeVars

LEMMA CallbackSettles ==
  ASSUME Sound, Sound', Settling, Grows, Keeps, NEW w \in Workers, CallbackStep(w),
         UNCHANGED <<reqs, runs>>
  PROVE  Settling'
<1>1. WritesFinal
  BY DEF WritesFinal, CallbackStep, Deliver, RecordEvent, LoadTx, StoreOutcome,
     MarkInstallmentsPaid, CheckAllocation, InsertAllocation, FailAllocation, EndAllocation,
     ConfirmLedger, NotifyParticipant, SignalExpiration, StartConfirmation, AbortDelivery,
     storeVars, Settling, DeliveriesSettle
<1>2. RequestsOwn' /\ WorkflowsSettle'
  BY <1>1, SignalSettles, OthersKeepDrafts
<1>3. DeliveriesSettle'
  <2>1. CASE ~LoadTx(w) /\ ~StoreOutcome(w)
    BY <2>1, DeliveryGoesOn, GoesOnSettles DEF Settlers
  <2> QED BY <2>1, LoadTxSettles, StoreOutcomeSettles
<1> QED BY <1>2, <1>3, RunsSettleKept DEF Settling

\* The confirmation workflow only answers: it touches nothing of this.
LEMMA ConfirmationSettles ==
  ASSUME Sound, Settling, Grows, Keeps, NEW k \in Confirmations, RunConfirmation(k),
         UNCHANGED <<reqs, runs>>
  PROVE  Settling'
<1>1. WritesFinal /\ UNCHANGED <<deliveries, workflows>>
  BY DEF RunConfirmation, storeVars, WritesFinal
<1> QED
  BY <1>1, OthersKeepDrafts, DeliveriesSettleKept, WorkflowsSettleKept, RunsSettleKept DEF Settling

-----------------------------------------------------------------------------
(* Expiration workflows.                                                   *)

\* A workflow's new record holds a final copy, if any, and ends as paid only if signalled.
LEMMA OneWorkflowSettles ==
  ASSUME Sound, Settling, Grows, Keeps, NEW t \in Requests, NEW f,
         \A u \in Requests : workflows'[u] = IF u = t THEN f ELSE workflows[u],
         f.state = "LOADED" => f.tx \in FinalCopies' /\ f.tx.id = t,
         f.signalled \/ f.state = "PAID" => workflows[t].signalled
  PROVE  WorkflowsSettle'
<1>1. ASSUME NEW u \in Requests, Stored(u), IsTerminal(txs[u])
      PROVE  Stored(u)' /\ IsTerminal(txs[u])'
  BY <1>1, KnownIsHanded DEF Keeps, Handed
<1> SUFFICES ASSUME NEW u \in Requests
             PROVE  /\ workflows'[u].state = "LOADED" =>
                         workflows'[u].tx \in FinalCopies' /\ workflows'[u].tx.id = u
                    /\ workflows'[u].signalled \/ workflows'[u].state = "PAID" =>
                         Stored(u)' /\ IsTerminal(txs[u])'
  BY DEF WorkflowsSettle, Stored, IsTerminal
<1>2. CASE u = t
  BY <1>1, <1>2 DEF Settling, WorkflowsSettle
<1>3. CASE u # t
  BY <1>1, <1>3, FinalCopiesGrow DEF Settling, WorkflowsSettle
<1> QED BY <1>2, <1>3

\* The document an activity reads is no longer its request's to write.
LEMMA LoadExpiringSettles ==
  ASSUME Sound, Sound', Settling, Grows, Keeps, NEW t \in Requests, LoadExpiring(t), UNCHANGED reqs
  PROVE  WorkflowsSettle'
<1>1. workflows \in [Requests -> Workflow]
  BY DEF Sound, TypeOK, StoreTypeOK
<1>2. workflows[t].state = "EXPIRING" /\ UNCHANGED txs
  BY DEF LoadExpiring
<1>3. Handed(t)
  BY <1>2 DEF Handed, Sound, WorkflowsSound, Settling, RequestsOwn
<1>4. CASE SetState(t, "FAILED")
  <2> DEFINE f == [workflows[t] EXCEPT !.state = "FAILED"]
  <2>1. /\ f.state = "FAILED" /\ f.signalled = workflows[t].signalled
        /\ \A u \in Requests : workflows'[u] = IF u = t THEN f ELSE workflows[u]
    BY <1>1, <1>4 DEF SetState, Workflow
  <2> HIDE DEF f
  <2> QED BY <2>1, OneWorkflowSettles
<1>5. CASE workflows' = [workflows EXCEPT ![t].state = "LOADED",
                           ![t].tx = [txs[t] EXCEPT !.status = "CANCELLED"]]
  <2> DEFINE tx == [txs[t] EXCEPT !.status = "CANCELLED"]
             f == [workflows[t] EXCEPT !.state = "LOADED", !.tx = tx]
  <2>1. /\ f.state = "LOADED" /\ f.signalled = workflows[t].signalled /\ f.tx = tx
        /\ \A u \in Requests : workflows'[u] = IF u = t THEN f ELSE workflows[u]
    BY <1>1, <1>5 DEF Workflow
  <2>2. txs[t].id = t /\ txs[t] \in Tx
    BY <1>3 DEF Handed, Sound, StoreSound, SoundCopies
  <2>3. tx.id = t /\ tx.pid = txs[t].pid /\ IsTerminal(tx)
    BY <2>2 DEF IsTerminal, Tx
  <2> HIDE DEF tx, f
  <2>4. tx \in SoundCopies'
    BY <2>1 DEF Sound, WorkflowsSound
  <2>5. tx \in FinalCopies'
    BY <1>2, <1>3, <2>3, <2>4 DEF FinalCopies, Keeps, IsTerminal
  <2> QED BY <2>1, <2>3, <2>5, OneWorkflowSettles
<1> QED BY <1>4, <1>5 DEF LoadExpiring

LEMMA ExpirationSettles ==
  ASSUME Sound, Sound', Settling, Grows, Keeps, NEW t \in Requests, ExpirationStep(t),
         UNCHANGED <<reqs, callbackVars, runs>>
  PROVE  Settling'
<1>1. workflows \in [Requests -> Workflow] /\ workflows[t] \in Workflow
  BY DEF Sound, TypeOK, StoreTypeOK
<1>2. WritesFinal
  BY DEF ExpirationStep, TakeSignal, FireTimer, LoadExpiring, StoreExpired, FailAttempt,
     WritesFinal, Settling, WorkflowsSettle
<1>3. \A u \in Requests : workflows[u].state = "NONE" => workflows'[u].state = "NONE"
  BY <1>1 DEF ExpirationStep, TakeSignal, FireTimer, LoadExpiring, StoreExpired, FailAttempt, SetState
<1>4. CASE ~LoadExpiring(t)
  <2>1. PICK f : /\ \A u \in Requests : workflows'[u] = IF u = t THEN f ELSE workflows[u]
                 /\ f.signalled = workflows[t].signalled
                 /\ f.state # "LOADED"
                 /\ f.state = "PAID" => workflows[t].signalled
    <3>1. \A u \in Requests : u # t => workflows'[u] = workflows[u]
      BY <1>1, <1>4 DEF ExpirationStep, TakeSignal, FireTimer, StoreExpired, FailAttempt, SetState
    <3>2. /\ workflows'[t].signalled = workflows[t].signalled
          /\ workflows'[t].state # "LOADED"
          /\ workflows'[t].state = "PAID" => workflows[t].signalled
      BY <1>1, <1>4 DEF ExpirationStep, TakeSignal, FireTimer, StoreExpired, FailAttempt, SetState,
         Workflow
    <3> QED BY <3>1, <3>2
  <2> QED BY <2>1, OneWorkflowSettles, <1>2, <1>3, OthersKeepDrafts, DeliveriesSettleKept, RunsSettleKept
          DEF Settling, callbackVars
<1>5. CASE LoadExpiring(t)
  BY <1>2, <1>3, <1>5, LoadExpiringSettles, OthersKeepDrafts, DeliveriesSettleKept, RunsSettleKept
     DEF Settling, callbackVars
<1> QED BY <1>4, <1>5

-----------------------------------------------------------------------------
(* Reconciliation runs.                                                    *)

\* A run's new record: what it takes from the store knows its charge, and no request
\* will write that document again; what it is about to store is final.
LEMMA OneRunSettles ==
  ASSUME Sound, Settling, Grows, Keeps, NEW p \in Reconcilers, NEW f,
         \A q \in Reconcilers : runs'[q] = IF q = p THEN f ELSE runs[q],
         \A tx \in f.batch : tx \in runs[p].batch
           \/ (tx.pid # NoCharge => Handed(tx.id)' /\ tx.pid = txs'[tx.id].pid),
         f.tx # NoTx => f.tx \in FinalCopies'
  PROVE  RunsSettle'
<1>1. ASSUME NEW q \in Reconcilers, NEW tx \in runs[q].batch, tx.pid # NoCharge
      PROVE  Handed(tx.id)' /\ tx.pid = txs'[tx.id].pid
  <2>1. tx.id \in Requests
    BY <1>1 DEF Sound, RunsSound, SoundCopies, Tx
  <2> QED BY <1>1, <2>1 DEF Settling, RunsSettle, Keeps
<1> SUFFICES ASSUME NEW q \in Reconcilers
             PROVE  /\ \A tx \in runs'[q].batch :
                         tx.pid # NoCharge => Handed(tx.id)' /\ tx.pid = txs'[tx.id].pid
                    /\ runs'[q].tx # NoTx => runs'[q].tx \in FinalCopies'
  BY DEF RunsSettle
<1>2. CASE q = p
  BY <1>1, <1>2
<1>3. CASE q # p
  BY <1>1, <1>3, FinalCopiesGrow DEF Settling, RunsSettle
<1> QED BY <1>2, <1>3

LEMMA StartRunSettles ==
  ASSUME Sound, Settling, Grows, Keeps, NEW p \in Reconcilers, StartRun(p)
  PROVE  RunsSettle'
<1> DEFINE f == [runs[p] EXCEPT !.batch = PendingTxs]
<1>1. /\ f.batch = PendingTxs /\ f.tx = NoTx
      /\ \A q \in Reconcilers : runs'[q] = IF q = p THEN f ELSE runs[q]
  BY DEF StartRun, NoRun, Sound, TypeOK, RunTypeOK, Run
<1>2. ASSUME NEW tx \in PendingTxs, tx.pid # NoCharge
      PROVE  Handed(tx.id)' /\ tx.pid = txs'[tx.id].pid
  <2>1. PICK t \in Requests : tx = txs[t] /\ Stored(t)
    BY DEF PendingTxs
  <2>2. tx.id = t /\ Handed(t)
    BY <1>2, <2>1, KnownIsHanded DEF Sound, StoreSound
  <2> QED BY <2>1, <2>2 DEF Keeps
<1> HIDE DEF f
<1> QED BY <1>1, <1>2, OneRunSettles

LEMMA FetchPaymentSettles ==
  ASSUME Sound, Sound', Settling, Grows, Keeps, NEW p \in Reconcilers, FetchPayment(p)
  PROVE  RunsSettle'
<1>1. PICK tx \in runs[p].batch :
        /\ tx.pid # NoCharge
        /\ runs' = [runs EXCEPT ![p].batch = @ \ {tx},
                      ![p].tx = Corrected(tx, charges[tx.pid].status)]
  BY DEF FetchPayment
<1> DEFINE x == Corrected(tx, charges[tx.pid].status)
           f == [runs[p] EXCEPT !.batch = runs[p].batch \ {tx}, !.tx = x]
<1>2. /\ f.batch \subseteq runs[p].batch /\ f.tx = x
      /\ \A q \in Reconcilers : runs'[q] = IF q = p THEN f ELSE runs[q]
  BY <1>1 DEF Sound, TypeOK, RunTypeOK, Run
<1>3. tx \in Tx /\ tx.id \in Requests /\ Handed(tx.id) /\ tx.pid = txs[tx.id].pid
  BY <1>1 DEF Sound, RunsSound, SoundCopies, Tx, Settling, RunsSettle
<1>4. x \in Tx /\ x.id = tx.id /\ x.pid = tx.pid /\ IsTerminal(x)
  BY <1>3 DEF Corrected, MarkCompleted, MarkFailed, IsTerminal, Tx, TxStatus
<1> HIDE DEF x, f
<1>5. x # NoTx
  BY <1>4, StoreAssumption
<1>6. x \in SoundCopies'
  BY <1>2, <1>5 DEF Sound, RunsSound
<1>7. x \in FinalCopies'
  BY <1>3, <1>4, <1>6 DEF FinalCopies, Keeps, IsTerminal
<1> QED BY <1>2, <1>7, OneRunSettles

LEMMA RunSettles ==
  ASSUME Sound, Sound', Settling, Grows, Keeps, NEW p \in Reconcilers, RunStep(p),
         UNCHANGED <<reqs, callbackVars>>
  PROVE  Settling'
<1>1. WritesFinal /\ UNCHANGED workflows
  BY DEF RunStep, StartRun, SkipTx, FetchPayment, StoreCorrected, FailTx, CrashRun,
     unchangedByReconcile, WritesFinal, Settling, RunsSettle
<1>2. CASE ~StartRun(p) /\ ~FetchPayment(p)
  <2>1. runs \in [Reconcilers -> Run]
    BY DEF Sound, TypeOK, RunTypeOK
  <2>2. \A q \in Reconcilers : q # p => runs'[q] = runs[q]
    BY <1>2, <2>1 DEF RunStep, SkipTx, StoreCorrected, FailTx, CrashRun
  <2>3. runs'[p].batch \subseteq runs[p].batch /\ runs'[p].tx = NoTx
    BY <1>2, <2>1 DEF RunStep, SkipTx, StoreCorrected, FailTx, CrashRun, NoRun, Run
  <2>4. RunsSettle'
    BY <2>2, <2>3, OneRunSettles
  <2> QED BY <1>1, <2>4, OthersKeepDrafts, DeliveriesSettleKept, WorkflowsSettleKept
          DEF Settling, callbackVars
<1>3. CASE StartRun(p) \/ FetchPayment(p)
  BY <1>1, <1>3, StartRunSettles, FetchPaymentSettles, OthersKeepDrafts, DeliveriesSettleKept,
     WorkflowsSettleKept DEF Settling, callbackVars
<1> QED BY <1>2, <1>3

-----------------------------------------------------------------------------

LEMMA InitSettles == Init => Settling
<1> SUFFICES ASSUME Init PROVE Settling
  OBVIOUS
<1>1. \A r \in Requests : reqs[r].pc = "start" /\ ~Stored(r) /\ workflows[r] = NoWorkflow
  BY DEF Init, ReqInit, StoreInit, Stored
<1>2. \A w \in Workers : deliveries[w].pc = "idle"
  BY DEF Init, CallbackInit, Idle
<1>3. \A p \in Reconcilers : runs[p].batch = {} /\ runs[p].tx = NoTx
  BY DEF Init, RunInit, NoRun
<1> QED BY <1>1, <1>2, <1>3
  DEF Settling, RequestsOwn, DeliveriesSettle, WorkflowsSettle, RunsSettle, NoWorkflow, Drafting, Holding

LEMMA NextSettles ==
  ASSUME KeysAreUnique, Sound, Sound', Settling, [Next]_vars
  PROVE  Settling'
<1>1. Grows /\ Keeps
  BY NextStoreStep, StepGrows, StepKeeps
<1>2. CASE Requesting
  BY <1>1, <1>2, RequestSettles DEF Requesting
<1>3. CASE Delivering
  BY <1>1, <1>3, CallbackSettles, ConfirmationSettles DEF Delivering
<1>4. CASE Expiring
  BY <1>1, <1>4, ExpirationSettles DEF Expiring
<1>5. CASE Reconciling
  BY <1>1, <1>5, RunSettles DEF Reconciling
<1>6. CASE Environment \/ UNCHANGED vars
  <2>1. UNCHANGED <<txs, reqs, deliveries, workflows, runs>>
    BY <1>6 DEF Environment, MoveCharge, CancelInstallment, vars, storeVars, callbackVars
  <2>2. WritesFinal
    BY <2>1 DEF WritesFinal
  <2> QED BY <1>1, <2>1, <2>2, OthersKeepDrafts, DeliveriesSettleKept, WorkflowsSettleKept,
             RunsSettleKept DEF Settling
<1> QED BY <1>2, <1>3, <1>4, <1>5, <1>6 DEF Next

\* While no two requests share an idempotency key, the request that saved a
\* transaction is the only one that writes it before its outcome is known: every other
\* copy that is held anywhere is terminal and keeps the charge the document knows.
THEOREM SettlingIsInvariant == KeysAreUnique /\ Spec => []Settling
<1> SUFFICES ASSUME KeysAreUnique PROVE Spec => []Settling
  OBVIOUS
<1>1. Init => Settling
  BY InitSettles
<1>2. Sound /\ Sound' /\ Settling /\ [Next]_vars => Settling'
  BY NextSettles
<1> QED BY <1>1, <1>2, SoundIsInvariant, PTL DEF Spec

\* An expiration workflow that ended as paid leaves a settled transaction: whoever
\* signals it has stored an outcome before, and nothing unsettles the document again.
THEOREM PaidWorkflowsAreSettled == KeysAreUnique /\ Spec => []PaidWorkflowIsSettled
<1>1. Settling => PaidWorkflowIsSettled
  BY DEF Settling, WorkflowsSettle, PaidWorkflowIsSettled
<1> QED BY <1>1, SettlingIsInvariant, PTL

-----------------------------------------------------------------------------
(* The settlement of each transaction.                                     *)

phaseOf == [t \in Requests |-> SettlementPhase(t)]
moneyOf == [t \in Requests |-> Funded(t)]

\* The abstract step that a step of the subsystem is.
LEMMA InsertOpens ==
  ASSUME Sound, Settling, NEW r \in Requests, Inserts(r)
  PROVE  Abstract!Open(r)
<1>1. ~Stored(r) /\ txs' = [txs EXCEPT ![r] = NewTx(r)] /\ UNCHANGED <<charges, sent>>
  BY DEF Inserts, Settling, RequestsOwn
<1>2. SettlementPhase(r) = "absent" /\ SettlementPhase(r)' = "open"
  BY <1>1, NewTxIsOpen DEF SettlementPhase, Stored, IsTerminal, Sound, TypeOK, StoreTypeOK
<1>3. \A t \in Requests : t # r => SettlementPhase(t)' = SettlementPhase(t)
  BY <1>1 DEF SettlementPhase, Stored, IsTerminal, Sound, TypeOK, StoreTypeOK
<1>4. \A t \in Requests : Funded(t)' = Funded(t)
  BY <1>1 DEF Funded, PaidCharge
<1>5. phaseOf' = [phaseOf EXCEPT ![r] = "open"]
  BY <1>2, <1>3 DEF phaseOf
<1>6. UNCHANGED moneyOf
  BY <1>4 DEF moneyOf
<1>7. phaseOf[r] = "absent"
  BY <1>2 DEF phaseOf
<1> QED BY <1>5, <1>6, <1>7 DEF Abstract!Open, phaseOf, moneyOf

LEMMA RewriteSettles ==
  ASSUME Sound, Settling, Keeps, NEW tx \in Tx, Rewrites(tx)
  PROVE  Abstract!Settle(tx.id) \/ UNCHANGED <<phaseOf, moneyOf>>
<1> DEFINE t == tx.id
<1>1. /\ tx \in SoundCopies /\ t \in Requests /\ Stored(t) /\ txs' = [txs EXCEPT ![t] = tx]
      /\ UNCHANGED <<charges, sent>>
  BY DEF Rewrites, UpdateTx, SoundCopies, Tx
<1>2. UNCHANGED moneyOf
  BY <1>1 DEF moneyOf, Funded, PaidCharge
<1>3. \A u \in Requests : u # t => SettlementPhase(u)' = SettlementPhase(u)
  BY <1>1 DEF SettlementPhase, Stored, IsTerminal, Sound, TypeOK, StoreTypeOK
<1>4. txs'[t] = tx /\ tx # NoTx
  BY <1>1, StoreAssumption DEF Sound, TypeOK, StoreTypeOK
<1>5. CASE IsTerminal(tx)
  <2>1. PICK how \in {"paid", "unpaid"} :
          SettlementPhase(t)' = how /\ (how = "paid" => tx.status = "COMPLETED")
    BY <1>4, <1>5 DEF SettlementPhase, Stored, IsTerminal
  <2>2. how = "paid" => Funded(t)
    BY <1>1, <2>1 DEF SoundCopies, FundedTxs
  <2>3. phaseOf' = [phaseOf EXCEPT ![t] = how]
    BY <1>3, <2>1 DEF phaseOf
  <2>4. phaseOf[t] # "absent" /\ (how = "paid" => moneyOf[t])
    BY <1>1, <2>2 DEF phaseOf, moneyOf, SettlementPhase
  <2> QED BY <1>2, <2>1, <2>3, <2>4 DEF Abstract!Settle, Abstract!Settled, phaseOf, moneyOf
<1>6. CASE ~IsTerminal(tx)
  <2>1. ~IsTerminal(txs[t])
    BY <1>1, <1>4, <1>6, KnownIsHanded DEF Keeps, IsTerminal
  <2>2. SettlementPhase(t)' = "open" /\ SettlementPhase(t) = "open"
    BY <1>1, <1>4, <1>6, <2>1 DEF SettlementPhase, Stored, IsTerminal
  <2>3. UNCHANGED phaseOf
    BY <1>3, <2>2 DEF phaseOf
  <2> QED BY <1>2, <2>3
<1> QED BY <1>5, <1>6

LEMMA ReportCollects ==
  ASSUME Sound, Grows, NEW c \in ChargeIds, NEW t \in Requests, NEW s \in ChargeStatus, Reports(c, t, s)
  PROVE  Abstract!Collect(t) \/ UNCHANGED <<phaseOf, moneyOf>>
<1>1. /\ Stored(t) /\ UNCHANGED txs
      /\ charges[c] = NoCharge \/ charges[c].ref = t
      /\ charges' = [charges EXCEPT ![c] = [ref |-> t, status |-> s]]
      /\ sent' = sent \cup {[charge |-> c, status |-> s]}
  BY DEF Reports, PutCharge
<1>2. UNCHANGED phaseOf
  BY <1>1 DEF phaseOf, SettlementPhase, Stored, IsTerminal
<1>3. ASSUME NEW u \in Requests, u # t
      PROVE  Funded(u)' <=> Funded(u)
  <2>1. \A d \in ChargeIds : d # c => charges'[d] = charges[d] /\ PaidCharge(d)' = PaidCharge(d)
    BY <1>1 DEF PaidCharge, Sound, TypeOK, StoreTypeOK
  <2>2. charges'[c].ref = t
    BY <1>1 DEF Sound, TypeOK, StoreTypeOK
  <2> QED BY <1>1, <1>3, <2>1, <2>2 DEF Funded
<1>4. CASE Funded(t)' <=> Funded(t)
  <2>1. \A u \in Requests : Funded(u)' = Funded(u)
    BY <1>3, <1>4 DEF Funded
  <2>2. UNCHANGED moneyOf
    BY <2>1 DEF moneyOf
  <2> QED BY <1>2, <2>2
<1>5. CASE ~(Funded(t)' <=> Funded(t))
  <2>1. Funded(t)' /\ ~Funded(t)
    BY <1>5, FundedGrows DEF FundedTxs
  <2>2. moneyOf' = [moneyOf EXCEPT ![t] = TRUE]
    <3>1. \A u \in Requests : Funded(u)' = IF u = t THEN TRUE ELSE Funded(u)
      BY <1>3, <2>1 DEF Funded
    <3> QED BY <3>1 DEF moneyOf
  <2>3. phaseOf[t] # "absent" /\ ~moneyOf[t]
    BY <1>1, <2>1 DEF phaseOf, moneyOf, SettlementPhase
  <2> QED BY <1>2, <2>2, <2>3 DEF Abstract!Collect, phaseOf, moneyOf
<1> QED BY <1>4, <1>5

LEMMA NextImplements ==
  ASSUME Sound, Settling, [Next]_vars
  PROVE  [Abstract!Next]_<<phaseOf, moneyOf>>
<1>1. StoreStep /\ Grows /\ Keeps
  BY NextStoreStep, StepGrows, StepKeeps
<1>2. CASE UNCHANGED storeKept
  BY <1>2 DEF storeKept, phaseOf, moneyOf, SettlementPhase, Stored, IsTerminal, Funded, PaidCharge
<1>3. CASE \E r \in Requests : Inserts(r)
  BY <1>3, InsertOpens DEF Abstract!Next
<1>4. CASE \E tx \in Tx : Rewrites(tx)
  BY <1>1, <1>4, RewriteSettles DEF Abstract!Next, Tx
<1>5. CASE \E c \in ChargeIds, t \in Requests, s \in ChargeStatus : Reports(c, t, s)
  BY <1>1, <1>5, ReportCollects DEF Abstract!Next
<1> QED BY <1>1, <1>2, <1>3, <1>4, <1>5 DEF StoreStep

LEMMA InitImplements == Init => Abstract!Init
<1> SUFFICES ASSUME Init PROVE Abstract!Init
  OBVIOUS
<1>1. \A t \in Requests : SettlementPhase(t) = "absent" /\ Funded(t) = FALSE
  BY DEF Init, StoreInit, SettlementPhase, Stored, Funded
<1> QED BY <1>1 DEF Abstract!Init

\* While no two requests share an idempotency key the subsystem implements Settlement:
\* whatever handlers, workflows and runs overlap, a transaction opens once, is settled
\* for good, and as paid only once its money was collected.
THEOREM SettlementIsImplemented == KeysAreUnique /\ Spec => ImplementsSettlement
<1> SUFFICES ASSUME KeysAreUnique PROVE Spec => ImplementsSettlement
  OBVIOUS
<1>1. Sound /\ Settling /\ [Next]_vars => [Abstract!Next]_<<phaseOf, moneyOf>>
  BY NextImplements
<1> QED
  BY <1>1, InitImplements, SoundIsInvariant, SettlingIsInvariant, PTL
     DEF Spec, ImplementsSettlement, Abstract!Spec, phaseOf, moneyOf

=============================================================================
