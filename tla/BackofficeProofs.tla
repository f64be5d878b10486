--------------------------- MODULE BackofficeProofs ---------------------------
(***************************************************************************)
(* Safety of Backoffice for every number of documents, handlers, requests  *)
(* and attempts.  Each component has an invariant of its documents and one *)
(* of what its handlers have kept; a step of one component is a step of    *)
(* somebody else, or none, for the others.                                 *)
(***************************************************************************)
EXTENDS Backoffice, FoldFacts

BillingOps == {"replacePagamento", "deletePagamento", "replaceConfig", "saveConfig"}
MethodsOps == {"create", "replace", "clear", "delete", "set"}
CustomersOps == {"listCustomers", "postCustomer", "saveLink"}
SettingsOps == {"insertSetting", "readSetting"}
NoticesOps == {"replaceNotice", "deleteNotice", "replaceTemplate", "deleteTemplate"}
FilesOps == {"saveMetadata", "dropContent", "dropMetadata"}
BackofficeOps == BillingOps \cup MethodsOps \cup CustomersOps \cup SettingsOps \cup NoticesOps \cup FilesOps

\* One handler moves to c, or none does.
Moves(s, c) == calls' = [calls EXCEPT ![s] = c]
\* No handler enters a step of these operations.
Elsewhere(ops) == UNCHANGED calls \/ \E s \in Slots : \E c : Moves(s, c) /\ c.op \notin ops

LEMMA CallsAfter ==
  ASSUME DOMAIN calls = Slots, NEW s \in Slots, NEW c, Moves(s, c)
  PROVE  DOMAIN calls' = Slots /\ \A t \in Slots : calls'[t] = IF t = s THEN c ELSE calls[t]
BY DEF Moves

\* Who is at one of the operations was there before, with the same record.
LEMMA ElsewhereKeeps ==
  ASSUME DOMAIN calls = Slots, NEW ops, Elsewhere(ops)
  PROVE  /\ DOMAIN calls' = Slots
         /\ \A t \in Slots : calls'[t].op \in ops => calls'[t] = calls[t]
<1>1. CASE UNCHANGED calls
  BY <1>1
<1>2. ASSUME NEW s \in Slots, NEW c, Moves(s, c), c.op \notin ops
      PROVE  /\ DOMAIN calls' = Slots
             /\ \A t \in Slots : calls'[t].op \in ops => calls'[t] = calls[t]
  BY <1>2, CallsAfter
<1> QED BY <1>1, <1>2 DEF Elsewhere

LEMMA ServedNext ==
  ASSUME served \in 0..MaxRequests, served < MaxRequests
  PROVE  served + 1 \in 0..MaxRequests /\ served + 1 \in 1..MaxRequests /\ served + 1 # 0
BY HandlersAssumption

-----------------------------------------------------------------------------
(* Billing.                                                                *)

\* A version names the fees it came with.
Named(config) == config.version # 0 => config.fees \in {0, config.version}

BillingSound ==
  /\ BillingTypeOK
  /\ \A c \in Configs : ConfigExists(c) => Named(configs[c])

\* Nobody who found the payment paid writes it.  A copy of a configuration holds the
\* event's key of this backend exactly when the document does.
BillingCallOK(c) ==
  c.op \in BillingOps =>
    /\ c \in BillingCall(c.op)
    /\ c.op = "replacePagamento" => c.seen # "PAGO"
    /\ c.op \in {"replaceConfig", "saveConfig"} => Named(c.copy)
    /\ c.op = "saveConfig" => c.copy.keys = {"evento_id"}
    /\ c.op = "replaceConfig" =>
         /\ ConfigExists(c.config)
         /\ c.copy.keys = configs[c.config].keys \cap {"evento_id"}

\* Configurations are not deleted, and hold this backend's key as long as they did.
KeysStay ==
  \A c \in Configs : ConfigExists(c) =>
    ConfigExists(c)' /\ configs'[c].keys \cap {"evento_id"} = configs[c].keys \cap {"evento_id"}

\* What a step of Billing has to keep.
BillingKept ==
  /\ BillingSound' /\ KeysStay
  /\ \A d : BillingCallOK(d) => BillingCallOK(d)'
  /\ \/ UNCHANGED calls
     \/ \E s \in Slots : \E c : Moves(s, c) /\ (c = NoCall \/ c.op \in BillingOps) /\ BillingCallOK(c)'
  /\ served' \in 0..MaxRequests

LEMMA BillingStays ==
  ASSUME BillingSound, UNCHANGED billingVars
  PROVE  BillingSound' /\ \A d : BillingCallOK(d) => BillingCallOK(d)'
<1>1. UNCHANGED <<pagamentos, configs>>
  BY DEF billingVars
<1>2. BillingSound'
  BY <1>1 DEF BillingSound, BillingTypeOK, ConfigExists, Named
<1>3. \A d : BillingCallOK(d) => BillingCallOK(d)'
  BY <1>1 DEF BillingCallOK, ConfigExists, Named, BillingCall
<1> QED BY <1>2, <1>3

\* A step that only begins or ends a handler of Billing.
LEMMA BillingReadKeeps ==
  ASSUME BillingSound, served \in 0..MaxRequests, NEW s \in Slots, NEW c, BillingCallOK(c),
         c = NoCall \/ c.op \in BillingOps,
         Begin(s, c) \/ Continue(s, c), UNCHANGED billingVars
  PROVE  BillingKept
<1>1. Moves(s, c) /\ served' \in 0..MaxRequests
  BY ServedNext DEF Begin, Continue, Moves
<1>2. BillingCallOK(c)'
  BY BillingStays
<1>3. KeysStay
  BY DEF KeysStay, ConfigExists, billingVars
<1> QED BY <1>1, <1>2, <1>3, BillingStays DEF BillingKept

LEMMA ApplyFeesNamed ==
  ASSUME NEW config \in Config, Named(config), served \in 0..MaxRequests, served < MaxRequests,
         NEW fees \in {0, served + 1}
  PROVE  /\ ApplyFees(config, fees) \in Config /\ Named(ApplyFees(config, fees))
         /\ ApplyFees(config, fees).keys = config.keys
<1>1. fees \in Schedules /\ served + 1 \in Schedules /\ served + 1 # 0
  BY ServedNext, HandlersAssumption DEF Schedules
<1>2. PICK version : version = IF fees = 0 THEN config.version ELSE buildFeePolicyVersion(fees)
  OBVIOUS
<1>3. version \in Schedules /\ (fees = 0 \/ version = fees)
  BY <1>1, <1>2 DEF buildFeePolicyVersion, Config
<1>4. ApplyFees(config, fees) = [config EXCEPT !.fees = fees, !.version = version]
  BY <1>2 DEF ApplyFees
<1>5. PICK new : new = [config EXCEPT !.fees = fees, !.version = version]
  OBVIOUS
<1>6. new \in Config /\ new.fees = fees /\ new.version = version /\ new.keys = config.keys
  BY <1>1, <1>3, <1>5 DEF Config
<1> QED BY <1>3, <1>4, <1>5, <1>6 DEF Named

LEMMA BillingReads ==
  ASSUME BillingSound, served \in 0..MaxRequests, NEW s \in Slots,
         \/ \E u \in Users : updatePagamento(s, u) \/ deletePagamento(s, u) \/ confirmarPagamento(s, u)
         \/ upsertConfig(s)
  PROVE  BillingKept
<1>0. /\ pagamentos \in [Payments -> Pagamento \cup {NewPayment, Erased}]
      /\ configs \in [Configs -> Config \cup {NewConfig}]
  BY DEF BillingSound, BillingTypeOK
<1>1. ASSUME NEW u \in Users, NEW p \in Payments, UpdatePagamento(s, u, p) PROVE BillingKept
  <2>1. pagamentos[p] \in Pagamento /\ pagamentos[p].status # "PAGO"
    BY <1>0, <1>1 DEF UpdatePagamento, IsOwner, PaymentExists, IsPago
  <2>2. PICK copy : copy = [pagamentos[p] EXCEPT !.edited = TRUE]
    OBVIOUS
  <2>3. copy \in Pagamento
    BY <2>1, <2>2 DEF Pagamento
  <2>4. PICK c : c = [op |-> "replacePagamento", payment |-> p, copy |-> copy, seen |-> pagamentos[p].status]
    OBVIOUS
  <2>5. BillingCallOK(c)
    BY <2>1, <2>3, <2>4 DEF BillingCallOK, BillingCall, Pagamento
  <2>6. Begin(s, c) /\ UNCHANGED billingVars
    BY <1>1, <2>2, <2>4 DEF UpdatePagamento, WriteBack
  <2> QED BY <2>4, <2>5, <2>6, BillingReadKeeps DEF BillingOps
<1>2. ASSUME NEW u \in Users, NEW p \in Payments, ConfirmarPagamento(s, u, p) PROVE BillingKept
  <2>1. pagamentos[p] \in Pagamento /\ pagamentos[p].status # "PAGO"
    BY <1>0, <1>2 DEF ConfirmarPagamento, IsOwner, PaymentExists, CanPay
  <2>2. PICK copy : copy = [pagamentos[p] EXCEPT !.status = "PAGO"]
    OBVIOUS
  <2>3. copy \in Pagamento
    BY <2>1, <2>2 DEF Pagamento, StatusPagamento
  <2>4. PICK c : c = [op |-> "replacePagamento", payment |-> p, copy |-> copy, seen |-> pagamentos[p].status]
    OBVIOUS
  <2>5. BillingCallOK(c)
    BY <2>1, <2>3, <2>4 DEF BillingCallOK, BillingCall, Pagamento
  <2>6. Begin(s, c) /\ UNCHANGED billingVars
    BY <1>2, <2>2, <2>4 DEF ConfirmarPagamento, WriteBack
  <2> QED BY <2>4, <2>5, <2>6, BillingReadKeeps DEF BillingOps
<1>3. ASSUME NEW u \in Users, NEW p \in Payments, DeletePagamento(s, u, p) PROVE BillingKept
  <2>1. PICK c : c = [op |-> "deletePagamento", payment |-> p]
    OBVIOUS
  <2>2. BillingCallOK(c)
    BY <2>1 DEF BillingCallOK, BillingCall
  <2>3. Begin(s, c) /\ UNCHANGED billingVars
    BY <1>3, <2>1 DEF DeletePagamento
  <2> QED BY <2>1, <2>2, <2>3, BillingReadKeeps DEF BillingOps
<1>4. ASSUME NEW fees \in {0, served + 1}, UpsertConfigPagamento(s, fees) PROVE BillingKept
  <2>0. served < MaxRequests /\ UNCHANGED billingVars
    BY <1>4 DEF UpsertConfigPagamento, Begin
  <2>1. ASSUME NEW k \in FindByEventoID,
               Begin(s, [op |-> "replaceConfig", config |-> k, copy |-> ApplyFees(Decoded(configs[k]), fees)])
        PROVE  BillingKept
    <3>1. k \in Configs /\ ConfigExists(k) /\ configs[k] \in Config /\ Named(configs[k])
      BY <1>0 DEF FindByEventoID, Found, ConfigExists, BillingSound
    <3>2. PICK config : config = Decoded(configs[k])
      OBVIOUS
    <3>3. /\ config \in Config /\ config.keys = configs[k].keys \cap {"evento_id"} /\ Named(config)
      BY <3>1, <3>2 DEF Decoded, Config, Named
    <3>4. PICK copy : copy = ApplyFees(config, fees)
      OBVIOUS
    <3>5. copy \in Config /\ Named(copy) /\ copy.keys = config.keys
      BY <2>0, <3>3, <3>4, ApplyFeesNamed
    <3>6. PICK c : c = [op |-> "replaceConfig", config |-> k, copy |-> copy]
      OBVIOUS
    <3>7. BillingCallOK(c)
      BY <3>1, <3>3, <3>5, <3>6 DEF BillingCallOK, BillingCall
    <3>8. Begin(s, c)
      BY <2>1, <3>2, <3>4, <3>6
    <3> QED BY <2>0, <3>6, <3>7, <3>8, BillingReadKeeps DEF BillingOps
  <2>2. ASSUME Begin(s, [op |-> "saveConfig", copy |-> ApplyFees([NoConfig EXCEPT !.keys = {"evento_id"}], fees)])
        PROVE  BillingKept
    <3>1. PICK config : config = [NoConfig EXCEPT !.keys = {"evento_id"}]
      OBVIOUS
    <3>2. config \in Config /\ config.keys = {"evento_id"} /\ Named(config)
      <4>1. config = [keys |-> {"evento_id"}, fees |-> 0, version |-> 0]
        BY <3>1 DEF NoConfig
      <4>2. 0 \in Schedules
        BY HandlersAssumption DEF Schedules
      <4> QED BY <4>1, <4>2 DEF Config, Named
    <3>3. PICK copy : copy = ApplyFees(config, fees)
      OBVIOUS
    <3>4. copy \in Config /\ Named(copy) /\ copy.keys = config.keys
      BY <2>0, <3>2, <3>3, ApplyFeesNamed
    <3>5. PICK c : c = [op |-> "saveConfig", copy |-> copy]
      OBVIOUS
    <3>6. BillingCallOK(c)
      BY <3>2, <3>4, <3>5 DEF BillingCallOK, BillingCall
    <3>7. Begin(s, c)
      BY <2>2, <3>1, <3>3, <3>5
    <3> QED BY <2>0, <3>5, <3>6, <3>7, BillingReadKeeps DEF BillingOps
  <2> QED BY <1>4, <2>1, <2>2 DEF UpsertConfigPagamento
<1> QED BY <1>1, <1>2, <1>3, <1>4 DEF updatePagamento, deletePagamento, confirmarPagamento, upsertConfig

\* A step of Billing moves at most one handler, and ends it or leaves it where it may be.
LEMMA BillingEnds ==
  ASSUME served \in 0..MaxRequests,
         \/ UNCHANGED calls /\ (UNCHANGED served \/ (served < MaxRequests /\ served' = served + 1))
         \/ \E s \in Slots : Finish(s)
  PROVE  /\ \/ UNCHANGED calls
            \/ \E s \in Slots : \E c : Moves(s, c) /\ (c = NoCall \/ c.op \in BillingOps) /\ BillingCallOK(c)'
         /\ served' \in 0..MaxRequests
<1>1. NoCall.op \notin BillingOps
  BY DEF NoCall, BillingOps
<1>2. BillingCallOK(NoCall)'
  BY <1>1 DEF BillingCallOK
<1>3. ASSUME NEW s \in Slots, Finish(s)
      PROVE  Moves(s, NoCall) /\ served' = served
  BY <1>3 DEF Finish, Continue, Moves
<1> QED BY <1>2, <1>3, ServedNext

LEMMA CallsOutlivePagamentos ==
  ASSUME UNCHANGED configs
  PROVE  \A d : BillingCallOK(d) => BillingCallOK(d)'
BY DEF BillingCallOK, ConfigExists, Named, BillingCall

\* Configurations are never deleted; their keys change only where a copy is written back,
\* which holds no key that the document does not.
LEMMA CallsOutliveConfigs ==
  ASSUME \A c \in Configs : ConfigExists(c) => ConfigExists(c)',
         \A c \in Configs : ConfigExists(c) => configs'[c].keys \cap {"evento_id"} = configs[c].keys \cap {"evento_id"}
  PROVE  \A d : BillingCallOK(d) => BillingCallOK(d)'
<1> SUFFICES ASSUME NEW d, BillingCallOK(d), d.op \in BillingOps PROVE BillingCallOK(d)'
  BY DEF BillingCallOK
<1>1. /\ d \in BillingCall(d.op)
      /\ d.op = "replacePagamento" => d.seen # "PAGO"
      /\ d.op \in {"replaceConfig", "saveConfig"} => Named(d.copy)
      /\ d.op = "saveConfig" => d.copy.keys = {"evento_id"}
  BY DEF BillingCallOK
<1>2. CASE d.op = "replaceConfig"
  <2>1. /\ ConfigExists(d.config) /\ d.copy.keys = configs[d.config].keys \cap {"evento_id"}
        /\ d.config \in Configs
    BY <1>1, <1>2 DEF BillingCallOK, BillingCall
  <2>2. ConfigExists(d.config)' /\ d.copy.keys = configs'[d.config].keys \cap {"evento_id"}
    BY <2>1
  <2> QED BY <1>1, <1>2, <2>2 DEF BillingCallOK, BillingCall, Named
<1>3. CASE d.op # "replaceConfig"
  BY <1>1, <1>3 DEF BillingCallOK, BillingCall, Named
<1> QED BY <1>2, <1>3

LEMMA PagamentosWrites ==
  ASSUME BillingSound, served \in 0..MaxRequests, DOMAIN calls = Slots,
         \A s \in Slots : BillingCallOK(calls[s]),
         \/ \E s \in Slots : (\E u \in Users : createPagamento(s, u)) \/ StorePagamento(s) \/ ErasePagamento(s)
         \/ Vencer
  PROVE  BillingKept
<1>0. /\ pagamentos \in [Payments -> Pagamento \cup {NewPayment, Erased}]
      /\ configs \in [Configs -> Config \cup {NewConfig}]
      /\ \A c \in Configs : ConfigExists(c) => Named(configs[c])
  BY DEF BillingSound, BillingTypeOK
<1>1. ASSUME pagamentos' \in [Payments -> Pagamento \cup {NewPayment, Erased}], UNCHANGED configs,
             \/ UNCHANGED calls /\ (UNCHANGED served \/ (served < MaxRequests /\ served' = served + 1))
             \/ \E s \in Slots : Finish(s)
      PROVE  BillingKept
  <2>1. BillingSound'
    BY <1>0, <1>1 DEF BillingSound, BillingTypeOK, ConfigExists, Named
  <2>2. KeysStay
    BY <1>1 DEF KeysStay, ConfigExists
  <2> QED BY <1>1, <2>1, <2>2, BillingEnds, CallsOutlivePagamentos DEF BillingKept
<1>2. ASSUME NEW s \in Slots, NEW u \in Users, NEW p \in Payments, CreatePagamento(s, u, p) PROVE BillingKept
  <2>1. PICK new : new = [owner |-> u, status |-> "PENDENTE", edited |-> FALSE]
    OBVIOUS
  <2>2. new \in Pagamento
    BY <2>1 DEF Pagamento, StatusPagamento
  <2>3. pagamentos' = [pagamentos EXCEPT ![p] = new]
    BY <1>2, <2>1 DEF CreatePagamento, SavePagamento
  <2>4. /\ UNCHANGED calls /\ served < MaxRequests /\ served' = served + 1 /\ UNCHANGED configs
    BY <1>2 DEF CreatePagamento
  <2>5. pagamentos' \in [Payments -> Pagamento \cup {NewPayment, Erased}]
    BY <1>0, <2>2, <2>3
  <2> QED BY <1>1, <2>4, <2>5
<1>3. ASSUME NEW s \in Slots, StorePagamento(s) PROVE BillingKept
  <2>1. calls[s].copy \in Pagamento
    BY <1>3 DEF StorePagamento, At, BillingCallOK, BillingOps, BillingCall
  <2>2. pagamentos' \in [Payments -> Pagamento \cup {NewPayment, Erased}]
    BY <1>0, <1>3, <2>1 DEF StorePagamento, ReplacePagamento
  <2> QED BY <1>1, <1>3, <2>2 DEF StorePagamento
<1>4. ASSUME NEW s \in Slots, ErasePagamento(s) PROVE BillingKept
  <2>1. pagamentos' \in [Payments -> Pagamento \cup {NewPayment, Erased}]
    BY <1>0, <1>4 DEF ErasePagamento, DeletePagamentoByID
  <2> QED BY <1>1, <1>4, <2>1 DEF ErasePagamento
<1>5. ASSUME Vencer PROVE BillingKept
  <2>1. PICK p \in Payments : PaymentExists(p) /\ pagamentos' = [pagamentos EXCEPT ![p].status = "VENCIDO"]
    BY <1>5 DEF Vencer
  <2>2. pagamentos[p] \in Pagamento
    BY <1>0, <2>1 DEF PaymentExists
  <2>3. PICK new : new = [pagamentos[p] EXCEPT !.status = "VENCIDO"]
    OBVIOUS
  <2>4. new \in Pagamento
    BY <2>2, <2>3 DEF Pagamento, StatusPagamento
  <2>5. pagamentos' = [pagamentos EXCEPT ![p] = new]
    BY <2>1, <2>3
  <2>6. pagamentos' \in [Payments -> Pagamento \cup {NewPayment, Erased}]
    BY <1>0, <2>4, <2>5
  <2>7. UNCHANGED calls /\ UNCHANGED served /\ UNCHANGED configs
    BY <1>5 DEF Vencer, handlerVars
  <2> QED BY <1>1, <2>6, <2>7
<1> QED BY <1>2, <1>3, <1>4, <1>5 DEF createPagamento

LEMMA ConfigsWrites ==
  ASSUME BillingSound, served \in 0..MaxRequests, DOMAIN calls = Slots,
         \A s \in Slots : BillingCallOK(calls[s]),
         (\E s \in Slots : reaplicarFeePolicy(s) \/ StoreConfig(s)) \/ JavaConfig
  PROVE  BillingKept
<1>0. /\ pagamentos \in [Payments -> Pagamento \cup {NewPayment, Erased}]
      /\ configs \in [Configs -> Config \cup {NewConfig}]
      /\ \A c \in Configs : ConfigExists(c) => Named(configs[c])
  BY DEF BillingSound, BillingTypeOK
<1>1. ASSUME configs' \in [Configs -> Config \cup {NewConfig}], UNCHANGED pagamentos,
             \A c \in Configs : ConfigExists(c)' => Named(configs'[c]),
             \A c \in Configs : ConfigExists(c) => ConfigExists(c)',
             \A c \in Configs : ConfigExists(c) => configs'[c].keys \cap {"evento_id"} = configs[c].keys \cap {"evento_id"},
             \/ UNCHANGED calls /\ (UNCHANGED served \/ (served < MaxRequests /\ served' = served + 1))
             \/ \E s \in Slots : Finish(s)
      PROVE  BillingKept
  <2>1. BillingSound'
    BY <1>0, <1>1 DEF BillingSound, BillingTypeOK, ConfigExists, Named
  <2>2. \A d : BillingCallOK(d) => BillingCallOK(d)'
    BY <1>1, CallsOutliveConfigs
  <2>3. KeysStay
    BY <1>1 DEF KeysStay
  <2> QED BY <1>1, <2>1, <2>2, <2>3, BillingEnds DEF BillingKept
<1>2. ASSUME NEW c \in Configs, NEW config \in Config, configs' = [configs EXCEPT ![c] = config], Named(config),
             ConfigExists(c) => config.keys \cap {"evento_id"} = configs[c].keys \cap {"evento_id"}
      PROVE  /\ configs' \in [Configs -> Config \cup {NewConfig}]
             /\ \A d \in Configs : ConfigExists(d)' => Named(configs'[d])
             /\ \A d \in Configs : ConfigExists(d) => ConfigExists(d)'
             /\ \A d \in Configs : ConfigExists(d) =>
                  configs'[d].keys \cap {"evento_id"} = configs[d].keys \cap {"evento_id"}
  <2>1. config # NewConfig
    BY BillingAssumption
  <2> QED BY <1>0, <1>2, <2>1 DEF ConfigExists
<1>3. ASSUME NEW s \in Slots, NEW fees \in {0, served + 1}, ReaplicarFeePolicySnapshot(s, fees)
      PROVE  BillingKept
  <2>1. /\ served < MaxRequests /\ served' = served + 1 /\ UNCHANGED calls /\ UNCHANGED pagamentos
        /\ BulkUpdateFeeFields(fees, served + 1)
    BY <1>3 DEF ReaplicarFeePolicySnapshot
  <2>2. fees \in Schedules /\ served + 1 \in Schedules
    BY <2>1, ServedNext, HandlersAssumption DEF Schedules
  <2>3. ASSUME NEW c \in Configs, ConfigExists(c)
        PROVE  /\ configs'[c] \in Config /\ Named(configs'[c])
               /\ configs'[c].keys = configs[c].keys
    <3>1. configs[c] \in Config
      BY <1>0, <2>3 DEF ConfigExists
    <3>2. PICK new : new = [configs[c] EXCEPT !.fees = fees, !.version = served + 1]
      OBVIOUS
    <3>3. new \in Config /\ new.fees = fees /\ new.version = served + 1 /\ new.keys = configs[c].keys
      BY <2>2, <3>1, <3>2 DEF Config
    <3>4. configs'[c] = new
      BY <2>1, <2>3, <3>2 DEF BulkUpdateFeeFields
    <3> QED BY <3>3, <3>4 DEF Named
  <2>4. \A c \in Configs : ~ConfigExists(c) => configs'[c] = NewConfig
    BY <2>1 DEF BulkUpdateFeeFields
  <2>5. DOMAIN configs' = Configs /\ configs' = [c \in Configs |-> configs'[c]]
    BY <2>1 DEF BulkUpdateFeeFields
  <2>6. configs' \in [Configs -> Config \cup {NewConfig}]
    BY <2>3, <2>4, <2>5
  <2>7. \A c \in Configs : ConfigExists(c)' => ConfigExists(c)
    BY <2>4 DEF ConfigExists
  <2>8. \A c \in Configs : ConfigExists(c) => ConfigExists(c)'
    BY <2>3, BillingAssumption DEF ConfigExists
  <2> QED BY <1>1, <2>1, <2>3, <2>6, <2>7, <2>8
<1>4. ASSUME NEW s \in Slots, At(s, "replaceConfig"), ReplaceConfig(calls[s].config, calls[s].copy),
             Finish(s), UNCHANGED pagamentos
      PROVE  BillingKept
  <2>1. /\ calls[s].config \in Configs /\ calls[s].copy \in Config /\ Named(calls[s].copy)
        /\ calls[s].copy.keys = configs[calls[s].config].keys \cap {"evento_id"}
    BY <1>4 DEF At, BillingCallOK, BillingOps, BillingCall
  <2>2. PICK c \in Configs, config \in Config : c = calls[s].config /\ config = calls[s].copy
    BY <2>1
  <2>3. /\ configs' = [configs EXCEPT ![c] = config] /\ Named(config)
        /\ config.keys \cap {"evento_id"} = configs[c].keys \cap {"evento_id"}
    BY <1>4, <2>1, <2>2 DEF ReplaceConfig
  <2> QED BY <1>1, <1>2, <1>4, <2>3
<1>5. ASSUME NEW s \in Slots, At(s, "saveConfig"), NEW c \in Configs, NextConfig(c), SaveConfig(c, calls[s].copy),
             Finish(s), UNCHANGED pagamentos
      PROVE  BillingKept
  <2>1. /\ calls[s].copy \in Config /\ Named(calls[s].copy)
    BY <1>5 DEF At, BillingCallOK, BillingOps, BillingCall
  <2>2. PICK config \in Config : config = calls[s].copy
    BY <2>1
  <2>3. /\ configs' = [configs EXCEPT ![c] = config] /\ Named(config) /\ ~ConfigExists(c)
    BY <1>5, <2>1, <2>2 DEF SaveConfig, NextConfig
  <2> QED BY <1>1, <1>2, <1>5, <2>3
<1>6. ASSUME JavaConfig PROVE BillingKept
  <2>1. PICK config : config = [keys |-> {"eventoId"}, fees |-> 0, version |-> 0]
    OBVIOUS
  <2>2. 0 \in Schedules
    BY HandlersAssumption DEF Schedules
  <2>3. config \in Config /\ Named(config)
    BY <2>1, <2>2 DEF Config, Named
  <2>4. PICK c \in Configs : NextConfig(c) /\ SaveConfig(c, config)
    BY <1>6, <2>1 DEF JavaConfig
  <2>5. configs' = [configs EXCEPT ![c] = config] /\ ~ConfigExists(c)
    BY <2>4 DEF SaveConfig, NextConfig
  <2>6. served < MaxRequests /\ served' = served + 1 /\ UNCHANGED calls /\ UNCHANGED pagamentos
    BY <1>6 DEF JavaConfig
  <2> QED BY <1>1, <1>2, <2>3, <2>5, <2>6
<1> QED BY <1>3, <1>4, <1>5, <1>6 DEF reaplicarFeePolicy, StoreConfig

LEMMA BillingNextKeeps ==
  ASSUME BillingSound, served \in 0..MaxRequests, DOMAIN calls = Slots,
         \A s \in Slots : BillingCallOK(calls[s]), BillingNext
  PROVE  BillingKept
<1>1. ASSUME NEW s \in Slots, BillingRequest(s) PROVE BillingKept
  BY <1>1, BillingReads, PagamentosWrites, ConfigsWrites DEF BillingRequest
<1>2. ASSUME NEW s \in Slots, BillingStep(s) PROVE BillingKept
  BY <1>2, PagamentosWrites, ConfigsWrites DEF BillingStep
<1>3. CASE Vencer \/ JavaConfig
  BY <1>3, PagamentosWrites, ConfigsWrites
<1> QED BY <1>1, <1>2, <1>3 DEF BillingNext

LEMMA BillingVersions ==
  ASSUME BillingSound
  PROVE  VersionNamesItsFees
<1> SUFFICES ASSUME NEW c \in FindByEventoID, configs[c].version # 0
             PROVE  configs[c].fees \in {0, configs[c].version}
  BY DEF VersionNamesItsFees, ResolveSnapshot
<1>1. c \in Configs /\ ConfigExists(c)
  BY DEF FindByEventoID, Found
<1> QED BY <1>1 DEF BillingSound, Named

\* While a configuration that holds this backend's key exists, one is found.
LEMMA FoundStays ==
  ASSUME KeysStay, Found' = {}, NEW c \in Found
  PROVE  "evento_id" \notin configs[c].keys
<1>1. c \in Configs /\ ConfigExists(c)
  BY DEF Found
<1>2. ConfigExists(c)' /\ configs'[c].keys \cap {"evento_id"} = configs[c].keys \cap {"evento_id"}
  BY <1>1 DEF KeysStay
<1>3. configs'[c].keys = {}
  BY <1>1, <1>2 DEF Found
<1> QED BY <1>2, <1>3

LEMMA PaidIsOverwrittenByAStaleCopy ==
  ASSUME BillingSound, DOMAIN calls = Slots, \A s \in Slots : BillingCallOK(calls[s]), BillingNext,
         NEW p \in Payments, PaymentExists(p), IsPago(p), pagamentos'[p] \notin {pagamentos[p], Erased}
  PROVE  \E s \in Slots : At(s, "replacePagamento") /\ calls[s].payment = p /\ calls[s].seen # "PAGO"
<1>0. pagamentos \in [Payments -> Pagamento \cup {NewPayment, Erased}]
  BY DEF BillingSound, BillingTypeOK
<1>1. ASSUME NEW s \in Slots, NEW u \in Users, NEW q \in Payments, CreatePagamento(s, u, q) PROVE FALSE
  <2>1. pagamentos[q] = NewPayment /\ \A r \in Payments : r # q => pagamentos'[r] = pagamentos[r]
    BY <1>0, <1>1 DEF CreatePagamento, SavePagamento
  <2> QED BY <2>1 DEF PaymentExists
<1>2. ASSUME NEW s \in Slots, StorePagamento(s)
      PROVE  At(s, "replacePagamento") /\ calls[s].payment = p /\ calls[s].seen # "PAGO"
  <2>1. At(s, "replacePagamento") /\ ReplacePagamento(calls[s].payment, calls[s].copy)
    BY <1>2 DEF StorePagamento
  <2>2. calls[s].seen # "PAGO"
    BY <2>1 DEF At, BillingCallOK, BillingOps
  <2>3. calls[s].payment = p
    BY <1>0, <2>1 DEF ReplacePagamento
  <2> QED BY <2>1, <2>2, <2>3
<1>3. ASSUME NEW s \in Slots, ErasePagamento(s) PROVE FALSE
  BY <1>0, <1>3 DEF ErasePagamento, DeletePagamentoByID
<1>4. ASSUME Vencer PROVE FALSE
  <2>1. PICK q \in Payments : /\ pagamentos[q].status = "PENDENTE"
                              /\ pagamentos' = [pagamentos EXCEPT ![q].status = "VENCIDO"]
    BY <1>4 DEF Vencer
  <2>2. p # q
    BY <2>1 DEF IsPago
  <2> QED BY <1>0, <2>1, <2>2
<1>5. ASSUME UNCHANGED pagamentos PROVE FALSE
  BY <1>5
<1>6. ASSUME NEW s \in Slots, BillingRequest(s) PROVE FALSE
  BY <1>1, <1>5, <1>6
     DEF BillingRequest, createPagamento, updatePagamento, deletePagamento, confirmarPagamento, UpdatePagamento,
         DeletePagamento, ConfirmarPagamento, WriteBack, upsertConfig, UpsertConfigPagamento,
         reaplicarFeePolicy, ReaplicarFeePolicySnapshot, billingVars
<1>7. ASSUME NEW s \in Slots, StoreConfig(s) PROVE FALSE
  BY <1>5, <1>7 DEF StoreConfig
<1>8. ASSUME JavaConfig PROVE FALSE
  BY <1>5, <1>8 DEF JavaConfig
<1>9. PICK s \in Slots : StorePagamento(s)
  BY <1>3, <1>4, <1>6, <1>7, <1>8 DEF BillingNext, BillingStep
<1> QED BY <1>2, <1>9

-----------------------------------------------------------------------------
(* Payment accounts and saved cards.                                       *)

\* The handler may yet make an account a default of the user, of those that are or may be one.
Holds(c, u) ==
  /\ c.op \in {"replace", "set"} /\ c.user = u /\ c.method \in Accounts
  /\ c.op = "replace" => c.copy.isDefault /\ c.copy.isActive
\* The handler may yet create one.
Creates(c, u) == c.op = "create" /\ c.user = u /\ c.isDefault

Targets(u) == {calls[s].method : s \in {t \in Slots : Holds(calls[t], u)}}
Creators(u) == {s \in Slots : Creates(calls[s], u)}
Claimed(u) == Defaults(u) \cup Targets(u)

\* Every default of a user, present or to come, is the work of a handler of its own.
OverlapIsBounded(u) ==
  /\ IsFiniteSet(Claimed(u))
  /\ Cardinality(Claimed(u)) + Cardinality(Creators(u)) <= Cardinality(Slots)

MethodsSound == MethodsTypeOK /\ \A u \in Users : OverlapIsBounded(u)

\* The accounts handlers are at work on are saved, and of the users they are at work for.
MethodsCallOK(c) ==
  c.op \in MethodsOps =>
    /\ c \in MethodsCall(c.op)
    /\ c.op # "create" /\ c.method \in Accounts => Owns(c.user, c.method)
    /\ c.op = "replace" => c.copy.owner = c.user

MethodsKept ==
  /\ MethodsSound'
  /\ \A d : MethodsCallOK(d) => MethodsCallOK(d)'
  /\ \/ UNCHANGED calls
     \/ \E s \in Slots : \E c : Moves(s, c) /\ (c = NoCall \/ c.op \in MethodsOps) /\ MethodsCallOK(c)'
  /\ served' \in 0..MaxRequests

\* Handlers at work on accounts and other handlers are no more than there are slots.
LEMMA TargetsAndOthers ==
  ASSUME NEW H \in SUBSET Slots, NEW C \in SUBSET Slots, H \cap C = {}, NEW f,
         NEW T, T = {f[s].method : s \in H}
  PROVE  IsFiniteSet(T) /\ Cardinality(T) + Cardinality(C) <= Cardinality(Slots)
<1>1. IsFiniteSet(Slots) /\ IsFiniteSet(H) /\ IsFiniteSet(C) /\ IsFiniteSet(H \cup C)
  <2>1. IsFiniteSet(Slots)
    BY HandlersAssumption
  <2> QED BY <2>1, FS_Subset
<1>2. IsFiniteSet(T) /\ Cardinality(T) <= Cardinality(H)
  <2>1. PICK g : g = [s \in H |-> f[s].method]
    OBVIOUS
  <2>2. g \in Surjection(H, T)
    BY <2>1 DEF Surjection
  <2> QED BY <1>1, <2>2, FS_Surjection
<1>3. Cardinality(H \cup C) = Cardinality(H) + Cardinality(C) - Cardinality(H \cap C)
  BY <1>1, FS_Union
<1>4. Cardinality(H \cap C) = 0
  BY FS_EmptySet
<1>5. Cardinality(H \cup C) <= Cardinality(Slots)
  BY <1>1, FS_Subset
<1>6. /\ Cardinality(H) \in Nat /\ Cardinality(C) \in Nat /\ Cardinality(T) \in Nat
      /\ Cardinality(Slots) \in Nat /\ Cardinality(H \cup C) \in Nat
  BY <1>1, <1>2, FS_CardinalityType
<1> QED BY <1>2, <1>3, <1>4, <1>5, <1>6

LEMMA CreatorsAreFinite ==
  ASSUME NEW C \in SUBSET Slots
  PROVE  IsFiniteSet(C) /\ Cardinality(C) \in Nat /\ Cardinality(Slots) \in Nat
<1>1. IsFiniteSet(Slots)
  BY HandlersAssumption
<1>2. IsFiniteSet(C)
  BY <1>1, FS_Subset
<1> QED BY <1>1, <1>2, FS_CardinalityType

\* What there is and who may still add to it, together no more than there are slots, stay so
\* when both shrink,
LEMMA BoundShrinks ==
  ASSUME NEW S, NEW T \in SUBSET S, NEW C \in SUBSET Slots, NEW D \in SUBSET C,
         IsFiniteSet(S), Cardinality(S) + Cardinality(C) <= Cardinality(Slots)
  PROVE  IsFiniteSet(T) /\ Cardinality(T) + Cardinality(D) <= Cardinality(Slots)
<1>1. IsFiniteSet(T) /\ Cardinality(T) <= Cardinality(S)
  BY FS_Subset
<1>2. Cardinality(D) <= Cardinality(C) /\ D \in SUBSET Slots
  BY CreatorsAreFinite, FS_Subset
<1>3. /\ Cardinality(S) \in Nat /\ Cardinality(T) \in Nat /\ Cardinality(C) \in Nat
      /\ Cardinality(D) \in Nat /\ Cardinality(Slots) \in Nat
  BY <1>1, <1>2, CreatorsAreFinite, FS_CardinalityType
<1> QED BY <1>1, <1>2, <1>3

\* and when one of those who may add does.
LEMMA BoundMoves ==
  ASSUME NEW S, NEW m, NEW T \in SUBSET (S \cup {m}), NEW C \in SUBSET Slots, NEW s \in C,
         NEW D \in SUBSET (C \ {s}),
         IsFiniteSet(S), Cardinality(S) + Cardinality(C) <= Cardinality(Slots)
  PROVE  IsFiniteSet(T) /\ Cardinality(T) + Cardinality(D) <= Cardinality(Slots)
<1>1. Cardinality(S) \in Nat
  BY FS_CardinalityType
<1>2. /\ IsFiniteSet(S \cup {m})
      /\ Cardinality(S \cup {m}) = IF m \in S THEN Cardinality(S) ELSE Cardinality(S) + 1
  BY FS_AddElement
<1>3. Cardinality(S \cup {m}) <= Cardinality(S) + 1
  BY <1>1, <1>2
<1>4. IsFiniteSet(T) /\ Cardinality(T) <= Cardinality(S \cup {m})
  BY <1>2, FS_Subset
<1>5. IsFiniteSet(C \ {s}) /\ Cardinality(C \ {s}) = Cardinality(C) - 1
  BY CreatorsAreFinite, FS_RemoveElement
<1>6. Cardinality(D) <= Cardinality(C \ {s}) /\ D \in SUBSET Slots
  BY <1>5, FS_Subset
<1>7. /\ Cardinality(T) \in Nat /\ Cardinality(C) \in Nat /\ Cardinality(D) \in Nat
      /\ Cardinality(Slots) \in Nat /\ Cardinality(S \cup {m}) \in Nat
  BY <1>2, <1>4, <1>6, CreatorsAreFinite, FS_CardinalityType
<1> QED BY <1>1, <1>3, <1>4, <1>5, <1>6, <1>7

LEMMA OverlapShrinks ==
  ASSUME NEW u \in Users, OverlapIsBounded(u), Claimed(u)' \subseteq Claimed(u), Creators(u)' \subseteq Creators(u)
  PROVE  OverlapIsBounded(u)'
<1>1. PICK S, T, C, D : S = Claimed(u) /\ T = Claimed(u)' /\ C = Creators(u) /\ D = Creators(u)'
  OBVIOUS
<1>2. /\ T \in SUBSET S /\ C \in SUBSET Slots /\ D \in SUBSET C
      /\ IsFiniteSet(S) /\ Cardinality(S) + Cardinality(C) <= Cardinality(Slots)
  BY <1>1 DEF OverlapIsBounded, Creators
<1>3. IsFiniteSet(T) /\ Cardinality(T) + Cardinality(D) <= Cardinality(Slots)
  BY <1>2, BoundShrinks
<1> QED BY <1>1, <1>3 DEF OverlapIsBounded

\* A creator becomes the default it creates.
LEMMA OverlapMoves ==
  ASSUME NEW u \in Users, OverlapIsBounded(u), NEW m, NEW s \in Creators(u),
         Claimed(u)' \subseteq Claimed(u) \cup {m}, Creators(u)' \subseteq Creators(u) \ {s}
  PROVE  OverlapIsBounded(u)'
<1>1. PICK S, T, C, D : S = Claimed(u) /\ T = Claimed(u)' /\ C = Creators(u) /\ D = Creators(u)'
  OBVIOUS
<1>2. /\ T \in SUBSET (S \cup {m}) /\ C \in SUBSET Slots /\ s \in C /\ D \in SUBSET (C \ {s})
      /\ IsFiniteSet(S) /\ Cardinality(S) + Cardinality(C) <= Cardinality(Slots)
  BY <1>1 DEF OverlapIsBounded, Creators
<1>3. IsFiniteSet(T) /\ Cardinality(T) + Cardinality(D) <= Cardinality(Slots)
  BY <1>2, BoundMoves
<1> QED BY <1>1, <1>3 DEF OverlapIsBounded

\* After the defaults of a user were cleared, only handlers at work can bring one back.
LEMMA OverlapStartsAfresh ==
  ASSUME NEW u \in Users, Defaults(u)' = {}
  PROVE  OverlapIsBounded(u)'
<1>1. PICK f : f = calls'
  OBVIOUS
<1>2. PICK H, C : H = {t \in Slots : Holds(f[t], u)} /\ C = {t \in Slots : Creates(f[t], u)}
  OBVIOUS
<1>3. H \in SUBSET Slots /\ C \in SUBSET Slots /\ H \cap C = {}
  BY <1>2 DEF Holds, Creates
<1>4. PICK T : T = {f[s].method : s \in H}
  OBVIOUS
<1>5. IsFiniteSet(T) /\ Cardinality(T) + Cardinality(C) <= Cardinality(Slots)
  BY <1>3, <1>4, TargetsAndOthers
<1>6. T = Targets(u)' /\ C = Creators(u)'
  BY <1>1, <1>2, <1>4 DEF Targets, Creators, Holds, Creates
<1>7. T = Claimed(u)'
  BY <1>6 DEF Claimed
<1> QED BY <1>5, <1>6, <1>7 DEF OverlapIsBounded

\* Saved documents stay, with their owners.
OwnersStay == \A m \in Accounts \cup Cards : Saved(m) => Saved(m)' /\ methods'[m].owner = methods[m].owner

LEMMA MethodsCallsOutlive ==
  ASSUME OwnersStay
  PROVE  \A d : MethodsCallOK(d) => MethodsCallOK(d)'
<1> SUFFICES ASSUME NEW d, MethodsCallOK(d), d.op \in MethodsOps PROVE MethodsCallOK(d)'
  BY DEF MethodsCallOK
<1>1. d \in MethodsCall(d.op) /\ d.op = "replace" => d.copy.owner = d.user
  BY DEF MethodsCallOK
<1>2. ASSUME d.op # "create", d.method \in Accounts PROVE Owns(d.user, d.method)'
  BY <1>2 DEF MethodsCallOK, Owns, OwnersStay
<1> QED BY <1>1, <1>2 DEF MethodsCallOK, MethodsCall

LEMMA WriteMethod ==
  ASSUME MethodsTypeOK, NEW m \in Accounts \cup Cards, NEW new \in Method, methods' = [methods EXCEPT ![m] = new],
         Saved(m) => new.owner = methods[m].owner
  PROVE  /\ MethodsTypeOK' /\ OwnersStay
         /\ \A u \in Users : Defaults(u)' \subseteq
              Defaults(u) \cup {a \in Accounts : a = m /\ new.owner = u /\ new.isActive /\ new.isDefault}
<1>1. methods \in [Accounts \cup Cards -> Method \cup {NewMethod}] /\ new # NewMethod
  BY PaymentMethodsAssumption DEF MethodsTypeOK
<1>2. /\ methods' \in [Accounts \cup Cards -> Method \cup {NewMethod}] /\ methods'[m] = new
      /\ \A a \in Accounts \cup Cards : a # m => methods'[a] = methods[a]
  BY <1>1
<1>3. MethodsTypeOK' /\ OwnersStay
  BY <1>1, <1>2 DEF MethodsTypeOK, OwnersStay, Saved
<1>4. ASSUME NEW u \in Users, NEW a \in Defaults(u)', a \notin Defaults(u)
      PROVE  a \in Accounts /\ a = m /\ new.owner = u /\ new.isActive /\ new.isDefault
  <2>1. /\ a \in Accounts /\ Saved(a)' /\ methods'[a].owner = u /\ methods'[a].isActive
        /\ methods'[a].isDefault
    BY <1>4 DEF Defaults, listAccounts, ListAccounts, FindByUserID, Active
  <2>2. a = m
    BY <1>1, <1>2, <1>4, <2>1 DEF Defaults, listAccounts, ListAccounts, FindByUserID, Active, Saved
  <2> QED BY <1>2, <2>1, <2>2
<1> QED BY <1>3, <1>4

LEMMA ClearMethods ==
  ASSUME MethodsTypeOK, NEW collection, NEW u \in Users, ClearDefaults(collection, u)
  PROVE  /\ MethodsTypeOK' /\ OwnersStay
         /\ \A v \in Users : Defaults(v)' \subseteq Defaults(v)
         /\ collection = Accounts => Defaults(u)' = {}
<1>1. methods \in [Accounts \cup Cards -> Method \cup {NewMethod}]
  BY DEF MethodsTypeOK
<1>2. DOMAIN methods' = Accounts \cup Cards /\ methods' = [m \in Accounts \cup Cards |-> methods'[m]]
  BY <1>1 DEF ClearDefaults
<1>3. ASSUME NEW m \in Accounts \cup Cards, m \in collection, Saved(m), methods[m].owner = u
      PROVE  /\ methods'[m] \in Method /\ methods'[m].owner = u /\ methods'[m].isActive = methods[m].isActive
             /\ methods'[m].isDefault = FALSE
  <2>1. methods[m] \in Method
    BY <1>1, <1>3 DEF Saved
  <2>2. PICK new : new = [methods[m] EXCEPT !.isDefault = FALSE]
    OBVIOUS
  <2>3. new \in Method /\ new.owner = u /\ new.isActive = methods[m].isActive /\ new.isDefault = FALSE
    BY <1>3, <2>1, <2>2 DEF Method
  <2>4. methods'[m] = new
    BY <1>1, <1>3, <2>2 DEF ClearDefaults
  <2> QED BY <2>3, <2>4
<1>4. ASSUME NEW m \in Accounts \cup Cards, ~(m \in collection /\ Saved(m) /\ methods[m].owner = u)
      PROVE  methods'[m] = methods[m]
  BY <1>1, <1>4 DEF ClearDefaults
<1>5. MethodsTypeOK'
  BY <1>1, <1>2, <1>3, <1>4 DEF MethodsTypeOK
<1>6. OwnersStay
  <2> SUFFICES ASSUME NEW m \in Accounts \cup Cards, Saved(m)
               PROVE  Saved(m)' /\ methods'[m].owner = methods[m].owner
    BY DEF OwnersStay
  <2> QED BY <1>3, <1>4, PaymentMethodsAssumption DEF Saved
<1>7. ASSUME NEW v \in Users, NEW a \in Defaults(v)'
      PROVE  a \in Defaults(v) /\ ~(collection = Accounts /\ v = u)
  <2>1. /\ a \in Accounts /\ Saved(a)' /\ methods'[a].owner = v /\ methods'[a].isActive
        /\ methods'[a].isDefault
    BY <1>7 DEF Defaults, listAccounts, ListAccounts, FindByUserID, Active
  <2>2. ~(a \in collection /\ Saved(a) /\ methods[a].owner = u) /\ methods'[a] = methods[a]
    BY <1>3, <1>4, <2>1
  <2> QED BY <1>1, <2>1, <2>2 DEF Defaults, listAccounts, ListAccounts, FindByUserID, Active, Saved
<1> QED BY <1>5, <1>6, <1>7

LEMMA MoveMethods ==
  ASSUME DOMAIN calls = Slots, NEW s \in Slots, NEW c, Moves(s, c), NEW u
  PROVE  /\ Targets(u)' \subseteq Targets(u) \cup {m \in {c.method} : Holds(c, u)}
         /\ Creators(u)' \subseteq (Creators(u) \ {s}) \cup {t \in {s} : Creates(c, u)}
<1>1. \A t \in Slots : calls'[t] = IF t = s THEN c ELSE calls[t]
  BY CallsAfter
<1>2. ASSUME NEW m \in Targets(u)', ~(m = c.method /\ Holds(c, u)) PROVE m \in Targets(u)
  <2>1. PICK t \in Slots : m = calls'[t].method /\ Holds(calls[t], u)'
    BY <1>2 DEF Targets
  <2>2. Holds(calls'[t], u)
    BY <2>1 DEF Holds
  <2>3. t # s /\ calls'[t] = calls[t]
    BY <1>1, <1>2, <2>1, <2>2
  <2> QED BY <2>1, <2>2, <2>3 DEF Targets
<1>3. ASSUME NEW t \in Creators(u)', ~(t = s /\ Creates(c, u)) PROVE t \in Creators(u) \ {s}
  <2>1. t \in Slots /\ Creates(calls'[t], u)
    BY <1>3 DEF Creators, Creates
  <2>2. t # s /\ calls'[t] = calls[t]
    BY <1>1, <1>3, <2>1
  <2> QED BY <2>1, <2>2 DEF Creators
<1> QED BY <1>2, <1>3

LEMMA OverlapAfterMove ==
  ASSUME DOMAIN calls = Slots, NEW s \in Slots, NEW c, Moves(s, c), NEW u \in Users, OverlapIsBounded(u),
         Defaults(u)' \subseteq Claimed(u), Holds(c, u) => c.method \in Claimed(u), ~Creates(c, u)
  PROVE  OverlapIsBounded(u)'
<1>1. Targets(u)' \subseteq Targets(u) \cup {m \in {c.method} : Holds(c, u)}
  BY MoveMethods
<1>2. Creators(u)' \subseteq (Creators(u) \ {s}) \cup {t \in {s} : Creates(c, u)}
  BY MoveMethods
<1>3. Claimed(u)' \subseteq Claimed(u)
  BY <1>1 DEF Claimed
<1>4. Creators(u)' \subseteq Creators(u)
  BY <1>2
<1> QED BY <1>3, <1>4, OverlapShrinks

LEMMA MethodsStays ==
  ASSUME MethodsSound, DOMAIN calls = Slots, Elsewhere(MethodsOps), UNCHANGED methodVars
  PROVE  MethodsSound' /\ \A d : MethodsCallOK(d) => MethodsCallOK(d)'
<1>0. UNCHANGED methods
  BY DEF methodVars
<1>1. \A t \in Slots : calls'[t].op \in MethodsOps => calls'[t] = calls[t]
  BY ElsewhereKeeps
<1>2. ASSUME NEW u \in Users PROVE OverlapIsBounded(u)'
  <2>1. Defaults(u)' = Defaults(u)
    BY <1>0 DEF Defaults, listAccounts, ListAccounts, FindByUserID, Active, Saved
  <2>2. ASSUME NEW t \in Slots, Holds(calls'[t], u) PROVE Holds(calls[t], u) /\ calls'[t] = calls[t]
    <3>1. calls'[t].op \in MethodsOps
      BY <2>2 DEF Holds, MethodsOps
    <3> QED BY <1>1, <2>2, <3>1
  <2>3. Targets(u)' = {calls'[s].method : s \in {t \in Slots : Holds(calls'[t], u)}}
    BY DEF Targets, Holds
  <2>4. Targets(u)' \subseteq Targets(u)
    BY <2>2, <2>3 DEF Targets
  <2>5. ASSUME NEW t \in Slots, Creates(calls'[t], u) PROVE Creates(calls[t], u)
    <3>1. calls'[t].op \in MethodsOps
      BY <2>5 DEF Creates, MethodsOps
    <3> QED BY <1>1, <2>5, <3>1
  <2>6. Creators(u)' = {t \in Slots : Creates(calls'[t], u)}
    BY DEF Creators, Creates
  <2>7. Creators(u)' \subseteq Creators(u)
    BY <2>5, <2>6 DEF Creators
  <2>8. Claimed(u)' \subseteq Claimed(u)
    BY <2>1, <2>4 DEF Claimed
  <2>9. OverlapIsBounded(u)
    BY DEF MethodsSound
  <2> QED BY <2>7, <2>8, <2>9, OverlapShrinks
<1>3. MethodsTypeOK'
  BY <1>0 DEF MethodsSound, MethodsTypeOK
<1>4. OwnersStay
  BY <1>0 DEF OwnersStay, Saved
<1> QED BY <1>2, <1>3, <1>4, MethodsCallsOutlive DEF MethodsSound

\* A step that begins a handler of an account, and writes nothing.
LEMMA AccountReads ==
  ASSUME MethodsSound, served \in 0..MaxRequests, DOMAIN calls = Slots, NEW s \in Slots, NEW u \in Users,
         createAccount(s, u) \/ updateAccount(s, u) \/ setDefaultAccount(s, u) \/ deleteAccount(s, u)
  PROVE  MethodsKept
<1>0. /\ MethodsTypeOK /\ methods \in [Accounts \cup Cards -> Method \cup {NewMethod}]
      /\ \A v \in Users : OverlapIsBounded(v)
  BY DEF MethodsSound, MethodsTypeOK
<1>1. ASSUME NEW c, Begin(s, c), UNCHANGED methods, c.op \in MethodsOps, MethodsCallOK(c),
             \A v \in Users : Holds(c, v) => c.method \in Claimed(v),
             \A v \in Users : Creates(c, v) => Defaults(v) = {}
      PROVE  MethodsKept
  <2>1. Moves(s, c) /\ served' \in 0..MaxRequests
    BY <1>1, ServedNext DEF Begin, Moves
  <2>2. OwnersStay /\ MethodsTypeOK'
    BY <1>0, <1>1 DEF OwnersStay, Saved, MethodsTypeOK
  <2>3. ASSUME NEW v \in Users PROVE OverlapIsBounded(v)'
    <3>1. Defaults(v)' = Defaults(v)
      BY <1>1 DEF Defaults, listAccounts, ListAccounts, FindByUserID, Active, Saved
    <3>2. CASE Creates(c, v)
      BY <1>1, <3>1, <3>2, OverlapStartsAfresh
    <3>3. CASE ~Creates(c, v)
      BY <1>0, <1>1, <2>1, <3>1, <3>3, OverlapAfterMove DEF Claimed
    <3> QED BY <3>2, <3>3
  <2>4. MethodsCallOK(c)'
    BY <1>1, <2>2, MethodsCallsOutlive
  <2> QED BY <1>1, <2>1, <2>2, <2>3, <2>4, MethodsCallsOutlive DEF MethodsKept, MethodsSound
<1>2. CASE createAccount(s, u)
  <2>1. PICK c : c = [op |-> "create", user |-> u, isDefault |-> FindByUserID(u) = {}]
    OBVIOUS
  <2>2. c.op = "create" /\ c.user = u /\ (c.isDefault => FindByUserID(u) = {}) /\ c.isDefault \in BOOLEAN
    BY <2>1
  <2>3. c = [op |-> "create", user |-> u, isDefault |-> c.isDefault]
    BY <2>1
  <2>4. MethodsCallOK(c)
    BY <2>2, <2>3 DEF MethodsCallOK, MethodsCall
  <2>5. \A v \in Users : Creates(c, v) => Defaults(v) = {}
    BY <2>2 DEF Creates, Defaults, listAccounts, ListAccounts
  <2>6. Begin(s, c) /\ UNCHANGED methods
    BY <1>2, <2>1 DEF createAccount, CreateAccount
  <2>7. c.op \in MethodsOps /\ \A v \in Users : ~Holds(c, v)
    BY <2>2 DEF MethodsOps, Holds
  <2> QED BY <1>1, <2>4, <2>5, <2>6, <2>7
<1>3. CASE updateAccount(s, u)
  <2>1. PICK m \in Accounts : UpdateAccount(s, u, m)
    BY <1>3 DEF updateAccount
  <2>2. Owns(u, m) /\ methods[m] \in Method
    BY <1>0, <2>1 DEF UpdateAccount, Owns, Saved
  <2>3. PICK c : c = [op |-> "replace", user |-> u, method |-> m, copy |-> methods[m]]
    OBVIOUS
  <2>4. Begin(s, c) /\ UNCHANGED methods
    BY <2>1, <2>3 DEF UpdateAccount
  <2>5. MethodsCallOK(c)
    BY <2>2, <2>3 DEF MethodsCallOK, MethodsCall, Owns
  <2>6. \A v \in Users : ~Creates(c, v)
    BY <2>3 DEF Creates
  <2>7. ASSUME NEW v \in Users, Holds(c, v) PROVE c.method \in Claimed(v)
    <3>1. v = u /\ methods[m].isDefault /\ methods[m].isActive /\ c.method = m
      BY <2>3, <2>7 DEF Holds
    <3> QED BY <1>0, <2>2, <3>1 DEF Claimed, Defaults, listAccounts, ListAccounts, FindByUserID, Active, Owns
  <2> QED BY <1>1, <2>3, <2>4, <2>5, <2>6, <2>7 DEF MethodsOps
<1>4. ASSUME NEW m \in Accounts, NEW op \in {"clear", "delete"}, Owns(u, m),
             Begin(s, [op |-> op, user |-> u, method |-> m]), UNCHANGED methods
      PROVE  MethodsKept
  <2>1. PICK c : c = [op |-> op, user |-> u, method |-> m]
    OBVIOUS
  <2>2. MethodsCallOK(c)
    BY <1>4, <2>1 DEF MethodsCallOK, MethodsCall
  <2>3. \A v \in Users : ~Creates(c, v) /\ ~Holds(c, v)
    BY <2>1 DEF Creates, Holds
  <2>4. c.op \in MethodsOps /\ Begin(s, c)
    BY <1>4, <2>1 DEF MethodsOps
  <2> QED BY <1>1, <1>4, <2>2, <2>3, <2>4
<1>5. CASE setDefaultAccount(s, u) \/ deleteAccount(s, u)
  BY <1>4, <1>5 DEF setDefaultAccount, SetDefaultAccount, deleteAccount, DeleteAccount
<1> QED BY <1>2, <1>3, <1>5

\* A step that ends a handler, or moves none, and keeps what defaults may come.
LEMMA MethodsEnds ==
  ASSUME MethodsSound, served \in 0..MaxRequests, DOMAIN calls = Slots, MethodsTypeOK', OwnersStay,
         \/ UNCHANGED calls /\ served < MaxRequests /\ served' = served + 1
         \/ \E s \in Slots : Finish(s),
         \A u \in Users : Defaults(u)' \subseteq Claimed(u)
  PROVE  MethodsKept
<1>1. NoCall.op \notin MethodsOps
  BY DEF NoCall, MethodsOps
<1>2. MethodsCallOK(NoCall)' /\ \A u \in Users : ~Holds(NoCall, u) /\ ~Creates(NoCall, u)
  BY <1>1 DEF MethodsCallOK, Holds, Creates, MethodsOps
<1>3. ASSUME NEW u \in Users PROVE OverlapIsBounded(u)'
  <2>1. OverlapIsBounded(u) /\ Defaults(u)' \subseteq Claimed(u)
    BY DEF MethodsSound
  <2>2. ASSUME UNCHANGED calls PROVE OverlapIsBounded(u)'
    <3>1. Targets(u)' = Targets(u) /\ Creators(u)' = Creators(u)
      BY <2>2 DEF Targets, Creators, Holds, Creates
    <3>2. Claimed(u)' \subseteq Claimed(u)
      BY <2>1, <3>1 DEF Claimed
    <3> QED BY <2>1, <3>1, <3>2, OverlapShrinks
  <2>3. ASSUME NEW s \in Slots, Finish(s) PROVE OverlapIsBounded(u)'
    <3>1. Moves(s, NoCall)
      BY <2>3 DEF Finish, Continue, Moves
    <3> QED BY <1>2, <2>1, <3>1, OverlapAfterMove
  <2> QED BY <2>2, <2>3
<1>4. \A d : MethodsCallOK(d) => MethodsCallOK(d)'
  BY MethodsCallsOutlive
<1>5. ASSUME NEW s \in Slots, Finish(s) PROVE Moves(s, NoCall) /\ served' = served
  BY <1>5 DEF Finish, Continue, Moves
<1>6. served' \in 0..MaxRequests
  BY <1>5, ServedNext
<1>7. UNCHANGED calls \/ \E s \in Slots : \E c : Moves(s, c) /\ (c = NoCall \/ c.op \in MethodsOps) /\ MethodsCallOK(c)'
  BY <1>2, <1>5
<1> QED BY <1>3, <1>4, <1>6, <1>7 DEF MethodsKept, MethodsSound

LEMMA CardWrites ==
  ASSUME MethodsSound, served \in 0..MaxRequests, DOMAIN calls = Slots, NEW s \in Slots, NEW u \in Users,
         SaveCard(s, u) \/ setDefaultSavedCard(s, u) \/ deleteSavedCard(s, u)
  PROVE  MethodsKept
<1>0. /\ MethodsTypeOK /\ methods \in [Accounts \cup Cards -> Method \cup {NewMethod}]
      /\ \A v \in Users : OverlapIsBounded(v)
  BY DEF MethodsSound, MethodsTypeOK
<1>1. CASE SaveCard(s, u)
  <2>1. PICK m \in Cards : ~Saved(m) /\ SaveMethod(m, u, FALSE)
    BY <1>1 DEF SaveCard
  <2>2. PICK new : new = [owner |-> u, isDefault |-> FALSE, isActive |-> TRUE]
    OBVIOUS
  <2>3. new \in Method /\ new.isDefault = FALSE /\ methods' = [methods EXCEPT ![m] = new]
    BY <2>1, <2>2 DEF Method, SaveMethod
  <2>4. /\ MethodsTypeOK' /\ OwnersStay
        /\ \A v \in Users : Defaults(v)' \subseteq
             Defaults(v) \cup {a \in Accounts : a = m /\ new.owner = v /\ new.isActive /\ new.isDefault}
    BY <1>0, <2>1, <2>3, WriteMethod
  <2>5. \A v \in Users : Defaults(v)' \subseteq Claimed(v)
    BY <2>3, <2>4 DEF Claimed
  <2>6. UNCHANGED calls /\ served < MaxRequests /\ served' = served + 1
    BY <1>1 DEF SaveCard
  <2> QED BY <2>4, <2>5, <2>6, MethodsEnds
<1>2. CASE deleteSavedCard(s, u)
  <2>1. PICK m \in Cards : DeleteCard(s, u, m)
    BY <1>2 DEF deleteSavedCard
  <2>2. PICK new : new = [methods[m] EXCEPT !.isActive = FALSE]
    OBVIOUS
  <2>3. methods[m] \in Method
    BY <1>0, <2>1 DEF DeleteCard, Saved
  <2>4. new \in Method /\ new.owner = methods[m].owner /\ new.isActive = FALSE
    BY <2>2, <2>3 DEF Method
  <2>5. methods' = [methods EXCEPT ![m] = new]
    BY <2>1, <2>2 DEF DeleteCard, SoftDelete
  <2>6. /\ MethodsTypeOK' /\ OwnersStay
        /\ \A v \in Users : Defaults(v)' \subseteq
             Defaults(v) \cup {a \in Accounts : a = m /\ new.owner = v /\ new.isActive /\ new.isDefault}
    BY <1>0, <2>4, <2>5, WriteMethod
  <2>7. \A v \in Users : Defaults(v)' \subseteq Claimed(v)
    BY <2>4, <2>6 DEF Claimed
  <2>8. UNCHANGED calls /\ served < MaxRequests /\ served' = served + 1
    BY <2>1 DEF DeleteCard
  <2> QED BY <2>6, <2>7, <2>8, MethodsEnds
<1>3. CASE setDefaultSavedCard(s, u)
  <2>1. PICK m \in Cards : SetDefaultCard(s, u, m)
    BY <1>3 DEF setDefaultSavedCard
  <2>2. PICK c : c = [op |-> "set", user |-> u, method |-> m]
    OBVIOUS
  <2>3. ClearDefaults(Cards, u) /\ Begin(s, c)
    BY <2>1, <2>2 DEF SetDefaultCard
  <2>4. /\ MethodsTypeOK' /\ OwnersStay
        /\ \A v \in Users : Defaults(v)' \subseteq Defaults(v)
    BY <1>0, <2>3, ClearMethods
  <2>5. m \notin Accounts
    BY PaymentMethodsAssumption
  <2>6. c.op \in MethodsOps /\ MethodsCallOK(c)'
    BY <2>2, <2>5 DEF MethodsOps, MethodsCallOK, MethodsCall
  <2>7. \A v \in Users : ~Holds(c, v) /\ ~Creates(c, v)
    BY <2>2, <2>5 DEF Holds, Creates
  <2>8. Moves(s, c) /\ served' \in 0..MaxRequests
    BY <2>3, ServedNext DEF Begin, Moves
  <2>9. ASSUME NEW v \in Users PROVE OverlapIsBounded(v)'
    BY <1>0, <2>4, <2>7, <2>8, OverlapAfterMove DEF Claimed
  <2> QED BY <2>4, <2>6, <2>8, <2>9, MethodsCallsOutlive DEF MethodsKept, MethodsSound
<1> QED BY <1>1, <1>2, <1>3

LEMMA AccountWrites ==
  ASSUME MethodsSound, served \in 0..MaxRequests, DOMAIN calls = Slots, NEW s \in Slots, MethodsCallOK(calls[s]),
         StoreCopy(s) \/ SetTarget(s) \/ StoreDeletion(s)
  PROVE  MethodsKept
<1>0. /\ MethodsTypeOK /\ methods \in [Accounts \cup Cards -> Method \cup {NewMethod}]
      /\ \A v \in Users : OverlapIsBounded(v)
  BY DEF MethodsSound, MethodsTypeOK
<1>1. ASSUME NEW m \in Accounts \cup Cards, NEW new \in Method, methods' = [methods EXCEPT ![m] = new], Saved(m),
             new.owner = methods[m].owner, Finish(s),
             new.isActive /\ new.isDefault /\ m \in Accounts => m \in Claimed(new.owner)
      PROVE  MethodsKept
  <2>1. /\ MethodsTypeOK' /\ OwnersStay
        /\ \A v \in Users : Defaults(v)' \subseteq
             Defaults(v) \cup {a \in Accounts : a = m /\ new.owner = v /\ new.isActive /\ new.isDefault}
    BY <1>0, <1>1, WriteMethod
  <2>2. \A v \in Users : Defaults(v)' \subseteq Claimed(v)
    BY <1>1, <2>1 DEF Claimed
  <2> QED BY <1>1, <2>1, <2>2, MethodsEnds
<1>2. CASE StoreCopy(s)
  <2>1. PICK c : c = calls[s]
    OBVIOUS
  <2>2. c.op = "replace" /\ ReplaceAccount(c.method, c.copy) /\ Finish(s)
    BY <1>2, <2>1 DEF StoreCopy, At
  <2>3. c.method \in Accounts /\ c.copy \in Method /\ Owns(c.user, c.method) /\ c.copy.owner = c.user
    BY <2>1, <2>2 DEF MethodsCallOK, MethodsCall, MethodsOps
  <2>4. ASSUME c.copy.isActive, c.copy.isDefault PROVE c.method \in Claimed(c.user)
    BY <2>1, <2>2, <2>3, <2>4 DEF Claimed, Targets, Holds
  <2> QED BY <1>1, <2>2, <2>3, <2>4 DEF ReplaceAccount, Owns
<1>3. CASE SetTarget(s)
  <2>1. PICK c : c = calls[s]
    OBVIOUS
  <2>2. /\ c.op = "set" /\ Finish(s)
        /\ IF Saved(c.method) THEN MarkDefault(c.method) ELSE UNCHANGED methods
    BY <1>3, <2>1 DEF SetTarget, At
  <2>3. c.method \in Accounts \cup Cards /\ (c.method \in Accounts => Owns(c.user, c.method))
    BY <2>1, <2>2 DEF MethodsCallOK, MethodsCall, MethodsOps
  <2>4. CASE Saved(c.method)
    <3>1. methods[c.method] \in Method
      BY <1>0, <2>3, <2>4 DEF Saved
    <3>2. PICK new : new = [methods[c.method] EXCEPT !.isDefault = TRUE]
      OBVIOUS
    <3>3. new \in Method /\ new.owner = methods[c.method].owner
      BY <3>1, <3>2 DEF Method
    <3>4. methods' = [methods EXCEPT ![c.method] = new]
      BY <2>2, <2>4, <3>2 DEF MarkDefault
    <3>5. ASSUME c.method \in Accounts PROVE c.method \in Claimed(new.owner)
      <4>1. c.user = new.owner
        BY <2>3, <3>3, <3>5 DEF Owns
      <4>2. Holds(c, new.owner)
        BY <2>2, <3>5, <4>1 DEF Holds
      <4> QED BY <2>1, <4>2 DEF Claimed, Targets
    <3> QED BY <1>1, <2>2, <2>3, <2>4, <3>3, <3>4, <3>5
  <2>5. CASE ~Saved(c.method)
    <3>1. UNCHANGED methods
      BY <2>2, <2>5
    <3>2. MethodsTypeOK' /\ OwnersStay
      BY <1>0, <3>1 DEF MethodsTypeOK, OwnersStay, Saved
    <3>3. \A v \in Users : Defaults(v)' \subseteq Claimed(v)
      BY <3>1 DEF Claimed, Defaults, listAccounts, ListAccounts, FindByUserID, Active, Saved
    <3> QED BY <2>2, <3>2, <3>3, MethodsEnds
  <2> QED BY <2>4, <2>5
<1>4. CASE StoreDeletion(s)
  <2>1. PICK c : c = calls[s]
    OBVIOUS
  <2>2. c.op = "delete" /\ SoftDelete(c.method) /\ Finish(s)
    BY <1>4, <2>1 DEF StoreDeletion, At
  <2>3. c.method \in Accounts /\ Owns(c.user, c.method)
    BY <2>1, <2>2 DEF MethodsCallOK, MethodsCall, MethodsOps
  <2>4. methods[c.method] \in Method
    BY <1>0, <2>3 DEF Owns, Saved
  <2>5. PICK new : new = [methods[c.method] EXCEPT !.isActive = FALSE]
    OBVIOUS
  <2>6. new \in Method /\ new.owner = methods[c.method].owner /\ new.isActive = FALSE
    BY <2>4, <2>5 DEF Method
  <2>7. methods' = [methods EXCEPT ![c.method] = new]
    BY <2>2, <2>5 DEF SoftDelete
  <2> QED BY <1>1, <2>2, <2>3, <2>6, <2>7 DEF Owns
<1> QED BY <1>2, <1>3, <1>4

LEMMA AccountCreated ==
  ASSUME MethodsSound, served \in 0..MaxRequests, DOMAIN calls = Slots, NEW s \in Slots, MethodsCallOK(calls[s]),
         StoreAccount(s)
  PROVE  MethodsKept
<1>0. /\ MethodsTypeOK /\ methods \in [Accounts \cup Cards -> Method \cup {NewMethod}]
      /\ \A v \in Users : OverlapIsBounded(v)
  BY DEF MethodsSound, MethodsTypeOK
<1>1. PICK c : c = calls[s]
  OBVIOUS
<1>2. c.op = "create" /\ Finish(s) /\ \E m \in Accounts : ~Saved(m) /\ SaveMethod(m, c.user, c.isDefault)
  BY <1>1 DEF StoreAccount, At
<1>3. c.user \in Users /\ c.isDefault \in BOOLEAN
  BY <1>1, <1>2 DEF MethodsCallOK, MethodsCall, MethodsOps
<1>4. PICK m \in Accounts : ~Saved(m) /\ SaveMethod(m, c.user, c.isDefault)
  BY <1>2
<1>5. PICK new : new = [owner |-> c.user, isDefault |-> c.isDefault, isActive |-> TRUE]
  OBVIOUS
<1>6. /\ new \in Method /\ new.owner = c.user /\ new.isDefault = c.isDefault
      /\ methods' = [methods EXCEPT ![m] = new]
  BY <1>3, <1>4, <1>5 DEF Method, SaveMethod
<1>7. /\ MethodsTypeOK' /\ OwnersStay
      /\ \A v \in Users : Defaults(v)' \subseteq
           Defaults(v) \cup {a \in Accounts : a = m /\ new.owner = v /\ new.isActive /\ new.isDefault}
  BY <1>0, <1>4, <1>6, WriteMethod
<1>8. NoCall.op = "none" /\ Moves(s, NoCall) /\ served' = served
  BY <1>2 DEF Finish, Continue, Moves, NoCall
<1>9. ASSUME NEW v \in Users PROVE OverlapIsBounded(v)'
  <2>1. \A u : ~Holds(NoCall, u) /\ ~Creates(NoCall, u)
    BY <1>8 DEF Holds, Creates
  <2>2. Targets(v)' \subseteq Targets(v) /\ Creators(v)' \subseteq Creators(v) \ {s}
    BY <1>8, <2>1, MoveMethods
  <2>3. CASE v = c.user /\ c.isDefault
    <3>1. s \in Creators(v)
      BY <1>1, <1>2, <2>3 DEF Creators, Creates
    <3>2. Claimed(v)' \subseteq Claimed(v) \cup {m}
      BY <1>7, <2>2 DEF Claimed
    <3> QED BY <1>0, <2>2, <3>1, <3>2, OverlapMoves
  <2>4. CASE ~(v = c.user /\ c.isDefault)
    <3>1. Claimed(v)' \subseteq Claimed(v)
      BY <1>6, <1>7, <2>2, <2>4 DEF Claimed
    <3> QED BY <1>0, <2>2, <3>1, OverlapShrinks
  <2> QED BY <2>3, <2>4
<1>10. MethodsCallOK(NoCall)'
  BY <1>8 DEF MethodsCallOK, MethodsOps
<1>11. \A d : MethodsCallOK(d) => MethodsCallOK(d)'
  BY <1>7, MethodsCallsOutlive
<1> QED BY <1>7, <1>8, <1>9, <1>10, <1>11 DEF MethodsKept, MethodsSound

LEMMA OthersCleared ==
  ASSUME MethodsSound, served \in 0..MaxRequests, DOMAIN calls = Slots, NEW s \in Slots, MethodsCallOK(calls[s]),
         ClearOthers(s)
  PROVE  MethodsKept
<1>0. /\ MethodsTypeOK /\ methods \in [Accounts \cup Cards -> Method \cup {NewMethod}]
      /\ \A v \in Users : OverlapIsBounded(v)
  BY DEF MethodsSound, MethodsTypeOK
<1>1. At(s, "clear") /\ ClearDefaults(Accounts, calls[s].user)
  BY DEF ClearOthers
<1>2. calls[s] \in [op: {"clear"}, user: Users, method: Accounts] /\ Owns(calls[s].user, calls[s].method)
  BY <1>1 DEF At, MethodsCallOK, MethodsCall, MethodsOps
<1>3. PICK c : c = [calls[s] EXCEPT !.op = "set"]
  OBVIOUS
<1>4. /\ c \in [op: {"set"}, user: Users, method: Accounts \cup Cards] /\ c.op = "set"
      /\ c.user = calls[s].user /\ c.method = calls[s].method /\ c.method \in Accounts
  BY <1>2, <1>3
<1>5. PICK u \in Users : u = c.user
  BY <1>4
<1>6. /\ MethodsTypeOK' /\ OwnersStay /\ Defaults(u)' = {}
      /\ \A v \in Users : Defaults(v)' \subseteq Defaults(v)
  BY <1>0, <1>1, <1>4, <1>5, ClearMethods
<1>7. Moves(s, c) /\ served' = served
  BY <1>3 DEF ClearOthers, Continue, Moves
<1>8. MethodsCallOK(c)
  BY <1>2, <1>4 DEF MethodsCallOK, MethodsCall
<1>9. MethodsCallOK(c)' /\ \A d : MethodsCallOK(d) => MethodsCallOK(d)'
  BY <1>6, <1>8, MethodsCallsOutlive
<1>10. ASSUME NEW v \in Users PROVE OverlapIsBounded(v)'
  <2>1. CASE v = u
    BY <1>6, <2>1, OverlapStartsAfresh
  <2>2. CASE v # u
    <3>1. ~Holds(c, v) /\ ~Creates(c, v)
      BY <1>4, <1>5, <2>2 DEF Holds, Creates
    <3> QED BY <1>0, <1>6, <1>7, <3>1, OverlapAfterMove DEF Claimed
  <2> QED BY <2>1, <2>2
<1>11. c.op \in MethodsOps
  BY <1>4 DEF MethodsOps
<1> QED BY <1>6, <1>7, <1>9, <1>10, <1>11 DEF MethodsKept, MethodsSound

LEMMA MethodsNextKeeps ==
  ASSUME MethodsSound, served \in 0..MaxRequests, DOMAIN calls = Slots,
         \A s \in Slots : MethodsCallOK(calls[s]), MethodsNext
  PROVE  MethodsKept
<1>1. ASSUME NEW s \in Slots, NEW u \in Users, MethodsRequest(s, u) PROVE MethodsKept
  BY <1>1, AccountReads, CardWrites DEF MethodsRequest
<1>2. ASSUME NEW s \in Slots, MethodsStep(s) PROVE MethodsKept
  BY <1>2, AccountWrites, AccountCreated, OthersCleared DEF MethodsStep
<1> QED BY <1>1, <1>2 DEF MethodsNext

LEMMA DefaultsAreBounded ==
  ASSUME MethodsSound
  PROVE  DefaultsOverlapIsBounded
<1> SUFFICES ASSUME NEW u \in Users PROVE Cardinality(Defaults(u)) <= Cardinality(Slots)
  BY DEF DefaultsOverlapIsBounded
<1>1. IsFiniteSet(Claimed(u)) /\ Cardinality(Claimed(u)) + Cardinality(Creators(u)) <= Cardinality(Slots)
  BY DEF MethodsSound, OverlapIsBounded
<1>2. Creators(u) \in SUBSET Slots
  BY DEF Creators
<1>3. Cardinality(Creators(u)) \in Nat /\ Cardinality(Slots) \in Nat /\ Cardinality(Claimed(u)) \in Nat
  BY <1>1, <1>2, CreatorsAreFinite, FS_CardinalityType
<1>4. Defaults(u) \in SUBSET Claimed(u)
  BY DEF Claimed
<1>5. IsFiniteSet(Defaults(u)) /\ Cardinality(Defaults(u)) <= Cardinality(Claimed(u))
  BY <1>1, <1>4, FS_Subset
<1>6. Cardinality(Defaults(u)) \in Nat
  BY <1>5, FS_CardinalityType
<1> QED BY <1>1, <1>3, <1>5, <1>6

LEMMA ListedIsActive ==
  ASSUME MethodsTypeOK, NEW m \in Accounts \cup Cards, Saved(m)
  PROVE  m \in Listed <=> methods[m].isActive
<1>1. methods[m] \in Method /\ DOMAIN methods = Accounts \cup Cards
  BY DEF MethodsTypeOK, Saved
<1>2. ASSUME methods[m].isActive PROVE m \in Listed
  <2>1. methods[m].owner \in Users /\ m \in Active(methods[m].owner)
    BY <1>1, <1>2 DEF Method, Active
  <2> QED BY <2>1 DEF Listed, listAccounts, ListAccounts, FindByUserID, listSavedCards, ListCards, FindCardsByUserID
<1>3. ASSUME m \in Listed PROVE methods[m].isActive
  <2>1. PICK u \in Users : m \in Active(u)
    BY <1>3 DEF Listed, listAccounts, ListAccounts, FindByUserID, listSavedCards, ListCards, FindCardsByUserID
  <2> QED BY <2>1 DEF Active
<1> QED BY <1>2, <1>3

LEMMA RevivedByAStaleUpdate ==
  ASSUME MethodsSound, DOMAIN calls = Slots, \A s \in Slots : MethodsCallOK(calls[s]), MethodsNext,
         NEW m \in Accounts \cup Cards, Saved(m), m \notin Listed, m \in Listed'
  PROVE  m \in Accounts /\ \E s \in Slots : At(s, "replace") /\ calls[s].method = m
<1>0. /\ MethodsTypeOK /\ methods \in [Accounts \cup Cards -> Method \cup {NewMethod}] /\ methods[m] \in Method
  BY DEF MethodsSound, MethodsTypeOK, Saved
<1>1. methods'[m].isActive
  BY DEF Listed, listAccounts, ListAccounts, FindByUserID, listSavedCards, ListCards, FindCardsByUserID, Active
<1>2. methods[m].isActive = FALSE
  BY <1>0, ListedIsActive DEF Method
<1>3. ASSUME methods'[m] = methods[m] PROVE FALSE
  BY <1>1, <1>2, <1>3
<1>4. ASSUME NEW a, NEW new, methods' = [methods EXCEPT ![a] = new], a # m \/ new.isActive = FALSE PROVE FALSE
  BY <1>0, <1>1, <1>3, <1>4
<1>5. ASSUME NEW s \in Slots, NEW u \in Users, MethodsRequest(s, u) PROVE FALSE
  <2>1. ASSUME UNCHANGED methods PROVE FALSE
    BY <1>3, <2>1
  <2>2. ASSUME createAccount(s, u) \/ updateAccount(s, u) \/ setDefaultAccount(s, u) \/ deleteAccount(s, u) PROVE FALSE
    BY <2>1, <2>2
       DEF createAccount, CreateAccount, updateAccount, UpdateAccount, setDefaultAccount, SetDefaultAccount,
           deleteAccount, DeleteAccount
  <2>3. ASSUME SaveCard(s, u) PROVE FALSE
    BY <1>4, <2>3 DEF SaveCard, SaveMethod
  <2>4. ASSUME setDefaultSavedCard(s, u) PROVE FALSE
    <3>1. methods'[m] = methods[m] \/ methods'[m] = [methods[m] EXCEPT !.isDefault = FALSE]
      BY <1>0, <2>4 DEF setDefaultSavedCard, SetDefaultCard, ClearDefaults
    <3>2. PICK new : new = [methods[m] EXCEPT !.isDefault = FALSE]
      OBVIOUS
    <3>3. new.isActive = methods[m].isActive
      BY <1>0, <3>2 DEF Method
    <3> QED BY <1>1, <1>2, <3>1, <3>2, <3>3
  <2>5. ASSUME NEW a \in Cards, DeleteCard(s, u, a) PROVE FALSE
    <3>1. a # m
      <4>1. PICK new : new = [methods[m] EXCEPT !.isActive = FALSE]
        OBVIOUS
      <4>2. new.isActive = FALSE
        BY <1>0, <4>1 DEF Method
      <4>3. a = m => methods'[m] = new
        BY <1>0, <2>5, <4>1 DEF DeleteCard, SoftDelete
      <4> QED BY <1>1, <4>2, <4>3
    <3> QED BY <1>0, <1>3, <2>5, <3>1 DEF DeleteCard, SoftDelete
  <2> QED BY <1>5, <2>2, <2>3, <2>4, <2>5 DEF MethodsRequest, deleteSavedCard
<1>6. ASSUME NEW s \in Slots, MethodsStep(s)
      PROVE  m \in Accounts /\ At(s, "replace") /\ calls[s].method = m
  <2>1. ASSUME StoreAccount(s) PROVE FALSE
    BY <1>4, <2>1 DEF StoreAccount, SaveMethod
  <2>2. ASSUME ClearOthers(s) PROVE FALSE
    <3>1. methods'[m] = methods[m] \/ methods'[m] = [methods[m] EXCEPT !.isDefault = FALSE]
      BY <1>0, <2>2 DEF ClearOthers, ClearDefaults
    <3>2. PICK new : new = [methods[m] EXCEPT !.isDefault = FALSE]
      OBVIOUS
    <3>3. new.isActive = methods[m].isActive
      BY <1>0, <3>2 DEF Method
    <3> QED BY <1>1, <1>2, <3>1, <3>2, <3>3
  <2>3. ASSUME SetTarget(s) PROVE FALSE
    <3>1. UNCHANGED methods \/ methods' = [methods EXCEPT ![calls[s].method].isDefault = TRUE]
      BY <2>3 DEF SetTarget, MarkDefault
    <3>2. PICK new : new = [methods[m] EXCEPT !.isDefault = TRUE]
      OBVIOUS
    <3>3. new.isActive = methods[m].isActive
      BY <1>0, <3>2 DEF Method
    <3>4. methods'[m] = methods[m] \/ methods'[m] = new
      BY <1>0, <3>1, <3>2
    <3> QED BY <1>1, <1>2, <3>3, <3>4
  <2>4. ASSUME StoreDeletion(s) PROVE FALSE
    <3>1. PICK new : new = [methods[m] EXCEPT !.isActive = FALSE]
      OBVIOUS
    <3>2. new.isActive = FALSE
      BY <1>0, <3>1 DEF Method
    <3>3. methods'[m] = methods[m] \/ methods'[m] = new
      BY <1>0, <2>4, <3>1 DEF StoreDeletion, SoftDelete
    <3> QED BY <1>1, <1>2, <3>2, <3>3
  <2>5. StoreCopy(s)
    BY <1>6, <2>1, <2>2, <2>3, <2>4 DEF MethodsStep
  <2>6. At(s, "replace") /\ ReplaceAccount(calls[s].method, calls[s].copy) /\ calls[s].method \in Accounts
    BY <2>5 DEF StoreCopy, At, MethodsCallOK, MethodsCall, MethodsOps
  <2>7. calls[s].method = m
    BY <1>0, <1>3, <2>6 DEF ReplaceAccount
  <2> QED BY <2>6, <2>7
<1> QED BY <1>5, <1>6 DEF MethodsNext

-----------------------------------------------------------------------------
(* Customers at the provider.                                              *)

\* The handler may post for the user an n-th time.
Posts(c, u, n) == c.op = "postCustomer" /\ c.user = u /\ c.attempt <= n
Attempts == Slots \X (1..MaxPosts)
Remaining(u) == {x \in Attempts : Posts(calls[x[1]], u, x[2])}

\* A handler posts only when the user had no customer, so what was created and what may
\* still be is no more than the attempts of one generation of handlers.
PostsAreBounded(u) == customers[u] + Cardinality(Remaining(u)) <= Cardinality(Slots) * MaxPosts

CustomersSound ==
  /\ CustomersTypeOK
  /\ \A u \in Users : PostsAreBounded(u) /\ links[u] \in 0..customers[u]

CustomersCallOK(c) ==
  c.op \in CustomersOps =>
    /\ c \in CustomersCall(c.op)
    /\ c.op = "saveLink" => c.customer \in 1..customers[c.user]

CustomersKept ==
  /\ CustomersSound'
  /\ \A d : CustomersCallOK(d) => CustomersCallOK(d)'
  /\ \/ UNCHANGED calls
     \/ \E s \in Slots : \E c : Moves(s, c) /\ (c = NoCall \/ c.op \in CustomersOps) /\ CustomersCallOK(c)'
  /\ served' \in 0..MaxRequests

LEMMA AttemptsAreFinite ==
  /\ IsFiniteSet(Attempts) /\ Cardinality(Attempts) = Cardinality(Slots) * MaxPosts
  /\ Cardinality(Slots) * MaxPosts \in Nat
<1>1. IsFiniteSet(Slots) /\ Cardinality(Slots) \in Nat
  BY HandlersAssumption, FS_CardinalityType
<1>2. MaxPosts \in Nat \ {0}
  BY CustomerLinksAssumption
<1>3. IsFiniteSet(1..MaxPosts) /\ Cardinality(1..MaxPosts) = MaxPosts
  <2>1. MaxPosts \in Int /\ 1 \in Int /\ ~(1 > MaxPosts) /\ MaxPosts - 1 + 1 = MaxPosts
    BY <1>2
  <2>2. IsFiniteSet(1..MaxPosts) /\ Cardinality(1..MaxPosts) = IF 1 > MaxPosts THEN 0 ELSE MaxPosts - 1 + 1
    BY <2>1, FS_Interval
  <2> QED BY <2>1, <2>2
<1>4. IsFiniteSet(Attempts) /\ Cardinality(Attempts) = Cardinality(Slots) * MaxPosts
  BY <1>1, <1>3, FS_Product DEF Attempts
<1>5. Cardinality(Attempts) \in Nat
  BY <1>4, FS_CardinalityType
<1> QED BY <1>4, <1>5

LEMMA RemainingIsFinite ==
  ASSUME NEW R \in SUBSET Attempts
  PROVE  IsFiniteSet(R) /\ Cardinality(R) \in Nat /\ Cardinality(R) <= Cardinality(Slots) * MaxPosts
<1>1. IsFiniteSet(R) /\ Cardinality(R) <= Cardinality(Attempts)
  BY AttemptsAreFinite, FS_Subset
<1> QED BY <1>1, AttemptsAreFinite, FS_CardinalityType

LEMMA PostsShrink ==
  ASSUME NEW u \in Users, PostsAreBounded(u), customers[u] \in Nat, customers'[u] = customers[u],
         Remaining(u)' \subseteq Remaining(u)
  PROVE  PostsAreBounded(u)'
<1>1. PICK R, Q : R = Remaining(u) /\ Q = Remaining(u)'
  OBVIOUS
<1>2. R \in SUBSET Attempts /\ Q \in SUBSET R /\ Q \in SUBSET Attempts
  BY <1>1 DEF Remaining
<1>3. Cardinality(Q) <= Cardinality(R)
  BY <1>2, RemainingIsFinite, FS_Subset
<1>4. Cardinality(Q) \in Nat /\ Cardinality(R) \in Nat
  BY <1>2, RemainingIsFinite
<1>5. customers[u] + Cardinality(R) <= Cardinality(Slots) * MaxPosts
  BY <1>1 DEF PostsAreBounded
<1>6. customers'[u] + Cardinality(Q) <= Cardinality(Slots) * MaxPosts
  BY <1>3, <1>4, <1>5, AttemptsAreFinite
<1> QED BY <1>1, <1>6 DEF PostsAreBounded

\* An attempt that was still to come created a customer.
LEMMA PostsMove ==
  ASSUME NEW u \in Users, PostsAreBounded(u), customers[u] \in Nat, customers'[u] = customers[u] + 1,
         NEW x \in Remaining(u), Remaining(u)' \subseteq Remaining(u) \ {x}
  PROVE  PostsAreBounded(u)'
<1>1. PICK R, Q : R = Remaining(u) /\ Q = Remaining(u)'
  OBVIOUS
<1>2. R \in SUBSET Attempts /\ Q \in SUBSET (R \ {x}) /\ Q \in SUBSET Attempts /\ x \in R
  BY <1>1 DEF Remaining
<1>3. IsFiniteSet(R \ {x}) /\ Cardinality(R \ {x}) = Cardinality(R) - 1
  BY <1>2, RemainingIsFinite, FS_RemoveElement
<1>4. Cardinality(Q) <= Cardinality(R \ {x})
  BY <1>2, <1>3, FS_Subset
<1>5. Cardinality(Q) \in Nat /\ Cardinality(R) \in Nat
  BY <1>2, RemainingIsFinite
<1>6. customers[u] + Cardinality(R) <= Cardinality(Slots) * MaxPosts
  BY <1>1 DEF PostsAreBounded
<1>7. customers'[u] + Cardinality(Q) <= Cardinality(Slots) * MaxPosts
  BY <1>3, <1>4, <1>5, <1>6, AttemptsAreFinite
<1> QED BY <1>1, <1>7 DEF PostsAreBounded

LEMMA PostsStartAfresh ==
  ASSUME NEW u \in Users, customers'[u] = 0
  PROVE  PostsAreBounded(u)'
<1>1. PICK Q : Q = Remaining(u)'
  OBVIOUS
<1>2. Q \in SUBSET Attempts
  BY <1>1 DEF Remaining
<1>3. customers'[u] + Cardinality(Q) <= Cardinality(Slots) * MaxPosts
  BY <1>2, RemainingIsFinite
<1> QED BY <1>1, <1>3 DEF PostsAreBounded

LEMMA MovePosts ==
  ASSUME DOMAIN calls = Slots, NEW s \in Slots, NEW c, Moves(s, c), NEW u
  PROVE  \A x \in Remaining(u)' : IF x[1] = s THEN Posts(c, u, x[2]) ELSE x \in Remaining(u)
<1>1. \A t \in Slots : calls'[t] = IF t = s THEN c ELSE calls[t]
  BY CallsAfter
<1>2. Remaining(u)' = {x \in Attempts : Posts(calls'[x[1]], u, x[2])}
  BY DEF Remaining, Posts, Attempts
<1>3. \A x \in Attempts : x[1] \in Slots
  BY DEF Attempts
<1> QED BY <1>1, <1>2, <1>3 DEF Remaining

LEMMA CustomersCallsOutlive ==
  ASSUME CustomersTypeOK, CustomersTypeOK', \A u \in Users : customers[u] <= customers'[u]
  PROVE  \A d : CustomersCallOK(d) => CustomersCallOK(d)'
<1> SUFFICES ASSUME NEW d, CustomersCallOK(d), d.op \in CustomersOps PROVE CustomersCallOK(d)'
  BY DEF CustomersCallOK
<1>1. d \in CustomersCall(d.op)
  BY DEF CustomersCallOK
<1>2. ASSUME d.op = "saveLink" PROVE d.customer \in 1..customers'[d.user]
  <2>1. d.user \in Users /\ d.customer \in Nat /\ d.customer \in 1..customers[d.user]
    BY <1>2 DEF CustomersCallOK, CustomersCall, CustomersOps
  <2>2. customers[d.user] \in Nat /\ customers'[d.user] \in Nat
    BY <2>1 DEF CustomersTypeOK
  <2> QED BY <2>1, <2>2
<1> QED BY <1>1, <1>2 DEF CustomersCallOK, CustomersCall

LEMMA CustomersStays ==
  ASSUME CustomersSound, DOMAIN calls = Slots, Elsewhere(CustomersOps), UNCHANGED customerVars
  PROVE  CustomersSound' /\ \A d : CustomersCallOK(d) => CustomersCallOK(d)'
<1>0. UNCHANGED customers /\ UNCHANGED links
  BY DEF customerVars
<1>1. \A t \in Slots : calls'[t].op \in CustomersOps => calls'[t] = calls[t]
  BY ElsewhereKeeps
<1>2. CustomersTypeOK /\ CustomersTypeOK'
  BY <1>0 DEF CustomersSound, CustomersTypeOK
<1>3. ASSUME NEW u \in Users PROVE PostsAreBounded(u)' /\ links'[u] \in 0..customers'[u]
  <2>1. Remaining(u)' = {x \in Attempts : Posts(calls'[x[1]], u, x[2])}
    BY DEF Remaining, Posts, Attempts
  <2>2. ASSUME NEW x \in Attempts, Posts(calls'[x[1]], u, x[2]) PROVE Posts(calls[x[1]], u, x[2])
    <3>1. x[1] \in Slots /\ calls'[x[1]].op \in CustomersOps
      BY <2>2 DEF Attempts, Posts, CustomersOps
    <3> QED BY <1>1, <2>2, <3>1
  <2>3. Remaining(u)' \subseteq Remaining(u)
    BY <2>1, <2>2 DEF Remaining
  <2>4. PostsAreBounded(u) /\ links[u] \in 0..customers[u] /\ customers[u] \in Nat
    BY DEF CustomersSound, CustomersTypeOK
  <2> QED BY <1>0, <2>3, <2>4, PostsShrink
<1>4. \A u \in Users : customers[u] <= customers'[u]
  BY <1>0, <1>2 DEF CustomersTypeOK
<1> QED BY <1>2, <1>3, <1>4, CustomersCallsOutlive DEF CustomersSound

\* A handler begins, goes on or ends, and no customer is created.
LEMMA CustomersMove ==
  ASSUME CustomersSound, DOMAIN calls = Slots, NEW s \in Slots, NEW c, Moves(s, c), UNCHANGED customers,
         c = NoCall \/ c.op \in CustomersOps, CustomersCallOK(c), served' \in 0..MaxRequests,
         CustomersTypeOK', \A u \in Users : links'[u] \in 0..customers[u],
         \A u \in Users : \A n : Posts(c, u, n) => customers[u] = 0
  PROVE  CustomersKept
<1>1. CustomersTypeOK /\ \A u \in Users : PostsAreBounded(u) /\ customers[u] \in Nat
  BY DEF CustomersSound, CustomersTypeOK
<1>2. ASSUME NEW u \in Users PROVE PostsAreBounded(u)'
  <2>1. CASE \E n : Posts(c, u, n)
    BY <2>1, PostsStartAfresh
  <2>2. CASE ~\E n : Posts(c, u, n)
    <3>1. Remaining(u)' \subseteq Remaining(u)
      BY <2>2, MovePosts
    <3> QED BY <1>1, <3>1, PostsShrink
  <2> QED BY <2>1, <2>2
<1>3. CustomersSound'
  BY <1>2 DEF CustomersSound
<1>4. \A d : CustomersCallOK(d) => CustomersCallOK(d)'
  BY <1>1, CustomersCallsOutlive
<1> QED BY <1>3, <1>4 DEF CustomersKept

\* A customer is created at an attempt, which is spent.
LEMMA CustomersGrow ==
  ASSUME CustomersSound, DOMAIN calls = Slots, NEW s \in Slots, NEW c, Moves(s, c), UNCHANGED links,
         At(s, "postCustomer"), CustomersCallOK(calls[s]), AddCustomer(calls[s].user),
         c = NoCall \/ c.op \in CustomersOps, CustomersCallOK(c)', served' \in 0..MaxRequests,
         \A u, n : Posts(c, u, n) => u = calls[s].user /\ c.attempt = calls[s].attempt + 1
  PROVE  CustomersKept
<1>1. /\ CustomersTypeOK /\ customers \in [Users -> Nat] /\ links \in [Users -> Nat]
      /\ \A u \in Users : PostsAreBounded(u) /\ links[u] \in 0..customers[u]
  BY DEF CustomersSound, CustomersTypeOK
<1>2. calls[s].op = "postCustomer" /\ calls[s].user \in Users /\ calls[s].attempt \in 1..MaxPosts
  BY DEF At, CustomersCallOK, CustomersCall, CustomersOps
<1>3. PICK w \in Users, k \in 1..MaxPosts : w = calls[s].user /\ k = calls[s].attempt
  BY <1>2
<1>4. /\ customers' \in [Users -> Nat] /\ customers'[w] = customers[w] + 1
      /\ \A u \in Users : u # w => customers'[u] = customers[u]
  BY <1>1, <1>3 DEF AddCustomer
<1>5. CustomersTypeOK' /\ \A u \in Users : customers[u] <= customers'[u] /\ links'[u] \in 0..customers'[u]
  BY <1>1, <1>4 DEF CustomersTypeOK
<1>6. ASSUME NEW u \in Users PROVE PostsAreBounded(u)'
  <2>1. \A x \in Remaining(u)' : IF x[1] = s THEN Posts(c, u, x[2]) ELSE x \in Remaining(u)
    BY MovePosts
  <2>2. CASE u # w
    <3>1. Remaining(u)' \subseteq Remaining(u)
      BY <1>3, <2>1, <2>2
    <3> QED BY <1>1, <1>4, <2>2, <3>1, PostsShrink
  <2>3. CASE u = w
    <3>1. PICK x \in Attempts : x = <<s, k>>
      BY DEF Attempts
    <3>2. k \in Nat /\ x[1] = s /\ x[2] = k
      BY <3>1
    <3>3. x \in Remaining(w)
      BY <1>2, <1>3, <3>1, <3>2 DEF Remaining, Posts
    <3>4. ASSUME NEW y \in Remaining(u)' PROVE y \in Remaining(w) /\ y # x
      <4>1. y \in Attempts /\ y[1] \in Slots /\ y[2] \in Nat
        BY <3>4 DEF Remaining, Attempts
      <4>2. CASE y[1] = s
        <5>1. Posts(c, u, y[2]) /\ c.attempt = k + 1 /\ k + 1 <= y[2]
          BY <1>3, <2>1, <3>4, <4>2 DEF Posts
        <5>2. k <= y[2] /\ y[2] # k
          BY <3>2, <4>1, <5>1
        <5>3. y # x
          BY <3>2, <5>2
        <5>4. Posts(calls[y[1]], w, y[2])
          BY <1>2, <1>3, <4>2, <5>2 DEF Posts
        <5> QED BY <4>1, <5>3, <5>4 DEF Remaining
      <4>3. CASE y[1] # s
        BY <2>1, <2>3, <3>2, <3>4, <4>3
      <4> QED BY <4>2, <4>3
    <3>5. Remaining(u)' \subseteq Remaining(u) \ {x}
      BY <2>3, <3>4
    <3> QED BY <1>1, <1>4, <2>3, <3>3, <3>5, PostsMove
  <2> QED BY <2>2, <2>3
<1>7. CustomersSound'
  BY <1>5, <1>6 DEF CustomersSound
<1>8. \A d : CustomersCallOK(d) => CustomersCallOK(d)'
  BY <1>1, <1>5, CustomersCallsOutlive
<1> QED BY <1>7, <1>8 DEF CustomersKept

LEMMA CustomersNextKeeps ==
  ASSUME CustomersSound, served \in 0..MaxRequests, DOMAIN calls = Slots,
         \A s \in Slots : CustomersCallOK(calls[s]), CustomersNext
  PROVE  CustomersKept
<1>0. /\ CustomersTypeOK /\ customers \in [Users -> Nat] /\ links \in [Users -> Nat]
      /\ \A u \in Users : customers[u] \in Nat /\ links[u] \in 0..customers[u]
  BY DEF CustomersSound, CustomersTypeOK
<1>1. NoCall.op = "none" /\ CustomersCallOK(NoCall) /\ CustomersCallOK(NoCall)' /\ \A u, n : ~Posts(NoCall, u, n)
  BY DEF NoCall, CustomersCallOK, CustomersOps, Posts
<1>2. MaxPosts \in Nat /\ 1 \in 1..MaxPosts
  BY CustomerLinksAssumption
<1>3. ASSUME NEW s \in Slots, NEW u \in Users, getOrCreateCustomer(s, u) PROVE CustomersKept
  <2>1. PICK c : c = [op |-> "listCustomers", user |-> u]
    OBVIOUS
  <2>2. CustomersCallOK(c) /\ c.op \in CustomersOps /\ \A v, n : ~Posts(c, v, n)
    BY <2>1 DEF CustomersCallOK, CustomersCall, CustomersOps, Posts
  <2>3. Begin(s, c) /\ UNCHANGED customers /\ UNCHANGED links
    BY <1>3, <2>1 DEF getOrCreateCustomer, customerVars
  <2>4. Moves(s, c) /\ served' \in 0..MaxRequests
    BY <2>3, ServedNext DEF Begin, Moves
  <2>5. CustomersTypeOK'
    BY <1>0, <2>3 DEF CustomersTypeOK
  <2> QED BY <1>0, <2>2, <2>3, <2>4, <2>5, CustomersMove
<1>4. ASSUME NEW s \in Slots, ListCustomers(s) PROVE CustomersKept
  <2>1. calls[s].op = "listCustomers" /\ calls[s].user \in Users
    BY <1>4 DEF ListCustomers, At, CustomersCallOK, CustomersCall, CustomersOps
  <2>2. PICK u \in Users : u = calls[s].user
    BY <2>1
  <2>3. UNCHANGED customers /\ UNCHANGED links /\ CustomersTypeOK'
    BY <1>0, <1>4 DEF ListCustomers, customerVars, CustomersTypeOK
  <2>4. CASE 1..customers[u] = {} /\ PostNext(s)
    <3>1. PICK c : c = [op |-> "postCustomer", user |-> u, attempt |-> 1]
      OBVIOUS
    <3>2. CustomersCallOK(c) /\ c.op \in CustomersOps /\ \A v, n : Posts(c, v, n) => v = u
      BY <1>2, <3>1 DEF CustomersCallOK, CustomersCall, CustomersOps, Posts
    <3>3. customers[u] = 0
      BY <1>0, <2>4
    <3>4. Moves(s, c) /\ served' = served
      BY <2>2, <2>4, <3>1 DEF PostNext, Continue, Moves
    <3> QED BY <1>0, <2>3, <3>2, <3>3, <3>4, CustomersMove
  <2>5. ASSUME NEW k \in 1..customers[u], Continue(s, [op |-> "saveLink", user |-> u, customer |-> k])
        PROVE  CustomersKept
    <3>1. PICK c : c = [op |-> "saveLink", user |-> u, customer |-> k]
      OBVIOUS
    <3>2. k \in Nat
      BY <1>0
    <3>3. CustomersCallOK(c) /\ c.op \in CustomersOps /\ \A v, n : ~Posts(c, v, n)
      BY <3>1, <3>2 DEF CustomersCallOK, CustomersCall, CustomersOps, Posts
    <3>4. Moves(s, c) /\ served' = served
      BY <2>5, <3>1 DEF Continue, Moves
    <3> QED BY <1>0, <2>3, <3>3, <3>4, CustomersMove
  <2> QED BY <1>4, <2>2, <2>4, <2>5 DEF ListCustomers
<1>5. ASSUME NEW s \in Slots, At(s, "postCustomer")
      PROVE  calls[s].user \in Users /\ calls[s].attempt \in 1..MaxPosts
  BY <1>5 DEF At, CustomersCallOK, CustomersCall, CustomersOps
<1>6. ASSUME NEW s \in Slots, CreateCustomer(s) PROVE CustomersKept
  <2>1. PICK u \in Users : u = calls[s].user
    BY <1>5, <1>6 DEF CreateCustomer
  <2>2. At(s, "postCustomer") /\ AddCustomer(u) /\ UNCHANGED links
    BY <1>6, <2>1 DEF CreateCustomer
  <2>3. PICK c : c = [op |-> "saveLink", user |-> u, customer |-> customers[u] + 1]
    OBVIOUS
  <2>4. customers'[u] = customers[u] + 1 /\ customers[u] + 1 \in 1..customers'[u] /\ customers[u] + 1 \in Nat
    BY <1>0, <2>2 DEF AddCustomer
  <2>5. CustomersCallOK(c)' /\ c.op \in CustomersOps /\ \A v, n : ~Posts(c, v, n)
    BY <2>3, <2>4 DEF CustomersCallOK, CustomersCall, CustomersOps, Posts
  <2>6. Moves(s, c) /\ served' = served
    BY <1>6, <2>1, <2>3 DEF CreateCustomer, Continue, Moves
  <2> QED BY <2>1, <2>2, <2>5, <2>6, CustomersGrow
<1>7. ASSUME NEW s \in Slots, LoseCustomerAnswer(s) PROVE CustomersKept
  <2>1. At(s, "postCustomer") /\ AddCustomer(calls[s].user) /\ UNCHANGED links
    BY <1>7 DEF LoseCustomerAnswer
  <2>2. calls[s] \in [op: {"postCustomer"}, user: Users, attempt: 1..MaxPosts]
    BY <2>1 DEF At, CustomersCallOK, CustomersCall, CustomersOps
  <2>3. CASE calls[s].attempt < MaxPosts
    <3>1. PICK c : c = [calls[s] EXCEPT !.attempt = @ + 1]
      OBVIOUS
    <3>2. calls[s].attempt + 1 \in 1..MaxPosts
      BY <1>2, <2>2, <2>3
    <3>3. /\ c \in [op: {"postCustomer"}, user: Users, attempt: 1..MaxPosts] /\ c.op = "postCustomer"
          /\ c.user = calls[s].user /\ c.attempt = calls[s].attempt + 1
      BY <2>2, <3>1, <3>2
    <3>4. CustomersCallOK(c)' /\ c.op \in CustomersOps
      BY <3>3 DEF CustomersCallOK, CustomersCall, CustomersOps
    <3>5. \A v, n : Posts(c, v, n) => v = calls[s].user /\ c.attempt = calls[s].attempt + 1
      BY <3>3 DEF Posts
    <3>6. Moves(s, c) /\ served' = served
      BY <1>7, <2>3, <3>1 DEF LoseCustomerAnswer, Continue, Moves
    <3> QED BY <2>1, <3>4, <3>5, <3>6, CustomersGrow
  <2>4. CASE ~(calls[s].attempt < MaxPosts)
    <3>1. Moves(s, NoCall) /\ served' = served
      BY <1>7, <2>4 DEF LoseCustomerAnswer, Finish, Continue, Moves
    <3> QED BY <1>1, <2>1, <3>1, CustomersGrow
  <2> QED BY <2>3, <2>4
<1>8. ASSUME NEW s \in Slots, StoreLink(s) PROVE CustomersKept
  <2>1. /\ calls[s].op = "saveLink" /\ SaveLink(calls[s].user, calls[s].customer) /\ UNCHANGED customers
        /\ Moves(s, NoCall) /\ served' = served
    BY <1>8 DEF StoreLink, At, Finish, Continue, Moves
  <2>2. calls[s].user \in Users /\ calls[s].customer \in Nat /\ calls[s].customer \in 1..customers[calls[s].user]
    BY <2>1 DEF CustomersCallOK, CustomersCall, CustomersOps
  <2>3. links' \in [Users -> Nat] /\ \A u \in Users : links'[u] \in 0..customers[u]
    BY <1>0, <2>1, <2>2 DEF SaveLink
  <2>4. CustomersTypeOK'
    BY <1>0, <2>1, <2>3 DEF CustomersTypeOK
  <2> QED BY <1>1, <2>1, <2>3, <2>4, CustomersMove
<1> QED BY <1>3, <1>4, <1>6, <1>7, <1>8 DEF CustomersNext

LEMMA CustomersBound ==
  ASSUME CustomersSound
  PROVE  CustomersAreBounded
<1> SUFFICES ASSUME NEW u \in Users
             PROVE  customers[u] <= Cardinality(Slots) * MaxPosts /\ links[u] \in 0..customers[u]
  BY DEF CustomersAreBounded
<1>1. customers[u] \in Nat /\ PostsAreBounded(u) /\ links[u] \in 0..customers[u]
  BY DEF CustomersSound, CustomersTypeOK
<1>2. Remaining(u) \in SUBSET Attempts
  BY DEF Remaining
<1>3. Cardinality(Remaining(u)) \in Nat
  BY <1>2, RemainingIsFinite
<1> QED BY <1>1, <1>3, AttemptsAreFinite DEF PostsAreBounded

-----------------------------------------------------------------------------
(* Lookup values and settings.                                             *)

\* The handler has seen no document of the key and will insert one.
Inserts(c, k) == c.op = "insertSetting" /\ c.chave = k
Inserting(k) == {s \in Slots : Inserts(calls[s], k)}

\* Documents of a key come from handlers that overlapped, for whoever finds one inserts none.
InsertsAreBounded(k) ==
  /\ IsFiniteSet(DocumentsOf(k))
  /\ Cardinality(DocumentsOf(k)) + Cardinality(Inserting(k)) <= Cardinality(Slots)

SettingsSound == SettingsTypeOK /\ \A k \in Chaves : InsertsAreBounded(k)

SettingsCallOK(c) == c.op \in SettingsOps => c \in SettingsCall(c.op)

SettingsKept ==
  /\ SettingsSound'
  /\ \/ UNCHANGED calls
     \/ \E s \in Slots : \E c : Moves(s, c) /\ (c = NoCall \/ c.op \in SettingsOps) /\ SettingsCallOK(c)
  /\ served' \in 0..MaxRequests

LEMMA InsertsShrink ==
  ASSUME NEW k \in Chaves, InsertsAreBounded(k), DocumentsOf(k)' \subseteq DocumentsOf(k),
         Inserting(k)' \subseteq Inserting(k)
  PROVE  InsertsAreBounded(k)'
<1>1. PICK S, T, C, D : S = DocumentsOf(k) /\ T = DocumentsOf(k)' /\ C = Inserting(k) /\ D = Inserting(k)'
  OBVIOUS
<1>2. /\ T \in SUBSET S /\ C \in SUBSET Slots /\ D \in SUBSET C
      /\ IsFiniteSet(S) /\ Cardinality(S) + Cardinality(C) <= Cardinality(Slots)
  BY <1>1 DEF InsertsAreBounded, Inserting
<1>3. IsFiniteSet(T) /\ Cardinality(T) + Cardinality(D) <= Cardinality(Slots)
  BY <1>2, BoundShrinks
<1> QED BY <1>1, <1>3 DEF InsertsAreBounded

LEMMA InsertsMove ==
  ASSUME NEW k \in Chaves, InsertsAreBounded(k), NEW m, NEW s \in Inserting(k),
         DocumentsOf(k)' \subseteq DocumentsOf(k) \cup {m}, Inserting(k)' \subseteq Inserting(k) \ {s}
  PROVE  InsertsAreBounded(k)'
<1>1. PICK S, T, C, D : S = DocumentsOf(k) /\ T = DocumentsOf(k)' /\ C = Inserting(k) /\ D = Inserting(k)'
  OBVIOUS
<1>2. /\ T \in SUBSET (S \cup {m}) /\ C \in SUBSET Slots /\ s \in C /\ D \in SUBSET (C \ {s})
      /\ IsFiniteSet(S) /\ Cardinality(S) + Cardinality(C) <= Cardinality(Slots)
  BY <1>1 DEF InsertsAreBounded, Inserting
<1>3. IsFiniteSet(T) /\ Cardinality(T) + Cardinality(D) <= Cardinality(Slots)
  BY <1>2, BoundMoves
<1> QED BY <1>1, <1>3 DEF InsertsAreBounded

LEMMA InsertsStartAfresh ==
  ASSUME NEW k \in Chaves, DocumentsOf(k)' = {}
  PROVE  InsertsAreBounded(k)'
<1>1. PICK D : D = Inserting(k)'
  OBVIOUS
<1>2. D \in SUBSET Slots
  BY <1>1 DEF Inserting
<1>3. Cardinality(D) \in Nat /\ Cardinality(Slots) \in Nat /\ IsFiniteSet(Slots)
  BY <1>2, CreatorsAreFinite, HandlersAssumption
<1>4. Cardinality(D) <= Cardinality(Slots)
  BY <1>2, <1>3, FS_Subset
<1>5. IsFiniteSet({}) /\ Cardinality({}) = 0
  BY FS_EmptySet
<1>6. 0 + Cardinality(D) <= Cardinality(Slots)
  BY <1>3, <1>4
<1> QED BY <1>1, <1>5, <1>6 DEF InsertsAreBounded

LEMMA MoveInserting ==
  ASSUME DOMAIN calls = Slots, NEW s \in Slots, NEW c, Moves(s, c), NEW k
  PROVE  Inserting(k)' \subseteq (Inserting(k) \ {s}) \cup {t \in {s} : Inserts(c, k)}
<1>1. \A t \in Slots : calls'[t] = IF t = s THEN c ELSE calls[t]
  BY CallsAfter
<1>2. ASSUME NEW t \in Inserting(k)', ~(t = s /\ Inserts(c, k)) PROVE t \in Inserting(k) \ {s}
  <2>1. t \in Slots /\ Inserts(calls'[t], k)
    BY <1>2 DEF Inserting, Inserts
  <2>2. t # s /\ calls'[t] = calls[t]
    BY <1>1, <1>2, <2>1
  <2> QED BY <2>1, <2>2 DEF Inserting
<1> QED BY <1>2

LEMMA SettingsStays ==
  ASSUME SettingsSound, DOMAIN calls = Slots, Elsewhere(SettingsOps), UNCHANGED settingsVars
  PROVE  SettingsSound'
<1>0. UNCHANGED dominios /\ UNCHANGED settings
  BY DEF settingsVars
<1>1. \A t \in Slots : calls'[t].op \in SettingsOps => calls'[t] = calls[t]
  BY ElsewhereKeeps
<1>2. ASSUME NEW k \in Chaves PROVE InsertsAreBounded(k)'
  <2>1. DocumentsOf(k)' \subseteq DocumentsOf(k)
    BY <1>0 DEF DocumentsOf
  <2>2. ASSUME NEW t \in Inserting(k)' PROVE t \in Inserting(k)
    <3>1. t \in Slots /\ Inserts(calls'[t], k)
      BY <2>2 DEF Inserting, Inserts
    <3>2. calls'[t].op \in SettingsOps
      BY <3>1 DEF Inserts, SettingsOps
    <3> QED BY <1>1, <3>1, <3>2 DEF Inserting
  <2>3. InsertsAreBounded(k)
    BY DEF SettingsSound
  <2> QED BY <2>1, <2>2, <2>3, InsertsShrink
<1>3. SettingsTypeOK'
  BY <1>0 DEF SettingsSound, SettingsTypeOK
<1> QED BY <1>2, <1>3 DEF SettingsSound

LEMMA FirstDocument ==
  ASSUME NEW k \in Chaves, DocumentsOf(k) # {}
  PROVE  FindByChave(k) # {}
<1> DEFINE before == {ss \in Nat \X Nat : ss[1] < ss[2]}
<1>1. IsWellFoundedOn(before, Nat)
  BY NatLessThanWellFounded DEF OpToRel
<1>2. DocumentsOf(k) \subseteq Nat
  BY SettingsAssumption DEF DocumentsOf
<1>3. PICK c \in DocumentsOf(k) : \A d \in DocumentsOf(k) : <<d, c>> \notin before
  <2> HIDE DEF before
  <2> QED BY <1>1, <1>2, WFMin
<1>4. ASSUME NEW d \in DocumentsOf(k) PROVE c <= d
  <2>1. c \in Nat /\ d \in Nat
    BY <1>2
  <2>2. d < c => <<d, c>> \in before
    BY <2>1
  <2> QED BY <1>3, <2>1, <2>2
<1> QED BY <1>4 DEF FindByChave

LEMMA PutsSetting ==
  ASSUME SettingsTypeOK, NEW k \in Chaves, NEW c \in Copies, NEW valor \in Valores, PutSetting(k, c, valor)
  PROVE  /\ settings' \in [Chaves -> [Copies -> Valores \cup {NoDocument}]]
         /\ DocumentsOf(k)' = DocumentsOf(k) \cup {c}
         /\ \A j \in Chaves : j # k => DocumentsOf(j)' = DocumentsOf(j)
<1>1. settings \in [Chaves -> [Copies -> Valores \cup {NoDocument}]]
  BY DEF SettingsTypeOK
<1>2. PICK new : new = [settings[k] EXCEPT ![c] = valor]
  OBVIOUS
<1>3. new \in [Copies -> Valores \cup {NoDocument}] /\ new[c] = valor /\ \A d \in Copies : d # c => new[d] = settings[k][d]
  BY <1>1, <1>2
<1>4. settings' = [settings EXCEPT ![k] = new]
  BY <1>2 DEF PutSetting
<1>5. /\ settings' \in [Chaves -> [Copies -> Valores \cup {NoDocument}]] /\ settings'[k] = new
      /\ \A j \in Chaves : j # k => settings'[j] = settings[j]
  BY <1>1, <1>3, <1>4
<1>6. valor # NoDocument
  BY SettingsAssumption
<1> QED BY <1>3, <1>5, <1>6 DEF DocumentsOf

LEMMA SettingsNextKeeps ==
  ASSUME SettingsSound, served \in 0..MaxRequests, DOMAIN calls = Slots,
         \A s \in Slots : SettingsCallOK(calls[s]), SettingsNext
  PROVE  SettingsKept
<1>0. /\ SettingsTypeOK /\ dominios \in [Dominios -> Valores \cup {NoDocument}]
      /\ \A k \in Chaves : InsertsAreBounded(k)
  BY DEF SettingsSound, SettingsTypeOK
<1>1. SettingsCallOK(NoCall) /\ \A k : ~Inserts(NoCall, k)
  BY DEF NoCall, SettingsCallOK, SettingsOps, Inserts
<1>2. ASSUME dominios' \in [Dominios -> Valores \cup {NoDocument}], UNCHANGED settings, UNCHANGED calls,
             served < MaxRequests, served' = served + 1
      PROVE  SettingsKept
  <2>1. SettingsTypeOK'
    BY <1>0, <1>2 DEF SettingsTypeOK
  <2>2. ASSUME NEW k \in Chaves PROVE InsertsAreBounded(k)'
    BY <1>0, <1>2, InsertsShrink DEF DocumentsOf, Inserting, Inserts
  <2>3. served' \in 0..MaxRequests
    BY <1>2, ServedNext
  <2> QED BY <1>2, <2>1, <2>2, <2>3 DEF SettingsKept, SettingsSound
<1>3. ASSUME NEW s \in Slots, UpsertDominioHandler(s) PROVE SettingsKept
  <2>1. PICK d \in Dominios : UpsertDominio(d)
    BY <1>3 DEF UpsertDominioHandler
  <2>2. served + 1 \in Valores
    BY <2>1, ServedNext DEF UpsertDominio, Valores
  <2>3. dominios' \in [Dominios -> Valores \cup {NoDocument}]
    BY <1>0, <2>1, <2>2 DEF UpsertDominio, SaveDominio
  <2> QED BY <1>2, <2>1, <2>3 DEF UpsertDominio
<1>4. ASSUME NEW s \in Slots, DeleteDominioHandler(s) PROVE SettingsKept
  <2>1. PICK d \in Dominios : DeleteDominio(d)
    BY <1>4 DEF DeleteDominioHandler
  <2>2. dominios' \in [Dominios -> Valores \cup {NoDocument}]
    BY <1>0, <2>1 DEF DeleteDominio, DeleteDominioByID
  <2> QED BY <1>2, <2>1, <2>2 DEF DeleteDominio
<1>5. ASSUME NEW s \in Slots, NEW c, Moves(s, c), c = NoCall \/ c.op \in SettingsOps, SettingsCallOK(c),
             served' \in 0..MaxRequests, UNCHANGED dominios, SettingsTypeOK',
             \A k \in Chaves : InsertsAreBounded(k)'
      PROVE  SettingsKept
  BY <1>5 DEF SettingsKept, SettingsSound
<1>6. ASSUME NEW s \in Slots, UpsertConfigSistemaHandler(s) PROVE SettingsKept
  <2>1. PICK k \in Chaves : UpsertConfigSistema(s, k)
    BY <1>6 DEF UpsertConfigSistemaHandler
  <2>2. served < MaxRequests /\ UNCHANGED dominios
    BY <2>1 DEF UpsertConfigSistema, Begin
  <2>3. served + 1 \in Valores
    BY <2>2, ServedNext DEF Valores
  <2>4. ASSUME NEW c \in MatchByChave(k), PutSetting(k, c, served + 1), Begin(s, [op |-> "readSetting", chave |-> k])
        PROVE  SettingsKept
    <3>1. PICK d : d = [op |-> "readSetting", chave |-> k]
      OBVIOUS
    <3>2. d.op \in SettingsOps /\ SettingsCallOK(d) /\ \A j : ~Inserts(d, j)
      BY <3>1 DEF SettingsOps, SettingsCallOK, SettingsCall, Inserts
    <3>3. Moves(s, d) /\ served' \in 0..MaxRequests
      BY <2>4, <3>1, ServedNext DEF Begin, Moves
    <3>4. c \in Copies /\ c \in DocumentsOf(k)
      BY DEF MatchByChave, FindByChave, DocumentsOf
    <3>5. /\ settings' \in [Chaves -> [Copies -> Valores \cup {NoDocument}]]
          /\ \A j \in Chaves : DocumentsOf(j)' = DocumentsOf(j)
      <4>1. /\ settings' \in [Chaves -> [Copies -> Valores \cup {NoDocument}]]
            /\ DocumentsOf(k)' = DocumentsOf(k) \cup {c}
            /\ \A j \in Chaves : j # k => DocumentsOf(j)' = DocumentsOf(j)
        BY <1>0, <2>3, <2>4, <3>4, PutsSetting
      <4>2. DocumentsOf(k)' = DocumentsOf(k)
        BY <3>4, <4>1
      <4> QED BY <4>1, <4>2
    <3>6. SettingsTypeOK'
      BY <1>0, <2>2, <3>5 DEF SettingsTypeOK
    <3>7. ASSUME NEW j \in Chaves PROVE InsertsAreBounded(j)'
      <4>1. Inserting(j)' \subseteq Inserting(j)
        BY <3>2, <3>3, MoveInserting
      <4> QED BY <1>0, <3>5, <4>1, InsertsShrink
    <3> QED BY <1>5, <2>2, <3>2, <3>3, <3>6, <3>7
  <2>5. ASSUME MatchByChave(k) = {}, UNCHANGED settings,
               Begin(s, [op |-> "insertSetting", chave |-> k, valor |-> served + 1])
        PROVE  SettingsKept
    <3>1. PICK d : d = [op |-> "insertSetting", chave |-> k, valor |-> served + 1]
      OBVIOUS
    <3>2. d.op \in SettingsOps /\ SettingsCallOK(d) /\ \A j : Inserts(d, j) => j = k
      BY <2>3, <3>1 DEF SettingsOps, SettingsCallOK, SettingsCall, Inserts
    <3>3. Moves(s, d) /\ served' \in 0..MaxRequests
      BY <2>5, <3>1, ServedNext DEF Begin, Moves
    <3>4. DocumentsOf(k) = {}
      BY <2>5, FirstDocument DEF MatchByChave
    <3>5. \A j \in Chaves : DocumentsOf(j)' = DocumentsOf(j)
      BY <2>5 DEF DocumentsOf
    <3>6. SettingsTypeOK'
      BY <1>0, <2>2, <2>5 DEF SettingsTypeOK
    <3>7. ASSUME NEW j \in Chaves PROVE InsertsAreBounded(j)'
      <4>1. CASE j = k
        BY <3>4, <3>5, <4>1, InsertsStartAfresh
      <4>2. CASE j # k
        <5>1. Inserting(j)' \subseteq Inserting(j)
          BY <3>2, <3>3, <4>2, MoveInserting
        <5> QED BY <1>0, <3>5, <5>1, InsertsShrink
      <4> QED BY <4>1, <4>2
    <3> QED BY <1>5, <2>2, <3>2, <3>3, <3>6, <3>7
  <2> QED BY <2>1, <2>4, <2>5 DEF UpsertConfigSistema
<1>7. ASSUME NEW s \in Slots, InsertSetting(s) PROVE SettingsKept
  <2>1. calls[s].op = "insertSetting" /\ calls[s].chave \in Chaves /\ calls[s].valor \in Valores
    BY <1>7 DEF InsertSetting, At, SettingsCallOK, SettingsCall, SettingsOps
  <2>2. PICK k \in Chaves, valor \in Valores : k = calls[s].chave /\ valor = calls[s].valor
    BY <2>1
  <2>3. PICK c \in NextCopy(k) : PutSetting(k, c, valor)
    BY <1>7, <2>2 DEF InsertSetting
  <2>4. PICK d : d = [op |-> "readSetting", chave |-> k]
    OBVIOUS
  <2>5. d.op \in SettingsOps /\ SettingsCallOK(d) /\ \A j : ~Inserts(d, j)
    BY <2>4 DEF SettingsOps, SettingsCallOK, SettingsCall, Inserts
  <2>6. Moves(s, d) /\ served' = served /\ UNCHANGED dominios
    BY <1>7, <2>2, <2>4 DEF InsertSetting, Continue, Moves
  <2>7. c \in Copies
    BY DEF NextCopy
  <2>8. /\ settings' \in [Chaves -> [Copies -> Valores \cup {NoDocument}]]
        /\ DocumentsOf(k)' = DocumentsOf(k) \cup {c}
        /\ \A j \in Chaves : j # k => DocumentsOf(j)' = DocumentsOf(j)
    BY <1>0, <2>3, <2>7, PutsSetting
  <2>9. SettingsTypeOK'
    BY <1>0, <2>6, <2>8 DEF SettingsTypeOK
  <2>10. ASSUME NEW j \in Chaves PROVE InsertsAreBounded(j)'
    <3>1. Inserting(j)' \subseteq Inserting(j) \ {s}
      BY <2>5, <2>6, MoveInserting
    <3>2. CASE j = k
      <4>1. s \in Inserting(k)
        BY <2>1, <2>2 DEF Inserting, Inserts
      <4> QED BY <1>0, <2>8, <3>1, <3>2, <4>1, InsertsMove
    <3>3. CASE j # k
      BY <1>0, <2>8, <3>1, <3>3, InsertsShrink
    <3> QED BY <3>2, <3>3
  <2> QED BY <1>5, <2>5, <2>6, <2>9, <2>10
<1>8. ASSUME NEW s \in Slots, ReadSetting(s) PROVE SettingsKept
  <2>1. Moves(s, NoCall) /\ served' = served /\ UNCHANGED dominios /\ UNCHANGED settings
    BY <1>8 DEF ReadSetting, Finish, Continue, Moves, settingsVars
  <2>2. SettingsTypeOK' /\ \A k \in Chaves : DocumentsOf(k)' = DocumentsOf(k)
    BY <1>0, <2>1 DEF SettingsTypeOK, DocumentsOf
  <2>3. ASSUME NEW k \in Chaves PROVE InsertsAreBounded(k)'
    <3>1. Inserting(k)' \subseteq Inserting(k)
      BY <1>1, <2>1, MoveInserting
    <3> QED BY <1>0, <2>2, <3>1, InsertsShrink
  <2> QED BY <1>1, <1>5, <2>1, <2>2, <2>3
<1> QED BY <1>3, <1>4, <1>6, <1>7, <1>8 DEF SettingsNext, SettingsRequest

LEMMA CopiesBound ==
  ASSUME SettingsSound
  PROVE  CopiesAreBounded
<1> SUFFICES ASSUME NEW k \in Chaves PROVE Cardinality(DocumentsOf(k)) <= Cardinality(Slots)
  BY DEF CopiesAreBounded
<1>1. /\ IsFiniteSet(DocumentsOf(k))
      /\ Cardinality(DocumentsOf(k)) + Cardinality(Inserting(k)) <= Cardinality(Slots)
  BY DEF SettingsSound, InsertsAreBounded
<1>2. Inserting(k) \in SUBSET Slots
  BY DEF Inserting
<1>3. Cardinality(DocumentsOf(k)) \in Nat /\ Cardinality(Inserting(k)) \in Nat /\ Cardinality(Slots) \in Nat
  BY <1>1, <1>2, CreatorsAreFinite, FS_CardinalityType
<1> QED BY <1>1, <1>3

-----------------------------------------------------------------------------
(* Notifications and templates.                                            *)

\* The text a handler was sent for a template, or the one it has.
Sent(c) == IF c.corpo = 0 THEN templates[c.template].corpo ELSE c.corpo

\* A copy of a notification is marked read.  A copy of a template is that of a template
\* which was created, and unless it was updated since, holds its text or the one sent.
NoticesCallOK(c) ==
  c.op \in NoticesOps =>
    /\ c \in NoticesCall(c.op)
    /\ c.op = "replaceNotice" => c.copy.lida # 0
    /\ c.op = "replaceTemplate" =>
         /\ templates[c.template] # Absent /\ c.seen <= updated[c.template]
         /\ c.seen = updated[c.template] /\ TemplateExists(c.template) => c.copy.corpo = Sent(c)

\* The step NoticesOnlyAdvance allows.
NoticesAdvance ==
  \A n \in Notices :
    /\ notificacoes[n] = Dropped => notificacoes'[n] = Dropped
    /\ NoticeExists(n) /\ notificacoes[n].lida # 0 =>
         notificacoes'[n] = Dropped \/ notificacoes'[n].lida # 0

NoticesKept ==
  /\ NoticesTypeOK' /\ NoticesAdvance
  /\ \A d : NoticesCallOK(d) => NoticesCallOK(d)'
  /\ \/ UNCHANGED calls
     \/ \E s \in Slots : \E c : Moves(s, c) /\ (c = NoCall \/ c.op \in NoticesOps) /\ NoticesCallOK(c)'
  /\ served' \in 0..MaxRequests

\* A template that was created is not created again, and is the same as long as it is
\* neither updated nor deleted.
TemplatesAdvance ==
  \A t \in Templates :
    /\ updated[t] <= updated'[t]
    /\ templates[t] # Absent =>
         /\ templates'[t] # Absent
         /\ updated'[t] = updated[t] /\ TemplateExists(t)' => TemplateExists(t) /\ templates'[t] = templates[t]

LEMMA NoticesCallsOutlive ==
  ASSUME NoticesTypeOK, NoticesTypeOK', TemplatesAdvance
  PROVE  \A d : NoticesCallOK(d) => NoticesCallOK(d)'
<1> SUFFICES ASSUME NEW d, NoticesCallOK(d), d.op \in NoticesOps PROVE NoticesCallOK(d)'
  BY DEF NoticesCallOK
<1>1. d \in NoticesCall(d.op) /\ (d.op = "replaceNotice" => d.copy.lida # 0)
  BY DEF NoticesCallOK
<1>2. ASSUME d.op = "replaceTemplate"
      PROVE  /\ templates'[d.template] # Absent /\ d.seen <= updated'[d.template]
             /\ d.seen = updated'[d.template] /\ TemplateExists(d.template)' => d.copy.corpo = Sent(d)'
  <2>1. /\ d.template \in Templates /\ d.seen \in Nat
        /\ templates[d.template] # Absent /\ d.seen <= updated[d.template]
        /\ d.seen = updated[d.template] /\ TemplateExists(d.template) => d.copy.corpo = Sent(d)
    BY <1>2 DEF NoticesCallOK, NoticesCall, NoticesOps
  <2>2. PICK t \in Templates : t = d.template
    BY <2>1
  <2>3. updated[t] \in Nat /\ updated'[t] \in Nat
    BY DEF NoticesTypeOK
  <2>4. /\ updated[t] <= updated'[t] /\ templates'[t] # Absent
        /\ updated'[t] = updated[t] /\ TemplateExists(t)' => TemplateExists(t) /\ templates'[t] = templates[t]
    BY <2>1, <2>2 DEF TemplatesAdvance
  <2>5. ASSUME d.seen = updated'[t], TemplateExists(t)' PROVE d.copy.corpo = Sent(d)'
    <3>1. d.seen = updated[t] /\ updated'[t] = updated[t]
      BY <2>1, <2>2, <2>3, <2>4, <2>5
    <3> QED BY <2>1, <2>2, <2>4, <2>5, <3>1 DEF Sent
  <2>6. d.seen <= updated'[t]
    BY <2>1, <2>2, <2>3, <2>4
  <2> QED BY <2>2, <2>4, <2>5, <2>6
<1> QED BY <1>1, <1>2 DEF NoticesCallOK, NoticesCall

LEMMA NoticesStays ==
  ASSUME NoticesTypeOK, UNCHANGED noticeVars
  PROVE  NoticesTypeOK' /\ \A d : NoticesCallOK(d) => NoticesCallOK(d)'
<1>1. UNCHANGED notificacoes /\ UNCHANGED templates /\ UNCHANGED updated
  BY DEF noticeVars
<1>2. NoticesTypeOK'
  BY <1>1 DEF NoticesTypeOK
<1>3. TemplatesAdvance
  BY <1>1 DEF TemplatesAdvance, TemplateExists, NoticesTypeOK
<1> QED BY <1>2, <1>3, NoticesCallsOutlive

\* A step that only begins a handler.
LEMMA NoticesBegin ==
  ASSUME NoticesTypeOK, served \in 0..MaxRequests, NEW s \in Slots, NEW c, c.op \in NoticesOps, NoticesCallOK(c),
         Begin(s, c), UNCHANGED noticeVars
  PROVE  NoticesKept
<1>1. Moves(s, c) /\ served' \in 0..MaxRequests
  BY ServedNext DEF Begin, Moves
<1>2. NoticesAdvance
  BY DEF NoticesAdvance, noticeVars
<1> QED BY <1>1, <1>2, NoticesStays DEF NoticesKept

\* A step that writes, and ends a handler or moves none.
LEMMA NoticesEnd ==
  ASSUME NoticesTypeOK, served \in 0..MaxRequests, NoticesTypeOK', NoticesAdvance, TemplatesAdvance,
         \E s \in Slots : Finish(s) \/ Once(s)
  PROVE  NoticesKept
<1>1. NoticesCallOK(NoCall)'
  BY DEF NoCall, NoticesCallOK, NoticesOps
<1>2. PICK s \in Slots : Finish(s) \/ Once(s)
  OBVIOUS
<1>3. Finish(s) => Moves(s, NoCall) /\ served' = served
  BY DEF Finish, Continue, Moves
<1>4. Once(s) => UNCHANGED calls /\ served < MaxRequests /\ served' = served + 1
  BY DEF Once
<1>5. served' \in 0..MaxRequests
  BY <1>2, <1>3, <1>4, ServedNext
<1> QED BY <1>1, <1>2, <1>3, <1>4, <1>5, NoticesCallsOutlive DEF NoticesKept

LEMMA NoticesReads ==
  ASSUME NoticesTypeOK, served \in 0..MaxRequests, NEW s \in Slots,
         \/ update(s) \/ deleteTemplate(s)
         \/ \E u \in Users : marcarLida(s, u) \/ delete(s, u)
  PROVE  NoticesKept
<1>0. /\ templates \in [Templates -> NotificationTemplate \cup {Absent, Dropped}]
      /\ updated \in [Templates -> Nat]
  BY DEF NoticesTypeOK
<1>1. ASSUME NEW u \in Users, NEW n \in Notices, MarcarLida(s, u, n) PROVE NoticesKept
  <2>1. served < MaxRequests /\ UNCHANGED noticeVars
    BY <1>1 DEF MarcarLida, Begin
  <2>2. served + 1 \in Reads /\ served + 1 # 0
    BY <2>1, ServedNext DEF Reads
  <2>3. PICK copy : copy = [owner |-> u, lida |-> served + 1]
    OBVIOUS
  <2>4. copy \in Notificacao /\ copy.lida # 0
    BY <2>2, <2>3 DEF Notificacao
  <2>5. PICK c : c = [op |-> "replaceNotice", notice |-> n, copy |-> copy]
    OBVIOUS
  <2>6. c.op \in NoticesOps /\ NoticesCallOK(c)
    BY <2>4, <2>5 DEF NoticesOps, NoticesCallOK, NoticesCall
  <2>7. Begin(s, c)
    BY <1>1, <2>3, <2>5 DEF MarcarLida
  <2> QED BY <2>1, <2>6, <2>7, NoticesBegin
<1>2. ASSUME NEW u \in Users, NEW n \in Notices, DeleteNotificacao(s, u, n) PROVE NoticesKept
  <2>1. PICK c : c = [op |-> "deleteNotice", notice |-> n]
    OBVIOUS
  <2>2. c.op \in NoticesOps /\ NoticesCallOK(c)
    BY <2>1 DEF NoticesOps, NoticesCallOK, NoticesCall
  <2>3. Begin(s, c) /\ UNCHANGED noticeVars
    BY <1>2, <2>1 DEF DeleteNotificacao
  <2> QED BY <2>2, <2>3, NoticesBegin
<1>3. ASSUME NEW t \in Templates, DeleteNotificationTemplate(s, t) PROVE NoticesKept
  <2>1. PICK c : c = [op |-> "deleteTemplate", template |-> t]
    OBVIOUS
  <2>2. c.op \in NoticesOps /\ NoticesCallOK(c)
    BY <2>1 DEF NoticesOps, NoticesCallOK, NoticesCall
  <2>3. Begin(s, c) /\ UNCHANGED noticeVars
    BY <1>3, <2>1 DEF DeleteNotificationTemplate
  <2> QED BY <2>2, <2>3, NoticesBegin
<1>4. ASSUME NEW t \in Templates, NEW corpo \in {0, served + 1}, NEW ativo \in BOOLEAN,
             UpdateNotificationTemplate(s, t, corpo, ativo)
      PROVE  NoticesKept
  <2>1. served < MaxRequests /\ UNCHANGED noticeVars /\ TemplateExists(t)
    BY <1>4 DEF UpdateNotificationTemplate, Begin
  <2>2. templates[t] \in NotificationTemplate /\ templates[t] # Absent
    BY <1>0, <2>1 DEF TemplateExists
  <2>3. corpo \in Reads /\ (corpo = 0 \/ corpo \in 1..MaxRequests)
    BY <2>1, ServedNext, HandlersAssumption DEF Reads
  <2>4. PICK text : text = IF corpo = 0 THEN templates[t].corpo ELSE corpo
    OBVIOUS
  <2>5. text \in 1..MaxRequests
    BY <2>2, <2>3, <2>4 DEF NotificationTemplate
  <2>6. PICK copy : copy = [corpo |-> text, ativo |-> ativo]
    OBVIOUS
  <2>7. copy \in NotificationTemplate /\ copy.corpo = text
    BY <2>5, <2>6 DEF NotificationTemplate
  <2>8. updated[t] \in Nat
    BY <1>0
  <2>9. PICK c : c = [op |-> "replaceTemplate", template |-> t, copy |-> copy, corpo |-> corpo, seen |-> updated[t]]
    OBVIOUS
  <2>10. /\ c.op = "replaceTemplate" /\ c.template = t /\ c.copy = copy /\ c.corpo = corpo /\ c.seen = updated[t]
         /\ c \in NoticesCall(c.op)
    BY <2>3, <2>7, <2>8, <2>9 DEF NoticesCall
  <2>11. c.copy.corpo = Sent(c)
    BY <2>4, <2>7, <2>10 DEF Sent
  <2>12. c.op \in NoticesOps /\ NoticesCallOK(c)
    BY <2>2, <2>8, <2>10, <2>11 DEF NoticesOps, NoticesCallOK
  <2>13. Begin(s, c)
    BY <1>4, <2>4, <2>6, <2>9 DEF UpdateNotificationTemplate, ApplyNonEmpty
  <2> QED BY <2>1, <2>12, <2>13, NoticesBegin
<1> QED BY <1>1, <1>2, <1>3, <1>4 DEF update, deleteTemplate, marcarLida, delete

LEMMA WriteNotice ==
  ASSUME NoticesTypeOK, NEW n \in Notices, NEW new \in Notificacao \cup {Dropped}, new # Dropped => new.lida # 0,
         notificacoes' = (IF NoticeExists(n) THEN [notificacoes EXCEPT ![n] = new] ELSE notificacoes)
  PROVE  notificacoes' \in [Notices -> Notificacao \cup {Absent, Dropped}] /\ NoticesAdvance
<1>1. notificacoes \in [Notices -> Notificacao \cup {Absent, Dropped}]
  BY DEF NoticesTypeOK
<1>2. CASE ~NoticeExists(n)
  BY <1>1, <1>2 DEF NoticesAdvance
<1>3. CASE NoticeExists(n)
  <2>1. /\ notificacoes' \in [Notices -> Notificacao \cup {Absent, Dropped}] /\ notificacoes'[n] = new
        /\ \A m \in Notices : m # n => notificacoes'[m] = notificacoes[m]
    BY <1>1, <1>3
  <2>2. notificacoes[n] # Dropped
    BY <1>3 DEF NoticeExists
  <2> QED BY <2>1, <2>2 DEF NoticesAdvance
<1> QED BY <1>2, <1>3

LEMMA NoticesWrites ==
  ASSUME NoticesTypeOK, served \in 0..MaxRequests, NEW s \in Slots, NoticesCallOK(calls[s]),
         \/ create(s) \/ StoreNotice(s) \/ EraseNotice(s)
         \/ \E u \in Users : marcarTodas(s, u)
  PROVE  NoticesKept
<1>0. notificacoes \in [Notices -> Notificacao \cup {Absent, Dropped}]
  BY DEF NoticesTypeOK
<1>1. ASSUME notificacoes' \in [Notices -> Notificacao \cup {Absent, Dropped}], NoticesAdvance,
             UNCHANGED templates, UNCHANGED updated, Finish(s) \/ Once(s)
      PROVE  NoticesKept
  <2>1. NoticesTypeOK'
    BY <1>1 DEF NoticesTypeOK
  <2>2. TemplatesAdvance
    BY <1>1 DEF TemplatesAdvance, TemplateExists, NoticesTypeOK
  <2> QED BY <1>1, <2>1, <2>2, NoticesEnd
<1>2. Absent # Dropped /\ Absent \notin Notificacao /\ Dropped \notin Notificacao
  BY NotificationsAssumption
<1>3. CASE create(s)
  <2>1. PICK u \in Users, n \in Notices : notificacoes[n] = Absent /\ SaveNotice(n, u)
    BY <1>3 DEF create, CreateNotificacao
  <2>2. PICK new : new = [owner |-> u, lida |-> 0]
    OBVIOUS
  <2>3. new \in Notificacao
    BY <2>2, HandlersAssumption DEF Notificacao, Reads
  <2>4. notificacoes' = [notificacoes EXCEPT ![n] = new]
    BY <2>1, <2>2 DEF SaveNotice
  <2>5. notificacoes' \in [Notices -> Notificacao \cup {Absent, Dropped}]
    BY <1>0, <2>3, <2>4
  <2>6. NoticesAdvance
    BY <1>0, <1>2, <2>1, <2>4 DEF NoticesAdvance, NoticeExists
  <2> QED BY <1>1, <1>3, <2>5, <2>6 DEF create
<1>4. CASE StoreNotice(s)
  <2>1. /\ calls[s].op = "replaceNotice" /\ UpdateNotice(calls[s].notice, calls[s].copy)
        /\ Finish(s) /\ UNCHANGED templates /\ UNCHANGED updated
    BY <1>4 DEF StoreNotice, At
  <2>2. calls[s].notice \in Notices /\ calls[s].copy \in Notificacao /\ calls[s].copy.lida # 0
    BY <2>1 DEF NoticesCallOK, NoticesCall, NoticesOps
  <2>3. PICK n \in Notices, new \in Notificacao : n = calls[s].notice /\ new = calls[s].copy /\ new.lida # 0
    BY <2>2
  <2>4. notificacoes' = (IF NoticeExists(n) THEN [notificacoes EXCEPT ![n] = new] ELSE notificacoes)
    BY <2>1, <2>3 DEF UpdateNotice
  <2>5. notificacoes' \in [Notices -> Notificacao \cup {Absent, Dropped}] /\ NoticesAdvance
    BY <2>3, <2>4, WriteNotice
  <2> QED BY <1>1, <2>1, <2>5
<1>5. CASE EraseNotice(s)
  <2>1. /\ calls[s].op = "deleteNotice" /\ DeleteNoticeByID(calls[s].notice)
        /\ Finish(s) /\ UNCHANGED templates /\ UNCHANGED updated
    BY <1>5 DEF EraseNotice, At
  <2>2. PICK n \in Notices : n = calls[s].notice
    BY <2>1 DEF NoticesCallOK, NoticesCall, NoticesOps
  <2>3. notificacoes' = (IF NoticeExists(n) THEN [notificacoes EXCEPT ![n] = Dropped] ELSE notificacoes)
    BY <2>1, <2>2 DEF DeleteNoticeByID
  <2>4. notificacoes' \in [Notices -> Notificacao \cup {Absent, Dropped}] /\ NoticesAdvance
    BY <2>3, WriteNotice
  <2> QED BY <1>1, <2>1, <2>4
<1>6. ASSUME NEW u \in Users, marcarTodas(s, u) PROVE NoticesKept
  <2>1. Once(s) /\ MarkAllRead(u) /\ UNCHANGED templates /\ UNCHANGED updated
    BY <1>6 DEF marcarTodas, MarcarTodasLidas
  <2>2. served + 1 \in Reads /\ served + 1 # 0
    BY <2>1, ServedNext DEF Once, Reads
  <2>3. PICK unread, new : unread = [owner |-> u, lida |-> 0] /\ new = [owner |-> u, lida |-> served + 1]
    OBVIOUS
  <2>4. new \in Notificacao /\ new.lida # 0 /\ unread.lida = 0
    BY <2>2, <2>3 DEF Notificacao
  <2>5. notificacoes' = [n \in Notices |-> IF NoticeExists(n) /\ notificacoes[n] = unread THEN new ELSE notificacoes[n]]
    BY <2>1, <2>3 DEF MarkAllRead
  <2>6. notificacoes' \in [Notices -> Notificacao \cup {Absent, Dropped}]
    BY <1>0, <2>4, <2>5
  <2>7. NoticesAdvance
    BY <2>4, <2>5 DEF NoticesAdvance, NoticeExists
  <2> QED BY <1>1, <2>1, <2>6, <2>7
<1> QED BY <1>3, <1>4, <1>5, <1>6

LEMMA TemplatesWrites ==
  ASSUME NoticesTypeOK, served \in 0..MaxRequests, NEW s \in Slots, NoticesCallOK(calls[s]),
         createTemplate(s) \/ StoreTemplate(s) \/ EraseTemplate(s)
  PROVE  NoticesKept
<1>0. /\ templates \in [Templates -> NotificationTemplate \cup {Absent, Dropped}]
      /\ updated \in [Templates -> Nat]
  BY DEF NoticesTypeOK
<1>1. ASSUME templates' \in [Templates -> NotificationTemplate \cup {Absent, Dropped}], updated' \in [Templates -> Nat],
             TemplatesAdvance, UNCHANGED notificacoes, Finish(s) \/ Once(s)
      PROVE  NoticesKept
  <2>1. NoticesTypeOK'
    BY <1>1 DEF NoticesTypeOK
  <2>2. NoticesAdvance
    BY <1>1 DEF NoticesAdvance
  <2> QED BY <1>1, <2>1, <2>2, NoticesEnd
<1>2. Absent # Dropped /\ Absent \notin NotificationTemplate /\ Dropped \notin NotificationTemplate
  BY NotificationsAssumption
<1>3. CASE createTemplate(s)
  <2>1. Once(s) /\ UNCHANGED notificacoes /\ UNCHANGED updated
    BY <1>3 DEF createTemplate
  <2>2. PICK ativo \in BOOLEAN, t \in Templates : templates[t] = Absent /\ SaveTemplate(t, ativo)
    BY <1>3 DEF createTemplate, CreateNotificationTemplate
  <2>3. served + 1 \in 1..MaxRequests
    BY <2>1, ServedNext DEF Once
  <2>4. PICK new : new = [corpo |-> served + 1, ativo |-> ativo]
    OBVIOUS
  <2>5. new \in NotificationTemplate /\ templates' = [templates EXCEPT ![t] = new]
    BY <2>2, <2>3, <2>4 DEF NotificationTemplate, SaveTemplate
  <2>6. /\ templates' \in [Templates -> NotificationTemplate \cup {Absent, Dropped}]
        /\ \A r \in Templates : r # t => templates'[r] = templates[r]
    BY <1>0, <2>5
  <2>7. TemplatesAdvance
    BY <1>0, <2>1, <2>2, <2>6 DEF TemplatesAdvance, TemplateExists
  <2> QED BY <1>0, <1>1, <2>1, <2>6, <2>7
<1>4. CASE StoreTemplate(s)
  <2>1. /\ calls[s].op = "replaceTemplate" /\ UpdateTemplate(calls[s].template, calls[s].copy)
        /\ updated' = [updated EXCEPT ![calls[s].template] = @ + 1]
        /\ Finish(s) /\ UNCHANGED notificacoes
    BY <1>4 DEF StoreTemplate, At
  <2>2. calls[s].template \in Templates /\ calls[s].copy \in NotificationTemplate
    BY <2>1 DEF NoticesCallOK, NoticesCall, NoticesOps
  <2>3. PICK t \in Templates, new \in NotificationTemplate : t = calls[s].template /\ new = calls[s].copy
    BY <2>2
  <2>4. templates' = (IF TemplateExists(t) THEN [templates EXCEPT ![t] = new] ELSE templates)
    BY <2>1, <2>3 DEF UpdateTemplate
  <2>5. /\ templates' \in [Templates -> NotificationTemplate \cup {Absent, Dropped}]
        /\ \A r \in Templates : r # t => templates'[r] = templates[r]
        /\ templates'[t] = IF TemplateExists(t) THEN new ELSE templates[t]
    BY <1>0, <2>4
  <2>6. /\ updated' \in [Templates -> Nat] /\ updated'[t] = updated[t] + 1 /\ updated[t] \in Nat
        /\ \A r \in Templates : r # t => updated'[r] = updated[r]
    BY <1>0, <2>1, <2>3
  <2>7. TemplatesAdvance
    <3> SUFFICES ASSUME NEW r \in Templates
                 PROVE  /\ updated[r] <= updated'[r]
                        /\ templates[r] # Absent =>
                             /\ templates'[r] # Absent
                             /\ updated'[r] = updated[r] /\ TemplateExists(r)' => TemplateExists(r) /\ templates'[r] = templates[r]
      BY DEF TemplatesAdvance
    <3>1. CASE r = t
      BY <1>2, <2>5, <2>6, <3>1
    <3>2. CASE r # t
      BY <1>0, <2>5, <2>6, <3>2 DEF TemplateExists
    <3> QED BY <3>1, <3>2
  <2> QED BY <1>1, <2>1, <2>5, <2>6, <2>7
<1>5. CASE EraseTemplate(s)
  <2>1. /\ calls[s].op = "deleteTemplate" /\ DeleteTemplateByID(calls[s].template)
        /\ Finish(s) /\ UNCHANGED notificacoes /\ UNCHANGED updated
    BY <1>5 DEF EraseTemplate, At
  <2>2. PICK t \in Templates : t = calls[s].template
    BY <2>1 DEF NoticesCallOK, NoticesCall, NoticesOps
  <2>3. /\ templates' \in [Templates -> NotificationTemplate \cup {Absent, Dropped}]
        /\ \A r \in Templates : templates'[r] = templates[r] \/ (templates[r] # Absent /\ templates'[r] = Dropped)
    BY <1>0, <2>1, <2>2 DEF DeleteTemplateByID, TemplateExists
  <2>4. TemplatesAdvance
    BY <1>0, <1>2, <2>1, <2>3 DEF TemplatesAdvance, TemplateExists
  <2> QED BY <1>0, <1>1, <2>1, <2>3, <2>4
<1> QED BY <1>3, <1>4, <1>5

LEMMA NoticesNextKeeps ==
  ASSUME NoticesTypeOK, served \in 0..MaxRequests, \A s \in Slots : NoticesCallOK(calls[s]), NoticesNext
  PROVE  NoticesKept
<1>1. ASSUME NEW s \in Slots, NoticesRequest(s) PROVE NoticesKept
  BY <1>1, NoticesReads, NoticesWrites, TemplatesWrites DEF NoticesRequest
<1>2. ASSUME NEW s \in Slots, NoticesStep(s) PROVE NoticesKept
  BY <1>2, NoticesWrites, TemplatesWrites DEF NoticesStep
<1> QED BY <1>1, <1>2 DEF NoticesNext

\* A template that a lone handler writes gets the text it was sent.
LEMMA TextIsKept ==
  ASSUME NoticesTypeOK, DOMAIN calls = Slots, \A t \in Slots : NoticesCallOK(calls[t]), NoticesNext, NEW s \in Slots,
         At(s, "replaceTemplate"), calls[s].seen = updated[calls[s].template], calls'[s] # calls[s],
         templates' # templates
  PROVE  templates'[calls[s].template].corpo = Sent(calls[s])
<1>1. ASSUME NEW t \in Slots, NoticesRequest(t) PROVE FALSE
  <2>1. UNCHANGED calls \/ UNCHANGED templates
    BY <1>1 DEF NoticesRequest, create, createTemplate, update, UpdateNotificationTemplate, deleteTemplate,
                DeleteNotificationTemplate, marcarLida, MarcarLida, marcarTodas, delete, DeleteNotificacao, Once, noticeVars
  <2> QED BY <2>1
<1>2. ASSUME NEW t \in Slots, StoreNotice(t) \/ EraseNotice(t) PROVE FALSE
  BY <1>2 DEF StoreNotice, EraseNotice
<1>3. ASSUME NEW t \in Slots, Finish(t), ~At(t, "replaceTemplate") PROVE FALSE
  BY <1>3 DEF Finish, Continue, At
<1>4. ASSUME NEW t \in Slots, EraseTemplate(t) PROVE FALSE
  BY <1>3, <1>4 DEF EraseTemplate, At
<1>5. PICK t \in Slots : StoreTemplate(t)
  BY <1>1, <1>2, <1>4 DEF NoticesNext, NoticesStep
<1>6. t = s
  BY <1>5 DEF StoreTemplate, Finish, Continue
<1>7. calls[s].template \in Templates /\ TemplateExists(calls[s].template) => calls[s].copy.corpo = Sent(calls[s])
  BY DEF NoticesCallOK, NoticesCall, NoticesOps, At
<1>8. UpdateTemplate(calls[s].template, calls[s].copy) /\ calls[s].template \in Templates
  BY <1>5, <1>6 DEF StoreTemplate, NoticesCallOK, NoticesCall, NoticesOps, At
<1>9. TemplateExists(calls[s].template) /\ templates' = [templates EXCEPT ![calls[s].template] = calls[s].copy]
  BY <1>8 DEF UpdateTemplate
<1> QED BY <1>7, <1>8, <1>9 DEF NoticesTypeOK

-----------------------------------------------------------------------------
(* Files.                                                                  *)

On(c, op, f) == c.op = op /\ c.file = f
\* The file is listed and its content is gone.
Broken(f) == Has(f, "metadata") /\ ~Has(f, "content")

\* A file that is being uploaded has one handler.  Whoever found the metadata of a file
\* finds it as long as the content is there.  A file is broken by a removal, of which only
\* one gets beyond the content, and stays so when that one is interrupted.
FileSound(f) ==
  /\ \A s \in Slots : On(calls[s], "saveMetadata", f) =>
       /\ Has(f, "content") /\ ~Has(f, "metadata")
       /\ \A t \in Slots \ {s} : \A op \in FilesOps : ~On(calls[t], op, f)
  /\ \A s \in Slots : On(calls[s], "dropContent", f) =>
       arquivos[f] # NoUpload /\ (Has(f, "content") => Has(f, "metadata"))
  /\ \A s \in Slots : On(calls[s], "dropMetadata", f) =>
       /\ Broken(f) /\ f \notin interrupted
       /\ \A t \in Slots \ {s} : ~On(calls[t], "dropMetadata", f)
  /\ f \in interrupted => Broken(f)
  /\ Broken(f) => f \in interrupted \/ \E s \in Slots : On(calls[s], "dropMetadata", f)

FilesSound == FilesTypeOK /\ \A f \in Uploads : FileSound(f)

FilesCallOK(c) == c.op \in FilesOps => c \in FilesCall(c.op)

FilesKept ==
  /\ FilesSound'
  /\ \/ UNCHANGED calls
     \/ \E s \in Slots : \E c : Moves(s, c) /\ (c = NoCall \/ c.op \in FilesOps) /\ FilesCallOK(c)
  /\ served' \in 0..MaxRequests

\* A file is sound when no handler at work on it moved and it is as it was.
LEMMA FileUntouched ==
  ASSUME NEW f \in Uploads, FileSound(f), arquivos'[f] = arquivos[f], f \in interrupted' <=> f \in interrupted,
         \A s \in Slots : \A op \in FilesOps : On(calls'[s], op, f) <=> On(calls[s], op, f)
  PROVE  FileSound(f)'
<1>1. \A half : Has(f, half)' <=> Has(f, half)
  BY DEF Has
<1>2. Broken(f)' <=> Broken(f)
  BY <1>1 DEF Broken
<1>3. /\ \A s \in Slots : On(calls'[s], "saveMetadata", f) <=> On(calls[s], "saveMetadata", f)
      /\ \A s \in Slots : On(calls'[s], "dropContent", f) <=> On(calls[s], "dropContent", f)
      /\ \A s \in Slots : On(calls'[s], "dropMetadata", f) <=> On(calls[s], "dropMetadata", f)
  BY DEF FilesOps
<1> QED BY <1>1, <1>2, <1>3 DEF FileSound

LEMMA FilesStays ==
  ASSUME FilesSound, UNCHANGED filesVars,
         \A s \in Slots : calls[s].op \in FilesOps \/ calls'[s].op \in FilesOps => calls'[s] = calls[s]
  PROVE  FilesSound'
<1>1. UNCHANGED arquivos /\ UNCHANGED interrupted
  BY DEF filesVars
<1>2. ASSUME NEW f \in Uploads PROVE FileSound(f)'
  <2>1. \A s \in Slots : \A op \in FilesOps : On(calls'[s], op, f) <=> On(calls[s], op, f)
    BY DEF On
  <2> QED BY <1>1, <2>1, FileUntouched DEF FilesSound
<1> QED BY <1>1, <1>2 DEF FilesSound, FilesTypeOK

\* A step of a handler at work on f touches no other file.
LEMMA FilesMove ==
  ASSUME FilesSound, DOMAIN calls = Slots, NEW s \in Slots, NEW c, Moves(s, c), NEW f \in Uploads,
         FilesTypeOK', \A g \in Uploads \ {f} : arquivos'[g] = arquivos[g],
         \A g \in Uploads \ {f} : g \in interrupted' <=> g \in interrupted,
         \A g \in Uploads \ {f} : \A op \in FilesOps : ~On(c, op, g) /\ ~On(calls[s], op, g),
         FileSound(f)'
  PROVE  FilesSound'
<1>1. \A t \in Slots : calls'[t] = IF t = s THEN c ELSE calls[t]
  BY CallsAfter
<1>2. ASSUME NEW g \in Uploads \ {f} PROVE FileSound(g)'
  <2>1. \A t \in Slots : \A op \in FilesOps : On(calls'[t], op, g) <=> On(calls[t], op, g)
    BY <1>1
  <2> QED BY <2>1, FileUntouched DEF FilesSound
<1> QED BY <1>2 DEF FilesSound

LEMMA FileUploaded ==
  ASSUME FilesSound, served \in 0..MaxRequests, DOMAIN calls = Slots, NEW s \in Slots, NEW u \in Users,
         NEW f \in Uploads, UploadArquivo(s, u, f)
  PROVE  FilesKept
<1>0. arquivos \in [Uploads -> Arquivo \cup {NoUpload}] /\ interrupted \subseteq Uploads /\ FileSound(f)
  BY DEF FilesSound, FilesTypeOK
<1>1. PICK c : c = [op |-> "saveMetadata", file |-> f]
  OBVIOUS
<1>2. c.op = "saveMetadata" /\ c.file = f /\ FilesCallOK(c) /\ c.op \in FilesOps
  BY <1>1 DEF FilesCallOK, FilesCall, FilesOps
<1>3. Begin(s, c) /\ UNCHANGED interrupted /\ arquivos[f] = NoUpload /\ Upload(f, u)
  BY <1>1 DEF UploadArquivo
<1>4. Moves(s, c) /\ served' \in 0..MaxRequests /\ calls[s].op = "none"
  BY <1>3, ServedNext DEF Begin, Moves, At
<1>5. PICK new : new = [owner |-> u, halves |-> {"content"}]
  OBVIOUS
<1>6. new \in Arquivo /\ new.halves = {"content"} /\ new # NoUpload
  BY <1>5, FilesAssumption DEF Arquivo
<1>7. /\ arquivos' \in [Uploads -> Arquivo \cup {NoUpload}] /\ arquivos'[f] = new
      /\ \A g \in Uploads \ {f} : arquivos'[g] = arquivos[g]
  BY <1>0, <1>3, <1>5, <1>6 DEF Upload
<1>8. \A t \in Slots : calls'[t] = IF t = s THEN c ELSE calls[t]
  BY <1>4, CallsAfter
<1>9. f \notin interrupted /\ \A t \in Slots : \A op \in FilesOps : ~On(calls[t], op, f)
  BY <1>0, <1>3 DEF FileSound, Broken, Has, FilesOps
<1>10. Has(f, "content")' /\ ~Has(f, "metadata")' /\ ~Broken(f)' /\ f \notin interrupted'
  BY <1>3, <1>6, <1>7, <1>9 DEF Has, Broken
<1>11. \A t \in Slots \ {s} : \A op \in FilesOps : ~On(calls'[t], op, f)
  BY <1>8, <1>9
<1>12. \A t \in Slots : \A op \in FilesOps : On(calls'[t], op, f) => t = s /\ op = "saveMetadata"
  BY <1>2, <1>8, <1>11 DEF On
<1>13. FileSound(f)'
  <2>1. \A t \in Slots : On(calls'[t], "saveMetadata", f) => t = s
    BY <1>12 DEF FilesOps
  <2>2. \A t \in Slots : ~On(calls'[t], "dropContent", f) /\ ~On(calls'[t], "dropMetadata", f)
    BY <1>12 DEF FilesOps
  <2> QED BY <1>10, <1>11, <2>1, <2>2 DEF FileSound
<1>14. \A g \in Uploads \ {f} : \A op \in FilesOps : ~On(c, op, g) /\ ~On(calls[s], op, g)
  BY <1>2, <1>4 DEF On, FilesOps
<1>15. FilesTypeOK'
  BY <1>0, <1>3, <1>7 DEF FilesTypeOK
<1>16. FilesSound'
  BY <1>3, <1>4, <1>7, <1>13, <1>14, <1>15, FilesMove
<1> QED BY <1>2, <1>4, <1>16 DEF FilesKept

LEMMA RemovalBegun ==
  ASSUME FilesSound, served \in 0..MaxRequests, DOMAIN calls = Slots, NEW s \in Slots, NEW u \in Users,
         NEW f \in Uploads, DeleteArquivo(s, u, f)
  PROVE  FilesKept
<1>0. FilesTypeOK /\ FileSound(f)
  BY DEF FilesSound
<1>1. PICK c : c = [op |-> "dropContent", file |-> f]
  OBVIOUS
<1>2. c.op = "dropContent" /\ c.file = f /\ FilesCallOK(c) /\ c.op \in FilesOps
  BY <1>1 DEF FilesCallOK, FilesCall, FilesOps
<1>3. Begin(s, c) /\ UNCHANGED arquivos /\ UNCHANGED interrupted /\ Has(f, "metadata")
  BY <1>1 DEF DeleteArquivo, filesVars
<1>4. Moves(s, c) /\ served' \in 0..MaxRequests /\ calls[s].op = "none"
  BY <1>3, ServedNext DEF Begin, Moves, At
<1>5. \A t \in Slots : calls'[t] = IF t = s THEN c ELSE calls[t]
  BY <1>4, CallsAfter
<1>6. Has(f, "metadata")' /\ arquivos'[f] # NoUpload /\ (Broken(f)' <=> Broken(f)) /\ FilesTypeOK'
  BY <1>0, <1>3 DEF Has, Broken, FilesTypeOK
<1>7. FileSound(f)'
  <2>1. \A t \in Slots : ~On(calls[t], "saveMetadata", f)
    BY <1>0, <1>3 DEF FileSound
  <2>2. \A t \in Slots : ~On(calls'[t], "saveMetadata", f)
    BY <1>2, <1>5, <2>1 DEF On
  <2>3. \A t \in Slots : On(calls'[t], "dropMetadata", f) <=> On(calls[t], "dropMetadata", f)
    BY <1>2, <1>4, <1>5 DEF On
  <2> QED BY <1>0, <1>3, <1>6, <2>2, <2>3 DEF FileSound
<1>8. \A g \in Uploads \ {f} : \A op \in FilesOps : ~On(c, op, g) /\ ~On(calls[s], op, g)
  BY <1>2, <1>4 DEF On, FilesOps
<1>9. FilesSound'
  BY <1>3, <1>4, <1>6, <1>7, <1>8, FilesMove
<1> QED BY <1>2, <1>4, <1>9 DEF FilesKept

\* A step of a handler at work on f: what it is sure of.
LEMMA WorkOnFile ==
  ASSUME FilesSound, DOMAIN calls = Slots, NEW s \in Slots, FilesCallOK(calls[s]), calls[s].op \in FilesOps
  PROVE  /\ calls[s].file \in Uploads /\ FileSound(calls[s].file)
         /\ On(calls[s], calls[s].op, calls[s].file)
         /\ \A g \in Uploads \ {calls[s].file} : \A op \in FilesOps : ~On(calls[s], op, g)
<1>1. calls[s].file \in Uploads
  BY DEF FilesCallOK, FilesCall, FilesOps
<1> QED BY <1>1 DEF FilesSound, On

LEMMA HalvesWritten ==
  ASSUME FilesTypeOK, NEW f \in Uploads, arquivos[f] # NoUpload, NEW halves \in SUBSET {"content", "metadata"},
         arquivos' = [arquivos EXCEPT ![f].halves = halves], UNCHANGED interrupted
  PROVE  /\ FilesTypeOK' /\ arquivos'[f] # NoUpload
         /\ \A half : Has(f, half)' <=> half \in halves
         /\ \A g \in Uploads \ {f} : arquivos'[g] = arquivos[g]
<1>0. arquivos \in [Uploads -> Arquivo \cup {NoUpload}] /\ arquivos[f] \in Arquivo
  BY DEF FilesTypeOK
<1>1. PICK new : new = [arquivos[f] EXCEPT !.halves = halves]
  OBVIOUS
<1>2. new \in Arquivo /\ new.halves = halves /\ new # NoUpload
  BY <1>0, <1>1, FilesAssumption DEF Arquivo
<1>3. arquivos' = [arquivos EXCEPT ![f] = new]
  BY <1>1
<1>4. /\ arquivos' \in [Uploads -> Arquivo \cup {NoUpload}] /\ arquivos'[f] = new
      /\ \A g \in Uploads \ {f} : arquivos'[g] = arquivos[g]
  BY <1>0, <1>2, <1>3
<1> QED BY <1>2, <1>4 DEF FilesTypeOK, Has

LEMMA MetadataStored ==
  ASSUME FilesSound, served \in 0..MaxRequests, DOMAIN calls = Slots, NEW s \in Slots, FilesCallOK(calls[s]),
         StoreMetadata(s)
  PROVE  FilesKept
<1>1. /\ calls[s].op = "saveMetadata" /\ SaveMetadata(calls[s].file) /\ UNCHANGED interrupted
      /\ Moves(s, NoCall) /\ served' = served
  BY DEF StoreMetadata, At, Finish, Continue, Moves
<1>2. PICK f : f = calls[s].file
  OBVIOUS
<1>3. /\ f \in Uploads /\ FileSound(f) /\ On(calls[s], "saveMetadata", f)
      /\ \A g \in Uploads \ {f} : \A op \in FilesOps : ~On(calls[s], op, g)
  <2>1. calls[s].op \in FilesOps
    BY <1>1 DEF FilesOps
  <2> QED BY <1>1, <1>2, <2>1, WorkOnFile
<1>4. /\ Has(f, "content") /\ ~Has(f, "metadata") /\ f \notin interrupted
      /\ \A t \in Slots \ {s} : \A op \in FilesOps : ~On(calls[t], op, f)
  BY <1>3 DEF FileSound, Broken
<1>5. PICK halves : halves = arquivos[f].halves \cup {"metadata"}
  OBVIOUS
<1>6. halves = {"content", "metadata"} /\ arquivos[f] # NoUpload
  <2>1. arquivos[f] \in Arquivo
    BY <1>3, <1>4 DEF FilesSound, FilesTypeOK, Has
  <2> QED BY <1>4, <1>5, <2>1 DEF Has, Arquivo
<1>7. arquivos' = [arquivos EXCEPT ![f].halves = halves]
  BY <1>1, <1>2, <1>5 DEF SaveMetadata
<1>8. /\ FilesTypeOK' /\ Has(f, "content")' /\ Has(f, "metadata")'
      /\ \A g \in Uploads \ {f} : arquivos'[g] = arquivos[g]
  <2>1. FilesTypeOK /\ UNCHANGED interrupted /\ halves \in SUBSET {"content", "metadata"}
    BY <1>1, <1>6 DEF FilesSound
  <2>2. /\ FilesTypeOK' /\ arquivos'[f] # NoUpload
        /\ \A half : Has(f, half)' <=> half \in halves
        /\ \A g \in Uploads \ {f} : arquivos'[g] = arquivos[g]
    BY <1>3, <1>6, <1>7, <2>1, HalvesWritten
  <2> QED BY <1>6, <2>2
<1>9. NoCall.op \notin FilesOps
  BY DEF NoCall, FilesOps
<1>10. \A t \in Slots : \A op \in FilesOps : ~On(calls'[t], op, f)
  <2>1. \A t \in Slots : calls'[t] = IF t = s THEN NoCall ELSE calls[t]
    BY <1>1, CallsAfter
  <2> QED BY <1>4, <1>9, <2>1 DEF On
<1>11. FileSound(f)'
  <2>1. \A t \in Slots : ~On(calls'[t], "saveMetadata", f) /\ ~On(calls'[t], "dropContent", f)
                           /\ ~On(calls'[t], "dropMetadata", f)
    BY <1>10 DEF FilesOps
  <2> QED BY <1>1, <1>4, <1>8, <2>1 DEF FileSound, Broken
<1>12. FilesSound'
  BY <1>1, <1>3, <1>8, <1>9, <1>11, FilesMove DEF On
<1> QED BY <1>1, <1>9, <1>12 DEF FilesKept, FilesCallOK

LEMMA ContentDropped ==
  ASSUME FilesSound, served \in 0..MaxRequests, DOMAIN calls = Slots, NEW s \in Slots, FilesCallOK(calls[s]),
         DeleteContent(s)
  PROVE  FilesKept
<1>1. /\ calls[s].op = "dropContent" /\ DropContent(calls[s].file) /\ UNCHANGED interrupted
      /\ served' = served /\ Moves(s, [calls[s] EXCEPT !.op = "dropMetadata"])
  BY DEF DeleteContent, At, Continue, Moves
<1>2. PICK f : f = calls[s].file
  OBVIOUS
<1>3. /\ f \in Uploads /\ FileSound(f) /\ On(calls[s], "dropContent", f)
      /\ \A g \in Uploads \ {f} : \A op \in FilesOps : ~On(calls[s], op, g)
  <2>1. calls[s].op \in FilesOps
    BY <1>1 DEF FilesOps
  <2> QED BY <1>1, <1>2, <2>1, WorkOnFile
<1>4. PICK c : c = [calls[s] EXCEPT !.op = "dropMetadata"]
  OBVIOUS
<1>5. c \in [op: {"dropMetadata"}, file: Uploads] /\ c.op = "dropMetadata" /\ c.file = f
  <2>1. calls[s] \in [op: {"dropContent"}, file: Uploads]
    BY <1>1 DEF FilesCallOK, FilesCall, FilesOps
  <2> QED BY <1>2, <1>4, <2>1
<1>6. FilesCallOK(c) /\ c.op \in FilesOps /\ Moves(s, c)
  BY <1>1, <1>4, <1>5 DEF FilesCallOK, FilesCall, FilesOps
<1>7. /\ Has(f, "content") /\ Has(f, "metadata") /\ ~Broken(f) /\ f \notin interrupted
      /\ \A t \in Slots : ~On(calls[t], "dropMetadata", f) /\ ~On(calls[t], "saveMetadata", f)
  <2>1. Has(f, "content")
    BY <1>1, <1>2 DEF DropContent
  <2> QED BY <1>3, <2>1 DEF FileSound, Broken
<1>8. PICK halves : halves = arquivos[f].halves \ {"content"}
  OBVIOUS
<1>9. halves = {"metadata"} /\ arquivos[f] # NoUpload
  <2>1. arquivos[f] \in Arquivo
    BY <1>3, <1>7 DEF FilesSound, FilesTypeOK, Has
  <2> QED BY <1>7, <1>8, <2>1 DEF Has, Arquivo
<1>10. arquivos' = [arquivos EXCEPT ![f].halves = halves]
  BY <1>1, <1>2, <1>8 DEF DropContent
<1>11. /\ FilesTypeOK' /\ ~Has(f, "content")' /\ Has(f, "metadata")' /\ arquivos'[f] # NoUpload
       /\ \A g \in Uploads \ {f} : arquivos'[g] = arquivos[g]
  <2>1. FilesTypeOK /\ UNCHANGED interrupted /\ halves \in SUBSET {"content", "metadata"}
    BY <1>1, <1>9 DEF FilesSound
  <2>2. /\ FilesTypeOK' /\ arquivos'[f] # NoUpload
        /\ \A half : Has(f, half)' <=> half \in halves
        /\ \A g \in Uploads \ {f} : arquivos'[g] = arquivos[g]
    BY <1>3, <1>9, <1>10, <2>1, HalvesWritten
  <2> QED BY <1>9, <2>2
<1>12. \A t \in Slots : calls'[t] = IF t = s THEN c ELSE calls[t]
  BY <1>6, CallsAfter
<1>13. /\ On(calls'[s], "dropMetadata", f)
       /\ \A t \in Slots : ~On(calls'[t], "saveMetadata", f) /\ (On(calls'[t], "dropMetadata", f) => t = s)
  BY <1>5, <1>7, <1>12 DEF On
<1>14. FileSound(f)'
  BY <1>1, <1>7, <1>11, <1>13 DEF FileSound, Broken
<1>15. \A g \in Uploads \ {f} : \A op \in FilesOps : ~On(c, op, g)
  BY <1>5 DEF On
<1>16. FilesSound'
  BY <1>1, <1>3, <1>6, <1>11, <1>14, <1>15, FilesMove
<1> QED BY <1>1, <1>6, <1>16 DEF FilesKept

LEMMA MetadataDropped ==
  ASSUME FilesSound, served \in 0..MaxRequests, DOMAIN calls = Slots, NEW s \in Slots, FilesCallOK(calls[s]),
         DeleteMetadata(s)
  PROVE  FilesKept
<1>1. /\ calls[s].op = "dropMetadata" /\ DropMetadata(calls[s].file) /\ UNCHANGED interrupted
      /\ Moves(s, NoCall) /\ served' = served
  BY DEF DeleteMetadata, At, Finish, Continue, Moves
<1>2. PICK f : f = calls[s].file
  OBVIOUS
<1>3. /\ f \in Uploads /\ FileSound(f) /\ On(calls[s], "dropMetadata", f)
      /\ \A g \in Uploads \ {f} : \A op \in FilesOps : ~On(calls[s], op, g)
  <2>1. calls[s].op \in FilesOps
    BY <1>1 DEF FilesOps
  <2> QED BY <1>1, <1>2, <2>1, WorkOnFile
<1>4. /\ Broken(f) /\ f \notin interrupted
      /\ \A t \in Slots \ {s} : ~On(calls[t], "dropMetadata", f)
      /\ \A t \in Slots : ~On(calls[t], "saveMetadata", f)
  BY <1>3 DEF FileSound, Broken
<1>5. PICK halves : halves = arquivos[f].halves \ {"metadata"}
  OBVIOUS
<1>6. halves = {} /\ arquivos[f] # NoUpload
  <2>1. arquivos[f] \in Arquivo
    BY <1>3, <1>4 DEF FilesSound, FilesTypeOK, Broken, Has
  <2> QED BY <1>4, <1>5, <2>1 DEF Broken, Has, Arquivo
<1>7. arquivos' = [arquivos EXCEPT ![f].halves = halves]
  BY <1>1, <1>2, <1>5 DEF DropMetadata
<1>8. /\ FilesTypeOK' /\ ~Has(f, "content")' /\ ~Has(f, "metadata")' /\ arquivos'[f] # NoUpload
      /\ \A g \in Uploads \ {f} : arquivos'[g] = arquivos[g]
  <2>1. FilesTypeOK /\ UNCHANGED interrupted /\ halves \in SUBSET {"content", "metadata"}
    BY <1>1, <1>6 DEF FilesSound
  <2>2. /\ FilesTypeOK' /\ arquivos'[f] # NoUpload
        /\ \A half : Has(f, half)' <=> half \in halves
        /\ \A g \in Uploads \ {f} : arquivos'[g] = arquivos[g]
    BY <1>3, <1>6, <1>7, <2>1, HalvesWritten
  <2> QED BY <1>6, <2>2
<1>9. NoCall.op \notin FilesOps
  BY DEF NoCall, FilesOps
<1>10. \A t \in Slots : ~On(calls'[t], "saveMetadata", f) /\ ~On(calls'[t], "dropMetadata", f)
  <2>1. \A t \in Slots : calls'[t] = IF t = s THEN NoCall ELSE calls[t]
    BY <1>1, CallsAfter
  <2> QED BY <1>4, <1>9, <2>1 DEF On, FilesOps
<1>11. FileSound(f)'
  BY <1>1, <1>4, <1>8, <1>10 DEF FileSound, Broken
<1>12. FilesSound'
  BY <1>1, <1>3, <1>8, <1>9, <1>11, FilesMove DEF On
<1> QED BY <1>1, <1>9, <1>12 DEF FilesKept, FilesCallOK

LEMMA FilesNextKeeps ==
  ASSUME FilesSound, served \in 0..MaxRequests, DOMAIN calls = Slots, \A s \in Slots : FilesCallOK(calls[s]), FilesNext
  PROVE  FilesKept
<1>1. ASSUME NEW s \in Slots, FilesRequest(s) PROVE FilesKept
  BY <1>1, FileUploaded, RemovalBegun DEF FilesRequest, upload, deleteFile
<1>2. ASSUME NEW s \in Slots, FilesStep(s) PROVE FilesKept
  BY <1>2, MetadataStored, ContentDropped, MetadataDropped DEF FilesStep
<1> QED BY <1>1, <1>2 DEF FilesNext

LEMMA FilesAborted ==
  ASSUME FilesSound, DOMAIN calls = Slots, NEW s \in Slots, FilesCallOK(calls[s]),
         Abort(s), FilesInterrupted(s), UNCHANGED arquivos
  PROVE  FilesSound'
<1>1. Moves(s, NoCall) /\ NoCall.op \notin FilesOps
  BY DEF Abort, Finish, Continue, Moves, NoCall, FilesOps
<1>2. \A t \in Slots : calls'[t] = IF t = s THEN NoCall ELSE calls[t]
  BY <1>1, CallsAfter
<1>3. \A g : \A op \in FilesOps : ~On(NoCall, op, g)
  BY <1>1 DEF On
<1>4. CASE calls[s].op \notin FilesOps
  <2>1. UNCHANGED interrupted
    BY <1>4 DEF FilesInterrupted, At, FilesOps
  <2>2. ASSUME NEW f \in Uploads PROVE FileSound(f)'
    <3>1. \A t \in Slots : \A op \in FilesOps : On(calls'[t], op, f) <=> On(calls[t], op, f)
      BY <1>2, <1>3, <1>4 DEF On
    <3> QED BY <2>1, <3>1, FileUntouched DEF FilesSound
  <2> QED BY <2>1, <2>2 DEF FilesSound, FilesTypeOK
<1>5. CASE calls[s].op \in FilesOps
  <2>1. PICK f \in Uploads : f = calls[s].file
    BY <1>5, WorkOnFile
  <2>2. /\ FileSound(f) /\ On(calls[s], calls[s].op, f)
        /\ \A g \in Uploads \ {f} : \A op \in FilesOps : ~On(calls[s], op, g)
    BY <1>5, <2>1, WorkOnFile
  <2>3. interrupted' = IF At(s, "dropMetadata") THEN interrupted \cup {f} ELSE interrupted
    BY <2>1 DEF FilesInterrupted
  <2>4. FilesTypeOK' /\ \A g \in Uploads \ {f} : g \in interrupted' <=> g \in interrupted
    BY <2>3 DEF FilesSound, FilesTypeOK
  <2>5. /\ \A t \in Slots : ~On(calls'[s], "saveMetadata", f) /\ ~On(calls'[s], "dropContent", f)
                              /\ ~On(calls'[s], "dropMetadata", f)
        /\ \A t \in Slots \ {s} : calls'[t] = calls[t]
    BY <1>2, <1>3 DEF FilesOps
  <2>6. \A half : Has(f, half)' <=> Has(f, half)
    BY DEF Has
  <2>7. Broken(f)' <=> Broken(f)
    BY <2>6 DEF Broken
  <2>8. CASE At(s, "dropMetadata")
    <3>1. /\ Broken(f) /\ \A t \in Slots \ {s} : ~On(calls[t], "dropMetadata", f)
          /\ \A t \in Slots : ~On(calls[t], "saveMetadata", f)
      BY <2>2, <2>8 DEF FileSound, At, Broken
    <3>2. \A t \in Slots : ~On(calls'[t], "dropMetadata", f) /\ ~On(calls'[t], "saveMetadata", f)
      BY <2>5, <3>1
    <3>3. \A t \in Slots : On(calls'[t], "dropContent", f) => On(calls[t], "dropContent", f)
      BY <2>5
    <3>4. f \in interrupted'
      BY <2>3, <2>8
    <3>5. FileSound(f)'
      BY <2>2, <2>6, <2>7, <3>1, <3>2, <3>3, <3>4 DEF FileSound
    <3> QED BY <1>1, <1>3, <2>2, <2>4, <3>5, FilesMove
  <2>9. CASE ~At(s, "dropMetadata")
    <3>1. UNCHANGED interrupted
      BY <2>3, <2>9
    <3>2. \A t \in Slots : \A op \in FilesOps : On(calls'[t], op, f) => On(calls[t], op, f)
      BY <2>5, <1>2, <1>3
    <3>3. \A t \in Slots : On(calls'[t], "dropMetadata", f) <=> On(calls[t], "dropMetadata", f)
      BY <2>5, <2>9 DEF On, At
    <3>4. /\ \A t \in Slots : On(calls'[t], "saveMetadata", f) => On(calls[t], "saveMetadata", f)
          /\ \A t \in Slots : On(calls'[t], "dropContent", f) => On(calls[t], "dropContent", f)
      BY <3>2 DEF FilesOps
    <3>5. FileSound(f)'
      BY <2>2, <2>6, <2>7, <3>1, <3>2, <3>3, <3>4 DEF FileSound
    <3> QED BY <1>1, <1>3, <2>2, <2>4, <3>5, FilesMove
  <2> QED BY <2>8, <2>9
<1> QED BY <1>4, <1>5

LEMMA BrokenFiles ==
  ASSUME FilesSound
  PROVE  BrokenIsInterrupted
<1> SUFFICES ASSUME NEW f \in Uploads
             PROVE  /\ f \in interrupted => download(arquivos[f].owner, f) = 500
                    /\ \A u \in Users : download(u, f) = 500 =>
                         f \in interrupted \/ \E s \in Slots : At(s, "dropMetadata") /\ calls[s].file = f
  BY DEF BrokenIsInterrupted
<1>1. FileSound(f)
  BY DEF FilesSound
<1>2. ASSUME f \in interrupted PROVE download(arquivos[f].owner, f) = 500
  BY <1>1, <1>2 DEF FileSound, Broken, download, DownloadArquivo, Download
<1>3. ASSUME NEW u \in Users, download(u, f) = 500 PROVE Broken(f)
  BY <1>3 DEF Broken, download, DownloadArquivo, Download
<1> QED BY <1>1, <1>2, <1>3 DEF FileSound, On, At

\* The other components move none of the handlers at work on files.
LEMMA OthersLeaveFiles ==
  ASSUME DOMAIN calls = Slots, BillingNext \/ MethodsNext \/ CustomersNext \/ SettingsNext \/ NoticesNext,
         NEW s \in Slots, calls[s].op \in FilesOps
  PROVE  calls'[s] = calls[s]
<1>1. ASSUME NEW t \in Slots, NEW c, Begin(t, c) PROVE calls'[s] = calls[s]
  BY <1>1 DEF Begin, At, FilesOps
<1>2. ASSUME NEW t \in Slots, NEW c, Continue(t, c), calls[t].op \notin FilesOps PROVE calls'[s] = calls[s]
  BY <1>2 DEF Continue
<1>3. CASE BillingNext
  <2>1. ASSUME NEW t \in Slots, BillingRequest(t) PROVE calls'[s] = calls[s]
    BY <1>1, <2>1 DEF BillingRequest, createPagamento, updatePagamento, deletePagamento, confirmarPagamento,
         CreatePagamento, UpdatePagamento, DeletePagamento, ConfirmarPagamento, WriteBack, upsertConfig,
         UpsertConfigPagamento, reaplicarFeePolicy, ReaplicarFeePolicySnapshot
  <2>2. ASSUME NEW t \in Slots, BillingStep(t) PROVE calls'[s] = calls[s]
    BY <1>2, <2>2 DEF BillingStep, StorePagamento, ErasePagamento, StoreConfig, Finish, At, FilesOps
  <2>3. CASE Vencer \/ JavaConfig
    BY <2>3 DEF Vencer, JavaConfig, handlerVars
  <2> QED BY <1>3, <2>1, <2>2, <2>3 DEF BillingNext
<1>4. CASE MethodsNext
  <2>1. ASSUME NEW t \in Slots, NEW u \in Users, MethodsRequest(t, u) PROVE calls'[s] = calls[s]
    BY <1>1, <2>1 DEF MethodsRequest, createAccount, CreateAccount, updateAccount, UpdateAccount, setDefaultAccount,
         SetDefaultAccount, deleteAccount, DeleteAccount, SaveCard, setDefaultSavedCard, SetDefaultCard,
         deleteSavedCard, DeleteCard
  <2>2. ASSUME NEW t \in Slots, MethodsStep(t) PROVE calls'[s] = calls[s]
    BY <1>2, <2>2 DEF MethodsStep, StoreAccount, StoreCopy, ClearOthers, SetTarget, StoreDeletion, Finish, At, FilesOps
  <2> QED BY <1>4, <2>1, <2>2 DEF MethodsNext
<1>5. CASE CustomersNext
  BY <1>1, <1>2, <1>5 DEF CustomersNext, getOrCreateCustomer, ListCustomers, PostNext, CreateCustomer,
       LoseCustomerAnswer, StoreLink, Finish, At, FilesOps
<1>6. CASE SettingsNext
  BY <1>1, <1>2, <1>6 DEF SettingsNext, SettingsRequest, UpsertDominioHandler, UpsertDominio, DeleteDominioHandler,
       DeleteDominio, UpsertConfigSistemaHandler, UpsertConfigSistema, InsertSetting, ReadSetting, Finish, At, FilesOps
<1>7. CASE NoticesNext
  <2>1. ASSUME NEW t \in Slots, NoticesRequest(t) PROVE calls'[s] = calls[s]
    BY <1>1, <2>1 DEF NoticesRequest, create, createTemplate, update, UpdateNotificationTemplate, deleteTemplate,
         DeleteNotificationTemplate, marcarLida, MarcarLida, marcarTodas, delete, DeleteNotificacao, Once
  <2>2. ASSUME NEW t \in Slots, NoticesStep(t) PROVE calls'[s] = calls[s]
    BY <1>2, <2>2 DEF NoticesStep, StoreNotice, EraseNotice, StoreTemplate, EraseTemplate, Finish, At, FilesOps
  <2> QED BY <1>7, <2>1, <2>2 DEF NoticesNext
<1> QED BY <1>3, <1>4, <1>5, <1>6, <1>7

-----------------------------------------------------------------------------
(* All of them.                                                            *)

CallSound(c) ==
  /\ c.op = "none" => c = NoCall
  /\ c.op \in BackofficeOps \cup {"none"}
  /\ BillingCallOK(c) /\ MethodsCallOK(c) /\ CustomersCallOK(c)
  /\ SettingsCallOK(c) /\ NoticesCallOK(c) /\ FilesCallOK(c)

BackofficeInvariant ==
  /\ served \in 0..MaxRequests
  /\ DOMAIN calls = Slots
  /\ BillingSound /\ MethodsSound /\ CustomersSound /\ SettingsSound /\ NoticesTypeOK /\ FilesSound
  /\ \A s \in Slots : CallSound(calls[s])

LEMMA OperationsDiffer ==
  ASSUME NEW c
  PROVE  /\ c.op \in BillingOps =>
              c.op \notin MethodsOps \cup CustomersOps \cup SettingsOps \cup NoticesOps \cup FilesOps \cup {"none"}
         /\ c.op \in MethodsOps =>
              c.op \notin BillingOps \cup CustomersOps \cup SettingsOps \cup NoticesOps \cup FilesOps \cup {"none"}
         /\ c.op \in CustomersOps =>
              c.op \notin BillingOps \cup MethodsOps \cup SettingsOps \cup NoticesOps \cup FilesOps \cup {"none"}
         /\ c.op \in SettingsOps =>
              c.op \notin BillingOps \cup MethodsOps \cup CustomersOps \cup NoticesOps \cup FilesOps \cup {"none"}
         /\ c.op \in NoticesOps =>
              c.op \notin BillingOps \cup MethodsOps \cup CustomersOps \cup SettingsOps \cup FilesOps \cup {"none"}
         /\ c.op \in FilesOps =>
              c.op \notin BillingOps \cup MethodsOps \cup CustomersOps \cup SettingsOps \cup NoticesOps \cup {"none"}
BY DEF BillingOps, MethodsOps, CustomersOps, SettingsOps, NoticesOps, FilesOps

LEMMA NoCallIsNone ==
  /\ NoCall.op = "none"
  /\ "none" \notin BillingOps \cup MethodsOps \cup CustomersOps \cup SettingsOps \cup NoticesOps \cup FilesOps
BY DEF NoCall, BillingOps, MethodsOps, CustomersOps, SettingsOps, NoticesOps, FilesOps

\* Who is sound for one component is so for the others, which are not concerned.
LEMMA CallOfOneComponent ==
  ASSUME NEW c,
         \/ c = NoCall
         \/ c.op \in BillingOps /\ BillingCallOK(c)'
         \/ c.op \in MethodsOps /\ MethodsCallOK(c)'
         \/ c.op \in CustomersOps /\ CustomersCallOK(c)'
         \/ c.op \in SettingsOps /\ SettingsCallOK(c)
         \/ c.op \in NoticesOps /\ NoticesCallOK(c)'
         \/ c.op \in FilesOps /\ FilesCallOK(c)
  PROVE  CallSound(c)'
<1>1. /\ c.op \notin BillingOps => BillingCallOK(c)'
      /\ c.op \notin MethodsOps => MethodsCallOK(c)'
      /\ c.op \notin CustomersOps => CustomersCallOK(c)'
      /\ c.op \notin SettingsOps => SettingsCallOK(c)'
      /\ c.op \notin NoticesOps => NoticesCallOK(c)'
      /\ c.op \notin FilesOps => FilesCallOK(c)'
  BY DEF BillingCallOK, MethodsCallOK, CustomersCallOK, SettingsCallOK, NoticesCallOK, FilesCallOK
<1>2. SettingsCallOK(c)' <=> SettingsCallOK(c)
  BY DEF SettingsCallOK, SettingsCall
<1>3. FilesCallOK(c)' <=> FilesCallOK(c)
  BY DEF FilesCallOK, FilesCall
<1>4. c.op \in BackofficeOps \cup {"none"} /\ (c.op = "none" => c = NoCall)
  BY NoCallIsNone DEF BackofficeOps
<1> QED BY <1>1, <1>2, <1>3, <1>4, OperationsDiffer, NoCallIsNone DEF CallSound

LEMMA CallsStaySound ==
  ASSUME DOMAIN calls = Slots, \A s \in Slots : CallSound(calls[s]),
         UNCHANGED calls \/ \E s \in Slots : \E c : Moves(s, c) /\ CallSound(c)',
         \A d : BillingCallOK(d) => BillingCallOK(d)', \A d : MethodsCallOK(d) => MethodsCallOK(d)',
         \A d : CustomersCallOK(d) => CustomersCallOK(d)', \A d : NoticesCallOK(d) => NoticesCallOK(d)'
  PROVE  DOMAIN calls' = Slots /\ \A s \in Slots : CallSound(calls[s])'
<1>1. \A d : CallSound(d) => CallSound(d)'
  BY DEF CallSound, SettingsCallOK, SettingsCall, FilesCallOK, FilesCall
<1>2. CASE UNCHANGED calls
  <2>1. \A s \in Slots : CallSound(calls[s])'
    <3> SUFFICES ASSUME NEW s \in Slots PROVE CallSound(calls[s])'
      OBVIOUS
    <3>1. PICK d : d = calls[s]
      OBVIOUS
    <3>2. CallSound(d)' /\ d = calls'[s]
      BY <1>1, <1>2, <3>1
    <3> QED BY <3>2
  <2> QED BY <1>2, <2>1
<1>3. ASSUME NEW s \in Slots, NEW c, Moves(s, c), CallSound(c)'
      PROVE  DOMAIN calls' = Slots /\ \A t \in Slots : CallSound(calls[t])'
  <2>1. DOMAIN calls' = Slots /\ \A t \in Slots : calls'[t] = IF t = s THEN c ELSE calls[t]
    BY <1>3, CallsAfter
  <2>2. ASSUME NEW t \in Slots PROVE CallSound(calls[t])'
    <3>1. PICK d : d = calls'[t]
      OBVIOUS
    <3>2. CallSound(d)'
      BY <1>1, <1>3, <2>1, <3>1
    <3> QED BY <3>1, <3>2
  <2> QED BY <2>1, <2>2
<1> QED BY <1>2, <1>3

\* What a step leaves of the components it is not a step of.
LEMMA OthersStay ==
  ASSUME BackofficeInvariant, NEW ops,
         UNCHANGED calls \/ \E s \in Slots : \E c : Moves(s, c) /\ (c = NoCall \/ c.op \in ops),
         ops \in {{"none"}, BillingOps, MethodsOps, CustomersOps, SettingsOps, NoticesOps, FilesOps}
  PROVE  /\ ops # BillingOps => Elsewhere(BillingOps)
         /\ ops # MethodsOps => Elsewhere(MethodsOps)
         /\ ops # CustomersOps => Elsewhere(CustomersOps)
         /\ ops # SettingsOps => Elsewhere(SettingsOps)
         /\ ops # NoticesOps => Elsewhere(NoticesOps)
         /\ ops # FilesOps => Elsewhere(FilesOps)
<1>1. ASSUME NEW s \in Slots, NEW c, Moves(s, c), c = NoCall \/ c.op \in ops
      PROVE  /\ ops # BillingOps => c.op \notin BillingOps
             /\ ops # MethodsOps => c.op \notin MethodsOps
             /\ ops # CustomersOps => c.op \notin CustomersOps
             /\ ops # SettingsOps => c.op \notin SettingsOps
             /\ ops # NoticesOps => c.op \notin NoticesOps
             /\ ops # FilesOps => c.op \notin FilesOps
  BY <1>1, OperationsDiffer, NoCallIsNone
<1> QED BY <1>1 DEF Elsewhere

LEMMA SoundParts ==
  ASSUME BackofficeInvariant
  PROVE  /\ served \in 0..MaxRequests /\ DOMAIN calls = Slots /\ \A s \in Slots : CallSound(calls[s])
         /\ BillingSound /\ MethodsSound /\ CustomersSound /\ SettingsSound /\ NoticesTypeOK /\ FilesSound
         /\ \A s \in Slots : /\ BillingCallOK(calls[s]) /\ MethodsCallOK(calls[s]) /\ CustomersCallOK(calls[s])
                            /\ SettingsCallOK(calls[s]) /\ NoticesCallOK(calls[s]) /\ FilesCallOK(calls[s])
BY DEF BackofficeInvariant, CallSound

\* The handlers at work on files neither move nor become more.
LEMMA FilesLeftAlone ==
  ASSUME BackofficeInvariant, Elsewhere(FilesOps),
         BillingNext \/ MethodsNext \/ CustomersNext \/ SettingsNext \/ NoticesNext
  PROVE  \A s \in Slots : calls[s].op \in FilesOps \/ calls'[s].op \in FilesOps => calls'[s] = calls[s]
<1>1. \A s \in Slots : calls'[s].op \in FilesOps => calls'[s] = calls[s]
  BY SoundParts, ElsewhereKeeps
<1>2. \A s \in Slots : calls[s].op \in FilesOps => calls'[s] = calls[s]
  BY SoundParts, OthersLeaveFiles
<1> QED BY <1>1, <1>2

LEMMA BillingStepIsSound ==
  ASSUME BackofficeInvariant, BillingNext, UNCHANGED methodVars, UNCHANGED customerVars, UNCHANGED settingsVars, UNCHANGED noticeVars, UNCHANGED filesVars
  PROVE  BackofficeInvariant'
<1>0. /\ served \in 0..MaxRequests /\ DOMAIN calls = Slots /\ \A s \in Slots : CallSound(calls[s])
      /\ BillingSound /\ MethodsSound /\ CustomersSound /\ SettingsSound /\ NoticesTypeOK /\ FilesSound
  BY SoundParts
<1>1. BillingKept
  BY SoundParts, BillingNextKeeps
<1>2. UNCHANGED calls \/ \E s \in Slots : \E c : Moves(s, c) /\ (c = NoCall \/ c.op \in BillingOps) /\ BillingCallOK(c)'
  BY <1>1 DEF BillingKept
<1>3. Elsewhere(MethodsOps) /\ Elsewhere(CustomersOps) /\ Elsewhere(SettingsOps) /\ Elsewhere(NoticesOps) /\ Elsewhere(FilesOps)
  <2>1. BillingOps # MethodsOps /\ BillingOps # CustomersOps /\ BillingOps # SettingsOps /\ BillingOps # NoticesOps /\ BillingOps # FilesOps
    BY DEF BillingOps, MethodsOps, CustomersOps, SettingsOps, NoticesOps, FilesOps
  <2>2. UNCHANGED calls \/ \E s \in Slots : \E c : Moves(s, c) /\ (c = NoCall \/ c.op \in BillingOps)
    BY <1>2
  <2> QED BY <2>1, <2>2, OthersStay
<1>4. MethodsSound' /\ \A d : MethodsCallOK(d) => MethodsCallOK(d)'
  BY <1>0, <1>3, MethodsStays
<1>5. CustomersSound' /\ \A d : CustomersCallOK(d) => CustomersCallOK(d)'
  BY <1>0, <1>3, CustomersStays
<1>6. SettingsSound'
  BY <1>0, <1>3, SettingsStays
<1>7. NoticesTypeOK' /\ \A d : NoticesCallOK(d) => NoticesCallOK(d)'
  BY <1>0, <1>3, NoticesStays
<1>8. FilesSound'
  BY <1>0, <1>3, FilesLeftAlone, FilesStays
<1>9. BillingSound' /\ served' \in 0..MaxRequests /\ \A d : BillingCallOK(d) => BillingCallOK(d)'
  BY <1>1 DEF BillingKept
<1>10. UNCHANGED calls \/ \E s \in Slots : \E c : Moves(s, c) /\ CallSound(c)'
  BY <1>2, CallOfOneComponent
<1>11. DOMAIN calls' = Slots /\ \A s \in Slots : CallSound(calls[s])'
  BY <1>0, <1>10, <1>4, <1>5, <1>6, <1>7, <1>8, <1>9, CallsStaySound
<1> QED BY <1>11, <1>4, <1>5, <1>6, <1>7, <1>8, <1>9 DEF BackofficeInvariant

LEMMA MethodsStepIsSound ==
  ASSUME BackofficeInvariant, MethodsNext, UNCHANGED billingVars, UNCHANGED customerVars, UNCHANGED settingsVars, UNCHANGED noticeVars, UNCHANGED filesVars
  PROVE  BackofficeInvariant'
<1>0. /\ served \in 0..MaxRequests /\ DOMAIN calls = Slots /\ \A s \in Slots : CallSound(calls[s])
      /\ BillingSound /\ MethodsSound /\ CustomersSound /\ SettingsSound /\ NoticesTypeOK /\ FilesSound
  BY SoundParts
<1>1. MethodsKept
  BY SoundParts, MethodsNextKeeps
<1>2. UNCHANGED calls \/ \E s \in Slots : \E c : Moves(s, c) /\ (c = NoCall \/ c.op \in MethodsOps) /\ MethodsCallOK(c)'
  BY <1>1 DEF MethodsKept
<1>3. Elsewhere(BillingOps) /\ Elsewhere(CustomersOps) /\ Elsewhere(SettingsOps) /\ Elsewhere(NoticesOps) /\ Elsewhere(FilesOps)
  <2>1. MethodsOps # BillingOps /\ MethodsOps # CustomersOps /\ MethodsOps # SettingsOps /\ MethodsOps # NoticesOps /\ MethodsOps # FilesOps
    BY DEF BillingOps, MethodsOps, CustomersOps, SettingsOps, NoticesOps, FilesOps
  <2>2. UNCHANGED calls \/ \E s \in Slots : \E c : Moves(s, c) /\ (c = NoCall \/ c.op \in MethodsOps)
    BY <1>2
  <2> QED BY <2>1, <2>2, OthersStay
<1>4. BillingSound' /\ \A d : BillingCallOK(d) => BillingCallOK(d)'
  BY <1>0, <1>3, BillingStays
<1>5. CustomersSound' /\ \A d : CustomersCallOK(d) => CustomersCallOK(d)'
  BY <1>0, <1>3, CustomersStays
<1>6. SettingsSound'
  BY <1>0, <1>3, SettingsStays
<1>7. NoticesTypeOK' /\ \A d : NoticesCallOK(d) => NoticesCallOK(d)'
  BY <1>0, <1>3, NoticesStays
<1>8. FilesSound'
  BY <1>0, <1>3, FilesLeftAlone, FilesStays
<1>9. MethodsSound' /\ served' \in 0..MaxRequests /\ \A d : MethodsCallOK(d) => MethodsCallOK(d)'
  BY <1>1 DEF MethodsKept
<1>10. UNCHANGED calls \/ \E s \in Slots : \E c : Moves(s, c) /\ CallSound(c)'
  BY <1>2, CallOfOneComponent
<1>11. DOMAIN calls' = Slots /\ \A s \in Slots : CallSound(calls[s])'
  BY <1>0, <1>10, <1>4, <1>5, <1>6, <1>7, <1>8, <1>9, CallsStaySound
<1> QED BY <1>11, <1>4, <1>5, <1>6, <1>7, <1>8, <1>9 DEF BackofficeInvariant

LEMMA CustomersStepIsSound ==
  ASSUME BackofficeInvariant, CustomersNext, UNCHANGED billingVars, UNCHANGED methodVars, UNCHANGED settingsVars, UNCHANGED noticeVars, UNCHANGED filesVars
  PROVE  BackofficeInvariant'
<1>0. /\ served \in 0..MaxRequests /\ DOMAIN calls = Slots /\ \A s \in Slots : CallSound(calls[s])
      /\ BillingSound /\ MethodsSound /\ CustomersSound /\ SettingsSound /\ NoticesTypeOK /\ FilesSound
  BY SoundParts
<1>1. CustomersKept
  BY SoundParts, CustomersNextKeeps
<1>2. UNCHANGED calls \/ \E s \in Slots : \E c : Moves(s, c) /\ (c = NoCall \/ c.op \in CustomersOps) /\ CustomersCallOK(c)'
  BY <1>1 DEF CustomersKept
<1>3. Elsewhere(BillingOps) /\ Elsewhere(MethodsOps) /\ Elsewhere(SettingsOps) /\ Elsewhere(NoticesOps) /\ Elsewhere(FilesOps)
  <2>1. CustomersOps # BillingOps /\ CustomersOps # MethodsOps /\ CustomersOps # SettingsOps /\ CustomersOps # NoticesOps /\ CustomersOps # FilesOps
    BY DEF BillingOps, MethodsOps, CustomersOps, SettingsOps, NoticesOps, FilesOps
  <2>2. UNCHANGED calls \/ \E s \in Slots : \E c : Moves(s, c) /\ (c = NoCall \/ c.op \in CustomersOps)
    BY <1>2
  <2> QED BY <2>1, <2>2, OthersStay
<1>4. BillingSound' /\ \A d : BillingCallOK(d) => BillingCallOK(d)'
  BY <1>0, <1>3, BillingStays
<1>5. MethodsSound' /\ \A d : MethodsCallOK(d) => MethodsCallOK(d)'
  BY <1>0, <1>3, MethodsStays
<1>6. SettingsSound'
  BY <1>0, <1>3, SettingsStays
<1>7. NoticesTypeOK' /\ \A d : NoticesCallOK(d) => NoticesCallOK(d)'
  BY <1>0, <1>3, NoticesStays
<1>8. FilesSound'
  BY <1>0, <1>3, FilesLeftAlone, FilesStays
<1>9. CustomersSound' /\ served' \in 0..MaxRequests /\ \A d : CustomersCallOK(d) => CustomersCallOK(d)'
  BY <1>1 DEF CustomersKept
<1>10. UNCHANGED calls \/ \E s \in Slots : \E c : Moves(s, c) /\ CallSound(c)'
  BY <1>2, CallOfOneComponent
<1>11. DOMAIN calls' = Slots /\ \A s \in Slots : CallSound(calls[s])'
  BY <1>0, <1>10, <1>4, <1>5, <1>6, <1>7, <1>8, <1>9, CallsStaySound
<1> QED BY <1>11, <1>4, <1>5, <1>6, <1>7, <1>8, <1>9 DEF BackofficeInvariant

LEMMA SettingsStepIsSound ==
  ASSUME BackofficeInvariant, SettingsNext, UNCHANGED billingVars, UNCHANGED methodVars, UNCHANGED customerVars, UNCHANGED noticeVars, UNCHANGED filesVars
  PROVE  BackofficeInvariant'
<1>0. /\ served \in 0..MaxRequests /\ DOMAIN calls = Slots /\ \A s \in Slots : CallSound(calls[s])
      /\ BillingSound /\ MethodsSound /\ CustomersSound /\ SettingsSound /\ NoticesTypeOK /\ FilesSound
  BY SoundParts
<1>1. SettingsKept
  BY SoundParts, SettingsNextKeeps
<1>2. UNCHANGED calls \/ \E s \in Slots : \E c : Moves(s, c) /\ (c = NoCall \/ c.op \in SettingsOps) /\ SettingsCallOK(c)
  BY <1>1 DEF SettingsKept
<1>3. Elsewhere(BillingOps) /\ Elsewhere(MethodsOps) /\ Elsewhere(CustomersOps) /\ Elsewhere(NoticesOps) /\ Elsewhere(FilesOps)
  <2>1. SettingsOps # BillingOps /\ SettingsOps # MethodsOps /\ SettingsOps # CustomersOps /\ SettingsOps # NoticesOps /\ SettingsOps # FilesOps
    BY DEF BillingOps, MethodsOps, CustomersOps, SettingsOps, NoticesOps, FilesOps
  <2>2. UNCHANGED calls \/ \E s \in Slots : \E c : Moves(s, c) /\ (c = NoCall \/ c.op \in SettingsOps)
    BY <1>2
  <2> QED BY <2>1, <2>2, OthersStay
<1>4. BillingSound' /\ \A d : BillingCallOK(d) => BillingCallOK(d)'
  BY <1>0, <1>3, BillingStays
<1>5. MethodsSound' /\ \A d : MethodsCallOK(d) => MethodsCallOK(d)'
  BY <1>0, <1>3, MethodsStays
<1>6. CustomersSound' /\ \A d : CustomersCallOK(d) => CustomersCallOK(d)'
  BY <1>0, <1>3, CustomersStays
<1>7. NoticesTypeOK' /\ \A d : NoticesCallOK(d) => NoticesCallOK(d)'
  BY <1>0, <1>3, NoticesStays
<1>8. FilesSound'
  BY <1>0, <1>3, FilesLeftAlone, FilesStays
<1>9. SettingsSound' /\ served' \in 0..MaxRequests
  BY <1>1 DEF SettingsKept
<1>10. UNCHANGED calls \/ \E s \in Slots : \E c : Moves(s, c) /\ CallSound(c)'
  BY <1>2, CallOfOneComponent
<1>11. DOMAIN calls' = Slots /\ \A s \in Slots : CallSound(calls[s])'
  BY <1>0, <1>10, <1>4, <1>5, <1>6, <1>7, <1>8, <1>9, CallsStaySound
<1> QED BY <1>11, <1>4, <1>5, <1>6, <1>7, <1>8, <1>9 DEF BackofficeInvariant

LEMMA NoticesStepIsSound ==
  ASSUME BackofficeInvariant, NoticesNext, UNCHANGED billingVars, UNCHANGED methodVars, UNCHANGED customerVars, UNCHANGED settingsVars, UNCHANGED filesVars
  PROVE  BackofficeInvariant'
<1>0. /\ served \in 0..MaxRequests /\ DOMAIN calls = Slots /\ \A s \in Slots : CallSound(calls[s])
      /\ BillingSound /\ MethodsSound /\ CustomersSound /\ SettingsSound /\ NoticesTypeOK /\ FilesSound
  BY SoundParts
<1>1. NoticesKept
  BY SoundParts, NoticesNextKeeps
<1>2. UNCHANGED calls \/ \E s \in Slots : \E c : Moves(s, c) /\ (c = NoCall \/ c.op \in NoticesOps) /\ NoticesCallOK(c)'
  BY <1>1 DEF NoticesKept
<1>3. Elsewhere(BillingOps) /\ Elsewhere(MethodsOps) /\ Elsewhere(CustomersOps) /\ Elsewhere(SettingsOps) /\ Elsewhere(FilesOps)
  <2>1. NoticesOps # BillingOps /\ NoticesOps # MethodsOps /\ NoticesOps # CustomersOps /\ NoticesOps # SettingsOps /\ NoticesOps # FilesOps
    BY DEF BillingOps, MethodsOps, CustomersOps, SettingsOps, NoticesOps, FilesOps
  <2>2. UNCHANGED calls \/ \E s \in Slots : \E c : Moves(s, c) /\ (c = NoCall \/ c.op \in NoticesOps)
    BY <1>2
  <2> QED BY <2>1, <2>2, OthersStay
<1>4. BillingSound' /\ \A d : BillingCallOK(d) => BillingCallOK(d)'
  BY <1>0, <1>3, BillingStays
<1>5. MethodsSound' /\ \A d : MethodsCallOK(d) => MethodsCallOK(d)'
  BY <1>0, <1>3, MethodsStays
<1>6. CustomersSound' /\ \A d : CustomersCallOK(d) => CustomersCallOK(d)'
  BY <1>0, <1>3, CustomersStays
<1>7. SettingsSound'
  BY <1>0, <1>3, SettingsStays
<1>8. FilesSound'
  BY <1>0, <1>3, FilesLeftAlone, FilesStays
<1>9. NoticesTypeOK' /\ served' \in 0..MaxRequests /\ \A d : NoticesCallOK(d) => NoticesCallOK(d)'
  BY <1>1 DEF NoticesKept
<1>10. UNCHANGED calls \/ \E s \in Slots : \E c : Moves(s, c) /\ CallSound(c)'
  BY <1>2, CallOfOneComponent
<1>11. DOMAIN calls' = Slots /\ \A s \in Slots : CallSound(calls[s])'
  BY <1>0, <1>10, <1>4, <1>5, <1>6, <1>7, <1>8, <1>9, CallsStaySound
<1> QED BY <1>11, <1>4, <1>5, <1>6, <1>7, <1>8, <1>9 DEF BackofficeInvariant

LEMMA FilesStepIsSound ==
  ASSUME BackofficeInvariant, FilesNext, UNCHANGED billingVars, UNCHANGED methodVars, UNCHANGED customerVars, UNCHANGED settingsVars, UNCHANGED noticeVars
  PROVE  BackofficeInvariant'
<1>0. /\ served \in 0..MaxRequests /\ DOMAIN calls = Slots /\ \A s \in Slots : CallSound(calls[s])
      /\ BillingSound /\ MethodsSound /\ CustomersSound /\ SettingsSound /\ NoticesTypeOK /\ FilesSound
  BY SoundParts
<1>1. FilesKept
  BY SoundParts, FilesNextKeeps
<1>2. UNCHANGED calls \/ \E s \in Slots : \E c : Moves(s, c) /\ (c = NoCall \/ c.op \in FilesOps) /\ FilesCallOK(c)
  BY <1>1 DEF FilesKept
<1>3. Elsewhere(BillingOps) /\ Elsewhere(MethodsOps) /\ Elsewhere(CustomersOps) /\ Elsewhere(SettingsOps) /\ Elsewhere(NoticesOps)
  <2>1. FilesOps # BillingOps /\ FilesOps # MethodsOps /\ FilesOps # CustomersOps /\ FilesOps # SettingsOps /\ FilesOps # NoticesOps
    BY DEF BillingOps, MethodsOps, CustomersOps, SettingsOps, NoticesOps, FilesOps
  <2>2. UNCHANGED calls \/ \E s \in Slots : \E c : Moves(s, c) /\ (c = NoCall \/ c.op \in FilesOps)
    BY <1>2
  <2> QED BY <2>1, <2>2, OthersStay
<1>4. BillingSound' /\ \A d : BillingCallOK(d) => BillingCallOK(d)'
  BY <1>0, <1>3, BillingStays
<1>5. MethodsSound' /\ \A d : MethodsCallOK(d) => MethodsCallOK(d)'
  BY <1>0, <1>3, MethodsStays
<1>6. CustomersSound' /\ \A d : CustomersCallOK(d) => CustomersCallOK(d)'
  BY <1>0, <1>3, CustomersStays
<1>7. SettingsSound'
  BY <1>0, <1>3, SettingsStays
<1>8. NoticesTypeOK' /\ \A d : NoticesCallOK(d) => NoticesCallOK(d)'
  BY <1>0, <1>3, NoticesStays
<1>9. FilesSound' /\ served' \in 0..MaxRequests
  BY <1>1 DEF FilesKept
<1>10. UNCHANGED calls \/ \E s \in Slots : \E c : Moves(s, c) /\ CallSound(c)'
  BY <1>2, CallOfOneComponent
<1>11. DOMAIN calls' = Slots /\ \A s \in Slots : CallSound(calls[s])'
  BY <1>0, <1>10, <1>4, <1>5, <1>6, <1>7, <1>8, <1>9, CallsStaySound
<1> QED BY <1>11, <1>4, <1>5, <1>6, <1>7, <1>8, <1>9 DEF BackofficeInvariant
LEMMA AbortIsSound ==
  ASSUME BackofficeInvariant, NEW s \in Slots, Abort(s), FilesInterrupted(s),
         UNCHANGED billingVars, UNCHANGED methodVars, UNCHANGED customerVars, UNCHANGED settingsVars,
         UNCHANGED noticeVars, UNCHANGED arquivos
  PROVE  BackofficeInvariant'
<1>0. /\ served \in 0..MaxRequests /\ DOMAIN calls = Slots /\ \A t \in Slots : CallSound(calls[t])
      /\ BillingSound /\ MethodsSound /\ CustomersSound /\ SettingsSound /\ NoticesTypeOK /\ FilesSound
      /\ FilesCallOK(calls[s])
  BY SoundParts
<1>1. Moves(s, NoCall) /\ served' = served
  BY DEF Abort, Finish, Continue, Moves
<1>2. /\ Elsewhere(BillingOps) /\ Elsewhere(MethodsOps) /\ Elsewhere(CustomersOps)
      /\ Elsewhere(SettingsOps) /\ Elsewhere(NoticesOps)
  BY <1>1, NoCallIsNone DEF Elsewhere
<1>3. BillingSound' /\ \A d : BillingCallOK(d) => BillingCallOK(d)'
  BY <1>0, BillingStays
<1>4. MethodsSound' /\ \A d : MethodsCallOK(d) => MethodsCallOK(d)'
  BY <1>0, <1>2, MethodsStays
<1>5. CustomersSound' /\ \A d : CustomersCallOK(d) => CustomersCallOK(d)'
  BY <1>0, <1>2, CustomersStays
<1>6. SettingsSound'
  BY <1>0, <1>2, SettingsStays
<1>7. NoticesTypeOK' /\ \A d : NoticesCallOK(d) => NoticesCallOK(d)'
  BY <1>0, NoticesStays
<1>8. FilesSound'
  BY <1>0, FilesAborted
<1>9. CallSound(NoCall)'
  BY CallOfOneComponent
<1>10. DOMAIN calls' = Slots /\ \A t \in Slots : CallSound(calls[t])'
  BY <1>0, <1>1, <1>3, <1>4, <1>5, <1>7, <1>9, CallsStaySound
<1>11. served' \in 0..MaxRequests
  BY <1>0, <1>1
<1> QED BY <1>3, <1>4, <1>5, <1>6, <1>7, <1>8, <1>10, <1>11 DEF BackofficeInvariant

LEMMA StutterIsSound ==
  ASSUME BackofficeInvariant, UNCHANGED vars
  PROVE  BackofficeInvariant'
<1>0. /\ served \in 0..MaxRequests /\ DOMAIN calls = Slots /\ \A t \in Slots : CallSound(calls[t])
      /\ BillingSound /\ MethodsSound /\ CustomersSound /\ SettingsSound /\ NoticesTypeOK /\ FilesSound
  BY SoundParts
<1>1. /\ UNCHANGED calls /\ UNCHANGED served /\ UNCHANGED billingVars /\ UNCHANGED methodVars
      /\ UNCHANGED customerVars /\ UNCHANGED settingsVars /\ UNCHANGED noticeVars /\ UNCHANGED filesVars
  BY DEF vars, handlerVars
<1>2. /\ Elsewhere(MethodsOps) /\ Elsewhere(CustomersOps) /\ Elsewhere(SettingsOps)
      /\ \A s \in Slots : calls[s].op \in FilesOps \/ calls'[s].op \in FilesOps => calls'[s] = calls[s]
  BY <1>1 DEF Elsewhere
<1>3. BillingSound' /\ \A d : BillingCallOK(d) => BillingCallOK(d)'
  BY <1>0, <1>1, BillingStays
<1>4. MethodsSound' /\ \A d : MethodsCallOK(d) => MethodsCallOK(d)'
  BY <1>0, <1>1, <1>2, MethodsStays
<1>5. CustomersSound' /\ \A d : CustomersCallOK(d) => CustomersCallOK(d)'
  BY <1>0, <1>1, <1>2, CustomersStays
<1>6. SettingsSound'
  BY <1>0, <1>1, <1>2, SettingsStays
<1>7. NoticesTypeOK' /\ \A d : NoticesCallOK(d) => NoticesCallOK(d)'
  BY <1>0, <1>1, NoticesStays
<1>8. FilesSound'
  BY <1>0, <1>1, <1>2, FilesStays
<1>9. DOMAIN calls' = Slots /\ \A t \in Slots : CallSound(calls[t])'
  BY <1>0, <1>1, <1>3, <1>4, <1>5, <1>7, CallsStaySound
<1>10. served' \in 0..MaxRequests
  BY <1>0, <1>1
<1> QED BY <1>3, <1>4, <1>5, <1>6, <1>7, <1>8, <1>9, <1>10 DEF BackofficeInvariant

LEMMA BackofficeStarts ==
  ASSUME Init
  PROVE  BackofficeInvariant
<1>0. /\ calls = [s \in Slots |-> NoCall] /\ served = 0
      /\ BillingInit /\ MethodsInit /\ CustomersInit /\ SettingsInit /\ NoticesInit /\ FilesInit
  BY DEF Init, HandlersInit
<1>1. served \in 0..MaxRequests
  BY <1>0, HandlersAssumption
<1>2. DOMAIN calls = Slots /\ \A s \in Slots : calls[s].op = "none" /\ calls[s] = NoCall
  BY <1>0, NoCallIsNone
<1>3. \A s \in Slots : CallSound(calls[s])
  BY <1>2, NoCallIsNone
     DEF CallSound, BillingCallOK, MethodsCallOK, CustomersCallOK, SettingsCallOK, NoticesCallOK, FilesCallOK
<1>4. Cardinality(Slots) \in Nat /\ IsFiniteSet({}) /\ Cardinality({}) = 0
  BY HandlersAssumption, FS_CardinalityType, FS_EmptySet
<1>5. BillingSound
  BY <1>0 DEF BillingInit, BillingSound, BillingTypeOK, ConfigExists
<1>6. MethodsSound
  <2>1. MethodsTypeOK
    BY <1>0 DEF MethodsInit, MethodsTypeOK
  <2>2. ASSUME NEW u \in Users PROVE OverlapIsBounded(u)
    <3>1. Defaults(u) = {}
      BY <1>0 DEF MethodsInit, Defaults, listAccounts, ListAccounts, FindByUserID, Active, Saved
    <3>2. Targets(u) = {} /\ Creators(u) = {}
      BY <1>2 DEF Targets, Creators, Holds, Creates
    <3>3. Claimed(u) = {}
      BY <3>1, <3>2 DEF Claimed
    <3> QED BY <1>4, <3>2, <3>3 DEF OverlapIsBounded
  <2> QED BY <2>1, <2>2 DEF MethodsSound
<1>7. CustomersSound
  <2>1. CustomersTypeOK
    BY <1>0 DEF CustomersInit, CustomersTypeOK
  <2>2. ASSUME NEW u \in Users PROVE PostsAreBounded(u) /\ links[u] \in 0..customers[u]
    <3>1. customers[u] = 0 /\ links[u] = 0
      BY <1>0 DEF CustomersInit
    <3>2. Remaining(u) = {}
      BY <1>2 DEF Remaining, Posts, Attempts
    <3> QED BY <1>4, <3>1, <3>2, AttemptsAreFinite DEF PostsAreBounded
  <2> QED BY <2>1, <2>2 DEF CustomersSound
<1>8. SettingsSound
  <2>1. SettingsTypeOK
    BY <1>0 DEF SettingsInit, SettingsTypeOK
  <2>2. ASSUME NEW k \in Chaves PROVE InsertsAreBounded(k)
    <3>1. DocumentsOf(k) = {}
      BY <1>0 DEF SettingsInit, DocumentsOf
    <3>2. Inserting(k) = {}
      BY <1>2 DEF Inserting, Inserts
    <3> QED BY <1>4, <3>1, <3>2 DEF InsertsAreBounded
  <2> QED BY <2>1, <2>2 DEF SettingsSound
<1>9. NoticesTypeOK
  BY <1>0 DEF NoticesInit, NoticesTypeOK
<1>10. FilesSound
  <2>1. FilesTypeOK
    BY <1>0 DEF FilesInit, FilesTypeOK
  <2>2. ASSUME NEW f \in Uploads PROVE FileSound(f)
    <3>1. ~Broken(f) /\ f \notin interrupted
      BY <1>0 DEF FilesInit, Broken, Has
    <3>2. \A s \in Slots : ~On(calls[s], "saveMetadata", f) /\ ~On(calls[s], "dropContent", f)
                             /\ ~On(calls[s], "dropMetadata", f)
      BY <1>2 DEF On
    <3> QED BY <3>1, <3>2 DEF FileSound
  <2> QED BY <2>1, <2>2 DEF FilesSound
<1> QED BY <1>1, <1>2, <1>3, <1>5, <1>6, <1>7, <1>8, <1>9, <1>10 DEF BackofficeInvariant

LEMMA BackofficeSteps ==
  ASSUME BackofficeInvariant, [Next]_vars
  PROVE  BackofficeInvariant'
<1>1. CASE UNCHANGED vars
  BY <1>1, StutterIsSound
<1>2. CASE BillingNext /\ UNCHANGED <<methodVars, customerVars, settingsVars, noticeVars, filesVars>>
  BY <1>2, BillingStepIsSound
<1>3. CASE MethodsNext /\ UNCHANGED <<billingVars, customerVars, settingsVars, noticeVars, filesVars>>
  BY <1>3, MethodsStepIsSound
<1>4. CASE CustomersNext /\ UNCHANGED <<billingVars, methodVars, settingsVars, noticeVars, filesVars>>
  BY <1>4, CustomersStepIsSound
<1>5. CASE SettingsNext /\ UNCHANGED <<billingVars, methodVars, customerVars, noticeVars, filesVars>>
  BY <1>5, SettingsStepIsSound
<1>6. CASE NoticesNext /\ UNCHANGED <<billingVars, methodVars, customerVars, settingsVars, filesVars>>
  BY <1>6, NoticesStepIsSound
<1>7. CASE FilesNext /\ UNCHANGED <<billingVars, methodVars, customerVars, settingsVars, noticeVars>>
  BY <1>7, FilesStepIsSound
<1>8. ASSUME NEW s \in Slots, Abort(s), FilesInterrupted(s),
             UNCHANGED <<billingVars, methodVars, customerVars, settingsVars, noticeVars, arquivos>>
      PROVE  BackofficeInvariant'
  BY <1>8, AbortIsSound
<1> QED BY <1>1, <1>2, <1>3, <1>4, <1>5, <1>6, <1>7, <1>8 DEF Next

LEMMA BackofficeIsInvariant == Spec => []BackofficeInvariant
<1>1. Init => BackofficeInvariant
  BY BackofficeStarts
<1>2. BackofficeInvariant /\ [Next]_vars => BackofficeInvariant'
  BY BackofficeSteps
<1> QED BY <1>1, <1>2, PTL DEF Spec

LEMMA BackofficeTyped ==
  ASSUME BackofficeInvariant
  PROVE  TypeOK
<1>1. /\ BillingTypeOK /\ MethodsTypeOK /\ CustomersTypeOK /\ SettingsTypeOK /\ NoticesTypeOK /\ FilesTypeOK
      /\ served \in 0..MaxRequests /\ DOMAIN calls = Slots
  BY SoundParts DEF BillingSound, MethodsSound, CustomersSound, SettingsSound, FilesSound
<1>2. ASSUME NEW s \in Slots
      PROVE  calls[s] \in BillingCall(calls[s].op) \cup MethodsCall(calls[s].op) \cup CustomersCall(calls[s].op)
                            \cup SettingsCall(calls[s].op) \cup NoticesCall(calls[s].op)
                            \cup FilesCall(calls[s].op) \cup {NoCall}
  <2>1. CallSound(calls[s])
    BY SoundParts
  <2>2. CASE calls[s].op = "none"
    BY <2>1, <2>2 DEF CallSound
  <2>3. CASE calls[s].op \in BackofficeOps
    BY <2>1, <2>3 DEF CallSound, BackofficeOps, BillingCallOK, MethodsCallOK, CustomersCallOK, SettingsCallOK,
                      NoticesCallOK, FilesCallOK
  <2> QED BY <2>1, <2>2, <2>3 DEF CallSound
<1> QED BY <1>1, <1>2 DEF TypeOK

\* Only Billing loses a configuration.
LEMMA ConfigsAreLostByJavaKey ==
  ASSUME BackofficeInvariant, [Next]_vars, Found # {}, Found' = {}, NEW c \in Found
  PROVE  "evento_id" \notin configs[c].keys
<1>1. CASE BillingNext
  <2>1. BillingKept
    BY <1>1, SoundParts, BillingNextKeeps
  <2> QED BY <2>1, FoundStays DEF BillingKept
<1>2. CASE ~BillingNext
  <2>1. UNCHANGED configs
    BY <1>2 DEF Next, vars, billingVars
  <2> QED BY <2>1 DEF Found, ConfigExists
<1> QED BY <1>1, <1>2

-----------------------------------------------------------------------------
(* The theorems.                                                           *)

\* Documents and handlers keep their types: what a handler of one component has kept is
\* never taken for what a handler of another has.
THEOREM BackofficeIsTyped == Spec => []TypeOK
<1>1. BackofficeInvariant => TypeOK
  BY BackofficeTyped
<1> QED BY <1>1, BackofficeIsInvariant, PTL

\* ResolveSnapshot: whatever upserts and bulk reapplications overlap, the version stamped
\* on a charge names the fees stamped with it, or they were reset to zero since.
THEOREM VersionsNameTheirFees == Spec => []VersionNamesItsFees
<1>1. BackofficeInvariant => VersionNamesItsFees
  BY SoundParts, BillingVersions
<1> QED BY <1>1, BackofficeIsInvariant, PTL

\* A user never has more default accounts than there are handlers at work at once.
THEOREM DefaultsStayBounded == Spec => []DefaultsOverlapIsBounded
<1>1. BackofficeInvariant => DefaultsOverlapIsBounded
  BY SoundParts, DefaultsAreBounded
<1> QED BY <1>1, BackofficeIsInvariant, PTL

\* Settings of one key, and customers of one user at the provider, are no more than the
\* handlers, and their attempts, that overlap.
THEOREM DuplicatesStayBounded == Spec => []DuplicatesAreBounded
<1>1. BackofficeInvariant => DuplicatesAreBounded
  BY SoundParts, CopiesBound, CustomersBound DEF DuplicatesAreBounded
<1> QED BY <1>1, BackofficeIsInvariant, PTL

\* A file that is listed and cannot be downloaded is one whose removal is under way or was
\* interrupted, and it stays that way.
THEOREM BrokenFilesWereInterrupted == Spec => []BrokenIsInterrupted
<1>1. BackofficeInvariant => BrokenIsInterrupted
  BY SoundParts, BrokenFiles
<1> QED BY <1>1, BackofficeIsInvariant, PTL

\* The configuration of an event is found for good unless none of those that are holds the
\* key of this backend.
THEOREM ConfigsAreFoundForGood == Spec => FoundConfigIsLostOnlyByJavaKey
<1>1. BackofficeInvariant /\ [Next]_vars
        => [Found # {} /\ Found' = {} => \A c \in Found : "evento_id" \notin configs[c].keys]_configs
  BY ConfigsAreLostByJavaKey
<1> QED BY <1>1, BackofficeIsInvariant, PTL DEF Spec, FoundConfigIsLostOnlyByJavaKey

\* A confirmation, a deletion, a read mark and the text of a template are undone only by a
\* handler that writes a copy it had read before.
THEOREM StaleCopiesAloneUndo == Spec => OnlyStaleCopiesUndo
<1>1. ASSUME BackofficeInvariant, [Next]_vars, NEW p \in Payments,
             PaymentExists(p), IsPago(p), pagamentos'[p] \notin {pagamentos[p], Erased}
      PROVE  \E s \in Slots : At(s, "replacePagamento") /\ calls[s].payment = p /\ calls[s].seen # "PAGO"
  <2>1. pagamentos' # pagamentos
    BY <1>1
  <2>2. BillingNext
    BY <1>1, <2>1 DEF Next, vars, billingVars
  <2> QED BY <1>1, <2>2, SoundParts, PaidIsOverwrittenByAStaleCopy
<1>2. ASSUME BackofficeInvariant, [Next]_vars, NEW m \in Accounts \cup Cards, Saved(m), m \notin Listed, m \in Listed'
      PROVE  m \in Accounts /\ \E s \in Slots : At(s, "replace") /\ calls[s].method = m
  <2>1. methods' # methods
    BY <1>2 DEF Listed, listAccounts, ListAccounts, FindByUserID, listSavedCards, ListCards, FindCardsByUserID,
                Active, Saved
  <2>2. MethodsNext
    BY <1>2, <2>1 DEF Next, vars, methodVars
  <2> QED BY <1>2, <2>2, SoundParts, RevivedByAStaleUpdate
<1>3. ASSUME BackofficeInvariant, [Next]_vars PROVE NoticesAdvance
  <2>1. CASE UNCHANGED notificacoes
    BY <2>1 DEF NoticesAdvance
  <2>2. CASE ~UNCHANGED notificacoes
    <3>1. NoticesNext
      BY <1>3, <2>2 DEF Next, vars, noticeVars
    <3> QED BY <1>3, <3>1, SoundParts, NoticesNextKeeps DEF NoticesKept
  <2> QED BY <2>1, <2>2
<1>4. ASSUME BackofficeInvariant, [Next]_vars, NEW s \in Slots, At(s, "replaceTemplate"),
             calls[s].seen = updated[calls[s].template], calls'[s] # calls[s], templates' # templates
      PROVE  templates'[calls[s].template].corpo = Sent(calls[s])
  <2>1. NoticesNext
    BY <1>4 DEF Next, vars, noticeVars
  <2> QED BY <1>4, <2>1, SoundParts, TextIsKept
<1>5. BackofficeInvariant /\ [Next]_vars
        => [\A p \in Payments :
              PaymentExists(p) /\ IsPago(p) /\ pagamentos'[p] \notin {pagamentos[p], Erased}
                => \E s \in Slots : At(s, "replacePagamento") /\ calls[s].payment = p /\ calls[s].seen # "PAGO"
           ]_<<pagamentos, calls>>
  BY <1>1
<1>6. BackofficeInvariant /\ [Next]_vars
        => [\A m \in Accounts \cup Cards :
              Saved(m) /\ m \notin Listed /\ m \in Listed'
                => m \in Accounts /\ \E s \in Slots : At(s, "replace") /\ calls[s].method = m]_<<methods, calls>>
  BY <1>2
<1>7. BackofficeInvariant /\ [Next]_vars
        => [\A n \in Notices :
              /\ notificacoes[n] = Dropped => notificacoes'[n] = Dropped
              /\ NoticeExists(n) /\ notificacoes[n].lida # 0 =>
                   notificacoes'[n] = Dropped \/ notificacoes'[n].lida # 0]_notificacoes
  BY <1>3 DEF NoticesAdvance
<1>8. BackofficeInvariant /\ [Next]_vars
        => [\A s \in Slots :
              LET c == calls[s] IN
              At(s, "replaceTemplate") /\ c.seen = updated[c.template] /\ calls'[s] # c /\ templates' # templates
                => templates'[c.template].corpo = IF c.corpo = 0 THEN templates[c.template].corpo ELSE c.corpo
           ]_<<noticeVars, calls>>
  BY <1>4 DEF Sent
<1>9. Spec => PaidIsEditedOnlyByAStaleCopy
  BY <1>5, BackofficeIsInvariant, PTL DEF Spec, PaidIsEditedOnlyByAStaleCopy
<1>10. Spec => OnlyAStaleUpdateRevives
  BY <1>6, BackofficeIsInvariant, PTL DEF Spec, OnlyAStaleUpdateRevives
<1>11. Spec => NoticesOnlyAdvance
  BY <1>7, BackofficeIsInvariant, PTL DEF Spec, NoticesOnlyAdvance
<1>12. Spec => AloneKeepsTheText
  BY <1>8, BackofficeIsInvariant, PTL DEF Spec, AloneKeepsTheText
<1> QED BY <1>9, <1>10, <1>11, <1>12 DEF OnlyStaleCopiesUndo

-----------------------------------------------------------------------------
(* Notifications.  What the list shows follows from the state alone.       *)

LEMMA NewestFirstIs ==
  ASSUME NEW S \in SUBSET Notices
  PROVE  IsFiniteSet(S) /\ S \in SUBSET Nat /\ Descends(NewestFirst(S), Cardinality(S), S)
<1>1. IsFiniteSet(S) /\ S \in SUBSET Nat
  BY NotificationsAssumption, FS_Subset
<1>2. PICK order : Descends(order, Cardinality(S), S)
  BY <1>1, DescendingExists
<1>3. order \in [1..Cardinality(S) -> S] /\ \A i, j \in DOMAIN order : i < j => order[i] > order[j]
  BY <1>2 DEF Descends
<1> QED BY <1>1, <1>3 DEF Descends, NewestFirst

LEMMA OnePage ==
  ASSUME NEW u, NEW p \in Nat \ {0}, NEW all, all = NewestFirst(OfUser(u)), Len(all) \in Nat
  PROVE  list(u, p) = SubSeq(all, (p - 1) * NoticePage + 1, Lesser(p * NoticePage, Len(all)))
<1>1. list(u, p) = PageFrom(all, (p - 1) * NoticePage)
  BY DEF list, ListNotificacoes, FindByUsuarioID
<1>2. (p - 1) * NoticePage + NoticePage = p * NoticePage
  BY NotificationsAssumption
<1> QED BY <1>1, <1>2 DEF PageFrom, Lesser

LEMMA PagesShowAll ==
  ASSUME NEW u, NEW all, all = NewestFirst(OfUser(u)), Descends(all, Cardinality(OfUser(u)), OfUser(u)),
         NEW pages, pages = [page \in 1..Cardinality(Notices) |-> list(u, page)]
  PROVE  FlattenSeq(pages) = all
<1>0. OfUser(u) \in SUBSET Notices
  BY DEF OfUser
<1>1. OfUser(u) \in SUBSET Nat /\ IsFiniteSet(OfUser(u))
  BY <1>0, NewestFirstIs
<1>2. all \in Seq(OfUser(u)) /\ Len(all) = Cardinality(OfUser(u))
  BY <1>1, DescendingMeetsAll
<1>3. /\ Cardinality(OfUser(u)) \in Nat /\ Cardinality(Notices) \in Nat
      /\ Cardinality(OfUser(u)) <= Cardinality(Notices)
  BY <1>0, NotificationsAssumption, FS_Subset, FS_CardinalityType
<1>4. PICK k \in Nat, size \in Nat \ {0} : k = Cardinality(Notices) /\ size = NoticePage
  BY <1>3, NotificationsAssumption
<1>5. k * size >= Len(all)
  <2>1. k * size >= k
    BY <1>4
  <2> QED BY <1>2, <1>3, <1>4, <2>1
<1>6. \A p \in 1..k : pages[p] = SubSeq(all, (p - 1) * size + 1, Lesser(p * size, Len(all)))
  <2>1. ASSUME NEW p \in 1..k
        PROVE  pages[p] = SubSeq(all, (p - 1) * size + 1, Lesser(p * size, Len(all)))
    <3>1. pages[p] = list(u, p) /\ p \in Nat \ {0} /\ Len(all) \in Nat
      BY <1>2, <1>3, <1>4
    <3> QED BY <1>4, <3>1, OnePage
  <2> QED BY <2>1
<1>7. ArePages(pages, all, size, k)
  BY <1>4, <1>5, <1>6 DEF ArePages
<1> QED BY <1>2, <1>4, <1>7, PagesMeetAll

LEMMA BadgeAgrees == BadgeAgreesWithPages
<1> SUFFICES ASSUME NEW u \in Users,
                    NEW pages, pages = FlattenSeq([page \in 1..Cardinality(Notices) |-> list(u, page)])
             PROVE  /\ IsInjective(pages) /\ ToSet(pages) = OfUser(u) /\ list(u, 0) = list(u, 1)
                    /\ countUnread(u) = Cardinality({i \in DOMAIN pages : notificacoes[pages[i]].lida = 0})
  BY DEF BadgeAgreesWithPages
<1>1. OfUser(u) \in SUBSET Notices
  BY DEF OfUser
<1>2. PICK all : all = NewestFirst(OfUser(u))
  OBVIOUS
<1>3. OfUser(u) \in SUBSET Nat /\ IsFiniteSet(OfUser(u)) /\ Descends(all, Cardinality(OfUser(u)), OfUser(u))
  BY <1>1, <1>2, NewestFirstIs
<1>4. pages = all
  BY <1>2, <1>3, PagesShowAll
<1>5. /\ IsInjective(pages) /\ ToSet(pages) = OfUser(u)
  BY <1>3, <1>4, DescendingMeetsAll
<1>6. list(u, 0) = list(u, 1)
  BY DEF list
<1>7. FindUnreadByUsuarioID(u) \in SUBSET OfUser(u)
  BY DEF FindUnreadByUsuarioID
<1>8. countUnread(u) = Cardinality({i \in DOMAIN pages : pages[i] \in FindUnreadByUsuarioID(u)})
  <2>1. PICK T \in SUBSET OfUser(u) : T = FindUnreadByUsuarioID(u)
    BY <1>7
  <2>2. Cardinality(T) = Cardinality({i \in DOMAIN all : all[i] \in T})
    BY <1>3, PositionsAreEntries
  <2> QED BY <1>4, <2>1, <2>2 DEF countUnread, CountUnread
<1>9. \A i \in DOMAIN pages : pages[i] \in FindUnreadByUsuarioID(u) <=> notificacoes[pages[i]].lida = 0
  BY <1>5 DEF ToSet, FindUnreadByUsuarioID
<1>10. {i \in DOMAIN pages : pages[i] \in FindUnreadByUsuarioID(u)}
         = {i \in DOMAIN pages : notificacoes[pages[i]].lida = 0}
  BY <1>9
<1> QED BY <1>5, <1>6, <1>8, <1>10

\* Whatever was created, read, erased or marked in between: the pages of a user show each
\* notification of his once, and the badge counts the unread ones among them.
THEOREM BadgesAgreeWithPages == Spec => []BadgeAgreesWithPages
<1>1. BadgeAgreesWithPages
  BY BadgeAgrees
<1> QED BY <1>1, PTL

=============================================================================
