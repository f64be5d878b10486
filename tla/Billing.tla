------------------------------ MODULE Billing -------------------------------
(***************************************************************************)
(* Monthly payments of an event, confirmed by hand, and the payment        *)
(* configuration of the event, whose fees are copied into every charge.    *)
(* The configurations are shared with the Java backend, which names the    *)
(* event under another key.                                                *)
(***************************************************************************)
EXTENDS Handlers

CONSTANTS
  Payments,      \* ids drawn for monthly payments
  NewPayment,    \* an id not drawn yet
  Erased,        \* a payment that was deleted
  Configs,       \* numbers drawn for configurations, in the order they are inserted
  NewConfig      \* a number not drawn yet

VARIABLES pagamentos, configs
billingVars == <<pagamentos, configs>>

StatusPagamento == {"PENDENTE", "PAGO", "VENCIDO"}
Pagamento == [owner: Users, status: StatusPagamento, edited: BOOLEAN]
\* Fee schedules and versions are named by the request that brought them; 0 is no fee and
\* the empty version.  keys: the names under which the document holds the event.
Schedules == 0..MaxRequests
Config == [keys: SUBSET {"evento_id", "eventoId"}, fees: Schedules, version: Schedules]
NoConfig == [keys |-> {}, fees |-> 0, version |-> 0]

ASSUME BillingAssumption ==
  /\ {NewPayment, Erased} \cap Pagamento = {} /\ NewPayment # Erased
  /\ Configs \subseteq Nat /\ NewConfig \notin Config

BillingInit ==
  /\ pagamentos = [p \in Payments |-> NewPayment]
  /\ configs = [c \in Configs |-> NewConfig]

BillingTypeOK ==
  /\ pagamentos \in [Payments -> Pagamento \cup {NewPayment, Erased}]
  /\ configs \in [Configs -> Config \cup {NewConfig}]

BillingCall(op) ==
  CASE op = "replacePagamento" -> [op: {op}, payment: Payments, copy: Pagamento, seen: StatusPagamento]
    [] op = "deletePagamento" -> [op: {op}, payment: Payments]
    [] op = "replaceConfig" -> [op: {op}, config: Configs, copy: Config]
    [] op = "saveConfig" -> [op: {op}, copy: Config]
    [] OTHER -> {}

PaymentExists(p) == pagamentos[p] \notin {NewPayment, Erased}
ConfigExists(c) == configs[c] # NewConfig

-----------------------------------------------------------------------------
(* Repository methods.                                                     *)

\* Mutant: the initial status is left out.
SavePagamentoWithoutStatus(p, u) ==
  pagamentos' = [pagamentos EXCEPT ![p] = [owner |-> u, status |-> "", edited |-> FALSE]]
SavePagamento(p, u) ==
  pagamentos' = [pagamentos EXCEPT ![p] = [owner |-> u, status |-> "PENDENTE", edited |-> FALSE]]
\* ReplaceOne by id: no upsert, and no look at the matched count.
ReplacePagamento(p, copy) ==
  pagamentos' = IF PaymentExists(p) THEN [pagamentos EXCEPT ![p] = copy] ELSE pagamentos
DeletePagamentoByID(p) ==
  pagamentos' = IF PaymentExists(p) THEN [pagamentos EXCEPT ![p] = Erased] ELSE pagamentos

\* FindOne under either key: the first document inserted.
Found == {c \in Configs : ConfigExists(c) /\ configs[c].keys # {}}
FindByEventoID == {c \in Found : \A d \in Found : c <= d}
\* Decoding reads evento_id only.
Decoded(config) == [config EXCEPT !.keys = @ \cap {"evento_id"}]
NextConfig(c) == ~ConfigExists(c) /\ \A d \in Configs : d < c => ConfigExists(d)
SaveConfig(c, copy) == configs' = [configs EXCEPT ![c] = copy]
\* Mutant: the event is not encoded.
ReplaceConfigWithoutEvent(c, copy) == configs' = [configs EXCEPT ![c] = [copy EXCEPT !.keys = {}]]
ReplaceConfig(c, copy) == configs' = [configs EXCEPT ![c] = copy]
BulkUpdateFeeFields(fees, version) ==
  configs' = [c \in Configs |->
                IF ConfigExists(c) THEN [configs[c] EXCEPT !.fees = fees, !.version = version]
                ELSE NewConfig]

-----------------------------------------------------------------------------
(* Use cases.                                                              *)

IsOwner(u, p) == PaymentExists(p) /\ pagamentos[p].owner = u
IsPago(p) == pagamentos[p].status = "PAGO"
CanPay(p) == pagamentos[p].status \in {"PENDENTE", "VENCIDO"}

CreatePagamento(s, u, p) ==
  /\ At(s, "none") /\ served < MaxRequests
  /\ pagamentos[p] = NewPayment /\ SavePagamento(p, u)
  /\ served' = served + 1 /\ UNCHANGED <<calls, configs>>

WriteBack(s, p, copy) ==
  /\ Begin(s, [op |-> "replacePagamento", payment |-> p, copy |-> copy, seen |-> pagamentos[p].status])
  /\ UNCHANGED billingVars
\* Mutant: a paid payment may be edited.
UpdateAnyPagamento(s, u, p) ==
  IsOwner(u, p) /\ WriteBack(s, p, [pagamentos[p] EXCEPT !.edited = TRUE])
UpdatePagamento(s, u, p) ==
  IsOwner(u, p) /\ ~IsPago(p) /\ WriteBack(s, p, [pagamentos[p] EXCEPT !.edited = TRUE])
ConfirmarPagamento(s, u, p) ==
  IsOwner(u, p) /\ CanPay(p) /\ WriteBack(s, p, [pagamentos[p] EXCEPT !.status = "PAGO"])
StorePagamento(s) ==
  /\ At(s, "replacePagamento") /\ ReplacePagamento(calls[s].payment, calls[s].copy)
  /\ Finish(s) /\ UNCHANGED configs

\* The status is not looked at.
DeletePagamento(s, u, p) ==
  IsOwner(u, p) /\ Begin(s, [op |-> "deletePagamento", payment |-> p]) /\ UNCHANGED billingVars
ErasePagamento(s) ==
  At(s, "deletePagamento") /\ DeletePagamentoByID(calls[s].payment) /\ Finish(s) /\ UNCHANGED configs

\* The label names a fresh version unless there are no fees; fees is 0 or this request's.
buildFeePolicyVersion(fees) == IF fees = 0 THEN 0 ELSE served + 1
\* Mutant: the label of an existing configuration is kept.
ApplyFeesKeepingLabel(config, fees) ==
  [config EXCEPT !.fees = fees,
                 !.version = IF @ = 0 THEN buildFeePolicyVersion(fees) ELSE @]
\* Without fees the label stays what it was.
ApplyFees(config, fees) ==
  [config EXCEPT !.fees = fees,
                 !.version = IF fees = 0 THEN @ ELSE buildFeePolicyVersion(fees)]
\* Any failure to find the configuration leads to a new one.
UpsertConfigPagamento(s, fees) ==
  /\ \/ \E c \in FindByEventoID :
          Begin(s, [op |-> "replaceConfig", config |-> c, copy |-> ApplyFees(Decoded(configs[c]), fees)])
     \/ Begin(s, [op |-> "saveConfig", copy |-> ApplyFees([NoConfig EXCEPT !.keys = {"evento_id"}], fees)])
  /\ UNCHANGED billingVars
StoreConfig(s) ==
  /\ \/ At(s, "replaceConfig") /\ ReplaceConfig(calls[s].config, calls[s].copy)
     \/ At(s, "saveConfig") /\ \E c \in Configs : NextConfig(c) /\ SaveConfig(c, calls[s].copy)
  /\ Finish(s) /\ UNCHANGED pagamentos

ReaplicarFeePolicySnapshot(s, fees) ==
  /\ At(s, "none") /\ served < MaxRequests
  /\ BulkUpdateFeeFields(fees, served + 1)
  /\ served' = served + 1 /\ UNCHANGED <<calls, pagamentos>>

\* What a charge is stamped with; 0 as its source is the global policy.
ResolveSnapshot ==
  {IF configs[c].version = 0 /\ configs[c].fees = 0 THEN [source |-> 0, fees |-> 0, version |-> 0]
   ELSE [source |-> c, fees |-> configs[c].fees, version |-> configs[c].version] : c \in FindByEventoID}

-----------------------------------------------------------------------------
(* Handlers, and what the Java backend writes.                             *)

createPagamento(s, u) == \E p \in Payments : CreatePagamento(s, u, p)
updatePagamento(s, u) == \E p \in Payments : UpdatePagamento(s, u, p)
deletePagamento(s, u) == \E p \in Payments : DeletePagamento(s, u, p)
confirmarPagamento(s, u) == \E p \in Payments : ConfirmarPagamento(s, u, p)
upsertConfig(s) == \E fees \in {0, served + 1} : UpsertConfigPagamento(s, fees)
reaplicarFeePolicy(s) == \E fees \in {0, served + 1} : ReaplicarFeePolicySnapshot(s, fees)

\* A payment is overdue; a configuration is created, with the request the bound counts.
Vencer ==
  /\ \E p \in Payments : /\ PaymentExists(p) /\ pagamentos[p].status = "PENDENTE"
                         /\ pagamentos' = [pagamentos EXCEPT ![p].status = "VENCIDO"]
  /\ UNCHANGED <<handlerVars, configs>>
JavaConfig ==
  /\ served < MaxRequests
  /\ \E c \in Configs : NextConfig(c) /\ SaveConfig(c, [keys |-> {"eventoId"}, fees |-> 0, version |-> 0])
  /\ served' = served + 1 /\ UNCHANGED <<calls, pagamentos>>

BillingRequest(s) ==
  \/ \E u \in Users : \/ createPagamento(s, u) \/ updatePagamento(s, u)
                      \/ deletePagamento(s, u) \/ confirmarPagamento(s, u)
  \/ upsertConfig(s) \/ reaplicarFeePolicy(s)
BillingStep(s) == StorePagamento(s) \/ ErasePagamento(s) \/ StoreConfig(s)
BillingNext == (\E s \in Slots : BillingRequest(s) \/ BillingStep(s)) \/ Vencer \/ JavaConfig

-----------------------------------------------------------------------------

\* A payment that was confirmed is changed only by a handler that read it before the
\* confirmation: no update that starts later edits it, and only such a stale copy can
\* take the confirmation back.
PaidIsEditedOnlyByAStaleCopy ==
  [][\A p \in Payments :
       PaymentExists(p) /\ IsPago(p) /\ pagamentos'[p] \notin {pagamentos[p], Erased}
         => \E s \in Slots : At(s, "replacePagamento") /\ calls[s].payment = p /\ calls[s].seen # "PAGO"
    ]_<<pagamentos, calls>>

\* The version stamped on a charge names the fees stamped with it, or fees that were
\* reset to zero since: two upserts, or an upsert and a bulk reapplication, never leave
\* the label of one with the fees of the other.
VersionNamesItsFees ==
  \A snapshot \in ResolveSnapshot : snapshot.version # 0 => snapshot.fees \in {0, snapshot.version}

\* The configuration of an event is found for good once this backend inserted one; what
\* makes it disappear is an upsert over a document that only holds Java's key.
FoundConfigIsLostOnlyByJavaKey ==
  [][Found # {} /\ Found' = {} => \A c \in Found : "evento_id" \notin configs[c].keys]_configs

=============================================================================
