------------------------------ MODULE Cofrinho ------------------------------
(***************************************************************************)
(* The piggy bank of an event: guests promise contributions, the payment   *)
(* webhook confirms them, and pending ones can be removed.                 *)
(***************************************************************************)
EXTENDS Handlers, Functions

CONSTANTS
  Contributions,        \* ids drawn for contributions, never drawn twice
  Valor,                \* the amount of each, in centavos
  NewContribution, Gone \* an id not drawn yet; an id whose document was deleted

ASSUME CofrinhoAssumption ==
  /\ IsFiniteSet(Contributions)
  /\ Valor \in [Contributions -> Nat \ {0}]
  /\ {NewContribution, Gone} \cap {"PENDENTE", "CONFIRMADO"} = {}

VARIABLE contributions
cofrinhoVars == <<contributions>>

\* EXPIRADO is never written by this backend.
CofrinhoStatus == {"PENDENTE", "CONFIRMADO"}
CofrinhoInit == contributions = [c \in Contributions |-> NewContribution]
CofrinhoTypeOK == contributions \in [Contributions -> CofrinhoStatus \cup {NewContribution, Gone}]

CofrinhoCall(op) ==
  CASE op = "confirm" -> [op: {op}, user: Users, contribution: Contributions]
    [] op = "removeContribution" ->
         [op: {op}, user: Users, contribution: Contributions, seen: {"PENDENTE"}]
    [] OTHER -> {}

-----------------------------------------------------------------------------
(* Repository methods.                                                     *)

SaveContribuicao(c) == contributions' = [contributions EXCEPT ![c] = "PENDENTE"]
\* By _id alone; a document that is gone is not found.
UpdateContribuicao(c, status) ==
  contributions' = [contributions EXCEPT ![c] = IF @ = Gone THEN Gone ELSE status]
FindContribuicoes == {c \in Contributions : contributions[c] \in CofrinhoStatus}
DeleteByID(c) == contributions' = [contributions EXCEPT ![c] = Gone]

-----------------------------------------------------------------------------
(* Use cases.                                                              *)

ListContribuicoes == [c \in FindContribuicoes |-> contributions[c]]

\* One write, no read.
CreateContribuicao(s, c) ==
  /\ At(s, "none") /\ served < MaxRequests
  /\ contributions[c] = NewContribution
  /\ SaveContribuicao(c)
  /\ served' = served + 1 /\ UNCHANGED calls

ConfirmarContribuicao(s, u, c) ==
  /\ contributions[c] = "PENDENTE"
  /\ Begin(s, [op |-> "confirm", user |-> u, contribution |-> c]) /\ UNCHANGED contributions
StoreConfirmation(s) ==
  At(s, "confirm") /\ UpdateContribuicao(calls[s].contribution, "CONFIRMADO") /\ Finish(s)

\* Mutant: the status is not looked at.
RemoverAnyContribuicao(s, u, c) ==
  /\ contributions[c] \in CofrinhoStatus
  /\ Begin(s, [op |-> "removeContribution", user |-> u, contribution |-> c, seen |-> contributions[c]]) /\ UNCHANGED contributions
\* Only a PENDENTE contribution may be removed.
RemoverContribuicao(s, u, c) ==
  /\ contributions[c] = "PENDENTE"
  /\ Begin(s, [op |-> "removeContribution", user |-> u, contribution |-> c, seen |-> contributions[c]]) /\ UNCHANGED contributions
\* The delete is by _id alone.
DeleteContribuicao(s) ==
  At(s, "removeContribution") /\ DeleteByID(calls[s].contribution) /\ Finish(s)

-----------------------------------------------------------------------------
(* Handlers.                                                               *)

createContribuicao(s) == \E c \in Contributions : CreateContribuicao(s, c)
confirmarContribuicao(s, u) == \E c \in Contributions : ConfirmarContribuicao(s, u, c)
removerContribuicao(s, u) == \E c \in Contributions : RemoverContribuicao(s, u, c)

\* listContribuicoes: the balance counts CONFIRMADO contributions.
Saldo ==
  LET listed == ListContribuicoes IN
  SumFunctionOnSet(Valor, {c \in DOMAIN listed : listed[c] = "CONFIRMADO"})

CofrinhoRequest(s, u) == createContribuicao(s) \/ confirmarContribuicao(s, u) \/ removerContribuicao(s, u)
CofrinhoWrite(s) == StoreConfirmation(s) \/ DeleteContribuicao(s)
CofrinhoNext == \E s \in Slots : (\E u \in Users : CofrinhoRequest(s, u)) \/ CofrinhoWrite(s)

-----------------------------------------------------------------------------

\* The balance of the event falls only by a removal that read the contribution while
\* it was pending, and then by that contribution alone: no removal that starts after
\* the confirmation takes it back, and no retried webhook counts it twice.
SaldoFallsOnlyToALateRemoval ==
  [][\/ Saldo' >= Saldo
     \/ \E s \in Slots : /\ At(s, "removeContribution") /\ calls[s].seen = "PENDENTE"
                       /\ Saldo' = Saldo - Valor[calls[s].contribution]]_<<contributions, calls>>

=============================================================================
