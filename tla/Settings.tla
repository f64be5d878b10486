------------------------------ MODULE Settings ------------------------------
(***************************************************************************)
(* Lookup values (dominios) and system settings.  Both are meant to have   *)
(* one document for a key and neither collection has a unique index: a     *)
(* lookup value is replaced by id, a setting by key.                       *)
(***************************************************************************)
EXTENDS Handlers

CONSTANTS
  Dominios,      \* numbers drawn for the lookup values of one category and key
  Chaves,        \* keys of settings
  Copies,        \* documents a key may have, in the order they are inserted
  NoDocument     \* no document

VARIABLES
  dominios,      \* the lookup value each document holds
  settings       \* the value each document of each key holds
settingsVars == <<dominios, settings>>

Valores == 1..MaxRequests      \* a value is named by the request that brought it

ASSUME SettingsAssumption == Dominios \subseteq Nat /\ Copies \subseteq Nat /\ NoDocument \notin Valores

SettingsInit ==
  /\ dominios = [d \in Dominios |-> NoDocument]
  /\ settings = [k \in Chaves |-> [c \in Copies |-> NoDocument]]

SettingsTypeOK ==
  /\ dominios \in [Dominios -> Valores \cup {NoDocument}]
  /\ settings \in [Chaves -> [Copies -> Valores \cup {NoDocument}]]

SettingsCall(op) ==
  CASE op = "insertSetting" -> [op: {op}, chave: Chaves, valor: Valores]
    [] op = "readSetting" -> [op: {op}, chave: Chaves]
    [] OTHER -> {}

-----------------------------------------------------------------------------
(* Repository methods.                                                     *)

\* ReplaceOne by id with upsert: a deleted id comes back.  Without an id a new one is drawn.
SaveDominio(d, valor) == dominios' = [dominios EXCEPT ![d] = valor]
DeleteDominioByID(d) == dominios[d] # NoDocument /\ dominios' = [dominios EXCEPT ![d] = NoDocument]

DocumentsOf(k) == {c \in Copies : settings[k][c] # NoDocument}
\* FindOne: the first document inserted.
FindByChave(k) == {c \in DocumentsOf(k) : \A d \in DocumentsOf(k) : c <= d}
PutSetting(k, c, valor) == settings' = [settings EXCEPT ![k][c] = valor]
\* Mutant: the filter of the upsert matches nothing.
MatchNothing(k) == {}
\* What the filter {chave} of the upsert matches.
MatchByChave(k) == FindByChave(k)
NextCopy(k) == {c \in Copies \ DocumentsOf(k) : \A d \in Copies : d < c => d \in DocumentsOf(k)}

-----------------------------------------------------------------------------
(* Use cases.                                                              *)

UpsertDominio(d) ==
  /\ served < MaxRequests /\ SaveDominio(d, served + 1)
  /\ served' = served + 1 /\ UNCHANGED <<calls, settings>>
DeleteDominio(d) ==
  /\ served < MaxRequests /\ DeleteDominioByID(d)
  /\ served' = served + 1 /\ UNCHANGED <<calls, settings>>

\* Without a unique index the server matches first and inserts afterwards.
UpsertConfigSistema(s, k) ==
  /\ \/ \E c \in MatchByChave(k) : PutSetting(k, c, served + 1) /\ Begin(s, [op |-> "readSetting", chave |-> k])
     \/ /\ MatchByChave(k) = {}
        /\ Begin(s, [op |-> "insertSetting", chave |-> k, valor |-> served + 1]) /\ UNCHANGED settings
  /\ UNCHANGED dominios
InsertSetting(s) ==
  LET k == calls[s].chave IN
  /\ At(s, "insertSetting")
  /\ \E c \in NextCopy(k) : PutSetting(k, c, calls[s].valor)
  /\ Continue(s, [op |-> "readSetting", chave |-> k]) /\ UNCHANGED dominios
\* The answer is what FindByChave returns.
ReadSetting(s) == At(s, "readSetting") /\ Finish(s) /\ UNCHANGED settingsVars

-----------------------------------------------------------------------------
(* Handlers: POST draws an id, PUT and DELETE name one.                    *)

UpsertDominioHandler(s) == At(s, "none") /\ \E d \in Dominios : UpsertDominio(d)
DeleteDominioHandler(s) == At(s, "none") /\ \E d \in Dominios : DeleteDominio(d)
UpsertConfigSistemaHandler(s) == \E k \in Chaves : UpsertConfigSistema(s, k)

SettingsRequest(s) == UpsertDominioHandler(s) \/ DeleteDominioHandler(s) \/ UpsertConfigSistemaHandler(s)
SettingsNext == \E s \in Slots : SettingsRequest(s) \/ InsertSetting(s) \/ ReadSetting(s)

-----------------------------------------------------------------------------

\* A key has at most as many documents as handlers can be at work at once: later upserts
\* all match the first document.
CopiesAreBounded == \A k \in Chaves : Cardinality(DocumentsOf(k)) <= Cardinality(Slots)

=============================================================================
