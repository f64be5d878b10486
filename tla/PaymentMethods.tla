--------------------------- MODULE PaymentMethods ----------------------------
(***************************************************************************)
(* Payment accounts and saved cards: documents of one user each, at most   *)
(* one of which is meant to be the default.  The two collections differ in *)
(* what their use cases read first: an account is looked up and its owner  *)
(* checked, a card is written by id alone.                                 *)
(***************************************************************************)
EXTENDS Handlers

CONSTANTS
  Accounts, Cards,  \* ids drawn for documents, never drawn twice
  NewMethod         \* an id not drawn yet

VARIABLE methods
methodVars == <<methods>>

Method == [owner: Users, isDefault: BOOLEAN, isActive: BOOLEAN]

ASSUME PaymentMethodsAssumption == Accounts \cap Cards = {} /\ NewMethod \notin Method

MethodsInit == methods = [m \in Accounts \cup Cards |-> NewMethod]
MethodsTypeOK == methods \in [Accounts \cup Cards -> Method \cup {NewMethod}]

MethodsCall(op) ==
  CASE op = "create" -> [op: {op}, user: Users, isDefault: BOOLEAN]
    [] op = "replace" -> [op: {op}, user: Users, method: Accounts, copy: Method]
    [] op \in {"clear", "delete"} -> [op: {op}, user: Users, method: Accounts]
    [] op = "set" -> [op: {op}, user: Users, method: Accounts \cup Cards]
    [] OTHER -> {}

Saved(m) == methods[m] # NewMethod

-----------------------------------------------------------------------------
(* Repository methods; collection is Accounts or Cards.                    *)

Active(u) == {m \in DOMAIN methods : Saved(m) /\ methods[m].owner = u /\ methods[m].isActive}
FindByUserID(u) == Accounts \cap Active(u)
FindCardsByUserID(u) == Cards \cap Active(u)
SaveMethod(m, u, default) ==
  methods' = [methods EXCEPT ![m] = [owner |-> u, isDefault |-> default, isActive |-> TRUE]]
\* ReplaceOne: the whole copy, flags included.
ReplaceAccount(m, copy) == methods' = [methods EXCEPT ![m] = copy]
\* Mutant: nothing is cleared.
KeepDefaults(collection, u) == UNCHANGED methods
\* UpdateMany, deleted documents included.
ClearDefaults(collection, u) ==
  methods' = [m \in DOMAIN methods |->
                IF m \in collection /\ Saved(m) /\ methods[m].owner = u
                  THEN [methods[m] EXCEPT !.isDefault = FALSE] ELSE methods[m]]
\* UpdateOne by _id.
MarkDefault(m) == methods' = [methods EXCEPT ![m].isDefault = TRUE]
SoftDelete(m) == methods' = [methods EXCEPT ![m].isActive = FALSE]

-----------------------------------------------------------------------------
(* Use cases on accounts.  None of them looks at isActive.                 *)

Owns(u, m) == Saved(m) /\ methods[m].owner = u

ListAccounts(u) == FindByUserID(u)

\* The first account is the default.
CreateAccount(s, u) ==
  /\ Begin(s, [op |-> "create", user |-> u, isDefault |-> FindByUserID(u) = {}])
  /\ UNCHANGED methods
StoreAccount(s) ==
  /\ At(s, "create")
  /\ \E m \in Accounts : ~Saved(m) /\ SaveMethod(m, calls[s].user, calls[s].isDefault)
  /\ Finish(s)

UpdateAccount(s, u, m) ==
  /\ Owns(u, m)
  /\ Begin(s, [op |-> "replace", user |-> u, method |-> m, copy |-> methods[m]]) /\ UNCHANGED methods
StoreCopy(s) == At(s, "replace") /\ ReplaceAccount(calls[s].method, calls[s].copy) /\ Finish(s)

SetDefaultAccount(s, u, m) ==
  /\ Owns(u, m)
  /\ Begin(s, [op |-> "clear", user |-> u, method |-> m]) /\ UNCHANGED methods
ClearOthers(s) ==
  /\ At(s, "clear") /\ ClearDefaults(Accounts, calls[s].user)
  /\ Continue(s, [calls[s] EXCEPT !.op = "set"])
\* The second update, of an account or of a card; a card that is not there is an error.
SetTarget(s) ==
  /\ At(s, "set")
  /\ IF Saved(calls[s].method) THEN MarkDefault(calls[s].method) ELSE UNCHANGED methods
  /\ Finish(s)

DeleteAccount(s, u, m) ==
  /\ Owns(u, m)
  /\ Begin(s, [op |-> "delete", user |-> u, method |-> m]) /\ UNCHANGED methods
StoreDeletion(s) == At(s, "delete") /\ SoftDelete(calls[s].method) /\ Finish(s)

-----------------------------------------------------------------------------
(* Use cases on cards.                                                     *)

ListCards(u) == FindCardsByUserID(u)

\* A charge that was asked to keep the card; never the default.
SaveCard(s, u) ==
  /\ At(s, "none") /\ served < MaxRequests
  /\ \E m \in Cards : ~Saved(m) /\ SaveMethod(m, u, FALSE)
  /\ served' = served + 1 /\ UNCHANGED calls
\* The user scopes the first update, the card the second; no card is read before them.
SetDefaultCard(s, u, m) ==
  /\ ClearDefaults(Cards, u)
  /\ Begin(s, [op |-> "set", user |-> u, method |-> m])
DeleteCard(s, u, m) ==
  /\ At(s, "none") /\ served < MaxRequests
  /\ Saved(m) /\ SoftDelete(m)
  /\ served' = served + 1 /\ UNCHANGED calls

-----------------------------------------------------------------------------
(* Handlers.                                                               *)

listAccounts(u) == ListAccounts(u)
listSavedCards(u) == ListCards(u)
createAccount(s, u) == CreateAccount(s, u)
updateAccount(s, u) == \E m \in Accounts : UpdateAccount(s, u, m)
setDefaultAccount(s, u) == \E m \in Accounts : SetDefaultAccount(s, u, m)
deleteAccount(s, u) == \E m \in Accounts : DeleteAccount(s, u, m)
setDefaultSavedCard(s, u) == \E m \in Cards : SetDefaultCard(s, u, m)
deleteSavedCard(s, u) == \E m \in Cards : DeleteCard(s, u, m)

MethodsRequest(s, u) ==
  \/ createAccount(s, u) \/ updateAccount(s, u) \/ setDefaultAccount(s, u) \/ deleteAccount(s, u)
  \/ SaveCard(s, u) \/ setDefaultSavedCard(s, u) \/ deleteSavedCard(s, u)
MethodsStep(s) == StoreAccount(s) \/ StoreCopy(s) \/ ClearOthers(s) \/ SetTarget(s) \/ StoreDeletion(s)
MethodsNext == \E s \in Slots : (\E u \in Users : MethodsRequest(s, u)) \/ MethodsStep(s)

-----------------------------------------------------------------------------

Defaults(u) == {m \in listAccounts(u) : methods[m].isDefault}
Listed == UNION {listAccounts(u) \cup listSavedCards(u) : u \in Users}

\* A user never has more default accounts than handlers can be at work at once: every
\* default beyond the first comes from a handler that overlapped the last clearing.
DefaultsOverlapIsBounded == \A u \in Users : Cardinality(Defaults(u)) <= Cardinality(Slots)

\* A deleted method is listed again only by an update of the account that had read it
\* before the deletion: choosing it as the default does not revive it, and a card never
\* comes back.
OnlyAStaleUpdateRevives ==
  [][\A m \in Accounts \cup Cards :
       Saved(m) /\ m \notin Listed /\ m \in Listed'
         => m \in Accounts /\ \E s \in Slots : At(s, "replace") /\ calls[s].method = m]_<<methods, calls>>

=============================================================================
