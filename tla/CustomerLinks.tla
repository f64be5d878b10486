---------------------------- MODULE CustomerLinks ----------------------------
(***************************************************************************)
(* The provider's customer of a user: looked up in asaas_customer_links,   *)
(* then at the provider, then created there, and remembered in the link.   *)
(* Both kinds of payment request begin with it.  The provider admits any   *)
(* number of customers with one externalReference.                         *)
(***************************************************************************)
EXTENDS Handlers

CONSTANT MaxPosts      \* attempts of one POST /customers, maxRetries in the client

ASSUME CustomerLinksAssumption == MaxPosts \in Nat \ {0}

VARIABLES
  customers,     \* how many customers the provider has for each user
  links          \* which of them the link of the user names, 0 without a link
customerVars == <<customers, links>>

CustomersInit == customers = [u \in Users |-> 0] /\ links = [u \in Users |-> 0]
CustomersTypeOK == customers \in [Users -> Nat] /\ links \in [Users -> Nat]

CustomersCall(op) ==
  CASE op = "listCustomers" -> [op: {op}, user: Users]
    [] op = "postCustomer" -> [op: {op}, user: Users, attempt: 1..MaxPosts]
    [] op = "saveLink" -> [op: {op}, user: Users, customer: Nat]
    [] OTHER -> {}

FindLink(u) == links[u]
\* ReplaceOne by user id with upsert: the last of several links stays.
SaveLink(u, c) == links' = [links EXCEPT ![u] = c]
AddCustomer(u) == customers' = [customers EXCEPT ![u] = @ + 1]

-----------------------------------------------------------------------------

\* A user with a link is given its customer and nothing changes.
getOrCreateCustomer(s, u) ==
  /\ FindLink(u) = 0
  /\ Begin(s, [op |-> "listCustomers", user |-> u]) /\ UNCHANGED customerVars

PostNext(s) == Continue(s, [op |-> "postCustomer", user |-> calls[s].user, attempt |-> 1])
\* Mutant: the provider is not asked first.
CreateUnasked(s) == At(s, "listCustomers") /\ PostNext(s) /\ UNCHANGED customerVars
\* The first customer of the provider's list, whose order is the provider's.
ListCustomers(s) ==
  LET known == 1..customers[calls[s].user] IN
  /\ At(s, "listCustomers")
  /\ \/ known = {} /\ PostNext(s)
     \/ \E c \in known : Continue(s, [op |-> "saveLink", user |-> calls[s].user, customer |-> c])
  /\ UNCHANGED customerVars

CreateCustomer(s) ==
  LET u == calls[s].user IN
  /\ At(s, "postCustomer") /\ AddCustomer(u)
  /\ Continue(s, [op |-> "saveLink", user |-> u, customer |-> customers[u] + 1]) /\ UNCHANGED links
\* The customer exists, the answer is lost: the client posts again, and gives up in the end.
LoseCustomerAnswer(s) ==
  /\ At(s, "postCustomer") /\ AddCustomer(calls[s].user)
  /\ IF calls[s].attempt < MaxPosts
       THEN Continue(s, [calls[s] EXCEPT !.attempt = @ + 1])
       ELSE Finish(s)
  /\ UNCHANGED links

\* A failure to save it is not one of the payment: the request goes on without a link.
StoreLink(s) ==
  At(s, "saveLink") /\ SaveLink(calls[s].user, calls[s].customer) /\ Finish(s) /\ UNCHANGED customers

CustomersNext ==
  \E s \in Slots :
    \/ \E u \in Users : getOrCreateCustomer(s, u)
    \/ ListCustomers(s) \/ CreateCustomer(s) \/ LoseCustomerAnswer(s) \/ StoreLink(s)

-----------------------------------------------------------------------------

\* A user has at most one customer for every attempt of the handlers that can be at work
\* at once, whatever links were lost on the way: whoever comes later finds one of them at
\* the provider.  And a link names a customer that exists.
CustomersAreBounded ==
  \A u \in Users :
    /\ customers[u] <= Cardinality(Slots) * MaxPosts
    /\ links[u] \in 0..customers[u]

=============================================================================
