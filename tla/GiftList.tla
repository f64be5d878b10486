------------------------------ MODULE GiftList ------------------------------
(***************************************************************************)
(* The gift list of an event (lista_presentes): the organiser adds and     *)
(* removes items, guests reserve them.  granted counts the reservations    *)
(* guests were told about; the document holds a number only.               *)
(***************************************************************************)
EXTENDS Membership

CONSTANTS
  Gifts,             \* ids drawn for items, never drawn twice
  NewGift, Removed,  \* an id not drawn yet; an id whose document was deleted
  MaxQuantity        \* bound on the quantity an item is wanted in

ASSUME GiftAssumption ==
  /\ MaxQuantity \in Nat \ {0}
  /\ NewGift # Removed
  /\ {NewGift, Removed} \cap
     [quantidade: 1..MaxQuantity, reservado: Nat, status: {"DISPONIVEL", "RESERVADO"}] = {}

VARIABLES gifts, granted
giftVars == <<gifts, granted>>

\* ENTREGUE is never written by this backend.
Gift == [quantidade: 1..MaxQuantity, reservado: Nat, status: {"DISPONIVEL", "RESERVADO"}]
InList(g) == gifts[g] \notin {NewGift, Removed}

GiftInit == gifts = [g \in Gifts |-> NewGift] /\ granted = [g \in Gifts |-> 0]
GiftTypeOK == gifts \in [Gifts -> Gift \cup {NewGift, Removed}] /\ granted \in [Gifts -> Nat]

GiftCall(op) ==
  CASE op = "addGift" -> [op: {op}, user: {Organizer}, gift: Gifts, quantidade: 1..MaxQuantity]
    [] op = "reserve" -> [op: {op}, user: Users, gift: Gifts, status: {"DISPONIVEL", "RESERVADO"}, reservado: Nat]
    [] op = "removeGift" -> [op: {op}, user: {Organizer}, gift: Gifts]
    [] OTHER -> {}

-----------------------------------------------------------------------------
(* Repository methods.                                                     *)

SaveGift(g, q) ==
  gifts' = [gifts EXCEPT ![g] = [quantidade |-> q, reservado |-> 0, status |-> "DISPONIVEL"]]
\* By _id alone: the count is the caller's, not an increment.
UpdateStatus(g, status, n) == gifts' = [gifts EXCEPT ![g].status = status, ![g].reservado = n]
FindGifts == {g \in Gifts : InList(g)}
DeleteGift(g) == gifts' = [gifts EXCEPT ![g] = Removed]

-----------------------------------------------------------------------------
(* Use cases.                                                              *)

ListItems == [g \in FindGifts |-> gifts[g]]
CanReserve(gift) == gift.reservado < gift.quantidade

AddItem(s, u, g, q) ==
  /\ u = Organizer /\ gifts[g] = NewGift
  /\ ~\E t \in Slots : At(t, "addGift") /\ calls[t].gift = g
  /\ Begin(s, [op |-> "addGift", user |-> u, gift |-> g, quantidade |-> q]) /\ UNCHANGED giftVars
StoreItem(s) ==
  /\ At(s, "addGift") /\ SaveGift(calls[s].gift, calls[s].quantidade)
  /\ Finish(s) /\ UNCHANGED granted

\* Mutant: the count is not checked.
ReservarAnyItem(s, u, g) ==
  /\ InList(g)
  /\ LET n == gifts[g].reservado + 1 IN
     Begin(s, [op |-> "reserve", user |-> u, gift |-> g, reservado |-> n,
               status |-> IF n >= gifts[g].quantidade THEN "RESERVADO" ELSE "DISPONIVEL"])
  /\ UNCHANGED giftVars
\* The next count and status are computed from the item as read.
ReservarItem(s, u, g) ==
  /\ InList(g) /\ CanReserve(gifts[g])
  /\ LET n == gifts[g].reservado + 1 IN
     Begin(s, [op |-> "reserve", user |-> u, gift |-> g, reservado |-> n,
               status |-> IF n >= gifts[g].quantidade THEN "RESERVADO" ELSE "DISPONIVEL"])
  /\ UNCHANGED giftVars
\* An item removed in between is not found.
StoreReservation(s) ==
  LET c == calls[s] IN
  /\ At(s, "reserve")
  /\ IF InList(c.gift)
       THEN UpdateStatus(c.gift, c.status, c.reservado) /\ granted' = [granted EXCEPT ![c.gift] = @ + 1]
       ELSE UNCHANGED giftVars
  /\ Finish(s)

RemoveItem(s, u, g) ==
  /\ InList(g) /\ u = Organizer
  /\ Begin(s, [op |-> "removeGift", user |-> u, gift |-> g]) /\ UNCHANGED giftVars
DeleteItem(s) ==
  /\ At(s, "removeGift") /\ DeleteGift(calls[s].gift)
  /\ Finish(s) /\ UNCHANGED granted

-----------------------------------------------------------------------------
(* Handlers.                                                               *)

addItem(s, u) == \E g \in Gifts, q \in 1..MaxQuantity : AddItem(s, u, g, q)
reservarItem(s, u) == \E g \in Gifts : ReservarItem(s, u, g)
removeItem(s, u) == \E g \in Gifts : RemoveItem(s, u, g)

GiftRequest(s, u) == addItem(s, u) \/ reservarItem(s, u) \/ removeItem(s, u)
GiftWrite(s) == StoreItem(s) \/ StoreReservation(s) \/ DeleteItem(s)
GiftNext == \E s \in Slots : (\E u \in Users : GiftRequest(s, u)) \/ GiftWrite(s)

-----------------------------------------------------------------------------

\* However many reservations write a count they computed earlier, no item is listed with
\* more reservations than it was wanted in, nor than guests were told they have, and it
\* is RESERVADO exactly when it is full.
CountIsHonest ==
  \A g \in DOMAIN ListItems :
    LET item == ListItems[g] IN
    /\ item.reservado <= item.quantidade
    /\ item.reservado <= granted[g]
    /\ (item.status = "RESERVADO") = ~CanReserve(item)

=============================================================================
