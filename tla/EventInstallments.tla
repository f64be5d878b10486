------------------------- MODULE EventInstallments --------------------------
(***************************************************************************)
(* The installments of one event as the /api/v1/installments endpoints see *)
(* them.  The collection holds documents of two shapes: those written by   *)
(* Go have string ids, those of the Java backend have binary UUIDs.  A     *)
(* filter on a string never matches a binary, so these endpoints and the   *)
(* finance screens read different documents of the same collection.        *)
(***************************************************************************)
EXTENDS Handlers

CONSTANTS
  Parcelas,              \* installments of the event
  TextIds,               \* those whose ids are strings
  Participants,          \* participant ids: participation records, or users directly
  Records,               \* the participation records of the event
  ParcelaOf,             \* the participant id of an installment
  ParticipationsOf,      \* the participation records of a user in the event
  EventOwner             \* the organiser

VARIABLE parcelas        \* status of each installment, whether the date it was paid is stored,
                         \* and whether its money is still held

Unpaid == {"PENDING", "OVERDUE"}
ParcelaStatus == Unpaid \cup {"PAID", "CANCELLED"}

ASSUME InstallmentsAssumption ==
  /\ IsFiniteSet(Parcelas) /\ IsFiniteSet(Participants)
  /\ TextIds \subseteq Parcelas
  /\ ParcelaOf \in [Parcelas -> Participants]
  /\ Records \subseteq Participants
  /\ ParticipationsOf \in [Users -> SUBSET Records]
  /\ EventOwner \in Users

Parcela == [status: ParcelaStatus, paidAt: BOOLEAN, held: BOOLEAN]
InstallmentsInit == parcelas = [p \in Parcelas |-> [status |-> "PENDING", paidAt |-> FALSE, held |-> FALSE]]
InstallmentsTypeOK == parcelas \in [Parcelas -> Parcela]

WithStatus(statuses) == {p \in Parcelas : parcelas[p].status \in statuses}
ParcelasOf(who) == {p \in Parcelas : ParcelaOf[p] = who}

-----------------------------------------------------------------------------
(* PaymentInstallmentRepository.  A status filter is the set it leaves.    *)

FindByEvent(statuses) == TextIds \cap WithStatus(statuses)
FindByEventAndParticipant(who) == TextIds \cap ParcelasOf(who)
\* Mutant: BUG5, only the installments stored under the user's id are found.
FindByUserOnly(u, participations, statuses) ==
  {p \in TextIds \cap WithStatus(statuses) : ParcelaOf[p] = u}
FindByUserOrParticipations(u, participations, statuses) ==
  {p \in TextIds \cap WithStatus(statuses) : ParcelaOf[p] \in participations \cup {u}}

FindParticipationIDsByUserID(u) == ParticipationsOf[u]
IsParticipantOfEvent(u) == ParticipationsOf[u] # {}

\* One UpdateMany.  It is not atomic over documents, and may fail after some of them.
CancelByParticipant(who) ==
  \E some \in SUBSET (TextIds \cap ParcelasOf(who) \cap WithStatus(Unpaid)) \ {{}} :
    parcelas' = [p \in Parcelas |-> IF p \in some THEN [parcelas[p] EXCEPT !.status = "CANCELLED"] ELSE parcelas[p]]

-----------------------------------------------------------------------------
(* Use cases.                                                              *)

\* The phases that hide an event's installments from its participants.
Hidden(phase) == phase \in {"ORGANIZACAO", "AGUARDANDO_ACEITE"}
ListUserInstallments(u, statuses, phase) ==
  IF Hidden(phase) THEN {} ELSE FindByUserOrParticipations(u, FindParticipationIDsByUserID(u), statuses)

\* The status is a filter only when no participant is named.
ListInstallments(u, who, statuses) ==
  IF ~IsParticipantOfEvent(u) THEN {}
  ELSE IF who = NoOne THEN FindByEvent(statuses) ELSE FindByEventAndParticipant(who)
GetInstallment(u, p) == p \in TextIds /\ IsParticipantOfEvent(u)

CancelParticipantInstallments(u, who) == u = EventOwner /\ CancelByParticipant(who)

-----------------------------------------------------------------------------
(* Handlers.                                                               *)

\* An optional query parameter, as a sequence of at most one value.
Given(param, default) == IF param = << >> THEN default ELSE param[1]

listInstallments(u, userId, status) ==
  ListInstallments(u, Given(userId, NoOne), IF status = << >> THEN ParcelaStatus ELSE {status[1]})
listUserInstallments(u, status, phase) ==
  ListUserInstallments(u, IF status = << >> THEN ParcelaStatus ELSE {status[1]}, phase)
cancelParticipantInstallments == \E u \in Users, who \in Participants : CancelParticipantInstallments(u, who)

-----------------------------------------------------------------------------

\* The installment screens agree for whoever takes part in the event: the event's list
\* is the participants' lists and the lists by status put together, each entry can be
\* opened, and a user's own list is exactly the part of it that is kept under the user's
\* id or a participation of the user, cancelled or paid meanwhile or not.
InstallmentListsAgree ==
  \A u \in {v \in Users : IsParticipantOfEvent(v)} :
    LET all == listInstallments(u, << >>, << >>)
        mine == {p \in all : ParcelaOf[p] \in ParticipationsOf[u] \cup {u}}
    IN
    /\ all = UNION {listInstallments(u, << >>, <<st>>) : st \in ParcelaStatus}
    /\ all = UNION {listInstallments(u, <<who>>, << >>) : who \in Participants}
    /\ all = {p \in Parcelas : GetInstallment(u, p)}
    /\ listUserInstallments(u, << >>, "PUBLICADO") = mine
    /\ mine = UNION {listUserInstallments(u, <<st>>, "PUBLICADO") : st \in ParcelaStatus}
    /\ listUserInstallments(u, << >>, "ORGANIZACAO") = {}

=============================================================================
