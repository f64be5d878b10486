----------------------------- MODULE Membership -----------------------------
(***************************************************************************)
(* Who may do what in one event: the organiser, the participants whose     *)
(* record is ACEITO or CONFIRMADO, and the phase of the event.  Event and  *)
(* participant records are kept by other components; here they change at   *)
(* any time.                                                               *)
(***************************************************************************)
EXTENDS Handlers

CONSTANT Organizer     \* the user responsible for the event

ASSUME MembershipAssumption == Organizer \in Users

VARIABLES
  published,     \* the event has left RASCUNHO
  confirmed      \* users whose participant record is ACEITO or CONFIRMADO

memberVars == <<published, confirmed>>

MembershipInit == published = FALSE /\ confirmed = {}
MembershipTypeOK == published \in BOOLEAN /\ confirmed \subseteq Users

\* Steps 1-3 of every use case: phase, then authorisation.
MayOrganize(u) == published /\ u = Organizer
MayTakePart(u) == published /\ (u = Organizer \/ u \in confirmed)

Publish == ~published /\ published' = TRUE /\ UNCHANGED confirmed
Respond(u) ==
  /\ confirmed' = IF u \in confirmed THEN confirmed \ {u} ELSE confirmed \cup {u}
  /\ UNCHANGED published

MembershipNext == (Publish \/ \E u \in Users \ {Organizer} : Respond(u)) /\ UNCHANGED handlerVars

=============================================================================
