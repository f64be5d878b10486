----------------------------- MODULE Community ------------------------------
(***************************************************************************)
(* What guests and organiser do around one event: social features, gift    *)
(* list and cofrinho, served by the same pool of handlers.  The three keep *)
(* separate collections; a request for one may run between the steps of a  *)
(* request for another.                                                    *)
(***************************************************************************)
EXTENDS SocialFeatures, GiftList, Cofrinho

vars == <<handlerVars, memberVars, socialVars, giftVars, cofrinhoVars>>

Init == HandlersInit /\ MembershipInit /\ SocialInit /\ GiftInit /\ CofrinhoInit

Next ==
  \/ SocialNext /\ UNCHANGED <<giftVars, cofrinhoVars>>
  \/ GiftNext /\ UNCHANGED <<memberVars, socialVars, cofrinhoVars>>
  \/ CofrinhoNext /\ UNCHANGED <<memberVars, socialVars, giftVars>>
  \/ MembershipNext /\ UNCHANGED <<socialVars, giftVars, cofrinhoVars>>
  \/ (\E s \in Slots : Abort(s)) /\ UNCHANGED <<memberVars, socialVars, giftVars, cofrinhoVars>>

Spec == Init /\ [][Next]_vars

TypeOK ==
  /\ MembershipTypeOK /\ SocialTypeOK /\ GiftTypeOK /\ CofrinhoTypeOK
  /\ served \in 0..MaxRequests
  /\ DOMAIN calls = Slots
  /\ \A s \in Slots : LET op == calls[s].op IN
       calls[s] \in SocialCall(op) \cup GiftCall(op) \cup CofrinhoCall(op) \cup {NoCall}

-----------------------------------------------------------------------------

\* What the filter of an update checks holds exactly; what is checked on a document read
\* before the update may be overrun, by the handlers that overlapped and no more.
SocialLimitsHold == CheckedInOnce /\ PlaylistsOverrunIsBounded

=============================================================================
