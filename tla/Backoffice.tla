----------------------------- MODULE Backoffice ------------------------------
(***************************************************************************)
(* What is kept beside an event and its money: monthly payments and fees,  *)
(* payment accounts, saved cards and customers at the provider, lookup     *)
(* values and settings, notifications and templates, files.  One pool of   *)
(* handlers serves all.                                                    *)
(***************************************************************************)
EXTENDS Billing, PaymentMethods, CustomerLinks, Settings, Notifications, Files

vars == <<handlerVars, billingVars, methodVars, customerVars, settingsVars, noticeVars, filesVars>>

Init == HandlersInit /\ BillingInit /\ MethodsInit /\ CustomersInit /\ SettingsInit /\ NoticesInit /\ FilesInit

Next ==
  \/ BillingNext /\ UNCHANGED <<methodVars, customerVars, settingsVars, noticeVars, filesVars>>
  \/ MethodsNext /\ UNCHANGED <<billingVars, customerVars, settingsVars, noticeVars, filesVars>>
  \/ CustomersNext /\ UNCHANGED <<billingVars, methodVars, settingsVars, noticeVars, filesVars>>
  \/ SettingsNext /\ UNCHANGED <<billingVars, methodVars, customerVars, noticeVars, filesVars>>
  \/ NoticesNext /\ UNCHANGED <<billingVars, methodVars, customerVars, settingsVars, filesVars>>
  \/ FilesNext /\ UNCHANGED <<billingVars, methodVars, customerVars, settingsVars, noticeVars>>
  \/ \E s \in Slots : /\ Abort(s) /\ FilesInterrupted(s)
                      /\ UNCHANGED <<billingVars, methodVars, customerVars, settingsVars, noticeVars, arquivos>>

Spec == Init /\ [][Next]_vars

TypeOK ==
  /\ BillingTypeOK /\ MethodsTypeOK /\ CustomersTypeOK /\ SettingsTypeOK /\ NoticesTypeOK /\ FilesTypeOK
  /\ served \in 0..MaxRequests
  /\ DOMAIN calls = Slots
  /\ \A s \in Slots : LET op == calls[s].op IN
       calls[s] \in BillingCall(op) \cup MethodsCall(op) \cup CustomersCall(op) \cup SettingsCall(op)
                      \cup NoticesCall(op) \cup FilesCall(op) \cup {NoCall}

-----------------------------------------------------------------------------

\* What is looked up and then created exists as often as handlers, and attempts of theirs,
\* can overlap, and no more: settings of one key, customers of one user.
DuplicatesAreBounded == CopiesAreBounded /\ CustomersAreBounded

\* Requests that do not overlap take nothing back: a confirmation, a deletion, the mark
\* that a notification was read and the text of a template are undone only by a handler
\* that writes a copy it had read before.
OnlyStaleCopiesUndo ==
  PaidIsEditedOnlyByAStaleCopy /\ OnlyAStaleUpdateRevives /\ NoticesOnlyAdvance /\ AloneKeepsTheText

=============================================================================
