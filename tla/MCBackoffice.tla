---------------------------- MODULE MCBackoffice ----------------------------
(* Symmetry of Backoffice for the TLC run.                                   *)
EXTENDS Backoffice, TLC

\* Handlers, users, accounts and cards are interchangeable; every property is a safety property.
Symmetry == Permutations(Slots) \cup Permutations(Users) \cup Permutations(Accounts)

=============================================================================
