----------------------------- MODULE MCEventos ------------------------------
(* Symmetry for the TLC runs of Eventos.                                     *)
EXTENDS Eventos, TLC

\* Handlers, users and drafts are interchangeable; every property is a safety property.
Symmetry == Permutations(Slots) \cup Permutations(Users) \cup Permutations(Drafts)

=============================================================================
