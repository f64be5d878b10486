----------------------------- MODULE MCSessions ------------------------------
(* Symmetry of Sessions for the TLC runs.                                    *)
EXTENDS Sessions, TLC

\* Handlers, accounts, people and tokens are interchangeable; every property is a safety
\* property.
Symmetry ==
  Permutations(Slots) \cup Permutations(Users) \cup Permutations(People) \cup Permutations(Tokens)

=============================================================================
