---------------------------- MODULE MCCommunity -----------------------------
(* Values of the functional constants of Community for the TLC runs.         *)
EXTENDS Community, TLC

SomeValor == [c \in Contributions |-> 2]

\* Handlers, link ids and the guests are interchangeable; every property is a safety property.
Symmetry == Permutations(Slots) \cup Permutations(Links) \cup Permutations(Users \ {Organizer})

=============================================================================
