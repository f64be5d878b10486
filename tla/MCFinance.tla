----------------------------- MODULE MCFinance ------------------------------
(* Values of the functional constants of Finance for the TLC runs.           *)
EXTENDS Finance

\* Of the documents with binary ids one is filed under the organiser and one under the
\* organiser's participation; the document with string ids is the participation's too.
OneEach == [p \in Parcelas |-> IF p = "first" THEN EventOwner ELSE "record"]
\* Only the organiser takes part.
OneRecord == [u \in Users |-> IF u = EventOwner THEN {"record"} ELSE {}]

\* Handlers are interchangeable; every property is a safety property.
Symmetry == Permutations(Slots)

=============================================================================
