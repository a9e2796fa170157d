----------------------------- MODULE MCArtefacts -----------------------------
(* TLC instances of Artefacts: one test case and the artefact made from it. *)
EXTENDS Artefacts, TLC

CONSTANTS case, test

SourceOf == [a \in {test} |-> case]
Symmetry == Permutations(Slots)
=============================================================================
