------------------------ MODULE MCOntologyProjection ------------------------
\* OntologyProjection for model checking: threads are interchangeable in the
\* runs that check invariants.
EXTENDS OntologyProjection, TLC

Symmetry == Permutations(Workers) \cup Permutations(Readers)
=============================================================================
