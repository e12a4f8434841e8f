-------------------------- MODULE MCScenarioService --------------------------
\* ScenarioService for model checking: threads and drafts are interchangeable,
\* and every run checks invariants or properties of single steps.
EXTENDS ScenarioService, TLC

Symmetry == Permutations(Workers) \cup Permutations(Drafts)
=============================================================================
