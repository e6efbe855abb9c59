--------------------------- MODULE MCWorkspaceRun ---------------------------
EXTENDS WorkspaceRun, TLC
Symmetry == Permutations(Workers) \union Permutations(Handlers)
=============================================================================
