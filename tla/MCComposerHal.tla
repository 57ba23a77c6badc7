---------------------------- MODULE MCComposerHal ----------------------------
EXTENDS ComposerHal, TLC

Symmetry == Permutations(Threads) \cup Permutations(Clients)
=============================================================================
