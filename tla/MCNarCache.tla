----------------------------- MODULE MCNarCache -----------------------------
EXTENDS NarCache, TLC

Symmetry == Permutations(Clients) \cup Permutations(Entries)
=============================================================================
