---------------------------- MODULE MCDetourPatch ----------------------------
EXTENDS DetourPatch, TLC

Symmetry == Permutations(Slots) \cup Permutations(Patchers) \cup Permutations(Far)
=============================================================================
