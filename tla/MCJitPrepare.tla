---------------------------- MODULE MCJitPrepare ----------------------------
(* Instances of JitPrepare for TLC. *)
EXTENDS JitPrepare, TLC

CONSTANTS t1, t2, a1, a2

MCThreads == {t1, t2}
OneThread == {t1}
TwoArenas == {a1, a2}
MCReaders == {"r"}

Symmetry == Permutations(MCThreads) \cup Permutations(TwoArenas)
=============================================================================
