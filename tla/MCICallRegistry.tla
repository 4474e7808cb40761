--------------------------- MODULE MCICallRegistry ---------------------------
(* Instances of ICallRegistry for TLC. *)
EXTENDS ICallRegistry, TLC

CONSTANTS t1, t2, n1, n2, m1, m2, k1, k2, k3

MCThreads == {t1, t2}
MCNames == {n1, n2}
MCMethods == {m1, m2}
\* Two mods compete for one name; the override has one interceptor.
MCMods == n1 :> {k3} @@ n2 :> {k1, k2}

Symmetry == Permutations(MCThreads) \cup Permutations(MCMethods) \cup Permutations({k1, k2})
=============================================================================
