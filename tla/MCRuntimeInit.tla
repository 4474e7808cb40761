---------------------------- MODULE MCRuntimeInit ----------------------------
(* Instances of RuntimeInit for TLC. *)
EXTENDS RuntimeInit

MCEntries == [dlls |-> <<"game", "mscorlib", "unity">>, mono |-> <<"config", "machine">>]
=============================================================================
