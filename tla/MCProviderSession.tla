-------------------------- MODULE MCProviderSession --------------------------
(* Small instances of ProviderSession: the calls are interchangeable. *)
EXTENDS ProviderSession, TLC

CallSymmetry == Permutations(Calls)
=============================================================================
