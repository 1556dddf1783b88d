--------------------------- MODULE MCProductHost ---------------------------
(* Small instances of ProductHost.                                         *)
EXTENDS ProductHost, TLC

\* Accounts and callers are interchangeable.
Symmetric == Permutations(Accounts) \cup Permutations(Callers)
=============================================================================
