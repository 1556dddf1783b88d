--------------------------- MODULE MCLeaderElection ---------------------------
(* Small instances of LeaderElection: clients and processes are interchangeable. *)
EXTENDS LeaderElection, TLC

Symmetry == Permutations(Clients) \cup Permutations(Leaders)
===============================================================================
