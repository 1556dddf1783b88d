------------------------- MODULE MCProviderRouting -------------------------
(* Small instances of ProviderRouting.                                     *)
EXTENDS ProviderRouting, TLC

\* The Agent's own assignment of a role, and the account's of the main role, to
\* which the others fall back.
OwnAndMain == {<<Agent, r>> : r \in Roles} \cup {<<Global, Main>>}

\* Profiles, endpoints and attempts are interchangeable.
Symmetric == Permutations(Profiles) \cup Permutations(Endpoints) \cup Permutations(Attempts)
=============================================================================
