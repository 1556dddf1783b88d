------------------------- MODULE MCPackageDelivery -------------------------
(* Small instances of PackageDelivery.                                     *)
EXTENDS PackageDelivery, TLC

CONSTANTS job, research, a1, a2, a2x, b1, r1, jobAgent, researchAgent, read

\* Artifacts of job: a1, the upgrade a2, which adds a permission, and a2x, another build of
\* a2's version.  Artifacts of research: b1, which brings an Agent of its own, and r1, which
\* claims job's.
Owners == [a \in Artifacts |-> IF a \in {b1, r1} THEN research ELSE job]

Agents == [a \in Artifacts |-> IF a = b1 THEN researchAgent ELSE jobAgent]

Steps == [a \in Artifacts |-> IF a \in {a2, a2x} THEN 2 ELSE 1]

Grants == [a \in Artifacts |-> IF a = a2 THEN {read} ELSE {}]

\* The trees of the upgrade get damaged, once they are on disk.
UpgradesOnDisk == {<<a2, "disk">>}

Symmetric == Permutations(Dirs) \cup Permutations(Approvals) \cup Permutations(Hosts)
=============================================================================
