--------------------------- MODULE MCPackageTrust --------------------------
(***************************************************************************)
(* Instances of PackageTrust: a document is a kind and a number, with an   *)
(* "x" for a second document under the same number.                        *)
(***************************************************************************)
EXTENDS PackageTrust

CONSTANTS t1, t2, s1, s1x, s2, s9

SequenceOf   == [t \in Bundles |-> IF t = t1 THEN 1 ELSE 2]
RevisionOf   == [s \in Snapshots |-> CASE s \in {s1, s1x} -> 1 [] s = s2 -> 2 [] s = s9 -> 9]
Bound        == [s \in Snapshots |-> IF s \in {s1, s1x} THEN 1 ELSE 2]
PublishersOf == [d \in Bundles \cup Snapshots |-> IF d \in {t1, s1, s1x} THEN {} ELSE {"acme"}]
=============================================================================
