------------------------- MODULE MCMaterialLibrary -------------------------
(* Instances of MaterialLibrary for TLC.                                   *)
EXTENDS MaterialLibrary, TLC

CONSTANTS n1, n2

TwoNames == <<n1, n2>>

\* A material of one name in both earlier roots, and one in the second only.
Overlapping == {<<{n1}, {n1, n2}>>}

\* Upload requests are interchangeable.
Symmetry == Permutations(Uploads)
=============================================================================
