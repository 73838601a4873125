------------------------------ MODULE MCImport ------------------------------
(* Instances of Import for TLC. *)
EXTENDS Import, TLC

CONSTANTS x, y, z

\* x and y differ in the case of the category name only; z is another record of
\* the category of x.
FoldedKey == [r \in Recs |-> IF r = y THEN x ELSE r]
CategoryOf == [r \in Recs |-> IF r = y THEN "food" ELSE "Food"]

UploadedFiles == {<<x, y>>, <<z, Bad>>}

Symmetry == Permutations(Uploads)

=============================================================================
