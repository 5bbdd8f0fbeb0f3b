--------------------------- MODULE MCClusterReview ---------------------------
(* Three files of one row each. Rows 2 and 3 match rules; 1 and 2 may be    *)
(* the legs of a transfer. Categories 1 and 2 precede Uncategorized, 3.     *)
EXTENDS ClusterReview, TLC
CONSTANTS g1, g2

MCBatch == <<{1}, {2}, {3}>>
MCLinks == {{1, 2}}
MCRule == <<None, 1, 2>>
MCCategories == {1, 2, 3}
MCStaleIds == {<<1, 1>>, Internal}
\* A bound: two tags run together beside two imports; beside three, one tag.
Writing == {g \in Tags : tags[g].pc = "rows"}
Read == {f \in Files : Imported(f) \/ (plan # None /\ plan.file = f)}
TagsAndImports == Cardinality(Writing) + Cardinality(Read) <= 4

SameTags == Permutations({g1, g2})
=============================================================================
