-------------------------- MODULE MCMerchantGroups --------------------------
(* Instance of MerchantGroups for TLC.                                     *)
EXTENDS MerchantGroups

\* Texts are numbered in the order of their first row, which is no restriction.
Numberings ==
    {t \in [0..(N - 1) -> 0..(N - 1)] :
        \A p \in DOMAIN t : \A c \in 0..(t[p] - 1) : \E q \in 0..(p - 1) : t[q] = c}

TextsOf(t) == {t[p] : p \in DOMAIN t}
PairsOf(T) == {S \in SUBSET T : Cardinality(S) = 2}

MCInputs ==
    UNION {[text : {t}, near : SUBSET PairsOf(TextsOf(t)), mode : {"off", "exact", "levenshtein"}] :
             t \in Numberings}

\* Text 2 is within the distance of 0, 1 and 3, which are too far apart.
MCClose == {{0, 2}, {1, 2}, {2, 3}}

MCStoredClusters ==
    {f \in [0..(N - 1) -> {NoCluster, 1, 2}] :
        f[0] = 1 /\ \A p \in 0..(N - 2) : f[p] # NoCluster}
=============================================================================
