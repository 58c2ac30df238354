----------------------------- MODULE MCUcmCache -----------------------------
(* The requests are alike, and so are the use cases, and the cards other    *)
(* than 0, the number static storage starts with.                           *)
EXTENDS UcmCache, TLC

Symmetry == Permutations(Threads) \union Permutations(Verbs)
                \union Permutations(Cards \ {0})
=============================================================================
