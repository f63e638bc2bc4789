------------------------- MODULE MCCacheSetAnalysis -------------------------
(* Instance of CacheSetAnalysis for TLC.                                   *)
EXTENDS CacheSetAnalysis, TLC

CONSTANTS a, b, c, p, q

MCTags == {a, b, c}
MCPaths == {p, q}
MCAddressSets == {S \in SUBSET MCTags : Cardinality(S) \in {1, 2}} \cup {MCTags}

(* No operator depends on the identity of a tag or of a path.              *)
MCSymmetry == Permutations(MCTags) \cup Permutations(MCPaths)
=============================================================================
