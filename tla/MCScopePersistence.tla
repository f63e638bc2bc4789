------------------------ MODULE MCScopePersistence -------------------------
(* Instances of ScopePersistence for TLC.                                  *)
EXTENDS ScopePersistence, TLC

CONSTANTS a, b, c, d, arr, p, q, inner, outer

MCTags == {a, b, c}
MCFourTags == {a, b, c, d}
MCPaths == {p, q}
MCOnePath == {p}
MCScopes == {inner, outer}
MCOneScope == {inner}

MCNone == {}
MCNoFunction == [x \in {} |-> {}]

MCCountingTypes == {"SETWISE", "ELEWISE"}
MCSetWise == {"SETWISE"}
MCCondMust == {"CONDMUST"}

(* One array with two lines in the set, of at most two in any set.         *)
MCArrays == {arr}
MCLinesOf == [x \in {arr} |-> {b, c}]
MCPerSetSize == [x \in {arr} |-> 2]

(* The co-runner's line.                                                   *)
MCCoTags == {d}

(* No operator depends on the identity of a line, a path or a scope.       *)
MCSymmetry == Permutations(MCTags) \cup Permutations(MCPaths)
MCSharedSymmetry == Permutations({b, c}) \cup Permutations(MCScopes)
=============================================================================
