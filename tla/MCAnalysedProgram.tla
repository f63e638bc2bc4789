------------------------- MODULE MCAnalysedProgram -------------------------
(* main calls f in a loop, and g behind it; f has a loop inside a loop,    *)
(* which can be left for good from the inner one, and calls g too.         *)
EXTENDS AnalysedProgram, TLC

MCBlocks == {"m0", "m1", "m2", "m3", "f0", "f1", "f2", "f3", "f4", "g0"}
MCFunctions == {"main", "f", "g"}
MCFuncOf == [b \in MCBlocks |-> CASE b \in {"m0", "m1", "m2", "m3"} -> "main"
                                  [] b = "g0" -> "g"
                                  [] OTHER -> "f"]
MCEntryBlock == "main" :> "m0" @@ "f" :> "f0" @@ "g" :> "g0"

MCNumber ==
    "m0" :> 0 @@ "m1" :> 1 @@ "m2" :> 2 @@ "m3" :> 3 @@ "g0" :> 0
    @@ "f0" :> 0 @@ "f1" :> 1 @@ "f2" :> 2 @@ "f3" :> 3 @@ "f4" :> 4

MCLoops == <<"inner", "outer", "calls">>
MCHeader == "inner" :> "f2" @@ "outer" :> "f1" @@ "calls" :> "m1"
MCBody == "inner" :> {"f2"} @@ "outer" :> {"f1", "f2", "f3"} @@ "calls" :> {"m1"}

ASSUME ReturnsOutsideLoops

MCValues == 0 .. 2
MCTransferred ==
    [b \in MCBlocks |-> [v \in MCValues |->
        CASE b = "f2" -> {v, 2}
          [] b = "g0" -> {w \in MCValues : w = v + 1}
          [] OTHER -> {v}]]
MCCallee == [b \in MCBlocks |-> CASE b = "m1" -> "f"
                                  [] b \in {"f3", "m2"} -> "g"
                                  [] b = "m3" -> External
                                  [] OTHER -> NoCall]
NoBranch == [t \in {} |-> {}]
MCBranches == [b \in MCBlocks |->
    CASE b = "m1" -> "m1" :> {0, 1}
      [] b = "f2" -> "f2" :> {1} @@ "f4" :> {2}
      [] b = "f3" -> "f1" :> {1}
      [] OTHER -> NoBranch]
MCLayout == [b \in MCBlocks |->
    CASE b = "m0" -> {"m1"} [] b = "m1" -> {"m2"} [] b = "m2" -> {"m3"}
      [] b = "f0" -> {"f1"} [] b = "f1" -> {"f2"} [] b = "f2" -> {"f3"}
      [] b = "f3" -> {"f4"} [] OTHER -> {}]
MCFallsThrough == [b \in MCBlocks |-> IF b = "f2" THEN {0, 1} ELSE MCValues]
MCReturned == [b \in MCBlocks |-> MCValues]

MCOptions ==
    {[loopPeel |-> 1, loopTokens |-> -1, calleeTokens |-> 0, callsiteTokens |-> -1],
     [loopPeel |-> 2, loopTokens |-> 0, calleeTokens |-> 1, callsiteTokens |-> 0],
     [loopPeel |-> 0, loopTokens |-> -1, calleeTokens |-> -1, callsiteTokens |-> 1]}
=============================================================================
