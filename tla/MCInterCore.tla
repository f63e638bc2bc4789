---------------------------- MODULE MCInterCore ----------------------------
(* Instances of InterCore for TLC.                                         *)
EXTENDS InterCore

L2(mi, sites, cl, age) == Ctx(mi, sites) :> [cl |-> cl, age |-> age]
Fits(level, conflicts) == [level |-> level, conflicts |-> conflicts]

(* A branch, then a function called twice.                                 *)
MCBranch ==
    [blocks |-> <<<<1>>, <<2>>, <<3>>, <<4, 5, 6, 7>>, <<8, 9, 10>>>>,
     next |-> <<<<2, 3>>, <<4>>, <<4>>, <<>>, <<>>>>,
     callees |-> (4 :> <<5>>) @@ (6 :> <<5>>),
     returns |-> {7, 10},
     loops |-> <<>>,
     class |-> L2(2, <<>>, "CL2_MISS", 0) @@ L2(5, <<>>, "CL2_MISS", 0)
               @@ L2(8, <<4>>, "CL2_MISS", 0) @@ L2(9, <<4>>, "CL2_MISS", 0)
               @@ L2(8, <<6>>, "CL2_HIT", 2) @@ L2(9, <<6>>, "CL2_HIT", 2)]

(* A loop, and a function called before the loop, in it and after it.      *)
MCLoop ==
    [blocks |-> <<<<1, 2>>, <<3, 4, 5>>, <<6, 7, 8>>, <<9, 10>>>>,
     next |-> <<<<2>>, <<2, 3>>, <<>>, <<>>>>,
     callees |-> (1 :> <<4>>) @@ (4 :> <<4>>) @@ (7 :> <<4>>),
     returns |-> {8, 10},
     loops |-> <<[header |-> 2, body |-> {2}, bound |-> 3,
                   ps |-> (3 :> Fits(2, 2)) @@ (9 :> Fits(2, 2))]>>,
     class |-> L2(3, <<>>, "CL2_MISS", 0)
               @@ L2(9, <<1>>, "CL2_MISS", 0) @@ L2(9, <<4>>, "CL2_HIT", 2)
               @@ L2(9, <<7>>, "CL2_HIT", 1)]

(* Two loops, one in the other, with a branch, and a function called in    *)
(* both: its line persists in both.                                        *)
MCNested ==
    [blocks |-> <<<<1>>, <<2>>, <<3, 4>>, <<5>>, <<6>>, <<7, 8>>, <<9>>, <<10>>, <<11>>>>,
     next |-> <<<<2>>, <<3>>, <<4>>, <<5>>, <<6>>, <<4, 7>>, <<2, 8>>, <<>>, <<>>>>,
     callees |-> (3 :> <<9>>) @@ (7 :> <<9>>),
     returns |-> {10, 11},
     loops |-> <<[header |-> 2, body |-> 2 .. 7, bound |-> 2,
                   ps |-> (6 :> Fits(2, 2)) @@ (11 :> Fits(2, 2))],
                 [header |-> 4, body |-> 4 .. 6, bound |-> 3,
                   ps |-> (6 :> Fits(1, 2)) @@ (11 :> Fits(2, 1))]>>,
     class |-> L2(6, <<>>, "CL2_MISS", 0) @@ L2(11, <<3>>, "CL2_MISS", 0)
               @@ L2(11, <<7>>, "CL_HIT", 0)]

(* A branch that joins in the header of a loop: no block of its own before *)
(* the loop.                                                               *)
MCNoPreheader ==
    [blocks |-> <<<<1>>, <<2>>, <<3, 4>>, <<5>>>>,
     next |-> <<<<2, 3>>, <<3>>, <<3, 4>>, <<>>>>,
     callees |-> <<>>,
     returns |-> {5},
     loops |-> <<[header |-> 3, body |-> {3}, bound |-> 2, ps |-> <<>>]>>,
     class |-> <<>>]

(* All graphs of four blocks of one instruction, for the regions only.     *)
MCTargets == {<<b>> : b \in 2 .. 4} \cup {e \in (2 .. 4) \X (2 .. 4) : e[1] # e[2]}
MCGraphs ==
    {[blocks |-> [b \in 1 .. 4 |-> <<b>>], next |-> Append(next, <<>>),
      callees |-> <<>>, returns |-> {4}, loops |-> <<>>, class |-> <<>>] :
        next \in [1 .. 3 -> MCTargets]}

MCTasks == {MCBranch, MCLoop, MCNested, MCNoPreheader} \cup MCGraphs

MCSetOf == [line \in 1 .. 23 |-> 0]

Fetch(line, count, cl) == [line |-> line, count |-> count, age |-> 0, cap |-> -1, cl |-> cl]
Miss(line, count) == Fetch(line, count, "CL2_MISS")
FirstLevelHit(line, count) == Fetch(line, count, "CL_HIT")
MCRegions ==
    {<<Miss(21, 1)>>, <<Miss(22, 2)>>, <<Miss(22, 2), FirstLevelHit(22, 3), Miss(21, 1)>>,
     <<Miss(22, 1), Miss(23, 1)>>}
MCCoRunnerPaths ==
    UNION {[1 .. n -> MCRegions] : n \in 1 .. 2}
    \cup [1 .. 3 -> {<<Miss(21, 1)>>, <<Miss(22, 1), Miss(23, 1)>>}]
    \cup {<<<<Miss(21, 1)>>, <<Miss(22, 2)>>, <<Miss(23, 1)>>>>,
          <<<<Miss(21, 1)>>, <<Miss(22, 2)>>, <<Miss(23, 2)>>, <<Miss(21, 1)>>>>}
=============================================================================
