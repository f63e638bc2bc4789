-------------------------- MODULE AnalysedProgram --------------------------
(***************************************************************************)
(* The analysis of AnalysisDriver, followed by a run of the program it has *)
(* analysed.  The run counts the iterations of the loops it is in and      *)
(* keeps a call stack; its context is derived from these alone.            *)
(***************************************************************************)
EXTENDS AnalysisDriver

VARIABLE run

vars == <<driverVars, run>>

Frame == [site : Blocks, taken : [Range(Loops) -> Nat]]
Phases == {"enter", "leave", "ended"}

NoLoopTaken == [l \in Range(Loops) |-> 0]

(* Iterations that no context tells apart are not counted.                 *)
Counted(n) == IF n < options.loopPeel THEN n + 1 ELSE n

TakenAfter(b, t) ==
    [l \in Range(Loops) |->
        IF {b, t} \subseteq Body[l]
        THEN IF t = Header[l] THEN Counted(run.taken[l]) ELSE run.taken[l]
        ELSE 0]

IsRunning(phase) == worklist = {} /\ run.phase = phase

(* The instructions of a block up to its branches, and an external call.   *)
Execute ==
    /\ IsRunning("enter") /\ Callee[run.block] \notin Functions
    /\ \E v \in Transferred[run.block][run.value] :
          \E w \in IF Callee[run.block] = External THEN Values ELSE {v} :
             run' = [run EXCEPT !.phase = "leave", !.value = w]
    /\ UNCHANGED driverVars

Call ==
    /\ IsRunning("enter") /\ Callee[run.block] \in Functions
    /\ \E v \in Transferred[run.block][run.value] :
          run' = [run EXCEPT !.value = v,
                             !.block = EntryBlock[Callee[run.block]],
                             !.taken = NoLoopTaken,
                             !.stack = Append(@, [site |-> run.block, taken |-> run.taken])]
    /\ UNCHANGED driverVars

GoTo(t) ==
    run' = [run EXCEPT !.phase = "enter", !.block = t,
                       !.taken = TakenAfter(run.block, t)]

Branch ==
    /\ IsRunning("leave")
    /\ \/ \E t \in DOMAIN Branches[run.block] :
             run.value \in Branches[run.block][t] /\ GoTo(t)
       \/ \E t \in Layout[run.block] :
             run.value \in FallsThrough[run.block] /\ GoTo(t)
    /\ UNCHANGED driverVars

Return ==
    /\ IsRunning("leave")
    /\ run.block \in ReturnBlocks /\ run.value \in Returned[run.block]
    /\ run' = IF run.stack = <<>> THEN [run EXCEPT !.phase = "ended"]
              ELSE [run EXCEPT !.block = Last(run.stack).site,
                               !.taken = Last(run.stack).taken,
                               !.stack = Front(@)]
    /\ UNCHANGED driverVars

AnalyseStep == AnalyseNext /\ UNCHANGED run

Init ==
    /\ DriverInit
    /\ \E v \in Start :
          run = [phase |-> "enter", block |-> EntryBlock[EntryPoint], value |-> v,
                 taken |-> NoLoopTaken, stack |-> <<>>]

Next == AnalyseStep \/ Execute \/ Call \/ Branch \/ Return

(* The worklist is worked off in a loop.                                   *)
Spec == Init /\ [][Next]_vars /\ WF_vars(AnalyseStep)

-----------------------------------------------------------------------------
(* The context of the run.                                                 *)
(* The call of the block's function and the loops around it, outer first. *)
FrameTokens(block, taken) ==
    LET n == Len(Loops)
        from[i \in 1 .. n + 1] ==
            IF i = n + 1 THEN <<CalleeToken(FuncOf[block])>>
            ELSE IF i \in Around(options, block)
            THEN Append(from[i + 1], LoopToken(options, Loops[i], taken[Loops[i]]))
            ELSE from[i + 1]
    IN  from[1]

RunContext ==
    LET calls == [i \in DOMAIN run.stack |->
                     Append(FrameTokens(run.stack[i].site, run.stack[i].taken),
                            SiteToken(run.stack[i].site))]
    IN  ReduceOnCall(options, FlattenSeq(calls)) \o FrameTokens(run.block, run.taken)

(* No function returns from inside a loop, as a predicated return may: it  *)
(* would leave the tokens of the loop behind in the context at the exit.   *)
ReturnsOutsideLoops ==
    \A b \in ReturnBlocks : \A l \in Range(Loops) : b \notin Body[l]

(* The analysis is sound: wherever the program gets, and whichever way, it *)
(* has been expected in that context and with that value.                  *)
RunIsCovered ==
    worklist = {} =>
        /\ run.phase = "enter" =>
              /\ RunContext \in DOMAIN mbb2anainfo[run.block]
              /\ run.value \in mbb2anainfo[run.block][RunContext]
        /\ run.phase = "leave" => run.value \in AfterCall(run.block, RunContext)

(* The iteration ends: the worklist becomes empty.                         *)
IterationEnds == <>(worklist = {})
=============================================================================
