------------------------------ MODULE Contexts ------------------------------
(***************************************************************************)
(* The contexts of trace partitioning: lists of tokens, oldest first, that *)
(* tell the paths to a basic block apart by call sites, functions and loop *)
(* iterations.  DirectiveHeuristics puts the directives at calls and loop  *)
(* edges; Context carries them out.  opt is what the command line says of  *)
(* how much is told apart.                                                 *)
(***************************************************************************)
EXTENDS Integers, SequencesExt, FiniteSets

CONSTANTS
    Blocks, Functions,
    FuncOf,      \* the function of a block
    Loops,       \* the loops of all functions, inner before outer, as a sequence
    Header,      \* the header of a loop
    Body         \* the blocks of a loop

ASSUME LoopAssumption ==
    /\ Loops \in Seq(Range(Loops))
    /\ FuncOf \in [Blocks -> Functions]
    /\ Header \in [Range(Loops) -> Blocks]
    /\ Body \in [Range(Loops) -> SUBSET Blocks]
    /\ \A l \in Range(Loops) : Header[l] \in Body[l]

(* Loops are natural loops: two are nested or have no block in common, and *)
(* the header of the outer one, which dominates it, is not in the inner.   *)
ASSUME NestingAssumption ==
    \A i, j \in DOMAIN Loops :
        i < j => /\ \/ Body[Loops[i]] \subseteq Body[Loops[j]]
                    \/ Body[Loops[i]] \cap Body[Loops[j]] = {}
                 /\ Header[Loops[j]] \notin Body[Loops[i]]

(* A negative number of tokens stands for no limit.                        *)
OptionType ==
    [loopPeel : Nat, loopTokens : Int, calleeTokens : Int, callsiteTokens : Int]

LoopKinds == {"LOOPPEEL", "LOOPITER"}

CalleeToken(f) == [kind |-> "FUNCALLEE", of |-> f, taken |-> 0]
SiteToken(b) == [kind |-> "CALLSITE", of |-> b, taken |-> 0]

(* The token after the back edges were taken i times: one for each of the  *)
(* peeled iterations, one for all the others.                              *)
LoopToken(opt, l, i) ==
    [kind |-> IF i < opt.loopPeel THEN "LOOPPEEL" ELSE "LOOPITER",
     of |-> l, taken |-> i]

LoopTokens(opt, l) == {LoopToken(opt, l, i) : i \in 0 .. opt.loopPeel}

Token(opt) ==
    (UNION {LoopTokens(opt, l) : l \in Range(Loops)})
        \cup {CalleeToken(f) : f \in Functions} \cup {SiteToken(b) : b \in Blocks}

BackEdges(l) == Body[l] \X {Header[l]}
IncomingEdges(l) == (Blocks \ Body[l]) \X {Header[l]}
ExitingEdges(l) == Body[l] \X (Blocks \ Body[l])

-----------------------------------------------------------------------------
(* A merge directive removes the topmost token if it is one of its own.    *)
Merge(ctx, tokens) ==
    IF ctx # <<>> /\ Last(ctx) \in tokens THEN Front(ctx) ELSE ctx

(* Taking a back edge counts the topmost peeled iteration on.              *)
TransferKeeps(opt, ctx, edge) == ctx   \* mutant: iterations are not told apart

TransferPeels(opt, ctx, edge) ==   \* mutant: goes on peeling
    IF ctx # <<>> /\ Last(ctx).kind = "LOOPPEEL" /\ edge \in BackEdges(Last(ctx).of)
    THEN Append(Front(ctx), [Last(ctx) EXCEPT !.taken = @ + 1])
    ELSE ctx

Transfer(opt, ctx, edge) ==
    IF ctx # <<>> /\ Last(ctx).kind = "LOOPPEEL" /\ edge \in BackEdges(Last(ctx).of)
    THEN Append(Front(ctx), LoopToken(opt, Last(ctx).of, Last(ctx).taken + 1))
    ELSE ctx

(* Without peeling there are no directives at loops.                       *)
LeaveLoops(opt, ctx, edge) ==
    LET left[i \in 0 .. Len(Loops)] ==
            IF i = 0 THEN ctx
            ELSE IF edge \in ExitingEdges(Loops[i])
                 THEN Merge(left[i - 1], LoopTokens(opt, Loops[i])) ELSE left[i - 1]
    IN  IF opt.loopPeel = 0 THEN ctx ELSE left[Len(Loops)]

(* At most one loop is entered, as no two have the same header.            *)
EnterLoopsTo(opt, ctx, edge) ==
    LET entered == {l \in Range(Loops) : edge \in IncomingEdges(l)}
    IN  IF opt.loopPeel = 0 \/ entered = {} THEN ctx
        ELSE Append(ctx, LoopToken(opt, CHOOSE l \in entered : TRUE, 0))

(* The directives on entering an edge, the edge itself, and the directives *)
(* on leaving it.                                                          *)
EdgeContextStays(opt, ctx, edge) ==   \* mutant: loops are not left
    EnterLoopsTo(opt, Transfer(opt, ctx, edge), edge)

EdgeContext(opt, ctx, edge) ==
    EnterLoopsTo(opt, Transfer(opt, LeaveLoops(opt, ctx, edge), edge), edge)

(* The loops around a block by their position in Loops, inner ones first.  *)
Around(opt, b) ==
    IF opt.loopPeel = 0 THEN {} ELSE {i \in DOMAIN Loops : b \in Body[Loops[i]]}

(* Counted from its end, a context has a token of each of these loops,     *)
(* innermost last, and in front of them that of the call of function f.    *)
Fits(opt, ctx, f, around) ==
    LET top == Len(ctx) - Cardinality(around)
    IN  /\ top > 0 /\ ctx[top] = CalleeToken(f)
        /\ \A i \in around :
              ctx[top + Cardinality({j \in around : i <= j})] \in LoopTokens(opt, Loops[i])

-----------------------------------------------------------------------------
(* Only the newest n tokens of these kinds are kept.                       *)
ClearOlderThan(ctx, kinds, n) ==
    LET newer(i) == Cardinality({j \in i + 1 .. Len(ctx) : ctx[j].kind \in kinds})
        kept[i \in 0 .. Len(ctx)] ==
            IF i = 0 THEN <<>>
            ELSE IF ctx[i].kind \in kinds /\ newer(i) >= n THEN kept[i - 1]
            ELSE Append(kept[i - 1], ctx[i])
    IN  IF n < 0 THEN ctx ELSE kept[Len(ctx)]

ReduceOnCall(opt, ctx) ==
    LET loops == ClearOlderThan(ctx, LoopKinds, opt.loopTokens)
        callees == ClearOlderThan(loops, {"FUNCALLEE"}, opt.calleeTokens)
    IN  ClearOlderThan(callees, {"CALLSITE"}, opt.callsiteTokens)

(* The context in which the call in block b looks for its callee.          *)
CallContext(opt, ctx, b) == ReduceOnCall(opt, Append(ctx, SiteToken(b)))
=============================================================================
