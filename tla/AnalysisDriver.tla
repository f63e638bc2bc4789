--------------------------- MODULE AnalysisDriver ---------------------------
(***************************************************************************)
(* AnalysisDriverInstr: the worklist iteration every analysis runs on.     *)
(* Information is kept per context at the entry of each basic block and at *)
(* the entry and exit of each function; a work item is a block and one of  *)
(* its contexts.                                                           *)
(*                                                                         *)
(* The analysis is any one whose elements are sets joined by union (as the *)
(* sets of microarchitectural states are), bottom being the empty set.     *)
(***************************************************************************)
EXTENDS Contexts

CONSTANTS
    Options,       \* the command lines to consider
    EntryPoint,    \* the analysed function
    EntryBlock,    \* the block with number 0 of a function
    Values,        \* what the elements of the analysis are made of
    Start,         \* the information at the entry point
    Transferred,   \* of each block, the transfer function on single values
    Number,        \* of each block: its number in its function
    Callee,        \* of each block: the function it calls, or one of these:
    NoCall, External,
    Branches,      \* of each block and branch target: the values that go there
    Layout,        \* of each block: its successor by fall-through, as a set
    FallsThrough,  \* of each block: the values that may get past its branches
    ReturnBlocks, Returned  \* the returning blocks, and the values that do

ASSUME ProgramAssumption ==
    /\ Options \subseteq OptionType
    /\ EntryPoint \in Functions
    /\ EntryBlock \in [Functions -> Blocks]
    /\ \A f \in Functions : FuncOf[EntryBlock[f]] = f
    /\ Start \subseteq Values
    /\ Transferred \in [Blocks -> [Values -> SUBSET Values]]
    /\ NoCall \notin Functions /\ External \notin Functions /\ NoCall # External
    /\ Number \in [Blocks -> Nat]
    /\ Callee \in [Blocks -> Functions \cup {NoCall, External}]
    /\ \A b \in Blocks : /\ DOMAIN Branches[b] \subseteq Blocks
                         /\ \A t \in DOMAIN Branches[b] : Branches[b][t] \subseteq Values
    /\ Layout \in [Blocks -> SUBSET Blocks]
    /\ FallsThrough \in [Blocks -> SUBSET Values]
    /\ ReturnBlocks \subseteq Blocks
    /\ Returned \in [Blocks -> SUBSET Values]

(* Control flow stays inside a function, never comes back to its entry     *)
(* (runAnalysis asserts that an entry block has no predecessors), and gets *)
(* into a loop by its header only.                                         *)
ASSUME FlowAssumption ==
    /\ \A b \in Blocks : \A t \in DOMAIN Branches[b] \cup Layout[b] :
          /\ FuncOf[t] = FuncOf[b]
          /\ t # EntryBlock[FuncOf[b]]
          /\ \A l \in Range(Loops) : b \notin Body[l] /\ t \in Body[l] => t = Header[l]
    /\ \A f \in Functions : \A l \in Range(Loops) : EntryBlock[f] \notin Body[l]

VARIABLES
    options,       \* the command line
    mbb2anainfo,   \* per block, a function from contexts to information
    funcIn,        \* per function, the same before and after its execution
    funcOut,
    worklist       \* the blocks and contexts to analyse (again)

info == <<mbb2anainfo, funcIn, funcOut>>
driverVars == <<options, info, worklist>>

-----------------------------------------------------------------------------
(* PartitioningDomain, as a function from contexts to information.         *)

NoContext == [c \in {} |-> {}]

FindEarly(m, ctx) == IF ctx \in DOMAIN m THEN m[ctx] ELSE {}

(* addContext: the information that flows to x is joined in its context.   *)
(* A flow is a place, a context and the values.                            *)
JoinedTo(maps, flows) ==
    [x \in DOMAIN maps |->
        LET old == maps[x]
            to == {f \in flows : f[1] = x}
        IN  IF to = {} THEN old
            ELSE [c \in DOMAIN old \cup {f[2] : f \in to} |->
                     FindEarly(old, c) \cup UNION {f[3] : f \in {g \in to : g[2] = c}}]]

(* What addContext reports as changed: a context that gets more values, or *)
(* that is seen for the first time.                                        *)
Covers(maps, f) == f[2] \in DOMAIN maps[f[1]] /\ f[3] \subseteq maps[f[1]][f[2]]

ChangedByAll(maps, flows) ==   \* mutant: always reports a change
    {<<f[1], f[2]>> : f \in flows}

ChangedBy(maps, flows) == {<<f[1], f[2]>> : f \in {g \in flows : ~Covers(maps, g)}}

-----------------------------------------------------------------------------
(* The analysis of block b in context ctx.                                 *)

IsEntry(b) == b = EntryBlock[FuncOf[b]]

(* What the assertions of runAnalysis and findAnalysisInfo ask for.        *)
HasInfo(b, ctx) ==
    IF IsEntry(b)
    THEN /\ ctx = Append(Front(ctx), CalleeToken(FuncOf[b]))
         /\ Front(ctx) \in DOMAIN funcIn[FuncOf[b]]
    ELSE ctx \in DOMAIN mbb2anainfo[b]

(* An entry block first takes what was propagated to its function.         *)
FromFunctionIn(b, ctx) ==
    IF IsEntry(b) THEN {<<b, ctx, funcIn[FuncOf[b]][Front(ctx)]>>} ELSE {}

WithEntryInfo(b, ctx) == JoinedTo(mbb2anainfo, FromFunctionIn(b, ctx))

BlockIn(b, ctx) ==
    FindEarly(mbb2anainfo[b], ctx) \cup UNION {f[3] : f \in FromFunctionIn(b, ctx)}

BeforeCall(b, ctx) == UNION {Transferred[b][v] : v \in BlockIn(b, ctx)}

(* Behind a call there is what was found so far at the exit of the callee. *)
AfterCall(b, ctx) ==
    IF Callee[b] = NoCall \/ BeforeCall(b, ctx) = {} THEN BeforeCall(b, ctx)
    ELSE IF Callee[b] = External THEN Values
    ELSE FindEarly(funcOut[Callee[b]], CallContext(options, ctx, b))

(* What is joined to the entry of the callee, to the successors of the     *)
(* block, and to the exit of its function.                                 *)
ToCallee(b, ctx) ==
    IF Callee[b] \in Functions /\ BeforeCall(b, ctx) # {}
    THEN {<<Callee[b], CallContext(options, ctx, b), BeforeCall(b, ctx)>>} ELSE {}

ToSuccessors(b, ctx) ==
    {<<t, EdgeContext(options, ctx, <<b, t>>), AfterCall(b, ctx) \cap Branches[b][t]>> :
        t \in DOMAIN Branches[b]}
    \cup
    {<<t, EdgeContext(options, ctx, <<b, t>>), AfterCall(b, ctx) \cap FallsThrough[b]>> :
        t \in Layout[b]}

ToExit(b, ctx) ==
    IF b \in ReturnBlocks
    THEN {<<FuncOf[b], Merge(ctx, {CalleeToken(FuncOf[b])}),
            AfterCall(b, ctx) \cap Returned[b]>>}
    ELSE {}

(* The work that a change causes: the changed blocks, the entry blocks of  *)
(* the changed functions, and the callers that looked for a changed exit.  *)
EntryItemsBare(changed) ==   \* mutant: the context of the call itself
    {<<EntryBlock[x[1]], x[2]>> : x \in changed}

EntryItems(changed) ==
    {<<EntryBlock[x[1]], Append(x[2], CalleeToken(x[1]))>> : x \in changed}

CallSites(blocks) ==
    UNION {{b} \X DOMAIN blocks[b] : b \in {c \in Blocks : Callee[c] \in Functions}}

CallSiteItemsBare(blocks, changed) ==   \* mutant: without the call site's token
    {item \in CallSites(blocks) : <<Callee[item[1]], ReduceOnCall(options, item[2])>> \in changed}

CallSiteItems(blocks, changed) ==
    {item \in CallSites(blocks) :
        <<Callee[item[1]], CallContext(options, item[2], item[1])>> \in changed}

Analyse(b, ctx) ==
    LET blocks == WithEntryInfo(b, ctx)
        toSuccessors == ToSuccessors(b, ctx)
        toCallee == ToCallee(b, ctx)
        toExit == ToExit(b, ctx)
    IN  /\ HasInfo(b, ctx)
        /\ mbb2anainfo' = JoinedTo(blocks, toSuccessors)
        /\ funcIn' = JoinedTo(funcIn, toCallee)
        /\ funcOut' = JoinedTo(funcOut, toExit)
        /\ worklist' = (worklist \ {<<b, ctx>>})
                           \cup ChangedBy(blocks, toSuccessors)
                           \cup EntryItems(ChangedBy(funcIn, toCallee))
                           \cup CallSiteItems(blocks, ChangedBy(funcOut, toExit))

(* Of each function the first block comes first; the order of functions    *)
(* and of contexts is left open.                                           *)
IsFirst(b) ==
    \A item \in worklist : FuncOf[item[1]] = FuncOf[b] => Number[b] <= Number[item[1]]

AnalyseNext ==
    /\ \E item \in worklist : IsFirst(item[1]) /\ Analyse(item[1], item[2])
    /\ UNCHANGED options

DriverInit ==
    /\ options \in Options
    /\ mbb2anainfo = [b \in Blocks |-> NoContext]
    /\ funcOut = [f \in Functions |-> NoContext]
    /\ funcIn = JoinedTo(funcOut, {<<EntryPoint, <<>>, Start>>})
    /\ worklist = {<<EntryBlock[EntryPoint], <<CalleeToken(EntryPoint)>>>>}

-----------------------------------------------------------------------------
(* Properties.                                                             *)

(* Type correctness: information is kept per place and context.            *)
IsInfo(maps, places, tokens) ==
    /\ DOMAIN maps = places
    /\ \A x \in places : \A c \in DOMAIN maps[x] :
          c \in Seq(tokens) /\ maps[x][c] \subseteq Values

TypeOK ==
    LET tokens == Token(options)
    IN  /\ options \in OptionType
        /\ IsInfo(mbb2anainfo, Blocks, tokens)
        /\ IsInfo(funcIn, Functions, tokens) /\ IsInfo(funcOut, Functions, tokens)
        /\ worklist \subseteq Blocks \X Seq(tokens)

(* There is information for whatever is to be analysed, and the context of *)
(* an entry block ends with the call of its function: no assertion fails   *)
(* in runAnalysis and findAnalysisInfo.                                    *)
NoAssertionFails == \A item \in worklist : HasInfo(item[1], item[2])

(* What is pushed on entering a loop is popped on leaving it: the tokens   *)
(* of a context that follow the call of the block's function are those of  *)
(* the loops around the block.                                             *)
ContextsFitBlocks ==
    \A b \in Blocks : \A c \in DOMAIN mbb2anainfo[b] : Fits(options, c, FuncOf[b], Around(options, b))

(* The worklist is complete: a block that is not on it has already passed  *)
(* on all it has, so that analysing it again would change nothing.  Once   *)
(* the worklist is empty this is the check of a reached fixed point that   *)
(* getAnalysisResults does for every instruction.                          *)
CoversAll(maps, flows) == \A f \in flows : Covers(maps, f)

Solved(b, ctx) ==
    /\ HasInfo(b, ctx)
    /\ CoversAll(mbb2anainfo, FromFunctionIn(b, ctx) \cup ToSuccessors(b, ctx))
    /\ CoversAll(funcIn, ToCallee(b, ctx))
    /\ CoversAll(funcOut, ToExit(b, ctx))

WorklistComplete ==
    /\ \A b \in Blocks : \A c \in DOMAIN mbb2anainfo[b] :
          <<b, c>> \in worklist \/ Solved(b, c)
    /\ \A f \in Functions : \A c \in DOMAIN funcIn[f] :
          LET b == EntryBlock[f]
              entered == Append(c, CalleeToken(f))
          IN  <<b, entered>> \in worklist \/ entered \in DOMAIN mbb2anainfo[b]
=============================================================================
