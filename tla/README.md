# LLVMTA in TLA+

LLVMTA computes bounds on the execution time of a machine program: it analyses
the values of registers, explores the states of an abstract pipeline with
abstract caches, and turns the explored states into an integer linear program.
This fork adds a shared second-level cache, several cores, and methods that
bound the interference of tasks on the other cores.

The bound is right only if every abstraction covers what the machine can do.
This directory holds TLA+ modules of the parts that decide that, TLC
configurations that check them on small instances, and proofs, checked by
TLAPS, that most of what they promise holds for every value of their parameters.

Paths below are relative to `src/`; `inc` stands for `include`.

1. The system
2. Modules and the code they model
3. Runs, bounds and fairness
4. Proofs
5. Findings
6. What is not modelled
7. Plan

## 1. The system

    llvmta/llvmta.cpp, lib/LLVMPasses      options, dispatch, one task after another
      |
      |- PreprocessingAnalysis, AnalysisFramework, PartitionUtil
      |     value and address analysis: a worklist over (block, context)
      |- MicroarchitecturalAnalysis, Memory
      |     pipeline states, cycled until an instruction has left the pipeline;
      |     each state owns a memory topology, which owns the caches
      |- PathAnalysis
      |     the graph of the states, weights of its edges, an ILP
      |- Util: UrGraph, Ourmethod, Zhangmethod, Lianginfo, muticoreinfo
            interference of the other cores on the shared second-level cache

The analyser is a sequential program (one loop over paths runs in threads, but
nothing calls it). What runs concurrently is the hardware it describes: two
ports of a memory, a bus shared with other cores, tasks on other cores. Its
hard behaviours are therefore

- *soundness of an abstraction after long histories*: sequences of accesses,
  joins, loop entries and exits that no test enumerates;
- *cycle-level interleavings* in the memory: an access that waits, is tried
  again, is answered while the pipeline is stalled or time is skipped;
- *termination and completeness of fixpoint iterations*, in any order of work;
- *matching of paths of two cores*, where a count has to cover every order.

Nothing is persisted and there are no messages, so that crashes and lost or
duplicated messages do not occur.

### Components

| component | state | operations | what makes it correct |
|---|---|---|---|
| LRU cache set domains (`inc/Memory/LruMaxAgeAbstractCache.h`, `LruMinAgeAbstractCache.h`, `CompositionalAbstractCache.h`) | maximal ages of the tags that must be cached; minimal ages of named tags and one age for all others | `classify`, `update` with an assumed classification, `potentialUpdate`, `join`, `lessequal` | the ages enclose those in the cache, so that hits hit and misses miss; updates are monotone |
| Persistence (`SetWiseCountingPersistence.h`, `ElementWiseCountingPersistence.h`, `ConditionalMustPersistence.h`, `MultiScopePersistence.h`) | per open loop: lines and arrays counted as conflicts, or ages; entry counts | `update`, `potentialUpdate`, `join`, `enterScope`, `leaveScope`, `isPersistent` | a persistent line misses at most once for each entry of its loop |
| Whole cache (`AbstractCache.h`) | one abstract set per index | address to tag and index, `classify` and `update` for address intervals | an access to an interval is reflected in every set it can reach |
| Background memory (`SingleMemoryTopology.h`, `BlockingCyclingMemory.h`, `FixedLatencyCyclingMemory.h`) | one waiting instruction and data access, the one being served, cycles left, cycles blocked by other cores | `accessInstr`, `accessData`, `cycle`, `finished*`, `fastForward` | each access is served once, in bounded time |
| Two-level topology (`OSeparateCachesMemoryTopology.h`) | per port a waiting, an ongoing and a finished access; phase of the data access; the memory | `accessInstr`, `accessData`, `cycle`, `finished*`, `fastForward`, `shouldPipelineStall` | no access is lost, answered twice or refused; levels that missed are updated |
| Contexts (`inc/PartitionUtil`, `lib/PartitionUtil`) | list of tokens for calls and loop iterations | `update` by directives, `transfer`, `reduceOnCall` | pushes and pops match on every path, and the caller finds its callee's result |
| Worklist iteration (`inc/AnalysisFramework/AnalysisDriver.h`, `PartitioningDomain.h`) | information per block and context, work left | `initialize`, `analyse`, handling of calls, branches, returns | ends, in a fixed point, that covers every run |
| Regions and paths of a task (`inc/Util/UrGraph.h`, `lib/Util/UrGraph.cpp`, `OurGraph.cpp`) | numbers and stacks of a depth-first search, the region of each instruction, the graph of regions, the paths through it, execution counts | `getSucc`, `tarjan_it`, `collectUrInfo`, `ceopDfs_it`, `getGlobalUpBd`, `getGlobalLoop` | regions are the loops, the listing ends, every run goes through a listed path |
| Inter-core interference (`inc/Util/Ourmethod.h`) | conflict regions of a path, eviction counts, a dynamic program over two paths | `insert_Triple`, `CRs`, `OutNumber_*`, `DpMaxOutNumber` | no way of running the two paths side by side has more evictions |
| In-order pipeline (`inc/MicroarchitecturalAnalysis/InOrderPipelineState.h`) | four latches and the final one, the pc, the accesses under way, cycles left in execute, assumptions about branches and returns, open scopes | `cycle` with its five stages, branches, `flushPipeline`, convergence | instructions go through in program order whatever branches flush; the answers of the memory are for what the pipeline waits for; scopes open and close with the control flow; nothing waits for ever |
| Exploration of pipeline states (`StateExplorationDomain.h`, `ConvergenceDetection.h`) | a set of states per program point | `cycleUntilFinal`, guards of branches and returns, `join` | every state is cycled on to the successors it assumed; only cycles that change nothing are skipped |
| Path analysis, providers, loop bounds, schedule, Zhang's and Liang's methods, value domain, other pipelines and memories | see `components` in PROJECT.json | | planned or left out, section 6 |

The pipeline calls the topology's `accessInstr`, `accessData` and, each cycle,
`cycle`, then asks for finished ids; the topology classifies in the caches when
it starts an access, calls the background memory the same way one level down,
and updates the caches when an access ends. Driver and transfer functions
communicate through information per context. The inter-core part reads the
classifications and persistence results of all tasks.

Every hazard found in the modelled and in the planned parts is listed in
PROJECT.json at its line, with the properties that guard it or the reason why
none does yet.

## 2. Modules and the code they model

`map` in PROJECT.json gives the source lines of every definition.

| module | models | extends |
|---|---|---|
| `LruCache` | the cache set of the hardware: ages, 0 for the line used last | |
| `LruCacheSet` | must and may domains and their composition, as operators | `LruCache` |
| `CacheSetAnalysis` | executions (`Paths`), each with a cache and the abstract set that describes it | `LruCacheSet` |
| `LruCacheProofs` | lemmas about one set: ages stay distinct and packed, the operators of the domains keep their bounds | `LruCacheSet` |
| `CacheSetAnalysisProofs` | theorems about the cache set analyses | `CacheSetAnalysis`, `LruCacheProofs` |
| `Persistence` | the three persistence analyses, as operators | `LruCache` |
| `ScopePersistence` | executions through loops, with the analyses per open loop and the misses charged to loops | `Persistence` |
| `ScopePersistenceProofs` | lemmas about the operators of counting, theorems about the persistence analyses | `ScopePersistence`, `LruCacheProofs` |
| `AbstractCache` | all sets of a cache under accesses to words, arrays and unknown addresses | `LruCacheSet` |
| `AbstractCacheProofs` | lemmas about addresses, theorems about all sets of a cache | `AbstractCache`, `LruCacheProofs` |
| `SingleMemory` | single-port topology over the blocking memory, as operators | |
| `TimedPort` | what a port promises: each accepted access answered once, in time | |
| `CacheTopology` | both components of the two-level topology over `SingleMemory`, and a pipeline that uses them | `SingleMemory`, instances of `TimedPort` |
| `CacheTopologyProofs` | theorems about the topology | `CacheTopology` |
| `MachineCode` | machine programs as the pipeline decodes them: blocks, targets, loads and stores, loops | |
| `MemoryPorts` | the two ports of the topology as the pipeline sees them | |
| `InOrderPipeline` | one state of the in-order pipeline, cycled until one instruction after the other is final | `MachineCode`, `MemoryPorts` |
| `InOrderPipelineProofs` | what each stage changes and keeps; theorems about the pipeline | `InOrderPipeline` |
| `Contexts` | tokens, directives, transfer along an edge, shortening at calls | |
| `AnalysisDriver` | the worklist iteration | `Contexts` |
| `AnalysedProgram` | the iteration, then a run of the program it analysed | `AnalysisDriver` |
| `AnalysedProgramProofs` | lemmas about tokens: what directives keep of a context; theorems about the worklist | `AnalysedProgram` |
| `Lists` | some elements of a list; the elements of a set in an order | |
| `ConflictRegions` | conflict regions, eviction counts, dynamic program | `Lists` |
| `CoRunner` | two tasks passing through their paths side by side | `ConflictRegions` |
| `TaskCode` | a task as a graph of instructions in call contexts; execution counts; loops in which a line persists | `Lists` |
| `Triples` | the blocks of a region, from classifications and loops | `TaskCode`, `ConflictRegions` |
| `UnorderedRegions` | the search for regions, their graph, the listing of paths | `TaskCode` |
| `TaskRun` | a run of the task, compared with regions and paths | `UnorderedRegions` |
| `InterCore` | from the task to the interference: all of the above | `TaskRun`, `Triples`, `CoRunner` |
| `InterCoreProofs` | lemmas about counts, blocks, conflict regions and tables; theorems about the search for regions and about the dynamic program | `InterCore` |
| `MC*` | values of the constants for TLC | |

Operators that end a comment with *mutant* are changed forms of the definition
below them: PROJECT.json pairs each property with one, and the property is
violated when the mutant replaces the definition. They are in no specification.

**A cache set.** A must state maps each tag to a maximal age, `Assoc` for
absent; the code's sorted vectors with a size are that function's graph. A may
state has minimal ages and one age for implicit tags. `abs[p]` is what the
analyser holds for path `p`, `conc[p]` the cache it never sees. `Access` passes
the assumption as the memory topology does: none, or the outcome the execution
has. `Meet` is the join of two states at a program point. `MaxWorthwhileTags`
is the number of tags beyond which the may analysis gives up being precise about
an imprecise access.

**Persistence.** `entercount` and `info` are `scopes2entercount` and
`scopes2info`. `charged` counts what the constraint of
`StateGraphCacheMissProvider.h:375` counts: misses on a line in the scopes in
which it was persistent. `Allowed` is the right-hand side, one for a line and
the number of lines for an array. `seen` remembers the lines a scope has
accessed. A co-runner (LiangY) loads its lines at any time.

**The whole cache.** Addresses are words; a set interval wraps around as in
`getCacheSetInterval`. `gaveUp` stands for the sets whose persistence has gone
to top. Joins, scopes and equality go set by set and are modelled for one set.

**The memory topology.** A component is a record of what waits, is ongoing and
has finished; `Cycle` follows `OSeparateCachesMemoryTopology::cycle`: start,
cycle the background memory, return early if the pipeline should stall, then
the instruction part and the data part. Each split of the code (unknown
classification, end of blocking, write-back or not) is a member of the set a
step chooses from. A classification is any answer, since the caches' contents
are the subject of the modules above. Assertions that an access is accepted set
`rejected`. The pipeline keeps only what the ports can see of five stages: one
outstanding fetch, one outstanding load or store, and the number of instructions
in between (fetch buffer, IF/ID and ID/EX, `MaxWork`), which branches flush.
This allows everything `InOrderPipelineState` does and more. The analyser
fast-forwards a state that has not changed in a cycle; the model may or may not.
Left out: the two flags that tell the state graph which line was updated or
entered; the strict in-order arbitration (an option); a dependence of latencies
on the number of words (`ServiceTime` has one time per type of access). Ids are
any fresh number, as only their equality matters. Misses are events that keep
a state from being fast-forwarded, which the code does with persistence analysis
on. A bus that is modelled compositionally is the case `MaxBlockingPerAccess = 0`.

**The pipeline.** `core` is one `InOrderPipelineState`; a latch holds an
instruction and the call site its function returns to, which is all of the
context that returns need. The stages are operators from a state to the set of
states that the stage may lead to, so that `Cycle` composes them as `cycle()`
does, oldest instruction first: `WriteBack`, `MemoryStage`, `ExecuteStage`,
`Decode`, `Fetch`. A branch takes effect in execute, or in memory if it loads
the pc (`CheckForBranches`); each of its directions is a state of its own that
carries an assumption, and the driver (`Advance...`) goes on where the
assumption at the front says, as `guardBranches` and `handleReturn` do. `Flush`
drops what was fetched and leaves the scopes it had entered. Execution times are
a set of cycles left; the code's table of times by operands is the program's
`times`. `Require` sets `failed` where the code asserts. Three fields are
history: `failed`, `arrived` (the address of the word fetched last) and
`leaked` (scopes that a flush did not leave, section 5). The ports are what
`TimedPort` promises and `CacheTopology` implements: an access waits, is
ongoing, and is answered in some later cycle, and the memory may stall the core
in any cycle in which an answer is due. Unblocked stores are off. Addresses are
positions in the program; those behind it hold no instruction, and one of them is
the link register the analysis starts with, where the program ends.

**Contexts and driver.** An abstract value is a set and joins are unions, which
is what the analysis over sets of pipeline states does; the transfer functions
are parameters. A block holds at most one call, a call has at most one callee
whose body is known (`CallGraph.cpp` gives up on others), recursion is not
supported by the code. The code takes blocks in the order of their numbers, but
functions and contexts in that of their addresses: the model leaves that open.
After the iteration `AnalysedProgram` runs the program: `run` holds a block, a
value, the iterations of each loop and a call stack, and `RunContext` derives
from them the context that the analysis should have foreseen.

**Regions and paths of a task.** `TaskCode` keeps a task as blocks of numbered
instructions, the numbers being the order of their objects, in which the code's
maps are kept. `Succ` is `CtxMI::getSucc`. `UnorderedRegions` has `UrGraph`'s
fields under their names; `Visit` and `Finish` are the two halves of a round of
`tarjan_it`, `EnterRegion` and `LeaveRegion` those of `ceopDfs_it`, and
`CollectUrInfo` runs at once. `ur_size`, never read, is left out, and paths found
again over a second edge are kept once. `TaskRun` is the program that is analysed:
it takes any branch, and per entry of a loop as many back edges as the bound says.

**Inter-core interference.** `InterCore` gives each path to `insert_Triple`, whose
blocks have a classification, a count, an age and a capacity. `TakePath` and
`CoRun` are the two loops of `OurM::run`; `CoRunner` then moves the task and the
other core through their regions in any order; loads and executions happen in any
order within a region, as often as their counts allow. Each instruction starts a
line of its own, so an address stands for its line. Marked lines are a set instead
of the bits of an `int`. The capacity of a persistent block is at least 1. The
paths of the other core are given as blocks. As in `cleanUR`, blocks that hit in the
first level are neither counted (`LoadsOf`) nor loaded (`Load`), also where another block
of the same line reaches the second level; `pending` has the loads left of each line. A line
that does reach the second level in a region is loaded there once at least
(`CoRunnerPathsAssumption`): the blocks that are made of an instruction count its executions
together, and only where first-level hits were split off is it possible that less than one is left.

## 3. Runs, bounds and fairness

Deadlock is checked where the system goes on for ever. It is not checked in
`analysed_program`, `inter_core` and `in_order_pipeline`, where a program ends, and in
`unblocked_stores`, where the model stops at a failed assertion.

| run | shows | bounds, and why they are enough |
|---|---|---|
| `cache_set` | must and may ages enclose the cache (`MustSound`, `MaySound`), hence `ClassificationSound`; the assertion of the must update holds for accesses that hit (`HitAssumptionIsLegal`); `StackBounded` (at most i + 1 lines of maximal age at most i), `SubStackConcrete`; updates are monotone | 2 ways, 3 tags, 2 paths: a set overflows, and all pairs of states meet. No bound on the length of histories; symmetric in tags and in paths. The other properties are per path and join, and proved in general, `UpdateIsMonotone` relates pairs |
| `pers_paths` | set-wise and element-wise counting: no line is charged twice, the join is an upper bound, updates are monotone | 2 ways, 3 lines, 2 paths, 1 scope opened and closed any number of times |
| `pers_shared` | conflicts bound ages, and no line is charged twice, with a co-runner, an array, two scopes that open and close in any order | 3 ways, 3 lines of the task, 1 of a co-runner, an array of two lines; at most 2 entries of an open scope (`MaxEntries`); nothing depends on the count beyond zero, one, more |
| `cache_four_sets` | each set is described, interval classifications hold, arrays are persistent only where every set agrees | 4 direct-mapped sets of 2-word lines, 2 tags, 16 words of address space; arrays in one line, over 2 or 3 sets, over the last set, as long as a way or longer, and the unknown address. Associativity is the subject of `cache_set` |
| `cache_topology` | each access is answered once and in time (`FetchPortSpec`, `DataPortSpec`: refinement of `TimedPort`), none is refused, none is in two places, no completion is missed, missed levels are updated, hits take their latency; with the phases of a data access (`TypeOK`) | 9 ids (more than can be in flight, so that fresh ones are always there), at most 1 blocked cycle, latencies 1 and 2, so that both ports can finish together or one after the other; 3 instructions in flight; one access per instruction; policies: write-through and write-back, allocating or not, unblocked stores, stalled cores |
| `analysed_program` | no assertion of the driver fails, contexts fit their blocks, the worklist is complete, the iteration ends, every run is covered | 3 functions, 10 blocks, 3 loops (nested, with an early exit from the inner one), calls in a loop and behind it, 3 values, 3 settings of peeling and token numbers; every order of functions and contexts |
| `in_order_pipeline` | no assertion of the pipeline fails and the driver finds the assumption it needs (`NoAssertionFails`); what is in flight is a path of the program, and the assumptions are about its branches in order (`InProgramOrder`); what the pipeline waits for is what the ports have (`PortsServePipeline`); scopes balance over wrong paths, and none is left that was not entered (`ScopesFollowFlow`); a converged state stays as it is (`FastForwardSound`); every instruction becomes final (`EveryInstructionRetires`) | 20 instructions: a call directly before a loop, a jump table that is loaded, a predicated return and one that loads the pc, a load whose user follows, two accesses of one instruction, execution times that overlap with stalls, three loops of which one calls; 2 entry points; both arbitrations. 4 access ids per port: three can be known to a port, the fourth is new |
| `inter_core` | regions are the loops of the task, listing its paths ends, and a run goes through one of them (`CeopsCoverRuns`); no matching of two paths has more evictions than `DpMaxOutNumber` (`MatchingsWithinBound`); a persistent line is evicted at most as often as counted, and once more for each passage of the other core after the first (`EvictionsWithinOuts`) | regions: all 729 graphs of four blocks with one or two successors, and 4 tasks: a branch and a function called twice, a function called before, in and after a loop, nested loops with a line that persists in both, and a loop without preheader. `MaxPath` 20 is more than any of them has regions; it stops only the search that does not end. Interference: 3 ways, the paths of these tasks, 30 paths of up to 4 regions of the other core. Of its lines there are 3, as many as ways; a region has one line, two, or a line that also hits in the first level; two of the paths load so that a line is evicted once more than counted |
| `pers_array_limit`, `pers_condmust`, `cache_long_array`, `unblocked_stores` | one violation each, section 5 | as the passing runs |

Properties that could look like more than they are:

- `PersistentInEverySet` leaves out arrays whose sets wrap around; there the
  code asks the first set only, a hazard that is listed.
- `EvictionsWithinOuts` allows more misses than counted, `PassedAgain` of them: the count of
  `OutNumber_PersistentBlock_add_with_continue` is too low if the other core passes on more
  than once while the task stays in a conflict region. Regions that load u, then v twice,
  then w evict a line of capacity 2 twice, and one eviction is counted (three lines over regions,
  divided by two). The property says how much may be missing: one miss for each passage
  after the first. While the other core passes on at most once, nothing is.
- `CeopsCoverRuns` asks for regions that are loops, and for an end of the
  listing, where no loop of several instructions is entered by more than one edge
  (`Preheaded`). Otherwise regions are parts of loops, and the listing need not
  end (section 5). Where it does end, its paths must cover all runs in either case
  (`RunsAreListed`).
- No property compares the counts that UrGraph and OurM compute with the executions of a
  run. A run takes as many back edges per entry of a loop as its bound says, hence executes
  the header once more than the bound, by which the counts are multiplied (section 5): such a
  property is known not to hold.
- `HitsTakeTheirLatency` uses the instruction cache's latency where the code
  does so for data. In every configuration the two are equal.
- `LevelsUpdated` speaks of fetches, and of loads behind a write-through cache:
  behind a write-back cache the code ends a load that missed both levels after
  updating the second.

**Fairness.** `WF_vars(AnalyseStep)` in `AnalysedProgram` stands for the loop
`while (!worklist.empty())`; the iteration does nothing else and cannot be
interrupted. `Fairness` in `InOrderPipeline` says three things of the machine: the
core is cycled and stalls end (`WF_tick(Running)`: `cycleUntilFinal` is a loop,
and the cycles a co-runner blocks the bus are bounded); the driver takes the
next instruction once one is final (`WF_vars(Advance)`); and a port answers what
can be answered (`WF_tick(Answering(port))`), which is weaker than the bound in
time that `FetchPortSpec` and `DataPortSpec` show of the topology. With strict
arbitration a fetch may wait for as long as an earlier instruction could still
miss (`MissesPending`), so no answer is assumed then. The actions are fair with
respect to `tick`, since a cycle may leave everything else as it was; deciding
branches is not fair, so a loop may be taken for ever, and
`EveryInstructionRetires` allows it. In the topology the promise that each access is answered is
a bound on time, hence a safety property, and needs none.

## 4. Proofs

The theorems hold for all values of the constants that satisfy the named
assumptions in the modules they extend. `LruCacheProofs` holds
lemmas, the other proof modules the theorems.

**Cache set** (`CacheSetAnalysisProofs`). Assumptions: the associativity is
positive, the tags are any finite set, the paths any set. The
inductive invariant is type correctness with `MustSound` and `MaySound`. The
classifications alone are not inductive: that a line hits says nothing of the
ages of the others, by which the next miss evicts. The argument goes from the
hardware (`TouchLru`: ages of cached lines stay distinct; `FewLinesCached`: a set
holds at most `Assoc` lines, by an injection into the ages) to each operation of
each domain (`MustUpdateSound` ... `MayJoinSound`), to their composition
(`UpdateSound`, `PotentialUpdateSound`, `JoinSound`), and to the steps
(`NextIInv`). From the invariant follow:

- `TypesCorrect`, `MustIsSound`, `MayIsSound`: `TypeOK`, `MustSound`, `MaySound`;
- `ClassificationIsSound`: hits hit, misses miss;
- `HitAssumptionLegal`: the assertion "Full cache and addr not in there" does not
  fail on an execution that hits, since the lines of a full must set are all
  the lines of the cache;
- `StackIsBounded`, `SubStackIsConcrete`: n + 1 lines of maximal age at most n
  would be n + 1 cached lines of n different ages;
- `UpdatesAreMonotone`: the better of two states is the better one after an
  update too. The proof needs no histories: `LessEqualByAge` reads the order off
  the ages, and the new age is a monotone function of the old one and of the age
  of the line accessed (`UpdateMonotone`, `PotentialUpdateMonotone`); the
  property is about updates that assume neither hit nor miss
  (`AccessedAgeUnassumed`).

The lemmas down to `JoinSound` are about one set and one cache (`LruCacheProofs`).

**Whole cache** (`AbstractCacheProofs`). Assumptions: the geometry adds up
(`GeometryAssumption`), and arrays lie in the address space (`IntervalsAssumption`).
The invariant is `EverySetIsDescribed` with typing, its step the lemmas about one set. What
is new is which sets an access can change: `getCacheSetInterval` has to name the set of
each line that may be meant (`SetsCovered`), whether the sets wrap around
(`SetsOfRun`), the array is longer than a way, or the address is unknown and its length
overflows to zero (`WordsAfter`). This is false for the arrays of the finding
`cache_long_array`, so the theorems have the hypothesis `ArraysFit`: an
array whose last line is a way behind its first is as long as a way. Every array that
starts at a line satisfies it, as do all of the run `cache_four_sets`. From these follow
`SpecEverySetIsDescribed`, `SpecIntervalClassificationSound` (one answer for all lines
holds for each), `SpecPersistentInEverySet`, which needs no invariant, and the
action property `SpecImpreciseUpdateSpansSets`: without the hypothesis the very
property that the finding violates.

**Persistence** (`ScopePersistenceProofs`). Assumptions: the associativity is
positive, the tags are any finite set, paths and scopes any sets; an array lies in lines of its own, of
which a set holds at most `PerSetSize`, and is not itself a line
(`ArraysAssumption`, `NoArrayAssumption`); lines of co-runners are tags no array
contains, and are only there with Liang's option on (`CoRunnerAssumption`).

`AgeWithinConflicts` is not inductive: a number bounds an age, but a join adds
blocks of two paths, and whether the sum still bounds the ages depends on
*which* lines were counted. The invariant names them (`Accounts`): every line
that is younger than t is a block the scope has counted, a line of a co-runner,
or one of at most n lines of an array that was accessed n times. With it goes
that the ages below that of a line the scope accessed are all taken (`Packed`), so
that the age of t is no more than the number of lines younger than it. Lemmas
take `Accounts` through each operation
(`AccountsFresh` ... `AccountsJoin`), and `AgeWithinAccounts` turns it back into
the bound. Misses need a
second invariant (`ChargedOnce`): a line charged to an open scope has been charged
once, and has been accessed in the scope, so that its next access finds it
cached as long as it is persistent (`PersistentIsCached`). From the invariant follow:

- `PersistenceIsTyped`: `TypeOK` of `ScopePersistence`;
- `ConflictsBoundAges`: `AgeWithinConflicts`, without further conditions;
- `PersistentLinesMissOnce`: `LineMissesWithinEntries`, where counting is right
  (`CountingIsRight`): the analysis is not the conditional must analysis; there
  are no arrays or Liang's limit is tested after the count; and the co-runner
  lines of set 0 are not fewer than those of the set looked at. Each condition
  is needed: without the first two the property fails as section 5 says, without the
  third as the hazard at `SetWiseCountingPersistence.h:321` says;
- `PersistentMissesWithinEntries`: all that `pers_paths` checks, where there are no
  arrays;
- `JoinsAreUpperBounds`, `PersistenceUpdatesAreMonotone`: for programs without
  arrays (the configuration of `pers_paths`). They need the invariant only to know
  that what is kept is within the limit (`WithinLimit`), since the order of
  the element-wise analysis is not reflexive above it. With arrays both fail
  for the reason of the first finding of section 5: information that holds
  `Assoc + 1` conflicts is not below its join with itself.

**Memory topology** (`CacheTopologyProofs`). Assumptions: latencies and service
times are positive, write-back caches allocate on writes, and there are nine ids: a port knows
three accesses, the pipeline two, and the id of an access of the memory is neither
one that the memory knows nor one that a port waits for, which makes eight at most.

None of the properties is inductive, and none is so within a cycle, in which the
memory, the fetch port, the data port and then the pipeline move one after the other.
The invariant `IInv` holds between cycles. Its part about the topology, `Whole`, holds
between any two of the calls a cycle is made of, so each call has one lemma
that says what it keeps (`MemoryCycledOK`, `CheckInstructionPartOK`, `CheckDataPartOK`,
`StartInstructionAccessOK`, `StartDataAccessOK`, and one per phase below them). `Whole` says:

- which phase goes with which access of the memory (`DataPhase`, `FetchPhase`), and
  that it is one the memory has queued, serves or has just ended (`FetchSide`,
  `DataAccessOK`). What an unblocked store waits for need not be known there any more;
- whose the memory's queue of data accesses is (`OwnsQueue`): unless stores are
  unblocked, nothing is queued but what the ongoing access waits for. This is what keeps a store or a write-back from
  being refused, and it is lost when a store is answered while it is still queued;
- that the ports wait for different accesses (`Apart`), hence that the end of one is
  not taken for the end of the other;
- what an access has updated so far (`FetchPhase`, `LoadLevels`): nothing in the first part of
  the way, the second level in the second.

The order within a cycle matters in `FetchUnmissed` and `DataUnmissed`: they fail between
the memory's cycle and the port's, and hold again once the port has moved, which is why the end of an access is never
missed. `Clock` adds up: the cycles a hit has been on its way and those its cache
still counts down make its latency; fast-forwarding does not break it, since the
topology is not fast-forwarded while a data access is in a cache (`NoHitIsSkipped`). For the pipeline, `InPort`
and `OnlyPlace` say where the awaited accesses are; the fetch port may also hold one that a
branch has given up, the data port never does. From the invariant follow, for every policy:

- `SpecAccessInOnePlace`, `SpecNoCompletionLost`, `SpecLevelsUpdated` and the action
  property `SpecHitsTakeTheirLatency`;
- `RejectsOnlyUnblockedStores`: an access is refused only if stores are unblocked and
  the cache does not allocate on writes, which is the finding of section 5. Where no policy
  combines the two (`StoresFit`): `SpecNoAccessRejected` and `SpecTypeOK`.

That the data port refines `TimedPort` (`SpecDataPortSpec`) takes a second invariant,
`InTime`. From the state of an access and of the memory it reads off the cycles that the access
takes at most and at least until it is answered (`AtMost`, `AtLeast`); with its age they
stay within `DataMin` and `DataMax` (`Within`), which are the extremes, over the ways an
access can take, of sums of latencies and of `RoundTrip`: an access of the memory that waits for
a fetch. The waits are made of `Remaining`, what the access being served still needs with all
the blocking it may yet meet, and `Timed` bounds that by the time of a load. The
argument follows the cycle: the memory's part takes one cycle off what is
waited for (`MemoryTakesItsTime`, `HalfWayThere`), the port's takes one off the rest
(`CycleInTime`, with a lemma for each phase), the pipeline starts an access at age 0
(`StartDataInTime`), and what fast-forwarding skips is taken off the wait and put on the age
(`SkipTakes`, `AccessSkips`). Assumed are `StoresFit`; `LongestLoad`, no access takes longer in
the memory than a load, as stores write words and the others move lines; and
`NoneStalls`, no core is stalled while the bus is blocked, since then the caches do not
count either and the bounds would have to grow with the blocking of fetches.
With stalled cores, and for the fetch port, the bounds stay with TLC.

**Worklist** (`AnalysedProgramProofs`). Assumptions: those on the program's
shape in `Contexts` and `AnalysisDriver`. Besides typing they are
`NestingAssumption`, two loops are nested or apart, the list has inner ones
first, and the header of an outer loop, which dominates the inner one, is not in it; and `FlowAssumption`, branches stay in their function, do not go to its entry
block, and enter a loop at its header. That is what LLVM's natural loops
are, and what the assertion of `AnalysisDriver.h:248` relies on.

The first invariant is
`Shape /\ WorklistComplete`, where `Shape` says which places have information
and that work consists of blocks with contexts. The core is `AnalyseComplete`:
after a block was analysed, what it passes on is covered where it went
(`JoinedCovers`); what was covered stays covered (`CoversGrows`); a block whose
own information changed is reported (`JoinedSame`), and the callers that read a
changed exit are put back (`CallSiteItems`). From it follow `WorklistIsComplete`
and `EndsInFixedPoint`, which is the check that `getAnalysisResults` makes and
aborts on, whatever order the blocks were taken in.

The second (`TInv`) adds `TypeOK`, `ContextsFitBlocks`, that every item of work has
information, and `NoAssertionFails`. Its core is `EdgeContextFits`: an edge turns a
context that fits its source into one that fits its target. The loops left come
inner first, so each finds its token on top when its turn comes
(`LeaveLoopsLays`); a back edge exchanges the token on top (`TransferLays`); an edge
enters one loop at most, whose body lies within those around
(`EnterLoopsLays`). That it holds for any nesting and any number of peeled
iterations is what the run with three loops cannot show. From it follow
`InformationIsTyped`, `NoAssertionEverFails` and `ContextsAlwaysFit`.

The third (`RInv`) is soundness: `RunIsAlwaysCovered`, that the analysis expects the
run wherever it gets. The run knows nothing of contexts; `ContextIn` computes the one it
is in from its call stack and the iterations it has counted. What is proved of
contexts is therefore their exact shape (`Lays`): what there was at the call, the
call's token, and for each loop around the block the token with as many iterations as were
counted. An edge keeps this (`EdgeContextLays`), and no other context has it (`LaysUnique`),
so the successor gets the very context the run is in there (`RunEdge`). At a call the
context is shortened. The analysis shortens at each call what it had shortened at
the calls before, the run once for all its calls; that both agree is `ReduceAbsorbs`:
clearing all but the newest tokens of a kind need not be repeated
(`ClearTwice`, `ClearAbsorbs`), and the two kinds can be cleared in either order
(`ClearCommutes`). The invariant says of each call on the stack that it was
expected where it was made (`Pending`): on return, the information at the callee's exit is looked
up in the context the call went in with (`OuterCall`), so the run is expected behind
the call as well. Each step then follows from the fixed point
(`ExecuteExpected`, `CallExpected`, `BranchExpected`, `ReturnExpected`). The
theorem holds for any call depth, recursion included, and any numbers of peeled iterations
and of tokens kept. Its hypothesis, `ReturnsOutsideLoops`, is the hazard at
`AnalysisDriver.h:547`: a predicated return inside a loop leaves the loop's token on top, and what is
joined at the exit is not found by the caller. The run's program satisfies it.

**In-order pipeline** (`InOrderPipelineProofs`). Assumptions: the program ends in an
instruction that does not fall through (`EndAssumption`); a jump has one target and a
call one callee (`DirectAssumption`: `handleBranch` and `handleCall` set the pc to it);
and of the branches only jump tables and returns load the pc
(`PcLoadAssumption`, the assertion "Unexpected opcode" of
`InOrderPipelineState.h:1176-1179`). `CodeAssumption` also says that an instruction has
finitely many execution times: they are a `std::set` out of a table
(`InOrderPipelineState.h:203,361`). Neither the fairness nor a bound on the ports'
answers is used: what is proved holds whenever and in whatever order the ports answer.

A cycle is the composition of its stages, and each stage is an operator from a state
to the states after it. So the invariant is an operator on states too, and there is a lemma
for each stage that says what it changes (`WriteBackIs`, `MemoryStageIs`, ... `FetchIs`)
and one for each invariant that it keeps. The first invariant (`Consistent`) says

- which address is being fetched and for which instruction data is (`Fetched`, `Waits`).
  In the middle of a cycle an answer may have come that the memory stage has not
  seen (`Pending`), and a flush leaves the fetch of a given-up address under way until fetch
  starts the next one;
- where instructions are (`Placed`): of what holds no instruction only the end of the
  program is fetched, and it is never decoded;
- that nothing is fetched behind an instruction whose successor is not known, from its fetch
  until its branch is handled (`Stops`), for jump tables and returns that load the pc until
  they leave the memory stage. This is what makes a flush complete: it clears IF/ID only, and
  everything younger than the branch is there (`Cleared`).

From it follow `SpecTypeOK` and `SpecPortsServePipeline`. The second (`OrderInv`) names the
witnesses that `InProgramOrder` counts off: for each of the last three latches the assumption
about its branch and where it returned to (`Order`). The sequences that a state carries are
those of the three latches, the oldest first, each of one element or none (`Three`).
Handling a branch appends the one of the youngest (`ThreeAppends`), write back moves one
on, and the driver takes off the first (`ThreeStarts`). That the driver goes
where the pipeline went (`AdvanceKeepsOrder`) is where the assumptions on the program are
needed, as for dropping an address that holds no instruction (`GoesOut`): it can only have
been the end of the program, behind a return that goes there. From this follow
`SpecInProgramOrder` and the driver's part of `NoAssertionFails`: it finds the
assumption about each final branch in front.

The third (`EndInv`) says that once the driver has left the program only what was fetched
behind its end is in flight, so that nothing becomes final any more. The fourth
(`StageInv`) is about the stages' own assertions: none has failed, execution times are there
exactly when an instruction is in execute (`Timed`, `CycleNeverFails`), and a state that is
said to have converged is `Frozen`, unless the topology stalled it. Convergence
compares the state before and after one cycle, and it is not obvious that the next
cycle changes nothing either: an instruction could have moved on while another took its
place. `ConvergedIsFrozen` shows, from the oldest stage to the fetch, that the oldest
instruction that had moved would have left a difference. The times left in execute shrink each
cycle unless they are `{0}`; it is here that they must be finite. What is
frozen waits for the data port or is empty (`FrozenIsBusy`), which is what the code
asserts, and stays so in a cycle in which no port answers (`FrozenStays`).
From these follow `SpecNoAssertionFails` and `SpecFastForwardSound`.

That scopes follow the control flow (`ScopesFollowFlow`) is left to the run. As stated it does not
hold for every program: an address of the model carries one call site only, so that
within a call that is itself within a call `IsInside` does not see the scopes around the
outer one. The run's program has calls one deep, and there it does.

**Regions of a task** (`InterCoreProofs`). Assumption: calls name blocks of the
task and end no block (`TasksAssumption`). `SuccessorsAreVisited` says that the branch of
`tarjan_it` for a successor not yet visited is dead, `EveryInstructionGetsRegion` that
no look-up of `collectUrInfo` misses. Neither asks that a loop has one entry: with
several, regions are split (so that `CeopsCoverRuns` does not ask there for the loops themselves), but no instruction is
lost. Instructions may be visited twice and be on `ur_stack` twice, so the invariant
`TarjanInv` does not say that they are there once. It says that each open visit's
instruction is there (`Open`), that in front of each of its places there is
one of the visits opened later (`Nested`), hence that closing a region takes no
instruction of an open visit away, and that the first instruction is never visited again, is
at the bottom, and takes all that is left with it (`StartIsLast`).

**Paths of a task** (`InterCoreProofs`). `RunsFollowCeops` is `Spec => []RunsAreListed`, the
part of `CeopsCoverRuns` that the bound rests on: once `ceopDfs_it` has ended, whatever
instructions a run of the task goes through, it goes through the regions of one of `tmpCEOPs`, or
through the first of them. It holds for every task, with loops of several entries
too, and says nothing of a listing that does not end. There are two halves. `SuccessorsLead`: an
instruction's successor lies in the same region or in one that `ur_graph` has an edge to; so a run is a walk through `ur_graph` (`RunIsWalk`).
`WalksAreListed`: during the search, each walk is the beginning of a path listed, or of what
`tmpPath` will be when some visit comes, with that visit's region next
(`WillList`). `tmpPath` at a visit to come is known, since each visit that ends takes one region off
(`PathsBefore`). Entering a region hands the walks through it on to the visits of its
successors (`RegionIsEntered`), or lists them if there are none (`VisitIsOver`). That paths do not
come to a region twice is not needed.

**The match of two paths** (`InterCoreProofs`). `BoundCoversMatchings` is
`Spec => []MatchingsWithinBound`: the task takes a path of its own, the other core any path of
`CoRunnerPaths`, and wherever the two cores are when the task leaves a conflict
region, what is counted so far is within `DpMaxOutNumber`. Assumptions: the
classes of a task are those `insert_Triple` does not assert about, a second-level hit is younger
than the cache has ways, and a line persists only with as many others as fit
(`AccessesAssumption`); the other core's paths are of blocks and not empty (`CoRunnerPathsAssumption`);
a block that persists has room for a line (`Blocks`, else `OneBlock` divides by zero).

The program keeps one row per set of lines that are out, and skips a start of the other core
that is as good as the one before. So the row that covers a match is in general that of
another match, which started the other core's stretch earlier. The argument has
three parts. Who passes through more regions evicts persistent lines at least as often:
the load queue is longer and its r-th entry greater (`LoadQueueGrows`), every
greedy eviction keeps it so (`EvictedBelow`, by counting how many entries are at least w),
unless both queues fall short of the capacity, and then the
rest of the count, which comes from the number of lines per region, makes up for it (`OneBlockBelow`,
`OutsGrow`). Who passes through more regions also puts
more lines out of the set (`EndangeredGrow`); those that were out there already are
not counted again, but there are not more of them than what was counted for them
(`MatchGrows`). Hence the invariant `Counted`: some row of the table has all lines out that are out
here, and is at least what is counted here and the number of the lines that are out there only.
`CountedStep` keeps it from one region to the next, and `DpMaxBounds` takes it to the last table.

What the table is about is computed by the modules before: `PathTypes` says that regions
are lists of instructions of the task and paths lists of regions, `TriplesType` that the
blocks made of them are blocks, `CRsType` that conflict regions are finite sets and
lists of such. They rest on `TarjanInv`: every instruction with a region has successors
with one.

**What a region counts** (`InterCoreProofs`). `EvictionsAreCounted` is
`Spec => []EvictionsWithinOuts`, for all paths of the other core that satisfy
`CoRunnerPathsAssumption` and however many regions it passes through.

The code forgets lines and order: it sorts the loads of a region, adds regions up rank by
rank, takes one load of each of the `cap` most loaded lines per eviction, and for
what is left divides the number of lines over all regions. The execution loads lines in
any order, and a miss takes at least `cap` lines that were loaded since the last use, of one
region or of several. What connects the two is a set of misses and a condition on it: k
misses can take no more than min(k, f[l]) loads of a line loaded f[l] times (`Supply`), and
every part of the misses must find what it takes (`Demand`, `Served`; Hall's condition).

The invariant `MissInv` says that the misses so far are executions that have been, and that they fall into
three parts (`MissesKept`): misses whose loads all come from one earlier region, served by
the queue of the regions left behind; misses whose loads all come from the current region; and
misses across regions. Those of the first kinds are kept served step by step: the loads that served misses, the
loads left and the lines loaded since the last use are together no more than the region has
(`Serves`, `ServedLoad`, `ServedUse`); sorting keeps the supply (`SupplyOfDecreasing`), and adding up
queues supplies what they do one after the other (`SupplyOfSum`, `OneRegionMore`). Of the misses
across regions there is at most one for each passage, since a miss is itself a use of the line, so that the
next one across regions comes in a later region: `UsedSince` and `UsedBefore` differ by one, according to whether the line
has been used in the current region (`OneMissMore`, `PassingKeepsMisses`). Each of them takes no more lines
than there are over regions (`Across`, `QueueWithinLines`).

Counting takes misses away again: an eviction of c lines leaves all but
any one of the misses served that take c lines or more (`SupplyEvicted`, `CoveredEvicted`), blocks
are counted smallest capacity first, so that is all of them, and if the queue is too short for
another eviction, what can be left is misses across regions. One of them the division of the
lines over regions counts (`CoveredAtEnd`, `OneBlockCovers`, `OutsCover`); the others are those of the
passages after the first, `PassedAgain` (`MissesCounted`). One for each is the price of
forgetting, per passage, which lines it takes.

**Recursive functions.** The folds over loops, tokens, blocks and lines, the flattening of lists, the choice of elements
of a list, the queues and tables of the dynamic program and the sum over arrays are recursive functions, for which the prover has no usable induction theorem. That
such a function exists, and its type, are shown by least counterexample
(`LeastNumber`): were there a size at which it does not, there
would be a least one, and one smaller would do. `Recursion` and `SetRecursion` say so
once for all functions over the numbers up to n and over the subsets of a finite set.

**Only model-checked**: the array part of `MissesWithinEntries`; the bounds on the answers of the fetch port (`FetchPortSpec`), and of both ports when cores are stalled; of the pipeline
its scopes (`ScopesFollowFlow`); that regions are the loops of the task, so that
listing its paths ends (the first two parts of `CeopsCoverRuns`): instructions are visited twice, also
after their region is closed, so the usual invariants of Tarjan's search do not hold. Out of the prover's reach are the liveness properties
`IterationEnds` and `EveryInstructionRetires`.

## 5. Findings

- `inc/Memory/SetWiseCountingPersistence.h:228` tests the limit before it counts
  the array access, so that `Assoc + 1` conflicts still count as persistent
  (`pers_array_limit`). Such information is not below its own join in the order of the
  element-wise analysis either, so the theorems about order are for programs without arrays.
- `inc/Memory/ConditionalMustPersistence.h:134` returns on the first access of a
  line without ageing the others, so that an evicted line stays persistent
  (`pers_condmust`).
- `inc/Memory/AbstractCache.h:595`: an array just shorter than a way that starts
  late in a line ends in the set it starts in; one set is updated, and the
  assertion "Could have performed precise update" fails (`cache_long_array`).
- `inc/Memory/OSeparateCachesMemoryTopology.h:1471` asserts that the memory takes
  the store of a write miss; with unblocked stores the store before it may still
  be queued behind a fetch (`unblocked_stores`).

Met while modelling the pipeline, and left out of its properties by `leaked`:

- `inc/MicroarchitecturalAnalysis/InOrderPipelineState.h:861`: a flush leaves the
  scopes that the address in pc had entered only if its fetch was accessed. With
  strict arbitration a branch that is taken while its fall-through enters a loop,
  and without it a call in IF/ID directly before a loop that is itself flushed,
  leave the loop's scope entered. A jump table or a predicated return directly
  before a loop enters it twice. Two states at one program point then differ in
  their scopes, and the join of `MultiScopePersistence.h:177-186` asserts that
  they do not.
- `:610`: `getACL` files a data access under the context of the instruction that
  is awaited, not of the one in the memory stage (not modelled).

Met while modelling the way from a task to its interference:

- `lib/Util/UrGraph.cpp:391`: an instruction that was pushed twice is visited
  twice. If it is the header of a loop of several instructions with two
  predecessors outside, as when an if-then ends in the header, the second visit
  comes after the loop's region was taken off the stack, and the header becomes a
  region of its own. The graph of regions then has a cycle, and `ceopDfs_it` does
  not end (`MCNoPreheader`, cut off by `MaxPath`).
- `inc/PathAnalysis/LoopBoundInfo.h:140-142` says that a bound is the number of
  back edges per entrance, "one less than the loop iteration count per entrance";
  `UrGraph.cpp:461-530` and `Ourmethod.h:1259` multiply executions by it, and
  `FlowConstraintProvider` bounds back edges by it. Counts are one round too low for each
  entry of a loop; no run shows it, the model (`Count`, `PSTriple`) keeps it. `GgetUpperLoopBound`
  (`LoopBoundInfo.cpp:713`) returns the bound of the context it sees last, not the
  largest.
- `inc/Util/Ourmethod.h:1259` declares a second `b`, so `x` stays 1 and the count
  of a line that persists in an inner loop lacks the rounds of the outer ones (the
  version for data, `:1311`, has them). The sum is kept by the block that remains,
  as an access that is not persistent; with a bound of 3 inside of one of 2 that
  block's count is negative (`MCNested`, the call before the inner loop).
- `inc/Util/Ourmethod.h:590` and `:628` count a hit as out when its age and the lines loaded
  are more than `L2assoc`. Ages start at 0 (`LruMaxAgeAbstractCache.h:83`), and a line of age a is
  out after `L2assoc - a` others: the room that `:222` and `:54` give the same hit in a loop. A
  hit that is executed once is counted out one line late.
- `inc/Util/Ourmethod.h:755-763`: evictions that take loads of several regions are counted by
  dividing the number of lines over all regions, which counts too few if the other core passes
  on more than once (`EvictionsWithinOuts`, section 3).
- `inc/Util/UrGraph.h:113`: a call that is the last instruction of its block fails
  the assertion when the search comes back from the callee.

## 6. What is not modelled

- *Of the in-order pipeline*: calls to external functions, the table that turns
  operands into execution times, metrics, `getACL`, unblocked stores, and
  `InOrderCacheState`, which analyses caches without a pipeline. *Of the
  exploration of its states*: the set of states itself, joins that return after
  the first partner (`StateExplorationDomain.h:704-727`) and the lists of work;
  the model follows any one state of the set.
- *Of UrGraph, OurGraph and OurM*: data accesses, transient instructions, finding
  the instruction of a classification by its tokens, several co-runners, `runP`.
- *Zhang's and Liang's methods, schedule, state graph*: planned below.
- *Out-of-order and PRET pipelines*: the multi-core methods need the in-order
  one; a model of Tomasulo's algorithm would be a project of its own.
- *Value and address analysis, loop bounds*: transfer functions of single
  machine instructions and LLVM's scalar evolution; they enter as parameters.
- *The ILP*: its optimum is an external solver's; the constraints are what the
  persistence modules check.
- *SDRAM and counting memories, dirtiness, array-aware must analysis,
  preemption delay, weight providers, options and output*: alternatives,
  refinements and sums that the default configuration does not depend on.
- *Equality, hashing, printing, sharing of cache sets*: transparent.
- *Benchmarks*: most of the repository's lines are the programs of
  `our_experiment/` that the analyser is run on; they are its input.

## 7. Plan

In order of how much of the bound rests on it:

1. cache set domains: modelled, checked, proved;
2. persistence: modelled, checked, ages and misses per line proved;
3. whole cache: modelled, checked, proved for arrays that fit;
4. memory topology with the promise of its ports: modelled, checked, safety and the promise
   of the data port proved;
5. contexts and worklist: modelled, checked, completeness, assertions, contexts and soundness proved;
6. inter-core counts for one co-runner: modelled, checked; the misses of persistent lines
   within the count of a region and one for each further passage, and all matches of two paths
   within the bound, proved;
7. the in-order pipeline over the promise of the ports, one state at a time:
   modelled, checked, proved but for its scopes. Left: the set of states and its joins;
8. regions and paths of a task, and its way to the interference: modelled, checked,
   the paths listed, the paths and the classes given to the analysis proved;
9. the counts of blocks compared with executions, once a count includes the last round of a
   loop; in `ConflictRegions`: the dynamic program for several co-runners (agreement
   with one), lines that are not persistent compared with a shared cache across
   regions, Zhang's staircase as a bound on the same matchings;
10. schedule and overlap of tasks (`muticoreinfo.h`), with termination;
11. the construction of persistence constraints in the state graph.

The runs are kept to a dozen, so that all of them can be repeated after every
change; 9 to 11 extend runs there are.

Theorems to come, in order: that the pipeline's scopes follow the control flow, which needs a
property that knows every open call; that the regions are the loops of a task; the misses of persistent arrays within the number of their lines
(`MissesWithinEntries` with Liang's limit); the refinement of
`TimedPort` by the fetch port for every latency.
