--------------------------- MODULE CacheTopology ---------------------------
(***************************************************************************)
(* OSeparateCachesMemoryTopology: the instruction port, the data port, the *)
(* second-level cache they share and the background memory, cycle by       *)
(* cycle, under a pipeline that fetches, loads, stores and branches.       *)
(*                                                                         *)
(* How the caches classify an access is left open here; CacheSetAnalysis   *)
(* and AbstractCache are about that.                                       *)
(***************************************************************************)
EXTENDS SingleMemory

CONSTANTS
    Policies,      \* the write policies and store modes to consider
    InstrLatency, DataLatency, L2Latency,   \* getHitLatency of each cache
    TimingAnomalyAnalysis,  \* follow every outcome, not only the worst
    MaxWork,       \* instructions between fetch and memory stage
    MaxAccesses    \* data accesses of one instruction

PolicyType ==
    [writeBack : BOOLEAN, writeAllocate : BOOLEAN, unblockStores : BOOLEAN,
     stallOnBlocking : BOOLEAN]

ASSUME TopologyAssumption ==
    /\ Policies \subseteq PolicyType /\ Policies # {}
    /\ \A p \in Policies : p.writeBack => p.writeAllocate
    /\ {InstrLatency, DataLatency, L2Latency} \subseteq Nat \ {0}
    /\ TimingAnomalyAnalysis \in BOOLEAN
    /\ MaxWork \in Nat \ {0} /\ MaxAccesses \in Nat \ {0}
    /\ MaxId >= 9   \* each port knows three accesses, the pipeline two

VARIABLES
    policy,     \* the configuration, fixed at the start
    mem,        \* the topology
    fetch,      \* the pipeline's instructionAccessId
    load,       \* the pipeline's data access id
    more,       \* accesses its instruction has left
    work,       \* instructions in flight that may still access data
    fetchTime,  \* history: time since fetch and load were accepted
    loadTime

pipeline == <<fetch, load, more, work>>
vars == <<policy, mem, pipeline, fetchTime, loadTime>>

-----------------------------------------------------------------------------
(* The state of the topology.                                              *)

Outcome == {"HIT", "L2HIT", "L2MISS"}
Phase == {"WaitForSTART", "WaitForLOAD", "WaitForCACHE", "WaitForSTORE"}
Levels == {"L1", "L2"}

(* updated is a history variable: the caches the access has updated.       *)
OngoingAccess ==
    [access : Accesses, phase : Phase, stalled : BOOLEAN,
     memId : Ids \cup {NoId}, inL2 : BOOLEAN, l1 : Nat, l2 : Nat,
     cl : Outcome, updated : SUBSET Levels]

(* done is a history variable: the access that finished in this cycle.     *)
MemoryComponent ==
    [waiting : Seq(Accesses), ongoing : Seq(OngoingAccess),
     finished : Ids \cup {NoId}, done : Seq(OngoingAccess)]

(* events: the cycle left a miss for the path analysis to see.             *)
Topologies ==
    [instr : MemoryComponent, data : MemoryComponent, memory : MemoryStates,
     events : BOOLEAN, rejected : BOOLEAN]

IdleComponent ==
    [waiting |-> <<>>, ongoing |-> <<>>, finished |-> NoId, done |-> <<>>]

IsOngoing(c) == c.ongoing # <<>>

ComponentIds(c) ==
    {c.finished} \cup {a.id : a \in Range(c.waiting)}
                 \cup {o.access.id : o \in Range(c.ongoing)}

FreeId(used) == CHOOSE i \in Ids : i \notin used /\ \A j \in Ids \ used : i <= j

NewId(m, used) ==
    FreeId(used \cup ComponentIds(m.instr) \cup ComponentIds(m.data))

AwaitedIds(m) ==
    {o.memId : o \in Range(m.instr.ongoing) \cup Range(m.data.ongoing)} \ {NoId}

NewMemId(m) == FreeId(IdsInMemory(m.memory) \cup AwaitedIds(m))

-----------------------------------------------------------------------------
(* Starting accesses.  The outcomes to follow are those the classification *)
(* of both levels leaves open, or only the worst of them.                  *)

L1Answers == {"HIT", "MISS", "UNKNOWN"}

Outcomes(l1, l2) ==
    IF l1 = "HIT" THEN {"HIT"}
    ELSE IF l2 = "HIT"
         THEN {"L2HIT"} \cup {o \in {"HIT"} : l1 = "UNKNOWN" /\ TimingAnomalyAnalysis}
    ELSE {"L2MISS"}
         \cup {o \in {"L2HIT"} : l2 = "UNKNOWN" /\ TimingAnomalyAnalysis}
         \cup {o \in {"HIT"} : /\ l2 = "UNKNOWN" /\ l1 = "UNKNOWN"
                               /\ TimingAnomalyAnalysis}

StartedWith(access, cl) ==
    [access |-> access, phase |-> "WaitForSTART", stalled |-> FALSE,
     memId |-> NoId, inL2 |-> FALSE, l1 |-> 0, l2 |-> 0, cl |-> cl,
     updated |-> {}]

ProcessInstrCacheAccess(m, o) ==
    CASE o.cl = "HIT" ->
           [m EXCEPT !.instr.ongoing = <<[o EXCEPT !.l1 = InstrLatency]>>]
      [] o.cl = "L2HIT" ->
           [m EXCEPT !.instr.ongoing = <<[o EXCEPT !.l2 = L2Latency, !.inL2 = TRUE]>>,
                     !.events = TRUE]
      [] o.cl = "L2MISS" ->
           [m EXCEPT !.instr.ongoing = <<[o EXCEPT !.memId = NewMemId(m)]>>,
                     !.memory = AccessInstr(m.memory, NewMemId(m)),
                     !.events = TRUE]

(* An access of the data port to the background memory, which may have to  *)
(* be tried again, and one that the code asserts to be accepted.           *)
TryMemory(m, o, type) ==
    IF AcceptsData(m.memory)
    THEN [m EXCEPT !.data.ongoing =
                       <<[o EXCEPT !.memId = NewMemId(m), !.stalled = FALSE]>>,
                   !.memory = AccessData(m.memory, NewMemId(m), type)]
    ELSE [m EXCEPT !.data.ongoing = <<[o EXCEPT !.stalled = TRUE]>>]

DemandMemory(m, o, type) ==
    IF AcceptsData(m.memory) THEN TryMemory(m, o, type)
    ELSE [m EXCEPT !.data.ongoing = <<o>>, !.rejected = TRUE]

ProcessDataCacheAccess(m, o) ==
    CASE o.cl = "HIT" ->
           [m EXCEPT !.data.ongoing =
                         <<[o EXCEPT !.l1 = DataLatency, !.phase = "WaitForCACHE"]>>]
      [] o.cl = "L2HIT" ->
           [m EXCEPT !.data.ongoing =
                         <<[o EXCEPT !.l2 = L2Latency, !.inL2 = TRUE,
                                     !.phase = "WaitForCACHE"]>>,
                     !.events = TRUE]
      [] o.cl = "L2MISS" /\ o.access.type = "STORE" /\ ~policy.writeAllocate ->
           DemandMemory(m, [o EXCEPT !.phase = "WaitForSTORE"], "STORE")
      [] OTHER ->
           TryMemory([m EXCEPT !.events = TRUE],
                     [o EXCEPT !.phase = "WaitForLOAD"], "LOAD")

StartInstructionAccess(m) ==
    IF IsOngoing(m.instr) \/ m.instr.waiting = <<>> THEN {m}
    ELSE {ProcessInstrCacheAccess([m EXCEPT !.instr.waiting = <<>>],
                                  StartedWith(m.instr.waiting[1], cl)) :
             cl \in UNION {Outcomes(l1, l2) : l1, l2 \in L1Answers}}

StartDataAccessCopies(m) ==   \* mutant: the access is not taken from its place
    IF IsOngoing(m.data) \/ m.data.waiting = <<>> THEN {m}
    ELSE {ProcessDataCacheAccess(m, StartedWith(m.data.waiting[1], cl)) :
             cl \in UNION {Outcomes(l1, l2) : l1, l2 \in L1Answers}}

StartDataAccess(m) ==
    IF IsOngoing(m.data) \/ m.data.waiting = <<>> THEN {m}
    ELSE {ProcessDataCacheAccess([m EXCEPT !.data.waiting = <<>>],
                                 StartedWith(m.data.waiting[1], cl)) :
             cl \in UNION {Outcomes(l1, l2) : l1, l2 \in L1Answers}}

-----------------------------------------------------------------------------
ShouldStall(m) == policy.stallOnBlocking /\ IsBlocked(m.memory)

(* One cycle of each part, after the background memory has cycled.         *)

Decremented(n) == IF n > 0 THEN n - 1 ELSE 0

Finish(c, o) ==
    [c EXCEPT !.finished = o.access.id, !.ongoing = <<>>, !.done = <<o>>]

(* The topology takes the end of a memory access: it moves on to the L2.   *)
MemoryFinished(m, o) == m.memory.finished = o.memId

BackFromMemory(o) ==
    [o EXCEPT !.memId = NoId, !.inL2 = TRUE, !.l2 = L2Latency]

CheckInstructionPart(m) ==
    IF ~IsOngoing(m.instr) THEN m
    ELSE LET o == m.instr.ongoing[1]
             l2 == Decremented(o.l2)
             l1 == Decremented(o.l1)
         IN  IF o.memId # NoId
             THEN IF MemoryFinished(m, o)
                  THEN [m EXCEPT !.instr.ongoing = <<BackFromMemory(o)>>,
                                 !.memory.finished = NoId]
                  ELSE m
             ELSE IF o.inL2
             THEN [m EXCEPT !.instr.ongoing =
                      IF l2 > 0 THEN <<[o EXCEPT !.l2 = l2]>>
                      ELSE <<[o EXCEPT !.l2 = 0, !.inL2 = FALSE,
                                       !.l1 = InstrLatency,
                                       !.updated = @ \cup {"L2"}]>>]
             ELSE IF l1 > 0
             THEN [m EXCEPT !.instr.ongoing = <<[o EXCEPT !.l1 = l1]>>]
             ELSE [m EXCEPT !.instr =
                      Finish(m.instr, [o EXCEPT !.l1 = 0, !.updated = @ \cup {"L1"}])]

(* What follows the update of a cache: the store behind a write-through    *)
(* cache; a write-back, and the case without one; or else the next level.  *)
IsStoreThrough(o) == o.access.type = "STORE" /\ ~policy.writeBack

MayWriteBack(o) == policy.writeBack /\ o.cl = "L2MISS"

StoreThrough(m, o) ==
    TryMemory(m, [o EXCEPT !.phase = "WaitForSTORE"], "STORE")

WriteBackOrNot(m, o) ==
    {DemandMemory(m, [o EXCEPT !.phase = "WaitForSTORE"], "WRITEBACK"),
     [m EXCEPT !.data = Finish(m.data, o)]}

(* No report of the L2 refutes a write-back, so that one is always         *)
(* possible after a miss.                                                  *)
UpdateL2Finishes(m, o) ==   \* mutant: the first level is not filled
    IF IsStoreThrough(o) THEN {StoreThrough(m, o)}
    ELSE IF MayWriteBack(o) THEN WriteBackOrNot(m, o)
    ELSE {[m EXCEPT !.data = Finish(m.data, o)]}

UpdateL2(m, o) ==
    IF IsStoreThrough(o) THEN {StoreThrough(m, o)}
    ELSE IF MayWriteBack(o) THEN WriteBackOrNot(m, o)
    ELSE {[m EXCEPT !.data.ongoing =
              <<[o EXCEPT !.inL2 = FALSE, !.l1 = InstrLatency]>>]}

UpdateL1(m, o) ==
    IF IsStoreThrough(o) THEN {StoreThrough(m, o)}
    ELSE IF MayWriteBack(o) THEN WriteBackOrNot(m, o)
    ELSE {[m EXCEPT !.data = Finish(m.data, o)]}

CheckCachePhase(m, o) ==
    LET l2 == Decremented(o.l2)
        l1 == Decremented(o.l1)
    IN  IF o.inL2
        THEN IF l2 > 0 THEN {[m EXCEPT !.data.ongoing = <<[o EXCEPT !.l2 = l2]>>]}
             ELSE UpdateL2(m, [o EXCEPT !.l2 = 0, !.updated = @ \cup {"L2"}])
        ELSE IF l1 > 0 THEN {[m EXCEPT !.data.ongoing = <<[o EXCEPT !.l1 = l1]>>]}
             ELSE UpdateL1(m, [o EXCEPT !.l1 = 0, !.updated = @ \cup {"L1"}])

CheckLoadPhase(m, o) ==
    IF MemoryFinished(m, o)
    THEN [m EXCEPT !.data.ongoing =
                       <<[BackFromMemory(o) EXCEPT !.phase = "WaitForCACHE"]>>,
                   !.memory.finished = NoId]
    ELSE m

(* An unblocked store is finished as soon as the memory has taken it.      *)
CheckStorePhase(m, o) ==
    IF policy.unblockStores THEN [m EXCEPT !.data = Finish(m.data, o)]
    ELSE IF MemoryFinished(m, o)
    THEN [m EXCEPT !.data = Finish(m.data, o), !.memory.finished = NoId]
    ELSE m

CheckDataPart(m) ==
    IF ~IsOngoing(m.data) THEN {m}
    ELSE LET o == m.data.ongoing[1]
         IN  CASE o.stalled ->
                    {TryMemory(m, o, IF o.phase = "WaitForLOAD"
                                     THEN "LOAD" ELSE "STORE")}
               [] ~o.stalled /\ o.phase = "WaitForLOAD" -> {CheckLoadPhase(m, o)}
               [] ~o.stalled /\ o.phase = "WaitForCACHE" -> CheckCachePhase(m, o)
               [] ~o.stalled /\ o.phase = "WaitForSTORE" -> {CheckStorePhase(m, o)}

ClearEvents(m) ==
    [m EXCEPT !.instr.done = <<>>, !.data.done = <<>>, !.events = FALSE]

StartedOneAtATime(m) ==   \* mutant: one access is started in a cycle
    IF m.instr.waiting # <<>> THEN StartInstructionAccess(ClearEvents(m))
    ELSE StartDataAccess(ClearEvents(m))

Started(m) ==
    UNION {StartDataAccess(n) : n \in StartInstructionAccess(ClearEvents(m))}

(* The background memory cycles first, then the parts that wait for it.    *)
MemoryCycled(m) == {[m EXCEPT !.memory = c] : c \in CycleMemory(m.memory)}

CheckParts(m) == CheckDataPart(CheckInstructionPart(m))

CycleStallsLate(m) ==   \* mutant: asks for the stall before the memory cycles
    UNION {IF ShouldStall(s) THEN MemoryCycled(s)
           ELSE UNION {CheckParts(n) : n \in MemoryCycled(s)} : s \in Started(m)}

Cycle(m) ==
    UNION {IF ShouldStall(n) THEN {n} ELSE CheckParts(n) :
              n \in UNION {MemoryCycled(s) : s \in Started(m)}}

(* Fast-forwarding: both ports are idle or wait for the memory, and no     *)
(* event would be lost.                                                    *)
IsBusyPort(c) == IsOngoing(c) \/ c.waiting # <<>>

AllowsFastForward(m) ==
    /\ ~m.events
    /\ IsBusyPort(m.instr) =>
         IsOngoing(m.instr) /\ m.instr.ongoing[1].memId # NoId
    /\ IsBusyPort(m.data) =>
         /\ IsOngoing(m.data)
         /\ \/ m.data.ongoing[1].phase = "WaitForLOAD"
            \/ /\ m.data.ongoing[1].phase = "WaitForSTORE"
               /\ ~policy.unblockStores \/ m.data.ongoing[1].stalled

FastForwards(m) == AllowsFastForward(m) /\ IsBusy(m.memory)

-----------------------------------------------------------------------------
(* The pipeline after a cycle of the topology.  An instruction leaves the  *)
(* execute stage when the memory stage is free, and may then access data   *)
(* or, as a branch, flush what was fetched behind it.                      *)

LoadDone(m) == load # NoId /\ m.data.finished = load
FetchDone(m) == fetch # NoId /\ m.instr.finished = fetch

Polled(c) == [c EXCEPT !.finished = NoId]

PortAccess(m, id, type) ==
    IF m.data.waiting = <<>>
    THEN [m EXCEPT !.data.waiting = <<[id |-> id, type |-> type]>>]
    ELSE [m EXCEPT !.rejected = TRUE]

Issue(m, type, rest, left) ==
    LET id == NewId(m, {fetch, load})
    IN  [mem |-> PortAccess(m, id, type), load |-> id, more |-> rest,
         left |-> left, free |-> FALSE]

MemoryStage(m) ==
    LET n == [m EXCEPT !.data = Polled(@)]
        free(k, left) == [mem |-> k, load |-> NoId, more |-> 0, left |-> left,
                          free |-> LoadDone(m) \/ left < work]
        advance(k) ==
            {free(k, left) : left \in {work, work - 1} \cap Nat}
            \cup {Issue(k, type, rest, work - 1) :
                    type \in {t \in {"LOAD", "STORE"} : work > 0},
                    rest \in 0 .. MaxAccesses - 1}
    IN  IF load = NoId THEN advance(m)
        ELSE IF ~LoadDone(m)
             THEN {[mem |-> m, load |-> load, more |-> more, left |-> work,
                    free |-> FALSE]}
        ELSE IF more > 0
             THEN {Issue(n, m.data.done[1].access.type, more - 1, work)}
        ELSE advance(n)

(* A branch fetches from its target at once: the access of the abandoned   *)
(* path is replaced while it waits, and not asked for when it is ongoing.  *)
FetchFrom(m, left) ==
    LET id == NewId(m, {fetch, load})
    IN  [mem |-> [m EXCEPT !.instr.waiting = <<[id |-> id, type |-> "LOAD"]>>],
         fetch |-> id, work |-> left]

FetchStage(m, left) ==
    LET n == IF FetchDone(m) THEN [m EXCEPT !.instr = Polled(@)] ELSE m
        fetched == left + (IF FetchDone(m) THEN 1 ELSE 0)
        outstanding == fetch # NoId /\ ~FetchDone(m)
    IN  {[mem |-> n, fetch |-> IF outstanding THEN fetch ELSE NoId,
          work |-> fetched]}
        \cup (IF ~outstanding /\ fetched \in 1 .. MaxWork - 1
              THEN {FetchFrom(n, fetched)} ELSE {})

NoSkip == [lo |-> 0, hi |-> 0]

TimeAfter(time, outstanding, done, skip) ==
    [answered |-> done,
     lo |-> IF outstanding THEN time.lo + 1 + skip.lo ELSE 0,
     hi |-> IF outstanding THEN time.hi + 1 + skip.hi ELSE 0]

Advance(m, loadDone, fetchDone, skip) ==
    /\ mem' = m
    /\ fetchTime' = TimeAfter(fetchTime, fetch # NoId /\ fetch' = fetch, fetchDone, skip)
    /\ loadTime' = TimeAfter(loadTime, load # NoId /\ load' = load, loadDone, skip)

(* A cycle in which the pipeline did not change may be fast-forwarded.     *)
Converged(m, loadDone, fetchDone) ==
    \/ Advance(m, loadDone, fetchDone, NoSkip)
    \/ /\ pipeline' = pipeline /\ FastForwards(m)
       /\ Advance([m EXCEPT !.memory = FastForward(@)], loadDone, fetchDone,
                  SkippedCycles(m.memory))

StalledCycle ==
    /\ ~mem.rejected
    /\ \E m \in Cycle(mem) :
         /\ ShouldStall(m)
         /\ UNCHANGED pipeline
         /\ Converged(m, FALSE, FALSE)
    /\ UNCHANGED policy

PipelineCycle ==
    /\ ~mem.rejected
    /\ \E m \in Cycle(mem) :
         /\ ~ShouldStall(m)
         /\ \E d \in MemoryStage(m) :
              \E f \in FetchStage(d.mem, d.left) :
                /\ load' = d.load /\ more' = d.more
                /\ fetch' = f.fetch /\ work' = f.work
                /\ Converged(f.mem, LoadDone(m), FetchDone(m))
    /\ UNCHANGED policy

BranchCycle ==
    /\ ~mem.rejected
    /\ \E m \in Cycle(mem) :
         /\ ~ShouldStall(m)
         /\ \E d \in MemoryStage(m) :
              LET f == FetchFrom(d.mem, 0)
              IN  /\ d.free
                  /\ load' = d.load /\ more' = d.more
                  /\ fetch' = f.fetch /\ work' = f.work
                  /\ Advance(f.mem, LoadDone(m), FALSE, NoSkip)
    /\ UNCHANGED policy

(* The pipeline fetches its first instruction when it is constructed.      *)
Init ==
    /\ policy \in Policies
    /\ mem = [instr |-> [IdleComponent EXCEPT !.waiting = <<[id |-> 1, type |-> "LOAD"]>>],
              data |-> IdleComponent, memory |-> IdleMemory,
              events |-> FALSE, rejected |-> FALSE]
    /\ fetch = 1 /\ load = NoId /\ more = 0 /\ work = 0
    /\ fetchTime = [answered |-> FALSE, lo |-> 0, hi |-> 0]
    /\ loadTime = fetchTime

Next == StalledCycle \/ PipelineCycle \/ BranchCycle

Spec == Init /\ [][Next]_vars

-----------------------------------------------------------------------------
(* Properties.                                                             *)

(* What the phases of a data access promise: it is only stalled on the     *)
(* background memory when stores are unblocked, only while it waits for a  *)
(* load or a store, and it has a memory access exactly when it waits for   *)
(* the memory and is not stalled.                                          *)
PhasesAgree ==
    \A o \in Range(mem.data.ongoing) :
        /\ o.phase \in {"WaitForLOAD", "WaitForCACHE", "WaitForSTORE"}
        /\ o.stalled => policy.unblockStores /\ o.phase # "WaitForCACHE"
        /\ (o.memId # NoId) <=> (o.phase # "WaitForCACHE" /\ ~o.stalled)

(* Type correctness of the topology, the pipeline's view of it and the     *)
(* history variables; the phases of data accesses agree.                   *)
TypeOK ==
    /\ policy \in PolicyType
    /\ mem \in Topologies
    /\ \A q \in {mem.instr.waiting, mem.data.waiting, mem.instr.ongoing,
               mem.data.ongoing, mem.memory.instrQueue, mem.memory.dataQueue} :
          Len(q) <= 1
    /\ fetch \in Ids \cup {NoId} /\ load \in Ids \cup {NoId}
    /\ more \in 0 .. MaxAccesses - 1 /\ work \in 0 .. MaxWork
    /\ {fetchTime, loadTime} \subseteq [answered : BOOLEAN, lo : Nat, hi : Nat]
    /\ PhasesAgree

(* No access is ever refused where the code asserts that it is taken: not  *)
(* by the topology, and not by the background memory for a store that      *)
(* missed a non-allocating cache or for a write-back.                      *)
NoAccessRejected == ~mem.rejected

(* What a port still owes the pipeline is in exactly one of its places,    *)
(* so that it is neither lost nor answered twice.                          *)
Places(c, id) ==
    {p \in {"waiting", "ongoing", "finished"} :
        \/ p = "waiting" /\ id \in {a.id : a \in Range(c.waiting)}
        \/ p = "ongoing" /\ id \in {o.access.id : o \in Range(c.ongoing)}
        \/ p = "finished" /\ id = c.finished}

AccessInOnePlace ==
    /\ fetch # NoId => \E p \in {"waiting", "ongoing", "finished"} :
                          Places(mem.instr, fetch) = {p}
    /\ load # NoId => \E p \in {"waiting", "ongoing", "finished"} :
                          Places(mem.data, load) = {p}

(* Whoever waits for the background memory waits for an access that is     *)
(* still queued or being served there, or that just ended: the end of an   *)
(* access, which is shown for one cycle only, is never missed.             *)
NoCompletionLost ==
    \A o \in Range(mem.instr.ongoing) \cup Range(mem.data.ongoing) :
        o.memId # NoId /\ ~(policy.unblockStores /\ o.phase = "WaitForSTORE") =>
            /\ o.memId \in IdsInMemory(mem.memory)
            /\ o.memId = mem.memory.finished => ShouldStall(mem)

(* An answered access has updated every level it went through, so that the *)
(* line is found there again: for all fetches, and for loads behind a      *)
(* write-through cache.                                                    *)
LevelsUpdated ==
    \A o \in Range(mem.instr.done)
              \cup {d \in Range(mem.data.done) :
                        d.access.type = "LOAD" /\ ~policy.writeBack} :
        o.updated = IF o.cl = "HIT" THEN {"L1"} ELSE Levels

(* A load that hits a cache takes the latency of the caches it goes        *)
(* through, whatever the fetches, the background memory and the other      *)
(* cores do, unless blocked cores are stalled.                             *)
HitsTakeTheirLatency ==
    [][\A o \in Range(mem'.data.done) :
          loadTime'.answered /\ o.access.type = "LOAD" /\ ~policy.stallOnBlocking =>
              /\ o.cl = "HIT" =>
                     loadTime.lo = DataLatency - 1 /\ loadTime.hi = loadTime.lo
              /\ o.cl = "L2HIT" =>
                     loadTime.lo = L2Latency + InstrLatency - 1
                     /\ loadTime.hi = loadTime.lo]_vars

(* The bounds.  A data access waits at most twice, before its load and     *)
(* before its store or write-back, for a fetch that got the memory a cycle *)
(* before it.  A fetch waits for the memory access of one that was given   *)
(* up, and behind the stores of all the instructions in flight, when they  *)
(* follow each other closely; the last of them may be a load.              *)
MaxLoadTime == ServiceTime["LOAD"] + MaxBlockingPerAccess
MaxStoreTime == ServiceTime["STORE"] + MaxBlockingPerAccess

(* From the request of data to its answer by the memory, with that wait.   *)
RoundTrip == 2 * MaxLoadTime - 1

DataTimes ==
    [shortest |-> {DataLatency, L2Latency + 1, ServiceTime["STORE"]},
     longest |-> {DataLatency + RoundTrip,
                  MaxLoadTime + RoundTrip + L2Latency + InstrLatency,
                  RoundTrip + L2Latency + RoundTrip}]

DataMin == CHOOSE n \in DataTimes.shortest : \A k \in DataTimes.shortest : n <= k
DataMax == CHOOSE n \in DataTimes.longest : \A k \in DataTimes.longest : k <= n

FetchMin == InstrLatency
FetchMax == 3 * MaxLoadTime + (MaxWork * MaxAccesses - 1) * MaxStoreTime
                + L2Latency + InstrLatency

(* The fetch port answers every access once, within the bounds, unless the *)
(* pipeline branches: what TimedPort promises.                             *)
FetchPort == INSTANCE TimedPort
    WITH MinTime <- FetchMin, MaxTime <- FetchMax, MayAbandon <- TRUE,
         pending <- fetch # NoId, lo <- fetchTime.lo, hi <- fetchTime.hi,
         answered <- fetchTime.answered

FetchPortSpec == FetchPort!Spec

(* The data port answers every access once, within the bounds, and the     *)
(* pipeline never gives one up: what TimedPort promises.                   *)
DataPort == INSTANCE TimedPort
    WITH MinTime <- DataMin, MaxTime <- DataMax, MayAbandon <- FALSE,
         pending <- load # NoId, lo <- loadTime.lo, hi <- loadTime.hi,
         answered <- loadTime.answered

DataPortSpec == DataPort!Spec
=============================================================================
