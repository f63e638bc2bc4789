------------------------ MODULE CacheTopologyProofs ------------------------
EXTENDS CacheTopology, FiniteSetTheorems, SequenceTheorems, WellFoundedInduction, TLAPS
(***************************************************************************)
(* Proofs about CacheTopology, for every set of policies, every latency    *)
(* and service time and every bound on the work.  The invariant IInv says  *)
(* where an access, and the memory access a port waits for, can be; which  *)
(* caches an access has updated in which phase; and how the cycles of a    *)
(* hit and the counters of the caches add up to its latency.  It holds     *)
(* between the cycles of the pipeline; within a cycle its parts hold in    *)
(* other combinations (AfterCycle, AfterStart, Ready), one for each place  *)
(* between the calls the cycle is made of.                                 *)
(***************************************************************************)

(* A set of numbers has a least one.                                       *)
LEMMA LeastNumber ==
    ASSUME NEW T, T \subseteq Nat, T # {}
    PROVE  \E m \in T : \A k \in T : m <= k
<1>1. PICK m \in T : \A k \in T : <<k, m>> \notin OpToRel(<, Nat)
  BY NatLessThanWellFounded, WFMin
<1>2. \A k \in T : ~ k < m
  BY <1>1 DEF OpToRel
<1>3. QED
  BY <1>2

WaitingIds(c) == {a.id : a \in Range(c.waiting)}
OngoingIds(c) == {o.access.id : o \in Range(c.ongoing)}
QueueIds(q) == {a.id : a \in Range(q)}

-----------------------------------------------------------------------------
(* A list of at most one.                                                  *)

LEMMA ListOfOne ==
    ASSUME NEW S, NEW x \in S
    PROVE  /\ <<x>> \in Seq(S) /\ Len(<<x>>) = 1 /\ <<x>>[1] = x
           /\ <<x>> # <<>> /\ Range(<<x>>) = {x}
BY DEF Range

LEMMA EmptyList ==
    ASSUME NEW S
    PROVE  /\ <<>> \in Seq(S) /\ Len(<<>>) = 0 /\ Range(<<>>) = {}
BY DEF Range

LEMMA AtMostOne ==
    ASSUME NEW S, NEW q \in Seq(S), Len(q) <= 1
    PROVE  /\ q = <<>> => Range(q) = {}
           /\ q # <<>> => q[1] \in S /\ q = <<q[1]>> /\ Range(q) = {q[1]}
<1>1. CASE q = <<>>
  BY <1>1, EmptyList
<1>2. CASE q # <<>>
  <2>1. Len(q) = 1
    <3>1. Len(q) # 0 /\ Len(q) \in Nat
      BY <1>2, EmptySeq
    <3>2. QED
      BY <3>1
  <2>2. q[1] \in S /\ q = <<q[1]>>
    <3>1. q[1] \in S
      BY <2>1
    <3>2. <<q[1]>> \in Seq(S) /\ Len(<<q[1]>>) = 1 /\ <<q[1]>>[1] = q[1]
      BY <3>1, ListOfOne
    <3>3. \A i \in 1 .. Len(q) : q[i] = <<q[1]>>[i]
      BY <2>1, <3>2
    <3>4. QED
      BY <2>1, <3>1, <3>2, <3>3, SeqEqual
  <2>3. Range(<<q[1]>>) = {q[1]}
    BY <2>2, ListOfOne
  <2>4. QED
    BY <1>2, <2>2, <2>3, Zenon
<1>3. QED
  BY <1>1, <1>2

(* The ids in such a list: none, or one.                                   *)
LEMMA IdsOfList ==
    /\ QueueIds(<<>>) = {}
    /\ \A x \in Accesses : QueueIds(<<x>>) = {x.id}
    /\ \A q \in Seq(Accesses) : Len(q) <= 1 /\ q # <<>> =>
          QueueIds(q) = {q[1].id} /\ q[1].id \in Ids
<1>1. QueueIds(<<>>) = {}
  BY EmptyList DEF QueueIds
<1>2. \A x \in Accesses : QueueIds(<<x>>) = {x.id}
  BY ListOfOne DEF QueueIds
<1>3. ASSUME NEW q \in Seq(Accesses), Len(q) <= 1, q # <<>>
      PROVE  QueueIds(q) = {q[1].id} /\ q[1].id \in Ids
  <2>1. q[1] \in Accesses /\ Range(q) = {q[1]}
    BY <1>3, AtMostOne
  <2>2. QED
    BY <2>1 DEF QueueIds, Accesses
<1>4. QED
  BY <1>1, <1>2, <1>3

-----------------------------------------------------------------------------
(* Ids that are not in use.                                                *)

LEMMA SmallSets ==
    ASSUME NEW S, IsFiniteSet(S), NEW x
    PROVE  IsFiniteSet(S \cup {x}) /\ Cardinality(S \cup {x}) <= Cardinality(S) + 1
<1>1. Cardinality(S) \in Nat
  BY FS_CardinalityType
<1>2. QED
  BY <1>1, FS_AddElement

LEMMA TwoMore ==
    ASSUME NEW S, IsFiniteSet(S), NEW n \in Nat, Cardinality(S) <= n, NEW x, NEW y
    PROVE  IsFiniteSet(S \cup {x, y}) /\ Cardinality(S \cup {x, y}) <= n + 2
<1>1. S \cup {x, y} = (S \cup {x}) \cup {y}
  OBVIOUS
<1>2. IsFiniteSet(S \cup {x}) /\ Cardinality(S \cup {x}) <= Cardinality(S) + 1
  BY SmallSets
<1>3. /\ IsFiniteSet((S \cup {x}) \cup {y})
      /\ Cardinality((S \cup {x}) \cup {y}) <= Cardinality(S \cup {x}) + 1
  BY <1>2, SmallSets
<1>4. Cardinality(S) \in Nat /\ Cardinality(S \cup {x}) \in Nat
  BY <1>2, FS_CardinalityType
<1>5. Cardinality((S \cup {x}) \cup {y}) \in Nat
  BY <1>3, FS_CardinalityType
<1>6. QED
  BY <1>1, <1>2, <1>3, <1>4, <1>5

LEMMA FreeIdIsFree ==
    ASSUME NEW a, NEW b, NEW c, NEW d, NEW e, NEW f, NEW g, NEW h,
           NEW used, used \subseteq {a, b, c, d, e, f, g, h}
    PROVE  FreeId(used) \in Ids \ used
<1> DEFINE all == {a, b, c, d, e, f, g, h}
<1>1. IsFiniteSet(all) /\ Cardinality(all) <= 8
  <2>1. IsFiniteSet({}) /\ Cardinality({}) <= 0
    BY FS_EmptySet
  <2> DEFINE A == {} \cup {a, b}
             B == A \cup {c, d}
             C == B \cup {e, f}
             D == C \cup {g, h}
  <2>4. all = D
    OBVIOUS
  <2> HIDE DEF A, B, C, D, all
  <2>5. IsFiniteSet(A) /\ Cardinality(A) <= 2
    BY <2>1, TwoMore, 0 + 2 = 2 DEF A
  <2>6. IsFiniteSet(B) /\ Cardinality(B) <= 4
    <3>1. IsFiniteSet(A \cup {c, d}) /\ Cardinality(A \cup {c, d}) <= 2 + 2
      BY <2>5, TwoMore
    <3>2. QED
      BY <3>1 DEF B
  <2>7. IsFiniteSet(C) /\ Cardinality(C) <= 6
    <3>1. IsFiniteSet(B \cup {e, f}) /\ Cardinality(B \cup {e, f}) <= 4 + 2
      BY <2>6, TwoMore
    <3>2. QED
      BY <3>1 DEF C
  <2>8. IsFiniteSet(D) /\ Cardinality(D) <= 8
    <3>1. IsFiniteSet(C \cup {g, h}) /\ Cardinality(C \cup {g, h}) <= 6 + 2
      BY <2>7, TwoMore
    <3>2. QED
      BY <3>1 DEF D
  <2>9. QED
    BY <2>4, <2>8
<1>2. PICK i \in Ids : i \notin used
  <2>1. MaxId \in Int /\ MaxId >= 9 /\ 1 \in Int /\ Ids = 1 .. MaxId
    BY SingleMemoryAssumption, TopologyAssumption DEF Ids
  <2>2. IsFiniteSet(Ids) /\ Cardinality(Ids) = MaxId
    <3>1. /\ IsFiniteSet(1 .. MaxId)
          /\ Cardinality(1 .. MaxId) = IF 1 > MaxId THEN 0 ELSE MaxId - 1 + 1
      BY <2>1, FS_Interval
    <3>2. QED
      BY <2>1, <3>1
  <2>3. ~ (Ids \subseteq all)
    <3> HIDE DEF all
    <3>1. Cardinality(all) \in Nat
      BY <1>1, FS_CardinalityType
    <3>2. Ids \subseteq all => Cardinality(Ids) <= Cardinality(all)
      BY <1>1, FS_Subset
    <3>3. QED
      BY <1>1, <2>1, <2>2, <3>1, <3>2
  <2>4. QED
    BY <2>3
<1>3. \E m \in Ids \ used : \A k \in Ids \ used : m <= k
  <2> DEFINE T == Ids \ used
  <2>1. T \subseteq Nat /\ T # {}
    BY <1>2 DEF Ids
  <2> HIDE DEF T
  <2>2. \E m \in T : \A k \in T : m <= k
    BY <2>1, LeastNumber
  <2>3. QED
    BY <2>2 DEF T
<1>4. QED
  BY <1>3 DEF FreeId
-----------------------------------------------------------------------------
(* The background memory.                                                  *)

IdsApart(mm) ==
    /\ QueueIds(mm.instrQueue) \cap QueueIds(mm.dataQueue) = {}
    /\ {mm.current, mm.finished} \cap (QueueIds(mm.instrQueue) \cup QueueIds(mm.dataQueue)) = {}
    /\ mm.current # NoId => mm.current # mm.finished

MemoryOK(mm) ==
    /\ mm \in MemoryStates
    /\ Len(mm.instrQueue) <= 1 /\ Len(mm.dataQueue) <= 1
    /\ IdsApart(mm)

(* The ids that an access of a port may have in the memory.                *)
InstrIds(mm) == {mm.current, mm.finished} \cup QueueIds(mm.instrQueue)
DataIds(mm) == {mm.current, mm.finished} \cup QueueIds(mm.dataQueue)

LEMMA NoIdIsNotQueued == \A q \in Seq(Accesses) : NoId \notin QueueIds(q)
<1> SUFFICES ASSUME NEW q \in Seq(Accesses), NEW i \in 1 .. Len(q)
             PROVE  q[i].id # NoId
  BY LenProperties DEF QueueIds, Range
<1>1. q[i] \in Accesses
  BY ElementOfSeq
<1>2. QED
  BY <1>1 DEF Accesses, Ids, NoId

LEMMA IdsOfMemory ==
    ASSUME NEW mm
    PROVE  IdsInMemory(mm) = InstrIds(mm) \cup DataIds(mm)
BY DEF IdsInMemory, InstrIds, DataIds, QueueIds

LEMMA AccessInstrIs ==
    ASSUME NEW mm, MemoryOK(mm), NEW id \in Ids, id \notin IdsInMemory(mm)
    PROVE  LET n == AccessInstr(mm, id)
           IN  /\ MemoryOK(n)
               /\ n.current = mm.current /\ n.finished = mm.finished
               /\ n.dataQueue = mm.dataQueue /\ QueueIds(n.instrQueue) = {id}
<1> DEFINE n == AccessInstr(mm, id)
           a == [id |-> id, type |-> "LOAD"]
<1>1. a \in Accesses /\ a.id = id
  BY DEF Accesses, AccessType
<1>2. <<a>> \in Seq(Accesses) /\ Len(<<a>>) = 1 /\ QueueIds(<<a>>) = {id}
  BY <1>1, ListOfOne, IdsOfList
<1>3. /\ n \in MemoryStates /\ n.instrQueue = <<a>>
      /\ n.current = mm.current /\ n.finished = mm.finished /\ n.dataQueue = mm.dataQueue
  BY <1>2 DEF MemoryOK, MemoryStates, AccessInstr
<1>4. id \notin QueueIds(mm.dataQueue) /\ id # mm.current /\ id # mm.finished
  BY IdsOfMemory DEF InstrIds, DataIds
<1> HIDE DEF a, n
<1>5. IdsApart(n)
  BY <1>2, <1>3, <1>4 DEF MemoryOK, IdsApart
<1>6. QED
  BY <1>2, <1>3, <1>5 DEF MemoryOK, n

LEMMA AccessDataIs ==
    ASSUME NEW mm, MemoryOK(mm), NEW id \in Ids, id \notin IdsInMemory(mm),
           NEW type \in AccessType
    PROVE  LET n == AccessData(mm, id, type)
           IN  /\ MemoryOK(n)
               /\ n.current = mm.current /\ n.finished = mm.finished
               /\ n.instrQueue = mm.instrQueue /\ QueueIds(n.dataQueue) = {id}
<1> DEFINE n == AccessData(mm, id, type)
           a == [id |-> id, type |-> type]
<1>1. a \in Accesses /\ a.id = id
  BY DEF Accesses
<1>2. <<a>> \in Seq(Accesses) /\ Len(<<a>>) = 1 /\ QueueIds(<<a>>) = {id}
  BY <1>1, ListOfOne, IdsOfList
<1>3. /\ n \in MemoryStates /\ n.dataQueue = <<a>>
      /\ n.current = mm.current /\ n.finished = mm.finished /\ n.instrQueue = mm.instrQueue
  BY <1>2 DEF MemoryOK, MemoryStates, AccessData
<1>4. id \notin QueueIds(mm.instrQueue) /\ id # mm.current /\ id # mm.finished
  BY IdsOfMemory DEF InstrIds, DataIds
<1> HIDE DEF a, n
<1>5. IdsApart(n)
  BY <1>2, <1>3, <1>4 DEF MemoryOK, IdsApart
<1>6. QED
  BY <1>2, <1>3, <1>5 DEF MemoryOK, n

(* A step of the memory: what was queued is queued or current, what was    *)
(* current is current or just finished.                                    *)
Moved(mm, n) ==
    /\ QueueIds(n.instrQueue) \subseteq QueueIds(mm.instrQueue)
    /\ QueueIds(n.dataQueue) \subseteq QueueIds(mm.dataQueue)
    /\ n.instrQueue = <<>> \/ n.instrQueue = mm.instrQueue
    /\ n.dataQueue = <<>> \/ n.dataQueue = mm.dataQueue
    /\ QueueIds(mm.instrQueue) \subseteq InstrIds(n)
    /\ QueueIds(mm.dataQueue) \subseteq DataIds(n)
    /\ mm.current # NoId => mm.current \in {n.current, n.finished}

LEMMA StartNextIs ==
    ASSUME NEW mm, MemoryOK(mm)
    PROVE  LET n == StartNext(mm)
           IN  /\ MemoryOK(n) /\ Moved(mm, n) /\ n.finished = mm.finished
               /\ mm.current # NoId => n.current = mm.current
<1> DEFINE n == StartNext(mm)
<1>1. CASE mm.current # NoId
  BY <1>1 DEF StartNext, Moved, InstrIds, DataIds
<1>2. CASE mm.current = NoId /\ mm.dataQueue # <<>>
  <2>1. mm.dataQueue[1] \in Accesses /\ QueueIds(mm.dataQueue) = {mm.dataQueue[1].id}
    BY <1>2, AtMostOne, IdsOfList DEF MemoryOK, MemoryStates
  <2>2. mm.dataQueue[1].id \in Ids /\ ServiceTime[mm.dataQueue[1].type] \in Nat
    BY <2>1, SingleMemoryAssumption DEF Accesses
  <2>3. /\ n \in MemoryStates /\ n.instrQueue = mm.instrQueue /\ n.dataQueue = <<>>
        /\ n.current = mm.dataQueue[1].id /\ n.finished = mm.finished
    BY <1>2, <2>2, EmptyList DEF StartNext, AnnounceAccess, MemoryOK, MemoryStates
  <2> HIDE DEF n
  <2>4. QueueIds(n.dataQueue) = {} /\ Len(n.dataQueue) = 0
    BY <2>3, IdsOfList, EmptyList
  <2>5. MemoryOK(n)
    BY <2>1, <2>3, <2>4 DEF MemoryOK, IdsApart
  <2>6. Moved(mm, n)
    BY <1>2, <2>1, <2>3, <2>4 DEF Moved, InstrIds, DataIds
  <2>7. QED
    BY <1>2, <2>3, <2>5, <2>6 DEF n
<1>3. CASE mm.current = NoId /\ mm.dataQueue = <<>> /\ mm.instrQueue # <<>>
  <2>1. mm.instrQueue[1] \in Accesses /\ QueueIds(mm.instrQueue) = {mm.instrQueue[1].id}
    BY <1>3, AtMostOne, IdsOfList DEF MemoryOK, MemoryStates
  <2>2. mm.instrQueue[1].id \in Ids /\ ServiceTime[mm.instrQueue[1].type] \in Nat
    BY <2>1, SingleMemoryAssumption DEF Accesses
  <2>3. /\ n \in MemoryStates /\ n.dataQueue = mm.dataQueue /\ n.instrQueue = <<>>
        /\ n.current = mm.instrQueue[1].id /\ n.finished = mm.finished
    BY <1>3, <2>2, EmptyList DEF StartNext, AnnounceAccess, MemoryOK, MemoryStates
  <2> HIDE DEF n
  <2>4. QueueIds(n.instrQueue) = {} /\ Len(n.instrQueue) = 0
    BY <2>3, IdsOfList, EmptyList
  <2>5. MemoryOK(n)
    BY <2>1, <2>3, <2>4 DEF MemoryOK, IdsApart
  <2>6. Moved(mm, n)
    BY <1>3, <2>1, <2>3, <2>4 DEF Moved, InstrIds, DataIds
  <2>7. QED
    BY <1>3, <2>3, <2>5, <2>6 DEF n
<1>4. CASE mm.current = NoId /\ mm.dataQueue = <<>> /\ mm.instrQueue = <<>>
  BY <1>4 DEF StartNext, Moved, InstrIds, DataIds
<1>5. QED
  BY <1>1, <1>2, <1>3, <1>4

(* Serving an access does not touch which accesses there are.              *)
SameIds(mm, n) ==
    /\ n.instrQueue = mm.instrQueue /\ n.dataQueue = mm.dataQueue
    /\ n.current = mm.current /\ n.finished = mm.finished

LEMMA CycleBlockingIs ==
    ASSUME NEW mm \in MemoryStates, NEW n \in CycleBlocking(mm)
    PROVE  n \in MemoryStates /\ SameIds(mm, n)
<1> DEFINE served == [mm EXCEPT !.timeBlocked = IF @ > 0 THEN @ - 1 ELSE 0]
<1>1. served \in MemoryStates /\ SameIds(mm, served)
  <2>1. PICK t \in Nat : served = [mm EXCEPT !.timeBlocked = t]
    <3>1. mm.timeBlocked \in Nat
      BY DEF MemoryStates
    <3>2. (IF mm.timeBlocked > 0 THEN mm.timeBlocked - 1 ELSE 0) \in Nat
      BY <3>1
    <3>3. QED
      BY <3>2
  <2> HIDE DEF served
  <2>2. QED
    BY <2>1 DEF MemoryStates, SameIds
<1>2. ASSUME NEW x \in MemoryStates, NEW y \in PerformSplit(x)
      PROVE  y \in MemoryStates /\ SameIds(x, y)
  <2>1. CASE y = x
    BY <2>1 DEF SameIds
  <2>2. CASE y = [x EXCEPT !.delayed = FALSE, !.added = 0]
    <3>1. 0 \in 0 .. MaxBlockingPerAccess
      BY SingleMemoryAssumption
    <3>2. QED
      BY <2>2, <3>1 DEF MemoryStates, SameIds
  <2>3. CASE x.added < MaxBlockingPerAccess /\ y = [x EXCEPT !.added = @ + 1]
    <3>1. x.added + 1 \in 0 .. MaxBlockingPerAccess
      BY <2>3, SingleMemoryAssumption DEF MemoryStates
    <3>2. QED
      BY <2>3, <3>1 DEF MemoryStates, SameIds
  <2>4. QED
    BY <1>2, <2>1, <2>2, <2>3 DEF PerformSplit
<1>3. n = served \/ n \in PerformSplit(served)
  BY DEF CycleBlocking
<1> HIDE DEF served
<1>4. n \in MemoryStates /\ SameIds(served, n)
  BY <1>1, <1>2, <1>3 DEF SameIds
<1>5. QED
  BY <1>1, <1>4 DEF SameIds

LEMMA CycleMemoryIs ==
    ASSUME NEW mm, MemoryOK(mm), NEW n \in CycleMemory(mm)
    PROVE  MemoryOK(n) /\ Moved(mm, n) /\ (IsBlocked(n) => n.finished = NoId)
<1> DEFINE started == StartNext(mm)
<1>1. /\ MemoryOK(started) /\ Moved(mm, started) /\ started.finished = mm.finished
      /\ mm.current # NoId => started.current = mm.current
  BY StartNextIs
<1>2. PICK served \in CycleBlocking(started) : n = FinishAccess(served)
  BY DEF CycleMemory
<1> HIDE DEF started
<1>3. served \in MemoryStates /\ SameIds(started, served)
  BY <1>1, <1>2, CycleBlockingIs DEF MemoryOK
<1>4. /\ n \in MemoryStates /\ n.instrQueue = served.instrQueue /\ n.dataQueue = served.dataQueue
      /\ \/ n.finished = served.current /\ n.current = NoId /\ ~IsBusy(served) /\ ~IsBusy(n)
         \/ n.finished = NoId /\ n.current = served.current
  BY <1>2, <1>3 DEF FinishAccess, MemoryStates, IsBusy, NoId
<1>5. NoId \notin QueueIds(n.instrQueue) \cup QueueIds(n.dataQueue)
  BY <1>4, NoIdIsNotQueued DEF MemoryStates
<1>6. MemoryOK(n)
  BY <1>1, <1>3, <1>4, <1>5 DEF MemoryOK, IdsApart, SameIds
<1>7. Moved(mm, n)
  <2>1. /\ n.instrQueue = started.instrQueue /\ n.dataQueue = started.dataQueue
        /\ started.current # NoId => started.current \in {n.current, n.finished}
    BY <1>3, <1>4 DEF SameIds
  <2>2. /\ QueueIds(mm.instrQueue) \subseteq {started.current} \cup QueueIds(n.instrQueue)
        /\ QueueIds(mm.dataQueue) \subseteq {started.current} \cup QueueIds(n.dataQueue)
    BY <1>1, <2>1 DEF Moved, InstrIds, DataIds, MemoryOK, IdsApart
  <2>3. NoId \notin QueueIds(mm.instrQueue) \cup QueueIds(mm.dataQueue)
    BY NoIdIsNotQueued DEF MemoryOK, MemoryStates
  <2>4. /\ QueueIds(mm.instrQueue) \subseteq InstrIds(n)
        /\ QueueIds(mm.dataQueue) \subseteq DataIds(n)
    BY <2>1, <2>2, <2>3 DEF InstrIds, DataIds
  <2>5. QED
    BY <1>1, <2>1, <2>4 DEF Moved
<1>8. IsBlocked(n) => n.finished = NoId
  BY <1>4 DEF IsBlocked, IsBusy
<1>9. QED
  BY <1>6, <1>7, <1>8
-----------------------------------------------------------------------------
(* The invariant of the topology, which holds between any two parts of a   *)
(* cycle.                                                                  *)

ComponentOK(c) ==
    c \in MemoryComponent /\ Len(c.waiting) <= 1 /\ Len(c.ongoing) <= 1

TopologyOK(m) ==
    /\ m \in Topologies
    /\ ComponentOK(m.instr) /\ ComponentOK(m.data) /\ MemoryOK(m.memory)

(* The accesses of a port are different ones.                              *)
Distinct(c) ==
    /\ WaitingIds(c) \cap OngoingIds(c) = {}
    /\ c.finished \notin WaitingIds(c) \cup OngoingIds(c)

(* How far a fetch is, and the levels it has updated by then.              *)
FetchPhase(o) ==
    /\ o.cl = "HIT" => o.memId = NoId /\ ~o.inL2 /\ o.updated = {}
    /\ o.cl # "HIT" => o.updated = IF o.memId # NoId \/ o.inL2 THEN {} ELSE {"L2"}

DoneLevels(o) == o.updated = IF o.cl = "HIT" THEN {"L1"} ELSE Levels

FetchSide(m) ==
    /\ Distinct(m.instr)
    /\ \A o \in Range(m.instr.ongoing) :
          FetchPhase(o) /\ (o.memId # NoId => o.memId \in InstrIds(m.memory))
    /\ \A o \in Range(m.instr.done) : DoneLevels(o)

(* How far a data access is.  One that was rejected has no memory access,  *)
(* although it waits for its store.                                        *)
DataPhase(o, rejected) ==
    /\ o.phase \in {"WaitForLOAD", "WaitForCACHE", "WaitForSTORE"}
    /\ o.stalled => policy.unblockStores /\ o.phase # "WaitForCACHE"
    /\ o.memId # NoId => o.phase # "WaitForCACHE" /\ ~o.stalled
    /\ o.phase # "WaitForCACHE" /\ ~o.stalled =>
          o.memId # NoId \/ (rejected /\ o.phase = "WaitForSTORE")
    /\ o.phase = "WaitForLOAD" => o.cl = "L2MISS"

(* The levels that a load behind a write-through cache has updated.        *)
LoadLevels(o) ==
    /\ o.phase # "WaitForSTORE"
    /\ o.updated = IF o.cl = "HIT" \/ o.phase = "WaitForLOAD" \/ o.inL2
                   THEN {} ELSE {"L2"}
    /\ o.cl = "HIT" => ~o.inL2

IsPlainLoad(o) == o.access.type = "LOAD" /\ ~policy.writeBack

(* An unblocked store does not wait for its memory access.                 *)
Awaits(o) == o.memId # NoId /\ ~(policy.unblockStores /\ o.phase = "WaitForSTORE")

(* Nothing is queued for data but what the ongoing access waits for.       *)
OwnsQueue(o) ==
    \/ ~policy.unblockStores
    \/ ~o.stalled /\ (o.phase = "WaitForLOAD" \/ (o.phase = "WaitForCACHE" /\ o.cl = "L2MISS"))

DataAccessOK(o, m) ==
    /\ DataPhase(o, m.rejected)
    /\ IsPlainLoad(o) => LoadLevels(o)
    /\ Awaits(o) => o.memId \in DataIds(m.memory)
    /\ OwnsQueue(o) => QueueIds(m.memory.dataQueue) \subseteq {o.memId}

DataAnswers(m) ==
    /\ \A o \in Range(m.data.done) : IsPlainLoad(o) => DoneLevels(o)
    /\ m.data.finished # NoId => m.data.done # <<>>
    /\ m.rejected => policy.unblockStores /\ ~policy.writeAllocate

DataSide(m) ==
    /\ \A o \in Range(m.data.ongoing) : DataAccessOK(o, m)
    /\ m.data.ongoing = <<>> /\ ~policy.unblockStores => m.memory.dataQueue = <<>>
    /\ DataAnswers(m)

(* The ports wait for different accesses of the memory.                    *)
Apart(m) ==
    \A o \in Range(m.instr.ongoing) : \A d \in Range(m.data.ongoing) :
        o.memId # NoId => o.memId # d.memId

Whole(m) == TopologyOK(m) /\ FetchSide(m) /\ DataSide(m) /\ Apart(m)

(* What a port waits for has not just ended.                               *)
FetchUnmissed(m) ==
    \A o \in Range(m.instr.ongoing) : o.memId # NoId => o.memId # m.memory.finished
DataUnmissed(m) ==
    \A o \in Range(m.data.ongoing) : Awaits(o) => o.memId # m.memory.finished

(* Whether the ports hold what the pipeline waits for.                     *)
OnlyPlace(c, id) ==
    /\ WaitingIds(c) \cup OngoingIds(c) \cup ({c.finished} \ {NoId}) \subseteq {id}
    /\ c.waiting = <<>> \/ c.ongoing = <<>>
    /\ c.finished # NoId => c.waiting = <<>> /\ c.ongoing = <<>>
    /\ id # NoId => id \in WaitingIds(c) \cup OngoingIds(c) \cup {c.finished}

InPort(c, id) == id # NoId => id \in WaitingIds(c) \cup OngoingIds(c)

(* The time t since a load that hits a cache was accepted, and the time it *)
(* still has to stay there.                                                *)
HitClock(o, t) ==
    /\ o.cl = "HIT" => /\ o.phase = "WaitForCACHE" /\ ~o.inL2 /\ o.l1 > 0
                       /\ o.l1 + t.lo = DataLatency /\ t.hi = t.lo
    /\ o.cl = "L2HIT" => /\ o.phase = "WaitForCACHE" /\ t.hi = t.lo
                         /\ IF o.inL2 THEN o.l2 > 0 /\ o.l2 + t.lo = L2Latency
                            ELSE o.l1 > 0 /\ o.l1 + t.lo = L2Latency + InstrLatency

IsTimedLoad(o) == o.access.type = "LOAD" /\ ~policy.stallOnBlocking

Clock(m, t) ==
    /\ m.data.waiting # <<>> => t.lo = 0 /\ t.hi = 0
    /\ \A o \in Range(m.data.ongoing) : IsTimedLoad(o) => HitClock(o, t)

-----------------------------------------------------------------------------
(* The components of a topology.                                           *)

LEMMA PartsOfTopology ==
    ASSUME NEW m, TopologyOK(m)
    PROVE  /\ m.instr \in MemoryComponent /\ m.data \in MemoryComponent
           /\ m.memory \in MemoryStates /\ m.events \in BOOLEAN /\ m.rejected \in BOOLEAN
BY DEF TopologyOK, Topologies

(* A port has at most one waiting and one ongoing access.                  *)
LEMMA PartsOfComponent ==
    ASSUME NEW c, ComponentOK(c)
    PROVE  /\ c.waiting = <<>> => WaitingIds(c) = {}
           /\ c.waiting # <<>> => /\ c.waiting[1] \in Accesses
                                  /\ WaitingIds(c) = {c.waiting[1].id}
           /\ c.ongoing = <<>> => Range(c.ongoing) = {} /\ OngoingIds(c) = {}
           /\ c.ongoing # <<>> => /\ c.ongoing[1] \in OngoingAccess
                                  /\ Range(c.ongoing) = {c.ongoing[1]}
                                  /\ OngoingIds(c) = {c.ongoing[1].access.id}
<1>1. /\ c.waiting \in Seq(Accesses) /\ c.ongoing \in Seq(OngoingAccess)
      /\ Len(c.waiting) <= 1 /\ Len(c.ongoing) <= 1
  BY DEF ComponentOK, MemoryComponent
<1>2. /\ c.waiting = <<>> => Range(c.waiting) = {}
      /\ c.waiting # <<>> => c.waiting[1] \in Accesses /\ Range(c.waiting) = {c.waiting[1]}
  BY <1>1, AtMostOne
<1>3. /\ c.ongoing = <<>> => Range(c.ongoing) = {}
      /\ c.ongoing # <<>> => c.ongoing[1] \in OngoingAccess /\ Range(c.ongoing) = {c.ongoing[1]}
  BY <1>1, AtMostOne
<1>4. QED
  BY <1>2, <1>3 DEF WaitingIds, OngoingIds

(* The id of a new memory access is used neither by the memory nor by the  *)
(* ports.                                                                  *)
LEMMA NewMemIdIsNew ==
    ASSUME NEW m, TopologyOK(m)
    PROVE  /\ NewMemId(m) \in Ids /\ NewMemId(m) \notin IdsInMemory(m.memory)
           /\ \A o \in Range(m.instr.ongoing) \cup Range(m.data.ongoing) :
                  NewMemId(m) # o.memId
<1> DEFINE used == IdsInMemory(m.memory) \cup AwaitedIds(m)
<1>0. ASSUME NEW q \in Seq(Accesses), Len(q) <= 1
      PROVE  \E a : QueueIds(q) \subseteq {a}
  <2>1. CASE q = <<>>
    BY <2>1, IdsOfList
  <2>2. CASE q # <<>>
    <3>1. QueueIds(q) = {q[1].id}
      BY <1>0, <2>2, IdsOfList
    <3>2. QED
      BY <3>1
  <2>3. QED
    BY <2>1, <2>2
<1>01. /\ m.memory.instrQueue \in Seq(Accesses) /\ Len(m.memory.instrQueue) <= 1
       /\ m.memory.dataQueue \in Seq(Accesses) /\ Len(m.memory.dataQueue) <= 1
  BY DEF TopologyOK, MemoryOK, MemoryStates
<1>1. PICK a : QueueIds(m.memory.instrQueue) \subseteq {a}
  BY <1>0, <1>01
<1>2. PICK b : QueueIds(m.memory.dataQueue) \subseteq {b}
  BY <1>0, <1>01
<1>02. ASSUME NEW p, ComponentOK(p)
       PROVE  \E c : {o.memId : o \in Range(p.ongoing)} \subseteq {c}
  <2>1. CASE p.ongoing = <<>>
    BY <1>02, <2>1, PartsOfComponent
  <2>2. CASE p.ongoing # <<>>
    <3>1. Range(p.ongoing) = {p.ongoing[1]}
      BY <1>02, <2>2, PartsOfComponent
    <3>2. {o.memId : o \in Range(p.ongoing)} \subseteq {p.ongoing[1].memId}
      BY <3>1
    <3>3. QED
      BY <3>2
  <2>3. QED
    BY <2>1, <2>2
<1>3. PICK c : {o.memId : o \in Range(m.instr.ongoing)} \subseteq {c}
  BY <1>02 DEF TopologyOK
<1>4. PICK d : {o.memId : o \in Range(m.data.ongoing)} \subseteq {d}
  BY <1>02 DEF TopologyOK
<1>5. used \subseteq {m.memory.current, m.memory.finished, a, b, c, d}
  BY <1>1, <1>2, <1>3, <1>4, IdsOfMemory DEF InstrIds, DataIds, AwaitedIds
<1> HIDE DEF used
<1>6. FreeId(used) \in Ids \ used
  <2>1. used \subseteq {m.memory.current, m.memory.finished, a, b, c, d, a, a}
    BY <1>5
  <2>2. QED
    BY <2>1, FreeIdIsFree
<1>7. /\ NewMemId(m) \in Ids
      /\ NewMemId(m) \notin IdsInMemory(m.memory) /\ NewMemId(m) \notin AwaitedIds(m)
  BY <1>6 DEF used, NewMemId
<1>8. QED
  BY <1>7 DEF AwaitedIds, Ids, NoId
-----------------------------------------------------------------------------
(* Starting accesses.                                                      *)

LEMMA OutcomesType == UNION {Outcomes(l1, l2) : l1, l2 \in L1Answers} \subseteq Outcome
BY DEF Outcomes, Outcome, L1Answers

LEMMA StartedWithType ==
    ASSUME NEW a \in Accesses, NEW cl \in Outcome
    PROVE  LET o == StartedWith(a, cl)
           IN  /\ o \in OngoingAccess /\ o.access = a /\ o.cl = cl /\ o.memId = NoId
               /\ o.phase = "WaitForSTART" /\ ~o.stalled /\ ~o.inL2 /\ o.updated = {}
BY DEF StartedWith, OngoingAccess, Phase, Levels

(* What becomes of a topology when a port goes on with an access.          *)
LEMMA OngoingType ==
    ASSUME NEW c \in MemoryComponent, NEW o \in OngoingAccess
    PROVE  [c EXCEPT !.ongoing = <<o>>] \in MemoryComponent
<1>1. <<o>> \in Seq(OngoingAccess)
  OBVIOUS
<1>2. QED
  BY <1>1 DEF MemoryComponent

LEMMA WaitingType ==
    ASSUME NEW c \in MemoryComponent, NEW q \in Seq(Accesses)
    PROVE  [c EXCEPT !.waiting = q] \in MemoryComponent
BY DEF MemoryComponent

LEMMA Latencies ==
    InstrLatency \in Nat \ {0} /\ DataLatency \in Nat \ {0} /\ L2Latency \in Nat \ {0}
BY TopologyAssumption

LEMMA OngoingFields ==
    ASSUME NEW c \in MemoryComponent, NEW o \in OngoingAccess
    PROVE  LET n == [c EXCEPT !.ongoing = <<o>>]
           IN  /\ n \in MemoryComponent /\ n.ongoing = <<o>> /\ n.waiting = c.waiting
               /\ n.finished = c.finished /\ n.done = c.done
<1>1. <<o>> \in Seq(OngoingAccess)
  OBVIOUS
<1>2. QED
  BY <1>1 DEF MemoryComponent

(* The port goes on with access o, the memory with mm.                     *)
FetchGoesOn(m, n, o, mm) ==
    /\ n \in Topologies /\ n.instr.ongoing = <<o>>
    /\ n.instr.waiting = m.instr.waiting /\ n.instr.finished = m.instr.finished
    /\ n.instr.done = m.instr.done
    /\ n.data = m.data /\ n.memory = mm /\ n.rejected = m.rejected

LEMMA FetchOngoing ==
    ASSUME NEW m \in Topologies, NEW o \in OngoingAccess, NEW mm \in MemoryStates
    PROVE  /\ FetchGoesOn(m, [m EXCEPT !.instr.ongoing = <<o>>], o, m.memory)
           /\ FetchGoesOn(m, [m EXCEPT !.instr.ongoing = <<o>>, !.events = TRUE], o, m.memory)
           /\ FetchGoesOn(m, [m EXCEPT !.instr.ongoing = <<o>>, !.memory = mm], o, mm)
           /\ FetchGoesOn(m, [m EXCEPT !.instr.ongoing = <<o>>, !.memory = mm, !.events = TRUE],
                          o, mm)
<1> DEFINE c == [m.instr EXCEPT !.ongoing = <<o>>]
<1>1. /\ c \in MemoryComponent /\ c.ongoing = <<o>> /\ c.waiting = m.instr.waiting
      /\ c.finished = m.instr.finished /\ c.done = m.instr.done
  BY OngoingFields DEF Topologies
<1>2. ASSUME NEW n, NEW k \in MemoryStates, NEW e \in BOOLEAN,
             n = [m EXCEPT !.instr = c, !.memory = k, !.events = e]
      PROVE  FetchGoesOn(m, n, o, k)
  <2> HIDE DEF c
  <2>1. /\ n \in Topologies /\ n.instr = c /\ n.data = m.data /\ n.memory = k
        /\ n.rejected = m.rejected
    BY <1>1, <1>2 DEF Topologies
  <2>2. QED
    BY <1>1, <2>1 DEF FetchGoesOn
<1>3. /\ [m EXCEPT !.instr.ongoing = <<o>>]
            = [m EXCEPT !.instr = c, !.memory = m.memory, !.events = m.events]
      /\ [m EXCEPT !.instr.ongoing = <<o>>, !.events = TRUE]
            = [m EXCEPT !.instr = c, !.memory = m.memory, !.events = TRUE]
      /\ [m EXCEPT !.instr.ongoing = <<o>>, !.memory = mm]
            = [m EXCEPT !.instr = c, !.memory = mm, !.events = m.events]
      /\ [m EXCEPT !.instr.ongoing = <<o>>, !.memory = mm, !.events = TRUE]
            = [m EXCEPT !.instr = c, !.memory = mm, !.events = TRUE]
  BY DEF Topologies
<1>4. m.memory \in MemoryStates /\ m.events \in BOOLEAN
  BY DEF Topologies
<1> HIDE DEF c
<1>5. QED
  BY <1>2, <1>3, <1>4

(* A fetch starts: it hits a cache, or gets a new access of the memory.    *)
LEMMA ProcessInstrCacheAccessIs ==
    ASSUME NEW m, TopologyOK(m), m.instr.ongoing = <<>>, m.instr.waiting # <<>>,
           NEW cl \in Outcome, NEW n,
           n = ProcessInstrCacheAccess([m EXCEPT !.instr.waiting = <<>>],
                                       StartedWith(m.instr.waiting[1], cl))
    PROVE  /\ n \in Topologies /\ n.data = m.data /\ n.rejected = m.rejected
           /\ n.instr.waiting = <<>> /\ n.instr.finished = m.instr.finished
           /\ n.instr.done = m.instr.done
           /\ \E o \in OngoingAccess :
                 /\ n.instr.ongoing = <<o>> /\ o.access = m.instr.waiting[1]
                 /\ FetchPhase(o)
                 /\ \/ o.memId = NoId /\ n.memory = m.memory
                    \/ /\ o.memId \in Ids /\ o.memId \notin IdsInMemory(m.memory)
                       /\ \A d \in Range(m.data.ongoing) : o.memId # d.memId
                       /\ n.memory = AccessInstr(m.memory, o.memId)
<1> DEFINE k == [m EXCEPT !.instr.waiting = <<>>]
           o == StartedWith(m.instr.waiting[1], cl)
<1>3. m.instr.waiting[1] \in Accesses
  BY PartsOfComponent DEF TopologyOK
<1>4. /\ o \in OngoingAccess /\ o.access = m.instr.waiting[1] /\ o.cl = cl
      /\ o.memId = NoId /\ ~o.inL2 /\ o.updated = {}
  BY <1>3, StartedWithType
<1>5. /\ k \in Topologies /\ k.memory \in MemoryStates
      /\ k.data = m.data /\ k.memory = m.memory /\ k.rejected = m.rejected
      /\ k.instr = [m.instr EXCEPT !.waiting = <<>>]
  <2>1. m \in Topologies /\ m.instr \in MemoryComponent /\ m.memory \in MemoryStates
    BY PartsOfTopology DEF TopologyOK
  <2>2. [m.instr EXCEPT !.waiting = <<>>] \in MemoryComponent
    <3>1. <<>> \in Seq(Accesses)
      OBVIOUS
    <3>2. QED
      BY <2>1, <3>1, WaitingType
  <2>3. QED
    BY <2>1, <2>2 DEF Topologies
<1>52. /\ k.instr.waiting = <<>> /\ k.instr.ongoing = m.instr.ongoing
       /\ k.instr.finished = m.instr.finished /\ k.instr.done = m.instr.done
  BY <1>5 DEF TopologyOK, ComponentOK, MemoryComponent
<1>7. n = ProcessInstrCacheAccess(k, o)
  OBVIOUS
<1> HIDE DEF k
<1>6. TopologyOK(k)
  <2>1. ComponentOK(k.instr)
    <3>1. k.instr \in MemoryComponent
      BY <1>5 DEF Topologies
    <3>2. QED
      BY <1>52, <3>1, EmptyList DEF ComponentOK
  <2>2. QED
    BY <1>5, <2>1 DEF TopologyOK
<1> HIDE DEF o
<1>8. CASE cl = "HIT"
  <2> DEFINE p == [o EXCEPT !.l1 = InstrLatency]
  <2>1. p \in OngoingAccess /\ p.access = o.access /\ p.memId = NoId /\ FetchPhase(p)
    BY <1>4, <1>8, Latencies DEF OngoingAccess, FetchPhase
  <2>2. n = [k EXCEPT !.instr.ongoing = <<p>>]
    BY <1>4, <1>7, <1>8 DEF ProcessInstrCacheAccess
  <2> HIDE DEF p
  <2>3. FetchGoesOn(k, n, p, k.memory)
    BY <1>5, <2>1, <2>2, FetchOngoing
  <2>4. QED
    BY <1>4, <1>5, <1>52, <2>1, <2>3 DEF FetchGoesOn
<1>9. CASE cl = "L2HIT"
  <2> DEFINE p == [o EXCEPT !.l2 = L2Latency, !.inL2 = TRUE]
  <2>1. p \in OngoingAccess /\ p.access = o.access /\ p.memId = NoId /\ FetchPhase(p)
    <3>1. p \in OngoingAccess
      BY <1>4, Latencies DEF OngoingAccess
    <3>2. /\ p.access = o.access /\ p.memId = o.memId /\ p.cl = o.cl
          /\ p.updated = o.updated /\ p.inL2
      BY <1>4 DEF OngoingAccess
    <3>3. QED
      BY <1>4, <1>9, <3>1, <3>2 DEF FetchPhase
  <2>2. n = [k EXCEPT !.instr.ongoing = <<p>>, !.events = TRUE]
    BY <1>4, <1>7, <1>9 DEF ProcessInstrCacheAccess
  <2> HIDE DEF p
  <2>3. FetchGoesOn(k, n, p, k.memory)
    BY <1>5, <2>1, <2>2, FetchOngoing
  <2>4. QED
    BY <1>4, <1>5, <1>52, <2>1, <2>3 DEF FetchGoesOn
<1>10. CASE cl = "L2MISS"
  <2> DEFINE id == NewMemId(k)
             p == [o EXCEPT !.memId = id]
             mm == AccessInstr(k.memory, id)
  <2>1. /\ id \in Ids /\ id \notin IdsInMemory(k.memory)
        /\ \A d \in Range(k.data.ongoing) : id # d.memId
    BY <1>6, NewMemIdIsNew
  <2> HIDE DEF id
  <2>2. p \in OngoingAccess /\ p.access = o.access /\ p.memId = id /\ FetchPhase(p)
    BY <1>4, <1>10, <2>1 DEF OngoingAccess, FetchPhase, Ids, NoId
  <2>3. n = [k EXCEPT !.instr.ongoing = <<p>>, !.memory = mm, !.events = TRUE]
    BY <1>4, <1>7, <1>10 DEF ProcessInstrCacheAccess, id
  <2>4. mm \in MemoryStates
    BY <1>6, <2>1, AccessInstrIs DEF TopologyOK, MemoryOK
  <2> HIDE DEF p, mm
  <2>5. FetchGoesOn(k, n, p, mm)
    <3>1. k \in Topologies /\ p \in OngoingAccess
      BY <1>5, <2>2
    <3>2. FetchGoesOn(k, [k EXCEPT !.instr.ongoing = <<p>>, !.memory = mm, !.events = TRUE], p, mm)
      BY <2>4, <3>1, FetchOngoing
    <3>3. QED
      BY <2>3, <3>2
  <2>6. QED
    BY <1>4, <1>5, <1>52, <2>1, <2>2, <2>5 DEF FetchGoesOn, mm
<1>11. QED
  BY <1>8, <1>9, <1>10 DEF Outcome

LEMMA StartInstructionAccessOK ==
    ASSUME NEW m, Whole(m), FetchUnmissed(m), DataUnmissed(m),
           NEW n \in StartInstructionAccess(m)
    PROVE  /\ Whole(n) /\ FetchUnmissed(n) /\ DataUnmissed(n) /\ n.data = m.data
           /\ \A id : InPort(m.instr, id) => InPort(n.instr, id)
<1>1. CASE n = m
  BY <1>1
<1>2. CASE n # m
  <2>1. m.instr.ongoing = <<>> /\ m.instr.waiting # <<>>
    BY <1>2 DEF StartInstructionAccess, IsOngoing
  <2>2. PICK cl \in Outcome :
           n = ProcessInstrCacheAccess([m EXCEPT !.instr.waiting = <<>>],
                                       StartedWith(m.instr.waiting[1], cl))
    <3> DEFINE S == UNION {Outcomes(l1, l2) : l1, l2 \in L1Answers}
    <3>1. S \subseteq Outcome
      BY OutcomesType
    <3>2. n \in {ProcessInstrCacheAccess([m EXCEPT !.instr.waiting = <<>>],
                                          StartedWith(m.instr.waiting[1], cl)) : cl \in S}
      BY <2>1 DEF StartInstructionAccess, IsOngoing
    <3> HIDE DEF S
    <3>3. QED
      BY <3>1, <3>2
  <2>3. TopologyOK(m)
    BY DEF Whole
  <2> DEFINE w == m.instr.waiting[1]
  <2>4. /\ n \in Topologies /\ n.data = m.data /\ n.rejected = m.rejected
        /\ n.instr.waiting = <<>> /\ n.instr.finished = m.instr.finished
        /\ n.instr.done = m.instr.done
        /\ \E o \in OngoingAccess :
              /\ n.instr.ongoing = <<o>> /\ o.access = w
              /\ FetchPhase(o)
              /\ \/ o.memId = NoId /\ n.memory = m.memory
                 \/ /\ o.memId \in Ids /\ o.memId \notin IdsInMemory(m.memory)
                    /\ \A d \in Range(m.data.ongoing) : o.memId # d.memId
                    /\ n.memory = AccessInstr(m.memory, o.memId)
    BY <2>1, <2>2, <2>3, ProcessInstrCacheAccessIs
  <2>5. PICK o \in OngoingAccess :
              /\ n.instr.ongoing = <<o>> /\ o.access = w
              /\ FetchPhase(o)
              /\ \/ o.memId = NoId /\ n.memory = m.memory
                 \/ /\ o.memId \in Ids /\ o.memId \notin IdsInMemory(m.memory)
                    /\ \A d \in Range(m.data.ongoing) : o.memId # d.memId
                    /\ n.memory = AccessInstr(m.memory, o.memId)
    BY <2>4
  <2> HIDE DEF w
  <2>6. /\ WaitingIds(m.instr) = {w.id} /\ OngoingIds(m.instr) = {}
        /\ WaitingIds(n.instr) = {} /\ OngoingIds(n.instr) = {w.id}
        /\ Range(n.instr.ongoing) = {o}
    <3>1. WaitingIds(m.instr) = {w.id} /\ OngoingIds(m.instr) = {}
      BY <2>1, <2>3, PartsOfComponent DEF TopologyOK, w
    <3>2. Range(n.instr.ongoing) = {o} /\ Range(n.instr.waiting) = {}
      BY <2>4, <2>5, ListOfOne, EmptyList
    <3>3. QED
      BY <2>5, <3>1, <3>2 DEF WaitingIds, OngoingIds
  <2>7. /\ MemoryOK(n.memory) /\ n.memory.current = m.memory.current
        /\ n.memory.finished = m.memory.finished /\ n.memory.dataQueue = m.memory.dataQueue
        /\ o.memId # NoId => o.memId \in QueueIds(n.memory.instrQueue) /\ o.memId # m.memory.finished
    <3>1. CASE n.memory = m.memory /\ o.memId = NoId
      BY <2>3, <3>1 DEF TopologyOK
    <3>2. CASE /\ o.memId \in Ids /\ o.memId \notin IdsInMemory(m.memory)
               /\ n.memory = AccessInstr(m.memory, o.memId)
      <4>1. /\ MemoryOK(n.memory) /\ n.memory.current = m.memory.current
            /\ n.memory.finished = m.memory.finished /\ n.memory.dataQueue = m.memory.dataQueue
            /\ QueueIds(n.memory.instrQueue) = {o.memId}
        BY <2>3, <3>2, AccessInstrIs DEF TopologyOK
      <4>2. QED
        BY <3>2, <4>1, IdsOfMemory DEF InstrIds
    <3>3. QED
      BY <2>5, <3>1, <3>2
  <2>8. TopologyOK(n)
    <3>1. ComponentOK(n.instr)
      <4>1. n.instr \in MemoryComponent
        BY <2>4 DEF Topologies
      <4>2. QED
        BY <2>4, <2>5, <4>1, ListOfOne, EmptyList DEF ComponentOK
    <3>2. QED
      BY <2>3, <2>4, <2>7, <3>1 DEF TopologyOK
  <2>9. FetchSide(n)
    <3>1. Distinct(n.instr)
      BY <2>4, <2>6 DEF Whole, FetchSide, Distinct
    <3>2. QED
      BY <2>4, <2>5, <2>6, <2>7, <3>1 DEF Whole, FetchSide, InstrIds
  <2>10. DataSide(n)
    BY <2>4, <2>7 DEF Whole, DataSide, DataAccessOK, DataAnswers, DataIds
  <2>11. Apart(n)
    BY <2>4, <2>5, <2>6 DEF Apart
  <2>12. FetchUnmissed(n)
    BY <2>6, <2>7 DEF FetchUnmissed
  <2>13. DataUnmissed(n)
    BY <2>4, <2>7 DEF DataUnmissed
  <2>14. \A id : InPort(m.instr, id) => InPort(n.instr, id)
    BY <2>6 DEF InPort
  <2>15. QED
    BY <2>4, <2>8, <2>9, <2>10, <2>11, <2>12, <2>13, <2>14 DEF Whole
<1>3. QED
  BY <1>1, <1>2

(* The same for the data port; r tells whether an access was rejected.     *)
DataGoesOn(m, n, o, mm, r) ==
    /\ n \in Topologies /\ n.data.ongoing = <<o>>
    /\ n.data.waiting = m.data.waiting /\ n.data.finished = m.data.finished
    /\ n.data.done = m.data.done
    /\ n.instr = m.instr /\ n.memory = mm /\ n.rejected = r

LEMMA DataOngoing ==
    ASSUME NEW m \in Topologies, NEW o \in OngoingAccess, NEW mm \in MemoryStates
    PROVE  /\ DataGoesOn(m, [m EXCEPT !.data.ongoing = <<o>>], o, m.memory, m.rejected)
           /\ DataGoesOn(m, [m EXCEPT !.data.ongoing = <<o>>, !.events = TRUE], o, m.memory,
                         m.rejected)
           /\ DataGoesOn(m, [m EXCEPT !.data.ongoing = <<o>>, !.memory = mm], o, mm, m.rejected)
           /\ DataGoesOn(m, [m EXCEPT !.data.ongoing = <<o>>, !.rejected = TRUE], o, m.memory,
                         TRUE)
<1> DEFINE c == [m.data EXCEPT !.ongoing = <<o>>]
<1>1. /\ c \in MemoryComponent /\ c.ongoing = <<o>> /\ c.waiting = m.data.waiting
      /\ c.finished = m.data.finished /\ c.done = m.data.done
  BY OngoingFields DEF Topologies
<1>3. DataGoesOn(m, [m EXCEPT !.data.ongoing = <<o>>], o, m.memory, m.rejected)
  <2> DEFINE n == [m EXCEPT !.data.ongoing = <<o>>]
  <2>1. n \in Topologies /\ n.data = c /\ n.instr = m.instr /\ n.memory = m.memory
        /\ n.rejected = m.rejected
    BY <1>1 DEF Topologies
  <2> HIDE DEF n, c
  <2>2. QED
    BY <1>1, <2>1 DEF DataGoesOn, n
<1>4. DataGoesOn(m, [m EXCEPT !.data.ongoing = <<o>>, !.events = TRUE], o, m.memory, m.rejected)
  <2> DEFINE n == [m EXCEPT !.data.ongoing = <<o>>, !.events = TRUE]
  <2>1. n \in Topologies /\ n.data = c /\ n.instr = m.instr /\ n.memory = m.memory
        /\ n.rejected = m.rejected
    BY <1>1 DEF Topologies
  <2> HIDE DEF n, c
  <2>2. QED
    BY <1>1, <2>1 DEF DataGoesOn, n
<1>5. DataGoesOn(m, [m EXCEPT !.data.ongoing = <<o>>, !.memory = mm], o, mm, m.rejected)
  <2> DEFINE n == [m EXCEPT !.data.ongoing = <<o>>, !.memory = mm]
  <2>1. n \in Topologies /\ n.data = c /\ n.instr = m.instr /\ n.memory = mm
        /\ n.rejected = m.rejected
    BY <1>1 DEF Topologies
  <2> HIDE DEF n, c
  <2>2. QED
    BY <1>1, <2>1 DEF DataGoesOn, n
<1>6. DataGoesOn(m, [m EXCEPT !.data.ongoing = <<o>>, !.rejected = TRUE], o, m.memory, TRUE)
  <2> DEFINE n == [m EXCEPT !.data.ongoing = <<o>>, !.rejected = TRUE]
  <2>1. n \in Topologies /\ n.data = c /\ n.instr = m.instr /\ n.memory = m.memory
        /\ n.rejected = TRUE
    BY <1>1 DEF Topologies
  <2> HIDE DEF n, c
  <2>2. QED
    BY <1>1, <2>1 DEF DataGoesOn, n
<1>7. QED
  BY <1>3, <1>4, <1>5, <1>6

(* What a data access keeps that is tried on the memory.                   *)
SameAccess(o, p) ==
    /\ p.access = o.access /\ p.phase = o.phase /\ p.cl = o.cl /\ p.updated = o.updated
    /\ p.inL2 = o.inL2

(* It gets a new access of the memory, or has to wait for the queue.       *)
LEMMA TryMemoryIs ==
    ASSUME NEW m, TopologyOK(m), NEW o \in OngoingAccess, NEW type \in AccessType
    PROVE  \E p \in OngoingAccess : \E mm \in MemoryStates :
              /\ DataGoesOn(m, TryMemory(m, o, type), p, mm, m.rejected) /\ SameAccess(o, p)
              /\ \/ /\ m.memory.dataQueue = <<>> /\ ~p.stalled
                    /\ p.memId \in Ids /\ p.memId \notin IdsInMemory(m.memory)
                    /\ \A i \in Range(m.instr.ongoing) : i.memId # p.memId
                    /\ mm = AccessData(m.memory, p.memId, type)
                 \/ /\ m.memory.dataQueue # <<>> /\ p.stalled /\ p.memId = o.memId
                    /\ mm = m.memory
<1>1. m \in Topologies /\ m.memory \in MemoryStates
  BY PartsOfTopology DEF TopologyOK
<1>2. CASE m.memory.dataQueue = <<>>
  <2> DEFINE id == NewMemId(m)
             p == [o EXCEPT !.memId = id, !.stalled = FALSE]
             mm == AccessData(m.memory, id, type)
  <2>1. /\ id \in Ids /\ id \notin IdsInMemory(m.memory)
        /\ \A i \in Range(m.instr.ongoing) : i.memId # id
    BY NewMemIdIsNew
  <2>2. TryMemory(m, o, type) = [m EXCEPT !.data.ongoing = <<p>>, !.memory = mm]
    BY <1>2 DEF TryMemory, AcceptsData
  <2> HIDE DEF id
  <2>3. p \in OngoingAccess /\ p.memId = id /\ ~p.stalled /\ SameAccess(o, p)
    BY <2>1 DEF OngoingAccess, SameAccess
  <2>4. mm \in MemoryStates
    BY <2>1, AccessDataIs DEF TopologyOK, MemoryOK
  <2>5. mm = AccessData(m.memory, p.memId, type)
    BY <2>3
  <2> HIDE DEF p, mm
  <2>6. DataGoesOn(m, [m EXCEPT !.data.ongoing = <<p>>, !.memory = mm], p, mm, m.rejected)
    BY <1>1, <2>3, <2>4, DataOngoing
  <2>7. DataGoesOn(m, TryMemory(m, o, type), p, mm, m.rejected)
    BY <2>2, <2>6
  <2>8. QED
    BY <1>2, <2>1, <2>3, <2>4, <2>5, <2>7
<1>3. CASE m.memory.dataQueue # <<>>
  <2> DEFINE p == [o EXCEPT !.stalled = TRUE]
  <2>1. p \in OngoingAccess /\ p.memId = o.memId /\ p.stalled /\ SameAccess(o, p)
    BY DEF OngoingAccess, SameAccess
  <2>2. TryMemory(m, o, type) = [m EXCEPT !.data.ongoing = <<p>>]
    BY <1>3 DEF TryMemory, AcceptsData
  <2> HIDE DEF p
  <2>3. DataGoesOn(m, [m EXCEPT !.data.ongoing = <<p>>], p, m.memory, m.rejected)
    BY <1>1, <2>1, DataOngoing
  <2>4. DataGoesOn(m, TryMemory(m, o, type), p, m.memory, m.rejected)
    BY <2>2, <2>3
  <2>5. QED
    BY <1>1, <1>3, <2>1, <2>4
<1>4. QED
  BY <1>2, <1>3

(* A data access goes on with the memory, in a topology whose fetches are  *)
(* in order: what is to be known of the access.                            *)
MayTry(m, o) ==
    /\ o.phase \in {"WaitForLOAD", "WaitForSTORE"} /\ o.memId = NoId
    /\ o.phase = "WaitForLOAD" => o.cl = "L2MISS"
    /\ IsPlainLoad(o) => LoadLevels(o)
    /\ ~policy.unblockStores => m.memory.dataQueue = <<>>

(* The same order of the fetches in another topology.                      *)
LEMMA FetchSideSame ==
    ASSUME NEW m, NEW n, FetchSide(m), n.instr = m.instr,
           n.memory.instrQueue = m.memory.instrQueue, n.memory.current = m.memory.current,
           n.memory.finished = m.memory.finished
    PROVE  FetchSide(n) /\ (FetchUnmissed(m) => FetchUnmissed(n))
BY DEF FetchSide, FetchUnmissed, InstrIds

(* What holds after a port has gone on with o.                             *)
DataHasGoneOn(m, n, o) ==
    /\ Whole(n) /\ DataUnmissed(n) /\ (FetchUnmissed(m) => FetchUnmissed(n))
    /\ n.instr = m.instr /\ n.data.waiting = m.data.waiting /\ n.data.finished = m.data.finished
    /\ n.data.done = m.data.done
    /\ \E p \in OngoingAccess : n.data.ongoing = <<p>> /\ p.access = o.access /\ p.cl = o.cl

LEMMA GoneOnIsOK ==
    ASSUME NEW m, TopologyOK(m), NEW p \in OngoingAccess, NEW mm, MemoryOK(mm), NEW r, NEW n,
           DataGoesOn(m, n, p, mm, r)
    PROVE  /\ TopologyOK(n) /\ Range(n.data.ongoing) = {p} /\ n.data.ongoing # <<>>
           /\ n.memory = mm /\ n.instr = m.instr /\ n.rejected = r
<1>1. ComponentOK(n.data)
  <2>1. n.data \in MemoryComponent
    BY DEF DataGoesOn, Topologies
  <2>2. QED
    BY <2>1, ListOfOne DEF DataGoesOn, TopologyOK, ComponentOK
<1>2. Range(n.data.ongoing) = {p} /\ n.data.ongoing # <<>>
  BY ListOfOne DEF DataGoesOn
<1>3. QED
  BY <1>1, <1>2 DEF DataGoesOn, TopologyOK

LEMMA TryMemoryOK ==
    ASSUME NEW m, TopologyOK(m), FetchSide(m), DataAnswers(m),
           NEW o \in OngoingAccess, MayTry(m, o), NEW type \in AccessType
    PROVE  DataHasGoneOn(m, TryMemory(m, o, type), o)
<1> DEFINE n == TryMemory(m, o, type)
<1>1. PICK p \in OngoingAccess : \E mm \in MemoryStates :
              /\ DataGoesOn(m, n, p, mm, m.rejected) /\ SameAccess(o, p)
              /\ \/ /\ m.memory.dataQueue = <<>> /\ ~p.stalled
                    /\ p.memId \in Ids /\ p.memId \notin IdsInMemory(m.memory)
                    /\ \A i \in Range(m.instr.ongoing) : i.memId # p.memId
                    /\ mm = AccessData(m.memory, p.memId, type)
                 \/ /\ m.memory.dataQueue # <<>> /\ p.stalled /\ p.memId = o.memId
                    /\ mm = m.memory
  BY TryMemoryIs
<1> HIDE DEF n
<1>2. SameAccess(o, p)
  BY <1>1
<1>3. CASE /\ m.memory.dataQueue = <<>> /\ ~p.stalled
           /\ p.memId \in Ids /\ p.memId \notin IdsInMemory(m.memory)
           /\ \A i \in Range(m.instr.ongoing) : i.memId # p.memId
           /\ DataGoesOn(m, n, p, AccessData(m.memory, p.memId, type), m.rejected)
  <2> DEFINE mm == AccessData(m.memory, p.memId, type)
  <2>1. /\ MemoryOK(mm) /\ mm.current = m.memory.current /\ mm.finished = m.memory.finished
        /\ mm.instrQueue = m.memory.instrQueue /\ QueueIds(mm.dataQueue) = {p.memId}
    BY <1>3, AccessDataIs DEF TopologyOK
  <2> HIDE DEF mm
  <2>2. /\ TopologyOK(n) /\ Range(n.data.ongoing) = {p} /\ n.data.ongoing # <<>>
        /\ n.memory = mm /\ n.instr = m.instr /\ n.rejected = m.rejected
    BY <1>3, <2>1, GoneOnIsOK DEF mm
  <2>3. FetchSide(n) /\ (FetchUnmissed(m) => FetchUnmissed(n))
    BY <2>1, <2>2, FetchSideSame
  <2>4. DataAccessOK(p, n)
    <3>1. DataPhase(p, n.rejected)
      BY <1>2, <1>3 DEF MayTry, SameAccess, DataPhase, Ids, NoId
    <3>2. IsPlainLoad(p) => LoadLevels(p)
      BY <1>2 DEF MayTry, SameAccess, IsPlainLoad, LoadLevels
    <3>3. p.memId \in DataIds(n.memory) /\ QueueIds(n.memory.dataQueue) = {p.memId}
      BY <2>1, <2>2 DEF DataIds
    <3>4. QED
      BY <3>1, <3>2, <3>3 DEF DataAccessOK
  <2>5. DataSide(n)
    <3>1. DataAnswers(n)
      BY <1>3, <2>2 DEF DataAnswers, DataGoesOn
    <3>2. QED
      BY <2>2, <2>4, <3>1 DEF DataSide
  <2>6. Apart(n)
    BY <1>3, <2>2 DEF Apart
  <2>7. DataUnmissed(n)
    BY <1>3, <2>1, <2>2, IdsOfMemory DEF DataUnmissed, DataIds
  <2>8. QED
    <3>1. Whole(n)
      BY <2>2, <2>3, <2>5, <2>6, <2>7 DEF Whole
    <3>2. /\ n.instr = m.instr /\ n.data.waiting = m.data.waiting
          /\ n.data.finished = m.data.finished /\ n.data.done = m.data.done
          /\ n.data.ongoing = <<p>> /\ p.access = o.access /\ p.cl = o.cl
      BY <1>2, <1>3 DEF DataGoesOn, SameAccess
    <3>3. QED
      BY <2>2, <2>3, <2>5, <2>6, <2>7, <3>1, <3>2 DEF DataHasGoneOn, n
<1>4. CASE /\ m.memory.dataQueue # <<>> /\ p.stalled /\ p.memId = o.memId
           /\ DataGoesOn(m, n, p, m.memory, m.rejected)
  <2>1. MemoryOK(m.memory)
    BY DEF TopologyOK
  <2>2. /\ TopologyOK(n) /\ Range(n.data.ongoing) = {p} /\ n.data.ongoing # <<>>
        /\ n.memory = m.memory /\ n.instr = m.instr /\ n.rejected = m.rejected
    BY <1>4, <2>1, GoneOnIsOK
  <2>3. FetchSide(n) /\ (FetchUnmissed(m) => FetchUnmissed(n))
    BY <2>2, FetchSideSame
  <2>4. policy.unblockStores /\ p.memId = NoId
    BY <1>4 DEF MayTry
  <2>5. DataAccessOK(p, n)
    <3>1. DataPhase(p, n.rejected)
      BY <1>2, <1>4, <2>4 DEF MayTry, SameAccess, DataPhase
    <3>2. IsPlainLoad(p) => LoadLevels(p)
      BY <1>2 DEF MayTry, SameAccess, IsPlainLoad, LoadLevels
    <3>3. ~Awaits(p) /\ ~OwnsQueue(p)
      BY <1>4, <2>4 DEF Awaits, OwnsQueue
    <3>4. QED
      BY <3>1, <3>2, <3>3 DEF DataAccessOK
  <2>6. DataSide(n)
    <3>1. DataAnswers(n)
      BY <1>4, <2>2 DEF DataAnswers, DataGoesOn
    <3>2. QED
      BY <2>2, <2>5, <3>1 DEF DataSide
  <2>7. Apart(n)
    BY <2>2, <2>4 DEF Apart
  <2>8. DataUnmissed(n)
    BY <2>2, <2>4 DEF DataUnmissed, Awaits
  <2>9. QED
    <3>1. Whole(n)
      BY <2>2, <2>3, <2>6, <2>7, <2>8 DEF Whole
    <3>2. /\ n.instr = m.instr /\ n.data.waiting = m.data.waiting
          /\ n.data.finished = m.data.finished /\ n.data.done = m.data.done
          /\ n.data.ongoing = <<p>> /\ p.access = o.access /\ p.cl = o.cl
      BY <1>2, <1>4 DEF DataGoesOn, SameAccess
    <3>3. QED
      BY <2>2, <2>3, <2>6, <2>7, <2>8, <3>1, <3>2 DEF DataHasGoneOn, n
<1>5. QED
  BY <1>1, <1>3, <1>4 DEF n

(* An access that is demanded of the memory is rejected only when stores   *)
(* are not blocked and the cache does not allocate.                        *)
LEMMA DemandMemoryOK ==
    ASSUME NEW m, TopologyOK(m), FetchSide(m), DataAnswers(m), policy \in PolicyType,
           NEW o \in OngoingAccess, MayTry(m, o), NEW type \in AccessType,
           o.phase = "WaitForSTORE", ~IsPlainLoad(o), ~o.stalled,
           policy.writeAllocate => m.memory.dataQueue = <<>>
    PROVE  DataHasGoneOn(m, DemandMemory(m, o, type), o)
<1> DEFINE n == DemandMemory(m, o, type)
<1>1. CASE m.memory.dataQueue = <<>>
  BY <1>1, TryMemoryOK DEF DemandMemory, AcceptsData
<1>2. CASE m.memory.dataQueue # <<>>
  <2>1. policy.unblockStores /\ ~policy.writeAllocate /\ o.memId = NoId
    BY <1>2 DEF MayTry
  <2>2. m \in Topologies /\ m.memory \in MemoryStates /\ MemoryOK(m.memory)
    BY PartsOfTopology DEF TopologyOK
  <2>3. DataGoesOn(m, n, o, m.memory, TRUE)
    <3>1. n = [m EXCEPT !.data.ongoing = <<o>>, !.rejected = TRUE]
      BY <1>2 DEF DemandMemory, AcceptsData
    <3>2. DataGoesOn(m, [m EXCEPT !.data.ongoing = <<o>>, !.rejected = TRUE], o, m.memory, TRUE)
      BY <2>2, DataOngoing
    <3>3. QED
      BY <3>1, <3>2
  <2> HIDE DEF n
  <2>4. /\ TopologyOK(n) /\ Range(n.data.ongoing) = {o} /\ n.data.ongoing # <<>>
        /\ n.memory = m.memory /\ n.instr = m.instr /\ n.rejected = TRUE
    <3>1. DataGoesOn(m, n, o, m.memory, n.rejected) /\ n.rejected = TRUE
      BY <2>3 DEF DataGoesOn
    <3>2. QED
      BY <2>2, <3>1, GoneOnIsOK
  <2>5. FetchSide(n) /\ (FetchUnmissed(m) => FetchUnmissed(n))
    BY <2>4, FetchSideSame
  <2>6. DataAccessOK(o, n)
    BY <2>1, <2>4 DEF DataAccessOK, DataPhase, Awaits, OwnsQueue
  <2>7. DataSide(n)
    <3>1. DataAnswers(n)
      BY <2>1, <2>3, <2>4 DEF DataAnswers, DataGoesOn
    <3>2. QED
      BY <2>4, <2>6, <3>1 DEF DataSide
  <2>8. Apart(n)
    BY <2>1, <2>4 DEF Apart
  <2>9. DataUnmissed(n)
    BY <2>1, <2>4 DEF DataUnmissed, Awaits
  <2>10. Whole(n)
    BY <2>4, <2>5, <2>7, <2>8 DEF Whole
  <2>11. /\ n.data.waiting = m.data.waiting /\ n.data.finished = m.data.finished
         /\ n.data.done = m.data.done /\ n.data.ongoing = <<o>>
    BY <2>3 DEF DataGoesOn
  <2>12. QED
    BY <2>4, <2>5, <2>9, <2>10, <2>11 DEF DataHasGoneOn, n
<1>3. QED
  BY <1>1, <1>2

(* A data access waits no more: what is left to do.                        *)
LEMMA TakenFromWaiting ==
    ASSUME NEW m, Whole(m), m.data.ongoing = <<>>
    PROVE  LET k == [m EXCEPT !.data.waiting = <<>>]
           IN  /\ TopologyOK(k) /\ FetchSide(k) /\ DataAnswers(k)
               /\ (FetchUnmissed(m) => FetchUnmissed(k))
               /\ ~policy.unblockStores => k.memory.dataQueue = <<>>
               /\ k.instr = m.instr /\ k.memory = m.memory /\ k.rejected = m.rejected
               /\ k.data.waiting = <<>> /\ k.data.ongoing = <<>>
               /\ k.data.finished = m.data.finished /\ k.data.done = m.data.done
<1> DEFINE k == [m EXCEPT !.data.waiting = <<>>]
           c == [m.data EXCEPT !.waiting = <<>>]
<1>1. m \in Topologies /\ m.data \in MemoryComponent
  BY PartsOfTopology DEF Whole, TopologyOK
<1>2. c \in MemoryComponent
  <2>1. <<>> \in Seq(Accesses)
    OBVIOUS
  <2>2. QED
    BY <1>1, <2>1, WaitingType
<1>3. /\ c.waiting = <<>> /\ c.ongoing = <<>> /\ c.finished = m.data.finished
      /\ c.done = m.data.done
  BY <1>1 DEF MemoryComponent
<1>4. /\ k \in Topologies /\ k.data = c /\ k.instr = m.instr /\ k.memory = m.memory
      /\ k.rejected = m.rejected
  BY <1>1, <1>2 DEF Topologies
<1> HIDE DEF k, c
<1>5. TopologyOK(k)
  BY <1>2, <1>3, <1>4, EmptyList DEF Whole, TopologyOK, ComponentOK
<1>6. FetchSide(k) /\ (FetchUnmissed(m) => FetchUnmissed(k))
  BY <1>4, FetchSideSame DEF Whole
<1>7. DataAnswers(k)
  BY <1>3, <1>4 DEF Whole, DataSide, DataAnswers
<1>8. ~policy.unblockStores => k.memory.dataQueue = <<>>
  BY <1>4 DEF Whole, DataSide
<1>9. QED
  BY <1>3, <1>4, <1>5, <1>6, <1>7, <1>8 DEF k

(* A data access starts: what its first step needs of the topology k that  *)
(* it has been taken from.                                                 *)
ReadyFor(k) ==
    /\ TopologyOK(k) /\ FetchSide(k) /\ DataAnswers(k)
    /\ ~policy.unblockStores => k.memory.dataQueue = <<>>

(* A data access that hits goes on in the caches, without the memory.      *)
LEMMA StayInCachesOK ==
    ASSUME NEW k, TopologyOK(k), FetchSide(k), DataAnswers(k),
           NEW p \in OngoingAccess, NEW n, DataGoesOn(k, n, p, k.memory, k.rejected),
           p.phase = "WaitForCACHE", p.memId = NoId, ~p.stalled,
           IsPlainLoad(p) => LoadLevels(p),
           OwnsQueue(p) => k.memory.dataQueue = <<>>
    PROVE  DataHasGoneOn(k, n, p)
<1>1. MemoryOK(k.memory)
  BY DEF TopologyOK
<1>2. /\ TopologyOK(n) /\ Range(n.data.ongoing) = {p} /\ n.data.ongoing # <<>>
      /\ n.memory = k.memory /\ n.instr = k.instr /\ n.rejected = k.rejected
  <2>1. PICK mm, r : mm = k.memory /\ r = k.rejected
    OBVIOUS
  <2>2. MemoryOK(mm) /\ DataGoesOn(k, n, p, mm, r)
    BY <1>1, <2>1
  <2>3. QED
    BY <2>1, <2>2, GoneOnIsOK
<1>3. FetchSide(n) /\ (FetchUnmissed(k) => FetchUnmissed(n))
  BY <1>2, FetchSideSame
<1>4. DataAccessOK(p, n)
  <2>1. DataPhase(p, n.rejected)
    BY DEF DataPhase
  <2>2. OwnsQueue(p) => QueueIds(n.memory.dataQueue) = {}
    BY <1>2, IdsOfList
  <2>3. QED
    BY <2>1, <2>2 DEF DataAccessOK, Awaits
<1>5. DataSide(n)
  <2>1. DataAnswers(n)
    BY <1>2 DEF DataAnswers, DataGoesOn
  <2>2. QED
    BY <1>2, <1>4, <2>1 DEF DataSide
<1>6. Apart(n)
  BY <1>2 DEF Apart
<1>7. DataUnmissed(n)
  BY <1>2 DEF DataUnmissed, Awaits
<1>8. Whole(n)
  BY <1>2, <1>3, <1>5, <1>6 DEF Whole
<1>9. /\ n.data.waiting = k.data.waiting /\ n.data.finished = k.data.finished
      /\ n.data.done = k.data.done /\ n.data.ongoing = <<p>>
  BY DEF DataGoesOn
<1>10. QED
  BY <1>2, <1>3, <1>7, <1>8, <1>9 DEF DataHasGoneOn

(* What is known of an access that has just started.                       *)
IsFresh(o) ==
    /\ o \in OngoingAccess /\ o.memId = NoId /\ ~o.stalled /\ ~o.inL2 /\ o.updated = {}

(* The clock of a load that has just started, at time zero.                *)
ZeroTime(t) == t.lo = 0 /\ t.hi = 0

LEMMA StartHitOK ==
    ASSUME NEW k, ReadyFor(k), NEW o, IsFresh(o), o.cl = "HIT"
    PROVE  /\ DataHasGoneOn(k, ProcessDataCacheAccess(k, o), o)
           /\ \A t : ZeroTime(t) =>
                 \A p \in Range(ProcessDataCacheAccess(k, o).data.ongoing) : HitClock(p, t)
<1> DEFINE n == ProcessDataCacheAccess(k, o)
           p == [o EXCEPT !.l1 = DataLatency, !.phase = "WaitForCACHE"]
<1>1. k \in Topologies /\ k.memory \in MemoryStates
  BY PartsOfTopology DEF ReadyFor, TopologyOK
<1>2. /\ p \in OngoingAccess /\ p.memId = NoId /\ p.access = o.access /\ p.cl = "HIT"
      /\ p.phase = "WaitForCACHE" /\ p.updated = {} /\ p.l1 = DataLatency
  BY Latencies DEF IsFresh, OngoingAccess, Phase
<1>3. p.stalled = o.stalled /\ p.inL2 = o.inL2
  BY DEF IsFresh, OngoingAccess
<1>4. n = [k EXCEPT !.data.ongoing = <<p>>]
  BY DEF ProcessDataCacheAccess
<1> HIDE DEF n, p
<1>5. DataGoesOn(k, n, p, k.memory, k.rejected)
  <2>1. DataGoesOn(k, [k EXCEPT !.data.ongoing = <<p>>], p, k.memory, k.rejected)
    BY <1>1, <1>2, DataOngoing
  <2>2. QED
    BY <1>4, <2>1
<1>6. IsPlainLoad(p) => LoadLevels(p)
  BY <1>2, <1>3 DEF LoadLevels, IsFresh
<1>7. OwnsQueue(p) => k.memory.dataQueue = <<>>
  BY <1>2 DEF OwnsQueue, ReadyFor
<1>8. DataHasGoneOn(k, n, p)
  BY <1>2, <1>3, <1>5, <1>6, <1>7, StayInCachesOK DEF ReadyFor, IsFresh
<1>9. DataHasGoneOn(k, n, o)
  BY <1>2, <1>8 DEF DataHasGoneOn
<1>10. Range(n.data.ongoing) = {p}
  BY <1>5, ListOfOne DEF DataGoesOn
<1>11. \A t : ZeroTime(t) => HitClock(p, t)
  BY <1>2, <1>3, Latencies DEF HitClock, ZeroTime, IsFresh
<1>12. QED
  BY <1>9, <1>10, <1>11 DEF n

LEMMA StartL2HitOK ==
    ASSUME NEW k, ReadyFor(k), NEW o, IsFresh(o), o.cl = "L2HIT"
    PROVE  /\ DataHasGoneOn(k, ProcessDataCacheAccess(k, o), o)
           /\ \A t : ZeroTime(t) =>
                 \A p \in Range(ProcessDataCacheAccess(k, o).data.ongoing) : HitClock(p, t)
<1> DEFINE n == ProcessDataCacheAccess(k, o)
           p == [o EXCEPT !.l2 = L2Latency, !.inL2 = TRUE, !.phase = "WaitForCACHE"]
<1>1. k \in Topologies /\ k.memory \in MemoryStates
  BY PartsOfTopology DEF ReadyFor, TopologyOK
<1>2. /\ p \in OngoingAccess /\ p.memId = NoId /\ p.access = o.access /\ p.cl = "L2HIT"
      /\ p.phase = "WaitForCACHE" /\ p.updated = {} /\ p.l2 = L2Latency
  BY Latencies DEF IsFresh, OngoingAccess, Phase
<1>3. p.stalled = o.stalled /\ p.inL2 = TRUE
  BY DEF IsFresh, OngoingAccess
<1>4. n = [k EXCEPT !.data.ongoing = <<p>>, !.events = TRUE]
  BY DEF ProcessDataCacheAccess
<1> HIDE DEF n, p
<1>5. DataGoesOn(k, n, p, k.memory, k.rejected)
  <2>1. DataGoesOn(k, [k EXCEPT !.data.ongoing = <<p>>, !.events = TRUE], p, k.memory,
                   k.rejected)
    BY <1>1, <1>2, DataOngoing
  <2>2. QED
    BY <1>4, <2>1
<1>6. IsPlainLoad(p) => LoadLevels(p)
  BY <1>2, <1>3 DEF LoadLevels
<1>7. OwnsQueue(p) => k.memory.dataQueue = <<>>
  BY <1>2 DEF OwnsQueue, ReadyFor
<1>8. DataHasGoneOn(k, n, p)
  BY <1>2, <1>3, <1>5, <1>6, <1>7, StayInCachesOK DEF ReadyFor, IsFresh
<1>9. DataHasGoneOn(k, n, o)
  BY <1>2, <1>8 DEF DataHasGoneOn
<1>10. Range(n.data.ongoing) = {p}
  BY <1>5, ListOfOne DEF DataGoesOn
<1>11. \A t : ZeroTime(t) => HitClock(p, t)
  BY <1>2, <1>3, Latencies DEF HitClock, ZeroTime
<1>12. QED
  BY <1>9, <1>10, <1>11 DEF n

LEMMA StartMissOK ==
    ASSUME NEW k, ReadyFor(k), NEW o, IsFresh(o), o.cl = "L2MISS",
           policy \in PolicyType, policy.writeBack => policy.writeAllocate
    PROVE  DataHasGoneOn(k, ProcessDataCacheAccess(k, o), o)
<1> DEFINE n == ProcessDataCacheAccess(k, o)
<1>1. k \in Topologies
  BY DEF ReadyFor, TopologyOK
<1>2. CASE o.access.type = "STORE" /\ ~policy.writeAllocate
  <2> DEFINE p == [o EXCEPT !.phase = "WaitForSTORE"]
  <2>1. /\ p \in OngoingAccess /\ p.memId = NoId /\ p.access = o.access /\ p.cl = o.cl
        /\ p.phase = "WaitForSTORE" /\ p.stalled = o.stalled
    BY DEF IsFresh, OngoingAccess, Phase
  <2>2. n = DemandMemory(k, p, "STORE")
    BY <1>2 DEF ProcessDataCacheAccess
  <2> HIDE DEF p, n
  <2>3. MayTry(k, p) /\ ~IsPlainLoad(p)
    BY <1>2, <2>1 DEF MayTry, IsPlainLoad, ReadyFor
  <2>4. DataHasGoneOn(k, DemandMemory(k, p, "STORE"), p)
    BY <1>2, <2>1, <2>3, DemandMemoryOK DEF ReadyFor, IsFresh, AccessType
  <2>5. DataHasGoneOn(k, n, o)
    BY <2>1, <2>2, <2>4 DEF DataHasGoneOn
  <2>6. QED
    BY <2>5 DEF n
<1>3. CASE ~(o.access.type = "STORE" /\ ~policy.writeAllocate)
  <2> DEFINE p == [o EXCEPT !.phase = "WaitForLOAD"]
             e == [k EXCEPT !.events = TRUE]
  <2>1. /\ p \in OngoingAccess /\ p.memId = NoId /\ p.access = o.access /\ p.cl = o.cl
        /\ p.phase = "WaitForLOAD" /\ p.updated = {} /\ p.inL2 = o.inL2
    BY DEF IsFresh, OngoingAccess, Phase
  <2>2. n = TryMemory(e, p, "LOAD")
    BY <1>3 DEF ProcessDataCacheAccess
  <2>3. /\ e \in Topologies /\ e.data = k.data /\ e.instr = k.instr
        /\ e.memory = k.memory /\ e.rejected = k.rejected
    BY <1>1 DEF Topologies
  <2> HIDE DEF p, n, e
  <2>4. TopologyOK(e) /\ FetchSide(e) /\ DataAnswers(e)
    BY <2>3 DEF ReadyFor, TopologyOK, FetchSide, DataAnswers
  <2>5. MayTry(e, p)
    BY <2>1, <2>3 DEF MayTry, LoadLevels, ReadyFor, IsFresh
  <2>6. DataHasGoneOn(e, TryMemory(e, p, "LOAD"), p)
    BY <2>1, <2>4, <2>5, TryMemoryOK DEF AccessType
  <2>7. DataHasGoneOn(k, n, o)
    BY <2>1, <2>2, <2>3, <2>6 DEF DataHasGoneOn, FetchUnmissed
  <2>8. QED
    BY <2>7 DEF n
<1>4. QED
  BY <1>2, <1>3

(* A data access starts: the port goes on with what waited.                *)
LEMMA StartDataAccessOK ==
    ASSUME NEW m, Whole(m), DataUnmissed(m), NEW n \in StartDataAccess(m),
           policy \in PolicyType, policy.writeBack => policy.writeAllocate
    PROVE  /\ Whole(n) /\ DataUnmissed(n) /\ (FetchUnmissed(m) => FetchUnmissed(n))
           /\ n.instr = m.instr /\ n.data.finished = m.data.finished
           /\ n.data.done = m.data.done
           /\ m.data.waiting = <<>> \/ m.data.ongoing = <<>> => n.data.waiting = <<>>
           /\ \A id : OnlyPlace(m.data, id) => OnlyPlace(n.data, id)
           /\ \A t : Clock(m, t) => Clock(n, t)
<1>1. CASE IsOngoing(m.data) \/ m.data.waiting = <<>>
  BY <1>1 DEF StartDataAccess, IsOngoing
<1>2. CASE ~(IsOngoing(m.data) \/ m.data.waiting = <<>>)
  <2>1. m.data.ongoing = <<>> /\ m.data.waiting # <<>>
    BY <1>2 DEF IsOngoing
  <2> DEFINE k == [m EXCEPT !.data.waiting = <<>>]
             w == m.data.waiting[1]
  <2>2. PICK cl \in Outcome : n = ProcessDataCacheAccess(k, StartedWith(w, cl))
    <3> DEFINE S == UNION {Outcomes(l1, l2) : l1, l2 \in L1Answers}
    <3>1. S \subseteq Outcome
      BY OutcomesType
    <3>2. n \in {ProcessDataCacheAccess(k, StartedWith(w, cl)) : cl \in S}
      BY <2>1 DEF StartDataAccess, IsOngoing
    <3> HIDE DEF S
    <3>3. QED
      BY <3>1, <3>2
  <2>3. ReadyFor(k) /\ (FetchUnmissed(m) => FetchUnmissed(k))
    BY <2>1, TakenFromWaiting DEF ReadyFor
  <2>4. /\ k.instr = m.instr /\ k.data.waiting = <<>>
        /\ k.data.finished = m.data.finished /\ k.data.done = m.data.done
    BY <2>1, TakenFromWaiting
  <2>5. ComponentOK(m.data)
    BY DEF Whole, TopologyOK
  <2>6. w \in Accesses /\ WaitingIds(m.data) = {w.id}
    BY <2>1, <2>5, PartsOfComponent
  <2> HIDE DEF k, w
  <2> DEFINE o == StartedWith(w, cl)
  <2>7. IsFresh(o) /\ o.access = w /\ o.cl = cl
    BY <2>6, StartedWithType DEF IsFresh
  <2> HIDE DEF o
  <2>8. n = ProcessDataCacheAccess(k, o)
    BY <2>2 DEF o
  <2>9. DataHasGoneOn(k, n, o)
    <3>1. CASE cl = "HIT"
      BY <2>3, <2>7, <2>8, <3>1, StartHitOK
    <3>2. CASE cl = "L2HIT"
      BY <2>3, <2>7, <2>8, <3>2, StartL2HitOK
    <3>3. CASE cl = "L2MISS"
      BY <2>3, <2>7, <2>8, <3>3, StartMissOK
    <3>4. QED
      BY <3>1, <3>2, <3>3 DEF Outcome
  <2>10. PICK p \in OngoingAccess : n.data.ongoing = <<p>> /\ p.access = w /\ p.cl = cl
    BY <2>7, <2>9 DEF DataHasGoneOn
  <2>11. /\ n.instr = m.instr /\ n.data.waiting = <<>> /\ n.data.finished = m.data.finished
         /\ n.data.done = m.data.done
    BY <2>4, <2>9 DEF DataHasGoneOn
  <2>12. /\ Range(n.data.ongoing) = {p} /\ n.data.ongoing # <<>>
         /\ WaitingIds(n.data) = {} /\ OngoingIds(n.data) = {w.id}
    <3>1. Range(n.data.ongoing) = {p} /\ n.data.ongoing # <<>> /\ Range(n.data.waiting) = {}
      BY <2>10, <2>11, ListOfOne, EmptyList
    <3>2. QED
      BY <2>10, <3>1 DEF WaitingIds, OngoingIds
  <2>13. \A id : OnlyPlace(m.data, id) => OnlyPlace(n.data, id)
    BY <2>1, <2>6, <2>11, <2>12 DEF OnlyPlace
  <2>14. ASSUME NEW t, Clock(m, t)
         PROVE  Clock(n, t)
    <3>1. ZeroTime(t)
      BY <2>1, <2>14 DEF Clock, ZeroTime
    <3>2. HitClock(p, t)
      <4>1. CASE cl = "HIT"
        BY <2>3, <2>7, <2>8, <2>12, <3>1, <4>1, StartHitOK
      <4>2. CASE cl = "L2HIT"
        BY <2>3, <2>7, <2>8, <2>12, <3>1, <4>2, StartL2HitOK
      <4>3. CASE cl = "L2MISS"
        BY <2>10, <4>3 DEF HitClock
      <4>4. QED
        BY <4>1, <4>2, <4>3 DEF Outcome
    <3>3. QED
      BY <2>11, <2>12, <3>2 DEF Clock
  <2>15. Whole(n) /\ DataUnmissed(n) /\ (FetchUnmissed(m) => FetchUnmissed(n))
    BY <2>3, <2>9 DEF DataHasGoneOn
  <2>16. QED
    BY <2>11, <2>13, <2>14, <2>15
<1>3. QED
  BY <1>1, <1>2

(* The answers of the last cycle are forgotten.                            *)
LEMMA ClearEventsOK ==
    ASSUME NEW m, Whole(m), m.data.finished = NoId
    PROVE  LET n == ClearEvents(m)
           IN  /\ Whole(n) /\ (FetchUnmissed(m) => FetchUnmissed(n))
               /\ (DataUnmissed(m) => DataUnmissed(n))
               /\ n.data.finished = NoId /\ n.data.done = <<>>
               /\ \A id : InPort(m.instr, id) => InPort(n.instr, id)
               /\ \A id : OnlyPlace(m.data, id) => OnlyPlace(n.data, id)
               /\ \A t : Clock(m, t) => Clock(n, t)
<1> DEFINE n == ClearEvents(m)
<1>1. m \in Topologies /\ m.instr \in MemoryComponent /\ m.data \in MemoryComponent
  BY PartsOfTopology DEF Whole, TopologyOK
<1>2. ASSUME NEW c \in MemoryComponent
      PROVE  LET d == [c EXCEPT !.done = <<>>]
             IN  /\ d \in MemoryComponent /\ d.done = <<>> /\ d.waiting = c.waiting
                 /\ d.ongoing = c.ongoing /\ d.finished = c.finished
  <2>1. <<>> \in Seq(OngoingAccess)
    OBVIOUS
  <2>2. QED
    BY <1>2, <2>1 DEF MemoryComponent
<1> DEFINE i == [m.instr EXCEPT !.done = <<>>]
           d == [m.data EXCEPT !.done = <<>>]
<1>3. /\ i \in MemoryComponent /\ i.done = <<>> /\ i.waiting = m.instr.waiting
      /\ i.ongoing = m.instr.ongoing /\ i.finished = m.instr.finished
  BY <1>1, <1>2
<1>4. /\ d \in MemoryComponent /\ d.done = <<>> /\ d.waiting = m.data.waiting
      /\ d.ongoing = m.data.ongoing /\ d.finished = m.data.finished
  BY <1>1, <1>2
<1>5. /\ n \in Topologies /\ n.instr = i /\ n.data = d /\ n.memory = m.memory
      /\ n.rejected = m.rejected
  BY <1>1, <1>3, <1>4 DEF ClearEvents, Topologies
<1> HIDE DEF n, i, d
<1>6. TopologyOK(n)
  BY <1>3, <1>4, <1>5 DEF Whole, TopologyOK, ComponentOK
<1>7. Range(n.instr.done) = {} /\ Range(n.data.done) = {}
  BY <1>3, <1>4, <1>5, EmptyList
<1>8. FetchSide(n) /\ (FetchUnmissed(m) => FetchUnmissed(n))
  BY <1>3, <1>5, <1>7 DEF Whole, FetchSide, FetchUnmissed, Distinct, WaitingIds, OngoingIds
<1>9. DataSide(n)
  <2>1. DataAnswers(n)
    BY <1>4, <1>5, <1>7 DEF Whole, DataSide, DataAnswers
  <2>2. QED
    BY <1>4, <1>5, <2>1 DEF Whole, DataSide, DataAccessOK
<1>10. Apart(n) /\ (DataUnmissed(m) => DataUnmissed(n))
  BY <1>3, <1>4, <1>5 DEF Whole, Apart, DataUnmissed
<1>11. /\ \A id : InPort(m.instr, id) => InPort(n.instr, id)
       /\ \A id : OnlyPlace(m.data, id) => OnlyPlace(n.data, id)
  BY <1>3, <1>4, <1>5 DEF InPort, OnlyPlace, WaitingIds, OngoingIds
<1>12. \A t : Clock(m, t) => Clock(n, t)
  BY <1>4, <1>5 DEF Clock
<1>13. QED
  BY <1>4, <1>5, <1>6, <1>8, <1>9, <1>10, <1>11, <1>12 DEF Whole, n

(* The memory cycles: what a port waits for may now have ended.            *)
LEMMA MemoryCycledOK ==
    ASSUME NEW m, Whole(m), FetchUnmissed(m), DataUnmissed(m), NEW n \in MemoryCycled(m)
    PROVE  /\ Whole(n) /\ n.instr = m.instr /\ n.data = m.data
           /\ IsBlocked(n.memory) => FetchUnmissed(n) /\ DataUnmissed(n)
           /\ \A t : Clock(m, t) => Clock(n, t)
<1>1. PICK c \in CycleMemory(m.memory) : n = [m EXCEPT !.memory = c]
  BY DEF MemoryCycled
<1>2. m \in Topologies /\ MemoryOK(m.memory)
  BY DEF Whole, TopologyOK
<1>3. MemoryOK(c) /\ Moved(m.memory, c) /\ (IsBlocked(c) => c.finished = NoId)
  BY <1>1, <1>2, CycleMemoryIs
<1>4. /\ n \in Topologies /\ n.memory = c /\ n.instr = m.instr /\ n.data = m.data
      /\ n.rejected = m.rejected
  BY <1>1, <1>2, <1>3 DEF Topologies, MemoryOK
<1>5. TopologyOK(n)
  BY <1>3, <1>4 DEF Whole, TopologyOK
<1>6. FetchSide(n)
  <2>1. ASSUME NEW o \in Range(m.instr.ongoing), o.memId # NoId
        PROVE  o.memId \in InstrIds(c)
    <3>1. o.memId \in InstrIds(m.memory) /\ o.memId # m.memory.finished
      BY <2>1 DEF Whole, FetchSide, FetchUnmissed
    <3>2. QED
      BY <1>3, <2>1, <3>1 DEF InstrIds, Moved
  <2>2. QED
    BY <1>4, <2>1 DEF Whole, FetchSide
<1>7. DataSide(n)
  <2>1. ASSUME NEW o \in Range(m.data.ongoing)
        PROVE  DataAccessOK(o, n)
    <3>1. DataAccessOK(o, m)
      BY <2>1 DEF Whole, DataSide
    <3>2. Awaits(o) => o.memId \in DataIds(c)
      <4>1. Awaits(o) => o.memId \in DataIds(m.memory) /\ o.memId # m.memory.finished
        BY <2>1, <3>1 DEF DataAccessOK, DataUnmissed
      <4>2. QED
        BY <1>3, <4>1 DEF Awaits, DataIds, Moved
    <3>3. OwnsQueue(o) => QueueIds(c.dataQueue) \subseteq {o.memId}
      BY <1>3, <3>1 DEF DataAccessOK, Moved
    <3>4. QED
      BY <1>4, <3>1, <3>2, <3>3 DEF DataAccessOK
  <2>2. n.data.ongoing = <<>> /\ ~policy.unblockStores => c.dataQueue = <<>>
    <3>1. c.dataQueue = <<>> \/ c.dataQueue = m.memory.dataQueue
      BY <1>3 DEF Moved
    <3>2. QED
      BY <1>4, <3>1 DEF Whole, DataSide
  <2>3. DataAnswers(n)
    BY <1>4 DEF Whole, DataSide, DataAnswers
  <2>4. QED
    BY <1>4, <2>1, <2>2, <2>3 DEF DataSide
<1>8. Apart(n)
  BY <1>4 DEF Whole, Apart
<1>9. IsBlocked(n.memory) => FetchUnmissed(n) /\ DataUnmissed(n)
  BY <1>3, <1>4 DEF FetchUnmissed, DataUnmissed, Awaits
<1>10. \A t : Clock(m, t) => Clock(n, t)
  BY <1>4 DEF Clock
<1>11. QED
  BY <1>4, <1>5, <1>6, <1>7, <1>8, <1>9, <1>10 DEF Whole

(* A port takes the end of its access from the memory.                     *)
LEMMA EndTakenIs ==
    ASSUME NEW mm, MemoryOK(mm)
    PROVE  LET n == [mm EXCEPT !.finished = NoId]
           IN  /\ MemoryOK(n) /\ n.finished = NoId /\ n.current = mm.current
               /\ n.instrQueue = mm.instrQueue /\ n.dataQueue = mm.dataQueue
<1> DEFINE n == [mm EXCEPT !.finished = NoId]
<1>1. /\ n \in MemoryStates /\ n.finished = NoId /\ n.current = mm.current
      /\ n.instrQueue = mm.instrQueue /\ n.dataQueue = mm.dataQueue
  BY DEF MemoryOK, MemoryStates
<1>2. NoId \notin QueueIds(mm.instrQueue) \cup QueueIds(mm.dataQueue)
  BY NoIdIsNotQueued DEF MemoryOK, MemoryStates
<1> HIDE DEF n
<1>3. MemoryOK(n)
  BY <1>1, <1>2 DEF MemoryOK, IdsApart
<1>4. QED
  BY <1>1, <1>3 DEF n

(* The data port is not touched by the end of another port's access.       *)
LEMMA DataSideSame ==
    ASSUME NEW m, NEW n, DataSide(m), n.data = m.data, n.rejected = m.rejected,
           n.memory.dataQueue = m.memory.dataQueue, n.memory.current = m.memory.current,
           \A d \in Range(m.data.ongoing) :
               Awaits(d) => \/ d.memId # m.memory.finished
                            \/ n.memory.finished = m.memory.finished
    PROVE  DataSide(n)
<1>1. DataAnswers(n)
  BY DEF DataSide, DataAnswers
<1>2. ASSUME NEW d \in Range(m.data.ongoing)
      PROVE  DataAccessOK(d, n)
  BY <1>2 DEF DataSide, DataAccessOK, DataIds
<1>3. QED
  BY <1>1, <1>2 DEF DataSide

(* A fetch goes on in the caches, or comes back from the memory.           *)
FetchKept(m, n) ==
    /\ Whole(n) /\ FetchUnmissed(n) /\ n.data = m.data
    /\ \A id : id # NoId /\ InPort(m.instr, id) =>
          id \in WaitingIds(n.instr) \cup OngoingIds(n.instr) \cup {n.instr.finished}

LEMMA FetchInCachesOK ==
    ASSUME NEW m, Whole(m), NEW o, Range(m.instr.ongoing) = {o},
           NEW p \in OngoingAccess, p.access = o.access, p.memId = NoId, FetchPhase(p),
           NEW mm, MemoryOK(mm), mm.current = m.memory.current,
           mm.instrQueue = m.memory.instrQueue, mm.dataQueue = m.memory.dataQueue,
           \/ mm.finished = m.memory.finished
           \/ o.memId # NoId /\ o.memId = m.memory.finished,
           NEW n, FetchGoesOn(m, n, p, mm)
    PROVE  FetchKept(m, n)
<1>1. /\ n \in Topologies /\ n.data = m.data /\ n.memory = mm /\ n.rejected = m.rejected
      /\ n.instr.waiting = m.instr.waiting /\ n.instr.finished = m.instr.finished
      /\ n.instr.done = m.instr.done /\ n.instr.ongoing = <<p>>
  BY DEF FetchGoesOn
<1>2. Range(n.instr.ongoing) = {p} /\ Len(n.instr.ongoing) = 1
  BY <1>1, ListOfOne
<1>3. /\ OngoingIds(n.instr) = {p.access.id} /\ OngoingIds(m.instr) = {o.access.id}
      /\ WaitingIds(n.instr) = WaitingIds(m.instr)
  BY <1>1, <1>2 DEF OngoingIds, WaitingIds
<1>4. TopologyOK(n)
  <2>1. ComponentOK(n.instr)
    BY <1>1, <1>2 DEF Whole, TopologyOK, ComponentOK, Topologies
  <2>2. QED
    BY <1>1, <2>1 DEF Whole, TopologyOK
<1>5. FetchSide(n)
  <2>1. Distinct(n.instr)
    BY <1>1, <1>3 DEF Whole, FetchSide, Distinct
  <2>2. QED
    BY <1>1, <1>2, <2>1 DEF Whole, FetchSide
<1>6. DataSide(n)
  <2>1. ASSUME NEW d \in Range(m.data.ongoing), Awaits(d)
        PROVE  d.memId # m.memory.finished \/ n.memory.finished = m.memory.finished
    BY <1>1, <2>1 DEF Whole, Apart
  <2>2. QED
    BY <1>1, <2>1, DataSideSame DEF Whole
<1>7. Apart(n) /\ FetchUnmissed(n)
  BY <1>2 DEF Apart, FetchUnmissed
<1>8. \A id : InPort(m.instr, id) => InPort(n.instr, id)
  BY <1>3 DEF InPort
<1>9. QED
  BY <1>1, <1>4, <1>5, <1>6, <1>7, <1>8 DEF Whole, FetchKept, InPort

(* A fetch is answered.                                                    *)
LEMMA FetchAnsweredOK ==
    ASSUME NEW m, Whole(m), NEW o, Range(m.instr.ongoing) = {o},
           NEW p \in OngoingAccess, p.access = o.access, DoneLevels(p),
           NEW n, n = [m EXCEPT !.instr = Finish(m.instr, p)]
    PROVE  FetchKept(m, n)
<1> DEFINE c == Finish(m.instr, p)
<1>1. m \in Topologies /\ m.instr \in MemoryComponent /\ ComponentOK(m.instr)
  BY PartsOfTopology DEF Whole, TopologyOK
<1>2. /\ c \in MemoryComponent /\ c.ongoing = <<>> /\ c.done = <<p>>
      /\ c.waiting = m.instr.waiting /\ c.finished = o.access.id
  <2>1. p.access.id \in Ids \cup {NoId}
    BY DEF OngoingAccess, Accesses
  <2>2. <<>> \in Seq(OngoingAccess) /\ <<p>> \in Seq(OngoingAccess)
    OBVIOUS
  <2>3. QED
    BY <1>1, <2>1, <2>2 DEF MemoryComponent, Finish
<1> HIDE DEF c
<1>3. /\ n \in Topologies /\ n.instr = c /\ n.data = m.data /\ n.memory = m.memory
      /\ n.rejected = m.rejected
  BY <1>1, <1>2 DEF Topologies, c
<1>4. Range(c.ongoing) = {} /\ Len(c.ongoing) = 0 /\ Range(c.done) = {p}
  BY <1>2, ListOfOne, EmptyList
<1>5. /\ OngoingIds(c) = {} /\ OngoingIds(m.instr) = {o.access.id}
      /\ WaitingIds(c) = WaitingIds(m.instr)
  BY <1>2, <1>4 DEF OngoingIds, WaitingIds
<1>6. TopologyOK(n)
  BY <1>1, <1>2, <1>3, <1>4 DEF Whole, TopologyOK, ComponentOK
<1>7. FetchSide(n)
  <2>1. Distinct(c)
    BY <1>2, <1>5 DEF Whole, FetchSide, Distinct
  <2>2. QED
    BY <1>3, <1>4, <2>1 DEF FetchSide
<1>8. DataSide(n)
  BY <1>3, DataSideSame DEF Whole
<1>9. Apart(n) /\ FetchUnmissed(n)
  BY <1>3, <1>4 DEF Apart, FetchUnmissed
<1>10. QED
  BY <1>2, <1>3, <1>5, <1>6, <1>7, <1>8, <1>9 DEF Whole, FetchKept, InPort

LEMMA DecrementedIs == \A n \in Nat : Decremented(n) \in Nat /\ Decremented(n) <= n
BY DEF Decremented

LEMMA CheckInstructionPartOK ==
    ASSUME NEW m, Whole(m)
    PROVE  FetchKept(m, CheckInstructionPart(m))
<1> DEFINE n == CheckInstructionPart(m)
           o == m.instr.ongoing[1]
           l2 == Decremented(o.l2)
           l1 == Decremented(o.l1)
<1>1. CASE m.instr.ongoing = <<>>
  <2>1. n = m
    BY <1>1 DEF CheckInstructionPart, IsOngoing
  <2>2. Range(m.instr.ongoing) = {}
    BY <1>1, EmptyList
  <2>3. FetchUnmissed(m)
    BY <2>2 DEF FetchUnmissed
  <2>4. QED
    BY <2>1, <2>3 DEF FetchKept, InPort
<1>2. CASE m.instr.ongoing # <<>>
  <2>1. o \in OngoingAccess /\ Range(m.instr.ongoing) = {o}
    BY <1>2, PartsOfComponent DEF Whole, TopologyOK
  <2>2. FetchPhase(o)
    BY <2>1 DEF Whole, FetchSide
  <2>3. n = IF o.memId # NoId
            THEN IF MemoryFinished(m, o)
                 THEN [m EXCEPT !.instr.ongoing = <<BackFromMemory(o)>>,
                                !.memory.finished = NoId]
                 ELSE m
            ELSE IF o.inL2
            THEN [m EXCEPT !.instr.ongoing =
                     IF l2 > 0 THEN <<[o EXCEPT !.l2 = l2]>>
                     ELSE <<[o EXCEPT !.l2 = 0, !.inL2 = FALSE, !.l1 = InstrLatency,
                                      !.updated = @ \cup {"L2"}]>>]
            ELSE IF l1 > 0
            THEN [m EXCEPT !.instr.ongoing = <<[o EXCEPT !.l1 = l1]>>]
            ELSE [m EXCEPT !.instr =
                     Finish(m.instr, [o EXCEPT !.l1 = 0, !.updated = @ \cup {"L1"}])]
    BY <1>2 DEF CheckInstructionPart, IsOngoing
  <2>4. l1 \in Nat /\ l2 \in Nat
    BY <2>1, DecrementedIs DEF OngoingAccess
  <2>5. m \in Topologies /\ m.memory \in MemoryStates /\ MemoryOK(m.memory)
    BY DEF Whole, TopologyOK, MemoryOK
  <2> HIDE DEF n, o, l1, l2
  <2>6. CASE o.memId # NoId /\ MemoryFinished(m, o)
    <3> DEFINE p == BackFromMemory(o)
               mm == [m.memory EXCEPT !.finished = NoId]
    <3>1. /\ p \in OngoingAccess /\ p.access = o.access /\ p.memId = NoId /\ p.inL2 = TRUE
          /\ p.cl = o.cl /\ p.updated = o.updated
      BY <2>1, Latencies DEF BackFromMemory, OngoingAccess
    <3>2. FetchPhase(p)
      BY <2>2, <2>6, <3>1 DEF FetchPhase
    <3>3. n = [m EXCEPT !.instr.ongoing = <<p>>, !.memory = mm]
      BY <2>3, <2>6
    <3>4. MemoryOK(mm) /\ mm.current = m.memory.current
          /\ mm.instrQueue = m.memory.instrQueue /\ mm.dataQueue = m.memory.dataQueue
      BY <2>5, EndTakenIs
    <3> HIDE DEF p, mm
    <3>5. FetchGoesOn(m, n, p, mm)
      <4>1. mm \in MemoryStates
        BY <3>4 DEF MemoryOK
      <4>2. FetchGoesOn(m, [m EXCEPT !.instr.ongoing = <<p>>, !.memory = mm], p, mm)
        BY <2>5, <3>1, <4>1, FetchOngoing
      <4>3. QED
        BY <3>3, <4>2
    <3>6. FetchKept(m, n)
      BY <2>1, <2>6, <3>1, <3>2, <3>4, <3>5, FetchInCachesOK DEF MemoryFinished
    <3>7. QED
      BY <3>6 DEF n
  <2>7. CASE o.memId # NoId /\ ~MemoryFinished(m, o)
    <3>1. n = m
      BY <2>3, <2>7
    <3>2. FetchUnmissed(m)
      BY <2>1, <2>7 DEF FetchUnmissed, MemoryFinished
    <3>3. FetchKept(m, n)
      BY <3>1, <3>2 DEF FetchKept, InPort
    <3>4. QED
      BY <3>3 DEF n
  <2>8. ASSUME NEW p \in OngoingAccess, p.access = o.access, p.memId = NoId, FetchPhase(p),
               n = [m EXCEPT !.instr.ongoing = <<p>>]
        PROVE  FetchKept(m, n)
    <3>1. FetchGoesOn(m, [m EXCEPT !.instr.ongoing = <<p>>], p, m.memory)
      BY <2>5, FetchOngoing
    <3>2. FetchGoesOn(m, n, p, m.memory)
      BY <2>8, <3>1
    <3>3. QED
      BY <2>1, <2>5, <2>8, <3>2, FetchInCachesOK
  <2>9. CASE o.memId = NoId /\ o.inL2 /\ l2 > 0
    <3> DEFINE p == [o EXCEPT !.l2 = l2]
    <3>1. /\ p \in OngoingAccess /\ p.access = o.access /\ p.memId = o.memId
          /\ p.cl = o.cl /\ p.updated = o.updated
      BY <2>1, <2>4 DEF OngoingAccess
    <3>2. p.inL2 = o.inL2
      BY <2>1 DEF OngoingAccess
    <3>3. n = [m EXCEPT !.instr.ongoing = <<p>>]
      BY <2>3, <2>9
    <3> HIDE DEF p
    <3>4. FetchPhase(p)
      BY <2>2, <3>1, <3>2 DEF FetchPhase
    <3>5. FetchKept(m, n)
      BY <2>8, <2>9, <3>1, <3>3, <3>4
    <3>6. QED
      BY <3>5 DEF n
  <2>10. CASE o.memId = NoId /\ o.inL2 /\ ~(l2 > 0)
    <3> DEFINE p == [o EXCEPT !.l2 = 0, !.inL2 = FALSE, !.l1 = InstrLatency,
                              !.updated = @ \cup {"L2"}]
    <3>1. /\ p \in OngoingAccess /\ p.access = o.access /\ p.memId = o.memId
          /\ p.cl = o.cl /\ p.updated = o.updated \cup {"L2"}
      BY <2>1, Latencies DEF OngoingAccess, Levels
    <3>2. p.inL2 = FALSE
      BY <2>1 DEF OngoingAccess
    <3>3. n = [m EXCEPT !.instr.ongoing = <<p>>]
      BY <2>3, <2>10
    <3> HIDE DEF p
    <3>4. FetchPhase(p)
      BY <2>2, <2>10, <3>1, <3>2 DEF FetchPhase
    <3>5. FetchKept(m, n)
      BY <2>8, <2>10, <3>1, <3>3, <3>4
    <3>6. QED
      BY <3>5 DEF n
  <2>11. CASE o.memId = NoId /\ ~o.inL2 /\ l1 > 0
    <3> DEFINE p == [o EXCEPT !.l1 = l1]
    <3>1. /\ p \in OngoingAccess /\ p.access = o.access /\ p.memId = o.memId
          /\ p.cl = o.cl /\ p.updated = o.updated
      BY <2>1, <2>4 DEF OngoingAccess
    <3>2. p.inL2 = o.inL2
      BY <2>1 DEF OngoingAccess
    <3>3. n = [m EXCEPT !.instr.ongoing = <<p>>]
      BY <2>3, <2>11
    <3> HIDE DEF p
    <3>4. FetchPhase(p)
      BY <2>2, <3>1, <3>2 DEF FetchPhase
    <3>5. FetchKept(m, n)
      BY <2>8, <2>11, <3>1, <3>3, <3>4
    <3>6. QED
      BY <3>5 DEF n
  <2>12. CASE o.memId = NoId /\ ~o.inL2 /\ ~(l1 > 0)
    <3> DEFINE p == [o EXCEPT !.l1 = 0, !.updated = @ \cup {"L1"}]
    <3>1. /\ p \in OngoingAccess /\ p.access = o.access
          /\ p.cl = o.cl /\ p.updated = o.updated \cup {"L1"}
      BY <2>1 DEF OngoingAccess, Levels
    <3>2. n = [m EXCEPT !.instr = Finish(m.instr, p)]
      BY <2>3, <2>12
    <3> HIDE DEF p
    <3>3. DoneLevels(p)
      BY <2>2, <2>12, <3>1 DEF FetchPhase, DoneLevels, Levels
    <3>4. FetchKept(m, n)
      BY <2>1, <3>1, <3>2, <3>3, FetchAnsweredOK
    <3>5. QED
      BY <3>4 DEF n
  <2>13. QED
    BY <2>6, <2>7, <2>9, <2>10, <2>11, <2>12
<1>3. QED
  BY <1>1, <1>2

-----------------------------------------------------------------------------
(* What a cycle of the data port keeps.  A load that is answered after the *)
(* time t has stayed as long as its hit takes.                             *)
Times == [answered : BOOLEAN, lo : Nat, hi : Nat]

Later(t) == [lo |-> t.lo + 1, hi |-> t.hi + 1]

OnTime(o, t) ==
    /\ o.cl = "HIT" => t.lo = DataLatency - 1 /\ t.hi = t.lo
    /\ o.cl = "L2HIT" => t.lo = L2Latency + InstrLatency - 1 /\ t.hi = t.lo

ClockAfter(n, t) ==
    /\ \A o \in Range(n.data.ongoing) : IsTimedLoad(o) => HitClock(o, Later(t))
    /\ \A o \in Range(n.data.done) : IsTimedLoad(o) => OnTime(o, t)

DataKept(m, n) ==
    /\ Whole(n) /\ FetchUnmissed(n) /\ DataUnmissed(n)
    /\ n.instr = m.instr /\ n.data.waiting = m.data.waiting
    /\ \A id : OnlyPlace(m.data, id) => OnlyPlace(n.data, id)
    /\ \A t \in Times : Clock(m, t) => ClockAfter(n, t)

(* What is known before the data port cycles with its access o.            *)
Serves(m, o) ==
    /\ Whole(m) /\ FetchUnmissed(m) /\ m.data.done = <<>> /\ m.data.finished = NoId
    /\ o \in OngoingAccess /\ Range(m.data.ongoing) = {o} /\ m.data.ongoing # <<>>
    /\ policy \in PolicyType /\ (policy.writeBack => policy.writeAllocate)

LEMMA ServedAccess ==
    ASSUME NEW m, NEW o, Serves(m, o)
    PROVE  /\ DataAccessOK(o, m) /\ m \in Topologies /\ MemoryOK(m.memory)
           /\ OngoingIds(m.data) = {o.access.id} /\ o.access.id \in Ids
           /\ \A t : Clock(m, t) /\ IsTimedLoad(o) => HitClock(o, t)
<1>1. DataAccessOK(o, m)
  BY DEF Serves, Whole, DataSide
<1>2. m \in Topologies /\ MemoryOK(m.memory)
  BY DEF Serves, Whole, TopologyOK
<1>3. OngoingIds(m.data) = {o.access.id} /\ o.access.id \in Ids
  BY DEF Serves, OngoingIds, OngoingAccess, Accesses
<1>4. QED
  BY <1>1, <1>2, <1>3 DEF Serves, Clock

(* The access goes on.                                                     *)
LEMMA GoneOnIsKept ==
    ASSUME NEW m, NEW o, Serves(m, o), NEW p, p.access = o.access, NEW n, DataHasGoneOn(m, n, p),
           \A t \in Times : IsTimedLoad(o) /\ HitClock(o, t) =>
               \A q \in Range(n.data.ongoing) : HitClock(q, Later(t))
    PROVE  DataKept(m, n)
<1>1. /\ Whole(n) /\ DataUnmissed(n) /\ FetchUnmissed(n) /\ n.instr = m.instr
      /\ n.data.waiting = m.data.waiting /\ n.data.finished = m.data.finished
      /\ n.data.done = m.data.done
  BY DEF DataHasGoneOn, Serves
<1>2. PICK q \in OngoingAccess : n.data.ongoing = <<q>> /\ q.access = o.access
  BY DEF DataHasGoneOn
<1>3. Range(n.data.ongoing) = {q} /\ n.data.ongoing # <<>>
  BY <1>2, ListOfOne
<1>4. OngoingIds(n.data) = OngoingIds(m.data) /\ WaitingIds(n.data) = WaitingIds(m.data)
  <2>1. OngoingIds(n.data) = {o.access.id}
    BY <1>2, <1>3 DEF OngoingIds
  <2>2. QED
    BY <1>1, <2>1, ServedAccess DEF WaitingIds
<1>5. \A id : OnlyPlace(m.data, id) => OnlyPlace(n.data, id)
  BY <1>1, <1>3, <1>4 DEF OnlyPlace, Serves
<1>6. ASSUME NEW t \in Times, Clock(m, t)
      PROVE  ClockAfter(n, t)
  <2>1. Range(n.data.done) = {}
    BY <1>1, EmptyList DEF Serves
  <2>2. IsTimedLoad(q) => HitClock(q, Later(t))
    BY <1>2, <1>3, <1>6, ServedAccess DEF IsTimedLoad
  <2>3. QED
    BY <1>3, <2>1, <2>2 DEF ClockAfter
<1>7. QED
  BY <1>1, <1>5, <1>6 DEF DataKept

(* The access is answered; mm is the memory then.                          *)
LEMMA AnsweredIsKept ==
    ASSUME NEW m, NEW o, Serves(m, o), NEW p \in OngoingAccess, p.access = o.access,
           IsPlainLoad(p) => DoneLevels(p),
           \A t \in Times : IsTimedLoad(o) /\ HitClock(o, t) => OnTime(p, t),
           NEW mm, MemoryOK(mm), mm.current = m.memory.current,
           mm.instrQueue = m.memory.instrQueue, mm.dataQueue = m.memory.dataQueue,
           mm.finished = m.memory.finished \/ mm.finished = NoId,
           ~policy.unblockStores => mm.dataQueue = <<>>,
           NEW n, n = [m EXCEPT !.data = Finish(m.data, p), !.memory = mm]
    PROVE  DataKept(m, n)
<1> DEFINE c == Finish(m.data, p)
<1>1. /\ m \in Topologies /\ m.data \in MemoryComponent /\ ComponentOK(m.data)
      /\ mm \in MemoryStates
  BY PartsOfTopology DEF Serves, Whole, TopologyOK, MemoryOK
<1>2. /\ c \in MemoryComponent /\ c.ongoing = <<>> /\ c.done = <<p>>
      /\ c.waiting = m.data.waiting /\ c.finished = o.access.id
  <2>1. p.access.id \in Ids \cup {NoId}
    BY DEF OngoingAccess, Accesses
  <2>2. <<>> \in Seq(OngoingAccess) /\ <<p>> \in Seq(OngoingAccess)
    OBVIOUS
  <2>3. QED
    BY <1>1, <2>1, <2>2 DEF MemoryComponent, Finish
<1> HIDE DEF c
<1>3. /\ n \in Topologies /\ n.data = c /\ n.instr = m.instr /\ n.memory = mm
      /\ n.rejected = m.rejected
  BY <1>1, <1>2 DEF Topologies, c
<1>4. Range(c.ongoing) = {} /\ Len(c.ongoing) = 0 /\ Range(c.done) = {p} /\ c.done # <<>>
  BY <1>2, ListOfOne, EmptyList
<1>5. TopologyOK(n)
  BY <1>1, <1>2, <1>3, <1>4 DEF Serves, Whole, TopologyOK, ComponentOK
<1>6. FetchSide(n)
  <2>1. \A i \in Range(m.instr.ongoing) : i.memId # NoId =>
           i.memId \in InstrIds(m.memory) /\ i.memId # m.memory.finished
    BY DEF Serves, Whole, FetchSide, FetchUnmissed
  <2>2. \A i \in Range(m.instr.ongoing) : i.memId # NoId => i.memId \in InstrIds(n.memory)
    BY <1>3, <2>1 DEF InstrIds
  <2>3. QED
    BY <1>3, <2>2 DEF Serves, Whole, FetchSide
<1>7. DataSide(n)
  <2>1. DataAnswers(n)
    BY <1>3, <1>4 DEF Serves, Whole, DataSide, DataAnswers
  <2>2. QED
    BY <1>3, <1>4, <2>1 DEF DataSide
<1>8. Apart(n) /\ DataUnmissed(n) /\ FetchUnmissed(n)
  BY <1>3, <1>4 DEF Serves, Apart, DataUnmissed, FetchUnmissed
<1>9. ASSUME NEW id, OnlyPlace(m.data, id)
      PROVE  OnlyPlace(n.data, id)
  <2>1. m.data.waiting = <<>> /\ id = o.access.id /\ o.access.id \in Ids
    <3>1. OngoingIds(m.data) = {o.access.id} /\ o.access.id \in Ids
      BY ServedAccess
    <3>2. m.data.ongoing # <<>>
      BY DEF Serves
    <3>3. QED
      BY <1>9, <3>1, <3>2 DEF OnlyPlace
  <2>2. WaitingIds(c) = {} /\ OngoingIds(c) = {}
    <3>1. Range(c.waiting) = {}
      BY <1>2, <2>1, EmptyList
    <3>2. QED
      BY <1>4, <3>1 DEF WaitingIds, OngoingIds
  <2>3. QED
    BY <1>2, <1>3, <2>1, <2>2 DEF OnlyPlace
<1>10. ASSUME NEW t \in Times, Clock(m, t)
       PROVE  ClockAfter(n, t)
  <2>1. IsTimedLoad(p) => OnTime(p, t)
    <3>1. IsTimedLoad(o) => HitClock(o, t)
      BY <1>10, ServedAccess
    <3>2. IsTimedLoad(p) => IsTimedLoad(o)
      BY DEF IsTimedLoad
    <3>3. QED
      BY <3>1, <3>2
  <2>2. QED
    BY <1>3, <1>4, <2>1 DEF ClockAfter
<1>11. QED
  BY <1>2, <1>3, <1>5, <1>6, <1>7, <1>8, <1>9, <1>10 DEF Whole, DataKept

(* Nothing is queued for an access that has left the queue.                *)
LEMMA QueueIsEmpty ==
    ASSUME NEW mm, MemoryOK(mm), NEW x, QueueIds(mm.dataQueue) \subseteq {x},
           x = NoId \/ x = mm.finished
    PROVE  mm.dataQueue = <<>>
<1>1. mm.dataQueue \in Seq(Accesses) /\ Len(mm.dataQueue) <= 1
  BY DEF MemoryOK, MemoryStates
<1>2. ASSUME mm.dataQueue # <<>>
      PROVE  FALSE
  <2>1. QueueIds(mm.dataQueue) = {mm.dataQueue[1].id} /\ mm.dataQueue[1].id \in Ids
    BY <1>1, <1>2, IdsOfList
  <2>2. x \in Ids /\ x \in QueueIds(mm.dataQueue)
    BY <2>1
  <2>3. QED
    BY <2>2 DEF Ids, NoId, MemoryOK, IdsApart
<1>3. QED
  BY <1>2

(* An access that is answered leaves the memory as it is.                  *)
LEMMA AnsweredOnly ==
    ASSUME NEW m, NEW o, Serves(m, o), NEW p \in OngoingAccess, p.access = o.access,
           IsPlainLoad(p) => DoneLevels(p),
           \A t \in Times : IsTimedLoad(o) /\ HitClock(o, t) => OnTime(p, t),
           ~policy.unblockStores => m.memory.dataQueue = <<>>
    PROVE  DataKept(m, [m EXCEPT !.data = Finish(m.data, p)])
<1> DEFINE n == [m EXCEPT !.data = Finish(m.data, p)]
<1>1. m \in Topologies /\ MemoryOK(m.memory)
  BY ServedAccess
<1>2. n = [m EXCEPT !.data = Finish(m.data, p), !.memory = m.memory]
  BY <1>1 DEF Topologies
<1> HIDE DEF n
<1>3. DataKept(m, n)
  BY <1>1, <1>2, AnsweredIsKept
<1>4. QED
  BY <1>3 DEF n

(* A stalled access is tried on the memory again.                          *)
LEMMA StalledOK ==
    ASSUME NEW m, NEW o, Serves(m, o), o.stalled, NEW type \in AccessType
    PROVE  DataKept(m, TryMemory(m, o, type))
<1>1. DataAccessOK(o, m)
  BY ServedAccess
<1>2. MayTry(m, o)
  BY <1>1 DEF MayTry, DataAccessOK, DataPhase
<1>3. DataHasGoneOn(m, TryMemory(m, o, type), o)
  BY <1>2, TryMemoryOK DEF Serves, Whole, DataSide
<1>4. PICK p \in OngoingAccess :
         TryMemory(m, o, type).data.ongoing = <<p>> /\ p.cl = o.cl
  BY <1>3 DEF DataHasGoneOn
<1>5. Range(TryMemory(m, o, type).data.ongoing) = {p}
  BY <1>4, ListOfOne
<1>6. ASSUME NEW t, HitClock(o, t)
      PROVE  HitClock(p, Later(t))
  BY <1>1, <1>4, <1>6 DEF DataAccessOK, DataPhase, HitClock
<1>7. QED
  BY <1>3, <1>5, <1>6, GoneOnIsKept

(* A load comes back from the memory.                                      *)
LEMMA CheckLoadPhaseOK ==
    ASSUME NEW m, NEW o, Serves(m, o), ~o.stalled, o.phase = "WaitForLOAD"
    PROVE  DataKept(m, CheckLoadPhase(m, o))
<1> DEFINE n == CheckLoadPhase(m, o)
<1>1. DataAccessOK(o, m) /\ m \in Topologies /\ MemoryOK(m.memory)
  BY ServedAccess
<1>2. o.memId # NoId /\ o.cl = "L2MISS"
  BY <1>1 DEF DataAccessOK, DataPhase
<1>3. CASE ~MemoryFinished(m, o)
  <2>1. n = m
    BY <1>3 DEF CheckLoadPhase
  <2>2. DataUnmissed(m)
    BY <1>3 DEF DataUnmissed, Serves, MemoryFinished
  <2>3. ASSUME NEW t \in Times
        PROVE  ClockAfter(m, t)
    <3>1. Range(m.data.done) = {}
      BY EmptyList DEF Serves
    <3>2. HitClock(o, Later(t))
      BY <1>2 DEF HitClock
    <3>3. QED
      BY <3>1, <3>2 DEF ClockAfter, Serves
  <2>4. QED
    BY <2>1, <2>2, <2>3 DEF DataKept, Serves
<1>4. CASE MemoryFinished(m, o)
  <2> DEFINE p == [BackFromMemory(o) EXCEPT !.phase = "WaitForCACHE"]
             mm == [m.memory EXCEPT !.finished = NoId]
             k == [m EXCEPT !.memory = mm]
  <2>1. n = [m EXCEPT !.data.ongoing = <<p>>, !.memory = mm]
    BY <1>4 DEF CheckLoadPhase
  <2>2. /\ p \in OngoingAccess /\ p.access = o.access /\ p.memId = NoId /\ p.cl = o.cl
        /\ p.updated = o.updated /\ p.phase = "WaitForCACHE"
    BY Latencies DEF Serves, BackFromMemory, OngoingAccess, Phase
  <2>3. p.inL2 = TRUE /\ p.stalled = o.stalled
    BY DEF Serves, BackFromMemory, OngoingAccess
  <2>4. /\ MemoryOK(mm) /\ mm.finished = NoId /\ mm.current = m.memory.current
        /\ mm.instrQueue = m.memory.instrQueue /\ mm.dataQueue = m.memory.dataQueue
    BY <1>1, EndTakenIs
  <2>5. mm.dataQueue = <<>>
    <3>1. QueueIds(m.memory.dataQueue) \subseteq {m.memory.finished}
      BY <1>1, <1>4 DEF DataAccessOK, OwnsQueue, MemoryFinished
    <3> HIDE DEF mm
    <3>2. QED
      BY <1>1, <2>4, <3>1, QueueIsEmpty
  <2> HIDE DEF p, mm
  <2>6. /\ k \in Topologies /\ k.data = m.data /\ k.instr = m.instr /\ k.memory = mm
        /\ k.rejected = m.rejected
    BY <1>1, <2>4 DEF Topologies, MemoryOK
  <2> HIDE DEF k
  <2>7. TopologyOK(k)
    BY <2>4, <2>6 DEF Serves, Whole, TopologyOK
  <2>8. FetchSide(k)
    <3>1. \A i \in Range(m.instr.ongoing) : i.memId # NoId =>
             i.memId \in InstrIds(m.memory) /\ i.memId # m.memory.finished
      BY DEF Serves, Whole, FetchSide, FetchUnmissed
    <3>2. \A i \in Range(m.instr.ongoing) : i.memId # NoId => i.memId \in InstrIds(mm)
      BY <2>4, <3>1 DEF InstrIds
    <3>3. QED
      BY <2>6, <3>2 DEF Serves, Whole, FetchSide
  <2>9. DataAnswers(k) /\ FetchUnmissed(k)
    BY <2>4, <2>6 DEF Serves, Whole, DataSide, DataAnswers, FetchUnmissed
  <2>10. DataGoesOn(k, n, p, k.memory, k.rejected)
    <3>1. mm \in MemoryStates
      BY <2>4 DEF MemoryOK
    <3>2. DataGoesOn(m, [m EXCEPT !.data.ongoing = <<p>>, !.memory = mm], p, mm, m.rejected)
      BY <1>1, <2>2, <3>1, DataOngoing
    <3>3. DataGoesOn(m, n, p, mm, m.rejected)
      BY <2>1, <3>2
    <3> HIDE DEF n
    <3>4. QED
      BY <2>6, <3>3 DEF DataGoesOn
  <2> HIDE DEF n
  <2>11. IsPlainLoad(p) => LoadLevels(p)
    BY <1>1, <1>2, <2>2, <2>3 DEF DataAccessOK, IsPlainLoad, LoadLevels
  <2>12. DataHasGoneOn(k, n, p)
    BY <2>2, <2>3, <2>5, <2>6, <2>7, <2>8, <2>9, <2>10, <2>11, StayInCachesOK
  <2>13. DataHasGoneOn(m, n, p)
    BY <2>6, <2>9, <2>12 DEF DataHasGoneOn
  <2>14. Range(n.data.ongoing) = {p}
    BY <2>10, ListOfOne DEF DataGoesOn
  <2>15. \A t : HitClock(p, t)
    BY <1>2, <2>2 DEF HitClock
  <2>16. DataKept(m, n)
    BY <2>2, <2>13, <2>14, <2>15, GoneOnIsKept
  <2>17. QED
    BY <2>16 DEF n
<1>5. QED
  BY <1>3, <1>4

(* A store or a write-back ends: at once when it is not waited for.        *)
LEMMA CheckStorePhaseOK ==
    ASSUME NEW m, NEW o, Serves(m, o), ~o.stalled, o.phase = "WaitForSTORE"
    PROVE  DataKept(m, CheckStorePhase(m, o))
<1> DEFINE n == CheckStorePhase(m, o)
<1>1. /\ DataAccessOK(o, m) /\ m \in Topologies /\ MemoryOK(m.memory) /\ o \in OngoingAccess
      /\ \A t : Clock(m, t) /\ IsTimedLoad(o) => HitClock(o, t)
  BY ServedAccess DEF Serves
<1>2. ~IsPlainLoad(o)
  BY <1>1 DEF DataAccessOK, LoadLevels
<1>3. \A t : HitClock(o, t) => o.cl = "L2MISS"
  BY <1>1 DEF HitClock, OngoingAccess, Outcome
<1>4. \A t : HitClock(o, t) => OnTime(o, t)
  BY <1>3 DEF OnTime
<1>5. CASE policy.unblockStores
  <2>1. DataKept(m, [m EXCEPT !.data = Finish(m.data, o)])
    BY <1>1, <1>2, <1>4, <1>5, AnsweredOnly
  <2>2. n = [m EXCEPT !.data = Finish(m.data, o)]
    BY <1>5 DEF CheckStorePhase
  <2>3. QED
    BY <2>1, <2>2
<1>6. CASE ~policy.unblockStores /\ MemoryFinished(m, o)
  <2> DEFINE mm == [m.memory EXCEPT !.finished = NoId]
  <2>1. n = [m EXCEPT !.data = Finish(m.data, o), !.memory = mm]
    BY <1>6 DEF CheckStorePhase
  <2>2. /\ MemoryOK(mm) /\ mm.finished = NoId /\ mm.current = m.memory.current
        /\ mm.instrQueue = m.memory.instrQueue /\ mm.dataQueue = m.memory.dataQueue
    BY <1>1, EndTakenIs
  <2> HIDE DEF mm, n
  <2>3. mm.dataQueue = <<>>
    <3>1. QueueIds(m.memory.dataQueue) \subseteq {m.memory.finished}
      BY <1>1, <1>6 DEF DataAccessOK, OwnsQueue, MemoryFinished
    <3>2. QED
      BY <1>1, <2>2, <3>1, QueueIsEmpty
  <2>4. DataKept(m, n)
    BY <1>1, <1>2, <1>4, <2>1, <2>2, <2>3, AnsweredIsKept
  <2>5. QED
    BY <2>4 DEF n
<1>7. CASE ~policy.unblockStores /\ ~MemoryFinished(m, o)
  <2>1. n = m
    BY <1>7 DEF CheckStorePhase
  <2>2. DataUnmissed(m)
    BY <1>7 DEF DataUnmissed, Serves, MemoryFinished
  <2>3. ASSUME NEW t \in Times, Clock(m, t)
        PROVE  ClockAfter(m, t)
    <3>1. Range(m.data.done) = {}
      BY EmptyList DEF Serves
    <3>2. IsTimedLoad(o) => HitClock(o, Later(t))
      BY <1>1, <1>3, <2>3 DEF HitClock
    <3>3. QED
      BY <3>1, <3>2 DEF ClockAfter, Serves
  <2>4. QED
    BY <2>1, <2>2, <2>3 DEF DataKept, Serves
<1>8. QED
  BY <1>5, <1>6, <1>7

(* An access that has been through a cache, which has now been updated.    *)
Updated(m, o, p) ==
    /\ Serves(m, o) /\ o.phase = "WaitForCACHE" /\ ~o.stalled
    /\ p \in OngoingAccess /\ p.access = o.access /\ p.cl = o.cl /\ p.memId = NoId
    /\ p.phase = "WaitForCACHE" /\ ~p.stalled

(* Nothing is queued for such an access, where the queue is its own.       *)
LEMMA UpdatedOwnsQueue ==
    ASSUME NEW m, NEW o, NEW p, Updated(m, o, p)
    PROVE  ~policy.unblockStores \/ p.cl = "L2MISS" => m.memory.dataQueue = <<>>
<1>1. DataAccessOK(o, m) /\ MemoryOK(m.memory)
  BY ServedAccess DEF Updated
<1>2. o.memId = NoId
  BY <1>1 DEF DataAccessOK, DataPhase, Updated
<1>3. ASSUME ~policy.unblockStores \/ p.cl = "L2MISS"
      PROVE  QueueIds(m.memory.dataQueue) \subseteq {NoId}
  BY <1>1, <1>2, <1>3 DEF DataAccessOK, OwnsQueue, Updated
<1>4. QED
  BY <1>1, <1>3, QueueIsEmpty

LEMMA StoreThroughOK ==
    ASSUME NEW m, NEW o, NEW p, Updated(m, o, p), IsStoreThrough(p)
    PROVE  DataKept(m, StoreThrough(m, p))
<1> DEFINE q == [p EXCEPT !.phase = "WaitForSTORE"]
<1>1. /\ q \in OngoingAccess /\ q.access = o.access /\ q.memId = NoId
      /\ q.phase = "WaitForSTORE"
  BY DEF Updated, OngoingAccess, Phase
<1> HIDE DEF q
<1>2. q.access.type = "STORE"
  BY <1>1 DEF Updated, IsStoreThrough
<1>3. MayTry(m, q)
  BY <1>1, <1>2, UpdatedOwnsQueue DEF MayTry, IsPlainLoad
<1>4. Serves(m, o)
  BY DEF Updated
<1>5. DataHasGoneOn(m, TryMemory(m, q, "STORE"), q)
  BY <1>1, <1>3, <1>4, TryMemoryOK DEF Serves, Whole, DataSide, AccessType
<1>6. ~IsTimedLoad(o)
  BY <1>1, <1>2 DEF IsTimedLoad
<1>7. DataKept(m, TryMemory(m, q, "STORE"))
  BY <1>1, <1>4, <1>5, <1>6, GoneOnIsKept
<1>8. QED
  BY <1>7 DEF StoreThrough, q

LEMMA WriteBackOrNotOK ==
    ASSUME NEW m, NEW o, NEW p, Updated(m, o, p), MayWriteBack(p),
           NEW n \in WriteBackOrNot(m, p)
    PROVE  DataKept(m, n)
<1>1. Serves(m, o) /\ p.cl = "L2MISS" /\ policy.writeBack /\ policy.writeAllocate
  BY DEF Updated, Serves, MayWriteBack
<1>2. m.memory.dataQueue = <<>> /\ ~IsPlainLoad(p)
  BY <1>1, UpdatedOwnsQueue DEF IsPlainLoad
<1>3. CASE n = DemandMemory(m, [p EXCEPT !.phase = "WaitForSTORE"], "WRITEBACK")
  <2> DEFINE q == [p EXCEPT !.phase = "WaitForSTORE"]
  <2>1. /\ q \in OngoingAccess /\ q.access = o.access /\ q.memId = NoId
        /\ q.phase = "WaitForSTORE" /\ q.cl = "L2MISS"
    BY <1>1 DEF Updated, OngoingAccess, Phase
  <2>2. q.stalled = p.stalled
    BY DEF Updated, OngoingAccess
  <2>3. n = DemandMemory(m, q, "WRITEBACK")
    BY <1>3
  <2> HIDE DEF q
  <2>4. MayTry(m, q) /\ ~IsPlainLoad(q)
    BY <1>1, <1>2, <2>1 DEF MayTry, IsPlainLoad
  <2>5. DataHasGoneOn(m, DemandMemory(m, q, "WRITEBACK"), q)
    BY <1>1, <1>2, <2>1, <2>2, <2>4, DemandMemoryOK
    DEF Updated, Serves, Whole, DataSide, AccessType
  <2>6. DataHasGoneOn(m, n, q)
    BY <2>3, <2>5
  <2>7. PICK r \in OngoingAccess : n.data.ongoing = <<r>> /\ r.cl = q.cl
    BY <2>6 DEF DataHasGoneOn
  <2>8. Range(n.data.ongoing) = {r}
    BY <2>7, ListOfOne
  <2>9. \A t : HitClock(r, t)
    BY <2>1, <2>7 DEF HitClock
  <2>10. QED
    BY <1>1, <2>1, <2>6, <2>8, <2>9, GoneOnIsKept
<1>4. CASE n = [m EXCEPT !.data = Finish(m.data, p)]
  <2>1. \A t : OnTime(p, t)
    BY <1>1 DEF OnTime
  <2>2. DataKept(m, [m EXCEPT !.data = Finish(m.data, p)])
    BY <1>1, <1>2, <2>1, AnsweredOnly DEF Updated
  <2>3. QED
    BY <1>4, <2>2
<1>5. QED
  BY <1>3, <1>4 DEF WriteBackOrNot

(* An access that stays in the caches.                                     *)
LEMMA InCachesOK ==
    ASSUME NEW m, NEW o, NEW p, Updated(m, o, p),
           IsPlainLoad(p) => LoadLevels(p),
           \A t \in Times : IsTimedLoad(o) /\ HitClock(o, t) => HitClock(p, Later(t))
    PROVE  DataKept(m, [m EXCEPT !.data.ongoing = <<p>>])
<1> DEFINE n == [m EXCEPT !.data.ongoing = <<p>>]
<1>1. /\ Serves(m, o) /\ m \in Topologies /\ m.memory \in MemoryStates
      /\ p \in OngoingAccess /\ p.access = o.access
  BY ServedAccess DEF Updated, MemoryOK
<1>2. DataGoesOn(m, n, p, m.memory, m.rejected)
  BY <1>1, DataOngoing
<1> HIDE DEF n
<1>3. OwnsQueue(p) => m.memory.dataQueue = <<>>
  BY UpdatedOwnsQueue DEF OwnsQueue, Updated
<1>4. DataHasGoneOn(m, n, p)
  BY <1>1, <1>2, <1>3, StayInCachesOK DEF Updated, Serves, Whole, DataSide
<1>5. Range(n.data.ongoing) = {p}
  BY <1>2, ListOfOne DEF DataGoesOn
<1>6. DataKept(m, n)
  BY <1>1, <1>4, <1>5, GoneOnIsKept
<1>7. QED
  BY <1>6 DEF n

(* The second level has been gone through: on to the first one, unless the *)
(* access has to go to the memory or is answered.                          *)
LEMMA UpdateL2OK ==
    ASSUME NEW m, NEW o, Serves(m, o), o.phase = "WaitForCACHE", ~o.stalled, o.inL2,
           Decremented(o.l2) = 0,
           NEW n \in UpdateL2(m, [o EXCEPT !.l2 = 0, !.updated = @ \cup {"L2"}])
    PROVE  DataKept(m, n)
<1> DEFINE p == [o EXCEPT !.l2 = 0, !.updated = @ \cup {"L2"}]
<1>1. DataAccessOK(o, m) /\ o \in OngoingAccess
  BY ServedAccess DEF Serves
<1>2. o.memId = NoId
  BY <1>1 DEF DataAccessOK, DataPhase
<1>3. /\ p \in OngoingAccess /\ p.access = o.access /\ p.cl = o.cl /\ p.memId = o.memId
      /\ p.phase = o.phase /\ p.updated = o.updated \cup {"L2"}
  BY <1>1 DEF OngoingAccess, Levels
<1>4. p.stalled = o.stalled
  BY <1>1 DEF OngoingAccess
<1>5. n \in UpdateL2(m, p)
  OBVIOUS
<1> HIDE DEF p
<1>6. Updated(m, o, p)
  BY <1>2, <1>3, <1>4 DEF Updated
<1>7. CASE IsStoreThrough(p)
  BY <1>5, <1>6, <1>7, StoreThroughOK DEF UpdateL2
<1>8. CASE ~IsStoreThrough(p) /\ MayWriteBack(p)
  BY <1>5, <1>6, <1>8, WriteBackOrNotOK DEF UpdateL2
<1>9. CASE ~IsStoreThrough(p) /\ ~MayWriteBack(p)
  <2> DEFINE q == [p EXCEPT !.inL2 = FALSE, !.l1 = InstrLatency]
  <2>1. n = [m EXCEPT !.data.ongoing = <<q>>]
    BY <1>5, <1>9 DEF UpdateL2
  <2>2. /\ q \in OngoingAccess /\ q.access = p.access /\ q.cl = p.cl /\ q.memId = p.memId
        /\ q.phase = p.phase /\ q.updated = p.updated /\ q.l1 = InstrLatency
    BY <1>3, Latencies DEF OngoingAccess
  <2>3. q.stalled = p.stalled /\ q.inL2 = FALSE
    BY <1>3 DEF OngoingAccess
  <2> HIDE DEF q
  <2>4. Updated(m, o, q)
    BY <1>6, <2>2, <2>3 DEF Updated
  <2>5. IsPlainLoad(q) => LoadLevels(q)
    BY <1>1, <1>3, <2>2, <2>3 DEF DataAccessOK, IsPlainLoad, LoadLevels
  <2>6. ASSUME NEW t \in Times, HitClock(o, t)
        PROVE  HitClock(q, Later(t))
    <3>1. o.cl # "HIT"
      BY <2>6 DEF HitClock
    <3>2. o.cl = "L2HIT" => o.l2 + t.lo = L2Latency /\ o.l2 > 0 /\ t.hi = t.lo
      BY <2>6 DEF HitClock
    <3>3. o.l2 \in Nat /\ t.lo \in Nat /\ t.hi \in Nat
      BY <1>1 DEF OngoingAccess, Times
    <3>4. o.cl = "L2HIT" => o.l2 = 1
      BY <3>2, <3>3 DEF Decremented
    <3>5. q.cl = o.cl /\ q.phase = "WaitForCACHE"
      BY <1>3, <2>2
    <3>6. QED
      BY <2>2, <2>3, <3>1, <3>2, <3>3, <3>4, <3>5, Latencies DEF HitClock, Later
  <2>7. DataKept(m, [m EXCEPT !.data.ongoing = <<q>>])
    BY <2>4, <2>5, <2>6, InCachesOK
  <2>8. QED
    BY <2>1, <2>7
<1>10. QED
  BY <1>7, <1>8, <1>9

(* The first level has been gone through.                                  *)
LEMMA UpdateL1OK ==
    ASSUME NEW m, NEW o, Serves(m, o), o.phase = "WaitForCACHE", ~o.stalled, ~o.inL2,
           Decremented(o.l1) = 0,
           NEW n \in UpdateL1(m, [o EXCEPT !.l1 = 0, !.updated = @ \cup {"L1"}])
    PROVE  DataKept(m, n)
<1> DEFINE p == [o EXCEPT !.l1 = 0, !.updated = @ \cup {"L1"}]
<1>1. DataAccessOK(o, m) /\ o \in OngoingAccess
  BY ServedAccess DEF Serves
<1>2. o.memId = NoId
  BY <1>1 DEF DataAccessOK, DataPhase
<1>3. /\ p \in OngoingAccess /\ p.access = o.access /\ p.cl = o.cl /\ p.memId = o.memId
      /\ p.phase = o.phase /\ p.updated = o.updated \cup {"L1"}
  BY <1>1 DEF OngoingAccess, Levels
<1>4. p.stalled = o.stalled
  BY <1>1 DEF OngoingAccess
<1>5. n \in UpdateL1(m, p)
  OBVIOUS
<1> HIDE DEF p
<1>6. Updated(m, o, p)
  BY <1>2, <1>3, <1>4 DEF Updated
<1>7. CASE IsStoreThrough(p)
  BY <1>5, <1>6, <1>7, StoreThroughOK DEF UpdateL1
<1>8. CASE ~IsStoreThrough(p) /\ MayWriteBack(p)
  BY <1>5, <1>6, <1>8, WriteBackOrNotOK DEF UpdateL1
<1>9. CASE ~IsStoreThrough(p) /\ ~MayWriteBack(p)
  <2>1. n = [m EXCEPT !.data = Finish(m.data, p)]
    BY <1>5, <1>9 DEF UpdateL1
  <2>2. IsPlainLoad(p) => DoneLevels(p)
    BY <1>1, <1>3 DEF DataAccessOK, IsPlainLoad, LoadLevels, DoneLevels, Levels
  <2>3. ASSUME NEW t \in Times, HitClock(o, t)
        PROVE  OnTime(p, t)
    <3>1. /\ o.cl = "HIT" => o.l1 + t.lo = DataLatency /\ o.l1 > 0 /\ t.hi = t.lo
          /\ o.cl = "L2HIT" => o.l1 + t.lo = L2Latency + InstrLatency /\ o.l1 > 0 /\ t.hi = t.lo
      BY <2>3 DEF HitClock
    <3>2. o.l1 \in Nat /\ t.lo \in Nat /\ t.hi \in Nat
      BY <1>1 DEF OngoingAccess, Times
    <3>3. o.l1 > 0 => o.l1 = 1
      BY <3>2 DEF Decremented
    <3>4. QED
      BY <1>3, <3>1, <3>2, <3>3, Latencies DEF OnTime
  <2>4. DataKept(m, [m EXCEPT !.data = Finish(m.data, p)])
    BY <1>3, <1>6, <2>2, <2>3, UpdatedOwnsQueue, AnsweredOnly DEF Updated
  <2>5. QED
    BY <2>1, <2>4
<1>10. QED
  BY <1>7, <1>8, <1>9

(* An access spends its time in a cache.                                   *)
LEMMA CheckCachePhaseOK ==
    ASSUME NEW m, NEW o, Serves(m, o), o.phase = "WaitForCACHE", ~o.stalled,
           NEW n \in CheckCachePhase(m, o)
    PROVE  DataKept(m, n)
<1> DEFINE l2 == Decremented(o.l2)
           l1 == Decremented(o.l1)
<1>1. DataAccessOK(o, m) /\ o \in OngoingAccess
  BY ServedAccess DEF Serves
<1>2. o.memId = NoId
  BY <1>1 DEF DataAccessOK, DataPhase
<1>3. l1 \in Nat /\ l2 \in Nat /\ o.l1 \in Nat /\ o.l2 \in Nat
  BY <1>1, DecrementedIs DEF OngoingAccess
<1>4. \/ o.inL2 /\ l2 > 0 /\ n = [m EXCEPT !.data.ongoing = <<[o EXCEPT !.l2 = l2]>>]
      \/ /\ o.inL2 /\ ~(l2 > 0)
         /\ n \in UpdateL2(m, [o EXCEPT !.l2 = 0, !.updated = @ \cup {"L2"}])
      \/ ~o.inL2 /\ l1 > 0 /\ n = [m EXCEPT !.data.ongoing = <<[o EXCEPT !.l1 = l1]>>]
      \/ /\ ~o.inL2 /\ ~(l1 > 0)
         /\ n \in UpdateL1(m, [o EXCEPT !.l1 = 0, !.updated = @ \cup {"L1"}])
  BY DEF CheckCachePhase
<1>5. CASE o.inL2 /\ l2 > 0 /\ n = [m EXCEPT !.data.ongoing = <<[o EXCEPT !.l2 = l2]>>]
  <2> DEFINE p == [o EXCEPT !.l2 = l2]
  <2> HIDE DEF l1, l2
  <2>1. /\ p \in OngoingAccess /\ p.access = o.access /\ p.cl = o.cl /\ p.memId = o.memId
        /\ p.phase = o.phase /\ p.updated = o.updated /\ p.l2 = l2
    BY <1>1, <1>3 DEF OngoingAccess
  <2>2. p.stalled = o.stalled /\ p.inL2 = o.inL2
    BY <1>1 DEF OngoingAccess
  <2>3. n = [m EXCEPT !.data.ongoing = <<p>>]
    BY <1>5
  <2> HIDE DEF p
  <2>4. Updated(m, o, p)
    BY <1>2, <2>1, <2>2 DEF Updated
  <2>5. IsPlainLoad(p) => LoadLevels(p)
    BY <1>1, <2>1, <2>2 DEF DataAccessOK, IsPlainLoad, LoadLevels
  <2>6. ASSUME NEW t \in Times, HitClock(o, t)
        PROVE  HitClock(p, Later(t))
    <3>1. l2 = o.l2 - 1
      BY <1>3, <1>5 DEF l2, Decremented
    <3>2. t.lo \in Nat /\ t.hi \in Nat
      BY DEF Times
    <3>3. QED
      BY <1>3, <1>5, <2>1, <2>2, <2>6, <3>1, <3>2, Latencies DEF HitClock, Later
  <2>7. DataKept(m, [m EXCEPT !.data.ongoing = <<p>>])
    BY <2>4, <2>5, <2>6, InCachesOK
  <2>8. QED
    BY <2>3, <2>7
<1>6. CASE /\ o.inL2 /\ ~(l2 > 0)
           /\ n \in UpdateL2(m, [o EXCEPT !.l2 = 0, !.updated = @ \cup {"L2"}])
  <2>1. Decremented(o.l2) = 0
    BY <1>3, <1>6
  <2>2. QED
    BY <1>6, <2>1, UpdateL2OK
<1>7. CASE ~o.inL2 /\ l1 > 0 /\ n = [m EXCEPT !.data.ongoing = <<[o EXCEPT !.l1 = l1]>>]
  <2> DEFINE p == [o EXCEPT !.l1 = l1]
  <2> HIDE DEF l1, l2
  <2>1. /\ p \in OngoingAccess /\ p.access = o.access /\ p.cl = o.cl /\ p.memId = o.memId
        /\ p.phase = o.phase /\ p.updated = o.updated /\ p.l1 = l1
    BY <1>1, <1>3 DEF OngoingAccess
  <2>2. p.stalled = o.stalled /\ p.inL2 = o.inL2
    BY <1>1 DEF OngoingAccess
  <2>3. n = [m EXCEPT !.data.ongoing = <<p>>]
    BY <1>7
  <2> HIDE DEF p
  <2>4. Updated(m, o, p)
    BY <1>2, <2>1, <2>2 DEF Updated
  <2>5. IsPlainLoad(p) => LoadLevels(p)
    BY <1>1, <2>1, <2>2 DEF DataAccessOK, IsPlainLoad, LoadLevels
  <2>6. ASSUME NEW t \in Times, HitClock(o, t)
        PROVE  HitClock(p, Later(t))
    <3>1. l1 = o.l1 - 1
      BY <1>3, <1>7 DEF l1, Decremented
    <3>2. t.lo \in Nat /\ t.hi \in Nat
      BY DEF Times
    <3>3. QED
      BY <1>3, <1>7, <2>1, <2>2, <2>6, <3>1, <3>2, Latencies DEF HitClock, Later
  <2>7. DataKept(m, [m EXCEPT !.data.ongoing = <<p>>])
    BY <2>4, <2>5, <2>6, InCachesOK
  <2>8. QED
    BY <2>3, <2>7
<1>8. CASE /\ ~o.inL2 /\ ~(l1 > 0)
           /\ n \in UpdateL1(m, [o EXCEPT !.l1 = 0, !.updated = @ \cup {"L1"}])
  <2>1. Decremented(o.l1) = 0
    BY <1>3, <1>8
  <2>2. QED
    BY <1>8, <2>1, UpdateL1OK
<1>9. QED
  BY <1>4, <1>5, <1>6, <1>7, <1>8

(* The phases that the data port distinguishes.                            *)
LEMMA PhasesOfDataPart ==
    ASSUME NEW m, NEW o, o = m.data.ongoing[1], m.data.ongoing # <<>>,
           o.phase \in {"WaitForLOAD", "WaitForCACHE", "WaitForSTORE"},
           NEW n \in CheckDataPart(m)
    PROVE  \/ /\ o.stalled
              /\ n = TryMemory(m, o, IF o.phase = "WaitForLOAD" THEN "LOAD" ELSE "STORE")
           \/ ~o.stalled /\ o.phase = "WaitForLOAD" /\ n = CheckLoadPhase(m, o)
           \/ ~o.stalled /\ o.phase = "WaitForCACHE" /\ n \in CheckCachePhase(m, o)
           \/ ~o.stalled /\ o.phase = "WaitForSTORE" /\ n = CheckStorePhase(m, o)
<1> DEFINE S == {TryMemory(m, o, IF o.phase = "WaitForLOAD" THEN "LOAD" ELSE "STORE")}
           L == {CheckLoadPhase(m, o)}
           C == CheckCachePhase(m, o)
           T == {CheckStorePhase(m, o)}
<1>1. n \in CASE o.stalled -> S
              [] ~o.stalled /\ o.phase = "WaitForLOAD" -> L
              [] ~o.stalled /\ o.phase = "WaitForCACHE" -> C
              [] ~o.stalled /\ o.phase = "WaitForSTORE" -> T
  BY DEF CheckDataPart, IsOngoing
<1> HIDE DEF S, L, C, T
<1>2. \/ o.stalled /\ n \in S
      \/ ~o.stalled /\ o.phase = "WaitForLOAD" /\ n \in L
      \/ ~o.stalled /\ o.phase = "WaitForCACHE" /\ n \in C
      \/ ~o.stalled /\ o.phase = "WaitForSTORE" /\ n \in T
  BY <1>1
<1>3. QED
  BY <1>2 DEF S, L, C, T

(* A cycle of the data port.                                               *)
LEMMA CheckDataPartOK ==
    ASSUME NEW m, Whole(m), FetchUnmissed(m), m.data.done = <<>>, m.data.finished = NoId,
           policy \in PolicyType, policy.writeBack => policy.writeAllocate,
           NEW n \in CheckDataPart(m)
    PROVE  DataKept(m, n)
<1>1. CASE m.data.ongoing = <<>>
  <2>1. n = m
    BY <1>1 DEF CheckDataPart, IsOngoing
  <2>2. Range(m.data.ongoing) = {} /\ Range(m.data.done) = {}
    BY <1>1, EmptyList
  <2>3. QED
    BY <2>1, <2>2 DEF DataKept, DataUnmissed, ClockAfter
<1>2. CASE m.data.ongoing # <<>>
  <2> DEFINE o == m.data.ongoing[1]
  <2>1. o \in OngoingAccess /\ Range(m.data.ongoing) = {o}
    BY <1>2, PartsOfComponent DEF Whole, TopologyOK
  <2>2. Serves(m, o)
    BY <1>2, <2>1 DEF Serves
  <2>3. o.phase \in {"WaitForLOAD", "WaitForCACHE", "WaitForSTORE"}
    BY <2>2, ServedAccess DEF DataAccessOK, DataPhase
  <2>4. \/ o.stalled /\ n = TryMemory(m, o, IF o.phase = "WaitForLOAD" THEN "LOAD" ELSE "STORE")
        \/ ~o.stalled /\ o.phase = "WaitForLOAD" /\ n = CheckLoadPhase(m, o)
        \/ ~o.stalled /\ o.phase = "WaitForCACHE" /\ n \in CheckCachePhase(m, o)
        \/ ~o.stalled /\ o.phase = "WaitForSTORE" /\ n = CheckStorePhase(m, o)
    BY <1>2, <2>3, PhasesOfDataPart
  <2> HIDE DEF o
  <2>5. CASE o.stalled
    <3> DEFINE type == IF o.phase = "WaitForLOAD" THEN "LOAD" ELSE "STORE"
    <3>1. type \in AccessType
      BY DEF AccessType
    <3>2. n = TryMemory(m, o, type)
      BY <2>4, <2>5
    <3> HIDE DEF type
    <3>3. QED
      BY <2>2, <2>5, <3>1, <3>2, StalledOK
  <2>6. CASE ~o.stalled /\ o.phase = "WaitForLOAD"
    BY <2>2, <2>4, <2>6, CheckLoadPhaseOK
  <2>7. CASE ~o.stalled /\ o.phase = "WaitForCACHE"
    BY <2>2, <2>4, <2>7, CheckCachePhaseOK
  <2>8. CASE ~o.stalled /\ o.phase = "WaitForSTORE"
    BY <2>2, <2>4, <2>8, CheckStorePhaseOK
  <2>9. QED
    BY <2>3, <2>5, <2>6, <2>7, <2>8
<1>3. QED
  BY <1>1, <1>2

(* Neither port changes whether the memory is blocked by other cores.      *)
SameService(mm, n) == IsBlocked(n) = IsBlocked(mm)

LEMMA MemoryServes ==
    ASSUME NEW mm \in MemoryStates
    PROVE  /\ SameService(mm, [mm EXCEPT !.finished = NoId])
           /\ \A id, type : SameService(mm, AccessData(mm, id, type))
BY DEF SameService, IsBlocked, AccessData, MemoryStates

LEMMA CheckInstructionPartServes ==
    ASSUME NEW m \in Topologies
    PROVE  SameService(m.memory, CheckInstructionPart(m).memory)
<1> DEFINE n == CheckInstructionPart(m)
<1>1. n.memory = m.memory \/ n.memory = [m.memory EXCEPT !.finished = NoId]
  BY DEF CheckInstructionPart, Topologies
<1> HIDE DEF n
<1>2. m.memory \in MemoryStates
  BY DEF Topologies
<1>3. SameService(m.memory, n.memory)
  BY <1>1, <1>2, MemoryServes DEF SameService
<1>4. QED
  BY <1>3 DEF n

LEMMA TryMemoryServes ==
    ASSUME NEW m \in Topologies, NEW o, NEW type
    PROVE  /\ SameService(m.memory, TryMemory(m, o, type).memory)
           /\ SameService(m.memory, DemandMemory(m, o, type).memory)
<1>1. m.memory \in MemoryStates
  BY DEF Topologies
<1>2. \/ TryMemory(m, o, type).memory = m.memory
      \/ TryMemory(m, o, type).memory = AccessData(m.memory, NewMemId(m), type)
  BY DEF TryMemory, Topologies
<1>3. \/ DemandMemory(m, o, type).memory = m.memory
      \/ DemandMemory(m, o, type) = TryMemory(m, o, type)
  BY DEF DemandMemory, Topologies
<1>4. SameService(m.memory, TryMemory(m, o, type).memory)
  <2> DEFINE x == AccessData(m.memory, NewMemId(m), type)
  <2>1. SameService(m.memory, x)
    BY <1>1, MemoryServes
  <2>2. SameService(m.memory, m.memory)
    BY DEF SameService
  <2> HIDE DEF x
  <2>3. TryMemory(m, o, type).memory = m.memory \/ TryMemory(m, o, type).memory = x
    BY <1>2 DEF x
  <2>4. QED
    BY <2>1, <2>2, <2>3
<1>5. QED
  BY <1>3, <1>4 DEF SameService

LEMMA CheckCachePhaseServes ==
    ASSUME NEW m \in Topologies, NEW o, NEW n \in CheckCachePhase(m, o)
    PROVE  SameService(m.memory, n.memory)
<1>1. \A c : [m EXCEPT !.data = c].memory = m.memory
  BY DEF Topologies
<1>2. ASSUME NEW p
      PROVE  /\ n = StoreThrough(m, p) => SameService(m.memory, n.memory)
             /\ n \in WriteBackOrNot(m, p) => SameService(m.memory, n.memory)
             /\ n = [m EXCEPT !.data = Finish(m.data, p)] => SameService(m.memory, n.memory)
             /\ n = [m EXCEPT !.data.ongoing = <<p>>] => SameService(m.memory, n.memory)
  <2>1. n = StoreThrough(m, p) => SameService(m.memory, n.memory)
    BY TryMemoryServes DEF StoreThrough
  <2>2. n = [m EXCEPT !.data = Finish(m.data, p)] => SameService(m.memory, n.memory)
    BY <1>1 DEF SameService
  <2>3. n \in WriteBackOrNot(m, p) => SameService(m.memory, n.memory)
    BY <2>2, TryMemoryServes DEF WriteBackOrNot
  <2>4. n = [m EXCEPT !.data.ongoing = <<p>>] => SameService(m.memory, n.memory)
    BY <1>1 DEF SameService
  <2>5. QED
    BY <2>1, <2>2, <2>3, <2>4
<1>3. ASSUME NEW p, n \in UpdateL2(m, p)
      PROVE  SameService(m.memory, n.memory)
  <2> DEFINE q == [p EXCEPT !.inL2 = FALSE, !.l1 = InstrLatency]
  <2>1. \/ n = StoreThrough(m, p) \/ n \in WriteBackOrNot(m, p)
        \/ n = [m EXCEPT !.data.ongoing = <<q>>]
    BY <1>3 DEF UpdateL2
  <2> HIDE DEF q
  <2>2. QED
    BY <1>2, <2>1
<1>4. ASSUME NEW p, n \in UpdateL1(m, p)
      PROVE  SameService(m.memory, n.memory)
  <2>1. \/ n = StoreThrough(m, p) \/ n \in WriteBackOrNot(m, p)
        \/ n = [m EXCEPT !.data = Finish(m.data, p)]
    BY <1>4 DEF UpdateL1
  <2>2. QED
    BY <1>2, <2>1
<1>5. \E p : \/ n = [m EXCEPT !.data.ongoing = <<p>>]
             \/ n \in UpdateL2(m, p) \/ n \in UpdateL1(m, p)
  BY DEF CheckCachePhase
<1>6. QED
  BY <1>2, <1>3, <1>4, <1>5

LEMMA CheckDataPartServes ==
    ASSUME NEW m, Whole(m), NEW n \in CheckDataPart(m)
    PROVE  SameService(m.memory, n.memory)
<1>1. m \in Topologies /\ m.memory \in MemoryStates
  BY PartsOfTopology DEF Whole, TopologyOK
<1>2. CASE m.data.ongoing = <<>>
  BY <1>2 DEF CheckDataPart, IsOngoing, SameService
<1>3. CASE m.data.ongoing # <<>>
  <2> DEFINE o == m.data.ongoing[1]
  <2>1. o \in Range(m.data.ongoing)
    BY <1>3, PartsOfComponent DEF Whole, TopologyOK
  <2>2. o.phase \in {"WaitForLOAD", "WaitForCACHE", "WaitForSTORE"}
    BY <2>1 DEF Whole, DataSide, DataAccessOK, DataPhase
  <2>3. \/ \E type : n = TryMemory(m, o, type)
        \/ n = CheckLoadPhase(m, o) \/ n \in CheckCachePhase(m, o) \/ n = CheckStorePhase(m, o)
    BY <1>3, <2>2, PhasesOfDataPart
  <2> HIDE DEF o
  <2>4. n = CheckLoadPhase(m, o) \/ n = CheckStorePhase(m, o) =>
           n.memory = m.memory \/ n.memory = [m.memory EXCEPT !.finished = NoId]
    BY <1>1 DEF CheckLoadPhase, CheckStorePhase, Topologies
  <2>5. n = CheckLoadPhase(m, o) \/ n = CheckStorePhase(m, o) =>
           SameService(m.memory, n.memory)
    BY <1>1, <2>4, MemoryServes DEF SameService
  <2>6. QED
    BY <1>1, <2>3, <2>5, TryMemoryServes, CheckCachePhaseServes
<1>4. QED
  BY <1>2, <1>3

-----------------------------------------------------------------------------
(* The inductive invariant: the topology between two cycles, what its      *)
(* ports hold for the pipeline, and the clock of a load that hits.         *)
PipelineOK ==
    /\ fetch \in Ids \cup {NoId} /\ load \in Ids \cup {NoId}
    /\ more \in 0 .. MaxAccesses - 1 /\ work \in 0 .. MaxWork
    /\ fetchTime \in Times /\ loadTime \in Times
    /\ fetch # NoId => work < MaxWork

IInv ==
    /\ policy \in Policies
    /\ Whole(mem) /\ FetchUnmissed(mem) /\ DataUnmissed(mem)
    /\ Clock(mem, loadTime)
    /\ OnlyPlace(mem.data, load) /\ mem.data.finished = NoId
    /\ InPort(mem.instr, fetch)
    /\ PipelineOK

LEMMA PolicyFacts ==
    ASSUME policy \in Policies
    PROVE  policy \in PolicyType /\ (policy.writeBack => policy.writeAllocate)
BY TopologyAssumption

(* The topology after its cycle, before the pipeline looks at it.          *)
AfterCycle(n) ==
    /\ Whole(n) /\ FetchUnmissed(n) /\ DataUnmissed(n)
    /\ OnlyPlace(n.data, load) /\ n.data.waiting = <<>>
    /\ fetch # NoId => fetch \in WaitingIds(n.instr) \cup OngoingIds(n.instr)
                                                     \cup {n.instr.finished}
    /\ ShouldStall(n) => InPort(n.instr, fetch) /\ n.data.finished = NoId
    /\ ClockAfter(n, loadTime)

(* Before the memory cycles.                                               *)
AfterStart(m) ==
    /\ Whole(m) /\ FetchUnmissed(m) /\ DataUnmissed(m)
    /\ OnlyPlace(m.data, load) /\ m.data.waiting = <<>>
    /\ m.data.finished = NoId /\ m.data.done = <<>>
    /\ InPort(m.instr, fetch) /\ Clock(m, loadTime)

LEMMA StartedOK ==
    ASSUME IInv, NEW m \in Started(mem)
    PROVE  AfterStart(m)
<1> DEFINE k == ClearEvents(mem)
<1>1. /\ Whole(k) /\ FetchUnmissed(k) /\ DataUnmissed(k)
      /\ OnlyPlace(k.data, load) /\ k.data.finished = NoId /\ k.data.done = <<>>
      /\ InPort(k.instr, fetch) /\ Clock(k, loadTime)
  BY ClearEventsOK DEF IInv
<1> HIDE DEF k
<1>2. PICK s \in StartInstructionAccess(k) : m \in StartDataAccess(s)
  BY DEF Started, k
<1>3. /\ Whole(s) /\ FetchUnmissed(s) /\ DataUnmissed(s) /\ s.data = k.data
      /\ InPort(s.instr, fetch)
  BY <1>1, StartInstructionAccessOK
<1>4. OnlyPlace(s.data, load) /\ Clock(s, loadTime) /\ s.data.finished = NoId
      /\ s.data.done = <<>>
  BY <1>1, <1>3 DEF Clock
<1>5. policy \in PolicyType /\ (policy.writeBack => policy.writeAllocate)
  BY PolicyFacts DEF IInv
<1>6. /\ Whole(m) /\ DataUnmissed(m) /\ (FetchUnmissed(s) => FetchUnmissed(m))
      /\ m.instr = s.instr /\ m.data.finished = s.data.finished
      /\ m.data.done = s.data.done
      /\ OnlyPlace(m.data, load) /\ Clock(m, loadTime)
  BY <1>2, <1>3, <1>4, <1>5, StartDataAccessOK
<1>7. m.data.waiting = <<>>
  <2>1. s.data.waiting = <<>> \/ s.data.ongoing = <<>>
    BY <1>4 DEF OnlyPlace
  <2>2. QED
    BY <1>2, <1>3, <1>5, <2>1, StartDataAccessOK
<1>8. QED
  BY <1>3, <1>4, <1>6, <1>7 DEF AfterStart

LEMMA MemoryHasCycled ==
    ASSUME IInv, NEW m, AfterStart(m), NEW n \in MemoryCycled(m)
    PROVE  /\ Whole(n) /\ OnlyPlace(n.data, load) /\ n.data.waiting = <<>>
           /\ n.data.finished = NoId /\ n.data.done = <<>>
           /\ InPort(n.instr, fetch) /\ Clock(n, loadTime)
           /\ IsBlocked(n.memory) => FetchUnmissed(n) /\ DataUnmissed(n)
<1>1. /\ Whole(n) /\ n.instr = m.instr /\ n.data = m.data
      /\ IsBlocked(n.memory) => FetchUnmissed(n) /\ DataUnmissed(n)
      /\ Clock(n, loadTime)
  BY MemoryCycledOK DEF AfterStart
<1>2. QED
  BY <1>1 DEF AfterStart

LEMMA CycleOK ==
    ASSUME IInv, NEW n \in Cycle(mem)
    PROVE  AfterCycle(n)
<1>1. PICK m : /\ m \in UNION {MemoryCycled(s) : s \in Started(mem)}
               /\ n \in IF ShouldStall(m) THEN {m} ELSE CheckParts(m)
  BY DEF Cycle
<1>2. PICK s \in Started(mem) : m \in MemoryCycled(s)
  BY <1>1
<1>3. /\ Whole(m) /\ OnlyPlace(m.data, load) /\ m.data.waiting = <<>>
      /\ m.data.finished = NoId /\ m.data.done = <<>>
      /\ InPort(m.instr, fetch) /\ Clock(m, loadTime)
      /\ IsBlocked(m.memory) => FetchUnmissed(m) /\ DataUnmissed(m)
  BY <1>2, StartedOK, MemoryHasCycled
<1>4. CASE ShouldStall(m)
  <2>1. n = m
    BY <1>1, <1>4
  <2>2. FetchUnmissed(m) /\ DataUnmissed(m) /\ policy.stallOnBlocking
    BY <1>3, <1>4 DEF ShouldStall
  <2>3. ClockAfter(m, loadTime)
    BY <2>2 DEF ClockAfter, IsTimedLoad
  <2>4. QED
    BY <1>3, <2>1, <2>2, <2>3 DEF AfterCycle, InPort
<1>5. CASE ~ShouldStall(m)
  <2> DEFINE k == CheckInstructionPart(m)
  <2>1. n \in CheckDataPart(k)
    BY <1>1, <1>5 DEF CheckParts
  <2>2. FetchKept(m, k) /\ SameService(m.memory, k.memory)
    BY <1>3, CheckInstructionPartOK, CheckInstructionPartServes DEF Whole, TopologyOK
  <2> HIDE DEF k
  <2>3. /\ Whole(k) /\ FetchUnmissed(k) /\ k.data = m.data
        /\ fetch # NoId => fetch \in WaitingIds(k.instr) \cup OngoingIds(k.instr)
                                                         \cup {k.instr.finished}
    BY <1>3, <2>2 DEF FetchKept
  <2>4. policy \in PolicyType /\ (policy.writeBack => policy.writeAllocate)
    BY PolicyFacts DEF IInv
  <2>5. DataKept(k, n) /\ SameService(k.memory, n.memory)
    BY <1>3, <2>1, <2>3, <2>4, CheckDataPartOK, CheckDataPartServes
  <2>6. ~ShouldStall(n)
    BY <1>5, <2>2, <2>5 DEF SameService, ShouldStall
  <2>7. Clock(k, loadTime) /\ loadTime \in Times
    BY <1>3, <2>3 DEF Clock, IInv, PipelineOK
  <2>8. QED
    BY <1>3, <2>3, <2>5, <2>6, <2>7 DEF DataKept, AfterCycle
<1>6. QED
  BY <1>4, <1>5

-----------------------------------------------------------------------------
(* The pipeline's new accesses.                                            *)

LEMMA PortIdsAre ==
    ASSUME NEW c, ComponentOK(c)
    PROVE  /\ ComponentIds(c) = {c.finished} \cup WaitingIds(c) \cup OngoingIds(c)
           /\ \E x, y : ComponentIds(c) \subseteq {c.finished, x, y}
<1>1. ComponentIds(c) = {c.finished} \cup WaitingIds(c) \cup OngoingIds(c)
  BY DEF ComponentIds, WaitingIds, OngoingIds
<1>2. \E x : WaitingIds(c) \subseteq {x}
  BY PartsOfComponent
<1>3. \E y : OngoingIds(c) \subseteq {y}
  BY PartsOfComponent
<1>4. QED
  BY <1>1, <1>2, <1>3

LEMMA NewIdIsNew ==
    ASSUME NEW m, TopologyOK(m)
    PROVE  LET id == NewId(m, {fetch, load})
           IN  /\ id \in Ids /\ id # fetch /\ id # load
               /\ id \notin WaitingIds(m.instr) \cup OngoingIds(m.instr)
               /\ id # m.instr.finished
               /\ id \notin WaitingIds(m.data) \cup OngoingIds(m.data)
               /\ id # m.data.finished
<1> DEFINE used == {fetch, load} \cup ComponentIds(m.instr) \cup ComponentIds(m.data)
<1>1. ComponentOK(m.instr) /\ ComponentOK(m.data)
  BY DEF TopologyOK
<1>2. PICK a, b : ComponentIds(m.instr) \subseteq {m.instr.finished, a, b}
  BY <1>1, PortIdsAre
<1>3. PICK c, d : ComponentIds(m.data) \subseteq {m.data.finished, c, d}
  BY <1>1, PortIdsAre
<1>4. used \subseteq {fetch, load, m.instr.finished, a, b, m.data.finished, c, d}
  BY <1>2, <1>3
<1> HIDE DEF used
<1>5. FreeId(used) \in Ids \ used
  <2>1. PICK x, y, i, j, u : /\ x = fetch /\ y = load /\ u = used
                             /\ i = m.instr.finished /\ j = m.data.finished
    OBVIOUS
  <2>2. u \subseteq {x, y, i, a, b, j, c, d}
    BY <1>4, <2>1
  <2>3. ASSUME NEW v, v \subseteq {x, y, i, a, b, j, c, d}
        PROVE  FreeId(v) \in Ids \ v
    BY <2>3, FreeIdIsFree
  <2>4. FreeId(u) \in Ids \ u
    BY <2>2, <2>3
  <2>5. QED
    BY <2>1, <2>4
<1>6. NewId(m, {fetch, load}) = FreeId(used)
  BY DEF NewId, used
<1>7. used = {fetch, load}
                \cup ({m.instr.finished} \cup WaitingIds(m.instr) \cup OngoingIds(m.instr))
                \cup ({m.data.finished} \cup WaitingIds(m.data) \cup OngoingIds(m.data))
  BY <1>1, PortIdsAre DEF used
<1>8. QED
  BY <1>5, <1>6, <1>7

(* A data access is handed to the idle data port.                          *)
IdleData(k) ==
    /\ Whole(k) /\ FetchUnmissed(k) /\ DataUnmissed(k)
    /\ k.data.waiting = <<>> /\ k.data.ongoing = <<>> /\ k.data.finished = NoId

(* What the data side of the pipeline leaves, which now awaits id.         *)
StageKeeps(k, n, id) ==
    /\ Whole(n) /\ FetchUnmissed(n) /\ DataUnmissed(n)
    /\ OnlyPlace(n.data, id) /\ n.data.finished = NoId
    /\ n.data.done = k.data.done /\ n.instr = k.instr

LEMMA PortAccessOK ==
    ASSUME NEW k, IdleData(k), NEW id \in Ids, NEW type \in AccessType
    PROVE  StageKeeps(k, PortAccess(k, id, type), id) /\ PortAccess(k, id, type).data.ongoing = <<>>
<1> DEFINE a == [id |-> id, type |-> type]
           c == [k.data EXCEPT !.waiting = <<a>>]
           n == [k EXCEPT !.data.waiting = <<a>>]
<1>1. PortAccess(k, id, type) = n
  BY DEF PortAccess, IdleData
<1>2. k \in Topologies /\ k.data \in MemoryComponent
  BY PartsOfTopology DEF IdleData, Whole, TopologyOK
<1>3. a \in Accesses /\ a.id = id
  BY DEF Accesses
<1> HIDE DEF a
<1>4. <<a>> \in Seq(Accesses) /\ Len(<<a>>) = 1 /\ Range(<<a>>) = {a}
  BY <1>3, ListOfOne
<1>5. c \in MemoryComponent
  BY <1>2, <1>4, WaitingType
<1>6. /\ c.waiting = <<a>> /\ c.ongoing = <<>> /\ c.finished = NoId /\ c.done = k.data.done
  BY <1>2 DEF MemoryComponent, IdleData
<1>7. /\ n \in Topologies /\ n.data = c /\ n.instr = k.instr /\ n.memory = k.memory
      /\ n.rejected = k.rejected
  BY <1>2, <1>5 DEF Topologies
<1> HIDE DEF n, c
<1>8. Range(c.ongoing) = {} /\ Len(c.ongoing) = 0 /\ WaitingIds(c) = {id} /\ OngoingIds(c) = {}
  <2>1. Range(c.ongoing) = {} /\ Len(c.ongoing) = 0
    BY <1>6, EmptyList
  <2>2. QED
    BY <1>3, <1>4, <1>6, <2>1 DEF WaitingIds, OngoingIds
<1>9. TopologyOK(n)
  <2>1. ComponentOK(c)
    BY <1>4, <1>5, <1>6, <1>8 DEF ComponentOK
  <2>2. QED
    BY <1>7, <2>1 DEF IdleData, Whole, TopologyOK
<1>10. FetchSide(n) /\ FetchUnmissed(n)
  BY <1>7, FetchSideSame DEF IdleData, Whole
<1>11. DataSide(n)
  <2>1. DataAnswers(n)
    BY <1>6, <1>7 DEF IdleData, Whole, DataSide, DataAnswers
  <2>2. QED
    BY <1>6, <1>7, <1>8, <2>1 DEF IdleData, Whole, DataSide
<1>12. Apart(n) /\ DataUnmissed(n)
  BY <1>7, <1>8 DEF Apart, DataUnmissed
<1>13. OnlyPlace(n.data, id)
  BY <1>6, <1>7, <1>8 DEF OnlyPlace
<1>14. QED
  BY <1>1, <1>6, <1>7, <1>9, <1>10, <1>11, <1>12, <1>13 DEF Whole, StageKeeps

(* The pipeline takes the answer of the data port.                         *)
LEMMA DataPolledOK ==
    ASSUME NEW m, Whole(m), FetchUnmissed(m), DataUnmissed(m),
           m.data.waiting = <<>>, m.data.ongoing = <<>>
    PROVE  LET n == [m EXCEPT !.data = Polled(@)]
           IN  IdleData(n) /\ n.data.done = m.data.done /\ n.instr = m.instr
<1> DEFINE c == Polled(m.data)
           n == [m EXCEPT !.data = Polled(@)]
<1>1. m \in Topologies /\ m.data \in MemoryComponent
  BY PartsOfTopology DEF Whole, TopologyOK
<1>2. /\ c \in MemoryComponent /\ c.waiting = <<>> /\ c.ongoing = <<>> /\ c.finished = NoId
      /\ c.done = m.data.done
  BY <1>1 DEF Polled, MemoryComponent
<1>3. /\ n \in Topologies /\ n.data = c /\ n.instr = m.instr /\ n.memory = m.memory
      /\ n.rejected = m.rejected
  BY <1>1, <1>2 DEF Topologies
<1> HIDE DEF n, c
<1>4. Range(c.ongoing) = {} /\ Len(c.ongoing) = 0 /\ Len(c.waiting) = 0
  BY <1>2, EmptyList
<1>5. TopologyOK(n)
  BY <1>2, <1>3, <1>4 DEF Whole, TopologyOK, ComponentOK
<1>6. FetchSide(n) /\ FetchUnmissed(n)
  BY <1>3, FetchSideSame DEF Whole
<1>7. DataSide(n)
  <2>1. DataAnswers(n)
    BY <1>2, <1>3 DEF Whole, DataSide, DataAnswers
  <2>2. QED
    BY <1>2, <1>3, <1>4, <2>1 DEF Whole, DataSide
<1>8. Apart(n) /\ DataUnmissed(n)
  BY <1>3, <1>4 DEF Apart, DataUnmissed
<1>9. QED
  BY <1>2, <1>3, <1>5, <1>6, <1>7, <1>8 DEF IdleData, Whole, n

(* The pipeline takes the answer of the instruction port.                  *)
LEMMA FetchPolledOK ==
    ASSUME NEW m, Whole(m), FetchUnmissed(m), DataUnmissed(m)
    PROVE  LET n == [m EXCEPT !.instr = Polled(@)]
           IN  /\ Whole(n) /\ FetchUnmissed(n) /\ DataUnmissed(n) /\ n.data = m.data
<1> DEFINE c == Polled(m.instr)
           n == [m EXCEPT !.instr = Polled(@)]
<1>1. m \in Topologies /\ m.instr \in MemoryComponent /\ ComponentOK(m.instr)
  BY PartsOfTopology DEF Whole, TopologyOK
<1>2. /\ c \in MemoryComponent /\ c.waiting = m.instr.waiting /\ c.ongoing = m.instr.ongoing
      /\ c.finished = NoId /\ c.done = m.instr.done
  BY <1>1 DEF Polled, MemoryComponent
<1>3. /\ n \in Topologies /\ n.instr = c /\ n.data = m.data /\ n.memory = m.memory
      /\ n.rejected = m.rejected
  BY <1>1, <1>2 DEF Topologies
<1> HIDE DEF n, c
<1>4. WaitingIds(c) = WaitingIds(m.instr) /\ OngoingIds(c) = OngoingIds(m.instr)
  BY <1>2 DEF WaitingIds, OngoingIds
<1>5. TopologyOK(n)
  BY <1>1, <1>2, <1>3 DEF Whole, TopologyOK, ComponentOK
<1>6. NoId \notin WaitingIds(c) \cup OngoingIds(c)
  BY <1>1, <1>4, PartsOfComponent DEF OngoingAccess, Accesses, Ids, NoId
<1>7. FetchSide(n) /\ FetchUnmissed(n)
  <2>1. Distinct(c)
    BY <1>2, <1>4, <1>6 DEF Whole, FetchSide, Distinct
  <2>2. QED
    BY <1>2, <1>3, <2>1 DEF Whole, FetchSide, FetchUnmissed
<1>8. DataSide(n)
  BY <1>3, DataSideSame DEF Whole
<1>9. Apart(n) /\ DataUnmissed(n)
  BY <1>2, <1>3 DEF Whole, Apart, DataUnmissed
<1>10. QED
  BY <1>3, <1>5, <1>7, <1>8, <1>9 DEF Whole, n

(* A fetch takes the place of one that waits.                              *)
LEMMA FetchFromOK ==
    ASSUME NEW m, Whole(m), FetchUnmissed(m), DataUnmissed(m), NEW left
    PROVE  LET f == FetchFrom(m, left)
           IN  /\ Whole(f.mem) /\ FetchUnmissed(f.mem) /\ DataUnmissed(f.mem)
               /\ f.mem.data = m.data /\ f.fetch \in Ids /\ f.work = left
               /\ f.fetch # fetch /\ f.fetch # load /\ InPort(f.mem.instr, f.fetch)
<1> DEFINE id == NewId(m, {fetch, load})
           a == [id |-> id, type |-> "LOAD"]
           c == [m.instr EXCEPT !.waiting = <<a>>]
           n == [m EXCEPT !.instr.waiting = <<a>>]
<1>1. m \in Topologies /\ m.instr \in MemoryComponent /\ ComponentOK(m.instr) /\ TopologyOK(m)
  BY PartsOfTopology DEF Whole, TopologyOK
<1>2. /\ id \in Ids /\ id # fetch /\ id # load
      /\ id \notin OngoingIds(m.instr) /\ id # m.instr.finished
  BY <1>1, NewIdIsNew
<1>3. /\ FetchFrom(m, left).mem = n /\ FetchFrom(m, left).fetch = id
      /\ FetchFrom(m, left).work = left
  BY DEF FetchFrom
<1> HIDE DEF id
<1>4. a \in Accesses /\ a.id = id
  BY <1>2 DEF Accesses, AccessType
<1> HIDE DEF a
<1>5. <<a>> \in Seq(Accesses) /\ Len(<<a>>) = 1 /\ Range(<<a>>) = {a}
  BY <1>4, ListOfOne
<1>6. c \in MemoryComponent
  BY <1>1, <1>5, WaitingType
<1>7. /\ c.waiting = <<a>> /\ c.ongoing = m.instr.ongoing /\ c.finished = m.instr.finished
      /\ c.done = m.instr.done
  BY <1>1 DEF MemoryComponent
<1>8. /\ n \in Topologies /\ n.instr = c /\ n.data = m.data /\ n.memory = m.memory
      /\ n.rejected = m.rejected
  BY <1>1, <1>6 DEF Topologies
<1> HIDE DEF n, c
<1>9. WaitingIds(c) = {id} /\ OngoingIds(c) = OngoingIds(m.instr)
  BY <1>4, <1>5, <1>7 DEF WaitingIds, OngoingIds
<1>10. TopologyOK(n)
  <2>1. ComponentOK(c)
    BY <1>1, <1>5, <1>6, <1>7 DEF ComponentOK
  <2>2. QED
    BY <1>1, <1>8, <2>1 DEF TopologyOK
<1>11. FetchSide(n) /\ FetchUnmissed(n)
  <2>1. Distinct(c)
    BY <1>2, <1>7, <1>9 DEF Whole, FetchSide, Distinct
  <2>2. QED
    BY <1>7, <1>8, <2>1 DEF Whole, FetchSide, FetchUnmissed
<1>12. DataSide(n)
  BY <1>8, DataSideSame DEF Whole
<1>13. Apart(n) /\ DataUnmissed(n) /\ InPort(n.instr, id)
  BY <1>7, <1>8, <1>9 DEF Whole, Apart, DataUnmissed, InPort
<1>14. QED
  BY <1>2, <1>3, <1>8, <1>10, <1>11, <1>12, <1>13 DEF Whole

-----------------------------------------------------------------------------
(* A port from which nothing is awaited serves nothing.                    *)
LEMMA NothingOngoing ==
    ASSUME NEW c, ComponentOK(c), OnlyPlace(c, NoId)
    PROVE  c.ongoing = <<>>
<1>1. OngoingIds(c) \subseteq {NoId}
  BY DEF OnlyPlace
<1>2. ASSUME c.ongoing # <<>>
      PROVE  FALSE
  <2> DEFINE o == c.ongoing[1]
  <2>1. o \in OngoingAccess /\ OngoingIds(c) = {o.access.id}
    BY <1>2, PartsOfComponent
  <2>2. o.access.id \in Ids
    BY <2>1 DEF OngoingAccess, Accesses
  <2> HIDE DEF o
  <2>3. QED
    BY <1>1, <2>1, <2>2 DEF Ids, NoId
<1>3. QED
  BY <1>2

(* The pipeline after a cycle n of the topology: what its memory stage     *)
(* leaves, and what its fetch stage makes of that.                         *)
DataStage(n, d) ==
    /\ StageKeeps(n, d.mem, d.load)
    /\ d.load \in Ids \cup {NoId} /\ d.more \in 0 .. MaxAccesses - 1 /\ d.left \in 0 .. work
    /\ \/ load # NoId /\ d.load = load /\ d.mem.data = n.data
       \/ ~(load # NoId /\ d.load = load) /\ d.mem.data.ongoing = <<>>

LEMMA IssueOK ==
    ASSUME NEW n, NEW k, IdleData(k), k.instr = n.instr, k.data.done = n.data.done,
           NEW type \in AccessType, NEW rest \in 0 .. MaxAccesses - 1, NEW left \in 0 .. work
    PROVE  DataStage(n, Issue(k, type, rest, left))
<1> DEFINE id == NewId(k, {fetch, load})
           d == Issue(k, type, rest, left)
<1>1. id \in Ids /\ id # load
  BY NewIdIsNew DEF IdleData, Whole
<1>2. /\ d.mem = PortAccess(k, id, type) /\ d.load = id /\ d.more = rest /\ d.left = left
  BY DEF Issue
<1> HIDE DEF id, d
<1>3. /\ StageKeeps(k, PortAccess(k, id, type), id)
      /\ PortAccess(k, id, type).data.ongoing = <<>>
  BY <1>1, PortAccessOK
<1>4. StageKeeps(n, d.mem, d.load)
  BY <1>2, <1>3 DEF StageKeeps
<1>5. DataStage(n, d)
  BY <1>1, <1>2, <1>3, <1>4 DEF DataStage
<1>6. QED
  BY <1>5 DEF d

LEMMA MemoryStageOK ==
    ASSUME IInv, NEW n, AfterCycle(n), NEW d \in MemoryStage(n)
    PROVE  DataStage(n, d)
<1> DEFINE p == [n EXCEPT !.data = Polled(@)]
           free(k, left) == [mem |-> k, load |-> NoId, more |-> 0, left |-> left,
                             free |-> LoadDone(n) \/ left < work]
           advance(k) ==
               {free(k, left) : left \in {work, work - 1} \cap Nat}
               \cup {Issue(k, type, rest, work - 1) :
                       type \in {t \in {"LOAD", "STORE"} : work > 0},
                       rest \in 0 .. MaxAccesses - 1}
<1>1. /\ work \in 0 .. MaxWork /\ MaxWork \in Nat \ {0} /\ MaxAccesses \in Nat \ {0}
      /\ more \in 0 .. MaxAccesses - 1 /\ load \in Ids \cup {NoId}
  BY TopologyAssumption DEF IInv, PipelineOK
<1>2. /\ Whole(n) /\ FetchUnmissed(n) /\ DataUnmissed(n) /\ n.data.waiting = <<>>
      /\ OnlyPlace(n.data, load) /\ ComponentOK(n.data)
  BY DEF AfterCycle, Whole, TopologyOK
<1>3. ASSUME NEW k, IdleData(k), k.instr = n.instr, k.data.done = n.data.done,
             d \in advance(k), load = NoId \/ n.data.finished = load
      PROVE  DataStage(n, d)
  <2>1. CASE d \in {Issue(k, type, rest, work - 1) :
                       type \in {t \in {"LOAD", "STORE"} : work > 0},
                       rest \in 0 .. MaxAccesses - 1}
    <3>1. PICK type \in {t \in {"LOAD", "STORE"} : work > 0}, rest \in 0 .. MaxAccesses - 1 :
             d = Issue(k, type, rest, work - 1)
      BY <2>1
    <3>2. type \in AccessType /\ work - 1 \in 0 .. work
      BY <1>1, <3>1 DEF AccessType
    <3>3. DataStage(n, Issue(k, type, rest, work - 1))
      BY <1>3, <3>2, IssueOK
    <3>4. QED
      BY <3>1, <3>3
  <2>2. CASE d \in {free(k, left) : left \in {work, work - 1} \cap Nat}
    <3>1. PICK left \in {work, work - 1} \cap Nat : d = free(k, left)
      BY <2>2
    <3>2. d.mem = k /\ d.load = NoId /\ d.more = 0 /\ d.left = left
      BY <3>1
    <3>3. left \in 0 .. work /\ 0 \in 0 .. MaxAccesses - 1
      BY <1>1, <3>1
    <3>4. OnlyPlace(k.data, NoId)
      <4>1. Range(k.data.waiting) = {} /\ Range(k.data.ongoing) = {}
        BY <1>3, EmptyList DEF IdleData
      <4>2. QED
        BY <1>3, <4>1 DEF IdleData, OnlyPlace, WaitingIds, OngoingIds
    <3> HIDE DEF free
    <3>5. StageKeeps(n, d.mem, d.load)
      BY <1>3, <3>2, <3>4 DEF IdleData, StageKeeps
    <3>6. QED
      BY <1>3, <3>2, <3>3, <3>5 DEF DataStage, IdleData
  <2>3. QED
    BY <1>3, <2>1, <2>2
<1>4. \/ load = NoId /\ d \in advance(n)
      \/ /\ load # NoId /\ ~LoadDone(n)
         /\ d = [mem |-> n, load |-> load, more |-> more, left |-> work, free |-> FALSE]
      \/ /\ LoadDone(n) /\ more > 0
         /\ d = Issue(p, n.data.done[1].access.type, more - 1, work)
      \/ LoadDone(n) /\ d \in advance(p)
  BY DEF MemoryStage, LoadDone
<1> HIDE DEF advance, free
<1>5. CASE load = NoId /\ d \in advance(n)
  <2>1. n.data.ongoing = <<>>
    BY <1>2, <1>5, NothingOngoing
  <2>2. n.data.finished = NoId
    BY <1>2, <1>5 DEF OnlyPlace
  <2>3. IdleData(n)
    BY <1>2, <2>1, <2>2 DEF IdleData
  <2>4. QED
    BY <1>3, <1>5, <2>3
<1>6. CASE /\ load # NoId /\ ~LoadDone(n)
           /\ d = [mem |-> n, load |-> load, more |-> more, left |-> work, free |-> FALSE]
  <2>1. n.data.finished = NoId
    BY <1>2, <1>6 DEF OnlyPlace, LoadDone
  <2>2. d.mem = n /\ d.load = load /\ d.more = more /\ d.left = work
    BY <1>6
  <2>3. StageKeeps(n, d.mem, d.load)
    BY <1>2, <2>1, <2>2 DEF StageKeeps
  <2>4. QED
    BY <1>1, <1>6, <2>2, <2>3 DEF DataStage
<1>7. ASSUME LoadDone(n)
      PROVE  /\ IdleData(p) /\ p.data.done = n.data.done /\ p.instr = n.instr
             /\ n.data.finished = load /\ n.data.done # <<>>
  <2>1. n.data.finished = load /\ load # NoId
    BY <1>7 DEF LoadDone
  <2>2. n.data.ongoing = <<>>
    BY <1>2, <2>1 DEF OnlyPlace
  <2>3. n.data.done # <<>>
    BY <1>2, <2>1 DEF Whole, DataSide, DataAnswers
  <2>4. QED
    BY <1>2, <2>1, <2>2, <2>3, DataPolledOK
<1> HIDE DEF p
<1>8. CASE /\ LoadDone(n) /\ more > 0
           /\ d = Issue(p, n.data.done[1].access.type, more - 1, work)
  <2> DEFINE type == n.data.done[1].access.type
  <2>1. type \in AccessType
    <3>1. n.data.done \in Seq(OngoingAccess) /\ n.data.done # <<>>
      BY <1>2, <1>7, <1>8 DEF ComponentOK, MemoryComponent
    <3>2. n.data.done[1] \in OngoingAccess
      <4> DEFINE q == n.data.done
      <4>1. q \in Seq(OngoingAccess) /\ q # <<>>
        BY <3>1
      <4> HIDE DEF q
      <4>2. Len(q) \in Nat /\ Len(q) # 0
        BY <4>1, EmptySeq
      <4>3. q[1] \in OngoingAccess
        BY <4>1, <4>2, ElementOfSeq
      <4>4. QED
        BY <4>3 DEF q
    <3>3. QED
      BY <3>2 DEF OngoingAccess, Accesses
  <2>2. more - 1 \in 0 .. MaxAccesses - 1 /\ work \in 0 .. work
    BY <1>1, <1>8
  <2>3. d = Issue(p, type, more - 1, work)
    BY <1>8
  <2> HIDE DEF type
  <2>4. DataStage(n, Issue(p, type, more - 1, work))
    BY <1>7, <1>8, <2>1, <2>2, IssueOK
  <2>5. QED
    BY <2>3, <2>4
<1>9. CASE LoadDone(n) /\ d \in advance(p)
  BY <1>3, <1>7, <1>9
<1>10. QED
  BY <1>4, <1>5, <1>6, <1>8, <1>9

(* What the fetch stage hands to the next cycle.                           *)
FetchedFrom(k, f) ==
    /\ Whole(f.mem) /\ FetchUnmissed(f.mem) /\ DataUnmissed(f.mem) /\ f.mem.data = k.data
    /\ f.fetch \in Ids \cup {NoId} /\ f.work \in 0 .. MaxWork
    /\ f.fetch # NoId => f.work < MaxWork
    /\ InPort(f.mem.instr, f.fetch)

LEMMA BranchFetches ==
    ASSUME NEW k, Whole(k), FetchUnmissed(k), DataUnmissed(k), NEW left \in 0 .. MaxWork - 1
    PROVE  FetchedFrom(k, FetchFrom(k, left))
<1> DEFINE f == FetchFrom(k, left)
<1>1. /\ Whole(f.mem) /\ FetchUnmissed(f.mem) /\ DataUnmissed(f.mem)
      /\ f.mem.data = k.data /\ f.fetch \in Ids /\ f.work = left
      /\ InPort(f.mem.instr, f.fetch)
  BY FetchFromOK
<1> HIDE DEF f
<1>2. MaxWork \in Nat \ {0}
  BY TopologyAssumption
<1>3. f.work \in 0 .. MaxWork /\ f.work < MaxWork
  BY <1>1, <1>2
<1>4. FetchedFrom(k, f)
  BY <1>1, <1>3 DEF FetchedFrom
<1>5. QED
  BY <1>4 DEF f

LEMMA FetchStageOK ==
    ASSUME IInv, NEW n, AfterCycle(n), NEW d, DataStage(n, d), NEW f \in FetchStage(d.mem, d.left)
    PROVE  FetchedFrom(d.mem, f)
<1> DEFINE m == d.mem
           p == [m EXCEPT !.instr = Polled(@)]
           k == IF FetchDone(m) THEN p ELSE m
           fetched == d.left + (IF FetchDone(m) THEN 1 ELSE 0)
           outstanding == fetch # NoId /\ ~FetchDone(m)
<1>1. /\ Whole(m) /\ FetchUnmissed(m) /\ DataUnmissed(m) /\ m.instr = n.instr
      /\ d.left \in 0 .. work
  BY DEF DataStage, StageKeeps
<1>2. /\ work \in 0 .. MaxWork /\ MaxWork \in Nat \ {0} /\ fetch \in Ids \cup {NoId}
      /\ fetch # NoId => work < MaxWork
  BY TopologyAssumption DEF IInv, PipelineOK
<1>3. /\ Whole(k) /\ FetchUnmissed(k) /\ DataUnmissed(k) /\ k.data = m.data
  <2>1. Whole(p) /\ FetchUnmissed(p) /\ DataUnmissed(p) /\ p.data = m.data
    BY <1>1, FetchPolledOK
  <2> HIDE DEF p
  <2>2. QED
    BY <1>1, <2>1
<1>4. /\ fetched \in 0 .. MaxWork
      /\ outstanding => k = m /\ fetched < MaxWork
  BY <1>1, <1>2 DEF FetchDone
<1>5. outstanding => InPort(m.instr, fetch)
  BY <1>1 DEF AfterCycle, InPort, FetchDone
<1>6. \/ f = [mem |-> k, fetch |-> IF outstanding THEN fetch ELSE NoId, work |-> fetched]
      \/ ~outstanding /\ fetched \in 1 .. MaxWork - 1 /\ f = FetchFrom(k, fetched)
  BY DEF FetchStage
<1> HIDE DEF k, fetched, p, outstanding
<1>7. CASE f = [mem |-> k, fetch |-> IF outstanding THEN fetch ELSE NoId, work |-> fetched]
  <2>1. f.mem = k /\ f.work = fetched /\ f.fetch = IF outstanding THEN fetch ELSE NoId
    BY <1>7
  <2>2. InPort(k.instr, f.fetch)
    BY <1>4, <1>5, <2>1 DEF InPort
  <2>3. f.fetch # NoId => fetched < MaxWork
    BY <1>4, <2>1
  <2>4. QED
    BY <1>2, <1>3, <1>4, <2>1, <2>2, <2>3 DEF FetchedFrom
<1>8. CASE ~outstanding /\ fetched \in 1 .. MaxWork - 1 /\ f = FetchFrom(k, fetched)
  <2>1. fetched \in 0 .. MaxWork - 1
    BY <1>2, <1>8
  <2>2. FetchedFrom(k, f)
    BY <1>3, <1>8, <2>1, BranchFetches
  <2>3. QED
    BY <1>3, <2>2 DEF FetchedFrom
<1>9. QED
  BY <1>6, <1>7, <1>8

(* Fast-forwarding leaves which accesses there are.                        *)
LEMMA FastForwardIs ==
    ASSUME NEW mm, MemoryOK(mm)
    PROVE  MemoryOK(FastForward(mm)) /\ SameIds(mm, FastForward(mm))
<1>1. MaxBlockingPerAccess \in 0 .. MaxBlockingPerAccess
  BY SingleMemoryAssumption
<1>2. FastForward(mm) \in MemoryStates /\ SameIds(mm, FastForward(mm))
  BY <1>1 DEF MemoryOK, MemoryStates, FastForward, SameIds
<1>3. QED
  BY <1>2 DEF MemoryOK, IdsApart, SameIds

LEMMA FastForwardedOK ==
    ASSUME NEW k, Whole(k), FetchUnmissed(k), DataUnmissed(k)
    PROVE  LET n == [k EXCEPT !.memory = FastForward(@)]
           IN  /\ Whole(n) /\ FetchUnmissed(n) /\ DataUnmissed(n)
               /\ n.data = k.data /\ n.instr = k.instr
<1> DEFINE n == [k EXCEPT !.memory = FastForward(@)]
           mm == FastForward(k.memory)
<1>1. k \in Topologies /\ MemoryOK(k.memory)
  BY DEF Whole, TopologyOK
<1>2. MemoryOK(mm) /\ SameIds(k.memory, mm)
  BY <1>1, FastForwardIs
<1> HIDE DEF mm
<1>3. /\ n \in Topologies /\ n.memory = mm /\ n.data = k.data /\ n.instr = k.instr
      /\ n.rejected = k.rejected
  BY <1>1, <1>2 DEF Topologies, MemoryOK, mm
<1> HIDE DEF n
<1>4. TopologyOK(n)
  BY <1>2, <1>3 DEF Whole, TopologyOK
<1>5. FetchSide(n) /\ FetchUnmissed(n)
  BY <1>2, <1>3, FetchSideSame DEF Whole, SameIds
<1>6. DataSide(n)
  BY <1>2, <1>3, DataSideSame DEF Whole, SameIds
<1>7. Apart(n) /\ DataUnmissed(n)
  BY <1>2, <1>3 DEF Whole, Apart, DataUnmissed, SameIds
<1>8. QED
  BY <1>3, <1>4, <1>5, <1>6, <1>7 DEF Whole, n

LEMMA SkipIs ==
    ASSUME NEW mm \in MemoryStates
    PROVE  SkippedCycles(mm).lo \in Nat /\ SkippedCycles(mm).hi \in Nat
BY SingleMemoryAssumption DEF MemoryStates, SkippedCycles

LEMMA TimeAfterIs ==
    ASSUME NEW t \in Times, NEW skip, skip.lo \in Nat, skip.hi \in Nat,
           NEW out \in BOOLEAN, NEW done \in BOOLEAN
    PROVE  /\ TimeAfter(t, out, done, skip) \in Times
           /\ ~out => TimeAfter(t, out, done, skip).lo = 0 /\ TimeAfter(t, out, done, skip).hi = 0
           /\ out => /\ TimeAfter(t, out, done, skip).lo = t.lo + 1 + skip.lo
                     /\ TimeAfter(t, out, done, skip).hi = t.hi + 1 + skip.hi
BY DEF TimeAfter, Times

-----------------------------------------------------------------------------
(* The end of a step: time passes, and with it the clock of a load.        *)

(* What the policy is asked for is asked of the same policy.               *)
LEMMA SamePolicy ==
    ASSUME policy' = policy, NEW k, mem' = k, NEW t, loadTime' = t,
           Whole(k), FetchUnmissed(k), DataUnmissed(k), Clock(k, t)
    PROVE  /\ Whole(mem)' /\ FetchUnmissed(mem)' /\ DataUnmissed(mem)'
           /\ Clock(mem, loadTime)'
<1>1. FetchUnmissed(mem)'
  BY DEF FetchUnmissed
<1>2. DataUnmissed(mem)'
  BY DEF DataUnmissed, Awaits
<1>3. Clock(mem, loadTime)'
  BY DEF Clock, IsTimedLoad, HitClock
<1>4. TopologyOK(mem)' /\ FetchSide(mem)' /\ Apart(mem)'
  BY DEF Whole, TopologyOK, FetchSide, Apart
<1>5. DataSide(mem)'
  <2>1. DataAnswers(mem)'
    BY DEF Whole, DataSide, DataAnswers, IsPlainLoad
  <2>2. \A o \in Range(k.data.ongoing) : DataAccessOK(o, mem)'
    BY DEF Whole, DataSide, DataAccessOK, DataPhase, IsPlainLoad, Awaits, OwnsQueue
  <2>3. QED
    BY <2>1, <2>2 DEF Whole, DataSide
<1>6. QED
  BY <1>1, <1>2, <1>3, <1>4, <1>5 DEF Whole

(* Where a load that is on its way stands after the step.                  *)
Timely(n, k) ==
    \/ load # NoId /\ load' = load /\ k.data = n.data
    \/ ~(load # NoId /\ load' = load) /\ k.data.ongoing = <<>>

(* What is left of a step when the pipeline has been through its stages:   *)
(* k is the topology then.                                                 *)
Ready(n, k) ==
    /\ Whole(k) /\ FetchUnmissed(k) /\ DataUnmissed(k)
    /\ k.data.finished = NoId /\ k.data.done = n.data.done
    /\ OnlyPlace(k.data, load') /\ InPort(k.instr, fetch')
    /\ Timely(n, k)

(* The action property, of the step: what is answered is answered in time. *)
AnswersInTime ==
    \A o \in Range(mem'.data.done) : IsTimedLoad(o) => OnTime(o, loadTime)

(* A load that hits a cache is not fast-forwarded over.                    *)
LEMMA NoHitIsSkipped ==
    ASSUME NEW k, Whole(k), FastForwards(k), NEW o \in Range(k.data.ongoing), NEW t, HitClock(o, t)
    PROVE  \A u : HitClock(o, u)
<1>1. k.data.ongoing # <<>>
  BY EmptyList
<1>2. ComponentOK(k.data)
  BY DEF Whole, TopologyOK
<1>3. o = k.data.ongoing[1]
  BY <1>1, <1>2, PartsOfComponent
<1>4. o.phase # "WaitForCACHE"
  BY <1>1, <1>3 DEF FastForwards, AllowsFastForward, IsBusyPort, IsOngoing
<1>5. o.cl # "HIT" /\ o.cl # "L2HIT"
  BY <1>4 DEF HitClock
<1>6. QED
  BY <1>5 DEF HitClock

LEMMA ClockGoesOn ==
    ASSUME NEW n, AfterCycle(n), loadTime \in Times, NEW k, Ready(n, k),
           NEW skip, skip.lo \in Nat, skip.hi \in Nat,
           (skip.lo = 0 /\ skip.hi = 0) \/ FastForwards(k),
           NEW done \in BOOLEAN, NEW t,
           t = TimeAfter(loadTime, load # NoId /\ load' = load, done, skip)
    PROVE  t \in Times /\ Clock(k, t)
<1>1. PICK out \in BOOLEAN, s \in Times :
         (out <=> (load # NoId /\ load' = load)) /\ s = loadTime
  OBVIOUS
<1>2. t = TimeAfter(s, out, done, skip)
  BY <1>1
<1>3. /\ t \in Times
      /\ ~out => t.lo = 0 /\ t.hi = 0
      /\ out => t.lo = s.lo + 1 + skip.lo /\ t.hi = s.hi + 1 + skip.hi
  BY <1>2, TimeAfterIs
<1>4. CASE ~out
  <2>1. k.data.ongoing = <<>>
    BY <1>1, <1>4 DEF Ready, Timely
  <2>2. Range(k.data.ongoing) = {}
    BY <2>1, EmptyList
  <2>3. QED
    BY <1>3, <1>4, <2>2 DEF Clock
<1>5. CASE out
  <2>1. k.data = n.data
    BY <1>1, <1>5 DEF Ready, Timely
  <2>2. k.data.waiting = <<>>
    BY <2>1 DEF AfterCycle
  <2>3. ASSUME NEW o \in Range(k.data.ongoing), IsTimedLoad(o)
        PROVE  HitClock(o, t)
    <3>1. HitClock(o, Later(s))
      BY <1>1, <2>1, <2>3 DEF AfterCycle, ClockAfter
    <3>2. CASE FastForwards(k)
      BY <2>3, <3>1, <3>2, NoHitIsSkipped DEF Ready
    <3>3. CASE skip.lo = 0 /\ skip.hi = 0
      <4>1. s.lo \in Nat /\ s.hi \in Nat
        BY DEF Times
      <4>2. t.lo = Later(s).lo /\ t.hi = Later(s).hi
        BY <1>3, <1>5, <3>3, <4>1 DEF Later
      <4>3. QED
        BY <3>1, <4>2 DEF HitClock
    <3>4. QED
      BY <3>2, <3>3
  <2>4. QED
    BY <1>3, <2>2, <2>3 DEF Clock
<1>6. QED
  BY <1>4, <1>5

(* What a step without fast-forwarding makes of the history variables.     *)
LEMMA StepOK ==
    ASSUME IInv, NEW n, AfterCycle(n), NEW k, Ready(n, k), policy' = policy,
           fetch' \in Ids \cup {NoId}, load' \in Ids \cup {NoId},
           more' \in 0 .. MaxAccesses - 1, work' \in 0 .. MaxWork,
           fetch' # NoId => work' < MaxWork,
           \E ld, fd \in BOOLEAN : Converged(k, ld, fd)
    PROVE  IInv' /\ AnswersInTime
<1>1. PICK ld \in BOOLEAN, fd \in BOOLEAN : Converged(k, ld, fd)
  OBVIOUS
<1>2. \E c, skip : /\ Advance(c, ld, fd, skip) /\ skip.lo \in Nat /\ skip.hi \in Nat
                   /\ \/ c = k /\ skip.lo = 0 /\ skip.hi = 0
                      \/ c = [k EXCEPT !.memory = FastForward(@)] /\ FastForwards(k)
  <2>1. CASE Advance(k, ld, fd, NoSkip)
    <3>1. NoSkip.lo = 0 /\ NoSkip.hi = 0
      BY DEF NoSkip
    <3>2. QED
      BY <2>1, <3>1
  <2>2. CASE /\ FastForwards(k)
             /\ Advance([k EXCEPT !.memory = FastForward(@)], ld, fd, SkippedCycles(k.memory))
    <3>1. k.memory \in MemoryStates
      BY PartsOfTopology DEF Ready, Whole
    <3>2. SkippedCycles(k.memory).lo \in Nat /\ SkippedCycles(k.memory).hi \in Nat
      BY <3>1, SkipIs
    <3>3. QED
      BY <2>2, <3>2
  <2>3. QED
    BY <1>1, <2>1, <2>2 DEF Converged
<1>3. PICK c, skip : /\ Advance(c, ld, fd, skip) /\ skip.lo \in Nat /\ skip.hi \in Nat
                     /\ \/ c = k /\ skip.lo = 0 /\ skip.hi = 0
                        \/ c = [k EXCEPT !.memory = FastForward(@)] /\ FastForwards(k)
  BY <1>2
<1>4. /\ Whole(c) /\ FetchUnmissed(c) /\ DataUnmissed(c)
      /\ c.data = k.data /\ c.instr = k.instr
  BY <1>3, FastForwardedOK DEF Ready
<1>5. PICK t, f : t = loadTime' /\ f = fetchTime'
  OBVIOUS
<1>6. /\ mem' = c
      /\ f = TimeAfter(fetchTime, fetch # NoId /\ fetch' = fetch, fd, skip)
      /\ t = TimeAfter(loadTime, load # NoId /\ load' = load, ld, skip)
  BY <1>3, <1>5 DEF Advance
<1>7. loadTime \in Times /\ fetchTime \in Times
  BY DEF IInv, PipelineOK
<1>8. t \in Times /\ Clock(k, t)
  BY <1>3, <1>6, <1>7, ClockGoesOn
<1>9. f \in Times
  <2>1. PICK out \in BOOLEAN, s \in Times :
           (out <=> (fetch # NoId /\ fetch' = fetch)) /\ s = fetchTime
    BY <1>7
  <2>2. f = TimeAfter(s, out, fd, skip)
    BY <1>6, <2>1
  <2>3. QED
    BY <1>3, <2>2, TimeAfterIs
<1>10. Clock(c, t)
  BY <1>4, <1>8 DEF Clock
<1>11. /\ Whole(mem)' /\ FetchUnmissed(mem)' /\ DataUnmissed(mem)' /\ Clock(mem, loadTime)'
  BY <1>4, <1>5, <1>6, <1>10, SamePolicy
<1>12. PipelineOK'
  BY <1>5, <1>8, <1>9 DEF PipelineOK
<1>13. IInv'
  BY <1>4, <1>6, <1>11, <1>12 DEF IInv, Ready
<1>14. AnswersInTime
  BY <1>4, <1>6 DEF AnswersInTime, AfterCycle, ClockAfter, Ready
<1>15. QED
  BY <1>13, <1>14

-----------------------------------------------------------------------------
(* The invariant holds at first, and every action keeps it.                *)

LEMMA InitIInv == Init => IInv
<1> SUFFICES ASSUME Init PROVE IInv
  OBVIOUS
<1> DEFINE a == [id |-> 1, type |-> "LOAD"]
           i == [IdleComponent EXCEPT !.waiting = <<a>>]
           d == IdleComponent
           z == [answered |-> FALSE, lo |-> 0, hi |-> 0]
<1>1. a \in Accesses /\ a.id = 1 /\ 1 \in Ids
  BY SingleMemoryAssumption DEF Accesses, AccessType, Ids
<1> HIDE DEF a
<1>2. /\ <<a>> \in Seq(Accesses) /\ Len(<<a>>) = 1 /\ Range(<<a>>) = {a} /\ <<a>> # <<>>
      /\ <<>> \in Seq(Accesses) /\ <<>> \in Seq(OngoingAccess) /\ Len(<<>>) = 0
      /\ Range(<<>>) = {}
  BY <1>1, ListOfOne, EmptyList
<1>3. /\ i \in MemoryComponent /\ i.waiting = <<a>> /\ i.ongoing = <<>> /\ i.finished = NoId
      /\ i.done = <<>>
  BY <1>2 DEF IdleComponent, MemoryComponent
<1>4. /\ d \in MemoryComponent /\ d.waiting = <<>> /\ d.ongoing = <<>> /\ d.finished = NoId
      /\ d.done = <<>>
  BY <1>2 DEF IdleComponent, MemoryComponent
<1>5. /\ IdleMemory \in MemoryStates /\ IdleMemory.instrQueue = <<>>
      /\ IdleMemory.dataQueue = <<>>
  <2>1. 0 \in 0 .. MaxBlockingPerAccess
    BY SingleMemoryAssumption
  <2>2. QED
    BY <1>2, <2>1 DEF IdleMemory, MemoryStates
<1>6. MemoryOK(IdleMemory)
  <2>1. QueueIds(IdleMemory.instrQueue) = {} /\ QueueIds(IdleMemory.dataQueue) = {}
    BY <1>5, IdsOfList
  <2>2. IdleMemory.current = NoId
    BY DEF IdleMemory
  <2>3. QED
    BY <1>2, <1>5, <2>1, <2>2 DEF MemoryOK, IdsApart
<1>7. /\ mem = [instr |-> i, data |-> d, memory |-> IdleMemory, events |-> FALSE,
                rejected |-> FALSE]
      /\ fetch = 1 /\ load = NoId /\ more = 0 /\ work = 0 /\ fetchTime = z /\ loadTime = z
      /\ policy \in Policies
  BY DEF Init, a
<1> HIDE DEF i, d
<1>8. /\ mem \in Topologies /\ mem.instr = i /\ mem.data = d /\ mem.memory = IdleMemory
      /\ mem.rejected = FALSE
  BY <1>3, <1>4, <1>5, <1>7 DEF Topologies
<1>9. z \in Times /\ z.lo = 0 /\ z.hi = 0
  BY DEF Times
<1> HIDE DEF z
<1>10. TopologyOK(mem)
  <2>1. Len(i.waiting) = 1 /\ Len(i.ongoing) = 0
    BY <1>2, <1>3
  <2>2. Len(d.waiting) = 0 /\ Len(d.ongoing) = 0
    BY <1>2, <1>4
  <2>3. i \in MemoryComponent /\ d \in MemoryComponent
    BY <1>3, <1>4
  <2>4. ComponentOK(i) /\ ComponentOK(d)
    BY <2>1, <2>2, <2>3 DEF ComponentOK
  <2>5. ComponentOK(mem.instr) /\ ComponentOK(mem.data)
    BY <1>8, <2>4
  <2>6. MemoryOK(mem.memory)
    BY <1>6, <1>8
  <2>7. QED
    BY <1>8, <2>5, <2>6 DEF TopologyOK
<1>11. WaitingIds(i) = {1} /\ OngoingIds(i) = {} /\ WaitingIds(d) = {} /\ OngoingIds(d) = {}
  BY <1>1, <1>2, <1>3, <1>4 DEF WaitingIds, OngoingIds
<1>12. FetchSide(mem) /\ FetchUnmissed(mem)
  <2>1. Distinct(i)
    BY <1>3, <1>11 DEF Distinct, NoId
  <2>2. QED
    BY <1>2, <1>3, <1>8, <2>1 DEF FetchSide, FetchUnmissed
<1>13. DataSide(mem) /\ Apart(mem) /\ DataUnmissed(mem)
  BY <1>2, <1>3, <1>4, <1>5, <1>8 DEF DataSide, DataAnswers, Apart, DataUnmissed
<1>14. Clock(mem, loadTime)
  BY <1>2, <1>4, <1>7, <1>8, <1>9 DEF Clock
<1>15. OnlyPlace(mem.data, load) /\ mem.data.finished = NoId /\ InPort(mem.instr, fetch)
  BY <1>4, <1>7, <1>8, <1>11 DEF OnlyPlace, InPort
<1>16. PipelineOK
  BY <1>1, <1>7, <1>9, TopologyAssumption DEF PipelineOK
<1>17. QED
  BY <1>7, <1>10, <1>12, <1>13, <1>14, <1>15, <1>16 DEF IInv, Whole

LEMMA StalledCycleOK == IInv /\ StalledCycle => IInv' /\ AnswersInTime
<1> SUFFICES ASSUME IInv, StalledCycle PROVE IInv' /\ AnswersInTime
  OBVIOUS
<1>1. PICK m \in Cycle(mem) :
         ShouldStall(m) /\ UNCHANGED pipeline /\ Converged(m, FALSE, FALSE)
  BY DEF StalledCycle
<1>2. policy' = policy /\ fetch' = fetch /\ load' = load /\ more' = more /\ work' = work
  BY <1>1 DEF StalledCycle, pipeline
<1>3. AfterCycle(m)
  BY CycleOK
<1>4. Timely(m, m)
  <2>1. CASE load = NoId
    <3>1. ComponentOK(m.data) /\ OnlyPlace(m.data, NoId)
      BY <1>3, <2>1 DEF AfterCycle, Whole, TopologyOK
    <3>2. m.data.ongoing = <<>>
      BY <3>1, NothingOngoing
    <3>3. QED
      BY <2>1, <3>2 DEF Timely
  <2>2. CASE load # NoId
    BY <1>2, <2>2 DEF Timely
  <2>3. QED
    BY <2>1, <2>2
<1>5. Ready(m, m)
  BY <1>1, <1>2, <1>3, <1>4 DEF AfterCycle, Ready
<1>6. /\ fetch \in Ids \cup {NoId} /\ load \in Ids \cup {NoId}
      /\ more \in 0 .. MaxAccesses - 1 /\ work \in 0 .. MaxWork
      /\ fetch # NoId => work < MaxWork
  BY DEF IInv, PipelineOK
<1>7. \E ld, fd \in BOOLEAN : Converged(m, ld, fd)
  BY <1>1
<1>8. QED
  BY <1>2, <1>3, <1>5, <1>6, <1>7, StepOK

LEMMA PipelineCycleOK == IInv /\ PipelineCycle => IInv' /\ AnswersInTime
<1> SUFFICES ASSUME IInv, PipelineCycle PROVE IInv' /\ AnswersInTime
  OBVIOUS
<1>1. PICK m \in Cycle(mem) :
         \E d \in MemoryStage(m) : \E f \in FetchStage(d.mem, d.left) :
            /\ load' = d.load /\ more' = d.more /\ fetch' = f.fetch /\ work' = f.work
            /\ Converged(f.mem, LoadDone(m), FetchDone(m))
  BY DEF PipelineCycle
<1>2. PICK d \in MemoryStage(m) : \E f \in FetchStage(d.mem, d.left) :
            /\ load' = d.load /\ more' = d.more /\ fetch' = f.fetch /\ work' = f.work
            /\ Converged(f.mem, LoadDone(m), FetchDone(m))
  BY <1>1
<1>3. PICK f \in FetchStage(d.mem, d.left) :
            /\ load' = d.load /\ more' = d.more /\ fetch' = f.fetch /\ work' = f.work
            /\ Converged(f.mem, LoadDone(m), FetchDone(m))
  BY <1>2
<1>4. AfterCycle(m) /\ policy' = policy
  BY CycleOK DEF PipelineCycle
<1>5. DataStage(m, d)
  BY <1>3, <1>4, MemoryStageOK
<1>6. FetchedFrom(d.mem, f)
  BY <1>3, <1>4, <1>5, FetchStageOK
<1>7. Ready(m, f.mem)
  BY <1>3, <1>5, <1>6 DEF DataStage, StageKeeps, FetchedFrom, Ready, Timely
<1>8. \E ld, fd \in BOOLEAN : Converged(f.mem, ld, fd)
  <2>1. LoadDone(m) \in BOOLEAN /\ FetchDone(m) \in BOOLEAN
    BY DEF LoadDone, FetchDone
  <2>2. QED
    BY <1>3, <2>1
<1>9. /\ fetch' \in Ids \cup {NoId} /\ load' \in Ids \cup {NoId}
      /\ more' \in 0 .. MaxAccesses - 1 /\ work' \in 0 .. MaxWork
      /\ fetch' # NoId => work' < MaxWork
  BY <1>3, <1>5, <1>6 DEF DataStage, FetchedFrom
<1>10. QED
  BY <1>4, <1>7, <1>8, <1>9, StepOK

LEMMA BranchCycleOK == IInv /\ BranchCycle => IInv' /\ AnswersInTime
<1> SUFFICES ASSUME IInv, BranchCycle PROVE IInv' /\ AnswersInTime
  OBVIOUS
<1>1. PICK m \in Cycle(mem) : \E d \in MemoryStage(m) :
         LET f == FetchFrom(d.mem, 0)
         IN  /\ load' = d.load /\ more' = d.more /\ fetch' = f.fetch /\ work' = f.work
             /\ Advance(f.mem, LoadDone(m), FALSE, NoSkip)
  BY DEF BranchCycle
<1>2. PICK d \in MemoryStage(m) :
         LET f == FetchFrom(d.mem, 0)
         IN  /\ load' = d.load /\ more' = d.more /\ fetch' = f.fetch /\ work' = f.work
             /\ Advance(f.mem, LoadDone(m), FALSE, NoSkip)
  BY <1>1
<1>3. PICK f : f = FetchFrom(d.mem, 0)
  OBVIOUS
<1>4. /\ load' = d.load /\ more' = d.more /\ fetch' = f.fetch /\ work' = f.work
      /\ Advance(f.mem, LoadDone(m), FALSE, NoSkip)
  BY <1>2, <1>3
<1>5. AfterCycle(m) /\ policy' = policy
  BY CycleOK DEF BranchCycle
<1>6. DataStage(m, d)
  BY <1>5, MemoryStageOK
<1>7. FetchedFrom(d.mem, f)
  <2>1. 0 \in 0 .. MaxWork - 1
    BY TopologyAssumption
  <2>2. Whole(d.mem) /\ FetchUnmissed(d.mem) /\ DataUnmissed(d.mem)
    BY <1>6 DEF DataStage, StageKeeps
  <2>3. FetchedFrom(d.mem, FetchFrom(d.mem, 0))
    BY <2>1, <2>2, BranchFetches
  <2>4. QED
    BY <1>3, <2>3
<1>8. Ready(m, f.mem)
  BY <1>4, <1>6, <1>7 DEF DataStage, StageKeeps, FetchedFrom, Ready, Timely
<1>9. \E ld, fd \in BOOLEAN : Converged(f.mem, ld, fd)
  <2>1. LoadDone(m) \in BOOLEAN
    BY DEF LoadDone
  <2>2. Converged(f.mem, LoadDone(m), FALSE)
    BY <1>4 DEF Converged
  <2>3. QED
    BY <2>1, <2>2
<1>10. /\ fetch' \in Ids \cup {NoId} /\ load' \in Ids \cup {NoId}
       /\ more' \in 0 .. MaxAccesses - 1 /\ work' \in 0 .. MaxWork
       /\ fetch' # NoId => work' < MaxWork
  BY <1>4, <1>6, <1>7 DEF DataStage, FetchedFrom
<1>11. QED
  BY <1>5, <1>8, <1>9, <1>10, StepOK

LEMMA NextIInv == IInv /\ Next => IInv' /\ AnswersInTime
BY StalledCycleOK, PipelineCycleOK, BranchCycleOK DEF Next

LEMMA StutterIInv == IInv /\ UNCHANGED vars => IInv'
<1> SUFFICES ASSUME IInv, UNCHANGED vars PROVE IInv'
  OBVIOUS
<1>1. /\ policy' = policy /\ mem' = mem /\ fetch' = fetch /\ load' = load /\ more' = more
      /\ work' = work /\ fetchTime' = fetchTime /\ loadTime' = loadTime
  BY DEF vars, pipeline
<1>2. PICK k, t : k = mem /\ t = loadTime
  OBVIOUS
<1>3. Whole(k) /\ FetchUnmissed(k) /\ DataUnmissed(k) /\ Clock(k, t)
  BY <1>2 DEF IInv
<1>4. Whole(mem)' /\ FetchUnmissed(mem)' /\ DataUnmissed(mem)' /\ Clock(mem, loadTime)'
  BY <1>1, <1>2, <1>3, SamePolicy
<1>5. PipelineOK'
  BY <1>1 DEF IInv, PipelineOK
<1>6. QED
  BY <1>1, <1>4, <1>5 DEF IInv

LEMMA SpecIInv == Spec => []IInv
<1>1. IInv /\ [Next]_vars => IInv'
  BY NextIInv, StutterIInv
<1>2. QED
  BY <1>1, InitIInv, PTL DEF Spec


-----------------------------------------------------------------------------
(* What the invariant says of the properties.                              *)

LEMMA OnePlace ==
    ASSUME NEW c, NEW id,
           WaitingIds(c) \cap OngoingIds(c) = {},
           c.finished \notin WaitingIds(c) \cup OngoingIds(c),
           id \in WaitingIds(c) \cup OngoingIds(c) \cup {c.finished}
    PROVE  \E p \in {"waiting", "ongoing", "finished"} : Places(c, id) = {p}
<1>1. CASE id \in WaitingIds(c)
  <2>1. Places(c, id) = {"waiting"}
    BY <1>1 DEF Places, WaitingIds, OngoingIds
  <2>2. QED
    BY <2>1
<1>2. CASE id \in OngoingIds(c)
  <2>1. Places(c, id) = {"ongoing"}
    BY <1>2 DEF Places, WaitingIds, OngoingIds
  <2>2. QED
    BY <2>1
<1>3. CASE id = c.finished
  <2>1. Places(c, id) = {"finished"}
    BY <1>3 DEF Places, WaitingIds, OngoingIds
  <2>2. QED
    BY <2>1
<1>4. QED
  BY <1>1, <1>2, <1>3

LEMMA InvOnePlace == IInv => AccessInOnePlace
<1> SUFFICES ASSUME IInv PROVE AccessInOnePlace
  OBVIOUS
<1>1. ASSUME fetch # NoId
      PROVE  \E p \in {"waiting", "ongoing", "finished"} : Places(mem.instr, fetch) = {p}
  <2>1. Distinct(mem.instr) /\ InPort(mem.instr, fetch)
    BY DEF IInv, Whole, FetchSide
  <2>2. QED
    BY <1>1, <2>1, OnePlace DEF Distinct, InPort
<1>2. ASSUME load # NoId
      PROVE  \E p \in {"waiting", "ongoing", "finished"} : Places(mem.data, load) = {p}
  <2>1. OnlyPlace(mem.data, load) /\ mem.data.finished = NoId
    BY DEF IInv
  <2>2. load \in WaitingIds(mem.data) \cup OngoingIds(mem.data)
    BY <1>2, <2>1 DEF OnlyPlace
  <2>3. WaitingIds(mem.data) = {} \/ OngoingIds(mem.data) = {}
    BY <2>1, EmptyList DEF OnlyPlace, WaitingIds, OngoingIds
  <2>4. NoId \notin WaitingIds(mem.data) \cup OngoingIds(mem.data)
    BY <1>2, <2>1 DEF OnlyPlace
  <2>5. QED
    BY <2>1, <2>2, <2>3, <2>4, OnePlace
<1>3. QED
  BY <1>1, <1>2 DEF AccessInOnePlace

LEMMA InvNoCompletionLost == IInv => NoCompletionLost
<1> SUFFICES ASSUME IInv,
                    NEW o \in Range(mem.instr.ongoing) \cup Range(mem.data.ongoing),
                    Awaits(o)
             PROVE  o.memId \in IdsInMemory(mem.memory) /\ o.memId # mem.memory.finished
  BY DEF NoCompletionLost, Awaits
<1>1. /\ FetchSide(mem) /\ DataSide(mem) /\ FetchUnmissed(mem) /\ DataUnmissed(mem)
  BY DEF IInv, Whole
<1>2. o.memId # mem.memory.finished
  BY <1>1 DEF FetchUnmissed, DataUnmissed, Awaits
<1>3. o.memId \in InstrIds(mem.memory) \cup DataIds(mem.memory)
  BY <1>1 DEF FetchSide, DataSide, DataAccessOK, Awaits
<1>4. QED
  BY <1>2, <1>3 DEF InstrIds, DataIds, QueueIds, IdsInMemory

LEMMA InvLevelsUpdated == IInv => LevelsUpdated
<1> SUFFICES ASSUME IInv PROVE LevelsUpdated
  OBVIOUS
<1>1. /\ \A o \in Range(mem.instr.done) : DoneLevels(o)
      /\ \A o \in Range(mem.data.done) : IsPlainLoad(o) => DoneLevels(o)
  BY DEF IInv, Whole, FetchSide, DataSide, DataAnswers
<1>2. QED
  BY <1>1 DEF LevelsUpdated, DoneLevels, IsPlainLoad

LEMMA InvRejected == IInv => (mem.rejected => policy.unblockStores /\ ~policy.writeAllocate)
BY DEF IInv, Whole, DataSide, DataAnswers

LEMMA InvPhasesAgree == IInv /\ ~mem.rejected => PhasesAgree
<1> SUFFICES ASSUME IInv, ~mem.rejected, NEW o \in Range(mem.data.ongoing)
             PROVE  /\ o.phase \in {"WaitForLOAD", "WaitForCACHE", "WaitForSTORE"}
                    /\ o.stalled => policy.unblockStores /\ o.phase # "WaitForCACHE"
                    /\ (o.memId # NoId) <=> (o.phase # "WaitForCACHE" /\ ~o.stalled)
  BY DEF PhasesAgree
<1>1. DataPhase(o, mem.rejected)
  BY DEF IInv, Whole, DataSide, DataAccessOK
<1>2. QED
  BY <1>1 DEF DataPhase

LEMMA InvTypeOK == IInv /\ ~mem.rejected => TypeOK
<1> SUFFICES ASSUME IInv, ~mem.rejected PROVE TypeOK
  OBVIOUS
<1>1. TopologyOK(mem) /\ PipelineOK /\ PhasesAgree /\ policy \in PolicyType
  BY InvPhasesAgree, PolicyFacts DEF IInv, Whole
<1>2. \A q \in {mem.instr.waiting, mem.data.waiting, mem.instr.ongoing,
               mem.data.ongoing, mem.memory.instrQueue, mem.memory.dataQueue} :
          Len(q) <= 1
  BY <1>1 DEF TopologyOK, ComponentOK, MemoryOK
<1>3. mem \in Topologies
  BY <1>1 DEF TopologyOK
<1>4. QED
  BY <1>1, <1>2, <1>3 DEF TypeOK, PipelineOK, Times

-----------------------------------------------------------------------------
(* The theorems.                                                           *)

(* What a port still owes the pipeline is in exactly one of its places:    *)
(* the waiting accesses, the ongoing one, or the one it shows as finished. *)
(* No access of OSeparateCachesMemoryTopology is lost or answered twice,   *)
(* whatever the policies of the data cache, the latencies, the other cores *)
(* and the branches of the pipeline.                                       *)
THEOREM SpecAccessInOnePlace == Spec => []AccessInOnePlace
BY SpecIInv, InvOnePlace, PTL

(* The end of an access of the background memory, shown for one cycle      *)
(* only, is never missed by the port that waits for it: the topology takes *)
(* it in the same cycle, whatever else the two ports ask of the memory.    *)
THEOREM SpecNoCompletionLost == Spec => []NoCompletionLost
BY SpecIInv, InvNoCompletionLost, PTL

(* An answered fetch, and an answered load behind a write-through data     *)
(* cache, has updated every cache it went through.                         *)
THEOREM SpecLevelsUpdated == Spec => []LevelsUpdated
BY SpecIInv, InvLevelsUpdated, PTL

(* A load that hits the first or the second level is answered after the    *)
(* latency of the caches it goes through, neither earlier nor later, when  *)
(* blocked cores are not stalled.                                          *)
THEOREM SpecHitsTakeTheirLatency == Spec => HitsTakeTheirLatency
<1>1. IInv /\ [Next]_vars =>
         [\A o \in Range(mem'.data.done) :
             loadTime'.answered /\ o.access.type = "LOAD" /\ ~policy.stallOnBlocking =>
                 /\ o.cl = "HIT" =>
                        loadTime.lo = DataLatency - 1 /\ loadTime.hi = loadTime.lo
                 /\ o.cl = "L2HIT" =>
                        loadTime.lo = L2Latency + InstrLatency - 1
                        /\ loadTime.hi = loadTime.lo]_vars
  BY NextIInv DEF AnswersInTime, IsTimedLoad, OnTime
<1>2. QED
  BY <1>1, SpecIInv, PTL DEF Spec, HitsTakeTheirLatency

(* The assertion that the background memory takes an access can only fail  *)
(* for the combination of options the run unblocked_stores refutes it for: *)
(* stores are unblocked and the data cache does not allocate on a write.   *)
THEOREM RejectsOnlyUnblockedStores ==
    Spec => [](mem.rejected => policy.unblockStores /\ ~policy.writeAllocate)
BY SpecIInv, InvRejected, PTL

(* Unblocked stores come with a cache that allocates on writes.            *)
StoresFit == \A p \in Policies : p.unblockStores => p.writeAllocate

LEMMA InvNotRejected ==
    ASSUME StoresFit PROVE IInv => ~mem.rejected
BY InvRejected DEF StoresFit, IInv

(* Without that combination, no access is ever refused where the code      *)
(* asserts that it is taken.                                               *)
THEOREM SpecNoAccessRejected ==
    ASSUME StoresFit PROVE Spec => []NoAccessRejected
<1>1. IInv => NoAccessRejected
  BY InvNotRejected DEF NoAccessRejected
<1>2. QED
  BY <1>1, SpecIInv, PTL

(* Without that combination, every part of the topology keeps its type and *)
(* its capacity of one access, and a data access has a memory access       *)
(* exactly in the phases that wait for the memory.                         *)
THEOREM SpecTypeOK ==
    ASSUME StoresFit PROVE Spec => []TypeOK
<1>1. IInv => TypeOK
  BY InvNotRejected, InvTypeOK
<1>2. QED
  BY <1>1, SpecIInv, PTL

-----------------------------------------------------------------------------
(* The bounds of the data port: how long the access being served, one that *)
(* is queued, and one that is refused take at most and at least, and with  *)
(* them an access in each of its phases.                                   *)

Larger(a, b) == IF a > b THEN a ELSE b

Remaining(mm) ==
    IF mm.current = NoId THEN 0
    ELSE Larger(mm.timeBlocked, 1) + (MaxBlockingPerAccess - mm.added)

LongestWait(mm, id) ==
    IF mm.finished = id THEN 0
    ELSE IF mm.current = id THEN Remaining(mm) ELSE Remaining(mm) + MaxLoadTime

ShortestWait(mm, id) ==
    IF mm.finished = id THEN 0
    ELSE IF mm.current = id THEN Larger(mm.timeBlocked, 1)
    ELSE ServiceTime[mm.dataQueue[1].type]

LongestStall(mm) == IF mm.dataQueue = <<>> THEN 0 ELSE Remaining(mm) + 1

(* From the second level to the answer.                                    *)
AfterL2(o) ==
    IF policy.unblockStores /\ o.cl = "L2MISS" THEN InstrLatency
    ELSE Larger(InstrLatency, RoundTrip)

AtMost(o, mm) ==
    IF o.phase = "WaitForLOAD"
    THEN (IF o.stalled THEN LongestStall(mm) + RoundTrip ELSE LongestWait(mm, o.memId))
             + L2Latency + AfterL2(o)
    ELSE IF o.phase = "WaitForCACHE"
    THEN IF o.inL2 THEN o.l2 + AfterL2(o)
         ELSE o.l1 + (IF o.cl = "HIT" THEN RoundTrip ELSE 0)
    ELSE IF policy.unblockStores THEN (IF o.stalled THEN LongestStall(mm) ELSE 0) + 1
    ELSE LongestWait(mm, o.memId)

AtLeast(o, mm) ==
    IF o.phase = "WaitForLOAD" THEN L2Latency + 1
    ELSE IF o.phase = "WaitForCACHE"
    THEN IF o.inL2 THEN o.l2 + (IF o.cl = "L2MISS" THEN 0 ELSE 1) ELSE o.l1
    ELSE IF policy.unblockStores THEN 1
    ELSE ShortestWait(mm, o.memId)

(* The access o is within the bounds when it is t old.                     *)
Within(o, mm, t) ==
    t.hi + AtMost(o, mm) <= DataMax /\ t.lo + AtLeast(o, mm) >= DataMin

(* What is left to do in the caches.                                       *)
InCaches(o) ==
    o.phase = "WaitForCACHE" =>
        IF o.inL2 THEN o.l2 > 0 /\ o.cl # "HIT"
        ELSE o.l1 > 0 /\ (o.cl # "HIT" => ~IsStoreThrough(o) /\ ~MayWriteBack(o))

(* The memory serves an access for no longer than a load takes.            *)
Timed(mm) ==
    /\ mm.current = NoId => ~mm.delayed /\ mm.timeBlocked = 0 /\ mm.added = 0
    /\ mm.current # NoId => mm.delayed /\ Remaining(mm) < MaxLoadTime
    /\ mm.timeBlocked > 1 => mm.added = 0

InTime(m, t) ==
    /\ Timed(m.memory)
    /\ \A o \in Range(m.data.ongoing) :
          /\ InCaches(o) /\ Within(o, m.memory, t)
          /\ o.stalled => m.memory.dataQueue # <<>>

(* Loads move a line and take longest; no core is stalled.                 *)
LongestLoad == \A t \in AccessType : ServiceTime[t] <= ServiceTime["LOAD"]
NoneStalls == \A p \in Policies : ~p.stallOnBlocking

LEMMA ServiceTimes ==
    ASSUME LongestLoad
    PROVE  /\ MaxBlockingPerAccess \in Nat /\ MaxLoadTime \in Nat \ {0} /\ RoundTrip \in Nat \ {0}
           /\ RoundTrip = 2 * MaxLoadTime - 1
           /\ \A t \in AccessType : /\ ServiceTime[t] \in Nat \ {0}
                                    /\ ServiceTime[t] + MaxBlockingPerAccess <= MaxLoadTime
<1>1. /\ MaxBlockingPerAccess \in Nat /\ ServiceTime["LOAD"] \in Nat \ {0}
      /\ \A t \in AccessType : ServiceTime[t] \in Nat \ {0}
  BY SingleMemoryAssumption DEF AccessType
<1>2. MaxLoadTime \in Nat \ {0} /\ RoundTrip \in Nat \ {0} /\ RoundTrip = 2 * MaxLoadTime - 1
  BY <1>1 DEF MaxLoadTime, RoundTrip
<1>3. ASSUME NEW t \in AccessType
      PROVE  ServiceTime[t] + MaxBlockingPerAccess <= MaxLoadTime
  BY <1>1 DEF LongestLoad, MaxLoadTime
<1>4. QED
  BY <1>1, <1>2, <1>3

LEMMA Extremes ==
    ASSUME NEW a \in Nat, NEW b \in Nat, NEW c \in Nat
    PROVE  /\ \E n \in {a, b, c} : \A k \in {a, b, c} : n <= k
           /\ \E n \in {a, b, c} : \A k \in {a, b, c} : k <= n
OBVIOUS

(* The bounds are the least and the largest of the times they are for.     *)
LEMMA DataBounds ==
    ASSUME LongestLoad
    PROVE  /\ DataMin \in Nat /\ DataMin <= DataLatency /\ DataMin <= L2Latency + 1
           /\ DataMin <= ServiceTime["STORE"]
           /\ DataMax \in Nat /\ DataLatency + RoundTrip <= DataMax
           /\ MaxLoadTime + RoundTrip + L2Latency + InstrLatency <= DataMax
           /\ RoundTrip + L2Latency + RoundTrip <= DataMax
<1>1. /\ ServiceTime["STORE"] \in Nat /\ MaxLoadTime \in Nat /\ RoundTrip \in Nat
      /\ InstrLatency \in Nat /\ DataLatency \in Nat /\ L2Latency \in Nat
  BY ServiceTimes, Latencies DEF AccessType
<1>2. /\ L2Latency + 1 \in Nat /\ DataLatency + RoundTrip \in Nat
      /\ MaxLoadTime + RoundTrip + L2Latency + InstrLatency \in Nat
      /\ RoundTrip + L2Latency + RoundTrip \in Nat
  BY <1>1
<1> DEFINE S == {DataLatency, L2Latency + 1, ServiceTime["STORE"]}
           L == {DataLatency + RoundTrip, MaxLoadTime + RoundTrip + L2Latency + InstrLatency,
                 RoundTrip + L2Latency + RoundTrip}
<1>3. DataTimes.shortest = S /\ DataTimes.longest = L
  BY DEF DataTimes
<1>4. \E n \in S : \A k \in S : n <= k
  BY <1>1, <1>2, Extremes
<1>5. \E n \in L : \A k \in L : k <= n
  BY <1>1, <1>2, Extremes
<1>6. S \subseteq Nat /\ L \subseteq Nat
  BY <1>1, <1>2
<1> HIDE DEF S, L
<1>7. DataMin \in S /\ \A k \in S : DataMin <= k
  BY <1>3, <1>4 DEF DataMin
<1>8. DataMax \in L /\ \A k \in L : k <= DataMax
  BY <1>3, <1>5 DEF DataMax
<1>9. QED
  BY <1>6, <1>7, <1>8 DEF S, L

-----------------------------------------------------------------------------
(* A cycle of the memory.                                                  *)

LEMMA TypesOfMemory ==
    ASSUME LongestLoad, NEW mm \in MemoryStates
    PROVE  /\ mm.timeBlocked \in Nat /\ mm.added \in Nat /\ mm.added <= MaxBlockingPerAccess
           /\ Remaining(mm) \in Nat /\ LongestStall(mm) \in Nat
           /\ mm.current # NoId => Remaining(mm) > 0
           /\ \A id : LongestWait(mm, id) \in Nat
<1>1. /\ mm.timeBlocked \in Nat /\ mm.added \in Nat /\ mm.added <= MaxBlockingPerAccess
      /\ MaxBlockingPerAccess \in Nat /\ MaxLoadTime \in Nat
  BY ServiceTimes DEF MemoryStates
<1>2. Remaining(mm) \in Nat /\ (mm.current # NoId => Remaining(mm) > 0)
  BY <1>1 DEF Remaining, Larger
<1>3. QED
  BY <1>1, <1>2 DEF LongestStall, LongestWait

(* The access being served goes on, is blocked for one more cycle, or ends.*)
LEMMA ServiceIs ==
    ASSUME NEW mm \in MemoryStates, mm.current # NoId, mm.delayed,
           NEW served \in CycleBlocking(mm), NEW n, n = FinishAccess(served)
    PROVE  /\ n.dataQueue = mm.dataQueue
           /\ \/ /\ mm.timeBlocked <= 1 /\ n.current = NoId /\ n.finished = mm.current
                 /\ ~n.delayed /\ n.timeBlocked = 0 /\ n.added = 0
              \/ /\ n.current = mm.current /\ n.finished = NoId /\ n.delayed
                 /\ \/ mm.timeBlocked > 1 /\ n.timeBlocked = mm.timeBlocked - 1 /\ n.added = mm.added
                    \/ /\ mm.timeBlocked <= 1 /\ n.timeBlocked = 0
                       /\ mm.added < MaxBlockingPerAccess /\ n.added = mm.added + 1
<1> DEFINE s == [mm EXCEPT !.timeBlocked = IF @ > 0 THEN @ - 1 ELSE 0]
<1>1. mm.timeBlocked \in Nat /\ mm.added \in Nat
  BY DEF MemoryStates
<1>2. /\ s.timeBlocked = IF mm.timeBlocked > 0 THEN mm.timeBlocked - 1 ELSE 0
      /\ s.delayed /\ s.added = mm.added /\ s.current = mm.current /\ s.dataQueue = mm.dataQueue
  BY DEF MemoryStates
<1>3. DOMAIN s = DOMAIN mm
  OBVIOUS
<1>4. served \in IF s.timeBlocked > 0 THEN {s} ELSE PerformSplit(s)
  BY DEF CycleBlocking
<1>5. /\ DOMAIN mm = {"instrQueue", "dataQueue", "current", "finished", "timeBlocked",
                      "delayed", "added"}
      /\ s = [x \in DOMAIN s |-> s[x]]
  BY DEF MemoryStates
<1> HIDE DEF s
<1>6. CASE s.timeBlocked > 0 /\ served = s
  <2>1. IsBusy(served)
    BY <1>6 DEF IsBusy
  <2>2. n = [served EXCEPT !.finished = NoId]
    BY <2>1 DEF FinishAccess
  <2>3. QED
    BY <1>1, <1>2, <1>3, <1>5, <1>6, <2>2
<1>7. CASE s.timeBlocked = 0 /\ served = [s EXCEPT !.delayed = FALSE, !.added = 0]
  <2>1. /\ served.timeBlocked = 0 /\ ~served.delayed /\ served.added = 0
        /\ served.current = mm.current /\ served.dataQueue = mm.dataQueue
        /\ DOMAIN served = DOMAIN mm
    BY <1>2, <1>3, <1>5, <1>7
  <2>2. ~IsBusy(served)
    BY <2>1 DEF IsBusy
  <2>3. n = [served EXCEPT !.finished = served.current, !.current = NoId]
    BY <2>1, <2>2 DEF FinishAccess
  <2>4. /\ n.finished = mm.current /\ n.current = NoId /\ n.dataQueue = mm.dataQueue
        /\ ~n.delayed /\ n.timeBlocked = 0 /\ n.added = 0
    BY <1>5, <2>1, <2>3
  <2>5. mm.timeBlocked <= 1
    BY <1>1, <1>2, <1>7
  <2>6. QED
    BY <2>4, <2>5
<1>8. CASE /\ s.timeBlocked = 0 /\ s.added < MaxBlockingPerAccess
           /\ served = [s EXCEPT !.added = @ + 1]
  <2>1. /\ served.timeBlocked = 0 /\ served.delayed /\ served.added = mm.added + 1
        /\ served.current = mm.current /\ served.dataQueue = mm.dataQueue
        /\ DOMAIN served = DOMAIN mm
    BY <1>2, <1>3, <1>5, <1>8
  <2>2. IsBusy(served)
    BY <2>1 DEF IsBusy
  <2>3. n = [served EXCEPT !.finished = NoId]
    BY <2>2 DEF FinishAccess
  <2>4. /\ n.finished = NoId /\ n.current = mm.current /\ n.dataQueue = mm.dataQueue
        /\ n.delayed /\ n.timeBlocked = 0 /\ n.added = mm.added + 1
    BY <1>5, <2>1, <2>3
  <2>5. mm.timeBlocked <= 1 /\ mm.added < MaxBlockingPerAccess
    BY <1>1, <1>2, <1>8
  <2>6. QED
    BY <2>4, <2>5
<1>9. s.timeBlocked \in Nat
  BY <1>1, <1>2
<1>10. PerformSplit(s) = {[s EXCEPT !.delayed = FALSE, !.added = 0]}
                             \cup (IF s.added < MaxBlockingPerAccess
                                   THEN {[s EXCEPT !.added = @ + 1]} ELSE {})
  BY <1>2 DEF PerformSplit
<1>11. \/ s.timeBlocked > 0 /\ served = s
       \/ s.timeBlocked = 0 /\ served = [s EXCEPT !.delayed = FALSE, !.added = 0]
       \/ /\ s.timeBlocked = 0 /\ s.added < MaxBlockingPerAccess
          /\ served = [s EXCEPT !.added = @ + 1]
  BY <1>4, <1>9, <1>10
<1>12. QED
  BY <1>6, <1>7, <1>8, <1>11

(* Just after a cycle, an access that is still served has not been blocked *)
(* by other cores.                                                         *)
JustCycled(mm) == Timed(mm) /\ (mm.timeBlocked > 0 => mm.added = 0)

(* Serving an access takes one cycle off the time it takes.                *)
LEMMA ServiceTakes ==
    ASSUME LongestLoad, NEW s \in MemoryStates, s.current # NoId, s.delayed,
           Remaining(s) <= MaxLoadTime, s.timeBlocked > 1 => s.added = 0,
           NEW n \in MemoryStates, \E served \in CycleBlocking(s) : n = FinishAccess(served)
    PROVE  /\ JustCycled(n) /\ n.dataQueue = s.dataQueue /\ Remaining(n) + 1 <= Remaining(s)
           /\ \/ n.finished = s.current /\ n.current = NoId /\ s.timeBlocked <= 1
              \/ /\ n.finished = NoId /\ n.current = s.current
                 /\ Larger(n.timeBlocked, 1) + 1 >= Larger(s.timeBlocked, 1)
<1>1. PICK served \in CycleBlocking(s) : n = FinishAccess(served)
  OBVIOUS
<1>2. /\ n.dataQueue = s.dataQueue
      /\ \/ /\ s.timeBlocked <= 1 /\ n.current = NoId /\ n.finished = s.current
            /\ ~n.delayed /\ n.timeBlocked = 0 /\ n.added = 0
         \/ /\ n.current = s.current /\ n.finished = NoId /\ n.delayed
            /\ \/ s.timeBlocked > 1 /\ n.timeBlocked = s.timeBlocked - 1 /\ n.added = s.added
               \/ /\ s.timeBlocked <= 1 /\ n.timeBlocked = 0
                  /\ s.added < MaxBlockingPerAccess /\ n.added = s.added + 1
  BY <1>1, ServiceIs
<1>3. /\ s.timeBlocked \in Nat /\ s.added \in Nat /\ s.added <= MaxBlockingPerAccess
      /\ MaxBlockingPerAccess \in Nat /\ MaxLoadTime \in Nat \ {0}
  BY TypesOfMemory, ServiceTimes
<1>4. Remaining(n) + 1 <= Remaining(s)
  BY <1>2, <1>3 DEF Remaining, Larger
<1>5. Remaining(n) \in Nat /\ Remaining(s) \in Nat
  BY TypesOfMemory
<1>6. Remaining(n) < MaxLoadTime
  BY <1>3, <1>4, <1>5
<1>7. Timed(n) /\ (n.timeBlocked > 0 => n.added = 0)
  BY <1>2, <1>3, <1>6 DEF Timed
<1>8. n.current = s.current => Larger(n.timeBlocked, 1) + 1 >= Larger(s.timeBlocked, 1)
  BY <1>2, <1>3 DEF Larger
<1>9. QED
  BY <1>2, <1>4, <1>7, <1>8 DEF JustCycled

(* What the memory serves in a cycle: what it served before, the data that *)
(* waited, a fetch that waited, or nothing.                                *)
LEMMA ServedNext ==
    ASSUME LongestLoad, NEW mm, MemoryOK(mm), Timed(mm)
    PROVE  LET s == StartNext(mm)
           IN  /\ s \in MemoryStates /\ (s.timeBlocked > 1 => s.added = 0)
               /\ s.current # NoId => s.delayed /\ Remaining(s) <= MaxLoadTime
               /\ mm.current # NoId => s = mm
               /\ mm.current = NoId /\ mm.dataQueue # <<>> =>
                     /\ s.dataQueue = <<>> /\ s.current = mm.dataQueue[1].id
                     /\ s.timeBlocked = ServiceTime[mm.dataQueue[1].type]
               /\ mm.current = NoId /\ mm.dataQueue = <<>> =>
                     s.dataQueue = <<>> /\ (s.current = NoId => s = mm)
<1> DEFINE s == StartNext(mm)
<1>1. s \in MemoryStates
  BY StartNextIs DEF MemoryOK
<1>2. ASSUME NEW a \in Accesses, NEW q, s = [AnnounceAccess(mm, a) EXCEPT !.dataQueue = q]
                                        \/ s = [AnnounceAccess(mm, a) EXCEPT !.instrQueue = q],
             mm.current = NoId
      PROVE  /\ s.current = a.id /\ s.delayed /\ s.timeBlocked = ServiceTime[a.type]
             /\ s.added = 0 /\ Remaining(s) <= MaxLoadTime
  <2>1. ServiceTime[a.type] \in Nat \ {0} /\ a.id \in Ids /\ MaxBlockingPerAccess \in Nat
    BY ServiceTimes DEF Accesses
  <2>2. ServiceTime[a.type] + MaxBlockingPerAccess <= MaxLoadTime
    BY ServiceTimes DEF Accesses
  <2>3. mm.added = 0
    BY <1>2 DEF Timed
  <2>4. s.current = a.id /\ s.delayed /\ s.timeBlocked = ServiceTime[a.type] /\ s.added = 0
    BY <1>2, <2>3 DEF AnnounceAccess, MemoryOK, MemoryStates
  <2> HIDE DEF s
  <2>5. Remaining(s) = IF s.current = NoId THEN 0 ELSE ServiceTime[a.type] + MaxBlockingPerAccess
    BY <2>1, <2>4 DEF Remaining, Larger
  <2>6. s.current # NoId
    BY <2>1, <2>4 DEF Ids, NoId
  <2>7. QED
    BY <2>2, <2>4, <2>5, <2>6
<1>3. CASE mm.current # NoId
  <2>1. s = mm
    BY <1>3 DEF StartNext
  <2>2. Remaining(mm) < MaxLoadTime /\ mm.delayed /\ (mm.timeBlocked > 1 => mm.added = 0)
    BY <1>3 DEF Timed
  <2>3. Remaining(mm) <= MaxLoadTime
    BY <2>2, TypesOfMemory, ServiceTimes DEF MemoryOK
  <2>4. QED
    BY <1>1, <1>3, <2>1, <2>2, <2>3
<1>4. CASE mm.current = NoId /\ mm.dataQueue # <<>>
  <2>1. mm.dataQueue[1] \in Accesses
    BY <1>4, AtMostOne DEF MemoryOK, MemoryStates
  <2>2. s = [AnnounceAccess(mm, mm.dataQueue[1]) EXCEPT !.dataQueue = <<>>]
    BY <1>4 DEF StartNext
  <2>3. s.dataQueue = <<>>
    BY <2>2 DEF AnnounceAccess, MemoryOK, MemoryStates
  <2>4. /\ s.current = mm.dataQueue[1].id /\ s.delayed
        /\ s.timeBlocked = ServiceTime[mm.dataQueue[1].type]
        /\ s.added = 0 /\ Remaining(s) <= MaxLoadTime
    BY <1>2, <1>4, <2>1, <2>2
  <2> HIDE DEF s
  <2>5. QED
    BY <1>1, <1>4, <2>3, <2>4 DEF s
<1>5. CASE mm.current = NoId /\ mm.dataQueue = <<>> /\ mm.instrQueue # <<>>
  <2>1. mm.instrQueue[1] \in Accesses
    BY <1>5, AtMostOne DEF MemoryOK, MemoryStates
  <2>2. s = [AnnounceAccess(mm, mm.instrQueue[1]) EXCEPT !.instrQueue = <<>>]
    BY <1>5 DEF StartNext
  <2>3. s.dataQueue = <<>>
    BY <1>5, <2>2 DEF AnnounceAccess, MemoryOK, MemoryStates
  <2>4. /\ s.current = mm.instrQueue[1].id /\ s.delayed /\ s.added = 0
        /\ Remaining(s) <= MaxLoadTime
    BY <1>2, <1>5, <2>1, <2>2
  <2>5. s.current # NoId
    BY <2>1, <2>4 DEF Accesses, Ids, NoId
  <2> HIDE DEF s
  <2>6. QED
    BY <1>1, <1>5, <2>3, <2>4, <2>5 DEF s
<1>6. CASE mm.current = NoId /\ mm.dataQueue = <<>> /\ mm.instrQueue = <<>>
  <2>1. s = mm
    BY <1>6 DEF StartNext
  <2>2. mm.timeBlocked > 1 => mm.added = 0
    BY DEF Timed
  <2>3. QED
    BY <1>1, <1>6, <2>1, <2>2
<1>7. QED
  BY <1>3, <1>4, <1>5, <1>6

(* Nothing is served: the cycle changes nothing that data waits for.       *)
LEMMA NothingServed ==
    ASSUME NEW mm \in MemoryStates, Timed(mm), mm.current = NoId,
           NEW served \in CycleBlocking(mm), NEW n, n = FinishAccess(served)
    PROVE  /\ n.current = NoId /\ n.dataQueue = mm.dataQueue /\ n.finished = NoId
           /\ ~n.delayed /\ n.timeBlocked = 0 /\ n.added = 0
<1> DEFINE s == [mm EXCEPT !.timeBlocked = IF @ > 0 THEN @ - 1 ELSE 0]
<1>1. mm.timeBlocked = 0 /\ ~mm.delayed /\ mm.added = 0
  BY DEF Timed
<1>2. /\ s.timeBlocked = 0 /\ ~s.delayed /\ s.added = 0 /\ s.current = NoId
      /\ s.dataQueue = mm.dataQueue /\ DOMAIN s = DOMAIN mm
  BY <1>1 DEF MemoryStates
<1>3. served = s
  <2>1. served \in IF s.timeBlocked > 0 THEN {s} ELSE PerformSplit(s)
    BY DEF CycleBlocking
  <2> HIDE DEF s
  <2>2. QED
    BY <1>2, <2>1 DEF PerformSplit
<1> HIDE DEF s
<1>4. n = [s EXCEPT !.finished = NoId]
  BY <1>2, <1>3 DEF FinishAccess
<1>5. QED
  BY <1>2, <1>4 DEF MemoryStates

(* What an access of the data port waits for in the memory.                *)
IsAwaited(mm, id) == id \in Ids /\ id \in DataIds(mm) /\ id # mm.finished

LEMMA AwaitedIs ==
    ASSUME NEW mm, MemoryOK(mm), NEW id, IsAwaited(mm, id), id # mm.current
    PROVE  mm.dataQueue # <<>> /\ mm.dataQueue[1].id = id /\ mm.dataQueue[1] \in Accesses
<1>1. id \in QueueIds(mm.dataQueue)
  BY DEF IsAwaited, DataIds
<1>2. mm.dataQueue # <<>>
  BY <1>1, IdsOfList
<1>3. mm.dataQueue \in Seq(Accesses) /\ Len(mm.dataQueue) <= 1
  BY DEF MemoryOK, MemoryStates
<1>4. QueueIds(mm.dataQueue) = {mm.dataQueue[1].id} /\ mm.dataQueue[1] \in Accesses
  BY <1>2, <1>3, IdsOfList, AtMostOne
<1>5. QED
  BY <1>1, <1>2, <1>4

LEMMA ShortestWaitType ==
    ASSUME LongestLoad, NEW mm, MemoryOK(mm), NEW id \in Ids, id \in DataIds(mm)
    PROVE  ShortestWait(mm, id) \in Nat
<1>1. CASE id = mm.finished \/ id = mm.current
  BY <1>1 DEF ShortestWait, Larger, MemoryOK, MemoryStates
<1>2. CASE id # mm.finished /\ id # mm.current
  <2>1. mm.dataQueue[1] \in Accesses
    BY <1>2, AwaitedIs DEF IsAwaited
  <2>2. ServiceTime[mm.dataQueue[1].type] \in Nat
    BY <2>1, ServiceTimes DEF Accesses
  <2>3. QED
    BY <1>2, <2>2 DEF ShortestWait
<1>3. QED
  BY <1>1, <1>2

(* A cycle brings the end of an access one cycle nearer, and of data that  *)
(* waits: it takes one off the longest time, and no more off the shortest. *)
LEMMA MemoryTakesItsTime ==
    ASSUME LongestLoad, NEW mm, MemoryOK(mm), Timed(mm), NEW n \in CycleMemory(mm)
    PROVE  /\ JustCycled(n)
           /\ mm.dataQueue # <<>> => LongestStall(n) + 1 <= LongestStall(mm)
           /\ n.dataQueue # <<>> => MaxLoadTime >= 2
           /\ \A id : IsAwaited(mm, id) =>
                 /\ LongestWait(n, id) + 1 <= LongestWait(mm, id)
                 /\ ShortestWait(n, id) + 1 >= ShortestWait(mm, id)
<1> DEFINE s == StartNext(mm)
<1>1. /\ s \in MemoryStates /\ (s.timeBlocked > 1 => s.added = 0)
      /\ s.current # NoId => s.delayed /\ Remaining(s) <= MaxLoadTime
      /\ mm.current # NoId => s = mm
      /\ mm.current = NoId /\ mm.dataQueue # <<>> =>
            /\ s.dataQueue = <<>> /\ s.current = mm.dataQueue[1].id
            /\ s.timeBlocked = ServiceTime[mm.dataQueue[1].type]
      /\ mm.current = NoId /\ mm.dataQueue = <<>> =>
            s.dataQueue = <<>> /\ (s.current = NoId => s = mm)
  BY ServedNext
<1>2. PICK served \in CycleBlocking(s) : n = FinishAccess(served)
  BY DEF CycleMemory
<1> HIDE DEF s
<1>3. n \in MemoryStates /\ mm \in MemoryStates
  BY CycleMemoryIs DEF MemoryOK
<1>4. /\ Remaining(n) \in Nat /\ Remaining(mm) \in Nat /\ Remaining(s) \in Nat
      /\ MaxLoadTime \in Nat \ {0} /\ (mm.current # NoId => Remaining(mm) > 0)
      /\ n.timeBlocked \in Nat /\ mm.timeBlocked \in Nat /\ s.timeBlocked \in Nat
  BY <1>1, <1>3, TypesOfMemory, ServiceTimes
<1>5. CASE s.current # NoId
  <2>1. /\ JustCycled(n) /\ n.dataQueue = s.dataQueue /\ Remaining(n) + 1 <= Remaining(s)
        /\ \/ n.finished = s.current /\ n.current = NoId /\ s.timeBlocked <= 1
           \/ /\ n.finished = NoId /\ n.current = s.current
              /\ Larger(n.timeBlocked, 1) + 1 >= Larger(s.timeBlocked, 1)
    BY <1>1, <1>2, <1>3, <1>5, ServiceTakes
  <2>2. CASE mm.current # NoId
    <3>1. s = mm
      BY <1>1, <2>2
    <3>2. LongestStall(n) + 1 <= LongestStall(mm) \/ mm.dataQueue = <<>>
      BY <1>4, <2>1, <3>1 DEF LongestStall
    <3>3. MaxLoadTime >= 2
      BY <1>1, <1>4, <2>1, <2>2, <3>1 DEF Timed
    <3>4. ASSUME NEW id, IsAwaited(mm, id)
          PROVE  /\ LongestWait(n, id) + 1 <= LongestWait(mm, id)
                 /\ ShortestWait(n, id) + 1 >= ShortestWait(mm, id)
      <4>1. id # NoId /\ id # mm.finished
        BY <3>4 DEF IsAwaited, Ids, NoId
      <4>2. CASE id = mm.current
        <5>1. LongestWait(mm, id) = Remaining(mm) /\ ShortestWait(mm, id) = Larger(mm.timeBlocked, 1)
          BY <4>1, <4>2 DEF LongestWait, ShortestWait
        <5>2. CASE n.finished = id
          <6>1. LongestWait(n, id) = 0 /\ ShortestWait(n, id) = 0 /\ mm.timeBlocked <= 1
            BY <2>1, <3>1, <4>1, <5>2 DEF LongestWait, ShortestWait
          <6>2. QED
            BY <1>4, <2>2, <5>1, <6>1 DEF Larger
        <5>3. CASE n.finished # id
          <6>1. n.current = id /\ Larger(n.timeBlocked, 1) + 1 >= Larger(mm.timeBlocked, 1)
            BY <2>1, <3>1, <4>2, <5>3
          <6>2. LongestWait(n, id) = Remaining(n) /\ ShortestWait(n, id) = Larger(n.timeBlocked, 1)
            BY <5>3, <6>1 DEF LongestWait, ShortestWait
          <6>3. QED
            BY <2>1, <3>1, <5>1, <6>1, <6>2
        <5>4. QED
          BY <5>2, <5>3
      <4>3. CASE id # mm.current
        <5>1. n.finished # id /\ n.current # id
          BY <2>1, <3>1, <4>1, <4>3
        <5>2. /\ LongestWait(mm, id) = Remaining(mm) + MaxLoadTime
              /\ LongestWait(n, id) = Remaining(n) + MaxLoadTime
              /\ ShortestWait(mm, id) = ServiceTime[mm.dataQueue[1].type]
              /\ ShortestWait(n, id) = ShortestWait(mm, id)
          BY <2>1, <3>1, <4>1, <4>3, <5>1 DEF LongestWait, ShortestWait
        <5>3. ServiceTime[mm.dataQueue[1].type] \in Nat
          BY <3>4, <4>3, AwaitedIs, ServiceTimes DEF Accesses
        <5>4. QED
          BY <1>4, <2>1, <3>1, <5>2, <5>3
      <4>4. QED
        BY <4>2, <4>3
    <3>5. QED
      BY <2>1, <3>2, <3>3, <3>4
  <2>3. CASE mm.current = NoId
    <3>1. s.dataQueue = <<>> /\ n.dataQueue = <<>>
      BY <1>1, <2>1, <2>3
    <3>2. mm.dataQueue # <<>> => LongestStall(n) + 1 <= LongestStall(mm)
      BY <1>4, <3>1 DEF LongestStall
    <3>3. ASSUME NEW id, IsAwaited(mm, id)
          PROVE  /\ LongestWait(n, id) + 1 <= LongestWait(mm, id)
                 /\ ShortestWait(n, id) + 1 >= ShortestWait(mm, id)
      <4>1. id # NoId /\ id # mm.finished /\ id # mm.current
        BY <2>3, <3>3 DEF IsAwaited, Ids, NoId
      <4>2. mm.dataQueue # <<>> /\ mm.dataQueue[1].id = id /\ mm.dataQueue[1] \in Accesses
        BY <3>3, <4>1, AwaitedIs
      <4>3. /\ s.current = id /\ s.timeBlocked = ServiceTime[mm.dataQueue[1].type]
            /\ ServiceTime[mm.dataQueue[1].type] \in Nat \ {0}
        BY <1>1, <2>3, <4>2, ServiceTimes DEF Accesses
      <4>4. /\ LongestWait(mm, id) = Remaining(mm) + MaxLoadTime
            /\ ShortestWait(mm, id) = s.timeBlocked
        BY <4>1, <4>3 DEF LongestWait, ShortestWait
      <4>5. Remaining(n) + 1 <= MaxLoadTime
        BY <1>1, <1>4, <1>5, <2>1
      <4>6. CASE n.finished = id
        <5>1. LongestWait(n, id) = 0 /\ ShortestWait(n, id) = 0 /\ s.timeBlocked <= 1
          BY <2>1, <4>1, <4>3, <4>6 DEF LongestWait, ShortestWait
        <5>2. QED
          BY <1>4, <4>3, <4>4, <5>1
      <4>7. CASE n.finished # id
        <5>1. n.current = id /\ Larger(n.timeBlocked, 1) + 1 >= Larger(s.timeBlocked, 1)
          BY <2>1, <4>3, <4>7
        <5>2. LongestWait(n, id) = Remaining(n) /\ ShortestWait(n, id) = Larger(n.timeBlocked, 1)
          BY <4>7, <5>1 DEF LongestWait, ShortestWait
        <5>3. Larger(s.timeBlocked, 1) = s.timeBlocked /\ Larger(n.timeBlocked, 1) \in Nat
          BY <1>4, <4>3 DEF Larger
        <5>4. QED
          BY <1>4, <4>4, <4>5, <5>1, <5>2, <5>3
      <4>8. QED
        BY <4>6, <4>7
    <3>4. QED
      BY <2>1, <3>1, <3>2, <3>3
  <2>4. QED
    BY <2>2, <2>3
<1>6. CASE s.current = NoId
  <2>1. mm.current = NoId /\ mm.dataQueue = <<>> /\ s = mm
    <3>1. mm.current = NoId
      BY <1>1, <1>6
    <3>2. ASSUME mm.dataQueue # <<>>
          PROVE  FALSE
      <4>1. mm.dataQueue[1] \in Accesses
        BY <3>2, AtMostOne DEF MemoryOK, MemoryStates
      <4>2. QED
        BY <1>1, <1>6, <3>1, <3>2, <4>1 DEF Accesses, Ids, NoId
    <3>3. QED
      BY <1>1, <1>6, <3>1, <3>2
  <2>2. /\ n.current = NoId /\ n.dataQueue = <<>> /\ n.finished = NoId
        /\ ~n.delayed /\ n.timeBlocked = 0 /\ n.added = 0
    BY <1>2, <1>3, <2>1, NothingServed
  <2>3. JustCycled(n)
    BY <2>2 DEF JustCycled, Timed
  <2>4. ASSUME NEW id, IsAwaited(mm, id)
        PROVE  FALSE
    <3>1. id # mm.current
      BY <2>1, <2>4 DEF IsAwaited, Ids, NoId
    <3>2. QED
      BY <2>1, <2>4, <3>1, AwaitedIs
  <2>5. QED
    BY <2>1, <2>2, <2>3, <2>4
<1>7. QED
  BY <1>5, <1>6

(* What the memory's time depends on.                                      *)
SameTimer(mm, n) ==
    /\ n.current = mm.current /\ n.timeBlocked = mm.timeBlocked
    /\ n.delayed = mm.delayed /\ n.added = mm.added

LEMMA SameTimerIs ==
    ASSUME NEW mm, NEW n, SameTimer(mm, n)
    PROVE  /\ Remaining(n) = Remaining(mm) /\ (Timed(mm) => Timed(n))
           /\ (JustCycled(mm) => JustCycled(n))
<1>1. Remaining(n) = Remaining(mm)
  BY DEF SameTimer, Remaining
<1>2. QED
  BY <1>1 DEF SameTimer, Timed, JustCycled

(* An access that cannot go on without the memory.                         *)
Waits(o) ==
    /\ ~o.stalled
    /\ o.phase = "WaitForLOAD" \/ (o.phase = "WaitForSTORE" /\ ~policy.unblockStores)

LEMMA WaitsForMemory ==
    ASSUME NEW m, ~m.rejected, NEW o \in OngoingAccess, DataAccessOK(o, m)
    PROVE  /\ Waits(o) => Awaits(o) /\ o.memId \in Ids /\ o.memId \in DataIds(m.memory)
           /\ o.stalled => policy.unblockStores /\ o.phase \in {"WaitForLOAD", "WaitForSTORE"}
           /\ ~Waits(o) /\ ~o.stalled =>
                 \/ o.phase = "WaitForCACHE"
                 \/ o.phase = "WaitForSTORE" /\ policy.unblockStores
<1>1. DataPhase(o, m.rejected) /\ (Awaits(o) => o.memId \in DataIds(m.memory))
  BY DEF DataAccessOK
<1>2. Waits(o) => Awaits(o) /\ o.memId # NoId
  BY <1>1 DEF Waits, Awaits, DataPhase
<1>3. o.memId \in Ids \cup {NoId}
  BY DEF OngoingAccess
<1>4. QED
  BY <1>1, <1>2, <1>3 DEF DataPhase, Waits

LEMMA TimesOfAccess ==
    ASSUME LongestLoad, NEW o \in OngoingAccess, NEW mm \in MemoryStates
    PROVE  /\ o.l1 \in Nat /\ o.l2 \in Nat /\ AfterL2(o) \in Nat /\ AtMost(o, mm) \in Nat
           /\ InstrLatency <= AfterL2(o) /\ AfterL2(o) <= Larger(InstrLatency, RoundTrip)
<1>1. o.l1 \in Nat /\ o.l2 \in Nat
  BY DEF OngoingAccess
<1>2. /\ InstrLatency \in Nat /\ L2Latency \in Nat /\ RoundTrip \in Nat
      /\ LongestWait(mm, o.memId) \in Nat /\ LongestStall(mm) \in Nat
  BY Latencies, ServiceTimes, TypesOfMemory
<1>3. /\ AfterL2(o) \in Nat /\ InstrLatency <= AfterL2(o)
      /\ AfterL2(o) <= Larger(InstrLatency, RoundTrip)
  BY <1>2 DEF AfterL2, Larger
<1>4. AtMost(o, mm) \in Nat
  BY <1>1, <1>2, <1>3 DEF AtMost
<1>5. QED
  BY <1>1, <1>3, <1>4

(* An access that is nearer to its end after a cycle stays within the      *)
(* bounds.                                                                 *)
LEMMA WithinLater ==
    ASSUME LongestLoad, NEW t \in Times, NEW o, NEW mm, Within(o, mm, t),
           AtMost(o, mm) \in Nat, AtLeast(o, mm) \in Nat,
           NEW p, NEW n, AtMost(p, n) \in Nat, AtLeast(p, n) \in Nat,
           AtMost(p, n) + 1 <= AtMost(o, mm), AtLeast(p, n) + 1 >= AtLeast(o, mm)
    PROVE  Within(p, n, Later(t))
<1>1. PICK lo \in Nat, hi \in Nat : lo = t.lo /\ hi = t.hi
  BY DEF Times
<1>2. Later(t).lo = lo + 1 /\ Later(t).hi = hi + 1
  BY <1>1 DEF Later
<1>3. PICK x \in Nat, y \in Nat, u \in Nat, v \in Nat :
         x = AtMost(o, mm) /\ y = AtMost(p, n) /\ u = AtLeast(o, mm) /\ v = AtLeast(p, n)
  OBVIOUS
<1>4. hi + x <= DataMax /\ lo + u >= DataMin
  BY <1>1, <1>3 DEF Within
<1>5. y + 1 <= x /\ v + 1 >= u /\ DataMax \in Nat /\ DataMin \in Nat
  BY <1>3, DataBounds
<1>6. hi + 1 + y <= DataMax /\ lo + 1 + v >= DataMin
  BY <1>4, <1>5
<1>7. QED
  BY <1>2, <1>3, <1>6 DEF Within

(* In a memory in which nothing changes that the access waits for.         *)
LEMMA WithinSame ==
    ASSUME NEW mm, NEW n, SameTimer(mm, n), n.dataQueue = mm.dataQueue, NEW o,
           Waits(o) => (n.finished = o.memId <=> mm.finished = o.memId),
           o.phase \in {"WaitForLOAD", "WaitForCACHE", "WaitForSTORE"},
           o.stalled => policy.unblockStores,
           NEW t, Within(o, mm, t)
    PROVE  Within(o, n, t)
<1>1. Remaining(n) = Remaining(mm) /\ LongestStall(n) = LongestStall(mm)
  BY SameTimerIs DEF LongestStall
<1>2. Waits(o) => /\ LongestWait(n, o.memId) = LongestWait(mm, o.memId)
                  /\ ShortestWait(n, o.memId) = ShortestWait(mm, o.memId)
  BY <1>1 DEF LongestWait, ShortestWait, SameTimer
<1>3. AtMost(o, n) = AtMost(o, mm)
  BY <1>1, <1>2 DEF AtMost, Waits
<1>4. AtLeast(o, n) = AtLeast(o, mm)
  BY <1>1, <1>2 DEF AtLeast, Waits
<1>5. QED
  BY <1>3, <1>4 DEF Within

(* An access half way through a cycle, before its port has cycled: it has  *)
(* been waiting for the memory in this cycle, too.                         *)
HalfWay(o, mm, t) ==
    InCaches(o) /\ Within(o, mm, IF Waits(o) \/ o.stalled THEN Later(t) ELSE t)

LEMMA HalfWayThere ==
    ASSUME LongestLoad, NEW m, Whole(m), ~m.rejected, DataUnmissed(m), NEW t \in Times,
           InTime(m, t), NEW n \in MemoryCycled(m)
    PROVE  /\ JustCycled(n.memory) /\ (n.memory.dataQueue # <<>> => MaxLoadTime >= 2)
           /\ \A o \in Range(n.data.ongoing) : HalfWay(o, n.memory, t)
<1> DEFINE mm == m.memory
<1>1. PICK c \in CycleMemory(mm) : n = [m EXCEPT !.memory = c]
  BY DEF MemoryCycled
<1>2. m \in Topologies /\ MemoryOK(mm) /\ Timed(mm) /\ ComponentOK(m.data)
  BY DEF Whole, TopologyOK, InTime
<1>3. /\ JustCycled(c)
      /\ mm.dataQueue # <<>> => LongestStall(c) + 1 <= LongestStall(mm)
      /\ c.dataQueue # <<>> => MaxLoadTime >= 2
      /\ \A id : IsAwaited(mm, id) =>
            /\ LongestWait(c, id) + 1 <= LongestWait(mm, id)
            /\ ShortestWait(c, id) + 1 >= ShortestWait(mm, id)
  BY <1>1, <1>2, MemoryTakesItsTime
<1>4. mm \in MemoryStates /\ c \in MemoryStates
  BY <1>1, <1>2, CycleMemoryIs DEF MemoryOK
<1>5. n.memory = c /\ n.data = m.data
  BY <1>1, <1>2, <1>4 DEF Topologies
<1> HIDE DEF mm
<1>6. ASSUME NEW o \in Range(m.data.ongoing)
      PROVE  HalfWay(o, c, t)
  <2>1. o \in OngoingAccess
    BY <1>2, PartsOfComponent, EmptyList
  <2>2. DataAccessOK(o, m)
    BY DEF Whole, DataSide
  <2>3. InCaches(o) /\ Within(o, mm, t) /\ (o.stalled => mm.dataQueue # <<>>)
    BY DEF InTime, mm
  <2>4. /\ t.lo \in Nat /\ t.hi \in Nat /\ Later(t).lo = t.lo + 1 /\ Later(t).hi = t.hi + 1
        /\ DataMin \in Nat /\ DataMax \in Nat /\ L2Latency \in Nat
    BY DataBounds, Latencies DEF Times, Later
  <2>5. /\ AtMost(o, mm) \in Nat /\ AtMost(o, c) \in Nat /\ AfterL2(o) \in Nat
        /\ LongestStall(mm) \in Nat /\ LongestStall(c) \in Nat /\ RoundTrip \in Nat
        /\ LongestWait(mm, o.memId) \in Nat /\ LongestWait(c, o.memId) \in Nat
    BY <1>4, <2>1, TimesOfAccess, TypesOfMemory, ServiceTimes
  <2>6. /\ Waits(o) => Awaits(o) /\ o.memId \in Ids /\ o.memId \in DataIds(mm)
        /\ o.stalled => policy.unblockStores /\ o.phase \in {"WaitForLOAD", "WaitForSTORE"}
        /\ ~Waits(o) /\ ~o.stalled =>
              \/ o.phase = "WaitForCACHE"
              \/ o.phase = "WaitForSTORE" /\ policy.unblockStores
    BY <2>1, <2>2, WaitsForMemory DEF mm
  <2>7. CASE o.stalled
    <3>1. LongestStall(c) + 1 <= LongestStall(mm)
      BY <1>3, <2>3, <2>7
    <3>2. AtMost(o, c) + 1 <= AtMost(o, mm)
      BY <2>4, <2>5, <2>6, <2>7, <3>1 DEF AtMost
    <3>3. AtLeast(o, c) = AtLeast(o, mm) /\ AtLeast(o, mm) \in Nat
      BY <2>4, <2>6, <2>7 DEF AtLeast
    <3>4. Within(o, c, Later(t))
      BY <2>3, <2>4, <2>5, <3>2, <3>3, WithinLater
    <3>5. QED
      BY <2>3, <2>7, <3>4 DEF HalfWay
  <2>8. CASE Waits(o)
    <3>1. IsAwaited(mm, o.memId)
      BY <2>6, <2>8 DEF IsAwaited, DataUnmissed, mm
    <3>2. /\ LongestWait(c, o.memId) + 1 <= LongestWait(mm, o.memId)
          /\ ShortestWait(c, o.memId) + 1 >= ShortestWait(mm, o.memId)
      BY <1>3, <3>1
    <3>3. AtMost(o, c) + 1 <= AtMost(o, mm)
      BY <2>4, <2>5, <2>8, <3>2 DEF AtMost, Waits
    <3>4. ShortestWait(mm, o.memId) \in Nat /\ ShortestWait(c, o.memId) \in Nat
      <4>1. o.memId \in DataIds(c)
        BY <1>4, <3>1, CycleMemoryIs, <1>2 DEF IsAwaited, DataIds, Moved, Ids, NoId
      <4>2. MemoryOK(c)
        BY <1>2, CycleMemoryIs
      <4>3. QED
        BY <1>2, <3>1, <4>1, <4>2, ShortestWaitType DEF IsAwaited
    <3>5. AtLeast(o, c) + 1 >= AtLeast(o, mm) /\ AtLeast(o, mm) \in Nat /\ AtLeast(o, c) \in Nat
      BY <2>4, <2>8, <3>2, <3>4 DEF AtLeast, Waits
    <3>6. Within(o, c, Later(t))
      BY <2>3, <2>5, <3>3, <3>5, WithinLater
    <3>7. QED
      BY <2>3, <2>8, <3>6 DEF HalfWay
  <2>9. CASE ~Waits(o) /\ ~o.stalled
    <3>1. AtMost(o, c) = AtMost(o, mm) /\ AtLeast(o, c) = AtLeast(o, mm)
      BY <2>6, <2>9 DEF AtMost, AtLeast
    <3>2. QED
      BY <2>3, <2>9, <3>1 DEF HalfWay, Within
  <2>10. QED
    BY <2>7, <2>8, <2>9
<1>7. QED
  BY <1>3, <1>5, <1>6

-----------------------------------------------------------------------------
(* A cycle of the data port: what goes on is within the bounds, and what   *)
(* is answered, too.                                                       *)

Punctual(n, t) ==
    /\ JustCycled(n.memory)
    /\ \A q \in Range(n.data.ongoing) :
          /\ InCaches(q) /\ Within(q, n.memory, Later(t))
          /\ q.stalled => n.memory.dataQueue # <<>>
    /\ n.data.finished # NoId => t.hi + 1 <= DataMax /\ t.lo + 1 >= DataMin

(* What is known before the data port cycles.                              *)
Begun(m, o, t) ==
    /\ Serves(m, o) /\ ~m.rejected /\ t \in Times
    /\ JustCycled(m.memory) /\ (m.memory.dataQueue # <<>> => MaxLoadTime >= 2)

(* The access o has been tried: it waits for the memory, or is stalled.     *)
Tried(m, o, type, n) ==
    /\ SameTimer(m.memory, n.memory) /\ n.memory \in MemoryStates
    /\ n.data.finished = m.data.finished
    /\ \E p \in OngoingAccess :
          /\ Range(n.data.ongoing) = {p} /\ SameAccess(o, p)
          /\ \/ /\ m.memory.dataQueue = <<>> /\ ~p.stalled
                /\ LongestWait(n.memory, p.memId) <= RoundTrip
                /\ ShortestWait(n.memory, p.memId) = ServiceTime[type]
             \/ /\ n.memory = m.memory /\ m.memory.dataQueue # <<>> /\ p.stalled
                /\ LongestStall(n.memory) <= MaxLoadTime

LEMMA TryTakes ==
    ASSUME LongestLoad, NEW m, TopologyOK(m), Timed(m.memory), NEW o \in OngoingAccess,
           NEW type \in AccessType, NEW n, n = TryMemory(m, o, type)
    PROVE  Tried(m, o, type, n)
<1>1. PICK p \in OngoingAccess, mm \in MemoryStates :
              /\ DataGoesOn(m, n, p, mm, m.rejected) /\ SameAccess(o, p)
              /\ \/ /\ m.memory.dataQueue = <<>> /\ ~p.stalled
                    /\ p.memId \in Ids /\ p.memId \notin IdsInMemory(m.memory)
                    /\ mm = AccessData(m.memory, p.memId, type)
                 \/ /\ m.memory.dataQueue # <<>> /\ p.stalled /\ mm = m.memory
  <2>1. \E p \in OngoingAccess : \E mm \in MemoryStates :
              /\ DataGoesOn(m, n, p, mm, m.rejected) /\ SameAccess(o, p)
              /\ \/ /\ m.memory.dataQueue = <<>> /\ ~p.stalled
                    /\ p.memId \in Ids /\ p.memId \notin IdsInMemory(m.memory)
                    /\ \A i \in Range(m.instr.ongoing) : i.memId # p.memId
                    /\ mm = AccessData(m.memory, p.memId, type)
                 \/ /\ m.memory.dataQueue # <<>> /\ p.stalled /\ p.memId = o.memId
                    /\ mm = m.memory
    BY TryMemoryIs
  <2>2. QED
    BY <2>1
<1>2. n.memory = mm /\ n.data.finished = m.data.finished /\ Range(n.data.ongoing) = {p}
  BY <1>1, ListOfOne DEF DataGoesOn
<1>3. m.memory \in MemoryStates
  BY PartsOfTopology
<1>4. SameTimer(m.memory, mm)
  BY <1>1, <1>3 DEF AccessData, SameTimer, MemoryStates
<1>5. /\ Remaining(mm) = Remaining(m.memory) /\ Remaining(mm) \in Nat /\ Remaining(mm) < MaxLoadTime
      /\ MaxLoadTime \in Nat \ {0} /\ RoundTrip = 2 * MaxLoadTime - 1
  <2>1. Remaining(m.memory) < MaxLoadTime
    BY ServiceTimes DEF Timed, Remaining
  <2>2. QED
    BY <1>1, <1>3, <1>4, <2>1, SameTimerIs, TypesOfMemory, ServiceTimes
<1>6. CASE m.memory.dataQueue = <<>>
  <2>1. /\ ~p.stalled /\ p.memId \notin IdsInMemory(m.memory)
        /\ mm = AccessData(m.memory, p.memId, type)
    BY <1>1, <1>6
  <2>2. /\ mm.current # p.memId /\ mm.finished # p.memId
        /\ mm.dataQueue[1].type = type
    BY <1>3, <2>1 DEF AccessData, IdsInMemory, MemoryStates
  <2>3. LongestWait(mm, p.memId) <= RoundTrip
    BY <1>5, <2>2 DEF LongestWait
  <2>4. ShortestWait(mm, p.memId) = ServiceTime[type]
    BY <2>2 DEF ShortestWait
  <2>5. QED
    BY <1>1, <1>2, <1>4, <1>6, <2>1, <2>3, <2>4 DEF Tried
<1>7. CASE m.memory.dataQueue # <<>>
  <2>1. p.stalled /\ mm = m.memory
    BY <1>1, <1>7
  <2>2. LongestStall(mm) <= MaxLoadTime
    BY <1>5 DEF LongestStall
  <2>3. QED
    BY <1>1, <1>2, <1>4, <1>7, <2>1, <2>2 DEF Tried
<1>8. QED
  BY <1>6, <1>7

(* An access goes on to a store or a write-back.                           *)
LEMMA StoreInTime ==
    ASSUME LongestLoad, NEW m, NEW o, NEW t, Begun(m, o, t), NEW p, Updated(m, o, p),
           NEW s \in OngoingAccess, s.phase = "WaitForSTORE", s.cl = p.cl,
           NEW type \in AccessType, NEW n, n = TryMemory(m, s, type),
           t.hi + 2 <= DataMax, t.lo + 2 >= DataMin,
           ~policy.unblockStores \/ p.cl # "L2MISS" => t.hi + 1 + RoundTrip <= DataMax
    PROVE  Punctual(n, t)
<1>1. TopologyOK(m) /\ JustCycled(m.memory) /\ Timed(m.memory) /\ m.data.finished = NoId
  BY DEF Begun, Serves, Whole, JustCycled
<1>2. Tried(m, s, type, n)
  BY <1>1, TryTakes
<1>3. PICK q \in OngoingAccess :
                 /\ Range(n.data.ongoing) = {q} /\ SameAccess(s, q)
                 /\ \/ /\ m.memory.dataQueue = <<>> /\ ~q.stalled
                       /\ LongestWait(n.memory, q.memId) <= RoundTrip
                       /\ ShortestWait(n.memory, q.memId) = ServiceTime[type]
                    \/ /\ n.memory = m.memory /\ m.memory.dataQueue # <<>> /\ q.stalled
                       /\ LongestStall(n.memory) <= MaxLoadTime
  BY <1>2 DEF Tried
<1>4. q.phase = "WaitForSTORE" /\ InCaches(q)
  BY <1>3 DEF SameAccess, InCaches
<1>5. ~policy.unblockStores \/ p.cl = "L2MISS" => m.memory.dataQueue = <<>>
  BY UpdatedOwnsQueue
<1>6. n.memory \in MemoryStates
  BY <1>2 DEF Tried
<1>7. /\ LongestWait(n.memory, q.memId) \in Nat /\ LongestStall(n.memory) \in Nat
      /\ RoundTrip \in Nat \ {0} /\ RoundTrip = 2 * MaxLoadTime - 1 /\ MaxLoadTime \in Nat
      /\ ServiceTime[type] \in Nat \ {0} /\ DataMax \in Nat /\ DataMin \in Nat
      /\ t.hi \in Nat /\ t.lo \in Nat
  BY <1>6, TypesOfMemory, ServiceTimes, DataBounds DEF Begun, Times
<1>8. t.hi + 1 + AtMost(q, n.memory) <= DataMax
  <2>1. CASE ~policy.unblockStores
    BY <1>3, <1>4, <1>5, <1>7, <2>1 DEF AtMost
  <2>2. CASE policy.unblockStores /\ ~q.stalled
    BY <1>4, <1>7, <2>2 DEF AtMost
  <2>3. CASE policy.unblockStores /\ q.stalled
    <3>1. p.cl # "L2MISS" /\ MaxLoadTime >= 2 /\ LongestStall(n.memory) <= MaxLoadTime
      BY <1>3, <1>5, <2>3 DEF Begun
    <3>2. AtMost(q, n.memory) = LongestStall(n.memory) + 1
      BY <1>4, <2>3 DEF AtMost
    <3>3. QED
      BY <1>7, <3>1, <3>2
  <2>4. QED
    BY <2>1, <2>2, <2>3
<1>9. t.lo + 1 + AtLeast(q, n.memory) >= DataMin
  <2>1. AtLeast(q, n.memory) \in Nat \ {0}
    BY <1>3, <1>4, <1>5, <1>7 DEF AtLeast
  <2>2. QED
    BY <1>7, <2>1
<1>10. Within(q, n.memory, Later(t))
  BY <1>8, <1>9 DEF Within, Later
<1>11. JustCycled(n.memory)
  BY <1>1, <1>2, SameTimerIs DEF Tried
<1>12. q.stalled => n.memory.dataQueue # <<>>
  BY <1>3
<1>13. QED
  BY <1>1, <1>2, <1>3, <1>4, <1>10, <1>11, <1>12 DEF Punctual, Tried

(* An access is answered; mm is the memory then.                           *)
LEMMA AnsweredInTime ==
    ASSUME NEW m, NEW o, NEW t, Begun(m, o, t), NEW p, NEW mm \in MemoryStates,
           SameTimer(m.memory, mm),
           NEW n, n = [m EXCEPT !.data = Finish(m.data, p), !.memory = mm],
           t.hi + 1 <= DataMax, t.lo + 1 >= DataMin
    PROVE  Punctual(n, t)
<1>1. m \in Topologies /\ m.data \in MemoryComponent
  BY PartsOfTopology DEF Begun, Serves, Whole, TopologyOK
<1>2. n.memory = mm /\ n.data.ongoing = <<>>
  BY <1>1 DEF Topologies, MemoryComponent, Finish
<1>3. Range(n.data.ongoing) = {}
  BY <1>2, EmptyList
<1>4. JustCycled(mm)
  BY SameTimerIs DEF Begun
<1>5. QED
  BY <1>2, <1>3, <1>4 DEF Punctual

(* An access goes on in the caches.                                        *)
LEMMA CachesInTime ==
    ASSUME NEW m, NEW o, NEW t, Begun(m, o, t), NEW p \in OngoingAccess,
           InCaches(p), ~p.stalled, NEW mm \in MemoryStates, SameTimer(m.memory, mm),
           Within(p, mm, Later(t)),
           NEW n, DataGoesOn(m, n, p, mm, m.rejected)
    PROVE  Punctual(n, t)
<1>1. n.memory = mm /\ n.data.finished = m.data.finished /\ Range(n.data.ongoing) = {p}
  BY ListOfOne DEF DataGoesOn
<1>2. JustCycled(mm) /\ m.data.finished = NoId
  BY SameTimerIs DEF Begun, Serves
<1>3. QED
  BY <1>1, <1>2 DEF Punctual

(* What is known of an access that spends its time in the caches.          *)
Due(m, o, t) ==
    Begun(m, o, t) /\ o.phase = "WaitForCACHE" /\ ~o.stalled /\ HalfWay(o, m.memory, t)

(* It goes on to the memory, or is answered, once a cache is updated.      *)
LEMMA BehindTheCaches ==
    ASSUME LongestLoad, NEW m, NEW o, NEW t, Begun(m, o, t), NEW p, Updated(m, o, p),
           NEW n,
           \/ n = StoreThrough(m, p)
           \/ /\ t.lo + 1 >= DataMin
              /\ \/ MayWriteBack(p) /\ n \in WriteBackOrNot(m, p)
                 \/ n = [m EXCEPT !.data = Finish(m.data, p)],
           t.hi + 2 <= DataMax, t.lo + 2 >= DataMin,
           ~policy.unblockStores \/ p.cl # "L2MISS" => t.hi + 1 + RoundTrip <= DataMax
    PROVE  Punctual(n, t)
<1> DEFINE s == [p EXCEPT !.phase = "WaitForSTORE"]
<1>1. s \in OngoingAccess /\ s.phase = "WaitForSTORE" /\ s.cl = p.cl
  BY DEF Updated, OngoingAccess, Phase
<1>2. m \in Topologies /\ m.memory \in MemoryStates
  BY ServedAccess DEF Begun, MemoryOK
<1>3. /\ t.lo \in Nat /\ t.hi \in Nat /\ DataMin \in Nat /\ DataMax \in Nat
      /\ t.hi + 1 <= DataMax
  BY DataBounds DEF Begun, Times
<1>4. CASE t.lo + 1 >= DataMin /\ n = [m EXCEPT !.data = Finish(m.data, p)]
  <2>1. n = [m EXCEPT !.data = Finish(m.data, p), !.memory = m.memory]
    BY <1>2, <1>4 DEF Topologies
  <2>2. SameTimer(m.memory, m.memory)
    BY DEF SameTimer
  <2>3. QED
    BY <1>2, <1>3, <1>4, <2>1, <2>2, AnsweredInTime
<1>5. ASSUME NEW type \in AccessType, n = TryMemory(m, s, type)
      PROVE  Punctual(n, t)
  <2> HIDE DEF s
  <2>1. QED
    BY <1>1, <1>5, StoreInTime
<1>6. n = StoreThrough(m, p) => n = TryMemory(m, s, "STORE")
  BY DEF StoreThrough
<1>7. MayWriteBack(p) => m.memory.dataQueue = <<>>
  BY UpdatedOwnsQueue DEF MayWriteBack
<1>8. MayWriteBack(p) /\ n = DemandMemory(m, s, "WRITEBACK") => n = TryMemory(m, s, "WRITEBACK")
  <2> HIDE DEF s
  <2>1. QED
    BY <1>7 DEF DemandMemory, AcceptsData
<1>9. n \in WriteBackOrNot(m, p) =>
         n = DemandMemory(m, s, "WRITEBACK") \/ n = [m EXCEPT !.data = Finish(m.data, p)]
  BY DEF WriteBackOrNot
<1>10. "STORE" \in AccessType /\ "WRITEBACK" \in AccessType
  BY DEF AccessType
<1> HIDE DEF s
<1>11. QED
  BY <1>4, <1>5, <1>6, <1>8, <1>9, <1>10

LEMMA UpdateL2InTime ==
    ASSUME LongestLoad, NEW m, NEW o, NEW t, Due(m, o, t), o.inL2, Decremented(o.l2) = 0,
           NEW n \in UpdateL2(m, [o EXCEPT !.l2 = 0, !.updated = @ \cup {"L2"}])
    PROVE  Punctual(n, t)
<1> DEFINE p == [o EXCEPT !.l2 = 0, !.updated = @ \cup {"L2"}]
<1>1. /\ DataAccessOK(o, m) /\ o \in OngoingAccess /\ Begun(m, o, t)
      /\ m \in Topologies /\ m.memory \in MemoryStates
  BY ServedAccess DEF Due, Begun, Serves, MemoryOK
<1>2. o.memId = NoId
  BY <1>1 DEF DataAccessOK, DataPhase, Due
<1>3. /\ p \in OngoingAccess /\ p.access = o.access /\ p.cl = o.cl /\ p.memId = o.memId
      /\ p.phase = o.phase
  BY <1>1 DEF OngoingAccess, Levels
<1>4. p.stalled = o.stalled
  BY <1>1 DEF OngoingAccess
<1>5. n \in UpdateL2(m, p)
  OBVIOUS
<1> HIDE DEF p
<1>6. Updated(m, o, p)
  BY <1>1, <1>2, <1>3, <1>4 DEF Updated, Due, Begun
<1>7. InCaches(o) /\ Within(o, m.memory, t)
  BY DEF Due, HalfWay, Waits
<1>8. o.l2 = 1 /\ o.cl # "HIT"
  BY <1>1, <1>7 DEF InCaches, Due, OngoingAccess, Decremented
<1>9. /\ t.lo \in Nat /\ t.hi \in Nat /\ DataMin \in Nat /\ DataMax \in Nat
      /\ InstrLatency \in Nat \ {0} /\ RoundTrip \in Nat \ {0}
  BY <1>1, DataBounds, Latencies, ServiceTimes DEF Begun, Times
<1>10. t.hi + (1 + AfterL2(o)) <= DataMax
  BY <1>7, <1>8 DEF Within, AtMost, Due
<1>11. /\ o.cl = "L2MISS" => t.lo + 1 >= DataMin
       /\ t.lo + 2 >= DataMin
  BY <1>7, <1>8, <1>9 DEF Within, AtLeast, Due
<1>12. /\ t.hi + 2 <= DataMax /\ t.hi + 1 + InstrLatency <= DataMax
       /\ ~policy.unblockStores \/ o.cl # "L2MISS" => t.hi + 1 + RoundTrip <= DataMax
  BY <1>9, <1>10 DEF AfterL2, Larger
<1>13. CASE MayWriteBack(p) \/ IsStoreThrough(p)
  <2>1. \/ IsStoreThrough(p) /\ n = StoreThrough(m, p)
        \/ MayWriteBack(p) /\ n \in WriteBackOrNot(m, p)
    BY <1>5, <1>13 DEF UpdateL2
  <2>2. QED
    BY <1>1, <1>3, <1>6, <1>11, <1>12, <2>1, BehindTheCaches DEF MayWriteBack
<1>14. CASE ~IsStoreThrough(p) /\ ~MayWriteBack(p)
  <2> DEFINE q == [p EXCEPT !.inL2 = FALSE, !.l1 = InstrLatency]
  <2>1. n = [m EXCEPT !.data.ongoing = <<q>>]
    BY <1>5, <1>14 DEF UpdateL2
  <2>2. /\ q \in OngoingAccess /\ q.access = p.access /\ q.cl = p.cl
        /\ q.phase = p.phase /\ q.l1 = InstrLatency
    BY <1>3, Latencies DEF OngoingAccess
  <2>3. q.stalled = p.stalled /\ q.inL2 = FALSE
    BY <1>3 DEF OngoingAccess
  <2> HIDE DEF q
  <2>4. InCaches(q)
    BY <1>3, <1>8, <1>9, <1>14, <2>2, <2>3 DEF InCaches, IsStoreThrough, MayWriteBack
  <2>5. Within(q, m.memory, Later(t))
    <3>1. AtMost(q, m.memory) = InstrLatency /\ AtLeast(q, m.memory) = InstrLatency
      BY <1>3, <1>8, <1>9, <2>2, <2>3 DEF AtMost, AtLeast, Due
    <3>2. QED
      BY <1>9, <1>11, <1>12, <3>1 DEF Within, Later
  <2>6. DataGoesOn(m, n, q, m.memory, m.rejected)
    BY <1>1, <2>1, <2>2, DataOngoing
  <2>7. SameTimer(m.memory, m.memory) /\ ~q.stalled
    BY <1>4, <2>3 DEF SameTimer, Due
  <2>8. QED
    BY <1>1, <2>2, <2>4, <2>5, <2>6, <2>7, CachesInTime
<1>15. QED
  BY <1>13, <1>14

LEMMA UpdateL1InTime ==
    ASSUME LongestLoad, NEW m, NEW o, NEW t, Due(m, o, t), ~o.inL2, Decremented(o.l1) = 0,
           NEW n \in UpdateL1(m, [o EXCEPT !.l1 = 0, !.updated = @ \cup {"L1"}])
    PROVE  Punctual(n, t)
<1> DEFINE p == [o EXCEPT !.l1 = 0, !.updated = @ \cup {"L1"}]
<1>1. /\ DataAccessOK(o, m) /\ o \in OngoingAccess /\ Begun(m, o, t)
      /\ m \in Topologies /\ m.memory \in MemoryStates
  BY ServedAccess DEF Due, Begun, Serves, MemoryOK
<1>2. o.memId = NoId
  BY <1>1 DEF DataAccessOK, DataPhase, Due
<1>3. /\ p \in OngoingAccess /\ p.access = o.access /\ p.cl = o.cl /\ p.memId = o.memId
      /\ p.phase = o.phase
  BY <1>1 DEF OngoingAccess, Levels
<1>4. p.stalled = o.stalled
  BY <1>1 DEF OngoingAccess
<1>5. n \in UpdateL1(m, p)
  OBVIOUS
<1> HIDE DEF p
<1>6. Updated(m, o, p)
  BY <1>1, <1>2, <1>3, <1>4 DEF Updated, Due, Begun
<1>7. InCaches(o) /\ Within(o, m.memory, t)
  BY DEF Due, HalfWay, Waits
<1>8. o.l1 = 1 /\ (o.cl # "HIT" => ~IsStoreThrough(p) /\ ~MayWriteBack(p))
  BY <1>1, <1>3, <1>7 DEF InCaches, Due, OngoingAccess, Decremented, IsStoreThrough, MayWriteBack
<1>9. /\ t.lo \in Nat /\ t.hi \in Nat /\ DataMin \in Nat /\ DataMax \in Nat
      /\ RoundTrip \in Nat \ {0}
  BY <1>1, DataBounds, ServiceTimes DEF Begun, Times
<1>10. /\ t.hi + (1 + (IF o.cl = "HIT" THEN RoundTrip ELSE 0)) <= DataMax
       /\ t.lo + 1 >= DataMin
  BY <1>7, <1>8 DEF Within, AtMost, AtLeast, Due
<1>11. CASE o.cl = "HIT"
  <2>1. t.hi + 2 <= DataMax /\ t.hi + 1 + RoundTrip <= DataMax /\ t.lo + 2 >= DataMin
    BY <1>9, <1>10, <1>11
  <2>2. \/ n = StoreThrough(m, p)
        \/ MayWriteBack(p) /\ n \in WriteBackOrNot(m, p)
        \/ n = [m EXCEPT !.data = Finish(m.data, p)]
    BY <1>5 DEF UpdateL1
  <2>3. QED
    BY <1>1, <1>6, <1>10, <2>1, <2>2, BehindTheCaches
<1>12. CASE o.cl # "HIT"
  <2>1. n = [m EXCEPT !.data = Finish(m.data, p)]
    BY <1>5, <1>8, <1>12 DEF UpdateL1
  <2>2. n = [m EXCEPT !.data = Finish(m.data, p), !.memory = m.memory]
    BY <1>1, <2>1 DEF Topologies
  <2>3. SameTimer(m.memory, m.memory)
    BY DEF SameTimer
  <2>4. t.hi + 1 <= DataMax
    BY <1>9, <1>10, <1>12
  <2>5. QED
    BY <1>1, <1>10, <2>2, <2>3, <2>4, AnsweredInTime
<1>13. QED
  BY <1>11, <1>12

LEMMA CachePhaseInTime ==
    ASSUME LongestLoad, NEW m, NEW o, NEW t, Due(m, o, t), NEW n \in CheckCachePhase(m, o)
    PROVE  Punctual(n, t)
<1> DEFINE l2 == Decremented(o.l2)
           l1 == Decremented(o.l1)
<1>1. /\ o \in OngoingAccess /\ Begun(m, o, t) /\ m \in Topologies
      /\ m.memory \in MemoryStates /\ InCaches(o) /\ Within(o, m.memory, t)
  BY ServedAccess DEF Due, Begun, Serves, MemoryOK, HalfWay, Waits
<1>2. /\ l1 \in Nat /\ l2 \in Nat /\ o.l1 \in Nat /\ o.l2 \in Nat
      /\ l1 > 0 => l1 = o.l1 - 1
      /\ l2 > 0 => l2 = o.l2 - 1
  BY <1>1, DecrementedIs DEF OngoingAccess, Decremented
<1>3. \/ o.inL2 /\ l2 > 0 /\ n = [m EXCEPT !.data.ongoing = <<[o EXCEPT !.l2 = l2]>>]
      \/ /\ o.inL2 /\ ~(l2 > 0)
         /\ n \in UpdateL2(m, [o EXCEPT !.l2 = 0, !.updated = @ \cup {"L2"}])
      \/ ~o.inL2 /\ l1 > 0 /\ n = [m EXCEPT !.data.ongoing = <<[o EXCEPT !.l1 = l1]>>]
      \/ /\ ~o.inL2 /\ ~(l1 > 0)
         /\ n \in UpdateL1(m, [o EXCEPT !.l1 = 0, !.updated = @ \cup {"L1"}])
  BY DEF CheckCachePhase
<1>4. ASSUME NEW p \in OngoingAccess, p.access = o.access, p.cl = o.cl, p.phase = o.phase,
             p.stalled = o.stalled, p.inL2 = o.inL2, InCaches(p),
             AtMost(p, m.memory) + 1 <= AtMost(o, m.memory),
             AtLeast(p, m.memory) + 1 >= AtLeast(o, m.memory),
             AtLeast(p, m.memory) \in Nat, AtLeast(o, m.memory) \in Nat,
             n = [m EXCEPT !.data.ongoing = <<p>>]
      PROVE  Punctual(n, t)
  <2>1. t \in Times /\ AtMost(p, m.memory) \in Nat /\ AtMost(o, m.memory) \in Nat
    BY <1>1, <1>4, TimesOfAccess DEF Begun
  <2>2. Within(p, m.memory, Later(t))
    BY <1>1, <1>4, <2>1, WithinLater
  <2>3. DataGoesOn(m, n, p, m.memory, m.rejected)
    BY <1>1, <1>4, DataOngoing
  <2>4. SameTimer(m.memory, m.memory) /\ ~p.stalled
    BY <1>4 DEF SameTimer, Due
  <2>5. QED
    BY <1>1, <1>4, <2>2, <2>3, <2>4, CachesInTime
<1>5. CASE o.inL2 /\ l2 > 0 /\ n = [m EXCEPT !.data.ongoing = <<[o EXCEPT !.l2 = l2]>>]
  <2> DEFINE p == [o EXCEPT !.l2 = l2]
  <2> HIDE DEF l1, l2
  <2>1. /\ p \in OngoingAccess /\ p.access = o.access /\ p.cl = o.cl
        /\ p.phase = o.phase /\ p.l2 = l2
    BY <1>1, <1>2 DEF OngoingAccess
  <2>2. p.stalled = o.stalled /\ p.inL2 = o.inL2
    BY <1>1 DEF OngoingAccess
  <2>3. n = [m EXCEPT !.data.ongoing = <<p>>]
    BY <1>5
  <2> HIDE DEF p
  <2>4. InCaches(p)
    BY <1>1, <1>5, <2>1, <2>2 DEF InCaches, Due
  <2>5. AfterL2(p) = AfterL2(o) /\ AfterL2(o) \in Nat
    BY <1>1, <2>1, TimesOfAccess DEF AfterL2
  <2>6. AtMost(p, m.memory) + 1 = AtMost(o, m.memory)
    BY <1>2, <1>5, <2>1, <2>2, <2>5 DEF AtMost, Due
  <2>7. /\ AtLeast(p, m.memory) + 1 = AtLeast(o, m.memory)
        /\ AtLeast(p, m.memory) \in Nat /\ AtLeast(o, m.memory) \in Nat
    BY <1>2, <1>5, <2>1, <2>2 DEF AtLeast, Due
  <2>8. AtMost(p, m.memory) \in Nat
    BY <1>1, <2>1, TimesOfAccess
  <2>9. QED
    BY <1>4, <2>1, <2>2, <2>3, <2>4, <2>6, <2>7, <2>8
<1>6. CASE /\ o.inL2 /\ ~(l2 > 0)
           /\ n \in UpdateL2(m, [o EXCEPT !.l2 = 0, !.updated = @ \cup {"L2"}])
  <2>1. Decremented(o.l2) = 0
    BY <1>2, <1>6
  <2>2. QED
    BY <1>6, <2>1, UpdateL2InTime
<1>7. CASE ~o.inL2 /\ l1 > 0 /\ n = [m EXCEPT !.data.ongoing = <<[o EXCEPT !.l1 = l1]>>]
  <2> DEFINE p == [o EXCEPT !.l1 = l1]
  <2> HIDE DEF l1, l2
  <2>1. /\ p \in OngoingAccess /\ p.access = o.access /\ p.cl = o.cl
        /\ p.phase = o.phase /\ p.l1 = l1
    BY <1>1, <1>2 DEF OngoingAccess
  <2>2. p.stalled = o.stalled /\ p.inL2 = o.inL2
    BY <1>1 DEF OngoingAccess
  <2>3. n = [m EXCEPT !.data.ongoing = <<p>>]
    BY <1>7
  <2> HIDE DEF p
  <2>4. InCaches(p)
    BY <1>1, <1>7, <2>1, <2>2 DEF InCaches, Due, IsStoreThrough, MayWriteBack
  <2>5. RoundTrip \in Nat
    BY ServiceTimes
  <2>6. AtMost(p, m.memory) + 1 = AtMost(o, m.memory)
    BY <1>2, <1>7, <2>1, <2>2, <2>5 DEF AtMost, Due
  <2>7. /\ AtLeast(p, m.memory) + 1 = AtLeast(o, m.memory)
        /\ AtLeast(p, m.memory) \in Nat /\ AtLeast(o, m.memory) \in Nat
    BY <1>2, <1>7, <2>1, <2>2 DEF AtLeast, Due
  <2>8. AtMost(p, m.memory) \in Nat
    BY <1>1, <2>1, TimesOfAccess
  <2>9. QED
    BY <1>4, <2>1, <2>2, <2>3, <2>4, <2>6, <2>7, <2>8
<1>8. CASE /\ ~o.inL2 /\ ~(l1 > 0)
           /\ n \in UpdateL1(m, [o EXCEPT !.l1 = 0, !.updated = @ \cup {"L1"}])
  <2>1. Decremented(o.l1) = 0
    BY <1>2, <1>8
  <2>2. QED
    BY <1>8, <2>1, UpdateL1InTime
<1>9. QED
  BY <1>3, <1>5, <1>6, <1>7, <1>8

(* An access that still waits for the memory.                              *)
LEMMA StillWaits ==
    ASSUME NEW m, NEW o, NEW t, Begun(m, o, t), Waits(o), HalfWay(o, m.memory, t)
    PROVE  Punctual(m, t)
<1>1. InCaches(o) /\ Within(o, m.memory, Later(t)) /\ ~o.stalled
  BY DEF HalfWay, Waits
<1>2. Range(m.data.ongoing) = {o} /\ m.data.finished = NoId /\ JustCycled(m.memory)
  BY DEF Begun, Serves
<1>3. QED
  BY <1>1, <1>2 DEF Punctual

LEMMA EndTakenTimer ==
    ASSUME NEW mm \in MemoryStates
    PROVE  /\ [mm EXCEPT !.finished = NoId] \in MemoryStates
           /\ SameTimer(mm, [mm EXCEPT !.finished = NoId])
BY DEF MemoryStates, SameTimer

LEMMA LoadPhaseInTime ==
    ASSUME LongestLoad, NEW m, NEW o, NEW t, Begun(m, o, t), ~o.stalled,
           o.phase = "WaitForLOAD", HalfWay(o, m.memory, t), NEW n, n = CheckLoadPhase(m, o)
    PROVE  Punctual(n, t)
<1>1. Waits(o) /\ InCaches(o) /\ Within(o, m.memory, Later(t))
  BY DEF Waits, HalfWay
<1>2. DataAccessOK(o, m) /\ m \in Topologies /\ m.memory \in MemoryStates /\ o \in OngoingAccess
  BY ServedAccess DEF Begun, Serves, MemoryOK
<1>3. o.cl = "L2MISS"
  BY <1>2 DEF DataAccessOK, DataPhase
<1>4. CASE ~MemoryFinished(m, o)
  <2>1. n = m
    BY <1>4 DEF CheckLoadPhase
  <2>2. QED
    BY <1>1, <2>1, StillWaits
<1>5. CASE MemoryFinished(m, o)
  <2> DEFINE p == [BackFromMemory(o) EXCEPT !.phase = "WaitForCACHE"]
             mm == [m.memory EXCEPT !.finished = NoId]
  <2>1. n = [m EXCEPT !.data.ongoing = <<p>>, !.memory = mm]
    BY <1>5 DEF CheckLoadPhase
  <2>2. p \in OngoingAccess /\ p.cl = o.cl /\ p.phase = "WaitForCACHE" /\ p.l2 = L2Latency
    BY <1>2, Latencies DEF BackFromMemory, OngoingAccess, Phase
  <2>3. p.inL2 = TRUE /\ p.stalled = o.stalled
    BY <1>2 DEF BackFromMemory, OngoingAccess
  <2>4. mm \in MemoryStates /\ SameTimer(m.memory, mm)
    BY <1>2, EndTakenTimer
  <2> HIDE DEF p, mm
  <2>5. InCaches(p)
    BY <1>3, <2>2, <2>3, Latencies DEF InCaches
  <2>6. /\ t.lo \in Nat /\ t.hi \in Nat /\ DataMin \in Nat /\ DataMax \in Nat
        /\ L2Latency \in Nat /\ DataMin <= L2Latency + 1 /\ AfterL2(o) \in Nat
    BY <1>2, DataBounds, Latencies, TimesOfAccess DEF Begun, Times
  <2>7. LongestWait(m.memory, o.memId) = 0
    BY <1>5 DEF LongestWait, MemoryFinished
  <2>8. AtMost(o, m.memory) = L2Latency + AfterL2(o)
    BY <2>6, <2>7 DEF AtMost
  <2>9. AtMost(p, mm) = L2Latency + AfterL2(o) /\ AtLeast(p, mm) = L2Latency
    BY <1>3, <2>2, <2>3, <2>6 DEF AtMost, AtLeast, AfterL2
  <2>10. Within(p, mm, Later(t))
    BY <1>1, <2>6, <2>8, <2>9 DEF Within, Later
  <2>11. DataGoesOn(m, n, p, mm, m.rejected)
    <3>1. DataGoesOn(m, [m EXCEPT !.data.ongoing = <<p>>, !.memory = mm], p, mm, m.rejected)
      BY <1>2, <2>2, <2>4, DataOngoing
    <3>2. QED
      BY <2>1, <3>1
  <2>12. QED
    BY <2>2, <2>3, <2>4, <2>5, <2>10, <2>11, CachesInTime
<1>6. QED
  BY <1>4, <1>5

LEMMA StorePhaseInTime ==
    ASSUME LongestLoad, NEW m, NEW o, NEW t, Begun(m, o, t), ~o.stalled,
           o.phase = "WaitForSTORE", HalfWay(o, m.memory, t), NEW n, n = CheckStorePhase(m, o)
    PROVE  Punctual(n, t)
<1>1. m \in Topologies /\ m.memory \in MemoryStates
  BY ServedAccess DEF Begun, MemoryOK
<1>2. t.lo \in Nat /\ t.hi \in Nat /\ DataMin \in Nat /\ DataMax \in Nat
  BY DataBounds DEF Begun, Times
<1>3. CASE policy.unblockStores
  <2>1. Within(o, m.memory, t)
    BY <1>3 DEF HalfWay, Waits
  <2>2. t.hi + 1 <= DataMax /\ t.lo + 1 >= DataMin
    BY <1>3, <2>1 DEF Within, AtMost, AtLeast
  <2>3. n = [m EXCEPT !.data = Finish(m.data, o)]
    BY <1>3 DEF CheckStorePhase
  <2>4. n = [m EXCEPT !.data = Finish(m.data, o), !.memory = m.memory]
    BY <1>1, <2>3 DEF Topologies
  <2>5. SameTimer(m.memory, m.memory)
    BY DEF SameTimer
  <2>6. QED
    BY <1>1, <2>2, <2>4, <2>5, AnsweredInTime
<1>4. CASE ~policy.unblockStores /\ ~MemoryFinished(m, o)
  <2>1. n = m /\ Waits(o)
    BY <1>4 DEF CheckStorePhase, Waits
  <2>2. QED
    BY <2>1, StillWaits
<1>5. CASE ~policy.unblockStores /\ MemoryFinished(m, o)
  <2>1. Within(o, m.memory, Later(t))
    BY <1>5 DEF HalfWay, Waits
  <2>2. LongestWait(m.memory, o.memId) = 0 /\ ShortestWait(m.memory, o.memId) = 0
    BY <1>5 DEF LongestWait, ShortestWait, MemoryFinished
  <2>3. AtMost(o, m.memory) = 0 /\ AtLeast(o, m.memory) = 0
    BY <1>5, <2>2 DEF AtMost, AtLeast
  <2>4. t.hi + 1 <= DataMax /\ t.lo + 1 >= DataMin
    BY <1>2, <2>1, <2>3 DEF Within, Later
  <2> DEFINE mm == [m.memory EXCEPT !.finished = NoId]
  <2>5. mm \in MemoryStates /\ SameTimer(m.memory, mm)
    BY <1>1, EndTakenTimer
  <2>6. n = [m EXCEPT !.data = Finish(m.data, o), !.memory = mm]
    BY <1>5 DEF CheckStorePhase
  <2> HIDE DEF mm
  <2>7. QED
    BY <2>4, <2>5, <2>6, AnsweredInTime
<1>6. QED
  BY <1>3, <1>4, <1>5

LEMMA StalledInTime ==
    ASSUME LongestLoad, NEW m, NEW o, NEW t, Begun(m, o, t), o.stalled,
           HalfWay(o, m.memory, t), NEW n,
           n = TryMemory(m, o, IF o.phase = "WaitForLOAD" THEN "LOAD" ELSE "STORE")
    PROVE  Punctual(n, t)
<1> DEFINE type == IF o.phase = "WaitForLOAD" THEN "LOAD" ELSE "STORE"
<1>1. /\ DataAccessOK(o, m) /\ TopologyOK(m) /\ JustCycled(m.memory) /\ Timed(m.memory)
      /\ m.data.finished = NoId /\ o \in OngoingAccess /\ m.memory \in MemoryStates
  BY ServedAccess DEF Begun, Serves, Whole, JustCycled, MemoryOK
<1>2. policy.unblockStores /\ o.phase \in {"WaitForLOAD", "WaitForSTORE"}
  BY <1>1 DEF DataAccessOK, DataPhase
<1>3. type \in AccessType /\ n = TryMemory(m, o, type)
  BY DEF AccessType
<1> HIDE DEF type
<1>4. Tried(m, o, type, n)
  BY <1>1, <1>3, TryTakes
<1>5. PICK q \in OngoingAccess :
          /\ Range(n.data.ongoing) = {q} /\ SameAccess(o, q)
          /\ \/ /\ m.memory.dataQueue = <<>> /\ ~q.stalled
                /\ LongestWait(n.memory, q.memId) <= RoundTrip
                /\ ShortestWait(n.memory, q.memId) = ServiceTime[type]
             \/ /\ n.memory = m.memory /\ m.memory.dataQueue # <<>> /\ q.stalled
                /\ LongestStall(n.memory) <= MaxLoadTime
  BY <1>4 DEF Tried
<1>6. q.phase = o.phase /\ q.cl = o.cl /\ InCaches(q)
  BY <1>2, <1>5 DEF SameAccess, InCaches
<1>7. n.memory \in MemoryStates /\ SameTimer(m.memory, n.memory) /\ n.data.finished = NoId
  BY <1>1, <1>4 DEF Tried
<1>8. /\ LongestWait(n.memory, q.memId) \in Nat /\ LongestStall(m.memory) \in Nat
      /\ RoundTrip \in Nat /\ DataMax \in Nat /\ t.hi \in Nat /\ L2Latency \in Nat
      /\ AfterL2(o) \in Nat /\ AfterL2(q) = AfterL2(o)
  BY <1>1, <1>6, <1>7, TypesOfMemory, ServiceTimes, DataBounds, TimesOfAccess, Latencies
  DEF Begun, Times, AfterL2
<1>9. Within(o, m.memory, Later(t))
  BY DEF HalfWay
<1>10. AtMost(q, n.memory) <= AtMost(o, m.memory)
  BY <1>2, <1>5, <1>6, <1>8 DEF AtMost
<1>11. AtLeast(q, n.memory) = AtLeast(o, m.memory)
  BY <1>2, <1>6 DEF AtLeast
<1>12. Within(q, n.memory, Later(t))
  <2>1. AtMost(q, n.memory) \in Nat /\ AtMost(o, m.memory) \in Nat
    BY <1>1, <1>7, TimesOfAccess
  <2>2. Later(t).hi + AtMost(o, m.memory) <= DataMax /\ Later(t).hi \in Nat
    BY <1>8, <1>9 DEF Within, Later
  <2>3. Later(t).hi + AtMost(q, n.memory) <= DataMax
    BY <1>8, <1>10, <2>1, <2>2
  <2>4. QED
    BY <1>9, <1>11, <2>3 DEF Within
<1>13. JustCycled(n.memory)
  BY <1>1, <1>7, SameTimerIs
<1>14. q.stalled => n.memory.dataQueue # <<>>
  BY <1>5
<1>15. QED
  BY <1>5, <1>6, <1>7, <1>12, <1>13, <1>14 DEF Punctual

(* A cycle of the data port takes its time.                                *)
LEMMA DataPartInTime ==
    ASSUME LongestLoad, NEW m, Whole(m), FetchUnmissed(m), m.data.done = <<>>,
           m.data.finished = NoId, ~m.rejected,
           policy \in PolicyType, policy.writeBack => policy.writeAllocate,
           NEW t \in Times, JustCycled(m.memory), m.memory.dataQueue # <<>> => MaxLoadTime >= 2,
           \A o \in Range(m.data.ongoing) : HalfWay(o, m.memory, t),
           NEW n \in CheckDataPart(m)
    PROVE  Punctual(n, t)
<1>1. CASE m.data.ongoing = <<>>
  <2>1. n = m
    BY <1>1 DEF CheckDataPart, IsOngoing
  <2>2. Range(m.data.ongoing) = {}
    BY <1>1, EmptyList
  <2>3. QED
    BY <2>1, <2>2 DEF Punctual
<1>2. CASE m.data.ongoing # <<>>
  <2> DEFINE o == m.data.ongoing[1]
  <2>1. o \in OngoingAccess /\ Range(m.data.ongoing) = {o}
    BY <1>2, PartsOfComponent DEF Whole, TopologyOK
  <2>2. Serves(m, o)
    BY <1>2, <2>1 DEF Serves
  <2>3. o.phase \in {"WaitForLOAD", "WaitForCACHE", "WaitForSTORE"}
    BY <2>2, ServedAccess DEF DataAccessOK, DataPhase
  <2>4. \/ o.stalled /\ n = TryMemory(m, o, IF o.phase = "WaitForLOAD" THEN "LOAD" ELSE "STORE")
        \/ ~o.stalled /\ o.phase = "WaitForLOAD" /\ n = CheckLoadPhase(m, o)
        \/ ~o.stalled /\ o.phase = "WaitForCACHE" /\ n \in CheckCachePhase(m, o)
        \/ ~o.stalled /\ o.phase = "WaitForSTORE" /\ n = CheckStorePhase(m, o)
    BY <1>2, <2>3, PhasesOfDataPart
  <2> HIDE DEF o
  <2>5. Begun(m, o, t) /\ HalfWay(o, m.memory, t)
    BY <2>1, <2>2 DEF Begun
  <2>6. CASE o.stalled
    BY <2>4, <2>5, <2>6, StalledInTime
  <2>7. CASE ~o.stalled /\ o.phase = "WaitForLOAD"
    BY <2>4, <2>5, <2>7, LoadPhaseInTime
  <2>8. CASE ~o.stalled /\ o.phase = "WaitForCACHE"
    BY <2>4, <2>5, <2>8, CachePhaseInTime DEF Due
  <2>9. CASE ~o.stalled /\ o.phase = "WaitForSTORE"
    BY <2>4, <2>5, <2>9, StorePhaseInTime
  <2>10. QED
    BY <2>3, <2>6, <2>7, <2>8, <2>9
<1>3. QED
  BY <1>1, <1>2

(* The instruction port takes the end of no access but its own.            *)
LEMMA InstructionPartInTime ==
    ASSUME NEW m, Whole(m), ~m.rejected, NEW t, JustCycled(m.memory),
           \A o \in Range(m.data.ongoing) : HalfWay(o, m.memory, t),
           NEW k, k = CheckInstructionPart(m), k.data = m.data
    PROVE  /\ JustCycled(k.memory) /\ k.memory.dataQueue = m.memory.dataQueue
           /\ k.rejected = m.rejected
           /\ \A o \in Range(k.data.ongoing) : HalfWay(o, k.memory, t)
<1>1. m \in Topologies /\ m.memory \in MemoryStates /\ ComponentOK(m.data) /\ ComponentOK(m.instr)
  BY PartsOfTopology DEF Whole, TopologyOK
<1>2. CASE k = m
  BY <1>2
<1>3. CASE k # m
  <2> DEFINE mm == [m.memory EXCEPT !.finished = NoId]
             i == m.instr.ongoing[1]
  <2>1. /\ k.rejected = m.rejected
        /\ \/ k.memory = m.memory
           \/ /\ k.memory = mm /\ IsOngoing(m.instr)
              /\ i.memId # NoId /\ m.memory.finished = i.memId
    BY <1>1, <1>3 DEF CheckInstructionPart, MemoryFinished, Topologies
  <2>2. SameTimer(m.memory, mm) /\ mm.dataQueue = m.memory.dataQueue /\ mm.finished = NoId
    BY <1>1 DEF MemoryStates, SameTimer
  <2>3. IsOngoing(m.instr) => i \in Range(m.instr.ongoing)
    BY <1>1, PartsOfComponent DEF IsOngoing
  <2> HIDE DEF mm, i
  <2>4. CASE k.memory = m.memory
    BY <2>1, <2>4
  <2>5. CASE /\ k.memory = mm /\ IsOngoing(m.instr)
             /\ i.memId # NoId /\ m.memory.finished = i.memId
    <3>1. ASSUME NEW o \in Range(m.data.ongoing)
          PROVE  HalfWay(o, mm, t)
      <4>1. o \in OngoingAccess /\ DataAccessOK(o, m)
        BY <1>1, PartsOfComponent, EmptyList DEF Whole, DataSide
      <4>2. /\ Waits(o) => o.memId \in Ids
            /\ o.stalled => policy.unblockStores
            /\ o.phase \in {"WaitForLOAD", "WaitForCACHE", "WaitForSTORE"}
        BY <4>1, WaitsForMemory DEF DataAccessOK, DataPhase
      <4>3. i.memId # o.memId
        BY <2>3, <2>5 DEF Whole, Apart
      <4>4. Waits(o) => (mm.finished = o.memId <=> m.memory.finished = o.memId)
        BY <2>2, <2>5, <4>2, <4>3 DEF Ids, NoId
      <4>5. \A u : Within(o, m.memory, u) => Within(o, mm, u)
        BY <2>2, <4>2, <4>4, WithinSame
      <4>6. HalfWay(o, m.memory, t)
        OBVIOUS
      <4>7. QED
        BY <4>5, <4>6 DEF HalfWay
    <3>2. JustCycled(mm)
      BY <2>2, SameTimerIs
    <3>3. QED
      BY <2>1, <2>2, <2>5, <3>1, <3>2
  <2>6. QED
    BY <2>1, <2>4, <2>5
<1>4. QED
  BY <1>2, <1>3

-----------------------------------------------------------------------------
(* Starting accesses.                                                      *)

(* A memory that a fetch has been queued in.                               *)
LEMMA QueuedFetch ==
    ASSUME NEW m, Whole(m), ~m.rejected, NEW t, InTime(m, t), NEW n, n.data.ongoing = m.data.ongoing,
           n.memory = m.memory \/ \E id : n.memory = AccessInstr(m.memory, id)
    PROVE  InTime(n, t)
<1>1. m.memory \in MemoryStates /\ ComponentOK(m.data)
  BY PartsOfTopology DEF Whole, TopologyOK
<1>2. /\ SameTimer(m.memory, n.memory) /\ n.memory.dataQueue = m.memory.dataQueue
      /\ n.memory.finished = m.memory.finished
  BY <1>1 DEF AccessInstr, MemoryStates, SameTimer
<1>3. Timed(n.memory)
  BY <1>2, SameTimerIs DEF InTime
<1>4. ASSUME NEW o \in Range(m.data.ongoing)
      PROVE  Within(o, n.memory, t)
  <2>1. o \in OngoingAccess /\ DataAccessOK(o, m)
    BY <1>1, PartsOfComponent, EmptyList DEF Whole, DataSide
  <2>2. /\ o.stalled => policy.unblockStores
        /\ o.phase \in {"WaitForLOAD", "WaitForCACHE", "WaitForSTORE"}
    BY <2>1 DEF DataAccessOK, DataPhase
  <2>3. Within(o, m.memory, t)
    BY DEF InTime
  <2>4. QED
    BY <1>2, <2>2, <2>3, WithinSame
<1>5. QED
  BY <1>2, <1>3, <1>4 DEF InTime

LEMMA StartInstructionInTime ==
    ASSUME NEW m, Whole(m), ~m.rejected, NEW t, InTime(m, t), NEW n \in StartInstructionAccess(m),
           n.data = m.data
    PROVE  InTime(n, t)
<1>1. n.memory = m.memory \/ \E id : n.memory = AccessInstr(m.memory, id)
  <2>1. m \in Topologies
    BY DEF Whole, TopologyOK
  <2> DEFINE k == [m EXCEPT !.instr.waiting = <<>>]
  <2>2. k \in [DOMAIN m -> UNION {{k[x]} : x \in DOMAIN m}] /\ k.memory = m.memory
        /\ DOMAIN k = {"instr", "data", "memory", "events", "rejected"}
    BY <2>1 DEF Topologies
  <2> HIDE DEF k
  <2>3. ASSUME NEW o, NEW cl \in Outcome, o.cl = cl, n = ProcessInstrCacheAccess(k, o)
        PROVE  n.memory = m.memory \/ \E id : n.memory = AccessInstr(m.memory, id)
    BY <2>2, <2>3 DEF ProcessInstrCacheAccess, Outcome
  <2>4. CASE n = m
    BY <2>4
  <2>5. CASE n # m
    <3> DEFINE S == UNION {Outcomes(l1, l2) : l1, l2 \in L1Answers}
    <3>1. S \subseteq Outcome
      BY OutcomesType
    <3>2. n \in {ProcessInstrCacheAccess(k, StartedWith(m.instr.waiting[1], cl)) : cl \in S}
      BY <2>5 DEF StartInstructionAccess, k
    <3> HIDE DEF S
    <3>3. PICK cl \in Outcome : n = ProcessInstrCacheAccess(k, StartedWith(m.instr.waiting[1], cl))
      BY <3>1, <3>2
    <3>4. StartedWith(m.instr.waiting[1], cl).cl = cl
      BY DEF StartedWith
    <3>5. QED
      BY <2>3, <3>3, <3>4
  <2>6. QED
    BY <2>4, <2>5
<1>2. QED
  BY <1>1, QueuedFetch

(* A data access that starts is within the bounds.                         *)
LEMMA StartHitInTime ==
    ASSUME LongestLoad, NEW k, ReadyFor(k), Timed(k.memory), NEW o, IsFresh(o), o.cl = "HIT",
           NEW t, ZeroTime(t), NEW n, n = ProcessDataCacheAccess(k, o)
    PROVE  InTime(n, t)
<1> DEFINE p == [o EXCEPT !.l1 = DataLatency, !.phase = "WaitForCACHE"]
<1>1. k \in Topologies /\ k.memory \in MemoryStates
  BY PartsOfTopology DEF ReadyFor, TopologyOK
<1>2. p \in OngoingAccess /\ p.cl = "HIT" /\ p.phase = "WaitForCACHE" /\ p.l1 = DataLatency
  BY Latencies DEF IsFresh, OngoingAccess, Phase
<1>3. p.stalled = FALSE /\ p.inL2 = FALSE
  BY DEF IsFresh, OngoingAccess
<1>4. n = [k EXCEPT !.data.ongoing = <<p>>]
  BY DEF ProcessDataCacheAccess
<1> HIDE DEF p
<1>5. n.memory = k.memory /\ Range(n.data.ongoing) = {p}
  <2>1. DataGoesOn(k, [k EXCEPT !.data.ongoing = <<p>>], p, k.memory, k.rejected)
    BY <1>1, <1>2, DataOngoing
  <2>2. QED
    BY <1>4, <2>1, ListOfOne DEF DataGoesOn
<1>6. InCaches(p)
  BY <1>2, <1>3, Latencies DEF InCaches
<1>7. /\ DataLatency \in Nat /\ RoundTrip \in Nat /\ DataMin <= DataLatency
      /\ DataLatency + RoundTrip <= DataMax
  BY Latencies, ServiceTimes, DataBounds
<1>8. AtMost(p, k.memory) = DataLatency + RoundTrip /\ AtLeast(p, k.memory) = DataLatency
  BY <1>2, <1>3 DEF AtMost, AtLeast
<1>9. Within(p, k.memory, t)
  BY <1>7, <1>8, DataBounds DEF Within, ZeroTime
<1>10. QED
  BY <1>3, <1>5, <1>6, <1>9 DEF InTime

LEMMA StartL2HitInTime ==
    ASSUME LongestLoad, NEW k, ReadyFor(k), Timed(k.memory), NEW o, IsFresh(o), o.cl = "L2HIT",
           NEW t, ZeroTime(t), NEW n, n = ProcessDataCacheAccess(k, o)
    PROVE  InTime(n, t)
<1> DEFINE p == [o EXCEPT !.l2 = L2Latency, !.inL2 = TRUE, !.phase = "WaitForCACHE"]
<1>1. k \in Topologies /\ k.memory \in MemoryStates
  BY PartsOfTopology DEF ReadyFor, TopologyOK
<1>2. p \in OngoingAccess /\ p.cl = "L2HIT" /\ p.phase = "WaitForCACHE" /\ p.l2 = L2Latency
  BY Latencies DEF IsFresh, OngoingAccess, Phase
<1>3. p.stalled = FALSE /\ p.inL2 = TRUE
  BY DEF IsFresh, OngoingAccess
<1>4. n = [k EXCEPT !.data.ongoing = <<p>>, !.events = TRUE]
  BY DEF ProcessDataCacheAccess
<1> HIDE DEF p
<1>5. n.memory = k.memory /\ Range(n.data.ongoing) = {p}
  <2>1. DataGoesOn(k, [k EXCEPT !.data.ongoing = <<p>>, !.events = TRUE], p, k.memory, k.rejected)
    BY <1>1, <1>2, DataOngoing
  <2>2. QED
    BY <1>4, <2>1, ListOfOne DEF DataGoesOn
<1>6. InCaches(p)
  BY <1>2, <1>3, Latencies DEF InCaches
<1>7. /\ L2Latency \in Nat /\ RoundTrip \in Nat /\ InstrLatency \in Nat /\ MaxLoadTime \in Nat
      /\ DataMin <= L2Latency + 1 /\ DataMax \in Nat
      /\ MaxLoadTime + RoundTrip + L2Latency + InstrLatency <= DataMax
      /\ RoundTrip + L2Latency + RoundTrip <= DataMax
  BY Latencies, ServiceTimes, DataBounds
<1>8. AtMost(p, k.memory) = L2Latency + AfterL2(p) /\ AtLeast(p, k.memory) = L2Latency + 1
  BY <1>2, <1>3 DEF AtMost, AtLeast
<1>9. AfterL2(p) = InstrLatency \/ AfterL2(p) = RoundTrip
  BY DEF AfterL2, Larger
<1>10. L2Latency + AfterL2(p) <= DataMax /\ L2Latency + AfterL2(p) \in Nat
  BY <1>7, <1>9
<1>11. Within(p, k.memory, t)
  BY <1>7, <1>8, <1>10, DataBounds DEF Within, ZeroTime
<1>12. QED
  BY <1>3, <1>5, <1>6, <1>11 DEF InTime

LEMMA StartMissInTime ==
    ASSUME LongestLoad, NEW k, ReadyFor(k), Timed(k.memory), NEW o, IsFresh(o), o.cl = "L2MISS",
           policy.unblockStores => policy.writeAllocate,
           NEW t, ZeroTime(t), NEW n, n = ProcessDataCacheAccess(k, o)
    PROVE  InTime(n, t)
<1>1. k \in Topologies /\ TopologyOK(k)
  BY DEF ReadyFor, TopologyOK
<1>2. /\ L2Latency \in Nat /\ RoundTrip \in Nat /\ InstrLatency \in Nat /\ MaxLoadTime \in Nat
      /\ DataMin <= L2Latency + 1 /\ DataMin <= ServiceTime["STORE"] /\ DataMax \in Nat
      /\ DataMin \in Nat /\ ServiceTime["STORE"] \in Nat
      /\ MaxLoadTime + RoundTrip + L2Latency + InstrLatency <= DataMax
      /\ RoundTrip + L2Latency + RoundTrip <= DataMax
  BY Latencies, ServiceTimes, DataBounds DEF AccessType
<1>3. ASSUME NEW e, TopologyOK(e), e.memory = k.memory, NEW p \in OngoingAccess,
             p.phase \in {"WaitForLOAD", "WaitForSTORE"}, p.cl = "L2MISS",
             NEW type \in AccessType, n = TryMemory(e, p, type),
             p.phase = "WaitForSTORE" => ~policy.unblockStores /\ type = "STORE"
      PROVE  InTime(n, t)
  <2>1. Tried(e, p, type, n)
    BY <1>3, TryTakes
  <2>2. PICK q \in OngoingAccess :
          /\ Range(n.data.ongoing) = {q} /\ SameAccess(p, q)
          /\ \/ /\ e.memory.dataQueue = <<>> /\ ~q.stalled
                /\ LongestWait(n.memory, q.memId) <= RoundTrip
                /\ ShortestWait(n.memory, q.memId) = ServiceTime[type]
             \/ /\ n.memory = e.memory /\ e.memory.dataQueue # <<>> /\ q.stalled
                /\ LongestStall(n.memory) <= MaxLoadTime
    BY <2>1 DEF Tried
  <2>3. q.phase = p.phase /\ q.cl = "L2MISS" /\ InCaches(q)
    BY <1>3, <2>2 DEF SameAccess, InCaches
  <2>4. Timed(n.memory) /\ n.memory \in MemoryStates
    BY <1>3, <2>1, SameTimerIs DEF Tried
  <2>5. /\ LongestWait(n.memory, q.memId) \in Nat /\ LongestStall(n.memory) \in Nat
        /\ AfterL2(q) = InstrLatency \/ AfterL2(q) = RoundTrip
        /\ policy.unblockStores => AfterL2(q) = InstrLatency
    BY <2>3, <2>4, TypesOfMemory DEF AfterL2, Larger
  <2>6. q.stalled => policy.unblockStores
    BY <1>3, <2>2 DEF ReadyFor
  <2>7. CASE q.phase = "WaitForLOAD"
    <3>1. AtMost(q, n.memory) = (IF q.stalled THEN LongestStall(n.memory) + RoundTrip
                                 ELSE LongestWait(n.memory, q.memId)) + L2Latency + AfterL2(q)
      BY <2>7 DEF AtMost
    <3>2. AtMost(q, n.memory) <= DataMax /\ AtMost(q, n.memory) \in Nat
      BY <1>2, <2>2, <2>5, <2>6, <3>1
    <3>3. AtLeast(q, n.memory) = L2Latency + 1
      BY <2>7 DEF AtLeast
    <3>4. Within(q, n.memory, t)
      BY <1>2, <3>2, <3>3 DEF Within, ZeroTime
    <3>5. QED
      BY <2>2, <2>3, <2>4, <3>4 DEF InTime
  <2>8. CASE q.phase = "WaitForSTORE"
    <3>1. ~policy.unblockStores /\ ~q.stalled /\ type = "STORE"
      BY <1>3, <2>3, <2>6, <2>8
    <3>2. /\ AtMost(q, n.memory) = LongestWait(n.memory, q.memId)
          /\ AtLeast(q, n.memory) = ServiceTime["STORE"]
      BY <2>2, <2>8, <3>1 DEF AtMost, AtLeast
    <3>3. LongestWait(n.memory, q.memId) <= RoundTrip
      BY <2>2, <3>1
    <3>4. Within(q, n.memory, t)
      BY <1>2, <2>5, <3>2, <3>3 DEF Within, ZeroTime
    <3>5. QED
      BY <2>2, <2>3, <2>4, <3>1, <3>4 DEF InTime
  <2>9. QED
    BY <1>3, <2>3, <2>7, <2>8
<1>4. CASE o.access.type = "STORE" /\ ~policy.writeAllocate
  <2> DEFINE p == [o EXCEPT !.phase = "WaitForSTORE"]
  <2>1. p \in OngoingAccess /\ p.cl = o.cl /\ p.phase = "WaitForSTORE"
    BY DEF IsFresh, OngoingAccess, Phase
  <2>2. n = DemandMemory(k, p, "STORE")
    BY <1>4 DEF ProcessDataCacheAccess
  <2> HIDE DEF p
  <2>3. ~policy.unblockStores /\ k.memory.dataQueue = <<>>
    BY <1>4 DEF ReadyFor
  <2>4. n = TryMemory(k, p, "STORE")
    BY <2>2, <2>3 DEF DemandMemory, AcceptsData
  <2>5. QED
    BY <1>1, <1>3, <2>1, <2>3, <2>4 DEF AccessType
<1>5. CASE ~(o.access.type = "STORE" /\ ~policy.writeAllocate)
  <2> DEFINE p == [o EXCEPT !.phase = "WaitForLOAD"]
             e == [k EXCEPT !.events = TRUE]
  <2>1. p \in OngoingAccess /\ p.cl = o.cl /\ p.phase = "WaitForLOAD"
    BY DEF IsFresh, OngoingAccess, Phase
  <2>2. n = TryMemory(e, p, "LOAD")
    BY <1>5 DEF ProcessDataCacheAccess
  <2>3. /\ e \in Topologies /\ e.data = k.data /\ e.instr = k.instr /\ e.memory = k.memory
    BY <1>1 DEF Topologies
  <2> HIDE DEF p, e
  <2>4. TopologyOK(e)
    BY <1>1, <2>3 DEF TopologyOK
  <2>5. QED
    BY <1>3, <2>1, <2>2, <2>3, <2>4 DEF AccessType
<1>6. QED
  BY <1>4, <1>5

LEMMA StartDataInTime ==
    ASSUME LongestLoad, NEW m, Whole(m), NEW t, InTime(m, t),
           m.data.waiting # <<>> => ZeroTime(t),
           policy.unblockStores => policy.writeAllocate, NEW n \in StartDataAccess(m)
    PROVE  InTime(n, t)
<1>1. CASE IsOngoing(m.data) \/ m.data.waiting = <<>>
  BY <1>1 DEF StartDataAccess
<1>2. CASE ~(IsOngoing(m.data) \/ m.data.waiting = <<>>)
  <2>1. m.data.ongoing = <<>> /\ m.data.waiting # <<>>
    BY <1>2 DEF IsOngoing
  <2> DEFINE k == [m EXCEPT !.data.waiting = <<>>]
             w == m.data.waiting[1]
  <2>2. PICK cl \in Outcome : n = ProcessDataCacheAccess(k, StartedWith(w, cl))
    <3> DEFINE S == UNION {Outcomes(l1, l2) : l1, l2 \in L1Answers}
    <3>1. S \subseteq Outcome
      BY OutcomesType
    <3>2. n \in {ProcessDataCacheAccess(k, StartedWith(w, cl)) : cl \in S}
      BY <2>1 DEF StartDataAccess, IsOngoing
    <3> HIDE DEF S
    <3>3. QED
      BY <3>1, <3>2
  <2>3. ReadyFor(k) /\ k.memory = m.memory
    BY <2>1, TakenFromWaiting DEF ReadyFor
  <2>4. Timed(k.memory)
    BY <2>3 DEF InTime
  <2>5. w \in Accesses
    BY <2>1, PartsOfComponent DEF Whole, TopologyOK
  <2> HIDE DEF k, w
  <2> DEFINE o == StartedWith(w, cl)
  <2>6. IsFresh(o) /\ o.cl = cl
    BY <2>5, StartedWithType DEF IsFresh
  <2> HIDE DEF o
  <2>7. n = ProcessDataCacheAccess(k, o) /\ ZeroTime(t)
    BY <2>1, <2>2 DEF o
  <2>8. CASE cl = "HIT"
    BY <2>3, <2>4, <2>6, <2>7, <2>8, StartHitInTime
  <2>9. CASE cl = "L2HIT"
    BY <2>3, <2>4, <2>6, <2>7, <2>9, StartL2HitInTime
  <2>10. CASE cl = "L2MISS"
    BY <2>3, <2>4, <2>6, <2>7, <2>10, StartMissInTime
  <2>11. QED
    BY <2>8, <2>9, <2>10 DEF Outcome
<1>3. QED
  BY <1>1, <1>2

-----------------------------------------------------------------------------
(* A cycle of the topology.                                                *)

LEMMA PolicyFits ==
    ASSUME StoresFit, NoneStalls, policy \in Policies
    PROVE  ~policy.stallOnBlocking /\ (policy.unblockStores => policy.writeAllocate)
BY DEF StoresFit, NoneStalls

LEMMA NoneRejected ==
    ASSUME NEW m, Whole(m), policy.unblockStores => policy.writeAllocate
    PROVE  ~m.rejected
BY DEF Whole, DataSide, DataAnswers

LEMMA CycleInTime ==
    ASSUME LongestLoad, StoresFit, NoneStalls, IInv, InTime(mem, loadTime), NEW n \in Cycle(mem)
    PROVE  Punctual(n, loadTime)
<1>1. /\ policy \in PolicyType /\ (policy.writeBack => policy.writeAllocate)
      /\ ~policy.stallOnBlocking /\ (policy.unblockStores => policy.writeAllocate)
      /\ loadTime \in Times
  BY PolicyFacts, PolicyFits DEF IInv, PipelineOK
<1>2. PICK m : /\ m \in UNION {MemoryCycled(s) : s \in Started(mem)}
               /\ n \in IF ShouldStall(m) THEN {m} ELSE CheckParts(m)
  BY DEF Cycle
<1>3. PICK s \in Started(mem) : m \in MemoryCycled(s)
  BY <1>2
<1>4. n \in CheckParts(m)
  BY <1>1, <1>2 DEF ShouldStall
<1>5. AfterStart(s)
  BY StartedOK
<1>6. InTime(s, loadTime)
  <2> DEFINE k == ClearEvents(mem)
  <2>1. /\ Whole(k) /\ FetchUnmissed(k) /\ DataUnmissed(k) /\ Clock(k, loadTime)
    BY ClearEventsOK DEF IInv
  <2>2. k.memory = mem.memory /\ k.data.ongoing = mem.data.ongoing
    <3>1. mem \in Topologies
      BY DEF IInv, Whole, TopologyOK
    <3>2. QED
      BY <3>1 DEF ClearEvents, Topologies, MemoryComponent
  <2> HIDE DEF k
  <2>3. InTime(k, loadTime)
    BY <2>2 DEF InTime
  <2>4. PICK i \in StartInstructionAccess(k) : s \in StartDataAccess(i)
    BY DEF Started, k
  <2>5. Whole(i) /\ i.data = k.data
    BY <2>1, StartInstructionAccessOK
  <2>6. ~k.rejected
    BY <1>1, <2>1, NoneRejected
  <2>7. InTime(i, loadTime)
    BY <2>1, <2>3, <2>5, <2>6, StartInstructionInTime
  <2>8. i.data.waiting # <<>> => ZeroTime(loadTime)
    BY <2>1, <2>5 DEF Clock, ZeroTime
  <2>9. QED
    BY <1>1, <2>4, <2>5, <2>7, <2>8, StartDataInTime
<1>7. Whole(s) /\ DataUnmissed(s) /\ ~s.rejected
  BY <1>1, <1>5, NoneRejected DEF AfterStart
<1>8. /\ JustCycled(m.memory) /\ (m.memory.dataQueue # <<>> => MaxLoadTime >= 2)
      /\ \A o \in Range(m.data.ongoing) : HalfWay(o, m.memory, loadTime)
  BY <1>1, <1>3, <1>6, <1>7, HalfWayThere
<1>9. Whole(m) /\ m.data.finished = NoId /\ m.data.done = <<>>
  BY <1>3, <1>5, MemoryHasCycled
<1>10. ~m.rejected
  BY <1>1, <1>9, NoneRejected
<1> DEFINE k == CheckInstructionPart(m)
<1>11. n \in CheckDataPart(k)
  BY <1>4 DEF CheckParts
<1>12. Whole(k) /\ FetchUnmissed(k) /\ k.data = m.data
  BY <1>9, CheckInstructionPartOK DEF FetchKept
<1> HIDE DEF k
<1>13. /\ JustCycled(k.memory) /\ k.memory.dataQueue = m.memory.dataQueue
       /\ k.rejected = m.rejected
       /\ \A o \in Range(k.data.ongoing) : HalfWay(o, k.memory, loadTime)
  BY <1>8, <1>9, <1>10, <1>12, InstructionPartInTime DEF k
<1>14. /\ k.data.done = <<>> /\ k.data.finished = NoId /\ ~k.rejected
       /\ (k.memory.dataQueue # <<>> => MaxLoadTime >= 2)
  BY <1>8, <1>9, <1>10, <1>12, <1>13
<1>15. QED
  BY <1>1, <1>11, <1>12, <1>13, <1>14, DataPartInTime

-----------------------------------------------------------------------------
(* The pipeline leaves the memory alone, and its load, until that is done. *)

LEMMA StagesKeepMemory ==
    ASSUME IInv, NEW n, AfterCycle(n), NEW d \in MemoryStage(n)
    PROVE  /\ d.mem.memory = n.memory
           /\ load # NoId /\ ~LoadDone(n) => d.load = load
           /\ LoadDone(n) => d.load # load
<1>1. n \in Topologies
  BY DEF AfterCycle, Whole, TopologyOK
<1> DEFINE p == [n EXCEPT !.data = Polled(@)]
<1>2. /\ p.memory = n.memory /\ p \in [DOMAIN n -> UNION {{p[x]} : x \in DOMAIN n}]
      /\ DOMAIN n = {"instr", "data", "memory", "events", "rejected"}
  BY <1>1 DEF Topologies
<1>3. \A k, id, type : /\ k = n \/ k = p => PortAccess(k, id, type).memory = n.memory
  BY <1>1, <1>2 DEF PortAccess, Topologies
<1>4. load # NoId /\ ~LoadDone(n) => d.mem = n /\ d.load = load
  BY DEF MemoryStage
<1>5. d.mem.memory = n.memory
  <2>1. \/ d.mem = n \/ d.mem = p
        \/ \E id, type : d.mem = PortAccess(n, id, type) \/ d.mem = PortAccess(p, id, type)
    BY DEF MemoryStage, Issue
  <2> HIDE DEF p
  <2>2. QED
    BY <1>2, <1>3, <2>1
<1>6. ASSUME LoadDone(n), d.load = load
      PROVE  FALSE
  <2>1. DataStage(n, d)
    BY MemoryStageOK
  <2>2. d.mem.data = n.data /\ d.mem.data.finished = NoId
    BY <1>6, <2>1 DEF DataStage, StageKeeps, LoadDone
  <2>3. QED
    BY <1>6, <2>2 DEF LoadDone
<1>7. QED
  BY <1>4, <1>5, <1>6

LEMMA FetchKeepsMemory ==
    ASSUME NEW k, k \in Topologies, NEW left, NEW f,
           f \in FetchStage(k, left) \/ f = FetchFrom(k, left)
    PROVE  f.mem.memory = k.memory
<1> DEFINE p == [k EXCEPT !.instr = Polled(@)]
<1>1. p.memory = k.memory /\ DOMAIN p = DOMAIN k
      /\ DOMAIN k = {"instr", "data", "memory", "events", "rejected"}
  BY DEF Topologies
<1>2. \/ f.mem = k \/ f.mem = p
      \/ \E left2 : f = FetchFrom(k, left2) \/ f = FetchFrom(p, left2)
  BY DEF FetchStage
<1> HIDE DEF p
<1>3. \A left2 : FetchFrom(k, left2).mem.memory = k.memory /\ FetchFrom(p, left2).mem.memory = k.memory
  BY <1>1 DEF FetchFrom
<1>4. QED
  BY <1>1, <1>2, <1>3

-----------------------------------------------------------------------------
(* Time passes: by one cycle, or by those that are skipped, too.           *)

(* An access that goes on still takes a while.                             *)
LEMMA AtMostPositive ==
    ASSUME LongestLoad, NEW k, Whole(k), DataUnmissed(k), ~k.rejected, Timed(k.memory),
           NEW o \in Range(k.data.ongoing), InCaches(o)
    PROVE  AtMost(o, k.memory) >= 1
<1> DEFINE mm == k.memory
<1>1. k.memory \in MemoryStates /\ ComponentOK(k.data)
  BY PartsOfTopology DEF Whole, TopologyOK
<1>2. o \in OngoingAccess /\ DataAccessOK(o, k)
  BY <1>1, PartsOfComponent, EmptyList DEF Whole, DataSide
<1>3. /\ o.l1 \in Nat /\ o.l2 \in Nat /\ AfterL2(o) \in Nat /\ L2Latency \in Nat \ {0}
      /\ RoundTrip \in Nat /\ LongestStall(mm) \in Nat /\ LongestWait(mm, o.memId) \in Nat
  BY <1>1, <1>2, Latencies, ServiceTimes, TypesOfMemory, TimesOfAccess
<1>4. Waits(o) => LongestWait(mm, o.memId) >= 1
  <2> SUFFICES ASSUME Waits(o) PROVE LongestWait(mm, o.memId) >= 1
    OBVIOUS
  <2>1. Awaits(o) /\ o.memId \in Ids
    BY <1>2, WaitsForMemory
  <2>2. o.memId # mm.finished /\ o.memId # NoId
    BY <2>1 DEF DataUnmissed, Ids, NoId
  <2>3. /\ Remaining(mm) \in Nat /\ MaxLoadTime \in Nat \ {0}
        /\ mm.current # NoId => Remaining(mm) > 0
    BY <1>1, TypesOfMemory, ServiceTimes
  <2>4. QED
    BY <2>2, <2>3 DEF LongestWait
<1> HIDE DEF mm
<1>5. /\ o.stalled => policy.unblockStores /\ o.phase \in {"WaitForLOAD", "WaitForSTORE"}
      /\ ~Waits(o) /\ ~o.stalled =>
            \/ o.phase = "WaitForCACHE"
            \/ o.phase = "WaitForSTORE" /\ policy.unblockStores
  BY <1>2, WaitsForMemory
<1>6. CASE o.phase = "WaitForLOAD"
  BY <1>3, <1>6 DEF AtMost, mm
<1>7. CASE o.phase = "WaitForCACHE"
  BY <1>3, <1>7 DEF AtMost, InCaches, mm
<1>8. CASE o.phase = "WaitForSTORE" /\ policy.unblockStores
  BY <1>3, <1>8 DEF AtMost, mm
<1>9. CASE o.phase = "WaitForSTORE" /\ ~policy.unblockStores
  BY <1>4, <1>5, <1>9 DEF AtMost, Waits, mm
<1>10. QED
  BY <1>5, <1>6, <1>7, <1>8, <1>9 DEF Waits

(* The cycles that are skipped are taken off the time of the access that   *)
(* is served.                                                              *)
LEMMA SkipTakes ==
    ASSUME LongestLoad, NEW mm, MemoryOK(mm), JustCycled(mm), IsBusy(mm),
           NEW n, n = FastForward(mm), NEW skip, skip = SkippedCycles(mm)
    PROVE  /\ n \in MemoryStates /\ Timed(n) /\ n.dataQueue = mm.dataQueue /\ n.finished = mm.finished
           /\ skip.lo \in Nat /\ skip.hi \in Nat /\ skip.lo <= skip.hi
           /\ mm.dataQueue # <<>> => LongestStall(n) + skip.hi = LongestStall(mm)
           /\ \A id : IsAwaited(mm, id) =>
                 /\ LongestWait(n, id) + skip.hi = LongestWait(mm, id)
                 /\ ShortestWait(n, id) + skip.lo >= ShortestWait(mm, id)
<1>1. /\ mm \in MemoryStates /\ mm.timeBlocked \in Nat /\ mm.added \in Nat
      /\ mm.added <= MaxBlockingPerAccess /\ MaxBlockingPerAccess \in Nat
      /\ MaxLoadTime \in Nat \ {0} /\ Remaining(mm) \in Nat
  BY TypesOfMemory, ServiceTimes DEF MemoryOK
<1>2. /\ n \in MemoryStates /\ n.dataQueue = mm.dataQueue /\ n.finished = mm.finished
      /\ n.current = mm.current
  BY FastForwardIs DEF MemoryOK, SameIds
<1>3. /\ n.timeBlocked = (IF mm.timeBlocked > 0 THEN 1 ELSE 0)
      /\ n.added = MaxBlockingPerAccess /\ n.delayed = mm.delayed
  BY <1>1 DEF FastForward, MemoryStates
<1>4. /\ mm.current # NoId /\ mm.delayed /\ Remaining(mm) < MaxLoadTime /\ Remaining(mm) > 0
      /\ mm.timeBlocked > 0 => mm.added = 0
  <2>1. mm.current # NoId
    BY DEF JustCycled, Timed, IsBusy
  <2>2. QED
    BY <1>1, <2>1, TypesOfMemory DEF JustCycled, Timed
<1>5. /\ skip.lo \in Nat /\ skip.hi \in Nat /\ skip.lo <= skip.hi
      /\ skip.lo + 1 = Larger(mm.timeBlocked, 1)
      /\ skip.hi + 1 = Remaining(mm)
  <2>1. CASE mm.timeBlocked > 0
    <3>1. skip.lo = mm.timeBlocked - 1 /\ skip.hi = mm.timeBlocked - 1 + MaxBlockingPerAccess
      BY <2>1 DEF SkippedCycles
    <3>2. Larger(mm.timeBlocked, 1) = mm.timeBlocked
      BY <1>1, <2>1 DEF Larger
    <3>3. Remaining(mm) = mm.timeBlocked + (MaxBlockingPerAccess - 0)
      BY <1>4, <2>1, <3>2 DEF Remaining
    <3>4. QED
      BY <1>1, <2>1, <3>1, <3>2, <3>3
  <2>2. CASE ~(mm.timeBlocked > 0)
    <3>1. skip.lo = 0 /\ skip.hi = MaxBlockingPerAccess - mm.added
      BY <2>2 DEF SkippedCycles
    <3>2. Larger(mm.timeBlocked, 1) = 1
      BY <1>1, <2>2 DEF Larger
    <3>3. Remaining(mm) = 1 + (MaxBlockingPerAccess - mm.added)
      BY <1>4, <3>2 DEF Remaining
    <3>4. QED
      BY <1>1, <3>1, <3>2, <3>3
  <2>3. QED
    BY <2>1, <2>2
<1>6. Larger(n.timeBlocked, 1) = 1
  BY <1>3 DEF Larger
<1>7. Remaining(n) = 1
  BY <1>1, <1>2, <1>3, <1>4, <1>6 DEF Remaining
<1>8. Timed(n)
  BY <1>1, <1>2, <1>3, <1>4, <1>7 DEF Timed
<1>9. mm.dataQueue # <<>> => LongestStall(n) + skip.hi = LongestStall(mm)
  BY <1>1, <1>2, <1>5, <1>7 DEF LongestStall
<1>10. ASSUME NEW id, IsAwaited(mm, id)
       PROVE  /\ LongestWait(n, id) + skip.hi = LongestWait(mm, id)
              /\ ShortestWait(n, id) + skip.lo >= ShortestWait(mm, id)
  <2>1. id # mm.finished /\ id \in Ids /\ id \in DataIds(mm)
    BY <1>10 DEF IsAwaited
  <2>2. LongestWait(n, id) + skip.hi = LongestWait(mm, id)
    BY <1>1, <1>2, <1>5, <1>7, <2>1 DEF LongestWait
  <2>3. CASE id = mm.current
    <3>1. ShortestWait(n, id) = 1 /\ ShortestWait(mm, id) = Larger(mm.timeBlocked, 1)
      BY <1>2, <1>6, <2>1, <2>3 DEF ShortestWait
    <3>2. QED
      BY <1>5, <2>2, <3>1
  <2>4. CASE id # mm.current
    <3>1. ShortestWait(n, id) = ShortestWait(mm, id)
      BY <1>2, <2>1, <2>4 DEF ShortestWait
    <3>2. ShortestWait(mm, id) \in Nat
      BY <2>1, ShortestWaitType
    <3>3. QED
      BY <1>5, <2>2, <3>1, <3>2
  <2>5. QED
    BY <2>3, <2>4
<1>11. QED
  BY <1>2, <1>5, <1>8, <1>9, <1>10

(* An access that the topology is fast-forwarded over waits for the memory.*)
LEMMA SkippedOver ==
    ASSUME NEW k, Whole(k), ~k.rejected, FastForwards(k), NEW o \in Range(k.data.ongoing)
    PROVE  o.stalled \/ Waits(o)
<1>1. ComponentOK(k.data) /\ k.data.ongoing # <<>>
  BY EmptyList DEF Whole, TopologyOK
<1>2. o = k.data.ongoing[1]
  BY <1>1, PartsOfComponent
<1>3. \/ o.phase = "WaitForLOAD"
      \/ o.phase = "WaitForSTORE" /\ (~policy.unblockStores \/ o.stalled)
  BY <1>1, <1>2 DEF FastForwards, AllowsFastForward, IsBusyPort, IsOngoing
<1>4. QED
  BY <1>3 DEF Waits

LEMMA WaitIsShorter ==
    ASSUME NEW x \in Nat, NEW y \in Nat, NEW skip \in Nat, x + skip = y,
           NEW a \in Nat, NEW b \in Nat
    PROVE  (x + a + b) + skip = y + a + b
OBVIOUS

LEMMA AccessSkips ==
    ASSUME LongestLoad, NEW k, Whole(k), DataUnmissed(k), ~k.rejected, JustCycled(k.memory),
           FastForwards(k), NEW o \in Range(k.data.ongoing),
           o.stalled => k.memory.dataQueue # <<>>,
           NEW t, t.lo \in Nat, t.hi \in Nat, Within(o, k.memory, t),
           NEW n, n = FastForward(k.memory), NEW skip, skip = SkippedCycles(k.memory),
           NEW u, u.lo = t.lo + skip.lo, u.hi = t.hi + skip.hi
    PROVE  Within(o, n, u)
<1> DEFINE mm == k.memory
<1>1. MemoryOK(mm) /\ mm \in MemoryStates /\ ComponentOK(k.data)
  BY DEF Whole, TopologyOK, MemoryOK
<1>2. o \in OngoingAccess /\ DataAccessOK(o, k)
  BY <1>1, PartsOfComponent, EmptyList DEF Whole, DataSide
<1>3. /\ n \in MemoryStates
      /\ skip.lo \in Nat /\ skip.hi \in Nat
      /\ mm.dataQueue # <<>> => LongestStall(n) + skip.hi = LongestStall(mm)
      /\ \A id : IsAwaited(mm, id) =>
            /\ LongestWait(n, id) + skip.hi = LongestWait(mm, id)
            /\ ShortestWait(n, id) + skip.lo >= ShortestWait(mm, id)
  BY <1>1, SkipTakes DEF FastForwards
<1>4. /\ AfterL2(o) \in Nat /\ L2Latency \in Nat /\ RoundTrip \in Nat
      /\ LongestStall(mm) \in Nat /\ LongestStall(n) \in Nat
      /\ LongestWait(mm, o.memId) \in Nat /\ LongestWait(n, o.memId) \in Nat
      /\ AtMost(o, mm) \in Nat /\ AtMost(o, n) \in Nat /\ DataMin \in Nat /\ DataMax \in Nat
  BY <1>1, <1>2, <1>3, Latencies, ServiceTimes, TypesOfMemory, TimesOfAccess, DataBounds
<1>5. /\ Waits(o) => Awaits(o) /\ o.memId \in Ids /\ o.memId \in DataIds(mm)
      /\ o.stalled => policy.unblockStores /\ o.phase \in {"WaitForLOAD", "WaitForSTORE"}
  BY <1>2, WaitsForMemory DEF mm
<1>6. o.stalled => mm.dataQueue # <<>>
  OBVIOUS
<1>7. AtMost(o, mm) <= AtMost(o, mm) /\ t.hi + AtMost(o, mm) <= DataMax
      /\ t.lo + AtLeast(o, mm) >= DataMin
  BY <1>4 DEF Within
<1>8. ASSUME AtMost(o, n) + skip.hi = AtMost(o, mm),
             AtLeast(o, mm) \in Nat, AtLeast(o, n) \in Nat, AtLeast(o, n) + skip.lo >= AtLeast(o, mm)
      PROVE  Within(o, n, u)
  <2>1. PICK x \in Nat, y \in Nat, v \in Nat, w \in Nat :
           x = AtMost(o, mm) /\ y = AtMost(o, n) /\ v = AtLeast(o, mm) /\ w = AtLeast(o, n)
    BY <1>4, <1>8
  <2>2. PICK lo \in Nat, hi \in Nat, slo \in Nat, shi \in Nat :
           lo = t.lo /\ hi = t.hi /\ slo = skip.lo /\ shi = skip.hi
    BY <1>3
  <2>3. y + shi = x /\ w + slo >= v /\ hi + x <= DataMax /\ lo + v >= DataMin
    BY <1>7, <1>8, <2>1, <2>2
  <2>4. hi + shi + y <= DataMax /\ lo + slo + w >= DataMin
    BY <1>4, <2>3
  <2>5. QED
    BY <2>1, <2>2, <2>4 DEF Within
<1> HIDE DEF mm
<1>9. CASE o.stalled
  <2>1. LongestStall(n) + skip.hi = LongestStall(mm) /\ policy.unblockStores
    BY <1>3, <1>5, <1>6, <1>9
  <2>2. CASE o.phase = "WaitForLOAD"
    <3>1. AtMost(o, n) + skip.hi = AtMost(o, mm)
      <4>1. /\ AtMost(o, mm) = LongestStall(mm) + RoundTrip + L2Latency + AfterL2(o)
            /\ AtMost(o, n) = LongestStall(n) + RoundTrip + L2Latency + AfterL2(o)
        BY <1>9, <2>2 DEF AtMost
      <4>2. AtMost(o, n) + skip.hi = LongestStall(mm) + RoundTrip + L2Latency + AfterL2(o)
        <5>1. RoundTrip + L2Latency \in Nat
          BY <1>4
        <5>2. (LongestStall(n) + (RoundTrip + L2Latency) + AfterL2(o)) + skip.hi
                  = LongestStall(mm) + (RoundTrip + L2Latency) + AfterL2(o)
          BY <1>3, <1>4, <2>1, <5>1, WaitIsShorter
        <5>3. QED
          BY <1>4, <4>1, <5>2
      <4>3. QED
        BY <4>1, <4>2
    <3>2. AtLeast(o, mm) = L2Latency + 1 /\ AtLeast(o, n) = L2Latency + 1
      BY <2>2 DEF AtLeast
    <3>3. QED
      BY <1>3, <1>4, <1>8, <3>1, <3>2
  <2>3. CASE o.phase = "WaitForSTORE"
    <3>1. AtMost(o, n) + skip.hi = AtMost(o, mm)
      <4>1. AtMost(o, mm) = LongestStall(mm) + 1 /\ AtMost(o, n) = LongestStall(n) + 1
        BY <1>9, <2>1, <2>3 DEF AtMost
      <4>2. QED
        BY <1>3, <1>4, <2>1, <4>1
    <3>2. AtLeast(o, mm) = 1 /\ AtLeast(o, n) = 1
      BY <2>1, <2>3 DEF AtLeast
    <3>3. QED
      BY <1>3, <1>8, <3>1, <3>2
  <2>4. QED
    BY <1>5, <1>9, <2>2, <2>3
<1>10. CASE Waits(o)
  <2>1. IsAwaited(mm, o.memId)
    BY <1>5, <1>10 DEF IsAwaited, DataUnmissed, mm
  <2>2. /\ LongestWait(n, o.memId) + skip.hi = LongestWait(mm, o.memId)
        /\ ShortestWait(n, o.memId) + skip.lo >= ShortestWait(mm, o.memId)
    BY <1>3, <2>1
  <2>3. CASE o.phase = "WaitForLOAD"
    <3>1. AtMost(o, n) + skip.hi = AtMost(o, mm)
      <4>1. /\ AtMost(o, mm) = LongestWait(mm, o.memId) + L2Latency + AfterL2(o)
            /\ AtMost(o, n) = LongestWait(n, o.memId) + L2Latency + AfterL2(o)
        BY <1>10, <2>3 DEF AtMost, Waits
      <4>2. (LongestWait(n, o.memId) + L2Latency + AfterL2(o)) + skip.hi
                = LongestWait(mm, o.memId) + L2Latency + AfterL2(o)
        BY <1>3, <1>4, <2>2, WaitIsShorter
      <4>3. QED
        BY <4>1, <4>2
    <3>2. AtLeast(o, mm) = L2Latency + 1 /\ AtLeast(o, n) = L2Latency + 1
      BY <2>3 DEF AtLeast
    <3>3. QED
      BY <1>3, <1>4, <1>8, <3>1, <3>2
  <2>4. CASE o.phase = "WaitForSTORE" /\ ~policy.unblockStores
    <3>1. AtMost(o, n) + skip.hi = AtMost(o, mm)
      BY <2>2, <2>4 DEF AtMost
    <3>2. AtLeast(o, mm) = ShortestWait(mm, o.memId) /\ AtLeast(o, n) = ShortestWait(n, o.memId)
      BY <2>4 DEF AtLeast
    <3>3. ShortestWait(mm, o.memId) \in Nat
      BY <1>1, <1>5, <1>10, ShortestWaitType
    <3>4. ShortestWait(n, o.memId) \in Nat
      <4>1. MemoryOK(n) /\ SameIds(mm, n)
        BY <1>1, FastForwardIs DEF mm
      <4>2. o.memId \in DataIds(n)
        BY <1>5, <1>10, <4>1 DEF DataIds, SameIds
      <4>3. QED
        BY <1>5, <1>10, <4>1, <4>2, ShortestWaitType
    <3>5. QED
      BY <1>8, <2>2, <3>1, <3>2, <3>3, <3>4
  <2>5. QED
    BY <1>10, <2>3, <2>4 DEF Waits
<1>11. QED
  BY <1>9, <1>10, SkippedOver

(* The topology with which a step of the pipeline ends, after skip more    *)
(* cycles.                                                                 *)
EndsAs(k, c, skip) ==
    \/ c = k /\ skip.lo = 0 /\ skip.hi = 0
    \/ /\ c = [k EXCEPT !.memory = FastForward(@)] /\ FastForwards(k)
       /\ skip = SkippedCycles(k.memory)

LEMMA TimerGoesOn ==
    ASSUME LongestLoad, NEW k, Whole(k), FetchUnmissed(k), DataUnmissed(k), JustCycled(k.memory),
           NEW c, NEW skip, EndsAs(k, c, skip)
    PROVE  /\ Whole(c) /\ DataUnmissed(c) /\ Timed(c.memory) /\ c.data = k.data
           /\ c.rejected = k.rejected /\ c.memory.dataQueue = k.memory.dataQueue
           /\ skip.lo \in Nat /\ skip.hi \in Nat /\ skip.lo <= skip.hi
<1>1. k \in Topologies /\ MemoryOK(k.memory)
  BY DEF Whole, TopologyOK
<1>2. CASE c = k /\ skip.lo = 0 /\ skip.hi = 0
  BY <1>2 DEF JustCycled
<1>3. CASE /\ c = [k EXCEPT !.memory = FastForward(@)] /\ FastForwards(k)
           /\ skip = SkippedCycles(k.memory)
  <2>1. Whole(c) /\ DataUnmissed(c) /\ c.data = k.data
    BY <1>3, FastForwardedOK
  <2>2. c.memory = FastForward(k.memory) /\ c.rejected = k.rejected
    BY <1>1, <1>3 DEF Topologies
  <2>3. IsBusy(k.memory)
    BY <1>3 DEF FastForwards
  <2>4. /\ Timed(c.memory) /\ c.memory.dataQueue = k.memory.dataQueue
        /\ skip.lo \in Nat /\ skip.hi \in Nat /\ skip.lo <= skip.hi
    BY <1>1, <1>3, <2>2, <2>3, SkipTakes
  <2>5. QED
    BY <2>1, <2>2, <2>4
<1>4. QED
  BY <1>2, <1>3 DEF EndsAs

(* An access that is on its way stays within the bounds, and they are not  *)
(* reached while it is.                                                    *)
LEMMA AccessGoesOn ==
    ASSUME LongestLoad, NEW k, Whole(k), FetchUnmissed(k), DataUnmissed(k), ~k.rejected,
           JustCycled(k.memory), NEW s \in Times, NEW o \in Range(k.data.ongoing),
           InCaches(o), Within(o, k.memory, Later(s)), o.stalled => k.memory.dataQueue # <<>>,
           NEW c, NEW skip, EndsAs(k, c, skip),
           NEW t, t.lo = s.lo + 1 + skip.lo, t.hi = s.hi + 1 + skip.hi
    PROVE  Within(o, c.memory, t) /\ t.hi < DataMax
<1>1. /\ Whole(c) /\ DataUnmissed(c) /\ Timed(c.memory) /\ c.data = k.data
      /\ c.rejected = k.rejected
      /\ skip.lo \in Nat /\ skip.hi \in Nat
  BY TimerGoesOn
<1>2. s.lo \in Nat /\ s.hi \in Nat
  BY DEF Times
<1>3. Later(s).lo = s.lo + 1 /\ Later(s).hi = s.hi + 1
  BY DEF Later
<1>4. Within(o, c.memory, t)
  <2>1. CASE c = k /\ skip.lo = 0 /\ skip.hi = 0
    <3>1. t.lo = Later(s).lo /\ t.hi = Later(s).hi
      BY <1>2, <1>3, <2>1
    <3>2. QED
      BY <2>1, <3>1 DEF Within
  <2>2. CASE /\ c = [k EXCEPT !.memory = FastForward(@)] /\ FastForwards(k)
             /\ skip = SkippedCycles(k.memory)
    <3>1. c.memory = FastForward(k.memory)
      BY <2>2 DEF Whole, TopologyOK, Topologies
    <3>2. PICK l : l = Later(s)
      OBVIOUS
    <3>3. /\ l.lo \in Nat /\ l.hi \in Nat /\ t.lo = l.lo + skip.lo /\ t.hi = l.hi + skip.hi
          /\ Within(o, k.memory, l)
      BY <1>1, <1>2, <1>3, <3>2
    <3>4. QED
      BY <2>2, <3>1, <3>3, AccessSkips
  <2>3. QED
    BY <2>1, <2>2 DEF EndsAs
<1>5. AtMost(o, c.memory) >= 1 /\ AtMost(o, c.memory) \in Nat
  <2>1. o \in Range(c.data.ongoing) /\ ~c.rejected
    BY <1>1
  <2>2. AtMost(o, c.memory) >= 1
    BY <1>1, <2>1, AtMostPositive
  <2>3. c.memory \in MemoryStates /\ ComponentOK(c.data)
    BY <1>1, PartsOfTopology DEF Whole, TopologyOK
  <2>4. o \in OngoingAccess
    BY <2>1, <2>3, PartsOfComponent, EmptyList
  <2>5. QED
    BY <2>2, <2>3, <2>4, TimesOfAccess
<1>6. t.hi \in Nat /\ DataMax \in Nat
  BY <1>1, <1>2, DataBounds
<1>7. PICK x \in Nat : x = AtMost(o, c.memory)
  BY <1>5
<1>8. t.hi + x <= DataMax /\ x >= 1
  BY <1>4, <1>5, <1>7 DEF Within
<1>9. QED
  BY <1>4, <1>6, <1>8

LEMMA AllGoOn ==
    ASSUME LongestLoad, NEW n, NEW s \in Times, Punctual(n, s),
           NEW k, Whole(k), FetchUnmissed(k), DataUnmissed(k), ~k.rejected,
           k.memory = n.memory, k.data = n.data, NEW c, NEW skip, EndsAs(k, c, skip),
           NEW t, t.lo = s.lo + 1 + skip.lo, t.hi = s.hi + 1 + skip.hi
    PROVE  InTime(c, t) /\ (k.data.ongoing # <<>> => t.hi < DataMax)
<1>1. JustCycled(k.memory)
  BY DEF Punctual
<1>2. Timed(c.memory) /\ c.data = k.data /\ c.memory.dataQueue = k.memory.dataQueue
  BY <1>1, TimerGoesOn
<1>3. ASSUME NEW o \in Range(k.data.ongoing)
      PROVE  /\ InCaches(o) /\ Within(o, c.memory, t) /\ t.hi < DataMax
             /\ o.stalled => c.memory.dataQueue # <<>>
  <2>1. InCaches(o) /\ Within(o, k.memory, Later(s)) /\ (o.stalled => k.memory.dataQueue # <<>>)
    BY DEF Punctual
  <2>2. Within(o, c.memory, t) /\ t.hi < DataMax
    BY <1>1, <2>1, AccessGoesOn
  <2>3. QED
    BY <1>2, <2>1, <2>2
<1>4. InTime(c, t)
  BY <1>2, <1>3 DEF InTime
<1>5. k.data.ongoing # <<>> => t.hi < DataMax
  <2> SUFFICES ASSUME k.data.ongoing # <<>> PROVE t.hi < DataMax
    OBVIOUS
  <2>1. ComponentOK(k.data)
    BY DEF Whole, TopologyOK
  <2>2. k.data.ongoing[1] \in Range(k.data.ongoing)
    BY <2>1, PartsOfComponent
  <2>3. QED
    BY <1>3, <2>2
<1>6. QED
  BY <1>4, <1>5

(* What is asked of the policy is asked of the same policy.                *)
LEMMA SamePolicyInTime ==
    ASSUME policy' = policy, NEW k, mem' = k, NEW t, loadTime' = t, InTime(k, t)
    PROVE  InTime(mem, loadTime)'
BY DEF InTime, InCaches, Within, AtMost, AtLeast, AfterL2, IsStoreThrough, MayWriteBack

-----------------------------------------------------------------------------
(* A step of the pipeline, as the data port sees it.                       *)

PortStep ==
    \/ load = NoId /\ ~loadTime'.answered /\ loadTime'.lo = 0 /\ loadTime'.hi = 0
    \/ /\ load # NoId /\ load' # NoId /\ ~loadTime'.answered
       /\ loadTime'.lo > loadTime.lo
       /\ loadTime'.hi - loadTime.hi >= loadTime'.lo - loadTime.lo
       /\ loadTime'.hi < DataMax
    \/ /\ load # NoId /\ loadTime'.answered /\ loadTime'.lo = 0 /\ loadTime'.hi = 0
       /\ loadTime.lo + 1 >= DataMin /\ loadTime.hi + 1 <= DataMax

LEMMA PortStepIs == PortStep => DataPort!Next
BY DEF PortStep, DataPort!Next, DataPort!Idle, DataPort!Wait, DataPort!Answer, DataPort!Accept

(* The pipeline gives up no load, and has another one when it is answered. *)
KeepsLoad(n) ==
    /\ load # NoId /\ ~LoadDone(n) => load' = load
    /\ LoadDone(n) => load' # load

LEMMA TimeOfStep ==
    ASSUME NEW s \in Times, NEW skip, skip.lo \in Nat, skip.hi \in Nat, NEW out \in BOOLEAN,
           NEW done \in BOOLEAN, NEW t, t = TimeAfter(s, out, done, skip)
    PROVE  /\ t.answered = done
           /\ ~out => t.lo = 0 /\ t.hi = 0
           /\ out => t.lo = s.lo + 1 + skip.lo /\ t.hi = s.hi + 1 + skip.hi
<1>1. t.answered = done
  BY DEF TimeAfter
<1>2. QED
  BY <1>1, TimeAfterIs

LEMMA ConvergedEnds ==
    ASSUME NEW k, NEW ld, NEW fd, Converged(k, ld, fd)
    PROVE  \E c, skip : EndsAs(k, c, skip) /\ mem' = c
              /\ loadTime' = TimeAfter(loadTime, load # NoId /\ load' = load, ld, skip)
<1>1. CASE Advance(k, ld, fd, NoSkip)
  BY <1>1 DEF Advance, EndsAs, NoSkip
<1>2. CASE /\ FastForwards(k)
           /\ Advance([k EXCEPT !.memory = FastForward(@)], ld, fd, SkippedCycles(k.memory))
  BY <1>2 DEF Advance, EndsAs
<1>3. QED
  BY <1>1, <1>2 DEF Converged

LEMMA StepInTime ==
    ASSUME LongestLoad, IInv, NEW n, AfterCycle(n), Punctual(n, loadTime), NEW k, Ready(n, k),
           ~k.rejected, k.memory = n.memory, KeepsLoad(n), policy' = policy,
           NEW fd, Converged(k, LoadDone(n), fd)
    PROVE  InTime(mem, loadTime)' /\ PortStep
<1>1. PICK c, skip : EndsAs(k, c, skip) /\ mem' = c
         /\ loadTime' = TimeAfter(loadTime, load # NoId /\ load' = load, LoadDone(n), skip)
  BY ConvergedEnds
<1>t. PICK t : t = loadTime'
  OBVIOUS
<1>s. PICK s \in Times : s = loadTime
  BY DEF IInv, PipelineOK
<1>o. PICK out \in BOOLEAN : out <=> (load # NoId /\ load' = load)
  OBVIOUS
<1>l. PICK ld \in BOOLEAN : ld <=> LoadDone(n)
  OBVIOUS
<1>2. /\ s = loadTime /\ t = loadTime' /\ (ld <=> LoadDone(n))
      /\ out <=> (load # NoId /\ load' = load)
  BY <1>t, <1>s, <1>o, <1>l
<1>3. t = TimeAfter(s, out, ld, skip)
  <2>1. LoadDone(n) \in BOOLEAN
    BY DEF LoadDone
  <2>2. ld = LoadDone(n)
    BY <1>2, <2>1
  <2>3. out = (load # NoId /\ load' = load)
    BY <1>2
  <2>4. QED
    BY <1>1, <1>2, <2>2, <2>3
<1>4. /\ Whole(k) /\ FetchUnmissed(k) /\ DataUnmissed(k) /\ JustCycled(k.memory)
      /\ Punctual(n, s)
  BY <1>2 DEF Ready, Punctual
<1>5. /\ Timed(c.memory) /\ c.data = k.data
      /\ skip.lo \in Nat /\ skip.hi \in Nat /\ skip.lo <= skip.hi
  BY <1>1, <1>4, TimerGoesOn
<1>6. /\ t.answered = ld
      /\ ~out => t.lo = 0 /\ t.hi = 0
      /\ out => t.lo = s.lo + 1 + skip.lo /\ t.hi = s.hi + 1 + skip.hi
  BY <1>3, <1>5, TimeOfStep
<1>7. CASE ~out
  <2>1. c.data.ongoing = <<>>
    BY <1>2, <1>5, <1>7 DEF Ready, Timely
  <2>2. Range(c.data.ongoing) = {}
    BY <2>1, EmptyList
  <2>3. InTime(c, t)
    BY <1>5, <2>2 DEF InTime
  <2>4. InTime(mem, loadTime)'
    BY <1>1, <1>2, <2>3, SamePolicyInTime
  <2>5. CASE load = NoId
    <3>1. ~ld
      BY <1>2, <2>5 DEF LoadDone
    <3>2. QED
      BY <1>2, <1>6, <1>7, <2>4, <2>5, <3>1 DEF PortStep
  <2>6. CASE load # NoId
    <3>1. ld /\ n.data.finished # NoId
      BY <1>2, <1>7, <2>6 DEF KeepsLoad, LoadDone
    <3>2. s.hi + 1 <= DataMax /\ s.lo + 1 >= DataMin
      BY <1>4, <3>1 DEF Punctual
    <3>3. QED
      BY <1>2, <1>6, <1>7, <2>4, <2>6, <3>1, <3>2 DEF PortStep
  <2>7. QED
    BY <2>5, <2>6
<1>8. CASE out
  <2>1. load # NoId /\ load' = load /\ k.data = n.data /\ ~ld
    BY <1>2, <1>8 DEF Ready, Timely, KeepsLoad
  <2>2. /\ InTime(c, t) /\ (k.data.ongoing # <<>> => t.hi < DataMax)
    BY <1>1, <1>4, <1>6, <1>8, <2>1, AllGoOn
  <2>3. k.data.ongoing # <<>>
    <3>1. ComponentOK(k.data)
      BY <1>4 DEF Whole, TopologyOK
    <3>2. k.data.waiting = <<>> /\ k.data.finished = NoId /\ OnlyPlace(k.data, load)
      BY <2>1 DEF AfterCycle, Ready
    <3>3. load \in OngoingIds(k.data)
      BY <2>1, <3>1, <3>2, PartsOfComponent DEF OnlyPlace
    <3>4. QED
      BY <3>1, <3>3, PartsOfComponent
  <2>4. InTime(mem, loadTime)'
    BY <1>1, <1>2, <2>2, SamePolicyInTime
  <2>5. s.lo \in Nat /\ s.hi \in Nat
    BY DEF Times
  <2>6. t.lo > s.lo /\ t.hi - s.hi >= t.lo - s.lo
    <3>1. PICK a \in Nat, b \in Nat, x \in Nat, y \in Nat :
             a = s.lo /\ b = s.hi /\ x = skip.lo /\ y = skip.hi
      BY <1>5, <2>5
    <3>2. t.lo = a + 1 + x /\ t.hi = b + 1 + y /\ x <= y
      BY <1>5, <1>6, <1>8, <3>1
    <3>3. QED
      BY <3>1, <3>2
  <2>7. QED
    BY <1>2, <1>6, <2>1, <2>2, <2>3, <2>4, <2>6 DEF PortStep
<1>9. QED
  BY <1>7, <1>8

-----------------------------------------------------------------------------
(* The actions.                                                            *)

LEMMA NotRejected ==
    ASSUME StoresFit, NoneStalls, IInv, NEW n, Whole(n)
    PROVE  ~n.rejected
<1>1. policy.unblockStores => policy.writeAllocate
  BY PolicyFits DEF IInv
<1>2. QED
  BY <1>1, NoneRejected

LEMMA PipelineInTime ==
    ASSUME LongestLoad, StoresFit, NoneStalls, IInv, InTime(mem, loadTime), PipelineCycle
    PROVE  InTime(mem, loadTime)' /\ PortStep
<1>1. PICK m \in Cycle(mem) :
         \E d \in MemoryStage(m) : \E f \in FetchStage(d.mem, d.left) :
            /\ load' = d.load /\ more' = d.more /\ fetch' = f.fetch /\ work' = f.work
            /\ Converged(f.mem, LoadDone(m), FetchDone(m))
  BY DEF PipelineCycle
<1>2. PICK d \in MemoryStage(m) : \E f \in FetchStage(d.mem, d.left) :
            /\ load' = d.load /\ more' = d.more /\ fetch' = f.fetch /\ work' = f.work
            /\ Converged(f.mem, LoadDone(m), FetchDone(m))
  BY <1>1
<1>3. PICK f \in FetchStage(d.mem, d.left) :
            /\ load' = d.load /\ more' = d.more /\ fetch' = f.fetch /\ work' = f.work
            /\ Converged(f.mem, LoadDone(m), FetchDone(m))
  BY <1>2
<1>4. AfterCycle(m) /\ policy' = policy /\ Punctual(m, loadTime)
  BY CycleOK, CycleInTime DEF PipelineCycle
<1>5. DataStage(m, d)
  BY <1>3, <1>4, MemoryStageOK
<1>6. FetchedFrom(d.mem, f)
  BY <1>3, <1>4, <1>5, FetchStageOK
<1>7. Ready(m, f.mem)
  BY <1>3, <1>5, <1>6 DEF DataStage, StageKeeps, FetchedFrom, Ready, Timely
<1>8. KeepsLoad(m) /\ d.mem.memory = m.memory
  BY <1>3, <1>4, StagesKeepMemory DEF KeepsLoad
<1>9. f.mem.memory = m.memory
  <2>1. d.mem \in Topologies
    BY <1>5 DEF DataStage, StageKeeps, Whole, TopologyOK
  <2>2. QED
    BY <1>8, <2>1, FetchKeepsMemory
<1>10. ~f.mem.rejected
  BY <1>6, NotRejected DEF FetchedFrom
<1>11. QED
  BY <1>3, <1>4, <1>7, <1>8, <1>9, <1>10, StepInTime

LEMMA BranchInTime ==
    ASSUME LongestLoad, StoresFit, NoneStalls, IInv, InTime(mem, loadTime), BranchCycle
    PROVE  InTime(mem, loadTime)' /\ PortStep
<1>1. PICK m \in Cycle(mem) : \E d \in MemoryStage(m) :
         LET f == FetchFrom(d.mem, 0)
         IN  /\ load' = d.load /\ more' = d.more /\ fetch' = f.fetch /\ work' = f.work
             /\ Advance(f.mem, LoadDone(m), FALSE, NoSkip)
  BY DEF BranchCycle
<1>2. PICK d \in MemoryStage(m) :
         LET f == FetchFrom(d.mem, 0)
         IN  /\ load' = d.load /\ more' = d.more /\ fetch' = f.fetch /\ work' = f.work
             /\ Advance(f.mem, LoadDone(m), FALSE, NoSkip)
  BY <1>1
<1>3. PICK f : f = FetchFrom(d.mem, 0)
  OBVIOUS
<1>4. /\ load' = d.load /\ fetch' = f.fetch
      /\ Advance(f.mem, LoadDone(m), FALSE, NoSkip)
  BY <1>2, <1>3
<1>5. AfterCycle(m) /\ policy' = policy /\ Punctual(m, loadTime)
  BY CycleOK, CycleInTime DEF BranchCycle
<1>6. DataStage(m, d)
  BY <1>5, MemoryStageOK
<1>7. FetchedFrom(d.mem, f)
  <2>1. 0 \in 0 .. MaxWork - 1
    BY TopologyAssumption
  <2>2. Whole(d.mem) /\ FetchUnmissed(d.mem) /\ DataUnmissed(d.mem)
    BY <1>6 DEF DataStage, StageKeeps
  <2>3. FetchedFrom(d.mem, FetchFrom(d.mem, 0))
    BY <2>1, <2>2, BranchFetches
  <2>4. QED
    BY <1>3, <2>3
<1>8. Ready(m, f.mem)
  BY <1>4, <1>6, <1>7 DEF DataStage, StageKeeps, FetchedFrom, Ready, Timely
<1>9. Converged(f.mem, LoadDone(m), FALSE)
  BY <1>4 DEF Converged
<1>10. KeepsLoad(m) /\ d.mem.memory = m.memory
  BY <1>4, <1>5, StagesKeepMemory DEF KeepsLoad
<1>11. f.mem.memory = m.memory
  <2>1. d.mem \in Topologies
    BY <1>6 DEF DataStage, StageKeeps, Whole, TopologyOK
  <2>2. QED
    BY <1>3, <1>10, <2>1, FetchKeepsMemory
<1>12. ~f.mem.rejected
  BY <1>7, NotRejected DEF FetchedFrom
<1>13. QED
  BY <1>5, <1>8, <1>9, <1>10, <1>11, <1>12, StepInTime

(* The invariant of the bounds holds at first, and the actions keep it.    *)
LEMMA InitInTime == ASSUME LongestLoad PROVE Init => InTime(mem, loadTime)
<1> SUFFICES ASSUME Init PROVE InTime(mem, loadTime)
  OBVIOUS
<1>1. mem.data.ongoing = <<>> /\ mem.memory = IdleMemory
  BY DEF Init, IdleComponent
<1>2. Range(mem.data.ongoing) = {}
  BY <1>1, EmptyList
<1>3. Timed(IdleMemory)
  BY DEF Timed, IdleMemory
<1>4. QED
  BY <1>1, <1>2, <1>3 DEF InTime

LEMMA NextInTime ==
    ASSUME LongestLoad, StoresFit, NoneStalls, IInv, InTime(mem, loadTime), Next
    PROVE  InTime(mem, loadTime)' /\ PortStep
<1>1. ~StalledCycle
  <2>1. ~policy.stallOnBlocking
    BY PolicyFits DEF IInv
  <2>2. QED
    BY <2>1 DEF StalledCycle, ShouldStall
<1>2. QED
  BY <1>1, PipelineInTime, BranchInTime DEF Next

LEMMA StutterInTime == InTime(mem, loadTime) /\ UNCHANGED vars => InTime(mem, loadTime)'
<1> SUFFICES ASSUME InTime(mem, loadTime), UNCHANGED vars PROVE InTime(mem, loadTime)'
  OBVIOUS
<1>1. policy' = policy /\ mem' = mem /\ loadTime' = loadTime
  BY DEF vars
<1>2. PICK k, t : k = mem /\ t = loadTime
  OBVIOUS
<1>3. InTime(k, t)
  BY <1>2
<1>4. QED
  BY <1>1, <1>2, <1>3, SamePolicyInTime

LEMMA PortAtRest == UNCHANGED vars => UNCHANGED DataPort!vars
BY DEF vars, DataPort!vars, pipeline

LEMMA PortAtFirst == Init => DataPort!Init
BY DEF Init, DataPort!Init, NoId

(* The data port keeps its promise: it answers every access once, never    *)
(* before the fastest cache or memory could, and never later than the      *)
(* bound that the latencies, the service times and the blocking by other   *)
(* cores give, for an access that waits for a fetch before its load and    *)
(* again before its store or write-back; fast-forwarding included.  That   *)
(* is for configurations that stall no core, where loads take longest in   *)
(* the memory, and stores are unblocked only with an allocating cache.     *)
THEOREM SpecDataPortSpec ==
    ASSUME LongestLoad, StoresFit, NoneStalls
    PROVE  Spec => DataPortSpec
<1> DEFINE Inv == IInv /\ InTime(mem, loadTime)
<1>1. Init => Inv
  BY InitIInv, InitInTime
<1>2. Inv /\ [Next]_vars => Inv'
  BY NextIInv, StutterIInv, NextInTime, StutterInTime
<1>3. Inv /\ [Next]_vars => [DataPort!Next]_(DataPort!vars)
  BY NextInTime, PortStepIs, PortAtRest
<1> HIDE DEF Inv
<1>4. QED
  BY <1>1, <1>2, <1>3, PortAtFirst, PTL DEF Spec, DataPortSpec, DataPort!Spec
=============================================================================
