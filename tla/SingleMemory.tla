---------------------------- MODULE SingleMemory ----------------------------
(***************************************************************************)
(* The background memory: SingleMemoryTopology over a fixed-latency memory *)
(* behind a shared bus (BlockingCyclingMemory), as operators on its state. *)
(*                                                                         *)
(* Accesses are told apart by ids.  The code draws them from a 32-bit      *)
(* counter and only ever compares them for equality; here the caller       *)
(* supplies any id that is not in use.                                     *)
(***************************************************************************)
EXTENDS Naturals, Sequences, Functions

CONSTANTS
    MaxId,                 \* how many ids there are
    ServiceTime,           \* Latency + numWords * PerWordLatency, by type
    MaxBlockingPerAccess   \* cycles other cores may block one access

(* Loads and write-backs move a line, stores the words they write.         *)
AccessType == {"LOAD", "STORE", "WRITEBACK"}
Ids == 1 .. MaxId

ASSUME SingleMemoryAssumption ==
    /\ MaxId \in Nat \ {0}
    /\ ServiceTime \in [AccessType -> Nat \ {0}]
    /\ MaxBlockingPerAccess \in Nat

(* Zero stands for no access, as in the code.                              *)
NoId == 0

Accesses == [id : Ids, type : AccessType]

MemoryStates ==
    [instrQueue : Seq(Accesses), dataQueue : Seq(Accesses),
     current : Ids \cup {NoId}, finished : Ids \cup {NoId},
     timeBlocked : Nat, delayed : BOOLEAN, added : 0 .. MaxBlockingPerAccess]

IdleMemory ==
    [instrQueue |-> <<>>, dataQueue |-> <<>>, current |-> NoId,
     finished |-> NoId, timeBlocked |-> 0, delayed |-> FALSE, added |-> 0]

IsBusy(m) == m.delayed \/ m.timeBlocked > 0

IdsInMemory(m) ==
    {m.current, m.finished}
        \cup {a.id : a \in Range(m.instrQueue) \cup Range(m.dataQueue)}

(* A new instruction access takes the place of one that still waits.       *)
AccessInstr(m, id) ==
    [m EXCEPT !.instrQueue = <<[id |-> id, type |-> "LOAD"]>>]

AcceptsDataWhenIdle(m) ==   \* mutant: refuses data as long as it serves
    m.dataQueue = <<>> /\ m.current = NoId

(* A data access is refused while another one waits.                       *)
AcceptsData(m) == m.dataQueue = <<>>

AccessData(m, id, type) ==
    [m EXCEPT !.dataQueue = <<[id |-> id, type |-> type]>>]

(* The bus delay is added after the access itself has been served.         *)
AnnounceAccess(m, access) ==
    [m EXCEPT !.current = access.id, !.delayed = TRUE,
              !.timeBlocked = ServiceTime[access.type]]

StartNextInstrFirst(m) ==   \* mutant: a waiting fetch goes before the data
    IF m.current # NoId THEN m
    ELSE IF m.instrQueue # <<>>
         THEN [AnnounceAccess(m, m.instrQueue[1]) EXCEPT !.instrQueue = <<>>]
    ELSE IF m.dataQueue # <<>>
         THEN [AnnounceAccess(m, m.dataQueue[1]) EXCEPT !.dataQueue = <<>>]
    ELSE m

(* Waiting data goes before a waiting instruction fetch.                   *)
StartNext(m) ==
    IF m.current # NoId THEN m
    ELSE IF m.dataQueue # <<>>
         THEN [AnnounceAccess(m, m.dataQueue[1]) EXCEPT !.dataQueue = <<>>]
    ELSE IF m.instrQueue # <<>>
         THEN [AnnounceAccess(m, m.instrQueue[1]) EXCEPT !.instrQueue = <<>>]
    ELSE m

PerformSplitOneMore(m) ==   \* mutant: one more cycle than allowed
    IF ~m.delayed THEN {m}
    ELSE {[m EXCEPT !.delayed = FALSE, !.added = 0]}
         \cup (IF m.added <= MaxBlockingPerAccess
               THEN {[m EXCEPT !.added = @ + 1]} ELSE {})

(* A served access is blocked for one more cycle, or for no longer.        *)
PerformSplit(m) ==
    IF ~m.delayed THEN {m}
    ELSE {[m EXCEPT !.delayed = FALSE, !.added = 0]}
         \cup (IF m.added < MaxBlockingPerAccess
               THEN {[m EXCEPT !.added = @ + 1]} ELSE {})

CycleBlocking(m) ==
    LET served == [m EXCEPT !.timeBlocked = IF @ > 0 THEN @ - 1 ELSE 0]
    IN  IF served.timeBlocked > 0 THEN {served} ELSE PerformSplit(served)

FinishAccess(m) ==
    IF m.current # NoId /\ ~IsBusy(m)
    THEN [m EXCEPT !.finished = m.current, !.current = NoId]
    ELSE [m EXCEPT !.finished = NoId]

CycleMemory(m) == {FinishAccess(n) : n \in CycleBlocking(StartNext(m))}

(* The bus is blocked by other cores, which may stall the whole core.      *)
IsBlocked(m) == m.delayed /\ m.timeBlocked = 0

FastForwardAddsUp(m) ==   \* mutant: the skipped blocking is added up
    [m EXCEPT !.timeBlocked = IF @ > 0 THEN 1 ELSE 0,
              !.added = @ + MaxBlockingPerAccess]

(* Fast-forwarding leaves a busy memory one cycle from its end; the cycles *)
(* it skips are counted apart, as an interval.                             *)
FastForward(m) ==
    [m EXCEPT !.timeBlocked = IF @ > 0 THEN 1 ELSE 0,
              !.added = MaxBlockingPerAccess]

SkippedCycles(m) ==
    IF m.timeBlocked > 0
    THEN [lo |-> m.timeBlocked - 1,
          hi |-> m.timeBlocked - 1 + MaxBlockingPerAccess]
    ELSE [lo |-> 0, hi |-> MaxBlockingPerAccess - m.added]
=============================================================================
