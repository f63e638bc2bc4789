-------------------------- MODULE InOrderPipeline --------------------------
(***************************************************************************)
(* The in-order pipeline of five stages as it is cycled until one          *)
(* instruction after the other has left it.  A branch takes effect when    *)
(* its instruction leaves execute, or memory if it loads the pc, and what  *)
(* was fetched behind it is flushed.  Persistence scopes are entered at    *)
(* fetch and left at write back.  A cycle is one atomic action; its stages *)
(* are operators from a state to the states after the stage.               *)
(***************************************************************************)
EXTENDS MachineCode, MemoryPorts

VARIABLES
    strict,      \* instruction fetches wait for earlier data misses
    entry,       \* where the analysis starts
    core,        \* the state of the pipeline
    at,          \* the instruction that has to become final next
    tick,        \* the parity of the cycle counter
    answered,    \* the ports that were answered in the last cycle
    stalled,     \* the memory stalled the core in the last cycle
    converged    \* the last cycle changed nothing but the memory

vars == <<strict, entry, core, at, tick, answered, stalled, converged>>

(* The latches behind the stages, by the code's indices.                   *)
IF_ID == 0
ID_EX == 1
EX_MEM == 2
MEM_WB == 3
WB_FIN == 4
Stages == 0 .. 4

Guarded == {"cond", "table", "return", "predreturn"}

IsFlow(e, flows) == HasInstr(e.addr) /\ Code[e.addr].flow \in flows
IsReturn(e) == IsFlow(e, {"return", "predreturn"})
IsMemory(e) == HasInstr(e.addr) /\ Code[e.addr].mem # "none"
IsLoad(e) == HasInstr(e.addr) /\ Code[e.addr].mem = "load"

IsFree(s, i) == s.inflight[i] = None

(* failed: an assertion of a stage does not hold; unentered: a scope is    *)
(* left that was not entered.  arrived and leaked are history: the address *)
(* of the word fetched last, and the scopes that a flush did not leave.    *)
InitialCore(a) ==
    [pc |-> [addr |-> a, ctx |-> NoContext],
     inflight |-> [i \in Stages |-> None],
     times |-> {}, stallMemory |-> FALSE, interlock |-> FALSE,
     flushed |-> FALSE,
     instr |-> Accessed(IdlePort, a), accessId |-> NewId(IdlePort),
     accessFinished |-> FALSE,
     data |-> IdlePort, dataIds |-> {}, currAccess |-> 0,
     branches |-> <<>>, returns |-> <<>>,
     held |-> [l \in Loops |-> 0],
     failed |-> FALSE, unentered |-> FALSE, arrived |-> 0, leaked |-> {}]

Require(s, ok) == IF ok THEN s ELSE [s EXCEPT !.failed = TRUE]

(* The next populated stage, counted from i towards the older ones.        *)
Nearest(s, i) ==
    s.inflight[CHOOSE j \in i .. 4 :
                  ~IsFree(s, j) /\ \A k \in i .. j - 1 : IsFree(s, k)]

-----------------------------------------------------------------------------
(* Memory.                                                                 *)

AccessInstr(s) ==
    [s EXCEPT !.instr = Accessed(s.instr, s.pc.addr), !.accessId = NewId(s.instr)]

AccessDataOnceMore(s) ==   \* mutant: off by one
    LET e == s.inflight[EX_MEM]
    IN  IF IsMemory(e) /\ s.currAccess <= Code[e.addr].accesses
        THEN Require([s EXCEPT !.data = Accessed(s.data, e.addr),
                               !.dataIds = @ \cup {NewId(s.data)},
                               !.currAccess = @ + 1],
                     s.data.waiting = NoAccess)
        ELSE s

AccessData(s) ==
    LET e == s.inflight[EX_MEM]
    IN  IF IsMemory(e) /\ s.currAccess < Code[e.addr].accesses
        THEN Require([s EXCEPT !.data = Accessed(s.data, e.addr),
                               !.dataIds = @ \cup {NewId(s.data)},
                               !.currAccess = @ + 1],
                     s.data.waiting = NoAccess)
        ELSE s

(* The strict pipeline asks whether the data access has finished in order  *)
(* to tell the memory what is pending; asking takes the answer.            *)
AskForData(s) ==
    IF strict /\ IsMemory(s.inflight[EX_MEM])
       /\ \E id \in s.dataIds : IsFinished(s.data, id)
    THEN Polled(s.data) ELSE s.data

(* Could an instruction in flight still miss?  Fetches wait then.          *)
MissesPending(s) ==
    \/ ~IsFree(s, IF_ID) /\ (IsMemory(s.inflight[IF_ID])
                             \/ ~HasInstr(s.inflight[IF_ID].addr))
    \/ IsMemory(s.inflight[ID_EX])
    \/ IsMemory(s.inflight[EX_MEM]) /\ s.dataIds # {}

CouldAnswer(s) ==
    {x \in {"instr"} : CanAnswer(s.instr)} \cup {x \in {"data"} : CanAnswer(s.data)}

CycleMemoryThenAsk(s, answer) ==   \* mutant: asks after the memory has cycled
    LET m == [s EXCEPT !.stallMemory = FALSE, !.interlock = FALSE,
                       !.instr = CyclePort(s.instr, "instr" \in answer),
                       !.data = CyclePort(s.data, "data" \in answer)]
    IN  [m EXCEPT !.data = AskForData(m)]

(* The memory answers the ports in answer.                                 *)
CycleMemory(s, answer) ==
    [s EXCEPT !.stallMemory = FALSE, !.interlock = FALSE,
              !.instr = CyclePort(s.instr, "instr" \in answer),
              !.data = CyclePort(AskForData(s), "data" \in answer)]

-----------------------------------------------------------------------------
(* Persistence scopes.                                                     *)

EnterScopes(s, from, to) ==
    [s EXCEPT !.held = [l \in Loops |-> IF l \in EnteredBy(from, to)
                                        THEN @[l] + 1 ELSE @[l]]]

LeaveScopes(s, scopes) ==
    [s EXCEPT !.held = [l \in Loops |-> IF l \in scopes /\ @[l] > 0
                                        THEN @[l] - 1 ELSE @[l]],
              !.unentered = @ \/ \E l \in scopes : s.held[l] = 0]

-----------------------------------------------------------------------------
(* Branches.                                                               *)

(* What was fetched behind the branch is dropped, and the scopes it had    *)
(* entered are left; for the address that is being fetched only if it was  *)
(* accessed.  A call comes back to the block behind it.                    *)
FlushKeepsScopes(s, oldPc) ==   \* mutant: scopes are not left
    [s EXCEPT !.flushed = TRUE, !.inflight[IF_ID] = None]

FlushFetchOnly(s, oldPc) ==   \* mutant: what was fetched already goes on
    [s EXCEPT !.flushed = TRUE]

Flush(s, oldPc) ==
    LET fetching == EnteredBy(Nearest(s, IF_ID).addr, oldPc)
        accessed == s.accessId # NoId \/ s.accessFinished
        fetched == IF IsFree(s, IF_ID) THEN {}
                   ELSE EnteredBy(Nearest(s, ID_EX).addr, s.inflight[IF_ID].addr)
        called == IsFree(s, IF_ID) /\ IsFlow(Nearest(s, IF_ID), {"call"})
        kept == IF accessed \/ called THEN {} ELSE fetching
        left == LeaveScopes(LeaveScopes(s, IF accessed THEN fetching ELSE {}), fetched)
    IN  [left EXCEPT !.flushed = TRUE, !.inflight[IF_ID] = None,
                     !.leaked = @ \cup kept]

Targets(e) ==
    CASE IsFlow(e, {"cond", "jump", "table"}) ->
            {[addr |-> t, ctx |-> e.ctx] : t \in Code[e.addr].to}
      [] IsFlow(e, {"call"}) -> Callee(e)
      [] IsReturn(e) -> ReturnLocations(e, entry)

Taken(s, e, t) ==
    [s EXCEPT !.pc = t,
              !.branches = IF IsFlow(e, Guarded)
                           THEN Append(@, [from |-> e, taken |-> TRUE,
                                           to |-> IF IsReturn(e) THEN None ELSE t])
                           ELSE @,
              !.returns = IF IsReturn(e) THEN Append(@, t) ELSE @]

NotTaken(s, e) ==
    [s EXCEPT !.branches = Append(@, [from |-> e, taken |-> FALSE, to |-> None])]

(* The states that a branch leads to.  Where it is not taken the pipeline  *)
(* goes on, except behind a predicated return.                             *)
Resolve(s, e) ==
    {Flush(Taken(s, e, t), s.pc.addr) : t \in Targets(e)}
        \cup (CASE IsFlow(e, {"predreturn"}) -> {Flush(NotTaken(s, e), s.pc.addr)}
                [] IsFlow(e, {"cond"}) /\ strict -> {AccessInstr(NotTaken(s, e))}
                [] IsFlow(e, {"cond"}) /\ ~strict -> {NotTaken(s, e)}
                [] OTHER -> {})

(* Branches that load the pc are handled by the memory stage.              *)
CheckForBranches(s, memory) ==
    LET e == s.inflight[IF memory THEN EX_MEM ELSE ID_EX]
    IN  IF IsFlow(e, Flow \ {"next"}) /\ (memory <=> IsLoad(e))
        THEN Resolve(Require(s, memory => IsFree(s, ID_EX)), e)
        ELSE {s}

-----------------------------------------------------------------------------
(* The stages, oldest instruction first.                                   *)

(* The instruction leaves; so do the scopes that its successor is not in.  *)
WriteBack(s) ==
    LET older == {i \in {IF_ID, ID_EX, EX_MEM} : ~IsFree(s, i)}
        next == IF older = {} THEN s.pc
                ELSE s.inflight[CHOOSE i \in older : \A j \in older : j <= i]
        done == s.inflight[MEM_WB]
    IN  IF IsFree(s, MEM_WB) THEN s
        ELSE LeaveScopes([s EXCEPT !.inflight[WB_FIN] = done,
                                   !.inflight[MEM_WB] = None],
                         LeftBy(done.addr, next.addr))

(* Each access that has finished makes room for the next one.              *)
PollData(s) ==
    LET finished == {id \in s.dataIds : IsFinished(s.data, id)}
    IN  IF finished = {} THEN s
        ELSE AccessData([s EXCEPT !.data = Polled(s.data), !.dataIds = @ \ finished])

MemoryStage(s) ==
    LET e == s.inflight[EX_MEM]
        m == IF IsMemory(e) THEN PollData(s) ELSE s
        waits == IsMemory(e) /\ (m.currAccess < Code[e.addr].accesses \/ m.dataIds # {})
        user == s.inflight[ID_EX]
        loadUse == /\ IsLoad(e) /\ HasInstr(user.addr)
                   /\ Code[e.addr].dest \in Code[user.addr].uses
    IN  CASE IsFree(s, EX_MEM) -> {s}
          [] ~IsFree(s, EX_MEM) /\ (waits \/ ~IsFree(s, MEM_WB)) ->
                {[m EXCEPT !.stallMemory = waits]}
          [] ~IsFree(s, EX_MEM) /\ ~waits /\ IsFree(s, MEM_WB) ->
                {[r EXCEPT !.inflight[EX_MEM] = None] :
                    r \in CheckForBranches([m EXCEPT !.stallMemory = FALSE,
                                                    !.interlock = loadUse,
                                                    !.inflight[MEM_WB] = e], TRUE)}

(* The execution times are a set: the instruction may finish if one of     *)
(* them is over, and may go on if another one is not.                      *)
ExecuteStage(s) ==
    LET e == s.inflight[ID_EX]
        rest == {t - 1 : t \in {u \in s.times : u > 1}}
        advanced == AccessData([s EXCEPT !.inflight[EX_MEM] = e,
                                         !.dataIds = {}, !.currAccess = 0])
        couldFinish == \E t \in s.times : t <= 1
        checked == Require(s, s.times # {})
    IN  IF IsFree(s, ID_EX) \/ s.interlock
        THEN {Require(s, ~IsFree(s, ID_EX) \/ s.times = {})}
        ELSE (IF couldFinish /\ IsFree(s, EX_MEM)
              THEN {[r EXCEPT !.inflight[ID_EX] = None, !.times = {}] :
                       r \in CheckForBranches(advanced, FALSE)}
              ELSE {})
             \cup (IF couldFinish /\ ~IsFree(s, EX_MEM)
                   THEN {[s EXCEPT !.times = {0}]} ELSE {})
             \cup (IF rest # {} \/ s.times = {}
                   THEN {[checked EXCEPT !.times = rest]} ELSE {})

Decode(s) ==
    LET e == s.inflight[IF_ID]
    IN  CASE IsFree(s, IF_ID) \/ ~IsFree(s, ID_EX) -> s
          [] ~IsFree(s, IF_ID) /\ IsFree(s, ID_EX) /\ HasInstr(e.addr) ->
                [s EXCEPT !.inflight[ID_EX] = e, !.times = Code[e.addr].times,
                          !.inflight[IF_ID] = None]
          [] ~IsFree(s, IF_ID) /\ IsFree(s, ID_EX) /\ ~HasInstr(e.addr) ->
                [s EXCEPT !.inflight[IF_ID] = None]

StopsFetchNotAtTables(e) ==   \* mutant: fetches on behind a jump table
    \/ GoesExternal(e.addr)
    \/ IsFlow(e, {"call", "return", "predreturn"})
    \/ IsFlow(e, {"cond", "jump"}) /\ strict

(* Fetching stops behind an instruction whose successor is not known.      *)
StopsFetch(e) ==
    \/ GoesExternal(e.addr)
    \/ IsFlow(e, {"call", "return", "predreturn", "table"})
    \/ IsFlow(e, {"cond", "jump"}) /\ strict

FetchNext(s) ==
    LET e == s.pc
        fetched == EnterScopes([s EXCEPT !.inflight[IF_ID] = e, !.pc = Following(e),
                                         !.accessFinished = FALSE],
                               e.addr, Following(e).addr)
    IN  IF ~IsFree(s, IF_ID) \/ ~s.accessFinished THEN s
        ELSE IF StopsFetch(e) THEN fetched ELSE AccessInstr(fetched)

FetchKeepsWord(s) ==   \* mutant: the word of the flushed fetch stays
    IF s.flushed
    THEN AccessInstr(EnterScopes([s EXCEPT !.flushed = FALSE],
                                 Nearest(s, IF_ID).addr, s.pc.addr))
    ELSE IF IsFinished(s.instr, s.accessId)
         THEN FetchNext([s EXCEPT !.accessFinished = TRUE, !.accessId = NoId,
                                  !.arrived = s.instr.finished.addr,
                                  !.instr = Polled(s.instr)])
         ELSE FetchNext(s)

Fetch(s) ==
    IF s.flushed
    THEN AccessInstr(EnterScopes([s EXCEPT !.accessFinished = FALSE, !.flushed = FALSE],
                                 Nearest(s, IF_ID).addr, s.pc.addr))
    ELSE IF IsFinished(s.instr, s.accessId)
         THEN FetchNext([s EXCEPT !.accessFinished = TRUE, !.accessId = NoId,
                                  !.arrived = s.instr.finished.addr,
                                  !.instr = Polled(s.instr)])
         ELSE FetchNext(s)

(* The states after a cycle of a core that the memory does not stall.      *)
Cycle(s) ==
    {Fetch(Decode(x)) : x \in UNION {ExecuteStage(y) : y \in MemoryStage(WriteBack(s))}}

-----------------------------------------------------------------------------
(* Convergence: a cycle that changed the memory only will be followed by   *)
(* others that do, until a port answers, and these are skipped.            *)

UpToMemoryAndTimes(s) ==   \* mutant: execution times are not compared
    <<s.pc, s.branches, s.returns, s.inflight, s.stallMemory,
      s.interlock, s.flushed, s.accessFinished, s.currAccess>>

UpToMemory(s) ==
    <<s.pc, s.branches, s.returns, s.inflight, s.times, s.stallMemory,
      s.interlock, s.flushed, s.accessFinished, s.currAccess>>

IsConverged(origin, s) == UpToMemory(s) = UpToMemory(origin)

IsEmpty(s) == \A i \in Stages : IsFree(s, i)

(* A port is busy, or the pipeline has run empty.                          *)
CheckConvergence(origin, s) ==
    Require(s, IsConverged(origin, s) => IsBusy(s.instr) \/ IsBusy(s.data) \/ IsEmpty(s))

-----------------------------------------------------------------------------
(* The analysis driver: cycle until the instruction is final, then go on   *)
(* with the one that the state assumed would follow.                       *)

Done == [addr |-> Len(Code) + 3, ctx |-> NoContext]

IsFinal(s, e) ==
    IF GoesExternal(e.addr)
    THEN IsEmpty(s) /\ ~IsBusy(s.instr) /\ ~IsBusy(s.data)
    ELSE s.inflight[WB_FIN] = e

(* cycle().  While the memory stalls the core nothing else happens.        *)
CyclePipeline ==
    /\ at # Done
    /\ ~IsFinal(core, at)
    /\ tick' = ~tick
    /\ answered' \in SUBSET CouldAnswer(core)
    /\ stalled' \in BOOLEAN
    /\ stalled' => answered' = {} /\ CouldAnswer(core) # {}
    /\ LET m == Require(CycleMemory(core, answered'), IsFree(core, WB_FIN))
       IN  \E s \in (IF stalled' THEN {m} ELSE Cycle(m)) :
              /\ core' = CheckConvergence(core, s)
              /\ converged' = IsConverged(core, s)
    /\ UNCHANGED <<strict, entry, at>>

(* The oldest assumption is about the branch that has become final.        *)
Guarding(s, e, taken) ==
    /\ s.branches # <<>>
    /\ Head(s.branches).from = e
    /\ Head(s.branches).taken = taken

Forgotten(s) == [s EXCEPT !.branches = Tail(@)]
Retired(s) == [s EXCEPT !.inflight[WB_FIN] = None]

(* Final branches whose assumption is missing or about another branch.     *)
AssumptionsFit ==
    at # Done /\ IsFinal(core, at) =>
        /\ IsFlow(at, Guarded) =>
              \E taken \in BOOLEAN : Guarding(core, at, taken)
        /\ IsReturn(at) /\ Guarding(core, at, TRUE) =>
              core.returns # <<>>

NextInstruction(e) ==
    /\ at' = e
    /\ converged' = FALSE
    /\ UNCHANGED <<strict, entry, tick, answered, stalled>>

AdvancePlain ==
    /\ IsFlow(at, {"next", "jump", "call"}) /\ IsFinal(core, at)
    /\ core' = Retired(core)
    /\ \/ IsFlow(at, {"next"}) /\ NextInstruction(Following(at))
       \/ \E t \in (IF IsFlow(at, {"next"}) THEN {} ELSE Targets(at)) : NextInstruction(t)

AdvanceTaken ==
    /\ IsFlow(at, {"cond", "table"}) /\ IsFinal(core, at)
    /\ Guarding(core, at, TRUE)
    /\ core' = Forgotten(Retired(core))
    /\ NextInstruction(Head(core.branches).to)

AdvanceNotTaken ==
    /\ IsFlow(at, {"cond", "predreturn"}) /\ IsFinal(core, at)
    /\ Guarding(core, at, FALSE)
    /\ core' = Forgotten(Retired(core))
    /\ NextInstruction(Following(at))

AdvanceReturn ==
    /\ IsReturn(at) /\ IsFinal(core, at)
    /\ Guarding(core, at, TRUE) /\ core.returns # <<>>
    /\ IF Head(core.returns) = Exit
       THEN core' = Retired(core)
       ELSE core' = [Forgotten(Retired(core)) EXCEPT !.returns = Tail(@)]
    /\ NextInstruction(Head(core.returns))

(* The program has left the pipeline; only now the return is guarded.      *)
AdvanceExit ==
    /\ at = Exit /\ IsFinal(core, at)
    /\ core.branches # <<>>
    /\ core' = Forgotten(core)
    /\ NextInstruction(Done)

Advance == AdvancePlain \/ AdvanceTaken \/ AdvanceNotTaken \/ AdvanceReturn \/ AdvanceExit

Init ==
    /\ strict \in BOOLEAN
    /\ entry \in EntryPoints
    /\ core = InitialCore(entry)
    /\ at = [addr |-> entry, ctx |-> NoContext]
    /\ tick = FALSE /\ answered = {} /\ stalled = FALSE /\ converged = FALSE

Next == CyclePipeline \/ Advance

(* The pipeline is cycled, a stall ends (the bus is blocked for a bounded  *)
(* time), and each access is answered in the end, as the ports of          *)
(* CacheTopology promise; a fetch may have to wait until no earlier        *)
(* instruction can miss.  A cycle is a step that changes tick.             *)
Ticking == at # Done /\ ~IsFinal(core, at) /\ tick' = ~tick

Running == Ticking /\ stalled' = FALSE

Answering(port) ==
    /\ Ticking
    /\ port \in CouldAnswer(core)
    /\ port = "instr" => ~(strict /\ MissesPending(core))
    /\ answered' \in {{port}, {"instr", "data"}}

Fairness ==
    /\ WF_tick(Running) /\ WF_vars(Advance)
    /\ WF_tick(Answering("instr")) /\ WF_tick(Answering("data"))

Spec == Init /\ [][Next]_vars /\ Fairness

-----------------------------------------------------------------------------
(* Properties.                                                             *)

(* Types; at most one data access is under way, and an instruction makes   *)
(* no more of them than it has.                                            *)
TypeOK ==
    /\ {strict, tick, stalled, converged} \subseteq BOOLEAN
    /\ entry \in EntryPoints /\ at \in Elements
    /\ answered \subseteq {"instr", "data"}
    /\ core.pc \in Elements
    /\ core.inflight \in [Stages -> Elements]
    /\ core.times \subseteq Nat
    /\ {core.stallMemory, core.interlock, core.flushed, core.accessFinished,
        core.failed, core.unentered} \subseteq BOOLEAN
    /\ core.instr \in Ports /\ core.data \in Ports
    /\ core.accessId \in AccessIds \cup {NoId}
    /\ core.dataIds \in {{}} \cup {{id} : id \in AccessIds}
    /\ core.currAccess \in Nat
    /\ IsMemory(core.inflight[EX_MEM]) =>
          core.currAccess <= Code[core.inflight[EX_MEM].addr].accesses
    /\ core.branches \in Seq([from : Elements, taken : BOOLEAN, to : Elements])
    /\ core.returns \in Seq(Elements)
    /\ core.held \in [Loops -> Nat]

(* No assertion fails: the final stage has been cleared, data accesses are *)
(* accepted, execute is empty behind a branch that loads the pc, and is    *)
(* where execution times are, a converged pipeline waits for a port or has *)
(* run empty, and the driver finds the assumption about each branch in     *)
(* front.  (That a scope that is left was entered: ScopesFollowFlow.)      *)
NoAssertionFails == ~core.failed /\ AssumptionsFit

Populated == {i \in Stages : ~IsFree(core, i)}

(* What entered the pipeline behind the instruction of a stage.            *)
Younger(i) ==
    LET behind == {j \in Populated : j < i}
    IN  IF behind = {} THEN core.pc
        ELSE core.inflight[CHOOSE j \in behind : \A k \in behind : k <= j]

(* The latch in which the branch of an instruction has been handled.       *)
IsResolved(i) == i >= (IF IsLoad(core.inflight[i]) THEN MEM_WB ELSE EX_MEM)

Assuming == {i \in Populated : IsFlow(core.inflight[i], Guarded) /\ IsResolved(i)}
Assumption(i) == core.branches[Cardinality({j \in Assuming : j >= i})]
Returning == {i \in Assuming : IsReturn(core.inflight[i]) /\ Assumption(i).taken}

(* The oldest instruction in flight is the one the driver waits for; each  *)
(* other one is what follows the one before it, by address or, once the    *)
(* branch has been handled, where it went; and the assumptions a state     *)
(* carries are about the handled branches in flight, in program order.     *)
(* (The end of the program is not decoded: behind it is what follows it.)  *)
InProgramOrder ==
    HasInstr(at.addr) =>
        /\ Younger(WB_FIN + 1) = at \/ Populated # {}
        /\ Populated # {} =>
              at = core.inflight[CHOOSE i \in Populated : \A j \in Populated : j <= i]
        /\ Len(core.branches) = Cardinality(Assuming)
        /\ Len(core.returns) = Cardinality(Returning)
        /\ \A i \in Assuming : Assumption(i).from = core.inflight[i]
        /\ \A i \in Populated :
              LET e == core.inflight[i]
                  falls == Younger(i) = Following(e)
              IN  CASE i \in Returning ->
                          LET to == core.returns[Cardinality({j \in Returning : j >= i})]
                          IN  Younger(i) \in {to} \cup {y \in {Following(Exit)} : to = Exit}
                    [] i \in Assuming \ Returning ->
                          IF Assumption(i).taken THEN Younger(i) = Assumption(i).to ELSE falls
                    [] i \notin Assuming /\ IsFlow(e, {"jump", "call"}) /\ IsResolved(i) ->
                          Younger(i) \in Targets(e)
                    [] OTHER -> falls

LastAccess(p) ==
    CASE p.waiting # NoAccess -> p.waiting
      [] p.waiting = NoAccess /\ p.ongoing # NoAccess -> p.ongoing
      [] OTHER -> p.finished

(* The fetch that the pipeline waits for is the latest of its port, and of *)
(* the address in pc; a word that has arrived belongs to pc; and while a   *)
(* data access is under way it is the one that the instruction in the      *)
(* memory stage waits for.  So states that agree on their memory agree on  *)
(* the ids, which comparing and joining states leave out.                  *)
PortsServePipeline ==
    /\ core.accessId # NoId =>
          LastAccess(core.instr) = [id |-> core.accessId, addr |-> core.pc.addr]
    /\ core.accessFinished => core.accessId = NoId /\ core.arrived = core.pc.addr
    /\ core.dataIds = (IF IsBusy(core.data) THEN {LastAccess(core.data).id} ELSE {})
    /\ IsBusy(core.data) => LastAccess(core.data).addr = core.inflight[EX_MEM].addr

(* Fast-forwarding is sound: from a converged state another cycle of the   *)
(* same kind in which no port answers leaves the pipeline as it is.        *)
FastForwardSound ==
    [][ converged /\ at' = at /\ answered' = {} /\ stalled' = stalled
        => UpToMemory(core') = UpToMemory(core) ]_vars

(* Is the scope open when control is at e?  A block that ends in a call is *)
(* followed by the block behind it before the callee runs.                 *)
IsInside(l, e) ==
    /\ HasInstr(e.addr)
    /\ \/ Code[e.addr].block \in LoopBlocks[l]
       \/ \E a \in {e.ctx, e.ctx + 1} \cap Addresses :
             e.ctx # NoContext /\ Code[a].block \in LoopBlocks[l]

(* A scope that no flush forgot is open as often as control at the oldest  *)
(* instruction has it open, plus once for each time that the path in       *)
(* flight enters it: entering at fetch, taking it back on a wrong path,    *)
(* and leaving at write back balance.  No scope is left that is not open,  *)
(* which LeaveScopes asserts.                                              *)
ScopesFollowFlow ==
    LET inside == Populated \ {WB_FIN}
        first == IF inside = {} THEN core.pc
                 ELSE core.inflight[CHOOSE i \in inside : \A j \in inside : j <= i]
        Behind(i) == IF IsFlow(core.inflight[i], {"call"})
                     THEN core.inflight[i].addr + 1 ELSE Younger(i).addr
    IN  /\ ~core.unentered
        /\ \A l \in Loops \ core.leaked :
              core.held[l] =
                 Cardinality({i \in inside : l \in EnteredBy(core.inflight[i].addr, Behind(i))})
                 + (IF IsInside(l, first) THEN 1 ELSE 0)

(* Every instruction becomes final and the driver goes on to the next, or  *)
(* the program ends: no stage waits for one that waits for it, and no      *)
(* answer of the memory is lost.                                           *)
EveryInstructionRetires == []<><<Advance>>_vars \/ <>(at = Done)
=============================================================================
