----------------------- MODULE InOrderPipelineProofs -----------------------
(***************************************************************************)
(* For every program: the ports serve what the pipeline waits for,         *)
(* instructions become final in program order, whatever is flushed, no     *)
(* assertion fails, and only cycles that change nothing are skipped.       *)
(*                                                                         *)
(* A cycle is a chain of stages, each an operator from a state to the      *)
(* states after it.  So the invariant is an operator on states (Flowing,   *)
(* Consistent, Ordered) and each stage has a lemma that says what it       *)
(* changes and one for each invariant that it keeps.  Between the stages   *)
(* less holds than between cycles: a port may have been answered and not   *)
(* asked (Pending), and behind a flush the address in pc is not yet        *)
(* fetched (Cleared).                                                      *)
(***************************************************************************)
EXTENDS InOrderPipeline, FiniteSetTheorems, SequenceTheorems, WellFoundedInduction, TLAPS

(* The types of a state and of the assumptions it carries.                 *)
Branch == [from : Elements, taken : BOOLEAN, to : Elements]

Core ==
    [pc : Elements, inflight : [Stages -> Elements], times : SUBSET Nat,
     stallMemory : BOOLEAN, interlock : BOOLEAN, flushed : BOOLEAN,
     instr : Ports, accessId : AccessIds \cup {NoId}, accessFinished : BOOLEAN,
     data : Ports, dataIds : SUBSET AccessIds, currAccess : Nat,
     branches : Seq(Branch), returns : Seq(Elements), held : [Loops -> Nat],
     failed : BOOLEAN, unentered : BOOLEAN, arrived : Nat, leaked : SUBSET Loops]

LEMMA LeastNumber ==
    ASSUME NEW T, T \subseteq Nat, T # {}
    PROVE  \E m \in T : \A k \in T : m <= k
<1>1. PICK m \in T : \A k \in T : <<k, m>> \notin OpToRel(<, Nat)
  BY NatLessThanWellFounded, WFMin
<1>2. \A k \in T : ~ k < m
  BY <1>1 DEF OpToRel
<1>3. QED
  BY <1>2

-----------------------------------------------------------------------------
(* Which parts of a state an operation leaves alone.                       *)
FetchKept(r, s) ==
    /\ r.instr = s.instr /\ r.accessId = s.accessId
    /\ r.accessFinished = s.accessFinished /\ r.arrived = s.arrived
DataKept(r, s) == r.data = s.data /\ r.dataIds = s.dataIds /\ r.currAccess = s.currAccess
FlowKept(r, s) == r.pc = s.pc /\ r.branches = s.branches /\ r.returns = s.returns
WorkKept(r, s) ==
    /\ r.times = s.times /\ r.stallMemory = s.stallMemory /\ r.interlock = s.interlock
StagesKept(r, s) == r.inflight = s.inflight /\ r.flushed = s.flushed

(* All but the scopes.                                                     *)
Kept(r, s) ==
    FetchKept(r, s) /\ DataKept(r, s) /\ FlowKept(r, s) /\ WorkKept(r, s) /\ StagesKept(r, s)

LEMMA RequireIs ==
    ASSUME NEW s \in Core, NEW ok \in BOOLEAN
    PROVE  /\ Require(s, ok) \in Core /\ Kept(Require(s, ok), s)
           /\ ok => Require(s, ok) = s
BY DEF Core, Require, Kept, FetchKept, DataKept, FlowKept, WorkKept, StagesKept

LEMMA EnterScopesIs ==
    ASSUME NEW s \in Core, NEW a, NEW b
    PROVE  LET r == EnterScopes(s, a, b)
           IN  r \in Core /\ Kept(r, s) /\ r.failed = s.failed
<1> DEFINE h == [l \in Loops |-> IF l \in EnteredBy(a, b) THEN s.held[l] + 1 ELSE s.held[l]]
<1>1. h \in [Loops -> Nat]
  BY DEF Core
<1>2. EnterScopes(s, a, b) = [s EXCEPT !.held = h]
  BY DEF EnterScopes
<1> HIDE DEF h
<1>3. QED
  BY <1>1, <1>2 DEF Core, Kept, FetchKept, DataKept, FlowKept, WorkKept, StagesKept

LEMMA LeaveScopesIs ==
    ASSUME NEW s \in Core, NEW scopes
    PROVE  LET r == LeaveScopes(s, scopes)
           IN  r \in Core /\ Kept(r, s) /\ r.failed = s.failed
<1> DEFINE h == [l \in Loops |-> IF l \in scopes /\ s.held[l] > 0
                                 THEN s.held[l] - 1 ELSE s.held[l]]
           u == s.unentered \/ \E l \in scopes : s.held[l] = 0
<1>1. h \in [Loops -> Nat] /\ u \in BOOLEAN
  BY DEF Core
<1>2. LeaveScopes(s, scopes) = [s EXCEPT !.held = h, !.unentered = u]
  BY DEF LeaveScopes
<1> HIDE DEF h, u
<1>3. QED
  BY <1>1, <1>2 DEF Core, Kept, FetchKept, DataKept, FlowKept, WorkKept, StagesKept

-----------------------------------------------------------------------------
(* The program.                                                            *)

LEMMA CodeFacts ==
    /\ Len(Code) \in Nat /\ Len(Code) >= 1 /\ Addresses = 1 .. Len(Code)
    /\ LinkRegister = Len(Code) + 2 /\ AllAddresses = 0 .. Len(Code) + 3
    /\ \A a \in Addresses :
          /\ Code[a].to \subseteq Addresses /\ Code[a].accesses \in Nat
          /\ Code[a].times \subseteq Nat /\ Code[a].flow \in Flow
          /\ Code[a].mem \in {"none", "load", "store"}
<1>1. Code \in Seq(Instruction) /\ Code # <<>>
  BY CodeAssumption
<1>2. Len(Code) \in Nat /\ DOMAIN Code = 1 .. Len(Code)
  BY <1>1, LenProperties
<1>3. Len(Code) # 0
  BY <1>1, EmptySeq
<1>4. \A a \in DOMAIN Code : Code[a] \in Instruction
  BY <1>1, <1>2, ElementOfSeq
<1>5. QED
  BY <1>2, <1>3, <1>4 DEF Addresses, LinkRegister, AllAddresses, Instruction

LEMMA FollowingIs ==
    ASSUME NEW e \in Elements, e.addr <= LinkRegister
    PROVE  Following(e) \in Elements /\ Following(e).addr = e.addr + 1
BY CodeFacts DEF Following, Elements, NoContext

LEMMA ExitIs ==
    /\ Exit \in Elements /\ Exit.addr = LinkRegister /\ ~HasInstr(LinkRegister)
    /\ None \in Elements /\ None.addr = 0 /\ ~HasInstr(0)
BY CodeFacts DEF Exit, None, Elements, NoContext, HasInstr

(* The targets of a branch, for a given entry.                             *)
TargetsOf(e, en) ==
    CASE IsFlow(e, {"cond", "jump", "table"}) ->
            {[addr |-> t, ctx |-> e.ctx] : t \in Code[e.addr].to}
      [] IsFlow(e, {"call"}) -> Callee(e)
      [] IsReturn(e) -> ReturnLocations(e, en)

(* A branch goes to an instruction, or back to where the program started.  *)
LEMMA TargetsAre ==
    ASSUME NEW e \in Elements, IsFlow(e, Flow \ {"next"}), NEW en, NEW t \in TargetsOf(e, en)
    PROVE  /\ t \in Elements /\ t.addr \in 1 .. LinkRegister
           /\ HasInstr(t.addr) \/ t = Exit
           /\ ~ HasInstr(t.addr) => IsReturn(e)
<1>1. e.addr \in Addresses /\ e.ctx \in AllAddresses /\ Code[e.addr].flow \in Flow \ {"next"}
  BY DEF IsFlow, HasInstr, Elements
<1>2. Addresses \subseteq AllAddresses /\ Addresses \subseteq 1 .. LinkRegister
  BY CodeFacts
<1>3. CASE IsFlow(e, {"cond", "jump", "table"})
  <2>1. t \in {[addr |-> x, ctx |-> e.ctx] : x \in Code[e.addr].to}
    BY <1>3 DEF TargetsOf, IsFlow, IsReturn
  <2>2. PICK x \in Code[e.addr].to : t = [addr |-> x, ctx |-> e.ctx]
    BY <2>1
  <2>3. x \in Addresses
    BY <1>1, CodeFacts
  <2>4. QED
    BY <1>1, <1>2, <2>2, <2>3 DEF Elements, HasInstr
<1>4. CASE IsFlow(e, {"call"})
  <2>1. t \in {[addr |-> x, ctx |-> e.addr] : x \in Code[e.addr].to}
    BY <1>4 DEF TargetsOf, IsFlow, IsReturn, Callee
  <2>2. PICK x \in Code[e.addr].to : t = [addr |-> x, ctx |-> e.addr]
    BY <2>1
  <2>3. x \in Addresses
    BY <1>1, CodeFacts
  <2>4. QED
    BY <1>1, <1>2, <2>2, <2>3 DEF Elements, HasInstr
<1>5. CASE IsReturn(e)
  <2>1. t \in ReturnLocations(e, en)
    BY <1>5 DEF TargetsOf, IsFlow, IsReturn
  <2>2. CASE t = Exit
    BY <1>5, <2>2, ExitIs, CodeFacts
  <2>3. CASE t # Exit
    <3>1. PICK x \in UNION {Contexts(c) :
                        c \in CallSites(Code[e.addr].function) \cap {e.ctx}} :
              t = [addr |-> e.ctx + 1, ctx |-> x]
      BY <2>1, <2>3 DEF ReturnLocations
    <3>2. e.ctx \in CallSites(Code[e.addr].function) /\ x \in Contexts(e.ctx)
      BY <3>1
    <3>3. e.ctx \in Addresses /\ Code[e.ctx].flow = "call"
      BY <3>2 DEF CallSites
    <3>4. e.ctx # Len(Code)
      BY <3>3, EndAssumption
    <3>5. e.ctx + 1 \in Addresses
      BY <3>3, <3>4, CodeFacts
    <3>6. x \in AllAddresses
      <4>1. NoContext \in AllAddresses
        BY CodeFacts DEF NoContext
      <4>2. CallSites(Code[e.ctx].function) \subseteq Addresses
        BY DEF CallSites
      <4>3. QED
        BY <1>2, <3>2, <4>1, <4>2 DEF Contexts
    <3>7. QED
      BY <1>2, <3>1, <3>5, <3>6 DEF Elements, HasInstr
  <2>4. QED
    BY <2>2, <2>3
<1>6. QED
  BY <1>1, <1>3, <1>4, <1>5 DEF IsFlow, IsReturn, Flow

-----------------------------------------------------------------------------
(* The ports.                                                              *)

(* No two of the three accesses that a port knows have one id.             *)
Distinct(p) ==
    /\ p.waiting # NoAccess => p.waiting.id \notin {p.ongoing.id, p.finished.id}
    /\ p.ongoing # NoAccess => p.ongoing.id # p.finished.id

LEMMA AccessHasId ==
    ASSUME NEW a \in PortAccesses
    PROVE  /\ a # NoAccess <=> a.id \in AccessIds
           /\ a = NoAccess <=> a.id = NoId
           /\ a.addr \in Nat /\ a.id \in Nat
BY MaxAccessIdAssumption DEF PortAccesses, NoAccess, AccessIds, NoId

LEMMA NewIdIsNew ==
    ASSUME NEW p \in Ports
    PROVE  /\ NewId(p) \in AccessIds
           /\ NewId(p) \notin {p.waiting.id, p.ongoing.id, p.finished.id}
<1>1. \E i \in AccessIds : i \notin {p.waiting.id, p.ongoing.id, p.finished.id}
  <2>1. {1, 2, 3, 4} \subseteq AccessIds
    BY MaxAccessIdAssumption DEF AccessIds
  <2>2. \A x, y, z : \E i \in {1, 2, 3, 4} : i \notin {x, y, z}
    OBVIOUS
  <2>3. QED
    BY <2>1, <2>2
<1>2. QED
  BY <1>1 DEF NewId

LEMMA AccessedIs ==
    ASSUME NEW p \in Ports, Distinct(p), NEW a \in Nat
    PROVE  /\ Accessed(p, a) \in Ports /\ Distinct(Accessed(p, a))
           /\ LastAccess(Accessed(p, a)) = [id |-> NewId(p), addr |-> a]
           /\ NewId(p) \in AccessIds /\ IsBusy(Accessed(p, a))
           /\ Accessed(p, a).ongoing = p.ongoing
<1>1. NewId(p) \in AccessIds /\ NewId(p) \notin {p.waiting.id, p.ongoing.id, p.finished.id}
  BY NewIdIsNew
<1>2. [id |-> NewId(p), addr |-> a] \in PortAccesses
  BY <1>1 DEF PortAccesses
<1>3. [id |-> NewId(p), addr |-> a] # NoAccess
  BY <1>1, <1>2, AccessHasId
<1>4. QED
  BY <1>1, <1>2, <1>3 DEF Accessed, Ports, Distinct, LastAccess, IsBusy

LEMMA PolledIs ==
    ASSUME NEW p \in Ports, Distinct(p)
    PROVE  /\ Polled(p) \in Ports /\ Distinct(Polled(p))
           /\ Polled(p).waiting = p.waiting /\ Polled(p).ongoing = p.ongoing
           /\ Polled(p).finished = NoAccess
<1>1. NoAccess \in PortAccesses
  BY DEF PortAccesses
<1>2. p.waiting \in PortAccesses /\ p.ongoing \in PortAccesses
  BY DEF Ports
<1>3. p.ongoing # NoAccess => p.ongoing.id # NoAccess.id
  BY <1>2, AccessHasId DEF NoAccess, NoId
<1>4. p.waiting # NoAccess => p.waiting.id # NoAccess.id
  BY <1>2, AccessHasId DEF NoAccess, NoId
<1>5. QED
  BY <1>1, <1>3, <1>4 DEF Polled, Ports, Distinct

LEMMA IdlePortIs == IdlePort \in Ports /\ Distinct(IdlePort) /\ ~IsBusy(IdlePort)
BY DEF IdlePort, Ports, PortAccesses, Distinct, IsBusy

(* A cycle moves accesses on.  An answer goes to the one that is ongoing.  *)
LEMMA CyclePortIs ==
    ASSUME NEW p \in Ports, Distinct(p), NEW answer \in BOOLEAN, answer => IsBusy(p)
    PROVE  LET r == CyclePort(p, answer)
           IN  /\ r \in Ports /\ Distinct(r)
               /\ IsBusy(p) => LastAccess(r) = LastAccess(p)
               /\ ~answer => (IsBusy(r) <=> IsBusy(p)) /\ r.finished = p.finished
               /\ ~answer /\ ~IsBusy(p) => LastAccess(r) = LastAccess(p)
               /\ p.waiting = NoAccess \/ p.ongoing = NoAccess =>
                     /\ r.waiting = NoAccess
                     /\ answer => ~IsBusy(r) /\ r.finished = LastAccess(p)
<1> DEFINE r == CyclePort(p, answer)
<1>1. /\ p.waiting \in PortAccesses /\ p.ongoing \in PortAccesses
      /\ p.finished \in PortAccesses /\ NoAccess \in PortAccesses
  BY DEF Ports, PortAccesses
<1>2. \A a \in PortAccesses : /\ a # NoAccess <=> a.id \in AccessIds
                              /\ a = NoAccess <=> a.id = NoId
  BY AccessHasId
<1> DEFINE q == Started(p)
<1>3. q \in Ports /\ Distinct(q) /\ LastAccess(q) = LastAccess(p) /\ (IsBusy(q) <=> IsBusy(p))
  BY <1>1, <1>2 DEF Started, Ports, Distinct, IsBusy, LastAccess
<1>4. /\ q.finished = p.finished
      /\ p.waiting = NoAccess \/ p.ongoing = NoAccess => q.waiting = NoAccess
      /\ IsBusy(p) => q.ongoing # NoAccess
  BY DEF Started, IsBusy
<1> HIDE DEF q
<1>5. CASE answer
  <2>1. r = Answered(q)
    BY <1>5 DEF CyclePort, q
  <2>2. q.waiting \in PortAccesses /\ q.ongoing \in PortAccesses
    BY <1>3 DEF Ports
  <2>3. r \in Ports /\ Distinct(r)
    BY <1>1, <1>2, <1>3, <2>1, <2>2 DEF Answered, Ports, Distinct
  <2>4. r.waiting = q.waiting /\ r.ongoing = NoAccess /\ r.finished = q.ongoing
    BY <2>1 DEF Answered
  <2>5. q.ongoing # NoAccess
    BY <1>4, <1>5
  <2>6. LastAccess(r) = LastAccess(q)
    BY <2>4, <2>5 DEF LastAccess
  <2>7. q.waiting = NoAccess => ~IsBusy(r) /\ r.finished = LastAccess(q)
    BY <2>4, <2>5 DEF LastAccess, IsBusy
  <2>8. p.waiting = NoAccess \/ p.ongoing = NoAccess => r.waiting = NoAccess
    BY <1>4, <2>4
  <2> HIDE DEF r
  <2>9. QED
    BY <1>3, <1>4, <1>5, <2>3, <2>6, <2>7, <2>8 DEF r
<1>6. CASE ~answer
  <2>1. r = q
    BY <1>6 DEF CyclePort, q
  <2>2. QED
    BY <1>3, <1>4, <1>6, <2>1
<1>7. QED
  BY <1>5, <1>6

-----------------------------------------------------------------------------
(* The operators on a state of the pipeline: what each changes.            *)

LEMMA InStages ==
    /\ Stages = {IF_ID, ID_EX, EX_MEM, MEM_WB, WB_FIN}
    /\ IF_ID = 0 /\ ID_EX = 1 /\ EX_MEM = 2 /\ MEM_WB = 3 /\ WB_FIN = 4
BY DEF Stages, IF_ID, ID_EX, EX_MEM, MEM_WB, WB_FIN

Sound(s) == s \in Core /\ Distinct(s.instr) /\ Distinct(s.data)

(* The address in pc is being fetched.                                     *)
Refetches(r, s) ==
    /\ r.accessId # NoId
    /\ LastAccess(r.instr) = [id |-> r.accessId, addr |-> r.pc.addr]
    /\ r.accessFinished = s.accessFinished /\ r.arrived = s.arrived

LEMMA AccessInstrIs ==
    ASSUME NEW s, Sound(s)
    PROVE  LET r == AccessInstr(s)
           IN  /\ Sound(r) /\ Refetches(r, s)
               /\ DataKept(r, s) /\ FlowKept(r, s) /\ WorkKept(r, s) /\ StagesKept(r, s)
               /\ r.failed = s.failed
<1> DEFINE r == AccessInstr(s)
           p == Accessed(s.instr, s.pc.addr)
           id == NewId(s.instr)
<1>1. s \in Core /\ s.instr \in Ports /\ Distinct(s.instr) /\ s.pc.addr \in Nat
  BY CodeFacts DEF Sound, Core, Elements
<1>2. /\ p \in Ports /\ Distinct(p) /\ id \in AccessIds
      /\ LastAccess(p) = [id |-> id, addr |-> s.pc.addr]
  BY <1>1, AccessedIs
<1>3. r = [s EXCEPT !.instr = p, !.accessId = id]
  BY DEF AccessInstr
<1>4. id # NoId
  BY <1>2 DEF AccessIds, NoId
<1> HIDE DEF p, id, r
<1>5. r \in Core /\ r.instr = p /\ r.accessId = id
  BY <1>1, <1>2, <1>3 DEF Core
<1>6. /\ r.accessFinished = s.accessFinished /\ r.arrived = s.arrived /\ r.failed = s.failed
      /\ DataKept(r, s) /\ FlowKept(r, s) /\ WorkKept(r, s) /\ StagesKept(r, s)
  BY <1>1, <1>3 DEF Core, DataKept, FlowKept, WorkKept, StagesKept
<1>7. Sound(r) /\ Refetches(r, s)
  BY <1>2, <1>4, <1>5, <1>6 DEF Sound, Refetches, DataKept, FlowKept
<1>8. QED
  BY <1>6, <1>7 DEF r

(* The next access of the instruction in the memory stage, if it has one.  *)
DataAccessed(r, s) ==
    LET e == s.inflight[EX_MEM]
    IN  IF IsMemory(e) /\ s.currAccess < Code[e.addr].accesses
        THEN /\ LastAccess(r.data).addr = e.addr /\ IsBusy(r.data)
             /\ LastAccess(r.data).id \in AccessIds
             /\ r.data.ongoing = s.data.ongoing
             /\ r.dataIds = s.dataIds \cup {LastAccess(r.data).id}
             /\ r.currAccess = s.currAccess + 1
        ELSE DataKept(r, s)

LEMMA AccessDataIs ==
    ASSUME NEW s, Sound(s)
    PROVE  LET r == AccessData(s)
           IN  /\ Sound(r) /\ DataAccessed(r, s)
               /\ FetchKept(r, s) /\ FlowKept(r, s) /\ WorkKept(r, s) /\ StagesKept(r, s)
               /\ s.data.waiting = NoAccess => r.failed = s.failed
<1> DEFINE r == AccessData(s)
           e == s.inflight[EX_MEM]
           p == Accessed(s.data, e.addr)
           id == NewId(s.data)
           c == s.currAccess + 1
           ids == s.dataIds \cup {id}
           n == [s EXCEPT !.data = p, !.dataIds = ids, !.currAccess = c]
           ok == s.data.waiting = NoAccess
<1>1. CASE ~(IsMemory(e) /\ s.currAccess < Code[e.addr].accesses)
  <2>1. r = s
    BY <1>1 DEF AccessData
  <2>2. DataAccessed(s, s) /\ FetchKept(s, s) /\ FlowKept(s, s) /\ WorkKept(s, s) /\ StagesKept(s, s)
    BY <1>1 DEF DataAccessed, FetchKept, FlowKept, WorkKept, StagesKept, DataKept
  <2>3. QED
    BY <2>1, <2>2
<1>2. CASE IsMemory(e) /\ s.currAccess < Code[e.addr].accesses
  <2>1. s \in Core /\ s.data \in Ports /\ Distinct(s.data) /\ e.addr \in Nat
    <3>1. s \in Core /\ s.data \in Ports /\ Distinct(s.data) /\ e \in Elements
      BY InStages DEF Sound, Core
    <3>2. QED
      BY <3>1, CodeFacts DEF Elements
  <2>2. /\ p \in Ports /\ Distinct(p) /\ id \in AccessIds /\ IsBusy(p)
        /\ LastAccess(p) = [id |-> id, addr |-> e.addr] /\ p.ongoing = s.data.ongoing
    BY <2>1, AccessedIs
  <2>3. c \in Nat /\ ids \in SUBSET AccessIds /\ c = s.currAccess + 1
    BY <2>1, <2>2 DEF Core
  <2>4. r = Require(n, ok) /\ ok \in BOOLEAN
    BY <1>2 DEF AccessData
  <2> HIDE DEF p, id, c, ok
  <2>5. n \in Core /\ n.data = p /\ n.dataIds = ids /\ n.currAccess = c
    BY <2>1, <2>2, <2>3 DEF Core
  <2>6. /\ FetchKept(n, s) /\ FlowKept(n, s) /\ WorkKept(n, s) /\ StagesKept(n, s)
        /\ n.failed = s.failed
    BY <2>1 DEF Core, FetchKept, FlowKept, WorkKept, StagesKept
  <2> HIDE DEF n, r
  <2>7. r \in Core /\ Kept(r, n) /\ (ok => r = n)
    BY <2>4, <2>5, RequireIs
  <2>8. FetchKept(r, s) /\ FlowKept(r, s) /\ WorkKept(r, s) /\ StagesKept(r, s)
    BY <2>6, <2>7 DEF Kept, FetchKept, FlowKept, WorkKept, StagesKept
  <2>9. r.data = p /\ r.dataIds = ids /\ r.currAccess = c
    BY <2>5, <2>7 DEF Kept, DataKept
  <2>10. LastAccess(r.data).id = id /\ LastAccess(r.data).addr = e.addr
    BY <2>2, <2>9
  <2>11. DataAccessed(r, s)
    <3>1. /\ IsBusy(r.data) /\ LastAccess(r.data).id \in AccessIds
          /\ r.data.ongoing = s.data.ongoing
          /\ r.dataIds = s.dataIds \cup {LastAccess(r.data).id}
          /\ r.currAccess = s.currAccess + 1
      <4>1. ids = s.dataIds \cup {id}
        OBVIOUS
      <4>2. QED
        BY <2>2, <2>3, <2>9, <2>10, <4>1
    <3>2. QED
      BY <1>2, <2>10, <3>1, Zenon DEF DataAccessed
  <2>12. Sound(r)
    BY <2>2, <2>7, <2>8, <2>9 DEF Sound, FetchKept
  <2>13. s.data.waiting = NoAccess => r.failed = s.failed
    BY <2>6, <2>7 DEF ok
  <2>14. QED
    BY <2>8, <2>11, <2>12, <2>13 DEF r
<1>3. QED
  BY <1>1, <1>2

(* A flush drops the fetched instruction.                                  *)
Flushes(r, s) ==
    /\ r.flushed /\ r.inflight = [s.inflight EXCEPT ![IF_ID] = None]
    /\ FetchKept(r, s)

LEMMA FlushIs ==
    ASSUME NEW s \in Core, NEW a
    PROVE  LET r == Flush(s, a)
           IN  /\ r \in Core /\ Flushes(r, s)
               /\ FlowKept(r, s) /\ DataKept(r, s) /\ WorkKept(r, s) /\ r.failed = s.failed
<1> DEFINE r == Flush(s, a)
<1>1. PICK fetching, fetched, kept, accessed, left :
          /\ left = LeaveScopes(LeaveScopes(s, IF accessed THEN fetching ELSE {}), fetched)
          /\ r = [left EXCEPT !.flushed = TRUE, !.inflight[IF_ID] = None,
                              !.leaked = @ \cup kept]
          /\ kept \subseteq Loops
  <2> DEFINE fetching == EnteredBy(Nearest(s, IF_ID).addr, a)
             accessed == s.accessId # NoId \/ s.accessFinished
             fetched == IF IsFree(s, IF_ID) THEN {}
                        ELSE EnteredBy(Nearest(s, ID_EX).addr, s.inflight[IF_ID].addr)
             called == IsFree(s, IF_ID) /\ IsFlow(Nearest(s, IF_ID), {"call"})
             kept == IF accessed \/ called THEN {} ELSE fetching
             left == LeaveScopes(LeaveScopes(s, IF accessed THEN fetching ELSE {}), fetched)
  <2>1. r = [left EXCEPT !.flushed = TRUE, !.inflight[IF_ID] = None, !.leaked = @ \cup kept]
    BY Zenon DEF Flush
  <2>2. kept \subseteq Loops
    BY DEF EnteredBy
  <2> HIDE DEF fetching, accessed, fetched, kept, r
  <2>3. QED
    BY <2>1, <2>2, Zenon
<1>2. left \in Core /\ Kept(left, s) /\ left.failed = s.failed
  <2>1. PICK x : x = LeaveScopes(s, IF accessed THEN fetching ELSE {})
    OBVIOUS
  <2>2. x \in Core /\ Kept(x, s) /\ x.failed = s.failed
    BY <2>1, LeaveScopesIs
  <2>3. left = LeaveScopes(x, fetched)
    BY <1>1, <2>1
  <2>4. left \in Core /\ Kept(left, x) /\ left.failed = x.failed
    BY <2>2, <2>3, LeaveScopesIs
  <2>5. QED
    BY <2>2, <2>4 DEF Kept, FetchKept, DataKept, FlowKept, WorkKept, StagesKept
<1> HIDE DEF r
<1>3. PICK stages, leaks :
          /\ stages = [left.inflight EXCEPT ![IF_ID] = None] /\ leaks = left.leaked \cup kept
          /\ r = [left EXCEPT !.flushed = TRUE, !.inflight = stages, !.leaked = leaks]
  BY <1>1
<1>4. stages \in [Stages -> Elements] /\ leaks \in SUBSET Loops
  BY <1>1, <1>2, <1>3, ExitIs DEF Core
<1>5. /\ r \in Core /\ r.flushed /\ r.inflight = stages /\ r.failed = left.failed
      /\ FetchKept(r, left) /\ FlowKept(r, left) /\ DataKept(r, left) /\ WorkKept(r, left)
  BY <1>2, <1>3, <1>4 DEF Core, FetchKept, FlowKept, DataKept, WorkKept
<1>6. /\ FetchKept(r, s) /\ FlowKept(r, s) /\ DataKept(r, s) /\ WorkKept(r, s)
  BY <1>2, <1>5 DEF Kept, FetchKept, FlowKept, DataKept, WorkKept
<1>7. Flushes(r, s)
  BY <1>2, <1>3, <1>5, <1>6 DEF Flushes, Kept, StagesKept
<1>8. QED
  BY <1>2, <1>5, <1>6, <1>7 DEF r

-----------------------------------------------------------------------------
(* A branch is handled.                                                    *)

(* It is taken to t, and what that assumes is noted.                       *)
Takes(r, s, e, t) ==
    /\ r.pc = t
    /\ r.branches = IF IsFlow(e, Guarded)
                    THEN Append(s.branches, [from |-> e, taken |-> TRUE,
                                             to |-> IF IsReturn(e) THEN None ELSE t])
                    ELSE s.branches
    /\ r.returns = IF IsReturn(e) THEN Append(s.returns, t) ELSE s.returns

Declines(r, s, e) ==
    /\ r.pc = s.pc /\ r.returns = s.returns
    /\ r.branches = Append(s.branches, [from |-> e, taken |-> FALSE, to |-> None])

LEMMA TakenIs ==
    ASSUME NEW s, Sound(s), NEW e \in Elements, NEW t \in Elements
    PROVE  LET r == Taken(s, e, t)
           IN  /\ Sound(r) /\ Takes(r, s, e, t)
               /\ FetchKept(r, s) /\ DataKept(r, s) /\ WorkKept(r, s) /\ StagesKept(r, s)
               /\ r.failed = s.failed
<1> DEFINE b == [from |-> e, taken |-> TRUE, to |-> IF IsReturn(e) THEN None ELSE t]
           bs == IF IsFlow(e, Guarded) THEN Append(s.branches, b) ELSE s.branches
           rs == IF IsReturn(e) THEN Append(s.returns, t) ELSE s.returns
           r == Taken(s, e, t)
<1>1. s \in Core /\ Distinct(s.instr) /\ Distinct(s.data)
  BY DEF Sound
<1>2. b \in Branch
  BY ExitIs DEF Branch
<1>3. bs \in Seq(Branch)
  BY <1>1, <1>2, AppendProperties DEF Core
<1>4. rs \in Seq(Elements)
  BY <1>1, AppendProperties DEF Core
<1>5. r = [s EXCEPT !.pc = t, !.branches = bs, !.returns = rs]
  BY DEF Taken
<1>6. bs = (IF IsFlow(e, Guarded) THEN Append(s.branches, b) ELSE s.branches)
  OBVIOUS
<1>7. rs = (IF IsReturn(e) THEN Append(s.returns, t) ELSE s.returns)
  OBVIOUS
<1> HIDE DEF bs, rs, r
<1>8. r \in Core /\ r.pc = t /\ r.branches = bs /\ r.returns = rs
  BY <1>1, <1>3, <1>4, <1>5 DEF Core
<1>9. /\ FetchKept(r, s) /\ DataKept(r, s) /\ WorkKept(r, s) /\ StagesKept(r, s)
      /\ r.failed = s.failed
  BY <1>1, <1>5 DEF Core, FetchKept, DataKept, WorkKept, StagesKept
<1>10. Sound(r)
  BY <1>1, <1>8, <1>9 DEF Sound, FetchKept, DataKept
<1>11. Takes(r, s, e, t)
  BY <1>6, <1>7, <1>8 DEF Takes
<1>12. QED
  BY <1>9, <1>10, <1>11 DEF r

LEMMA NotTakenIs ==
    ASSUME NEW s, Sound(s), NEW e \in Elements
    PROVE  LET r == NotTaken(s, e)
           IN  /\ Sound(r) /\ Declines(r, s, e)
               /\ FetchKept(r, s) /\ DataKept(r, s) /\ WorkKept(r, s) /\ StagesKept(r, s)
               /\ r.failed = s.failed
<1> DEFINE b == [from |-> e, taken |-> FALSE, to |-> None]
           bs == Append(s.branches, b)
           r == NotTaken(s, e)
<1>1. s \in Core /\ Distinct(s.instr) /\ Distinct(s.data)
  BY DEF Sound
<1>2. b \in Branch
  BY ExitIs DEF Branch
<1>3. bs \in Seq(Branch)
  BY <1>1, <1>2, AppendProperties DEF Core
<1>4. r = [s EXCEPT !.branches = bs]
  BY DEF NotTaken
<1>5. bs = Append(s.branches, b)
  OBVIOUS
<1> HIDE DEF bs, r
<1>6. r \in Core /\ r.branches = bs /\ r.pc = s.pc /\ r.returns = s.returns
  BY <1>1, <1>3, <1>4 DEF Core
<1>7. /\ FetchKept(r, s) /\ DataKept(r, s) /\ WorkKept(r, s) /\ StagesKept(r, s)
      /\ r.failed = s.failed
  BY <1>1, <1>4 DEF Core, FetchKept, DataKept, WorkKept, StagesKept
<1>8. Sound(r)
  BY <1>1, <1>6, <1>7 DEF Sound, FetchKept, DataKept
<1>9. Declines(r, s, e)
  BY <1>5, <1>6 DEF Declines
<1>10. QED
  BY <1>7, <1>8, <1>9 DEF r

(* What handling a branch does to the state.                               *)
Resolves(r, s, e) ==
    \/ \E t \in TargetsOf(e, entry) : Takes(r, s, e, t) /\ Flushes(r, s)
    \/ IsFlow(e, {"predreturn"}) /\ Declines(r, s, e) /\ Flushes(r, s)
    \/ /\ IsFlow(e, {"cond"}) /\ Declines(r, s, e) /\ StagesKept(r, s)
       /\ IF strict THEN Refetches(r, s) ELSE FetchKept(r, s)

LEMMA ResolveIs ==
    ASSUME NEW s, Sound(s), NEW e \in Elements, IsFlow(e, Flow \ {"next"}),
           NEW r \in Resolve(s, e)
    PROVE  /\ Sound(r) /\ Resolves(r, s, e) /\ DataKept(r, s) /\ WorkKept(r, s)
           /\ r.failed = s.failed
<1>1. \/ \E t \in TargetsOf(e, entry) : r = Flush(Taken(s, e, t), s.pc.addr)
      \/ IsFlow(e, {"predreturn"}) /\ r = Flush(NotTaken(s, e), s.pc.addr)
      \/ IsFlow(e, {"cond"}) /\ strict /\ r = AccessInstr(NotTaken(s, e))
      \/ IsFlow(e, {"cond"}) /\ ~strict /\ r = NotTaken(s, e)
  BY DEF Resolve, TargetsOf, Targets, IsFlow, IsReturn
<1>2. ASSUME NEW t \in TargetsOf(e, entry), r = Flush(Taken(s, e, t), s.pc.addr)
      PROVE  /\ Sound(r) /\ Resolves(r, s, e) /\ DataKept(r, s) /\ WorkKept(r, s)
             /\ r.failed = s.failed
  <2>1. PICK x : x = Taken(s, e, t)
    OBVIOUS
  <2>2. /\ Sound(x) /\ Takes(x, s, e, t) /\ x.failed = s.failed
        /\ FetchKept(x, s) /\ DataKept(x, s) /\ WorkKept(x, s) /\ StagesKept(x, s)
    BY <2>1, TargetsAre, TakenIs
  <2>3. r = Flush(x, s.pc.addr) /\ x \in Core
    BY <1>2, <2>1, <2>2 DEF Sound
  <2>4. /\ r \in Core /\ Flushes(r, x) /\ FlowKept(r, x) /\ DataKept(r, x) /\ WorkKept(r, x)
        /\ r.failed = x.failed
    BY <2>3, FlushIs
  <2>5. Takes(r, s, e, t)
    BY <2>2, <2>4 DEF Takes, FlowKept
  <2>6. Flushes(r, s) /\ DataKept(r, s) /\ WorkKept(r, s)
    BY <2>2, <2>4 DEF Flushes, FetchKept, DataKept, WorkKept, StagesKept
  <2>7. Sound(r)
    BY <2>2, <2>4 DEF Sound, Flushes, FetchKept, DataKept
  <2>8. QED
    BY <2>2, <2>4, <2>5, <2>6, <2>7 DEF Resolves
<1>3. PICK x : x = NotTaken(s, e)
  OBVIOUS
<1>4. /\ Sound(x) /\ Declines(x, s, e) /\ x.failed = s.failed
      /\ FetchKept(x, s) /\ DataKept(x, s) /\ WorkKept(x, s) /\ StagesKept(x, s)
  BY <1>3, NotTakenIs
<1>5. CASE IsFlow(e, {"predreturn"}) /\ r = Flush(NotTaken(s, e), s.pc.addr)
  <2>1. r = Flush(x, s.pc.addr) /\ x \in Core
    BY <1>3, <1>4, <1>5 DEF Sound
  <2>2. /\ r \in Core /\ Flushes(r, x) /\ FlowKept(r, x) /\ DataKept(r, x) /\ WorkKept(r, x)
        /\ r.failed = x.failed
    BY <2>1, FlushIs
  <2>3. Declines(r, s, e)
    BY <1>4, <2>2 DEF Declines, FlowKept
  <2>4. Flushes(r, s) /\ DataKept(r, s) /\ WorkKept(r, s)
    BY <1>4, <2>2 DEF Flushes, FetchKept, DataKept, WorkKept, StagesKept
  <2>5. Sound(r)
    BY <1>4, <2>2 DEF Sound, Flushes, FetchKept, DataKept
  <2>6. QED
    BY <1>4, <1>5, <2>2, <2>3, <2>4, <2>5 DEF Resolves
<1>6. CASE IsFlow(e, {"cond"}) /\ strict /\ r = AccessInstr(NotTaken(s, e))
  <2>1. r = AccessInstr(x)
    BY <1>3, <1>6
  <2>2. /\ Sound(r) /\ Refetches(r, x) /\ r.failed = x.failed
        /\ DataKept(r, x) /\ FlowKept(r, x) /\ WorkKept(r, x) /\ StagesKept(r, x)
    BY <1>4, <2>1, AccessInstrIs
  <2>3. Declines(r, s, e) /\ Refetches(r, s) /\ StagesKept(r, s)
    BY <1>4, <2>2 DEF Declines, FlowKept, Refetches, FetchKept, StagesKept
  <2>4. DataKept(r, s) /\ WorkKept(r, s)
    BY <1>4, <2>2 DEF DataKept, WorkKept
  <2>5. QED
    BY <1>4, <1>6, <2>2, <2>3, <2>4 DEF Resolves
<1>7. CASE IsFlow(e, {"cond"}) /\ ~strict /\ r = NotTaken(s, e)
  BY <1>3, <1>4, <1>7 DEF Resolves
<1>8. QED
  BY <1>1, <1>2, <1>5, <1>6, <1>7

(* The branch of the instruction in a stage is handled, or it has none     *)
(* that is handled there.                                                  *)
LEMMA CheckForBranchesIs ==
    ASSUME NEW s, Sound(s), NEW memory \in BOOLEAN, NEW r \in CheckForBranches(s, memory)
    PROVE  LET e == s.inflight[IF memory THEN EX_MEM ELSE ID_EX]
           IN  /\ Sound(r) /\ DataKept(r, s) /\ WorkKept(r, s)
               /\ IF IsFlow(e, Flow \ {"next"}) /\ (memory <=> IsLoad(e))
                  THEN Resolves(r, s, e) ELSE r = s
               /\ \/ r.failed = s.failed
                  \/ memory /\ IsFlow(e, Flow \ {"next"}) /\ IsLoad(e) /\ ~IsFree(s, ID_EX)
<1> DEFINE e == s.inflight[IF memory THEN EX_MEM ELSE ID_EX]
<1>1. s \in Core /\ Distinct(s.instr) /\ Distinct(s.data) /\ e \in Elements
  BY InStages DEF Sound, Core
<1> HIDE DEF e
<1>2. CASE IsFlow(e, Flow \ {"next"}) /\ (memory <=> IsLoad(e))
  <2>1. PICK x : x = Require(s, memory => IsFree(s, ID_EX))
    OBVIOUS
  <2>2. x \in Core /\ Kept(x, s) /\ (x = s \/ (memory /\ ~IsFree(s, ID_EX)))
    <3>1. (memory => IsFree(s, ID_EX)) \in BOOLEAN
      BY DEF IsFree
    <3>2. QED
      BY <1>1, <2>1, <3>1, RequireIs
  <2>3. r \in Resolve(x, e) /\ Sound(x)
    BY <1>1, <1>2, <2>1, <2>2 DEF CheckForBranches, Sound, Kept, FetchKept, DataKept, e
  <2>4. /\ Sound(r) /\ Resolves(r, x, e) /\ DataKept(r, x) /\ WorkKept(r, x)
        /\ r.failed = x.failed
    BY <1>1, <1>2, <2>3, ResolveIs
  <2>5. \A t : Takes(r, x, e, t) => Takes(r, s, e, t)
    BY <2>2 DEF Kept, FlowKept, Takes
  <2>6. /\ Declines(r, x, e) => Declines(r, s, e)
        /\ Flushes(r, x) => Flushes(r, s)
        /\ StagesKept(r, x) => StagesKept(r, s)
        /\ Refetches(r, x) => Refetches(r, s)
        /\ FetchKept(r, x) => FetchKept(r, s)
    BY <2>2 DEF Kept, FlowKept, FetchKept, StagesKept, Declines, Flushes, Refetches
  <2>7. Resolves(r, s, e)
    BY <2>4, <2>5, <2>6 DEF Resolves
  <2>8. DataKept(r, s) /\ WorkKept(r, s)
    BY <2>2, <2>4 DEF Kept, DataKept, WorkKept
  <2>9. QED
    BY <1>2, <2>2, <2>4, <2>7, <2>8 DEF e
<1>3. CASE ~(IsFlow(e, Flow \ {"next"}) /\ (memory <=> IsLoad(e)))
  <2>1. r = s
    BY <1>3 DEF CheckForBranches, e
  <2>2. QED
    BY <1>3, <2>1 DEF DataKept, WorkKept, e
<1>4. QED
  BY <1>2, <1>3

-----------------------------------------------------------------------------
(* The stages, oldest instruction first.                                   *)

LEMMA WriteBackIs ==
    ASSUME NEW s, Sound(s)
    PROVE  LET r == WriteBack(s)
           IN  /\ Sound(r) /\ FetchKept(r, s) /\ DataKept(r, s) /\ FlowKept(r, s) /\ WorkKept(r, s)
               /\ r.flushed = s.flushed /\ r.failed = s.failed
               /\ r.inflight = IF IsFree(s, MEM_WB) THEN s.inflight
                               ELSE [s.inflight EXCEPT ![WB_FIN] = s.inflight[MEM_WB],
                                                       ![MEM_WB] = None]
<1> DEFINE r == WriteBack(s)
           stages == [s.inflight EXCEPT ![WB_FIN] = s.inflight[MEM_WB], ![MEM_WB] = None]
           n == [s EXCEPT !.inflight = stages]
<1>1. s \in Core /\ Distinct(s.instr) /\ Distinct(s.data)
  BY DEF Sound
<1>2. CASE IsFree(s, MEM_WB)
  BY <1>2 DEF WriteBack, FetchKept, DataKept, FlowKept, WorkKept
<1>3. CASE ~IsFree(s, MEM_WB)
  <2>1. PICK scopes : r = LeaveScopes(n, scopes)
    BY <1>3, Zenon DEF WriteBack, IF_ID, ID_EX, EX_MEM, MEM_WB, WB_FIN
  <2>2. stages \in [Stages -> Elements]
    BY <1>1, InStages, ExitIs DEF Core
  <2> HIDE DEF stages, r
  <2>3. /\ n \in Core /\ n.inflight = stages /\ n.flushed = s.flushed /\ n.failed = s.failed
        /\ FetchKept(n, s) /\ DataKept(n, s) /\ FlowKept(n, s) /\ WorkKept(n, s)
    BY <1>1, <2>2 DEF Core, FetchKept, DataKept, FlowKept, WorkKept
  <2> HIDE DEF n
  <2>4. r \in Core /\ Kept(r, n) /\ r.failed = n.failed
    BY <2>1, <2>3, LeaveScopesIs
  <2>5. /\ FetchKept(r, s) /\ DataKept(r, s) /\ FlowKept(r, s) /\ WorkKept(r, s)
        /\ r.flushed = s.flushed /\ r.inflight = stages /\ r.failed = s.failed
    BY <2>3, <2>4 DEF Kept, FetchKept, DataKept, FlowKept, WorkKept, StagesKept
  <2>6. Sound(r)
    BY <1>1, <2>4, <2>5 DEF Sound, FetchKept, DataKept
  <2>7. QED
    BY <1>3, <2>5, <2>6 DEF r, stages
<1>4. QED
  BY <1>2, <1>3

(* The data access that is under way is the one that the instruction in    *)
(* the memory stage waits for.                                             *)
Waits(s) ==
    /\ s.dataIds = IF IsBusy(s.data) THEN {LastAccess(s.data).id} ELSE {}
    /\ IsBusy(s.data) => /\ LastAccess(s.data).addr = s.inflight[EX_MEM].addr
                         /\ IsMemory(s.inflight[EX_MEM])
    /\ s.data.waiting = NoAccess \/ s.data.ongoing = NoAccess

(* It has been answered in this cycle.                                     *)
HasAnswer(s) ==
    /\ ~IsBusy(s.data) /\ IsMemory(s.inflight[EX_MEM])
    /\ s.dataIds = {s.data.finished.id} /\ s.data.finished.id \in AccessIds

Pending(s) == Waits(s) \/ HasAnswer(s)

(* An instruction makes no more accesses than it has, and if none is under *)
(* way it has made them all.                                               *)
Limited(s) ==
    IsMemory(s.inflight[EX_MEM]) =>
        s.currAccess <= Code[s.inflight[EX_MEM].addr].accesses

Counted(s) ==
    /\ Limited(s)
    /\ IsMemory(s.inflight[EX_MEM]) /\ s.dataIds = {} =>
          s.currAccess = Code[s.inflight[EX_MEM].addr].accesses

(* Such an instruction stays in the memory stage.                          *)
AwaitsData(s) ==
    /\ IsMemory(s.inflight[EX_MEM])
    /\ s.currAccess < Code[s.inflight[EX_MEM].addr].accesses \/ s.dataIds # {}

LEMMA NothingFinished ==
    ASSUME NEW s, Sound(s), Waits(s)
    PROVE  \A id \in s.dataIds : ~IsFinished(s.data, id)
<1>1. s.data \in Ports /\ Distinct(s.data)
  BY DEF Sound, Core
<1>2. CASE IsBusy(s.data)
  BY <1>1, <1>2 DEF Waits, IsFinished, Distinct, LastAccess, IsBusy
<1>3. CASE ~IsBusy(s.data)
  BY <1>3 DEF Waits
<1>4. QED
  BY <1>2, <1>3

(* With no access under way the next one is made.                          *)
LEMMA NextAccessWaits ==
    ASSUME NEW s, Sound(s), NEW r, DataAccessed(r, s), r.inflight = s.inflight,
           s.currAccess \in Nat, s.dataIds = {}, ~IsBusy(s.data), Limited(s)
    PROVE  Waits(r) /\ Counted(r)
<1> DEFINE e == s.inflight[EX_MEM]
<1>1. s.data.waiting = NoAccess /\ s.data.ongoing = NoAccess
  BY DEF IsBusy
<1>2. CASE IsMemory(e) /\ s.currAccess < Code[e.addr].accesses
  <2>1. Code[e.addr].accesses \in Nat
    BY <1>2, CodeFacts DEF IsMemory, HasInstr
  <2>2. QED
    BY <1>1, <1>2, <2>1 DEF DataAccessed, Waits, Counted, Limited
<1>3. CASE ~(IsMemory(e) /\ s.currAccess < Code[e.addr].accesses)
  <2>1. IsMemory(e) => s.currAccess = Code[e.addr].accesses
    <3>1. IsMemory(e) => Code[e.addr].accesses \in Nat
      BY CodeFacts DEF IsMemory, HasInstr
    <3>2. QED
      BY <1>3, <3>1 DEF Limited
  <2>2. QED
    BY <1>1, <1>3, <2>1 DEF DataAccessed, Waits, Counted, Limited, DataKept, IsBusy
<1>4. QED
  BY <1>2, <1>3

LEMMA PollDataIs ==
    ASSUME NEW s, Sound(s), Pending(s), Counted(s)
    PROVE  LET r == PollData(s)
           IN  /\ Sound(r) /\ Waits(r) /\ Counted(r)
               /\ FetchKept(r, s) /\ FlowKept(r, s) /\ WorkKept(r, s) /\ StagesKept(r, s)
               /\ r.failed = s.failed
<1> DEFINE r == PollData(s)
           p == Polled(s.data)
           n == [s EXCEPT !.data = p, !.dataIds = {}]
<1>1. CASE Waits(s)
  <2>1. {id \in s.dataIds : IsFinished(s.data, id)} = {}
    BY <1>1, NothingFinished
  <2>2. r = s
    BY <2>1 DEF PollData
  <2>3. QED
    BY <1>1, <2>2 DEF FetchKept, FlowKept, WorkKept, StagesKept
<1>2. CASE HasAnswer(s)
  <2>1. {id \in s.dataIds : IsFinished(s.data, id)} = s.dataIds /\ s.dataIds # {}
    BY <1>2 DEF HasAnswer, IsFinished, AccessIds, NoId
  <2>2. s.dataIds \ s.dataIds = {}
    OBVIOUS
  <2>3. r = AccessData(n)
    BY <2>1, <2>2 DEF PollData
  <2>4. s \in Core /\ s.data \in Ports /\ Distinct(s.data) /\ Distinct(s.instr)
    BY DEF Sound, Core
  <2>5. /\ p \in Ports /\ Distinct(p)
        /\ p.waiting = s.data.waiting /\ p.ongoing = s.data.ongoing
    BY <2>4, PolledIs
  <2> HIDE DEF p, r
  <2>6. /\ n \in Core /\ n.data = p /\ n.dataIds = {} /\ n.currAccess = s.currAccess
        /\ FetchKept(n, s) /\ FlowKept(n, s) /\ WorkKept(n, s) /\ StagesKept(n, s)
        /\ n.failed = s.failed
    BY <2>4, <2>5 DEF Core, FetchKept, FlowKept, WorkKept, StagesKept
  <2> HIDE DEF n
  <2>7. Sound(n)
    BY <2>4, <2>5, <2>6 DEF Sound, FetchKept
  <2>8. /\ Sound(r) /\ DataAccessed(r, n)
        /\ FetchKept(r, n) /\ FlowKept(r, n) /\ WorkKept(r, n) /\ StagesKept(r, n)
        /\ n.data.waiting = NoAccess => r.failed = n.failed
    BY <2>3, <2>7, AccessDataIs
  <2>9. ~IsBusy(n.data) /\ Limited(n) /\ n.currAccess \in Nat /\ r.inflight = n.inflight
    BY <1>2, <2>4, <2>5, <2>6, <2>8 DEF HasAnswer, IsBusy, Counted, Limited, StagesKept, Core
  <2>10. Waits(r) /\ Counted(r)
    BY <2>6, <2>7, <2>8, <2>9, NextAccessWaits
  <2>11. FetchKept(r, s) /\ FlowKept(r, s) /\ WorkKept(r, s) /\ StagesKept(r, s)
    BY <2>6, <2>8 DEF FetchKept, FlowKept, WorkKept, StagesKept
  <2>12. r.failed = s.failed
    BY <2>6, <2>8, <2>9 DEF IsBusy
  <2>13. QED
    BY <2>8, <2>10, <2>11, <2>12 DEF r
<1>3. QED
  BY <1>1, <1>2 DEF Pending

(* The instruction in a stage goes on to the next one, where its branch is *)
(* handled if it has one that is handled there.                            *)
Moved(s, i) == [s.inflight EXCEPT ![i + 1] = s.inflight[i], ![i] = None]
Leaving(s, i) == [s EXCEPT !.inflight = Moved(s, i)]

Leaves(r, s, i) ==
    LET e == s.inflight[i]
        n == Leaving(s, i)
    IN  IF IsFlow(e, Flow \ {"next"}) /\ (i = EX_MEM <=> IsLoad(e))
        THEN Resolves(r, n, e)
        ELSE FetchKept(r, n) /\ FlowKept(r, n) /\ StagesKept(r, n)

LEMMA LeavingIs ==
    ASSUME NEW s \in Core, NEW i \in {ID_EX, EX_MEM}
    PROVE  /\ Leaving(s, i) \in Core /\ Leaving(s, i).inflight = Moved(s, i)
           /\ Moved(s, i) \in [Stages -> Elements]
           /\ FetchKept(Leaving(s, i), s) /\ DataKept(Leaving(s, i), s)
           /\ FlowKept(Leaving(s, i), s) /\ WorkKept(Leaving(s, i), s)
           /\ Leaving(s, i).flushed = s.flushed
<1>1. Moved(s, i) \in [Stages -> Elements]
  BY ExitIs, InStages DEF Core, Moved
<1>2. QED
  BY <1>1 DEF Leaving, Core, FetchKept, DataKept, FlowKept, WorkKept

(* Clearing the stage that the instruction left, after its branch.         *)
LEMMA ResolvesThenLeaves ==
    ASSUME NEW s \in Core, NEW i \in {ID_EX, EX_MEM}, NEW x \in Core, NEW y \in Core, NEW r,
           FetchKept(x, s), FlowKept(x, s), x.flushed = s.flushed,
           x.inflight = [s.inflight EXCEPT ![i + 1] = s.inflight[i]],
           LET e == s.inflight[i]
           IN  IF IsFlow(e, Flow \ {"next"}) /\ (i = EX_MEM <=> IsLoad(e))
               THEN Resolves(y, x, e) ELSE y = x,
           FetchKept(r, y), FlowKept(r, y), r.flushed = y.flushed,
           r.inflight = [y.inflight EXCEPT ![i] = None]
    PROVE  Leaves(r, s, i)
<1> DEFINE e == s.inflight[i]
           n == Leaving(s, i)
<1>1. /\ n \in Core /\ n.inflight = Moved(s, i) /\ n.flushed = s.flushed
      /\ FetchKept(n, s) /\ FlowKept(n, s)
  BY LeavingIs
<1>2. [x.inflight EXCEPT ![i] = None] = Moved(s, i)
  BY DEF Moved
<1>3. \A t : Takes(y, x, e, t) => Takes(r, n, e, t)
  BY <1>1 DEF Takes, FlowKept
<1>4. Declines(y, x, e) => Declines(r, n, e)
  BY <1>1 DEF Declines, FlowKept
<1>5. FetchKept(y, x) => FetchKept(r, n)
  BY <1>1 DEF FetchKept
<1>6. Flushes(y, x) => Flushes(r, n)
  <2>1. ASSUME y.inflight = [x.inflight EXCEPT ![IF_ID] = None]
        PROVE  r.inflight = [n.inflight EXCEPT ![IF_ID] = None]
    <3>1. r.inflight = [[x.inflight EXCEPT ![IF_ID] = None] EXCEPT ![i] = None]
      BY <2>1
    <3>2. @ = [[x.inflight EXCEPT ![i] = None] EXCEPT ![IF_ID] = None]
      BY DEF Core
    <3>3. QED
      BY <1>1, <1>2, <3>1, <3>2
  <2>2. QED
    BY <1>5, <2>1 DEF Flushes
<1>7. StagesKept(y, x) => StagesKept(r, n)
  BY <1>1, <1>2 DEF StagesKept
<1>8. Declines(y, x, e) /\ Refetches(y, x) => Refetches(r, n)
  BY <1>1 DEF Refetches, FetchKept, FlowKept, Declines
<1> HIDE DEF n
<1>9. CASE IsFlow(e, Flow \ {"next"}) /\ (i = EX_MEM <=> IsLoad(e))
  <2>1. Resolves(y, x, e)
    BY <1>9
  <2>2. Resolves(r, n, e)
    BY <2>1, <1>3, <1>4, <1>5, <1>6, <1>7, <1>8 DEF Resolves
  <2>3. QED
    BY <1>9, <2>2 DEF Leaves, n
<1>10. CASE ~(IsFlow(e, Flow \ {"next"}) /\ (i = EX_MEM <=> IsLoad(e)))
  <2>1. y = x
    BY <1>10
  <2>2. FetchKept(r, n) /\ FlowKept(r, n) /\ StagesKept(r, n)
    BY <1>1, <1>2, <2>1 DEF FetchKept, FlowKept, StagesKept
  <2>3. QED
    BY <1>10, <2>2 DEF Leaves, n
<1>11. QED
  BY <1>9, <1>10

StaysInMemory(r, s) ==
    /\ FetchKept(r, s) /\ FlowKept(r, s) /\ StagesKept(r, s)
    /\ IF IsFree(s, EX_MEM) THEN r = s
       ELSE /\ r.interlock = s.interlock
            /\ (r.stallMemory /\ AwaitsData(r)) \/ ~IsFree(s, MEM_WB)

LEMMA MemoryStageIs ==
    ASSUME NEW s, Sound(s), Pending(s), Counted(s), NEW r \in MemoryStage(s)
    PROVE  /\ Sound(r) /\ Waits(r) /\ Counted(r) /\ r.times = s.times
           /\ \/ StaysInMemory(r, s)
              \/ ~IsFree(s, EX_MEM) /\ IsFree(s, MEM_WB) /\ Leaves(r, s, EX_MEM)
           /\ \/ r.failed = s.failed
              \/ /\ IsFlow(s.inflight[EX_MEM], Flow \ {"next"}) /\ IsLoad(s.inflight[EX_MEM])
                 /\ ~IsFree(s, ID_EX)
<1> DEFINE e == s.inflight[EX_MEM]
           waits(m) == IsMemory(e) /\ (m.currAccess < Code[e.addr].accesses \/ m.dataIds # {})
<1>1. PICK m : m = IF IsMemory(e) THEN PollData(s) ELSE s
  OBVIOUS
<1>2. /\ Sound(m) /\ Waits(m) /\ Counted(m)
      /\ FetchKept(m, s) /\ FlowKept(m, s) /\ WorkKept(m, s) /\ StagesKept(m, s)
      /\ m.failed = s.failed
  <2>1. CASE IsMemory(e)
    BY <1>1, <2>1, PollDataIs
  <2>2. CASE ~IsMemory(e)
    BY <1>1, <2>2 DEF Pending, HasAnswer, FetchKept, FlowKept, WorkKept, StagesKept
  <2>3. QED
    BY <2>1, <2>2
<1>3. s \in Core /\ m \in Core /\ Distinct(m.instr) /\ Distinct(m.data) /\ e \in Elements
  BY <1>2, InStages DEF Sound, Core
<1>4. PICK loadUse \in BOOLEAN :
         \/ IsFree(s, EX_MEM) /\ r = s
         \/ /\ ~IsFree(s, EX_MEM) /\ (waits(m) \/ ~IsFree(s, MEM_WB))
            /\ r = [m EXCEPT !.stallMemory = waits(m)]
         \/ /\ ~IsFree(s, EX_MEM) /\ ~waits(m) /\ IsFree(s, MEM_WB)
            /\ \E y \in CheckForBranches([m EXCEPT !.stallMemory = FALSE,
                                            !.interlock = loadUse,
                                            !.inflight[MEM_WB] = e], TRUE) :
                  r = [y EXCEPT !.inflight[EX_MEM] = None]
  BY <1>1, Zenon DEF MemoryStage
<1>5. CASE IsFree(s, EX_MEM) /\ r = s
  <2>1. ~IsMemory(e)
    BY <1>5, ExitIs DEF IsFree, IsMemory
  <2>2. Waits(s)
    BY <2>1 DEF Pending, HasAnswer
  <2>3. QED
    BY <1>5, <2>2 DEF StaysInMemory, FetchKept, FlowKept, StagesKept
<1>6. CASE /\ ~IsFree(s, EX_MEM) /\ (waits(m) \/ ~IsFree(s, MEM_WB))
           /\ r = [m EXCEPT !.stallMemory = waits(m)]
  <2>1. /\ r \in Core /\ FetchKept(r, m) /\ DataKept(r, m) /\ FlowKept(r, m) /\ StagesKept(r, m)
        /\ r.times = m.times /\ r.failed = m.failed
        /\ r.interlock = m.interlock /\ r.stallMemory = waits(m)
    BY <1>3, <1>6 DEF Core, FetchKept, DataKept, FlowKept, StagesKept
  <2>2. Sound(r) /\ Waits(r) /\ Counted(r)
    <3>1. Sound(r)
      BY <1>3, <2>1 DEF Sound, FetchKept, DataKept
    <3>2. Waits(r)
      BY <1>2, <2>1 DEF Waits, DataKept, StagesKept
    <3>3. Counted(r)
      BY <1>2, <2>1 DEF Counted, Limited, DataKept, StagesKept
    <3>4. QED
      BY <3>1, <3>2, <3>3
  <2>3. StaysInMemory(r, s)
    <3>1. AwaitsData(r) <=> waits(m)
      BY <1>2, <2>1 DEF AwaitsData, DataKept, StagesKept
    <3>2. QED
      BY <1>2, <1>6, <2>1, <3>1 DEF StaysInMemory, FetchKept, FlowKept, StagesKept, WorkKept
  <2>4. QED
    BY <1>2, <2>1, <2>2, <2>3 DEF WorkKept
<1>7. ASSUME ~IsFree(s, EX_MEM), ~waits(m), IsFree(s, MEM_WB),
             NEW y \in CheckForBranches([m EXCEPT !.stallMemory = FALSE,
                                            !.interlock = loadUse,
                                            !.inflight[MEM_WB] = e], TRUE),
             r = [y EXCEPT !.inflight[EX_MEM] = None]
      PROVE  /\ Sound(r) /\ Waits(r) /\ Counted(r) /\ r.times = s.times
             /\ ~IsFree(s, EX_MEM) /\ IsFree(s, MEM_WB) /\ Leaves(r, s, EX_MEM)
             /\ \/ r.failed = s.failed
                \/ IsFlow(e, Flow \ {"next"}) /\ IsLoad(e) /\ ~IsFree(s, ID_EX)
  <2>1. PICK stages : stages = [s.inflight EXCEPT ![MEM_WB] = e]
    OBVIOUS
  <2>2. PICK x : x = [m EXCEPT !.stallMemory = FALSE, !.interlock = loadUse,
                               !.inflight = stages]
    OBVIOUS
  <2>3. stages \in [Stages -> Elements] /\ stages[EX_MEM] = e
    BY <1>3, <2>1, InStages DEF Core
  <2>4. /\ x \in Core /\ x.inflight = stages /\ x.flushed = m.flushed /\ x.times = m.times
        /\ x.failed = m.failed
        /\ FetchKept(x, m) /\ DataKept(x, m) /\ FlowKept(x, m)
    BY <1>3, <2>2, <2>3 DEF Core, FetchKept, DataKept, FlowKept
  <2>5. Sound(x)
    BY <1>3, <2>4 DEF Sound, FetchKept, DataKept
  <2>6. y \in CheckForBranches(x, TRUE)
    <3>1. m.inflight = s.inflight
      BY <1>2 DEF StagesKept
    <3>2. x = [m EXCEPT !.stallMemory = FALSE, !.interlock = loadUse, !.inflight[MEM_WB] = e]
      BY <2>1, <2>2, <3>1
    <3>3. QED
      BY <1>7, <3>2
  <2>7. /\ Sound(y) /\ DataKept(y, x) /\ WorkKept(y, x)
        /\ IF IsFlow(e, Flow \ {"next"}) /\ IsLoad(e) THEN Resolves(y, x, e) ELSE y = x
        /\ \/ y.failed = x.failed
           \/ IsFlow(e, Flow \ {"next"}) /\ IsLoad(e) /\ ~IsFree(x, ID_EX)
    BY <2>3, <2>4, <2>5, <2>6, CheckForBranchesIs
  <2>8. PICK left : left = [y.inflight EXCEPT ![EX_MEM] = None]
    OBVIOUS
  <2>9. r = [y EXCEPT !.inflight = left]
    BY <1>7, <2>8
  <2>10. y \in Core /\ Distinct(y.instr) /\ Distinct(y.data)
    BY <2>7 DEF Sound
  <2>11. left \in [Stages -> Elements] /\ left[EX_MEM] = None
    BY <2>8, <2>10, InStages, ExitIs DEF Core
  <2>12. /\ r \in Core /\ r.inflight = left /\ r.flushed = y.flushed /\ r.times = y.times
         /\ r.failed = y.failed
         /\ FetchKept(r, y) /\ DataKept(r, y) /\ FlowKept(r, y)
    BY <2>9, <2>10, <2>11 DEF Core, FetchKept, DataKept, FlowKept
  <2>13. Sound(r) /\ r.times = s.times
    BY <1>2, <2>4, <2>7, <2>10, <2>12 DEF Sound, FetchKept, DataKept, WorkKept
  <2>14. Waits(r) /\ Counted(r)
    <3>1. DataKept(r, m)
      BY <2>4, <2>7, <2>12 DEF DataKept
    <3>2. m.dataIds = {} /\ ~IsBusy(m.data)
      <4>1. CASE IsMemory(e)
        <5>1. m.dataIds = {}
          BY <1>7, <4>1
        <5>2. QED
          BY <1>2, <5>1 DEF Waits
      <4>2. CASE ~IsMemory(e)
        BY <1>2, <4>2 DEF Waits, StagesKept
      <4>3. QED
        BY <4>1, <4>2
    <3>3. ~IsMemory(r.inflight[EX_MEM])
      BY <2>11, <2>12, ExitIs DEF IsMemory
    <3>4. QED
      BY <3>1, <3>2, <3>3 DEF DataKept, Waits, Counted, Limited, IsBusy
  <2>15. Leaves(r, s, EX_MEM)
    <3>1. /\ FetchKept(x, s) /\ FlowKept(x, s) /\ x.flushed = s.flushed
          /\ x.inflight = [s.inflight EXCEPT ![EX_MEM + 1] = s.inflight[EX_MEM]]
      BY <1>2, <2>1, <2>4, InStages DEF FetchKept, FlowKept, StagesKept
    <3>2. /\ FetchKept(r, y) /\ FlowKept(r, y) /\ r.flushed = y.flushed
          /\ r.inflight = [y.inflight EXCEPT ![EX_MEM] = None]
      BY <2>8, <2>12
    <3>3. QED
      BY <1>3, <2>4, <2>7, <2>10, <3>1, <3>2, ResolvesThenLeaves
  <2>16. \/ r.failed = s.failed
         \/ IsFlow(e, Flow \ {"next"}) /\ IsLoad(e) /\ ~IsFree(s, ID_EX)
    <3>1. stages[ID_EX] = s.inflight[ID_EX]
      BY <1>3, <2>1, InStages DEF Core
    <3>2. QED
      BY <1>2, <2>4, <2>7, <2>12, <3>1 DEF IsFree
  <2>17. QED
    BY <1>7, <2>13, <2>14, <2>15, <2>16
<1>8. QED
  BY <1>4, <1>5, <1>6, <1>7

(* An instruction in execute has time left, or is waiting with none.       *)
Timed(s) == IsFiniteSet(s.times) /\ (s.times = {} <=> IsFree(s, ID_EX))

(* The times that are left after a cycle.                                  *)
Rest(times) == {t - 1 : t \in {u \in times : u > 1}}

(* Some time is over, or all get shorter.                                  *)
LEMMA TimeLeftIs ==
    ASSUME NEW times \in SUBSET Nat, IsFiniteSet(times)
    PROVE  IsFiniteSet(Rest(times)) /\ (times # {} => Rest(times) # times)
<1> DEFINE long == {u \in times : u > 1}
           f == [u \in long |-> u - 1]
<1>1. IsFiniteSet(long) /\ Cardinality(long) <= Cardinality(times)
      /\ (Cardinality(times) = Cardinality(long) => times = long)
  BY FS_Subset
<1>2. f \in Surjection(long, Rest(times))
  BY DEF Rest, Surjection
<1>3. /\ IsFiniteSet(Rest(times))
      /\ Cardinality(Rest(times)) <= Cardinality(long)
  BY <1>1, <1>2, FS_Surjection
<1>4. ASSUME times # {}, Rest(times) = times PROVE FALSE
  <2>1. times = long
    <3>1. Cardinality(times) \in Nat /\ Cardinality(long) \in Nat
      BY <1>1, FS_CardinalityType
    <3>2. QED
      BY <1>1, <1>3, <1>4, <3>1
  <2>2. PICK m \in times : \A k \in times : m <= k
    BY <1>4, LeastNumber
  <2>3. m > 1 /\ m \in Nat
    BY <2>1
  <2>4. m - 1 \in Rest(times)
    BY <2>3 DEF Rest
  <2>5. QED
    BY <1>4, <2>2, <2>3, <2>4
<1>5. QED
  BY <1>3, <1>4

(* Execution times are counted down, or the instruction goes on.           *)
StaysInExecute(r, s) ==
    /\ FetchKept(r, s) /\ DataKept(r, s) /\ FlowKept(r, s) /\ StagesKept(r, s)
    /\ r.stallMemory = s.stallMemory /\ r.interlock = s.interlock
    /\ \/ r.times = s.times /\ (IsFree(s, ID_EX) \/ s.interlock)
       \/ r.times = {0} /\ ~IsFree(s, EX_MEM)
       \/ r.times = Rest(s.times)

LEMMA ExecuteStageIs ==
    ASSUME NEW s, Sound(s), Waits(s), Counted(s), NEW r \in ExecuteStage(s)
    PROVE  /\ Sound(r) /\ Waits(r) /\ Counted(r)
           /\ \/ StaysInExecute(r, s)
              \/ ~IsFree(s, ID_EX) /\ IsFree(s, EX_MEM) /\ Leaves(r, s, ID_EX)
           /\ Timed(s) => Timed(r) /\ r.failed = s.failed
<1> DEFINE e == s.inflight[ID_EX]
           rest == {t - 1 : t \in {u \in s.times : u > 1}}
           empty == ~IsFree(s, ID_EX) \/ s.times = {}
           some == s.times # {}
<1>1. s \in Core /\ Distinct(s.instr) /\ Distinct(s.data) /\ e \in Elements /\ s.times \subseteq Nat
  BY InStages DEF Sound, Core
<1>2. \/ (IsFree(s, ID_EX) \/ s.interlock) /\ r = Require(s, empty)
      \/ ~IsFree(s, ID_EX) /\ ~IsFree(s, EX_MEM) /\ r = [s EXCEPT !.times = {0}]
      \/ /\ ~IsFree(s, ID_EX) /\ (rest # {} \/ s.times = {})
         /\ r = [Require(s, some) EXCEPT !.times = rest]
      \/ /\ ~IsFree(s, ID_EX) /\ IsFree(s, EX_MEM)
         /\ \E y \in CheckForBranches(AccessData([s EXCEPT !.inflight[EX_MEM] = e,
                                         !.dataIds = {}, !.currAccess = 0]), FALSE) :
               r = [y EXCEPT !.inflight[ID_EX] = None, !.times = {}]
  BY Zenon DEF ExecuteStage
<1>3. rest \in SUBSET Nat /\ {0} \in SUBSET Nat /\ {} \in SUBSET Nat
  BY <1>1
<1>4. ASSUME NEW x \in Core, Kept(x, s), NEW times \in SUBSET Nat, r = [x EXCEPT !.times = times]
      PROVE  /\ Sound(r) /\ Waits(r) /\ Counted(r)
             /\ FetchKept(r, s) /\ DataKept(r, s) /\ FlowKept(r, s) /\ StagesKept(r, s)
             /\ r.stallMemory = s.stallMemory /\ r.interlock = s.interlock
             /\ r.times = times /\ r.failed = x.failed
  <2>1. /\ r \in Core /\ FetchKept(r, x) /\ DataKept(r, x) /\ FlowKept(r, x) /\ StagesKept(r, x)
        /\ r.times = times /\ r.failed = x.failed
        /\ r.stallMemory = x.stallMemory /\ r.interlock = x.interlock
    BY <1>4 DEF Core, FetchKept, DataKept, FlowKept, StagesKept
  <2>2. /\ FetchKept(r, s) /\ DataKept(r, s) /\ FlowKept(r, s) /\ StagesKept(r, s)
        /\ r.stallMemory = s.stallMemory /\ r.interlock = s.interlock
    BY <1>4, <2>1 DEF Kept, FetchKept, DataKept, FlowKept, StagesKept, WorkKept
  <2>3. QED
    BY <1>1, <2>1, <2>2 DEF Sound, Waits, Counted, Limited, FetchKept, DataKept, StagesKept
<1>5. CASE (IsFree(s, ID_EX) \/ s.interlock) /\ r = Require(s, empty)
  <2>1. r \in Core /\ Kept(r, s) /\ (empty => r = s)
    BY <1>1, <1>5, RequireIs
  <2>2. Sound(r) /\ Waits(r) /\ Counted(r)
    BY <1>1, <2>1 DEF Sound, Waits, Counted, Limited, Kept, FetchKept, DataKept, StagesKept
  <2>3. QED
    BY <1>5, <2>1, <2>2 DEF Kept, WorkKept, StaysInExecute, Timed
<1>6. CASE ~IsFree(s, ID_EX) /\ ~IsFree(s, EX_MEM) /\ r = [s EXCEPT !.times = {0}]
  <2>1. Kept(s, s)
    BY DEF Kept, FetchKept, DataKept, FlowKept, WorkKept, StagesKept
  <2>2. /\ Sound(r) /\ Waits(r) /\ Counted(r)
        /\ FetchKept(r, s) /\ DataKept(r, s) /\ FlowKept(r, s) /\ StagesKept(r, s)
        /\ r.stallMemory = s.stallMemory /\ r.interlock = s.interlock
        /\ r.times = {0} /\ r.failed = s.failed
    BY <1>1, <1>3, <1>4, <1>6, <2>1
  <2>3. QED
    BY <1>6, <2>2, FS_Singleton DEF StaysInExecute, Timed, StagesKept, IsFree
<1>7. CASE /\ ~IsFree(s, ID_EX) /\ (rest # {} \/ s.times = {})
           /\ r = [Require(s, some) EXCEPT !.times = rest]
  <2>1. /\ Require(s, some) \in Core /\ Kept(Require(s, some), s)
        /\ some => Require(s, some) = s
    BY <1>1, RequireIs
  <2>2. Timed(s) => some /\ rest # {} /\ IsFiniteSet(rest)
    BY <1>1, <1>7, TimeLeftIs DEF Timed, Rest
  <2>6. rest = Rest(s.times)
    BY DEF Rest
  <2> HIDE DEF rest, some
  <2>3. /\ Sound(r) /\ Waits(r) /\ Counted(r)
        /\ FetchKept(r, s) /\ DataKept(r, s) /\ FlowKept(r, s) /\ StagesKept(r, s)
        /\ r.stallMemory = s.stallMemory /\ r.interlock = s.interlock
        /\ r.times = rest /\ r.failed = Require(s, some).failed
    BY <1>3, <1>4, <1>7, <2>1
  <2>4. ASSUME Timed(s) PROVE Timed(r) /\ r.failed = s.failed
    <3>1. Require(s, some) = s /\ rest # {} /\ IsFiniteSet(rest)
      BY <2>1, <2>2, <2>4
    <3>2. ~IsFree(r, ID_EX)
      BY <1>7, <2>3 DEF StagesKept, IsFree
    <3>3. QED
      BY <2>3, <3>1, <3>2 DEF Timed
  <2>5. QED
    BY <2>3, <2>4, <2>6 DEF StaysInExecute
<1>8. ASSUME ~IsFree(s, ID_EX), IsFree(s, EX_MEM),
             NEW y \in CheckForBranches(AccessData([s EXCEPT !.inflight[EX_MEM] = e,
                                         !.dataIds = {}, !.currAccess = 0]), FALSE),
             r = [y EXCEPT !.inflight[ID_EX] = None, !.times = {}]
      PROVE  /\ Sound(r) /\ Waits(r) /\ Counted(r) /\ Leaves(r, s, ID_EX)
             /\ Timed(r) /\ r.failed = s.failed
  <2>1. PICK stages : stages = [s.inflight EXCEPT ![EX_MEM] = e]
    OBVIOUS
  <2>2. PICK a : a = [s EXCEPT !.inflight = stages, !.dataIds = {}, !.currAccess = 0]
    OBVIOUS
  <2>3. stages \in [Stages -> Elements] /\ stages[EX_MEM] = e /\ stages[ID_EX] = e
    BY <1>1, <2>1, InStages DEF Core
  <2>4. /\ a \in Core /\ a.inflight = stages /\ a.flushed = s.flushed /\ a.data = s.data
        /\ a.dataIds = {} /\ a.currAccess = 0 /\ a.failed = s.failed
        /\ FetchKept(a, s) /\ FlowKept(a, s)
    BY <1>1, <2>2, <2>3 DEF Core, FetchKept, FlowKept
  <2>5. Sound(a)
    BY <1>1, <2>4 DEF Sound, FetchKept
  <2>6. PICK x : x = AccessData(a)
    OBVIOUS
  <2>7. /\ Sound(x) /\ DataAccessed(x, a)
        /\ FetchKept(x, a) /\ FlowKept(x, a) /\ StagesKept(x, a)
        /\ a.data.waiting = NoAccess => x.failed = a.failed
    BY <2>5, <2>6, AccessDataIs
  <2>8. Waits(x) /\ Counted(x) /\ x.failed = s.failed
    <3>1. ~IsBusy(a.data)
      <4>1. ~IsMemory(s.inflight[EX_MEM])
        BY <1>8, ExitIs DEF IsFree, IsMemory
      <4>2. QED
        BY <2>4, <4>1 DEF Waits
    <3>2. Limited(a)
      <4>1. IsMemory(e) => Code[e.addr].accesses \in Nat
        BY CodeFacts DEF IsMemory, HasInstr
      <4>2. QED
        BY <2>3, <2>4, <4>1 DEF Limited
    <3>3. x.inflight = a.inflight
      BY <2>7 DEF StagesKept
    <3>4. a.currAccess \in Nat
      BY <2>4
    <3>5. QED
      BY <2>4, <2>5, <2>7, <3>1, <3>2, <3>3, <3>4, NextAccessWaits DEF IsBusy
  <2>9. y \in CheckForBranches(x, FALSE)
    BY <1>8, <2>1, <2>2, <2>6
  <2>10. x.inflight[ID_EX] = e
    BY <2>3, <2>4, <2>7 DEF StagesKept
  <2>11. /\ Sound(y) /\ DataKept(y, x) /\ y.failed = x.failed
         /\ IF IsFlow(e, Flow \ {"next"}) /\ ~IsLoad(e) THEN Resolves(y, x, e) ELSE y = x
    <3>1. PICK f \in BOOLEAN : f = FALSE
      OBVIOUS
    <3>2. y \in CheckForBranches(x, f) /\ x.inflight[IF f THEN EX_MEM ELSE ID_EX] = e
      BY <2>9, <2>10, <3>1
    <3>3. /\ Sound(y) /\ DataKept(y, x)
          /\ IF IsFlow(e, Flow \ {"next"}) /\ (f <=> IsLoad(e))
             THEN Resolves(y, x, e) ELSE y = x
          /\ y.failed = x.failed \/ f
      BY <2>7, <3>2, CheckForBranchesIs
    <3>4. QED
      BY <3>1, <3>3
  <2>12. PICK left : left = [y.inflight EXCEPT ![ID_EX] = None]
    OBVIOUS
  <2>13. r = [y EXCEPT !.inflight = left, !.times = {}]
    BY <1>8, <2>12
  <2>14. y \in Core /\ Distinct(y.instr) /\ Distinct(y.data)
    BY <2>11 DEF Sound
  <2>15. left \in [Stages -> Elements] /\ left[EX_MEM] = y.inflight[EX_MEM] /\ left[ID_EX] = None
    BY <2>12, <2>14, InStages, ExitIs DEF Core
  <2>16. /\ r \in Core /\ r.inflight = left /\ r.flushed = y.flushed /\ r.failed = y.failed
         /\ r.times = {}
         /\ FetchKept(r, y) /\ DataKept(r, y) /\ FlowKept(r, y)
    BY <1>3, <2>13, <2>14, <2>15 DEF Core, FetchKept, DataKept, FlowKept
  <2>17. Sound(r)
    BY <2>14, <2>16 DEF Sound, FetchKept, DataKept
  <2>18. y.inflight[EX_MEM] = x.inflight[EX_MEM]
    <3>1. x.inflight \in [Stages -> Elements]
      BY <2>7 DEF Sound, Core
    <3>2. y.inflight \in {x.inflight, [x.inflight EXCEPT ![IF_ID] = None]}
      BY <2>11 DEF Resolves, Flushes, StagesKept
    <3>3. QED
      BY <3>1, <3>2, InStages
  <2>19. Waits(r) /\ Counted(r)
    BY <2>8, <2>11, <2>15, <2>16, <2>18 DEF DataKept, Waits, Counted, Limited, IsBusy
  <2>20. Leaves(r, s, ID_EX)
    <3>1. /\ FetchKept(x, s) /\ FlowKept(x, s) /\ x.flushed = s.flushed
          /\ x.inflight = [s.inflight EXCEPT ![ID_EX + 1] = s.inflight[ID_EX]]
      BY <2>1, <2>4, <2>7, InStages DEF FetchKept, FlowKept, StagesKept
    <3>2. /\ FetchKept(r, y) /\ FlowKept(r, y) /\ r.flushed = y.flushed
          /\ r.inflight = [y.inflight EXCEPT ![ID_EX] = None]
      BY <2>12, <2>16
    <3>3. x \in Core /\ ID_EX # EX_MEM
      BY <2>7, InStages DEF Sound
    <3>4. QED
      BY <1>1, <2>11, <2>14, <3>1, <3>2, <3>3, ResolvesThenLeaves
  <2>21. Timed(r) /\ r.failed = s.failed
    BY <2>8, <2>11, <2>15, <2>16, FS_EmptySet DEF Timed, IsFree
  <2>22. QED
    BY <2>17, <2>19, <2>20, <2>21
<1>9. QED
  BY <1>2, <1>5, <1>6, <1>7, <1>8

LEMMA DecodeIs ==
    ASSUME NEW s, Sound(s)
    PROVE  LET r == Decode(s)
           IN  /\ Sound(r) /\ FetchKept(r, s) /\ DataKept(r, s) /\ FlowKept(r, s)
               /\ r.flushed = s.flushed /\ r.failed = s.failed /\ (Timed(s) => Timed(r))
               /\ r.inflight = IF IsFree(s, IF_ID) \/ ~IsFree(s, ID_EX) THEN s.inflight
                               ELSE IF HasInstr(s.inflight[IF_ID].addr) THEN Moved(s, IF_ID)
                               ELSE [s.inflight EXCEPT ![IF_ID] = None]
<1> DEFINE r == Decode(s)
           e == s.inflight[IF_ID]
<1>1. s \in Core /\ Distinct(s.instr) /\ Distinct(s.data) /\ e \in Elements
  BY InStages DEF Sound, Core
<1>2. ASSUME NEW stages \in [Stages -> Elements], NEW times \in SUBSET Nat,
             r = [s EXCEPT !.inflight = stages, !.times = times]
      PROVE  /\ Sound(r) /\ FetchKept(r, s) /\ DataKept(r, s) /\ FlowKept(r, s)
             /\ r.flushed = s.flushed /\ r.inflight = stages
             /\ r.failed = s.failed /\ r.times = times
  <2>1. /\ r \in Core /\ FetchKept(r, s) /\ DataKept(r, s) /\ FlowKept(r, s)
        /\ r.flushed = s.flushed /\ r.inflight = stages
        /\ r.failed = s.failed /\ r.times = times
    BY <1>1, <1>2 DEF Core, FetchKept, DataKept, FlowKept
  <2>2. QED
    BY <1>1, <2>1 DEF Sound, FetchKept, DataKept
<1>3. CASE IsFree(s, IF_ID) \/ ~IsFree(s, ID_EX)
  <2>1. r = s
    BY <1>3 DEF Decode
  <2>2. QED
    BY <1>3, <2>1 DEF FetchKept, DataKept, FlowKept
<1>4. CASE ~IsFree(s, IF_ID) /\ IsFree(s, ID_EX) /\ HasInstr(e.addr)
  <2>1. PICK stages : stages = Moved(s, IF_ID)
    OBVIOUS
  <2>2. stages \in [Stages -> Elements]
    BY <1>1, <2>1, InStages, ExitIs DEF Moved, Core
  <2>3. PICK times \in SUBSET Nat :
            times = Code[e.addr].times /\ times # {} /\ IsFiniteSet(times)
    BY <1>4, CodeFacts, CodeAssumption DEF HasInstr, Addresses
  <2>4. r = [s EXCEPT !.inflight = stages, !.times = times]
    <3>1. r = [s EXCEPT !.inflight[ID_EX] = e, !.times = times, !.inflight[IF_ID] = None]
      BY <1>4, <2>3 DEF Decode
    <3>2. stages = [[s.inflight EXCEPT ![ID_EX] = e] EXCEPT ![IF_ID] = None]
      BY <2>1, InStages DEF Moved
    <3>3. QED
      BY <1>1, <3>1, <3>2 DEF Core
  <2>5. /\ Sound(r) /\ FetchKept(r, s) /\ DataKept(r, s) /\ FlowKept(r, s)
        /\ r.flushed = s.flushed /\ r.inflight = stages
        /\ r.failed = s.failed /\ r.times = times
    BY <1>2, <2>2, <2>4
  <2>6. Timed(r)
    <3>1. stages[ID_EX] = e
      BY <1>1, <2>1, InStages DEF Moved, Core
    <3>2. QED
      BY <1>4, <2>3, <2>5, <3>1 DEF Timed, IsFree
  <2>7. QED
    BY <1>4, <2>1, <2>5, <2>6
<1>5. CASE ~IsFree(s, IF_ID) /\ IsFree(s, ID_EX) /\ ~HasInstr(e.addr)
  <2>1. PICK stages : stages = [s.inflight EXCEPT ![IF_ID] = None]
    OBVIOUS
  <2>2. stages \in [Stages -> Elements] /\ s.times \in SUBSET Nat
    BY <1>1, <2>1, InStages, ExitIs DEF Core
  <2>3. r = [s EXCEPT !.inflight = stages, !.times = s.times]
    <3>1. r = [s EXCEPT !.inflight[IF_ID] = None]
      BY <1>5 DEF Decode
    <3>2. QED
      BY <1>1, <2>1, <3>1 DEF Core
  <2>4. /\ Sound(r) /\ FetchKept(r, s) /\ DataKept(r, s) /\ FlowKept(r, s)
        /\ r.flushed = s.flushed /\ r.inflight = stages
        /\ r.failed = s.failed /\ r.times = s.times
    BY <1>2, <2>2, <2>3
  <2>5. Timed(s) => Timed(r)
    <3>1. stages[ID_EX] = s.inflight[ID_EX]
      BY <1>1, <2>1, InStages DEF Core
    <3>2. QED
      BY <2>4, <3>1 DEF Timed, IsFree
  <2>6. QED
    BY <1>5, <2>1, <2>4, <2>5
<1>6. QED
  BY <1>3, <1>4, <1>5

InFetch(s) == s.accessId # NoId \/ s.accessFinished

(* What is being fetched is at pc, and in front of the end.                *)
Fetched(s) ==
    /\ s.accessId # NoId =>
          LastAccess(s.instr) = [id |-> s.accessId, addr |-> s.pc.addr]
    /\ s.accessFinished => s.accessId = NoId /\ s.arrived = s.pc.addr
    /\ InFetch(s) => s.pc.addr <= LinkRegister

(* The word that has arrived goes to decode and the next one is fetched.   *)
Fetches(r, s) ==
    /\ IsFree(s, IF_ID) /\ s.pc.addr <= LinkRegister
    /\ r.inflight = [s.inflight EXCEPT ![IF_ID] = s.pc]
    /\ r.pc = Following(s.pc) /\ r.branches = s.branches /\ r.returns = s.returns
    /\ ~r.accessFinished
    /\ IF StopsFetch(s.pc) THEN r.accessId = NoId
       ELSE r.accessId # NoId /\ LastAccess(r.instr) = [id |-> r.accessId, addr |-> r.pc.addr]

LEMMA FetchNextIs ==
    ASSUME NEW s, Sound(s), s.accessFinished => s.accessId = NoId /\ s.pc.addr <= LinkRegister
    PROVE  LET r == FetchNext(s)
           IN  /\ Sound(r) /\ DataKept(r, s) /\ r.flushed = s.flushed
               /\ r.failed = s.failed /\ WorkKept(r, s)
               /\ IF IsFree(s, IF_ID) /\ s.accessFinished THEN Fetches(r, s) ELSE r = s
<1> DEFINE r == FetchNext(s)
           e == s.pc
           n == [s EXCEPT !.inflight[IF_ID] = e, !.pc = Following(e), !.accessFinished = FALSE]
<1>1. s \in Core /\ Distinct(s.instr) /\ Distinct(s.data) /\ e \in Elements
  BY DEF Sound, Core
<1>2. CASE ~IsFree(s, IF_ID) \/ ~s.accessFinished
  BY <1>2, Zenon DEF FetchNext, DataKept, WorkKept
<1>3. CASE IsFree(s, IF_ID) /\ s.accessFinished
  <2>1. PICK f : f = EnterScopes(n, e.addr, Following(e).addr)
    OBVIOUS
  <2>2. r = IF StopsFetch(e) THEN f ELSE AccessInstr(f)
    BY <1>3, <2>1 DEF FetchNext
  <2>3. PICK stages : stages = [s.inflight EXCEPT ![IF_ID] = e]
    OBVIOUS
  <2>4. stages \in [Stages -> Elements] /\ Following(e) \in Elements
    BY <1>1, <1>3, <2>3, FollowingIs DEF Core
  <2>5. n = [s EXCEPT !.inflight = stages, !.pc = Following(e), !.accessFinished = FALSE]
    BY <1>1, <2>3 DEF Core
  <2> HIDE DEF n, r
  <2>6. /\ n \in Core /\ n.inflight = stages /\ n.pc = Following(e) /\ n.accessFinished = FALSE
        /\ n.branches = s.branches /\ n.returns = s.returns /\ n.flushed = s.flushed
        /\ n.instr = s.instr /\ n.accessId = s.accessId /\ DataKept(n, s)
        /\ n.failed = s.failed /\ WorkKept(n, s)
    BY <1>1, <2>4, <2>5 DEF Core, DataKept, WorkKept
  <2>7. f \in Core /\ Kept(f, n) /\ f.failed = n.failed
    BY <2>1, <2>6, EnterScopesIs
  <2>8. Sound(f) /\ DataKept(f, s) /\ WorkKept(f, s) /\ f.failed = s.failed
    BY <1>1, <2>6, <2>7 DEF Sound, Kept, FetchKept, DataKept, WorkKept
  <2>9. /\ f.inflight = stages /\ f.pc = Following(e) /\ f.accessFinished = FALSE
        /\ f.branches = s.branches /\ f.returns = s.returns /\ f.flushed = s.flushed
        /\ f.accessId = NoId
    BY <1>3, <2>6, <2>7 DEF Kept, FetchKept, FlowKept, StagesKept
  <2>10. CASE StopsFetch(e)
    <3>1. r = f
      BY <2>2, <2>10
    <3>2. Fetches(r, s)
      BY <1>3, <2>3, <2>9, <2>10, <3>1 DEF Fetches
    <3>3. QED
      BY <1>3, <2>8, <2>9, <3>1, <3>2 DEF r
  <2>11. CASE ~StopsFetch(e)
    <3>1. r = AccessInstr(f)
      BY <2>2, <2>11
    <3>2. /\ Sound(r) /\ Refetches(r, f) /\ DataKept(r, f) /\ FlowKept(r, f) /\ StagesKept(r, f)
          /\ WorkKept(r, f) /\ r.failed = f.failed
      BY <2>8, <3>1, AccessInstrIs
    <3>3. Fetches(r, s)
      BY <1>3, <2>3, <2>9, <2>11, <3>2 DEF Fetches, Refetches, FlowKept, StagesKept
    <3>4. DataKept(r, s) /\ r.flushed = s.flushed /\ WorkKept(r, s) /\ r.failed = s.failed
      BY <2>8, <2>9, <3>2 DEF DataKept, WorkKept, StagesKept
    <3>5. QED
      BY <1>3, <3>2, <3>3, <3>4 DEF r
  <2>12. QED
    BY <2>10, <2>11
<1>4. QED
  BY <1>2, <1>3

(* Behind a flush the fetch starts again; else a word may have arrived.    *)
Restarts(r, s) ==
    /\ FlowKept(r, s) /\ r.inflight = s.inflight /\ ~r.accessFinished
    /\ r.accessId # NoId /\ LastAccess(r.instr) = [id |-> r.accessId, addr |-> r.pc.addr]

(* Nothing has arrived, and nothing that has can go to decode.             *)
StaysInFetch(r, s) ==
    /\ r = s /\ ~IsFinished(s.instr, s.accessId)
    /\ s.accessFinished => ~IsFree(s, IF_ID)

LEMMA FetchIs ==
    ASSUME NEW s, Sound(s), ~s.flushed => Fetched(s)
    PROVE  LET r == Fetch(s)
           IN  /\ Sound(r) /\ DataKept(r, s) /\ ~r.flushed
               /\ r.failed = s.failed /\ WorkKept(r, s)
               /\ IF s.flushed THEN Restarts(r, s)
                  ELSE \/ /\ FlowKept(r, s) /\ r.inflight = s.inflight /\ Fetched(r)
                          /\ InFetch(r) <=> InFetch(s)
                          /\ StaysInFetch(r, s) \/ (r.accessFinished /\ s.accessId # NoId)
                       \/ InFetch(s) /\ Fetches(r, s)
<1> DEFINE r == Fetch(s)
<1>1. s \in Core /\ Distinct(s.instr) /\ Distinct(s.data) /\ s.instr \in Ports
  BY DEF Sound, Core
<1>2. CASE s.flushed
  <2>1. PICK n : n = [s EXCEPT !.accessFinished = FALSE, !.flushed = FALSE]
    OBVIOUS
  <2>2. PICK a : a = Nearest(s, IF_ID).addr
    OBVIOUS
  <2>3. PICK f : f = EnterScopes(n, a, s.pc.addr)
    OBVIOUS
  <2>4. r = AccessInstr(f)
    BY <1>2, <2>1, <2>2, <2>3 DEF Fetch
  <2>5. /\ n \in Core /\ n.instr = s.instr /\ n.accessFinished = FALSE /\ n.flushed = FALSE
        /\ n.inflight = s.inflight /\ FlowKept(n, s) /\ DataKept(n, s)
        /\ n.failed = s.failed /\ WorkKept(n, s)
    BY <1>1, <2>1 DEF Core, FlowKept, DataKept, WorkKept
  <2>6. f \in Core /\ Kept(f, n) /\ f.failed = n.failed
    BY <2>3, <2>5, EnterScopesIs
  <2>7. Sound(f)
    BY <1>1, <2>5, <2>6 DEF Sound, Kept, FetchKept, DataKept
  <2> HIDE DEF r
  <2>8. /\ Sound(r) /\ Refetches(r, f) /\ DataKept(r, f) /\ FlowKept(r, f) /\ StagesKept(r, f)
        /\ WorkKept(r, f) /\ r.failed = f.failed
    BY <2>4, <2>7, AccessInstrIs
  <2>9. Restarts(r, s)
    BY <2>5, <2>6, <2>8
       DEF Restarts, Refetches, Kept, FetchKept, FlowKept, StagesKept
  <2>10. DataKept(r, s) /\ ~r.flushed /\ WorkKept(r, s) /\ r.failed = s.failed
    BY <2>5, <2>6, <2>8 DEF Kept, DataKept, WorkKept, StagesKept
  <2>11. QED
    BY <1>2, <2>8, <2>9, <2>10 DEF r
<1>3. CASE ~s.flushed /\ ~IsFinished(s.instr, s.accessId)
  <2>1. r = FetchNext(s)
    BY <1>3, Zenon DEF Fetch
  <2>2. Fetched(s)
    BY <1>3
  <2>3. s.accessFinished => s.accessId = NoId /\ s.pc.addr <= LinkRegister
    BY <2>2 DEF Fetched, InFetch
  <2> HIDE DEF r
  <2>4. Sound(r) /\ DataKept(r, s) /\ r.flushed = s.flushed
        /\ r.failed = s.failed /\ WorkKept(r, s)
        /\ IF IsFree(s, IF_ID) /\ s.accessFinished THEN Fetches(r, s) ELSE r = s
    BY <2>1, <2>3, FetchNextIs
  <2>5. FlowKept(s, s)
    BY DEF FlowKept
  <2>6. QED
    BY <1>3, <2>2, <2>4, <2>5 DEF InFetch, StaysInFetch, r
<1>4. CASE ~s.flushed /\ IsFinished(s.instr, s.accessId)
  <2>1. PICK p : p = Polled(s.instr)
    OBVIOUS
  <2>2. PICK n : n = [s EXCEPT !.accessFinished = TRUE, !.accessId = NoId,
                               !.arrived = s.instr.finished.addr, !.instr = p]
    OBVIOUS
  <2>3. r = FetchNext(n)
    BY <1>4, <2>1, <2>2, Zenon DEF Fetch
  <2>4. Fetched(s)
    BY <1>4
  <2>5. /\ s.accessId # NoId
        /\ s.instr.finished.addr = s.pc.addr
        /\ s.instr.finished.addr \in Nat
    <3>1. s.accessId # NoId /\ s.instr.finished.id = s.accessId
      BY <1>4 DEF IsFinished
    <3>2. LastAccess(s.instr) = [id |-> s.accessId, addr |-> s.pc.addr]
      BY <2>4, <3>1 DEF Fetched
    <3>3. LastAccess(s.instr).id = s.instr.finished.id /\ LastAccess(s.instr).addr = s.pc.addr
      BY <3>1, <3>2
    <3>4. LastAccess(s.instr) = s.instr.finished
      BY <1>1, <3>3 DEF LastAccess, Distinct
    <3>5. s.instr.finished \in PortAccesses
      BY <1>1 DEF Ports
    <3>6. QED
      BY <3>1, <3>3, <3>4, <3>5, AccessHasId
  <2>6. p \in Ports /\ Distinct(p)
    BY <1>1, <2>1, PolledIs
  <2>7. /\ n \in Core /\ n.accessFinished = TRUE /\ n.accessId = NoId /\ n.instr = p
        /\ n.arrived = s.pc.addr /\ n.inflight = s.inflight /\ n.flushed = s.flushed
        /\ FlowKept(n, s) /\ DataKept(n, s) /\ WorkKept(n, s) /\ n.failed = s.failed
    BY <1>1, <2>2, <2>5, <2>6 DEF Core, FlowKept, DataKept, WorkKept
  <2>8. Sound(n)
    BY <1>1, <2>6, <2>7 DEF Sound, DataKept
  <2>9. InFetch(s) /\ s.pc.addr <= LinkRegister
    BY <2>4, <2>5 DEF Fetched, InFetch
  <2>10. n.accessFinished => n.accessId = NoId /\ n.pc.addr <= LinkRegister
    BY <2>7, <2>9 DEF FlowKept
  <2> HIDE DEF r
  <2>11. Sound(r) /\ DataKept(r, n) /\ r.flushed = n.flushed
         /\ r.failed = n.failed /\ WorkKept(r, n)
         /\ IF IsFree(n, IF_ID) /\ n.accessFinished THEN Fetches(r, n) ELSE r = n
    BY <2>3, <2>8, <2>10, FetchNextIs
  <2>12. Fetched(n) /\ InFetch(n)
    BY <2>7, <2>9 DEF Fetched, InFetch, FlowKept
  <2>13. Fetches(r, n) => Fetches(r, s)
    BY <2>7 DEF Fetches, FlowKept, IsFree
  <2>14. DataKept(r, s) /\ ~r.flushed /\ WorkKept(r, s) /\ r.failed = s.failed
    BY <1>4, <2>7, <2>11 DEF DataKept, WorkKept
  <2>15. QED
    BY <1>4, <2>5, <2>7, <2>9, <2>11, <2>12, <2>13, <2>14 DEF r
<1>5. QED
  BY <1>2, <1>3, <1>4

LEMMA CycleMemoryIs ==
    ASSUME NEW s, Sound(s), Waits(s), Counted(s), NEW answer \in SUBSET CouldAnswer(s)
    PROVE  LET r == CycleMemory(s, answer)
           IN  /\ Sound(r) /\ Pending(r) /\ Counted(r) /\ FlowKept(r, s) /\ StagesKept(r, s)
               /\ r.accessId = s.accessId /\ r.accessFinished = s.accessFinished
               /\ Fetched(s) => Fetched(r)
               /\ answer = {} => /\ Waits(r) /\ r.dataIds = s.dataIds
                                 /\ r.currAccess = s.currAccess
                                 /\ r.instr.finished = s.instr.finished
                                 /\ IsBusy(r.instr) <=> IsBusy(s.instr)
                                 /\ IsBusy(r.data) <=> IsBusy(s.data)
               /\ r.failed = s.failed /\ r.times = s.times /\ ~r.stallMemory /\ ~r.interlock
<1> DEFINE r == CycleMemory(s, answer)
           i == "instr" \in answer
           d == "data" \in answer
<1>1. s \in Core /\ s.instr \in Ports /\ s.data \in Ports /\ Distinct(s.instr) /\ Distinct(s.data)
  BY DEF Sound, Core
<1>2. AskForData(s) = s.data
  BY NothingFinished DEF AskForData
<1>3. i \in BOOLEAN /\ d \in BOOLEAN /\ (i \/ d => answer # {})
  OBVIOUS
<1>4. (i => IsBusy(s.instr)) /\ (d => IsBusy(s.data))
  BY DEF CouldAnswer, CanAnswer, Started, IsBusy
<1>5. PICK p, q : p = CyclePort(s.instr, i) /\ q = CyclePort(s.data, d)
  OBVIOUS
<1>6. /\ p \in Ports /\ Distinct(p) /\ LastAccess(p) = LastAccess(s.instr)
      /\ ~i => p.finished = s.instr.finished /\ (IsBusy(p) <=> IsBusy(s.instr))
  <2> HIDE DEF i, d
  <2>1. QED
    BY <1>1, <1>3, <1>4, <1>5, CyclePortIs
<1>7. /\ q \in Ports /\ Distinct(q)
      /\ IsBusy(s.data) => LastAccess(q) = LastAccess(s.data)
      /\ ~d => (IsBusy(q) <=> IsBusy(s.data))
      /\ q.waiting = NoAccess
      /\ d => ~IsBusy(q) /\ q.finished = LastAccess(s.data)
  <2> HIDE DEF i, d
  <2>1. QED
    BY <1>1, <1>3, <1>4, <1>5, CyclePortIs DEF Waits
<1>8. r = [s EXCEPT !.stallMemory = FALSE, !.interlock = FALSE, !.instr = p, !.data = q]
  BY <1>2, <1>5, Zenon DEF CycleMemory
<1> HIDE DEF r, i, d
<1>9. /\ r \in Core /\ FlowKept(r, s) /\ StagesKept(r, s) /\ r.instr = p /\ r.data = q
      /\ r.dataIds = s.dataIds /\ r.currAccess = s.currAccess /\ r.times = s.times
      /\ r.failed = s.failed /\ ~r.stallMemory /\ ~r.interlock
      /\ r.accessId = s.accessId /\ r.accessFinished = s.accessFinished /\ r.arrived = s.arrived
  BY <1>1, <1>6, <1>7, <1>8 DEF Core, FlowKept, StagesKept
<1>10. Sound(r) /\ Counted(r)
  BY <1>6, <1>7, <1>9 DEF Sound, Counted, Limited, StagesKept
<1>11. Fetched(s) => Fetched(r)
  BY <1>6, <1>9 DEF Fetched, InFetch, FlowKept
<1>12. CASE ~d
  <2>1. Waits(r)
    BY <1>7, <1>9, <1>12 DEF Waits, StagesKept
  <2>2. Pending(r)
    BY <2>1 DEF Pending
  <2>3. /\ r.instr.finished = s.instr.finished \/ i
        /\ (IsBusy(r.instr) <=> IsBusy(s.instr)) \/ i
        /\ IsBusy(r.data) <=> IsBusy(s.data)
    BY <1>6, <1>7, <1>9, <1>12
  <2>4. QED
    BY <1>3, <1>9, <1>10, <1>11, <2>1, <2>2, <2>3 DEF r
<1>13. CASE d
  <2>1. HasAnswer(r)
    <3>1. IsBusy(s.data) /\ IsMemory(s.inflight[EX_MEM]) /\ s.dataIds = {LastAccess(s.data).id}
      BY <1>4, <1>13 DEF Waits
    <3>2. s.dataIds \subseteq AccessIds
      BY <1>1 DEF Core
    <3>3. QED
      BY <1>7, <1>9, <1>13, <3>1, <3>2 DEF HasAnswer, StagesKept
  <2>2. answer # {}
    BY <1>3, <1>13
  <2>3. QED
    BY <1>9, <1>10, <1>11, <2>1, <2>2 DEF Pending, r
<1>14. QED
  BY <1>12, <1>13

-----------------------------------------------------------------------------
(* What holds between the stages of a cycle.                               *)

(* Only the end of the program is in flight that is not an instruction,    *)
(* and it is not decoded.                                                  *)
Placed(s) ==
    /\ s.pc.addr # 0
    /\ \A i \in Stages : IsFree(s, i) \/ s.inflight[i].addr \in 1 .. LinkRegister
    /\ \A i \in Stages \ {IF_ID} : IsFree(s, i) \/ HasInstr(s.inflight[i].addr)

(* An instruction whose successor is not known, before its branch is       *)
(* handled.  Nothing has been fetched behind it, and nothing is.           *)
OpenStop(s, i) ==
    /\ ~IsFree(s, i) /\ StopsFetch(s.inflight[i])
    /\ i = EX_MEM => IsLoad(s.inflight[i])

Stops(s) ==
    \A i \in {IF_ID, ID_EX, EX_MEM} :
        OpenStop(s, i) =>
            /\ \A j \in Stages : j < i => IsFree(s, j)
            /\ ~InFetch(s) /\ s.pc = Following(s.inflight[i])

(* A branch has been handled in this cycle.                                *)
Cleared(s) ==
    /\ IsFree(s, IF_ID) /\ IsFree(s, ID_EX) /\ ~OpenStop(s, EX_MEM)
    /\ s.pc.addr <= LinkRegister

Flowing(s) ==
    /\ Sound(s) /\ Placed(s)
    /\ IF s.flushed THEN Cleared(s) ELSE Fetched(s) /\ Stops(s)

(* The invariant of the pipeline.                                          *)
Consistent(s) == Flowing(s) /\ ~s.flushed /\ Waits(s) /\ Counted(s)

LEMMA FlowingKept ==
    ASSUME NEW s, Flowing(s), NEW r, Sound(r),
           FetchKept(r, s), FlowKept(r, s), StagesKept(r, s)
    PROVE  Flowing(r)
BY DEF Flowing, Placed, Cleared, Stops, OpenStop, Fetched, InFetch, IsFree,
       FetchKept, FlowKept, StagesKept

LEMMA WriteBackFlows ==
    ASSUME NEW s, Flowing(s)
    PROVE  Flowing(WriteBack(s))
<1>1. PICK r : r = WriteBack(s)
  OBVIOUS
<1>2. /\ Sound(r) /\ FetchKept(r, s) /\ FlowKept(r, s) /\ r.flushed = s.flushed
      /\ r.inflight = IF IsFree(s, MEM_WB) THEN s.inflight
                      ELSE [s.inflight EXCEPT ![WB_FIN] = s.inflight[MEM_WB], ![MEM_WB] = None]
  BY <1>1, WriteBackIs DEF Flowing
<1>3. s.inflight \in [Stages -> Elements]
  BY DEF Flowing, Sound, Core
<1>4. CASE IsFree(s, MEM_WB)
  BY <1>1, <1>2, <1>4, FlowingKept DEF StagesKept
<1>5. CASE ~IsFree(s, MEM_WB)
  <2>1. /\ r.inflight[IF_ID] = s.inflight[IF_ID] /\ r.inflight[ID_EX] = s.inflight[ID_EX]
        /\ r.inflight[EX_MEM] = s.inflight[EX_MEM] /\ r.inflight[MEM_WB] = None
        /\ r.inflight[WB_FIN] = s.inflight[MEM_WB]
    BY <1>2, <1>3, <1>5, InStages
  <2>2. Placed(r)
    BY <1>2, <2>1, InStages DEF Flowing, Placed, IsFree, FlowKept
  <2>3. /\ Stops(s) => Stops(r)
        /\ Cleared(s) => Cleared(r)
    BY <1>2, <2>1, InStages
       DEF Stops, OpenStop, Cleared, InFetch, IsFree, FetchKept, FlowKept
  <2>4. Fetched(s) => Fetched(r)
    BY <1>2 DEF Fetched, InFetch, FetchKept, FlowKept
  <2>5. QED
    BY <1>1, <1>2, <2>2, <2>3, <2>4 DEF Flowing
<1>6. QED
  BY <1>4, <1>5

(* Where a branch is handled, pc stays in front of the end.                *)
LEMMA ResolvesPc ==
    ASSUME NEW e \in Elements, IsFlow(e, Flow \ {"next"}), NEW r, NEW s,
           Resolves(r, s, e), s.pc \in Elements, s.pc.addr # 0,
           Flushes(r, s) /\ IsFlow(e, {"predreturn"}) => s.pc = Following(e)
    PROVE  r.pc.addr # 0 /\ (Flushes(r, s) => r.pc.addr <= LinkRegister \/ IsFlow(e, {"cond"}))
<1>1. CASE \E t \in TargetsOf(e, entry) : Takes(r, s, e, t)
  BY <1>1, TargetsAre DEF Takes
<1>2. CASE IsFlow(e, {"predreturn"}) /\ Declines(r, s, e) /\ Flushes(r, s)
  <2>1. HasInstr(e.addr) /\ e.addr <= LinkRegister /\ e.addr + 1 <= LinkRegister
    BY <1>2, CodeFacts DEF IsFlow, HasInstr
  <2>2. QED
    BY <1>2, <2>1, FollowingIs DEF Declines
<1>3. CASE IsFlow(e, {"cond"}) /\ Declines(r, s, e)
  BY <1>3 DEF Declines
<1>4. QED
  BY <1>1, <1>2, <1>3 DEF Resolves

LEMMA MemoryStageFlows ==
    ASSUME NEW s, Flowing(s), ~s.flushed, Pending(s), Counted(s), NEW r \in MemoryStage(s)
    PROVE  Flowing(r)
<1> DEFINE e == s.inflight[EX_MEM]
           n == Leaving(s, EX_MEM)
<1>1. Sound(s) /\ Placed(s) /\ Fetched(s) /\ Stops(s) /\ s \in Core /\ e \in Elements
  BY InStages DEF Flowing, Sound, Core
<1>2. /\ Sound(r)
      /\ \/ StaysInMemory(r, s)
         \/ ~IsFree(s, EX_MEM) /\ IsFree(s, MEM_WB) /\ Leaves(r, s, EX_MEM)
  BY <1>1, MemoryStageIs
<1>3. CASE StaysInMemory(r, s)
  BY <1>2, <1>3, FlowingKept DEF StaysInMemory
<1>4. CASE ~IsFree(s, EX_MEM) /\ Leaves(r, s, EX_MEM)
  <2>1. /\ n \in Core /\ n.inflight = Moved(s, EX_MEM) /\ FetchKept(n, s) /\ FlowKept(n, s)
        /\ n.flushed = s.flushed
    BY <1>1, LeavingIs
  <2>2. /\ n.inflight[IF_ID] = s.inflight[IF_ID] /\ n.inflight[ID_EX] = s.inflight[ID_EX]
        /\ n.inflight[EX_MEM] = None /\ n.inflight[MEM_WB] = e
        /\ n.inflight[WB_FIN] = s.inflight[WB_FIN]
    BY <1>1, <2>1, InStages DEF Moved, Core
  <2>3. Placed(n) /\ Fetched(n) /\ Stops(n) /\ HasInstr(e.addr)
    <3>1. HasInstr(e.addr)
      BY <1>1, <1>4, InStages DEF Placed
    <3>2. Placed(n)
      BY <1>1, <1>4, <2>1, <2>2, <3>1, InStages DEF Placed, IsFree, FlowKept
    <3>3. Fetched(n) /\ Stops(n)
      BY <1>1, <2>1, <2>2, InStages
         DEF Fetched, Stops, OpenStop, InFetch, IsFree, FetchKept, FlowKept
    <3>4. QED
      BY <3>1, <3>2, <3>3
  <2> HIDE DEF n
  <2>4. CASE ~(IsFlow(e, Flow \ {"next"}) /\ IsLoad(e))
    <3>1. FetchKept(r, n) /\ FlowKept(r, n) /\ StagesKept(r, n)
      BY <1>4, <2>4 DEF Leaves, n
    <3>2. Flowing(n)
      <4>1. Sound(n)
        BY <1>1, <2>1, LeavingIs DEF Sound, FetchKept, DataKept, n
      <4>2. QED
        BY <2>1, <2>3, <4>1 DEF Flowing
    <3>3. QED
      BY <1>2, <3>1, <3>2, FlowingKept
  <2>5. CASE IsFlow(e, Flow \ {"next"}) /\ IsLoad(e)
    <3>1. Resolves(r, n, e)
      BY <1>4, <2>5 DEF Leaves, n
    <3>2. IsFlow(e, {"table", "return", "predreturn"})
      BY <2>5, PcLoadAssumption DEF IsFlow, IsLoad, HasInstr, Addresses
    <3>3. ~IsFlow(e, {"cond"}) /\ StopsFetch(e)
      BY <3>2 DEF IsFlow, StopsFetch
    <3>4. Flushes(r, n)
      BY <3>1, <3>3 DEF Resolves
    <3>5. OpenStop(s, EX_MEM)
      BY <1>4, <2>5, <3>3 DEF OpenStop
    <3>6. IsFree(s, IF_ID) /\ IsFree(s, ID_EX) /\ s.pc = Following(e)
      BY <1>1, <3>5, InStages DEF Stops
    <3>7. n.pc = s.pc /\ n.pc \in Elements
      BY <1>1, <2>1 DEF FlowKept, Core
    <3>8. r.pc.addr # 0 /\ r.pc.addr <= LinkRegister
      BY <1>1, <2>3, <2>5, <3>1, <3>3, <3>4, <3>6, <3>7, ResolvesPc DEF Placed
    <3>9. /\ r.inflight[IF_ID] = None /\ r.inflight[ID_EX] = None /\ r.inflight[EX_MEM] = None
          /\ r.inflight[MEM_WB] = e /\ r.inflight[WB_FIN] = s.inflight[WB_FIN]
      BY <2>1, <2>2, <3>4, <3>6, InStages DEF Flushes, Core, IsFree
    <3>10. Placed(r)
      BY <1>1, <2>3, <3>8, <3>9, InStages DEF Placed, IsFree
    <3>11. Cleared(r) /\ r.flushed
      BY <3>4, <3>8, <3>9 DEF Cleared, OpenStop, IsFree, Flushes
    <3>12. QED
      BY <1>2, <3>10, <3>11 DEF Flowing
  <2>6. QED
    BY <2>4, <2>5
<1>5. QED
  BY <1>2, <1>3, <1>4

LEMMA ExecuteStageFlows ==
    ASSUME NEW s, Flowing(s), Waits(s), Counted(s), NEW r \in ExecuteStage(s)
    PROVE  Flowing(r)
<1> DEFINE e == s.inflight[ID_EX]
           n == Leaving(s, ID_EX)
<1>1. Sound(s) /\ Placed(s) /\ s \in Core /\ e \in Elements
  BY InStages DEF Flowing, Sound, Core
<1>2. /\ Sound(r)
      /\ \/ StaysInExecute(r, s)
         \/ ~IsFree(s, ID_EX) /\ IsFree(s, EX_MEM) /\ Leaves(r, s, ID_EX)
  BY <1>1, ExecuteStageIs
<1>3. CASE StaysInExecute(r, s)
  BY <1>2, <1>3, FlowingKept DEF StaysInExecute
<1>4. CASE ~IsFree(s, ID_EX) /\ IsFree(s, EX_MEM) /\ Leaves(r, s, ID_EX)
  <2>1. /\ n \in Core /\ n.inflight = Moved(s, ID_EX) /\ FetchKept(n, s) /\ FlowKept(n, s)
        /\ n.flushed = s.flushed
    BY <1>1, LeavingIs
  <2>2. /\ n.inflight[IF_ID] = s.inflight[IF_ID] /\ n.inflight[ID_EX] = None
        /\ n.inflight[EX_MEM] = e /\ n.inflight[MEM_WB] = s.inflight[MEM_WB]
        /\ n.inflight[WB_FIN] = s.inflight[WB_FIN]
    BY <1>1, <2>1, InStages DEF Moved, Core
  <2>3. ~s.flushed /\ Fetched(s) /\ Stops(s)
    BY <1>4 DEF Flowing, Cleared
  <2>4. HasInstr(e.addr)
    BY <1>1, <1>4, InStages DEF Placed
  <2>5. Placed(n) /\ Fetched(n)
    BY <1>1, <1>4, <2>1, <2>2, <2>3, <2>4, InStages
       DEF Placed, Fetched, InFetch, IsFree, FetchKept, FlowKept
  <2>6. OpenStop(s, ID_EX) <=> StopsFetch(e)
    BY <1>4, InStages DEF OpenStop
  <2>7. StopsFetch(e) => IsFree(s, IF_ID) /\ ~InFetch(s) /\ s.pc = Following(e)
    BY <2>3, <2>6, InStages DEF Stops
  <2> HIDE DEF n
  <2>8. CASE ~(IsFlow(e, Flow \ {"next"}) /\ ~IsLoad(e))
    <3>1. FetchKept(r, n) /\ FlowKept(r, n) /\ StagesKept(r, n)
      BY <1>4, <2>8, InStages DEF Leaves, n
    <3>2. Stops(n)
      BY <2>1, <2>2, <2>3, <2>7, InStages
         DEF Stops, OpenStop, InFetch, IsFree, FetchKept, FlowKept
    <3>3. Flowing(n)
      <4>1. Sound(n)
        BY <1>1, <2>1, LeavingIs DEF Sound, FetchKept, DataKept, n
      <4>2. QED
        BY <2>1, <2>3, <2>5, <3>2, <4>1 DEF Flowing
    <3>4. QED
      BY <1>2, <3>1, <3>3, FlowingKept
  <2>9. CASE IsFlow(e, Flow \ {"next"}) /\ ~IsLoad(e)
    <3>1. Resolves(r, n, e)
      BY <1>4, <2>9, InStages DEF Leaves, n
    <3>2. n.pc = s.pc /\ n.pc \in Elements
      BY <1>1, <2>1 DEF FlowKept, Core
    <3>3. IsFlow(e, {"predreturn"}) => s.pc = Following(e)
      BY <2>7 DEF StopsFetch, IsFlow
    <3>4. /\ r.pc.addr # 0
          /\ Flushes(r, n) => r.pc.addr <= LinkRegister \/ IsFlow(e, {"cond"})
      BY <1>1, <2>5, <2>9, <3>1, <3>2, <3>3, ResolvesPc DEF Placed
    <3>5. r.inflight \in {n.inflight, [n.inflight EXCEPT ![IF_ID] = None]}
      BY <3>1 DEF Resolves, Flushes, StagesKept
    <3>6. /\ r.inflight[IF_ID] \in {None, n.inflight[IF_ID]} /\ r.inflight[ID_EX] = None
          /\ r.inflight[EX_MEM] = e /\ r.inflight[MEM_WB] = s.inflight[MEM_WB]
          /\ r.inflight[WB_FIN] = s.inflight[WB_FIN]
      BY <2>1, <2>2, <3>5, InStages DEF Core
    <3>7. Placed(r)
      BY <1>1, <2>2, <2>5, <3>4, <3>6, InStages DEF Placed, IsFree
    <3>8. CASE Flushes(r, n) /\ r.pc.addr <= LinkRegister
      <4>1. r.inflight[IF_ID] = None
        BY <2>1, <3>8, InStages DEF Flushes, Core
      <4>2. Cleared(r) /\ r.flushed
        BY <2>9, <3>6, <3>8, <4>1 DEF Cleared, OpenStop, IsFree, Flushes
      <4>3. QED
        BY <1>2, <3>7, <4>2 DEF Flowing
    <3>9. CASE /\ IsFlow(e, {"cond"}) /\ Declines(r, n, e) /\ StagesKept(r, n)
               /\ IF strict THEN Refetches(r, n) ELSE FetchKept(r, n)
      <4>1. r.pc = s.pc /\ ~r.flushed /\ r.inflight = n.inflight
        BY <2>1, <2>3, <3>2, <3>9 DEF Declines, StagesKept
      <4>2. CASE strict
        <5>1. StopsFetch(e)
          BY <3>9, <4>2 DEF StopsFetch, IsFlow
        <5>2. e.addr + 1 <= LinkRegister /\ Following(e).addr = e.addr + 1
          BY <1>1, <2>4, CodeFacts, FollowingIs DEF HasInstr
        <5>3. r.pc.addr <= LinkRegister
          BY <2>7, <4>1, <5>1, <5>2
        <5>4. Refetches(r, n) /\ ~r.accessFinished
          BY <2>1, <2>7, <3>9, <4>2, <5>1 DEF Refetches, FetchKept, InFetch
        <5>5. Fetched(r)
          BY <5>3, <5>4 DEF Fetched, Refetches
        <5>6. Stops(r)
          BY <2>2, <2>7, <2>9, <4>1, <5>1, InStages DEF Stops, OpenStop, IsFree
        <5>7. QED
          BY <1>2, <3>7, <4>1, <5>5, <5>6 DEF Flowing
      <4>3. CASE ~strict
        <5>1. FetchKept(r, s)
          BY <2>1, <3>9, <4>3 DEF FetchKept
        <5>2. Fetched(r)
          BY <2>3, <4>1, <5>1 DEF Fetched, InFetch, FetchKept
        <5>3. Stops(r)
          BY <2>2, <2>3, <2>9, <4>1, <5>1, InStages
             DEF Stops, OpenStop, IsFree, InFetch, FetchKept
        <5>4. QED
          BY <1>2, <3>7, <4>1, <5>2, <5>3 DEF Flowing
      <4>4. QED
        BY <4>2, <4>3
    <3>10. QED
      <4>1. IsFlow(e, {"predreturn"}) => ~IsFlow(e, {"cond"})
        BY DEF IsFlow
      <4>2. ASSUME NEW t \in TargetsOf(e, entry), Takes(r, n, e, t)
            PROVE  r.pc.addr <= LinkRegister
        BY <1>1, <2>9, <4>2, TargetsAre DEF Takes
      <4>3. QED
        BY <3>1, <3>4, <3>8, <3>9, <4>1, <4>2 DEF Resolves
  <2>10. QED
    BY <2>8, <2>9
<1>5. QED
  BY <1>2, <1>3, <1>4

LEMMA DecodeFlows ==
    ASSUME NEW s, Flowing(s)
    PROVE  Flowing(Decode(s))
<1>1. PICK r : r = Decode(s)
  OBVIOUS
<1>2. /\ Sound(r) /\ FetchKept(r, s) /\ FlowKept(r, s) /\ r.flushed = s.flushed
      /\ r.inflight = IF IsFree(s, IF_ID) \/ ~IsFree(s, ID_EX) THEN s.inflight
                      ELSE IF HasInstr(s.inflight[IF_ID].addr) THEN Moved(s, IF_ID)
                      ELSE [s.inflight EXCEPT ![IF_ID] = None]
  BY <1>1, DecodeIs DEF Flowing
<1>3. s.inflight \in [Stages -> Elements] /\ Placed(s)
  BY DEF Flowing, Sound, Core
<1>4. CASE IsFree(s, IF_ID) \/ ~IsFree(s, ID_EX)
  BY <1>1, <1>2, <1>4, FlowingKept DEF StagesKept
<1>5. CASE ~IsFree(s, IF_ID) /\ IsFree(s, ID_EX)
  <2>1. ~s.flushed /\ Fetched(s) /\ Stops(s)
    BY <1>5 DEF Flowing, Cleared
  <2>2. /\ r.inflight[IF_ID] = None
        /\ \/ r.inflight[ID_EX] = None
           \/ r.inflight[ID_EX] = s.inflight[IF_ID] /\ HasInstr(s.inflight[IF_ID].addr)
        /\ r.inflight[EX_MEM] = s.inflight[EX_MEM] /\ r.inflight[MEM_WB] = s.inflight[MEM_WB]
        /\ r.inflight[WB_FIN] = s.inflight[WB_FIN]
    BY <1>2, <1>3, <1>5, InStages DEF Moved, IsFree
  <2>3. Placed(r)
    BY <1>2, <1>3, <2>2, InStages DEF Placed, IsFree, FlowKept
  <2>4. Fetched(r)
    BY <1>2, <2>1 DEF Fetched, InFetch, FetchKept, FlowKept
  <2>5. Stops(r)
    <3>1. (r.pc = s.pc) /\ (InFetch(r) <=> InFetch(s))
      BY <1>2 DEF InFetch, FetchKept, FlowKept
    <3>2. ~OpenStop(r, IF_ID)
      BY <2>2 DEF OpenStop, IsFree
    <3>3. OpenStop(r, ID_EX) => ~InFetch(r) /\ r.pc = Following(r.inflight[ID_EX])
      BY <1>5, <2>1, <2>2, <3>1, InStages DEF Stops, OpenStop, IsFree
    <3>4. ~OpenStop(s, EX_MEM)
      BY <1>5, <2>1, InStages DEF Stops
    <3>5. ~OpenStop(r, EX_MEM)
      BY <2>2, <3>4 DEF OpenStop, IsFree
    <3>6. QED
      BY <2>2, <3>2, <3>3, <3>5, InStages DEF Stops, IsFree
  <2>6. QED
    BY <1>1, <1>2, <2>1, <2>3, <2>4, <2>5 DEF Flowing
<1>6. QED
  BY <1>4, <1>5

LEMMA FetchFlows ==
    ASSUME NEW s, Flowing(s), Waits(s), Counted(s)
    PROVE  Consistent(Fetch(s))
<1>1. PICK r : r = Fetch(s)
  OBVIOUS
<1>2. /\ Sound(r) /\ DataKept(r, s) /\ ~r.flushed
      /\ IF s.flushed THEN Restarts(r, s)
         ELSE \/ /\ FlowKept(r, s) /\ r.inflight = s.inflight /\ Fetched(r)
                 /\ InFetch(r) <=> InFetch(s)
              \/ InFetch(s) /\ Fetches(r, s)
  BY <1>1, FetchIs DEF Flowing
<1>3. s.inflight \in [Stages -> Elements] /\ Placed(s) /\ s.pc \in Elements
  BY DEF Flowing, Sound, Core
<1>4. r.inflight[EX_MEM] = s.inflight[EX_MEM] => Waits(r) /\ Counted(r)
  BY <1>2 DEF Waits, Counted, Limited, DataKept
<1>5. CASE s.flushed
  <2>1. Restarts(r, s) /\ Cleared(s)
    BY <1>2, <1>5 DEF Flowing
  <2>2. r.pc = s.pc /\ r.inflight = s.inflight
    BY <2>1 DEF Restarts, FlowKept
  <2>3. Placed(r)
    BY <1>3, <2>2 DEF Placed, IsFree
  <2>4. Fetched(r)
    BY <2>1, <2>2 DEF Fetched, Restarts, Cleared
  <2>5. Stops(r)
    BY <2>1, <2>2 DEF Stops, OpenStop, Cleared, IsFree
  <2>6. QED
    BY <1>1, <1>2, <1>4, <2>2, <2>3, <2>4, <2>5 DEF Consistent, Flowing
<1>6. CASE ~s.flushed /\ FlowKept(r, s) /\ r.inflight = s.inflight /\ Fetched(r)
           /\ (InFetch(r) <=> InFetch(s))
  <2>1. Placed(r) /\ Stops(r)
    BY <1>3, <1>6 DEF Flowing, Placed, Stops, OpenStop, IsFree, FlowKept
  <2>2. QED
    BY <1>1, <1>2, <1>4, <1>6, <2>1 DEF Consistent, Flowing
<1>7. CASE ~s.flushed /\ InFetch(s) /\ Fetches(r, s)
  <2>1. Fetched(s) /\ Stops(s) /\ s.pc.addr \in 1 .. LinkRegister
    <3>1. Fetched(s) /\ Stops(s) /\ s.pc.addr <= LinkRegister /\ s.pc.addr # 0 /\ s.pc.addr \in Nat
      BY <1>3, <1>7, CodeFacts DEF Flowing, Fetched, Placed, Elements
    <3>2. QED
      BY <3>1, CodeFacts
  <2>2. /\ r.inflight[IF_ID] = s.pc /\ r.inflight[ID_EX] = s.inflight[ID_EX]
        /\ r.inflight[EX_MEM] = s.inflight[EX_MEM] /\ r.inflight[MEM_WB] = s.inflight[MEM_WB]
        /\ r.inflight[WB_FIN] = s.inflight[WB_FIN] /\ r.pc = Following(s.pc)
    BY <1>3, <1>7, InStages DEF Fetches
  <2>3. r.pc.addr = s.pc.addr + 1
    BY <1>3, <2>1, <2>2, FollowingIs
  <2>4. Placed(r)
    BY <1>3, <2>1, <2>2, <2>3, InStages DEF Placed, IsFree
  <2>5. CASE StopsFetch(s.pc)
    <3>1. ~InFetch(r)
      BY <1>7, <2>5 DEF Fetches, InFetch
    <3>2. Fetched(r)
      BY <3>1 DEF Fetched, InFetch
    <3>3. ~OpenStop(r, ID_EX) /\ ~OpenStop(r, EX_MEM)
      BY <1>7, <2>1, <2>2 DEF Stops, OpenStop, IsFree
    <3>4. Stops(r)
      BY <2>2, <3>1, <3>3, InStages DEF Stops
    <3>5. QED
      BY <1>1, <1>2, <1>4, <2>2, <2>4, <3>2, <3>4 DEF Consistent, Flowing
  <2>6. CASE ~StopsFetch(s.pc)
    <3>1. HasInstr(s.pc.addr)
      BY <2>6 DEF StopsFetch, GoesExternal
    <3>2. r.pc.addr <= LinkRegister
      BY <2>3, <3>1, CodeFacts DEF HasInstr
    <3>3. Fetched(r)
      BY <1>7, <2>6, <3>2 DEF Fetched, Fetches
    <3>4. ~OpenStop(r, ID_EX) /\ ~OpenStop(r, EX_MEM)
      BY <1>7, <2>1, <2>2 DEF Stops, OpenStop, IsFree
    <3>5. Stops(r)
      BY <2>2, <2>6, <3>4 DEF Stops, OpenStop
    <3>6. QED
      BY <1>1, <1>2, <1>4, <2>2, <2>4, <3>3, <3>5 DEF Consistent, Flowing
  <2>7. QED
    BY <2>5, <2>6
<1>8. QED
  BY <1>2, <1>5, <1>6, <1>7

(* The stages of a cycle one by one.                                       *)
LEMMA CycleIs ==
    ASSUME NEW m, Flowing(m), ~m.flushed, Pending(m), Counted(m), NEW s \in Cycle(m)
    PROVE  \E w, y, x, d :
              /\ w = WriteBack(m) /\ Flowing(w) /\ ~w.flushed /\ Pending(w) /\ Counted(w)
              /\ y \in MemoryStage(w) /\ Flowing(y) /\ Waits(y) /\ Counted(y)
              /\ x \in ExecuteStage(y) /\ Flowing(x) /\ Waits(x) /\ Counted(x)
              /\ d = Decode(x) /\ Flowing(d) /\ Waits(d) /\ Counted(d)
              /\ s = Fetch(d) /\ Consistent(s)
<1>1. PICK w : w = WriteBack(m)
  OBVIOUS
<1>2. PICK y, x : y \in MemoryStage(w) /\ x \in ExecuteStage(y) /\ s = Fetch(Decode(x))
  BY <1>1 DEF Cycle
<1>3. PICK d : d = Decode(x)
  OBVIOUS
<1>4. Flowing(w) /\ ~w.flushed /\ Pending(w) /\ Counted(w)
  <2>1. /\ Sound(w) /\ DataKept(w, m) /\ w.flushed = m.flushed
        /\ w.inflight = IF IsFree(m, MEM_WB) THEN m.inflight
                        ELSE [m.inflight EXCEPT ![WB_FIN] = m.inflight[MEM_WB], ![MEM_WB] = None]
    BY <1>1, WriteBackIs DEF Flowing
  <2>2. w.inflight[EX_MEM] = m.inflight[EX_MEM]
    BY <2>1, InStages DEF Flowing, Sound, Core
  <2>3. Flowing(w)
    BY <1>1, WriteBackFlows
  <2>4. QED
    BY <2>1, <2>2, <2>3 DEF Pending, Waits, HasAnswer, Counted, Limited, DataKept
<1>5. Flowing(y) /\ Waits(y) /\ Counted(y)
  BY <1>2, <1>4, MemoryStageIs, MemoryStageFlows DEF Flowing
<1>6. Flowing(x) /\ Waits(x) /\ Counted(x)
  BY <1>2, <1>5, ExecuteStageIs, ExecuteStageFlows DEF Flowing
<1>7. Flowing(d) /\ Waits(d) /\ Counted(d)
  <2>1. /\ DataKept(d, x)
        /\ d.inflight = IF IsFree(x, IF_ID) \/ ~IsFree(x, ID_EX) THEN x.inflight
                        ELSE IF HasInstr(x.inflight[IF_ID].addr) THEN Moved(x, IF_ID)
                        ELSE [x.inflight EXCEPT ![IF_ID] = None]
    BY <1>3, <1>6, DecodeIs DEF Flowing
  <2>2. d.inflight[EX_MEM] = x.inflight[EX_MEM]
    BY <1>6, <2>1, InStages DEF Flowing, Sound, Core, Moved
  <2>3. Flowing(d)
    BY <1>3, <1>6, DecodeFlows
  <2>4. QED
    BY <1>6, <2>1, <2>2, <2>3 DEF Waits, Counted, Limited, DataKept
<1>8. s = Fetch(d) /\ Consistent(s)
  BY <1>2, <1>3, <1>7, FetchFlows
<1>9. QED
  BY <1>1, <1>2, <1>3, <1>4, <1>5, <1>6, <1>7, <1>8

LEMMA ConsistentKept ==
    ASSUME NEW s, Consistent(s), NEW r \in Core, Kept(r, s)
    PROVE  Consistent(r)
<1>1. Sound(r)
  BY DEF Consistent, Flowing, Sound, Kept, FetchKept, DataKept
<1>2. Flowing(r)
  BY <1>1, FlowingKept DEF Consistent, Kept
<1>3. QED
  BY <1>2 DEF Consistent, Kept, DataKept, StagesKept, Waits, Counted, Limited

LEMMA MemoryCycles ==
    ASSUME NEW s, Consistent(s), NEW answer \in SUBSET CouldAnswer(s), NEW m,
           m = Require(CycleMemory(s, answer), IsFree(s, WB_FIN))
    PROVE  /\ Flowing(m) /\ ~m.flushed /\ Pending(m) /\ Counted(m)
           /\ answer = {} => Consistent(m)
           /\ FlowKept(m, s) /\ StagesKept(m, s)
<1>1. PICK r : r = CycleMemory(s, answer)
  OBVIOUS
<1>2. Sound(s) /\ Placed(s) /\ Fetched(s) /\ Stops(s) /\ ~s.flushed /\ Waits(s) /\ Counted(s)
  BY DEF Consistent, Flowing
<1>3. /\ Sound(r) /\ Pending(r) /\ Counted(r) /\ FlowKept(r, s) /\ StagesKept(r, s)
      /\ r.accessId = s.accessId /\ r.accessFinished = s.accessFinished
      /\ Fetched(r) /\ (answer = {} => Waits(r))
  BY <1>1, <1>2, CycleMemoryIs
<1>4. Placed(r) /\ Stops(r) /\ ~r.flushed
  BY <1>2, <1>3 DEF Placed, Stops, OpenStop, InFetch, IsFree, FlowKept, StagesKept
<1>5. Flowing(r)
  BY <1>3, <1>4 DEF Flowing
<1>6. m = Require(r, IsFree(s, WB_FIN)) /\ IsFree(s, WB_FIN) \in BOOLEAN /\ r \in Core
  BY <1>1, <1>3 DEF IsFree, Sound
<1>7. m \in Core /\ Kept(m, r)
  BY <1>6, RequireIs
<1>8. Sound(m)
  BY <1>3, <1>7 DEF Sound, Kept, FetchKept, DataKept
<1>9. Flowing(m) /\ ~m.flushed
  BY <1>4, <1>5, <1>7, <1>8, FlowingKept DEF Kept, StagesKept
<1>10. Pending(m) /\ Counted(m) /\ (Waits(r) => Waits(m))
  BY <1>3, <1>7 DEF Pending, HasAnswer, Waits, Counted, Limited, Kept, DataKept, StagesKept
<1>11. FlowKept(m, s) /\ StagesKept(m, s)
  BY <1>3, <1>7 DEF Kept, FlowKept, StagesKept
<1>12. QED
  BY <1>3, <1>9, <1>10, <1>11 DEF Consistent

LEMMA CheckConvergenceIs ==
    ASSUME NEW s \in Core, NEW origin, NEW r, r = CheckConvergence(origin, s)
    PROVE  r \in Core /\ Kept(r, s)
<1>1. (IsConverged(origin, s) => IsBusy(s.instr) \/ IsBusy(s.data) \/ IsEmpty(s)) \in BOOLEAN
  BY DEF IsConverged, IsBusy, IsEmpty, IsFree
<1>2. QED
  BY <1>1, RequireIs DEF CheckConvergence

(* What a cycle does to the state of the pipeline: it stalls, or all       *)
(* stages work.                                                            *)
LEMMA CycleKeepsConsistent ==
    ASSUME Consistent(core), CyclePipeline
    PROVE  Consistent(core')
<1>1. PICK m : m = Require(CycleMemory(core, answered'), IsFree(core, WB_FIN))
  OBVIOUS
<1>2. answered' \in SUBSET CouldAnswer(core) /\ (stalled' => answered' = {}) /\ stalled' \in BOOLEAN
  BY DEF CyclePipeline
<1>3. PICK s \in (IF stalled' THEN {m} ELSE Cycle(m)) : core' = CheckConvergence(core, s)
  BY <1>1, Zenon DEF CyclePipeline
<1>4. /\ Flowing(m) /\ ~m.flushed /\ Pending(m) /\ Counted(m)
      /\ answered' = {} => Consistent(m)
  BY <1>1, <1>2, MemoryCycles
<1>5. Consistent(s)
  <2>1. CASE stalled'
    BY <1>2, <1>3, <1>4, <2>1
  <2>2. CASE ~stalled'
    BY <1>3, <1>4, <2>2, CycleIs
  <2>3. QED
    BY <2>1, <2>2
<1>6. core' \in Core /\ Kept(core', s)
  BY <1>3, <1>5, CheckConvergenceIs DEF Consistent, Flowing, Sound
<1>7. QED
  BY <1>5, <1>6, ConsistentKept

(* Where an instruction leaves, only its latch and the oldest assumptions  *)
(* change.                                                                 *)
Retires(r, s) ==
    /\ FetchKept(r, s) /\ DataKept(r, s) /\ WorkKept(r, s)
    /\ r.flushed = s.flushed /\ r.failed = s.failed /\ r.pc = s.pc
    /\ \/ r.inflight = s.inflight
       \/ r.inflight = [s.inflight EXCEPT ![WB_FIN] = None]
    /\ r.branches \in {s.branches, Tail(s.branches)}
    /\ r.returns \in {s.returns, Tail(s.returns)}

LEMMA RetiresKeepsConsistent ==
    ASSUME NEW s, Consistent(s), NEW r \in Core, Retires(r, s)
    PROVE  Consistent(r)
<1>1. s.inflight \in [Stages -> Elements]
  BY DEF Consistent, Flowing, Sound, Core
<1>2. /\ r.inflight[IF_ID] = s.inflight[IF_ID] /\ r.inflight[ID_EX] = s.inflight[ID_EX]
      /\ r.inflight[EX_MEM] = s.inflight[EX_MEM] /\ r.inflight[MEM_WB] = s.inflight[MEM_WB]
      /\ r.inflight[WB_FIN] \in {None, s.inflight[WB_FIN]}
  BY <1>1, InStages DEF Retires
<1>3. Sound(r)
  BY DEF Consistent, Flowing, Sound, Retires, FetchKept, DataKept
<1>4. Placed(r)
  BY <1>2, InStages DEF Consistent, Flowing, Placed, IsFree, Retires
<1>5. Fetched(r)
  BY DEF Consistent, Flowing, Fetched, InFetch, Retires, FetchKept
<1>6. Stops(r)
  BY <1>2, InStages
     DEF Consistent, Flowing, Stops, OpenStop, InFetch, IsFree, Retires, FetchKept
<1>7. Waits(r) /\ Counted(r)
  BY <1>2 DEF Consistent, Waits, Counted, Limited, Retires, DataKept
<1>8. QED
  BY <1>3, <1>4, <1>5, <1>6, <1>7 DEF Consistent, Flowing, Retires

LEMMA RetiredIs ==
    ASSUME NEW s \in Core
    PROVE  /\ Retired(s) \in Core /\ Retires(Retired(s), s)
           /\ Retired(s).inflight = [s.inflight EXCEPT ![WB_FIN] = None]
           /\ Retired(s).branches = s.branches /\ Retired(s).returns = s.returns
<1>1. PICK stages : stages = [s.inflight EXCEPT ![WB_FIN] = None]
  OBVIOUS
<1>2. stages \in [Stages -> Elements]
  BY <1>1, InStages, ExitIs DEF Core
<1>3. Retired(s) = [s EXCEPT !.inflight = stages]
  BY <1>1 DEF Retired
<1>4. QED
  BY <1>1, <1>2, <1>3 DEF Core, Retires, FetchKept, DataKept, WorkKept

LEMMA ForgottenIs ==
    ASSUME NEW s \in Core, s.branches # <<>>
    PROVE  /\ Forgotten(s) \in Core /\ Retires(Forgotten(s), s)
           /\ Forgotten(s).inflight = s.inflight
           /\ Forgotten(s).branches = Tail(s.branches) /\ Forgotten(s).returns = s.returns
<1>1. PICK bs : bs = Tail(s.branches)
  OBVIOUS
<1>2. bs \in Seq(Branch)
  BY <1>1, HeadTailProperties DEF Core
<1>3. Forgotten(s) = [s EXCEPT !.branches = bs]
  BY <1>1 DEF Forgotten
<1>4. QED
  BY <1>1, <1>2, <1>3 DEF Core, Retires, FetchKept, DataKept, WorkKept

(* What each way of going on leaves of the state.                          *)
LEMMA AdvanceIs ==
    ASSUME core \in Core, Advance
    PROVE  /\ core' \in Core /\ Retires(core', core)
           /\ core'.inflight = IF at = Exit THEN core.inflight
                               ELSE [core.inflight EXCEPT ![WB_FIN] = None]
<1>1. PICK s : s = Retired(core)
  OBVIOUS
<1>2. /\ s \in Core /\ Retires(s, core) /\ s.inflight = [core.inflight EXCEPT ![WB_FIN] = None]
      /\ s.branches = core.branches /\ s.returns = core.returns
  BY <1>1, RetiredIs
<1>3. IsFlow(at, Flow) => at # Exit
  BY ExitIs DEF IsFlow
<1>4. ASSUME core' = s, at # Exit
      PROVE  /\ core' \in Core /\ Retires(core', core)
             /\ core'.inflight = IF at = Exit THEN core.inflight
                                 ELSE [core.inflight EXCEPT ![WB_FIN] = None]
  BY <1>2, <1>4
<1>5. ASSUME core' = Forgotten(s), at # Exit, core.branches # <<>>
      PROVE  /\ core' \in Core /\ Retires(core', core)
             /\ core'.inflight = IF at = Exit THEN core.inflight
                                 ELSE [core.inflight EXCEPT ![WB_FIN] = None]
  <2>1. /\ core' \in Core /\ Retires(core', s) /\ core'.inflight = s.inflight
        /\ core'.branches = Tail(core.branches) /\ core'.returns = core.returns
    BY <1>2, <1>5, ForgottenIs
  <2>2. QED
    BY <1>2, <1>5, <2>1 DEF Retires, FetchKept, DataKept, WorkKept
<1>6. CASE AdvancePlain
  BY <1>1, <1>3, <1>4, <1>6 DEF AdvancePlain, IsFlow, Flow
<1>7. CASE AdvanceTaken
  BY <1>1, <1>3, <1>5, <1>7 DEF AdvanceTaken, Guarding, IsFlow, Flow
<1>8. CASE AdvanceNotTaken
  BY <1>1, <1>3, <1>5, <1>8 DEF AdvanceNotTaken, Guarding, IsFlow, Flow
<1>9. CASE AdvanceReturn
  <2>1. at # Exit
    BY <1>3, <1>9 DEF AdvanceReturn, IsReturn, IsFlow, Flow
  <2>2. CASE core' = Retired(core)
    BY <1>1, <1>4, <2>1, <2>2
  <2>3. CASE core' = [Forgotten(Retired(core)) EXCEPT !.returns = Tail(@)]
    <3>1. PICK f : f = Forgotten(s)
      OBVIOUS
    <3>2. core.branches # <<>> /\ core.returns # <<>>
      BY <1>9 DEF AdvanceReturn, Guarding
    <3>3. /\ f \in Core /\ Retires(f, s) /\ f.inflight = s.inflight
          /\ f.branches = Tail(s.branches) /\ f.returns = s.returns
      BY <1>2, <3>1, <3>2, ForgottenIs
    <3>4. PICK rs : rs = Tail(f.returns)
      OBVIOUS
    <3>5. rs \in Seq(Elements)
      <4>1. f.returns \in Seq(Elements) /\ f.returns # <<>>
        BY <1>2, <3>2, <3>3 DEF Core
      <4>2. QED
        BY <3>4, <4>1, HeadTailProperties
    <3>6. core' = [f EXCEPT !.returns = rs]
      BY <1>1, <2>3, <3>1, <3>4
    <3>7. /\ core' \in Core /\ Retires(core', s) /\ core'.inflight = s.inflight
          /\ core'.branches = Tail(core.branches) /\ core'.returns = Tail(core.returns)
      BY <1>2, <3>3, <3>4, <3>5, <3>6 DEF Core, Retires, FetchKept, DataKept, WorkKept
    <3>8. QED
      BY <1>2, <2>1, <3>7 DEF Retires, FetchKept, DataKept, WorkKept
  <2>4. QED
    BY <1>9, <2>2, <2>3 DEF AdvanceReturn
<1>10. CASE AdvanceExit
  <2>1. core.branches # <<>> /\ core' = Forgotten(core) /\ at = Exit
    BY <1>10 DEF AdvanceExit
  <2>2. QED
    BY <2>1, ForgottenIs
<1>11. QED
  BY <1>6, <1>7, <1>8, <1>9, <1>10 DEF Advance

-----------------------------------------------------------------------------
(* The invariant, and what it implies.                                     *)

PipelineInv ==
    /\ strict \in BOOLEAN /\ tick \in BOOLEAN /\ stalled \in BOOLEAN /\ converged \in BOOLEAN
    /\ entry \in EntryPoints /\ at \in Elements
    /\ answered \subseteq {"instr", "data"}
    /\ Consistent(core)

LEMMA InitPipelineInv == Init => PipelineInv
<1> SUFFICES ASSUME Init PROVE PipelineInv
  OBVIOUS
<1>1. entry \in Addresses /\ entry \in AllAddresses /\ entry \in 1 .. Len(Code)
  <2>1. entry \in Addresses
    BY CodeAssumption DEF Init, Addresses
  <2>2. QED
    BY <2>1, CodeFacts
<1>2. [addr |-> entry, ctx |-> NoContext] \in Elements
  BY <1>1, CodeFacts DEF Elements, NoContext
<1>3. PICK p, id : p = Accessed(IdlePort, entry) /\ id = NewId(IdlePort)
  OBVIOUS
<1>4. /\ p \in Ports /\ Distinct(p) /\ id \in AccessIds /\ id # NoId
      /\ LastAccess(p) = [id |-> id, addr |-> entry]
  <2>1. entry \in Nat
    BY <1>1
  <2>2. QED
    BY <1>3, <2>1, IdlePortIs, AccessedIs DEF AccessIds, NoId
<1>5. core = [pc |-> [addr |-> entry, ctx |-> NoContext],
              inflight |-> [i \in Stages |-> None],
              times |-> {}, stallMemory |-> FALSE, interlock |-> FALSE,
              flushed |-> FALSE,
              instr |-> p, accessId |-> id,
              accessFinished |-> FALSE,
              data |-> IdlePort, dataIds |-> {}, currAccess |-> 0,
              branches |-> <<>>, returns |-> <<>>,
              held |-> [l \in Loops |-> 0],
              failed |-> FALSE, unentered |-> FALSE, arrived |-> 0, leaked |-> {}]
  BY <1>3 DEF Init, InitialCore
<1>6. core \in Core
  BY <1>2, <1>4, <1>5, IdlePortIs, ExitIs DEF Core
<1>7. Sound(core)
  BY <1>4, <1>5, <1>6, IdlePortIs DEF Sound
<1>8. Placed(core)
  BY <1>1, <1>5 DEF Placed, IsFree
<1>9. Fetched(core)
  BY <1>1, <1>4, <1>5, CodeFacts DEF Fetched, InFetch
<1>10. Stops(core)
  BY <1>5, InStages DEF Stops, OpenStop, IsFree
<1>11. Waits(core) /\ Counted(core)
  <2>1. ~IsMemory(core.inflight[EX_MEM])
    BY <1>5, InStages, ExitIs DEF IsMemory
  <2>2. QED
    BY <1>5, <2>1, IdlePortIs DEF Waits, Counted, Limited, IdlePort
<1>12. Consistent(core)
  <2>1. ~core.flushed
    BY <1>5
  <2>2. QED
    BY <1>7, <1>8, <1>9, <1>10, <1>11, <2>1 DEF Consistent, Flowing
<1>13. /\ strict \in BOOLEAN /\ tick \in BOOLEAN /\ stalled \in BOOLEAN /\ converged \in BOOLEAN
       /\ entry \in EntryPoints /\ at \in Elements /\ answered \subseteq {"instr", "data"}
  BY <1>2 DEF Init
<1>14. QED
  BY <1>12, <1>13 DEF PipelineInv

LEMMA AdvanceKeepsElement ==
    ASSUME core \in Core, at \in Elements, Advance
    PROVE  at' \in Elements
<1>1. ASSUME core.branches # <<>> PROVE Head(core.branches).to \in Elements
  <2>1. Head(core.branches) \in Branch
    BY <1>1, HeadTailProperties DEF Core
  <2>2. QED
    BY <2>1 DEF Branch
<1>2. ASSUME core.returns # <<>> PROVE Head(core.returns) \in Elements
  BY <1>2, HeadTailProperties DEF Core
<1>3. ASSUME IsFlow(at, Flow) PROVE Following(at) \in Elements
  <2>1. at.addr <= LinkRegister
    BY <1>3, CodeFacts DEF IsFlow, HasInstr
  <2>2. QED
    BY <2>1, FollowingIs
<1>4. CASE AdvancePlain
  <2>1. IsFlow(at, Flow)
    BY <1>4 DEF AdvancePlain, IsFlow, Flow
  <2>2. ASSUME ~IsFlow(at, {"next"}), NEW t \in Targets(at) PROVE t \in Elements
    <3>1. IsFlow(at, Flow \ {"next"}) /\ t \in TargetsOf(at, entry)
      BY <2>1, <2>2 DEF IsFlow, Targets, TargetsOf
    <3>2. QED
      BY <3>1, TargetsAre
  <2>3. QED
    BY <1>3, <1>4, <2>1, <2>2 DEF AdvancePlain, NextInstruction
<1>5. CASE AdvanceTaken
  BY <1>1, <1>5 DEF AdvanceTaken, Guarding, NextInstruction
<1>6. CASE AdvanceNotTaken
  <2>1. IsFlow(at, Flow)
    BY <1>6 DEF AdvanceNotTaken, IsFlow, Flow
  <2>2. QED
    BY <1>3, <1>6, <2>1 DEF AdvanceNotTaken, NextInstruction
<1>7. CASE AdvanceReturn
  BY <1>2, <1>7 DEF AdvanceReturn, NextInstruction
<1>8. CASE AdvanceExit
  <2>1. Done \in Elements
    BY CodeFacts DEF Done, Elements, NoContext
  <2>2. QED
    BY <1>8, <2>1 DEF AdvanceExit, NextInstruction
<1>9. QED
  BY <1>4, <1>5, <1>6, <1>7, <1>8 DEF Advance

(* The kind of the pipeline does not change.                               *)
LEMMA ConsistentNext ==
    ASSUME strict' = strict, Consistent(core')
    PROVE  Consistent(core)'
<1>1. /\ Sound(core)' /\ Placed(core)' /\ (~core.flushed)' /\ Fetched(core)'
      /\ Waits(core)' /\ Counted(core)'
  BY DEF Consistent, Flowing, Sound, Placed, Fetched, Waits, Counted, Limited
<1>2. Stops(core)'
  <2>1. ASSUME NEW i PROVE OpenStop(core, i)' <=> OpenStop(core', i)
    BY DEF OpenStop, StopsFetch
  <2>2. Stops(core')
    BY DEF Consistent, Flowing
  <2>3. QED
    BY <2>1, <2>2 DEF Stops
<1>3. QED
  BY <1>1, <1>2 DEF Consistent, Flowing

LEMMA NextPipelineInv == PipelineInv /\ [Next]_vars => PipelineInv'
<1> SUFFICES ASSUME PipelineInv, [Next]_vars PROVE PipelineInv'
  OBVIOUS
<1>1. CASE CyclePipeline
  <2>1. Consistent(core')
    BY <1>1, CycleKeepsConsistent DEF PipelineInv
  <2>2. /\ (strict \in BOOLEAN)' /\ (tick \in BOOLEAN)' /\ (stalled \in BOOLEAN)'
        /\ (converged \in BOOLEAN)' /\ answered' \subseteq {"instr", "data"}
        /\ entry' = entry /\ at' = at
    BY <1>1 DEF CyclePipeline, PipelineInv, CouldAnswer, IsConverged
  <2>3. Consistent(core)'
    BY <1>1, <2>1, ConsistentNext DEF CyclePipeline
  <2>4. QED
    BY <2>2, <2>3 DEF PipelineInv
<1>2. CASE Advance
  <2>1. core \in Core
    BY DEF PipelineInv, Consistent, Flowing, Sound
  <2>2. at' \in Elements
    BY <1>2, <2>1, AdvanceKeepsElement DEF PipelineInv
  <2>3. Consistent(core')
    BY <1>2, <2>1, AdvanceIs, RetiresKeepsConsistent DEF PipelineInv
  <2>4. converged' = FALSE /\ UNCHANGED <<strict, entry, tick, answered, stalled>>
    BY <1>2 DEF Advance, AdvancePlain, AdvanceTaken, AdvanceNotTaken, AdvanceReturn,
                AdvanceExit, NextInstruction
  <2>5. Consistent(core)'
    BY <2>3, <2>4, ConsistentNext
  <2>6. QED
    BY <2>2, <2>4, <2>5 DEF PipelineInv
<1>3. CASE UNCHANGED vars
  <2>1. Consistent(core)'
    BY <1>3, ConsistentNext DEF vars, PipelineInv
  <2>2. QED
    BY <1>3, <2>1 DEF vars, PipelineInv
<1>4. QED
  BY <1>1, <1>2, <1>3 DEF Next

LEMMA SpecPipelineInv == Spec => []PipelineInv
BY InitPipelineInv, NextPipelineInv, PTL DEF Spec

(* Types.  At most one data access is under way, although each that ends   *)
(* makes the next one within the same cycle, and an instruction makes no   *)
(* more of them than it has.                                               *)
THEOREM SpecTypeOK == Spec => []TypeOK
<1>1. PipelineInv => TypeOK
  <2> SUFFICES ASSUME PipelineInv PROVE TypeOK
    OBVIOUS
  <2>1. core \in Core /\ Waits(core) /\ Counted(core)
    BY DEF PipelineInv, Consistent, Flowing, Sound
  <2>2. core.dataIds \in {{}} \cup {{id} : id \in AccessIds}
    BY <2>1 DEF Waits, Core
  <2>3. /\ {core.stallMemory, core.interlock, core.flushed, core.accessFinished,
            core.failed, core.unentered} \subseteq BOOLEAN
        /\ core.pc \in Elements /\ core.inflight \in [Stages -> Elements]
        /\ core.times \subseteq Nat /\ core.instr \in Ports /\ core.data \in Ports
        /\ core.accessId \in AccessIds \cup {NoId} /\ core.currAccess \in Nat
        /\ core.branches \in Seq([from : Elements, taken : BOOLEAN, to : Elements])
        /\ core.returns \in Seq(Elements) /\ core.held \in [Loops -> Nat]
    BY <2>1 DEF Core, Branch
  <2>4. /\ {strict, tick, stalled, converged} \subseteq BOOLEAN
        /\ entry \in EntryPoints /\ at \in Elements /\ answered \subseteq {"instr", "data"}
    BY DEF PipelineInv
  <2>5. QED
    BY <2>1, <2>2, <2>3, <2>4, Zenon DEF TypeOK, Counted, Limited
<1>2. QED
  BY <1>1, SpecPipelineInv, PTL

(* The word that is awaited is that of the address in pc, through every    *)
(* flush and redirection (a fetch given up for another one may still be    *)
(* answered), and the data access that is awaited is the one under way, of *)
(* the instruction in the memory stage.                                    *)
THEOREM SpecPortsServePipeline == Spec => []PortsServePipeline
<1>1. PipelineInv => PortsServePipeline
  BY DEF PipelineInv, Consistent, Flowing, Fetched, Waits, PortsServePipeline
<1>2. QED
  BY <1>1, SpecPipelineInv, PTL

-----------------------------------------------------------------------------
(* The order of the instructions.                                          *)

Three(x, y, z) == (x \o y) \o z

LEMMA ThreeShifts ==
    ASSUME NEW S, NEW x \in Seq(S), NEW y \in Seq(S)
    PROVE  /\ Three(<<>>, x, y) = Three(x, <<>>, y)
           /\ Three(x, <<>>, y) = Three(x, y, <<>>)
<1>1. \A s \in Seq(S) : s \o <<>> = s /\ <<>> \o s = s
  BY ConcatEmptySeq
<1>2. x \o y \in Seq(S)
  BY ConcatProperties
<1>3. QED
  BY <1>1, <1>2 DEF Three

LEMMA ThreeAppends ==
    ASSUME NEW S, NEW x \in Seq(S), NEW y \in Seq(S), NEW e \in S
    PROVE  /\ Append(Three(x, y, <<>>), e) = Three(x, y, <<e>>)
           /\ Append(Three(x, <<>>, <<>>), e) = Three(x, <<e>>, <<>>)
<1> DEFINE o == <<e>>
<1>1. o \in Seq(S)
  OBVIOUS
<1>2. x \o y \in Seq(S)
  BY ConcatProperties
<1>3. \A s \in Seq(S) : s \o <<>> = s /\ <<>> \o s = s /\ Append(s, e) = s \o o
  BY ConcatEmptySeq, AppendIsConcat
<1> HIDE DEF o
<1>4. Append(Three(x, y, <<>>), e) = Three(x, y, o)
  BY <1>2, <1>3 DEF Three
<1>5. Append(Three(x, <<>>, <<>>), e) = Three(x, o, <<>>)
  <2>1. x \o o \in Seq(S)
    BY <1>1, ConcatProperties
  <2>2. QED
    BY <1>3, <2>1 DEF Three
<1>6. QED
  BY <1>4, <1>5 DEF o

(* The first of three sequences gives the head.                            *)
LEMMA ThreeStarts ==
    ASSUME NEW S, NEW x \in Seq(S), NEW y \in Seq(S), NEW z \in Seq(S), NEW e \in S
    PROVE  /\ Three(<<e>>, y, z) # <<>> /\ Head(Three(<<e>>, y, z)) = e
           /\ Tail(Three(<<e>>, y, z)) = Three(<<>>, y, z)
<1> DEFINE o == <<e>>
<1>1. o \in Seq(S) /\ Len(o) = 1 /\ o[1] = e /\ <<>> \in Seq(S)
  OBVIOUS
<1> HIDE DEF o
<1>8. PICK w \in Seq(S) : w = y \o z
  BY ConcatProperties
<1>9. Three(o, y, z) = o \o w
  <2>1. o \in Seq(S)
    BY <1>1
  <2>2. \A u \in Seq(S) : Three(u, y, z) = u \o (y \o z)
    BY ConcatAssociative DEF Three
  <2>3. QED
    BY <1>8, <2>1, <2>2
<1>10. /\ o \o w \in Seq(S) /\ Len(o \o w) = 1 + Len(w) /\ Len(w) \in Nat
       /\ \A i \in 1 .. 1 + Len(w) : (o \o w)[i] = IF i <= 1 THEN o[i] ELSE w[i - 1]
  <2>1. /\ o \o w \in Seq(S) /\ Len(o \o w) = Len(o) + Len(w)
        /\ \A i \in 1 .. Len(o) + Len(w) :
              (o \o w)[i] = IF i <= Len(o) THEN o[i] ELSE w[i - Len(o)]
    BY <1>1, <1>8, ConcatProperties, Zenon
  <2>2. Len(w) \in Nat
    BY <1>8, LenProperties
  <2>3. QED
    BY <1>1, <2>1, <2>2
<1>11. o \o w # <<>>
  <2>1. Len(o \o w) # 0
    BY <1>10
  <2>2. QED
    BY <2>1
<1>12. Head(o \o w) = e
  BY <1>1, <1>10, <1>11
<1>13. Tail(o \o w) = w
  <2>1. /\ Tail(o \o w) \in Seq(S) /\ Len(Tail(o \o w)) = Len(w)
        /\ \A i \in 1 .. Len(w) : Tail(o \o w)[i] = (o \o w)[i + 1]
    BY <1>10, <1>11, HeadTailProperties
  <2>2. \A i \in 1 .. Len(w) : Tail(o \o w)[i] = w[i]
    BY <1>10, <2>1
  <2>3. QED
    BY <1>8, <2>1, <2>2, SeqEqual
<1>14. QED
  BY <1>8, <1>9, <1>11, <1>12, <1>13 DEF o, Three

(* What is behind the instruction of each latch.                           *)
BehindExecute(s) == IF IsFree(s, IF_ID) THEN s.pc ELSE s.inflight[IF_ID]
BehindMemory(s) == IF IsFree(s, ID_EX) THEN BehindExecute(s) ELSE s.inflight[ID_EX]
BehindWriteBack(s) == IF IsFree(s, EX_MEM) THEN BehindMemory(s) ELSE s.inflight[EX_MEM]
BehindFinal(s) == IF IsFree(s, MEM_WB) THEN BehindWriteBack(s) ELSE s.inflight[MEM_WB]
Oldest(s) == IF IsFree(s, WB_FIN) THEN BehindFinal(s) ELSE s.inflight[WB_FIN]

(* The instruction in the memory stage if its branch has been handled.     *)
Past(s) == IF IsLoad(s.inflight[EX_MEM]) THEN None ELSE s.inflight[EX_MEM]

(* The assumptions about an instruction whose branch has been handled: b   *)
(* about the branch, and r about where it returns to.                      *)
Noted(e, b) == IF IsFlow(e, Guarded) THEN <<b>> ELSE <<>>
Came(e, b, r) == IF IsReturn(e) /\ b.taken THEN <<r>> ELSE <<>>

(* It went to y.                                                           *)
Went(e, b, r, y) ==
    /\ IsFlow(e, {"next"}) => y = Following(e)
    /\ IsFlow(e, {"jump", "call"}) => y \in TargetsOf(e, entry)
    /\ IsFlow(e, Guarded) =>
          /\ b.from = e
          /\ ~b.taken => y = Following(e) /\ IsFlow(e, {"cond", "predreturn"})
          /\ b.taken /\ ~IsReturn(e) => y = b.to /\ y \in TargetsOf(e, entry)
          /\ b.taken /\ IsReturn(e) => /\ r \in TargetsOf(e, entry)
                                       /\ y = r \/ (r = Exit /\ y = Following(Exit))

(* a is the oldest instruction, and b and r are assumed of those in the    *)
(* last three latches.                                                     *)
Order(s, a, b, r) ==
    /\ Oldest(s) = a
    /\ Went(s.inflight[WB_FIN], b[WB_FIN], r[WB_FIN], BehindFinal(s))
    /\ Went(s.inflight[MEM_WB], b[MEM_WB], r[MEM_WB], BehindWriteBack(s))
    /\ Went(Past(s), b[EX_MEM], r[EX_MEM], BehindMemory(s))
    /\ IsLoad(s.inflight[EX_MEM]) => BehindMemory(s) = Following(s.inflight[EX_MEM])
    /\ ~IsFree(s, ID_EX) => BehindExecute(s) = Following(s.inflight[ID_EX])
    /\ ~IsFree(s, IF_ID) => s.pc = Following(s.inflight[IF_ID])
    /\ s.branches = Three(Noted(s.inflight[WB_FIN], b[WB_FIN]),
                          Noted(s.inflight[MEM_WB], b[MEM_WB]), Noted(Past(s), b[EX_MEM]))
    /\ s.returns = Three(Came(s.inflight[WB_FIN], b[WB_FIN], r[WB_FIN]),
                         Came(s.inflight[MEM_WB], b[MEM_WB], r[MEM_WB]),
                         Came(Past(s), b[EX_MEM], r[EX_MEM]))

Late == {EX_MEM, MEM_WB, WB_FIN}

Ordered(s, a) ==
    \E b \in [Late -> Branch], r \in [Late -> Elements] : Order(s, a, b, r)

LEMMA NotedIs ==
    ASSUME NEW e, NEW b \in Branch, NEW r \in Elements
    PROVE  /\ Noted(e, b) \in Seq(Branch) /\ Came(e, b, r) \in Seq(Elements)
           /\ ~IsFlow(e, Guarded) => Noted(e, b) = <<>> /\ Came(e, b, r) = <<>>
<1>1. IsReturn(e) => IsFlow(e, Guarded)
  BY DEF IsReturn, IsFlow, Guarded
<1>2. QED
  BY <1>1 DEF Noted, Came

(* There is nothing to say about an empty latch.                           *)
LEMMA NoneIs ==
    /\ \A flows : ~IsFlow(None, flows)
    /\ ~IsLoad(None)
    /\ \A b, r, y : Went(None, b, r, y)
<1>1. \A flows : ~IsFlow(None, flows)
  BY ExitIs DEF IsFlow
<1>2. ~IsLoad(None)
  BY ExitIs DEF IsLoad
<1>3. QED
  BY <1>1, <1>2 DEF Went

LEMMA OrderKept ==
    ASSUME NEW s, NEW a, Ordered(s, a), NEW v, FlowKept(v, s), v.inflight = s.inflight
    PROVE  Ordered(v, a)
<1>1. PICK b \in [Late -> Branch], r \in [Late -> Elements] : Order(s, a, b, r)
  BY DEF Ordered
<1>2. /\ BehindExecute(v) = BehindExecute(s) /\ BehindMemory(v) = BehindMemory(s)
      /\ BehindWriteBack(v) = BehindWriteBack(s) /\ BehindFinal(v) = BehindFinal(s)
      /\ Oldest(v) = Oldest(s) /\ Past(v) = Past(s)
  BY DEF BehindExecute, BehindMemory, BehindWriteBack, BehindFinal, Oldest, Past, IsFree, FlowKept
<1>3. Order(v, a, b, r)
  BY <1>1, <1>2 DEF Order, IsFree, FlowKept
<1>4. QED
  BY <1>3 DEF Ordered

LEMMA WriteBackOrdered ==
    ASSUME NEW s, Sound(s), NEW a, Ordered(s, a), IsFree(s, WB_FIN)
    PROVE  Ordered(WriteBack(s), a)
<1>1. PICK b \in [Late -> Branch], r \in [Late -> Elements] : Order(s, a, b, r)
  BY DEF Ordered
<1>2. PICK v : v = WriteBack(s)
  OBVIOUS
<1>3. /\ FlowKept(v, s)
      /\ v.inflight = IF IsFree(s, MEM_WB) THEN s.inflight
                      ELSE [s.inflight EXCEPT ![WB_FIN] = s.inflight[MEM_WB], ![MEM_WB] = None]
  BY <1>2, WriteBackIs
<1>4. CASE IsFree(s, MEM_WB)
  BY <1>2, <1>3, <1>4, OrderKept
<1>5. CASE ~IsFree(s, MEM_WB)
  <2> DEFINE e == s.inflight[MEM_WB]
  <2>1. PICK c, q : /\ c = [b EXCEPT ![WB_FIN] = b[MEM_WB]]
                    /\ q = [r EXCEPT ![WB_FIN] = r[MEM_WB]]
    OBVIOUS
  <2>2. /\ c \in [Late -> Branch] /\ q \in [Late -> Elements]
        /\ c[WB_FIN] = b[MEM_WB] /\ c[MEM_WB] = b[MEM_WB] /\ c[EX_MEM] = b[EX_MEM]
        /\ q[WB_FIN] = r[MEM_WB] /\ q[MEM_WB] = r[MEM_WB] /\ q[EX_MEM] = r[EX_MEM]
        /\ \A i \in Late : b[i] \in Branch /\ r[i] \in Elements
    BY <2>1, InStages DEF Late
  <2>3. /\ v.inflight[IF_ID] = s.inflight[IF_ID] /\ v.inflight[ID_EX] = s.inflight[ID_EX]
        /\ v.inflight[EX_MEM] = s.inflight[EX_MEM] /\ v.inflight[MEM_WB] = None
        /\ v.inflight[WB_FIN] = e /\ s.inflight[WB_FIN] = None
    BY <1>3, <1>5, InStages DEF IsFree, Sound, Core
  <2>4. /\ v.pc = s.pc /\ Past(v) = Past(s)
        /\ BehindExecute(v) = BehindExecute(s) /\ BehindMemory(v) = BehindMemory(s)
        /\ BehindWriteBack(v) = BehindWriteBack(s) /\ BehindFinal(v) = BehindWriteBack(s)
        /\ Oldest(v) = e /\ Oldest(s) = e
    BY <1>3, <1>5, <2>3 DEF BehindExecute, BehindMemory, BehindWriteBack, BehindFinal, Oldest,
                            Past, IsFree, FlowKept
  <2> HIDE DEF e
  <2>5. v.branches = Three(Noted(e, c[WB_FIN]), Noted(None, c[MEM_WB]), Noted(Past(v), c[EX_MEM]))
    <3>1. s.branches = Three(Noted(None, b[WB_FIN]), Noted(e, b[MEM_WB]), Noted(Past(s), b[EX_MEM]))
      BY <1>1, <2>3 DEF Order, e
    <3>2. /\ Noted(None, b[WB_FIN]) = <<>> /\ Noted(None, c[MEM_WB]) = <<>>
          /\ Noted(e, b[MEM_WB]) \in Seq(Branch) /\ Noted(Past(s), b[EX_MEM]) \in Seq(Branch)
      BY <2>2, ExitIs, NotedIs, NoneIs DEF Late
    <3>3. \A y \in Seq(Branch), z \in Seq(Branch) : Three(<<>>, y, z) = Three(y, <<>>, z)
      BY ThreeShifts
    <3>4. QED
      BY <1>3, <2>2, <2>4, <3>1, <3>2, <3>3 DEF FlowKept
  <2>6. v.returns = Three(Came(e, c[WB_FIN], q[WB_FIN]), Came(None, c[MEM_WB], q[MEM_WB]),
                          Came(Past(v), c[EX_MEM], q[EX_MEM]))
    <3>1. s.returns = Three(Came(None, b[WB_FIN], r[WB_FIN]), Came(e, b[MEM_WB], r[MEM_WB]),
                            Came(Past(s), b[EX_MEM], r[EX_MEM]))
      BY <1>1, <2>3 DEF Order, e
    <3>2. /\ Came(None, b[WB_FIN], r[WB_FIN]) = <<>> /\ Came(None, c[MEM_WB], q[MEM_WB]) = <<>>
          /\ Came(e, b[MEM_WB], r[MEM_WB]) \in Seq(Elements)
          /\ Came(Past(s), b[EX_MEM], r[EX_MEM]) \in Seq(Elements)
      BY <2>2, ExitIs, NotedIs, NoneIs DEF Late
    <3>3. \A y \in Seq(Elements), z \in Seq(Elements) : Three(<<>>, y, z) = Three(y, <<>>, z)
      BY ThreeShifts
    <3>4. QED
      BY <1>3, <2>2, <2>4, <3>1, <3>2, <3>3 DEF FlowKept
  <2>7. Order(v, a, c, q)
    BY <1>1, <2>2, <2>3, <2>4, <2>5, <2>6, NoneIs DEF Order, IsFree, e
  <2>8. QED
    BY <1>2, <2>2, <2>7 DEF Ordered
<1>6. QED
  BY <1>4, <1>5

(* b and r have been noted of the branch e that went to y.                 *)
Notes(v, s, e, b, r, y) ==
    /\ Went(e, b, r, y)
    /\ v.branches = IF IsFlow(e, Guarded) THEN Append(s.branches, b) ELSE s.branches
    /\ v.returns = IF IsReturn(e) /\ b.taken THEN Append(s.returns, r) ELSE s.returns

(* What is noted of a branch fits where the pipeline went on.              *)
LEMMA ResolvesNotes ==
    ASSUME NEW e \in Elements, IsFlow(e, Flow \ {"next"}), NEW v, NEW s, NEW y,
           \/ \E t \in TargetsOf(e, entry) : Takes(v, s, e, t) /\ y = t
           \/ IsFlow(e, {"cond", "predreturn"}) /\ Declines(v, s, e) /\ y = Following(e)
    PROVE  \E b \in Branch, r \in Elements : Notes(v, s, e, b, r, y)
<1>1. /\ HasInstr(e.addr) /\ Code[e.addr].flow \in Flow \ {"next"} /\ ~IsFlow(e, {"next"})
      /\ IsFlow(e, {"jump", "call"}) <=> ~IsFlow(e, Guarded)
      /\ IsReturn(e) => IsFlow(e, Guarded)
  BY DEF IsFlow, IsReturn, Guarded, Flow
<1>2. ASSUME NEW t \in TargetsOf(e, entry), Takes(v, s, e, t), y = t
      PROVE  \E b \in Branch, r \in Elements : Notes(v, s, e, b, r, y)
  <2>1. PICK b : b = [from |-> e, taken |-> TRUE, to |-> IF IsReturn(e) THEN None ELSE t]
    OBVIOUS
  <2>2. t \in Elements /\ y = t
    BY <1>2, TargetsAre
  <2>3. b \in Branch /\ b.from = e /\ b.taken /\ (~IsReturn(e) => b.to = t)
    BY <2>1, <2>2, ExitIs DEF Branch
  <2>4. Went(e, b, t, y)
    BY <1>1, <1>2, <2>2, <2>3 DEF Went
  <2>5. v.branches = IF IsFlow(e, Guarded) THEN Append(s.branches, b) ELSE s.branches
    BY <1>2, <2>1 DEF Takes
  <2>6. v.returns = IF IsReturn(e) /\ b.taken THEN Append(s.returns, t) ELSE s.returns
    BY <1>2, <2>3 DEF Takes
  <2>7. QED
    BY <2>2, <2>3, <2>4, <2>5, <2>6 DEF Notes
<1>3. ASSUME Declines(v, s, e), IsFlow(e, {"cond", "predreturn"}), y = Following(e)
      PROVE  \E b \in Branch, r \in Elements : Notes(v, s, e, b, r, y)
  <2>1. PICK b : b = [from |-> e, taken |-> FALSE, to |-> None]
    OBVIOUS
  <2>2. b \in Branch /\ b.from = e /\ ~b.taken
    BY <2>1, ExitIs DEF Branch
  <2>3. IsFlow(e, Guarded)
    BY <1>3 DEF IsFlow, Guarded
  <2>4. Went(e, b, None, y)
    BY <1>1, <1>3, <2>2, <2>3 DEF Went
  <2>5. v.branches = Append(s.branches, b) /\ v.returns = s.returns
    BY <1>3, <2>1 DEF Declines
  <2>6. ~(IsReturn(e) /\ b.taken)
    BY <2>2
  <2>7. Notes(v, s, e, b, None, y)
    BY <2>3, <2>4, <2>5, <2>6 DEF Notes
  <2>8. QED
    BY <2>2, <2>7, ExitIs
<1>4. QED
  BY <1>2, <1>3

(* A state in which the instruction of the memory stage went on: what is   *)
(* left to show is about that instruction.                                 *)
LEMMA MemoryLeavesOrdered ==
    ASSUME NEW s, Sound(s), Placed(s), Stops(s), NEW a, Ordered(s, a),
           ~IsFree(s, EX_MEM), IsFree(s, MEM_WB), NEW v, Leaves(v, s, EX_MEM)
    PROVE  Ordered(v, a)
<1> DEFINE e == s.inflight[EX_MEM]
           n == Leaving(s, EX_MEM)
<1>1. PICK b \in [Late -> Branch], r \in [Late -> Elements] : Order(s, a, b, r)
  BY DEF Ordered
<1>2. s \in Core /\ s.inflight \in [Stages -> Elements] /\ e \in Elements /\ HasInstr(e.addr)
  BY InStages DEF Sound, Core, Placed
<1>3. /\ n.inflight = Moved(s, EX_MEM) /\ FlowKept(n, s) /\ n.inflight \in [Stages -> Elements]
      /\ n.inflight[IF_ID] = s.inflight[IF_ID] /\ n.inflight[ID_EX] = s.inflight[ID_EX]
      /\ n.inflight[EX_MEM] = None /\ n.inflight[MEM_WB] = e
      /\ n.inflight[WB_FIN] = s.inflight[WB_FIN]
  <2>1. n.inflight = Moved(s, EX_MEM) /\ FlowKept(n, s) /\ Moved(s, EX_MEM) \in [Stages -> Elements]
    BY <1>2, LeavingIs
  <2>2. QED
    BY <1>2, <2>1, InStages DEF Moved
<1>4. /\ Oldest(s) = IF IsFree(s, WB_FIN) THEN e ELSE s.inflight[WB_FIN]
      /\ BehindFinal(s) = e /\ s.inflight[MEM_WB] = None
  BY DEF Oldest, BehindFinal, BehindWriteBack, IsFree
<1>5. \A i \in Late : b[i] \in Branch /\ r[i] \in Elements
  OBVIOUS
<1> HIDE DEF n
<1>6. ASSUME v.inflight \in [Stages -> Elements],
             v.inflight[EX_MEM] = None, v.inflight[MEM_WB] = e,
             v.inflight[WB_FIN] = s.inflight[WB_FIN],
             NEW nb \in Branch, NEW nr \in Elements,
             Went(e, nb, nr, BehindMemory(v)),
             ~IsFree(v, ID_EX) => BehindExecute(v) = Following(v.inflight[ID_EX]),
             ~IsFree(v, IF_ID) => v.pc = Following(v.inflight[IF_ID]),
             v.branches = Three(Noted(s.inflight[WB_FIN], b[WB_FIN]), Noted(e, nb), <<>>),
             v.returns = Three(Came(s.inflight[WB_FIN], b[WB_FIN], r[WB_FIN]),
                               Came(e, nb, nr), <<>>)
      PROVE  Ordered(v, a)
  <2>1. PICK c, q : c = [b EXCEPT ![MEM_WB] = nb] /\ q = [r EXCEPT ![MEM_WB] = nr]
    OBVIOUS
  <2>2. /\ c \in [Late -> Branch] /\ q \in [Late -> Elements]
        /\ c[WB_FIN] = b[WB_FIN] /\ c[MEM_WB] = nb /\ q[WB_FIN] = r[WB_FIN] /\ q[MEM_WB] = nr
        /\ c[EX_MEM] \in Branch /\ q[EX_MEM] \in Elements
    BY <1>6, <2>1, InStages DEF Late
  <2>3. Past(v) = None /\ ~IsLoad(v.inflight[EX_MEM])
    BY <1>6, NoneIs DEF Past
  <2>4. Noted(Past(v), c[EX_MEM]) = <<>> /\ Came(Past(v), c[EX_MEM], q[EX_MEM]) = <<>>
    BY <2>2, <2>3, NotedIs, NoneIs
  <2>5. e # None
    BY DEF IsFree
  <2>6. /\ BehindWriteBack(v) = BehindMemory(v) /\ BehindFinal(v) = e /\ Oldest(v) = Oldest(s)
    BY <1>4, <1>6, <2>5 DEF BehindWriteBack, BehindFinal, Oldest, IsFree
  <2> HIDE DEF e
  <2>7. Order(v, a, c, q)
    BY <1>1, <1>4, <1>6, <2>2, <2>3, <2>4, <2>6, NoneIs DEF Order
  <2>8. QED
    BY <2>2, <2>7 DEF Ordered
<1>7. /\ s.branches = Three(Noted(s.inflight[WB_FIN], b[WB_FIN]), <<>>, Noted(Past(s), b[EX_MEM]))
      /\ s.returns = Three(Came(s.inflight[WB_FIN], b[WB_FIN], r[WB_FIN]), <<>>,
                           Came(Past(s), b[EX_MEM], r[EX_MEM]))
  BY <1>1, <1>4, <1>5, NotedIs, NoneIs DEF Order, Late
<1>8. /\ Noted(s.inflight[WB_FIN], b[WB_FIN]) \in Seq(Branch)
      /\ Came(s.inflight[WB_FIN], b[WB_FIN], r[WB_FIN]) \in Seq(Elements)
      /\ Noted(Past(s), b[EX_MEM]) \in Seq(Branch)
      /\ Came(Past(s), b[EX_MEM], r[EX_MEM]) \in Seq(Elements)
      /\ b[EX_MEM] \in Branch /\ r[EX_MEM] \in Elements
  BY <1>5, NotedIs DEF Late
<1>9. CASE ~(IsFlow(e, Flow \ {"next"}) /\ IsLoad(e))
  <2>1. FlowKept(v, n) /\ StagesKept(v, n)
    BY <1>9 DEF Leaves, n
  <2>2. /\ v.inflight = n.inflight /\ v.pc = s.pc /\ v.branches = s.branches /\ v.returns = s.returns
        /\ BehindMemory(v) = BehindMemory(s) /\ BehindExecute(v) = BehindExecute(s)
    BY <1>3, <2>1 DEF FlowKept, StagesKept, BehindMemory, BehindExecute, IsFree
  <2>3. Went(e, b[EX_MEM], r[EX_MEM], BehindMemory(v))
    <3>1. CASE ~IsLoad(e)
      BY <1>1, <2>2, <3>1 DEF Order, Past
    <3>2. CASE IsLoad(e)
      <4>1. ~IsFlow(e, {"jump", "call"}) /\ ~IsFlow(e, Guarded)
        BY <1>9, <3>2 DEF IsFlow, Flow, Guarded
      <4>2. QED
        BY <1>1, <2>2, <3>2, <4>1 DEF Order, Went
    <3>3. QED
      BY <3>1, <3>2
  <2>4. /\ Noted(Past(s), b[EX_MEM]) = Noted(e, b[EX_MEM])
        /\ Came(Past(s), b[EX_MEM], r[EX_MEM]) = Came(e, b[EX_MEM], r[EX_MEM])
    <3>1. CASE ~IsLoad(e)
      BY <3>1 DEF Past
    <3>2. CASE IsLoad(e)
      <4>1. ~IsFlow(e, Guarded) /\ Past(s) = None
        BY <1>9, <3>2 DEF IsFlow, Flow, Guarded, Past
      <4>2. QED
        BY <1>8, <4>1, NotedIs, NoneIs
    <3>3. QED
      BY <3>1, <3>2
  <2>5. /\ ~IsFree(v, ID_EX) => BehindExecute(v) = Following(v.inflight[ID_EX])
        /\ ~IsFree(v, IF_ID) => v.pc = Following(v.inflight[IF_ID])
    BY <1>1, <1>3, <2>2 DEF Order, IsFree
  <2>6. /\ v.branches = Three(Noted(s.inflight[WB_FIN], b[WB_FIN]), Noted(e, b[EX_MEM]), <<>>)
        /\ v.returns = Three(Came(s.inflight[WB_FIN], b[WB_FIN], r[WB_FIN]),
                             Came(e, b[EX_MEM], r[EX_MEM]), <<>>)
    BY <1>7, <1>8, <2>2, <2>4, ThreeShifts
  <2> HIDE DEF e
  <2>7. QED
    BY <1>3, <1>6, <1>8, <2>2, <2>3, <2>5, <2>6
<1>10. CASE IsFlow(e, Flow \ {"next"}) /\ IsLoad(e)
  <2>1. Resolves(v, n, e)
    BY <1>10 DEF Leaves, n
  <2>2. IsFlow(e, {"table", "return", "predreturn"})
    BY <1>10, PcLoadAssumption DEF IsFlow, IsLoad, HasInstr, Addresses
  <2>3. ~IsFlow(e, {"cond"}) /\ StopsFetch(e) /\ IsFlow(e, Guarded)
    BY <2>2 DEF IsFlow, StopsFetch, Guarded
  <2>4. IsFree(s, IF_ID) /\ IsFree(s, ID_EX) /\ s.pc = Following(e)
    <3>1. OpenStop(s, EX_MEM)
      BY <1>10, <2>3 DEF OpenStop
    <3>2. QED
      BY <3>1, InStages DEF Stops
  <2>5. v.inflight = [n.inflight EXCEPT ![IF_ID] = None]
    BY <2>1, <2>3 DEF Resolves, Flushes
  <2>6. /\ v.inflight \in [Stages -> Elements] /\ IsFree(v, IF_ID) /\ IsFree(v, ID_EX)
        /\ v.inflight[EX_MEM] = None /\ v.inflight[MEM_WB] = e
        /\ v.inflight[WB_FIN] = s.inflight[WB_FIN]
    BY <1>3, <2>4, <2>5, InStages, ExitIs DEF IsFree
  <2>7. BehindMemory(v) = v.pc
    BY <2>6 DEF BehindMemory, BehindExecute
  <2>8. \/ \E t \in TargetsOf(e, entry) : Takes(v, n, e, t) /\ BehindMemory(v) = t
        \/ /\ IsFlow(e, {"cond", "predreturn"}) /\ Declines(v, n, e)
           /\ BehindMemory(v) = Following(e)
    <3>1. \A t : Takes(v, n, e, t) => BehindMemory(v) = t
      BY <2>7 DEF Takes
    <3>2. Declines(v, n, e) => BehindMemory(v) = Following(e)
      BY <1>3, <2>4, <2>7 DEF Declines, FlowKept
    <3>3. IsFlow(e, {"predreturn"}) => IsFlow(e, {"cond", "predreturn"})
      BY DEF IsFlow
    <3>4. QED
      BY <2>1, <2>3, <3>1, <3>2, <3>3 DEF Resolves
  <2> HIDE DEF e
  <2>9. PICK nb \in Branch, nr \in Elements : Notes(v, n, e, nb, nr, BehindMemory(v))
    BY <1>2, <1>10, <2>8, ResolvesNotes
  <2>10. Past(s) = None
    BY <1>10 DEF Past, e
  <2>11. /\ Noted(Past(s), b[EX_MEM]) = <<>> /\ Came(Past(s), b[EX_MEM], r[EX_MEM]) = <<>>
    BY <1>8, <2>10, NotedIs, NoneIs
  <2>12. v.branches = Three(Noted(s.inflight[WB_FIN], b[WB_FIN]), Noted(e, nb), <<>>)
    <3>1. \A x \in Seq(Branch), d \in Branch :
             Append(Three(x, <<>>, <<>>), d) = Three(x, <<d>>, <<>>)
      BY ThreeAppends
    <3>2. v.branches = Append(s.branches, nb) /\ Noted(e, nb) = <<nb>>
      BY <1>3, <2>3, <2>9 DEF Notes, Noted, FlowKept
    <3>3. QED
      BY <1>7, <1>8, <2>9, <2>11, <3>1, <3>2
  <2>13. v.returns = Three(Came(s.inflight[WB_FIN], b[WB_FIN], r[WB_FIN]), Came(e, nb, nr), <<>>)
    <3>1. \A x \in Seq(Elements), d \in Elements :
             Append(Three(x, <<>>, <<>>), d) = Three(x, <<d>>, <<>>)
      BY ThreeAppends
    <3>2. s.returns = Three(Came(s.inflight[WB_FIN], b[WB_FIN], r[WB_FIN]), <<>>, <<>>)
      BY <1>7, <2>11
    <3>3. CASE IsReturn(e) /\ nb.taken
      <4>1. v.returns = Append(s.returns, nr) /\ Came(e, nb, nr) = <<nr>>
        BY <1>3, <2>9, <3>3 DEF Notes, Came, FlowKept
      <4>2. QED
        BY <1>8, <2>9, <3>1, <3>2, <4>1
    <3>4. CASE ~(IsReturn(e) /\ nb.taken)
      BY <1>3, <2>9, <3>2, <3>4 DEF Notes, Came, FlowKept
    <3>5. QED
      BY <3>3, <3>4
  <2>14. ~IsFree(v, ID_EX) => BehindExecute(v) = Following(v.inflight[ID_EX])
    BY <2>6
  <2>15. ~IsFree(v, IF_ID) => v.pc = Following(v.inflight[IF_ID])
    BY <2>6
  <2>16. Went(e, nb, nr, BehindMemory(v))
    BY <2>9 DEF Notes
  <2>17. QED
    BY <1>6, <2>6, <2>12, <2>13, <2>14, <2>15, <2>16
<1>11. QED
  BY <1>9, <1>10

LEMMA ExecuteLeavesOrdered ==
    ASSUME NEW s, Sound(s), Placed(s), Stops(s), NEW a, Ordered(s, a),
           ~IsFree(s, ID_EX), IsFree(s, EX_MEM), NEW v, Leaves(v, s, ID_EX)
    PROVE  Ordered(v, a)
<1> DEFINE e == s.inflight[ID_EX]
           n == Leaving(s, ID_EX)
<1>1. PICK b \in [Late -> Branch], r \in [Late -> Elements] : Order(s, a, b, r)
  BY DEF Ordered
<1>2. s \in Core /\ s.inflight \in [Stages -> Elements] /\ e \in Elements /\ HasInstr(e.addr)
  BY InStages DEF Sound, Core, Placed
<1>3. /\ n.inflight = Moved(s, ID_EX) /\ FlowKept(n, s) /\ n.inflight \in [Stages -> Elements]
      /\ n.inflight[IF_ID] = s.inflight[IF_ID] /\ n.inflight[ID_EX] = None
      /\ n.inflight[EX_MEM] = e /\ n.inflight[MEM_WB] = s.inflight[MEM_WB]
      /\ n.inflight[WB_FIN] = s.inflight[WB_FIN]
  <2>1. n.inflight = Moved(s, ID_EX) /\ FlowKept(n, s) /\ Moved(s, ID_EX) \in [Stages -> Elements]
    BY <1>2, LeavingIs
  <2>2. QED
    BY <1>2, <2>1, InStages DEF Moved
<1>4. BehindWriteBack(s) = e /\ Past(s) = None /\ BehindExecute(s) = Following(e)
  <2>1. s.inflight[EX_MEM] = None
    BY DEF IsFree
  <2>2. QED
    BY <1>1, <2>1, NoneIs DEF BehindWriteBack, BehindMemory, Past, IsFree, Order
<1>5. \A i \in Late : b[i] \in Branch /\ r[i] \in Elements
  OBVIOUS
<1> DEFINE x == Noted(s.inflight[WB_FIN], b[WB_FIN])
           y == Noted(s.inflight[MEM_WB], b[MEM_WB])
           u == Came(s.inflight[WB_FIN], b[WB_FIN], r[WB_FIN])
           w == Came(s.inflight[MEM_WB], b[MEM_WB], r[MEM_WB])
<1> HIDE DEF n
<1>6. ASSUME v.inflight \in [Stages -> Elements], v.inflight[ID_EX] = None,
             v.inflight[EX_MEM] = e, v.inflight[MEM_WB] = s.inflight[MEM_WB],
             v.inflight[WB_FIN] = s.inflight[WB_FIN],
             NEW nb \in Branch, NEW nr \in Elements,
             Went(Past(v), nb, nr, BehindMemory(v)),
             IsLoad(e) => BehindMemory(v) = Following(e),
             ~IsFree(v, IF_ID) => v.pc = Following(v.inflight[IF_ID]),
             v.branches = Three(x, y, Noted(Past(v), nb)),
             v.returns = Three(u, w, Came(Past(v), nb, nr))
      PROVE  Ordered(v, a)
  <2>1. PICK c, q : c = [b EXCEPT ![EX_MEM] = nb] /\ q = [r EXCEPT ![EX_MEM] = nr]
    OBVIOUS
  <2>2. /\ c \in [Late -> Branch] /\ q \in [Late -> Elements]
        /\ c[WB_FIN] = b[WB_FIN] /\ c[MEM_WB] = b[MEM_WB] /\ c[EX_MEM] = nb
        /\ q[WB_FIN] = r[WB_FIN] /\ q[MEM_WB] = r[MEM_WB] /\ q[EX_MEM] = nr
    BY <1>6, <2>1, InStages DEF Late
  <2>3. e # None
    BY DEF IsFree
  <2>4. /\ BehindWriteBack(v) = e /\ BehindFinal(v) = BehindFinal(s) /\ Oldest(v) = Oldest(s)
    BY <1>4, <1>6, <2>3 DEF BehindWriteBack, BehindFinal, Oldest, IsFree
  <2>5. /\ v.branches = Three(Noted(v.inflight[WB_FIN], c[WB_FIN]),
                              Noted(v.inflight[MEM_WB], c[MEM_WB]), Noted(Past(v), c[EX_MEM]))
        /\ v.returns = Three(Came(v.inflight[WB_FIN], c[WB_FIN], q[WB_FIN]),
                             Came(v.inflight[MEM_WB], c[MEM_WB], q[MEM_WB]),
                             Came(Past(v), c[EX_MEM], q[EX_MEM]))
    BY <1>6, <2>2
  <2> HIDE DEF e, x, y, u, w
  <2>6. Order(v, a, c, q)
    BY <1>1, <1>4, <1>6, <2>2, <2>4, <2>5, NoneIs DEF Order, IsFree
  <2>7. QED
    BY <2>2, <2>6 DEF Ordered
<1>7. s.branches = Three(x, y, <<>>) /\ s.returns = Three(u, w, <<>>)
  BY <1>1, <1>4, <1>5, NotedIs, NoneIs DEF Order, Late
<1>8. /\ x \in Seq(Branch) /\ y \in Seq(Branch) /\ u \in Seq(Elements) /\ w \in Seq(Elements)
      /\ b[EX_MEM] \in Branch /\ r[EX_MEM] \in Elements
  BY <1>5, NotedIs DEF Late
<1>9. BehindMemory(v) = BehindExecute(v) \/ v.inflight[ID_EX] # None
  BY DEF BehindMemory, IsFree
<1>10. CASE ~(IsFlow(e, Flow \ {"next"}) /\ ~IsLoad(e))
  <2>1. FlowKept(v, n) /\ StagesKept(v, n)
    BY <1>10, InStages DEF Leaves, n
  <2>2. /\ v.inflight = n.inflight /\ v.pc = s.pc /\ v.branches = s.branches /\ v.returns = s.returns
        /\ BehindExecute(v) = BehindExecute(s) /\ BehindMemory(v) = Following(e)
    BY <1>3, <1>4, <1>9, <2>1 DEF FlowKept, StagesKept, BehindExecute, IsFree
  <2>3. Past(v) = (IF IsLoad(e) THEN None ELSE e) /\ ~IsFlow(Past(v), Guarded)
    BY <1>3, <1>10, <2>2, NoneIs DEF Past, IsFlow, Guarded, Flow
  <2>4. Went(Past(v), b[EX_MEM], r[EX_MEM], BehindMemory(v))
    <3>1. CASE IsLoad(e)
      BY <2>3, <3>1, NoneIs
    <3>2. CASE ~IsLoad(e)
      <4>1. ~IsFlow(e, {"jump", "call"}) /\ ~IsFlow(e, Guarded)
        BY <1>10, <3>2 DEF IsFlow, Flow, Guarded
      <4>2. QED
        BY <2>2, <2>3, <3>2, <4>1 DEF Went
    <3>3. QED
      BY <3>1, <3>2
  <2>5. ~IsFree(v, IF_ID) => v.pc = Following(v.inflight[IF_ID])
    BY <1>1, <1>3, <2>2 DEF Order, IsFree
  <2>6. Noted(Past(v), b[EX_MEM]) = <<>> /\ Came(Past(v), b[EX_MEM], r[EX_MEM]) = <<>>
    BY <1>8, <2>3, NotedIs
  <2> HIDE DEF e, x, y, u, w
  <2>7. QED
    BY <1>3, <1>6, <1>7, <1>8, <2>2, <2>4, <2>5, <2>6
<1>11. CASE IsFlow(e, Flow \ {"next"}) /\ ~IsLoad(e)
  <2>1. Resolves(v, n, e)
    BY <1>11, InStages DEF Leaves, n
  <2>2. v.inflight \in {n.inflight, [n.inflight EXCEPT ![IF_ID] = None]}
    BY <2>1 DEF Resolves, Flushes, StagesKept
  <2>3. /\ v.inflight \in [Stages -> Elements] /\ v.inflight[IF_ID] \in {None, s.inflight[IF_ID]}
        /\ v.inflight[ID_EX] = None /\ v.inflight[EX_MEM] = e
        /\ v.inflight[MEM_WB] = s.inflight[MEM_WB] /\ v.inflight[WB_FIN] = s.inflight[WB_FIN]
    BY <1>3, <2>2, InStages, ExitIs
  <2>4. Flushes(v, n) => IsFree(v, IF_ID)
    BY <1>3, InStages DEF Flushes, IsFree
  <2>5. StagesKept(v, n) => v.inflight = n.inflight
    BY DEF StagesKept
  <2>6. IsFlow(e, {"predreturn"}) => s.pc = Following(e)
    <3>1. IsFlow(e, {"predreturn"}) => StopsFetch(e)
      BY DEF IsFlow, StopsFetch
    <3>2. IsFlow(e, {"predreturn"}) => OpenStop(s, ID_EX)
      BY <3>1, InStages DEF OpenStop
    <3>3. QED
      BY <3>2, InStages DEF Stops
  <2>7. \A t : Takes(v, n, e, t) /\ Flushes(v, n) => BehindMemory(v) = t
    BY <1>9, <2>3, <2>4 DEF Takes, BehindExecute
  <2>8. Declines(v, n, e) /\ StagesKept(v, n) => BehindMemory(v) = Following(e)
    BY <1>3, <1>4, <1>9, <2>3 DEF Declines, StagesKept, BehindExecute, IsFree, FlowKept
  <2>9. Declines(v, n, e) /\ Flushes(v, n) /\ IsFlow(e, {"predreturn"}) => BehindMemory(v) = Following(e)
    BY <1>3, <1>9, <2>3, <2>4, <2>6 DEF Declines, BehindExecute, FlowKept
  <2>10. ~IsFree(v, IF_ID) => v.pc = Following(v.inflight[IF_ID])
    <3>1. ASSUME Declines(v, n, e), StagesKept(v, n)
          PROVE  ~IsFree(v, IF_ID) => v.pc = Following(v.inflight[IF_ID])
      BY <1>1, <1>3, <3>1 DEF Declines, StagesKept, FlowKept, Order, IsFree
    <3>2. QED
      BY <2>1, <2>4, <3>1 DEF Resolves
  <2>11. Past(v) = e
    BY <1>11, <2>3 DEF Past
  <2>12. \/ \E t \in TargetsOf(e, entry) : Takes(v, n, e, t) /\ BehindMemory(v) = t
         \/ /\ IsFlow(e, {"cond", "predreturn"}) /\ Declines(v, n, e)
            /\ BehindMemory(v) = Following(e)
    <3>1. IsFlow(e, {"cond"}) \/ IsFlow(e, {"predreturn"}) => IsFlow(e, {"cond", "predreturn"})
      BY DEF IsFlow
    <3>2. QED
      BY <2>1, <2>7, <2>8, <2>9, <3>1 DEF Resolves
  <2> HIDE DEF e, x, y, u, w
  <2>13. PICK nb \in Branch, nr \in Elements : Notes(v, n, e, nb, nr, BehindMemory(v))
    BY <1>2, <1>11, <2>12, ResolvesNotes
  <2>14. v.branches = Three(x, y, Noted(e, nb))
    <3>1. \A p \in Seq(Branch), q \in Seq(Branch), d \in Branch :
             Append(Three(p, q, <<>>), d) = Three(p, q, <<d>>)
      BY ThreeAppends
    <3>2. CASE IsFlow(e, Guarded)
      <4>1. v.branches = Append(s.branches, nb) /\ Noted(e, nb) = <<nb>>
        BY <1>3, <2>13, <3>2 DEF Notes, Noted, FlowKept
      <4>2. QED
        BY <1>7, <1>8, <2>13, <3>1, <4>1
    <3>3. CASE ~IsFlow(e, Guarded)
      BY <1>3, <1>7, <2>13, <3>3 DEF Notes, Noted, FlowKept
    <3>4. QED
      BY <3>2, <3>3
  <2>15. v.returns = Three(u, w, Came(e, nb, nr))
    <3>1. \A p \in Seq(Elements), q \in Seq(Elements), d \in Elements :
             Append(Three(p, q, <<>>), d) = Three(p, q, <<d>>)
      BY ThreeAppends
    <3>2. CASE IsReturn(e) /\ nb.taken
      <4>1. v.returns = Append(s.returns, nr) /\ Came(e, nb, nr) = <<nr>>
        BY <1>3, <2>13, <3>2 DEF Notes, Came, FlowKept
      <4>2. QED
        BY <1>7, <1>8, <2>13, <3>1, <4>1
    <3>3. CASE ~(IsReturn(e) /\ nb.taken)
      BY <1>3, <1>7, <2>13, <3>3 DEF Notes, Came, FlowKept
    <3>4. QED
      BY <3>2, <3>3
  <2>16. Went(Past(v), nb, nr, BehindMemory(v))
    BY <2>11, <2>13 DEF Notes
  <2>17. IsLoad(e) => BehindMemory(v) = Following(e)
    BY <1>11
  <2>18. QED
    BY <1>6, <2>3, <2>10, <2>11, <2>14, <2>15, <2>16, <2>17
<1>12. QED
  BY <1>10, <1>11

(* Only a return leaves the program, and nothing falls out of its end.     *)
LEMMA GoesOut ==
    ASSUME NEW e \in Elements, HasInstr(e.addr), NEW b \in Branch, NEW r \in Elements,
           NEW x \in Elements, ~HasInstr(x.addr), x.addr <= LinkRegister, Went(e, b, r, x)
    PROVE  Went(e, b, r, Following(x))
<1>1. Code[e.addr].flow \in Flow
  BY CodeFacts DEF HasInstr
<1>2. x = Following(e) => IsFlow(e, {"jump", "table", "return"})
  <2>1. SUFFICES ASSUME x = Following(e) PROVE IsFlow(e, {"jump", "table", "return"})
    OBVIOUS
  <2>2. e.addr \in 1 .. Len(Code) /\ ~(e.addr + 1 \in 1 .. Len(Code)) /\ Len(Code) \in Nat
    <3>1. e.addr <= LinkRegister
      BY CodeFacts DEF HasInstr
    <3>2. x.addr = e.addr + 1
      BY <2>1, <3>1, FollowingIs
    <3>3. QED
      BY <3>2, CodeFacts DEF HasInstr
  <2>3. e.addr = Len(Code)
    BY <2>2
  <2>4. QED
    BY <2>3, EndAssumption DEF IsFlow
<1>3. \A t \in TargetsOf(e, entry) : IsFlow(e, Flow \ {"next"}) => HasInstr(t.addr) \/ IsReturn(e)
  BY TargetsAre
<1>4. IsFlow(e, {"next"}) \/ IsFlow(e, {"jump", "call"}) \/ IsFlow(e, Guarded)
  BY <1>1 DEF IsFlow, Flow, Guarded
<1>5. ~IsFlow(e, {"next"})
  BY <1>2 DEF Went, IsFlow
<1>6. ~IsFlow(e, {"jump", "call"})
  <2>1. IsFlow(e, {"jump", "call"}) => IsFlow(e, Flow \ {"next"}) /\ ~IsReturn(e)
    BY <1>1 DEF IsFlow, IsReturn, Flow
  <2>2. QED
    BY <1>3, <2>1 DEF Went
<1>7. IsFlow(e, Guarded) /\ IsFlow(e, Flow \ {"next"})
  BY <1>1, <1>4, <1>5, <1>6 DEF IsFlow
<1>8. b.taken
  <2>1. IsFlow(e, {"jump", "table", "return"}) => ~IsFlow(e, {"cond", "predreturn"})
    BY DEF IsFlow
  <2>2. QED
    BY <1>2, <1>7, <2>1 DEF Went
<1>9. IsReturn(e)
  BY <1>3, <1>7, <1>8 DEF Went
<1>10. x # Following(Exit)
  <2>1. LinkRegister \in Nat /\ Exit.addr = LinkRegister
    BY ExitIs, CodeFacts
  <2>2. Following(Exit).addr = LinkRegister + 1
    BY <2>1, ExitIs, FollowingIs
  <2>3. x.addr \in Nat
    BY CodeFacts DEF Elements
  <2>4. QED
    BY <2>1, <2>2, <2>3
<1>11. r \in TargetsOf(e, entry) /\ x = r
  BY <1>7, <1>8, <1>9, <1>10 DEF Went
<1>12. r = Exit
  BY <1>7, <1>11, TargetsAre
<1>13. QED
  BY <1>5, <1>6, <1>7, <1>8, <1>9, <1>11, <1>12 DEF Went

LEMMA DecodeOrdered ==
    ASSUME NEW s, Flowing(s), NEW a, HasInstr(a.addr), Ordered(s, a)
    PROVE  Ordered(Decode(s), a)
<1>1. PICK b \in [Late -> Branch], r \in [Late -> Elements] : Order(s, a, b, r)
  BY DEF Ordered
<1>2. PICK v : v = Decode(s)
  OBVIOUS
<1> DEFINE x == s.inflight[IF_ID]
<1>3. /\ FlowKept(v, s)
      /\ v.inflight = IF IsFree(s, IF_ID) \/ ~IsFree(s, ID_EX) THEN s.inflight
                      ELSE IF HasInstr(x.addr) THEN Moved(s, IF_ID)
                      ELSE [s.inflight EXCEPT ![IF_ID] = None]
  BY <1>2, DecodeIs DEF Flowing
<1>4. s.inflight \in [Stages -> Elements]
  BY DEF Flowing, Sound, Core
<1>5. \A i \in Late : b[i] \in Branch /\ r[i] \in Elements
  OBVIOUS
<1>6. CASE IsFree(s, IF_ID) \/ ~IsFree(s, ID_EX)
  BY <1>2, <1>3, <1>6, OrderKept
<1>7. CASE ~IsFree(s, IF_ID) /\ IsFree(s, ID_EX) /\ HasInstr(x.addr)
  <2>1. /\ v.inflight[IF_ID] = None /\ v.inflight[ID_EX] = x
        /\ v.inflight[EX_MEM] = s.inflight[EX_MEM] /\ v.inflight[MEM_WB] = s.inflight[MEM_WB]
        /\ v.inflight[WB_FIN] = s.inflight[WB_FIN]
    BY <1>3, <1>4, <1>7, InStages DEF Moved
  <2>2. x # None
    BY <1>7 DEF IsFree
  <2>3. /\ BehindExecute(v) = s.pc /\ BehindMemory(v) = x /\ BehindMemory(s) = x
        /\ BehindWriteBack(v) = BehindWriteBack(s) /\ BehindFinal(v) = BehindFinal(s)
        /\ Oldest(v) = Oldest(s) /\ Past(v) = Past(s)
    BY <1>3, <1>7, <2>1, <2>2 DEF BehindExecute, BehindMemory, BehindWriteBack, BehindFinal,
                                  Oldest, Past, IsFree, FlowKept
  <2>4. s.pc = Following(x)
    BY <1>1, <1>7 DEF Order
  <2> HIDE DEF x
  <2>5. Order(v, a, b, r)
    BY <1>1, <1>3, <2>1, <2>3, <2>4 DEF Order, IsFree, FlowKept
  <2>6. QED
    BY <1>2, <2>5 DEF Ordered
<1>8. CASE ~IsFree(s, IF_ID) /\ IsFree(s, ID_EX) /\ ~HasInstr(x.addr)
  <2>1. /\ v.inflight[IF_ID] = None /\ v.inflight[ID_EX] = None
        /\ v.inflight[EX_MEM] = s.inflight[EX_MEM] /\ v.inflight[MEM_WB] = s.inflight[MEM_WB]
        /\ v.inflight[WB_FIN] = s.inflight[WB_FIN]
    BY <1>3, <1>4, <1>8, InStages DEF IsFree
  <2>2. /\ x \in Elements /\ x # None /\ x.addr <= LinkRegister
        /\ \A i \in Late : IsFree(s, i) \/ HasInstr(s.inflight[i].addr)
        /\ \A i \in Late : s.inflight[i] \in Elements
    <3>1. x \in Elements /\ \A i \in Late : s.inflight[i] \in Elements
      BY <1>4, InStages DEF Late
    <3>2. x.addr \in 1 .. LinkRegister /\ LinkRegister \in Nat
      BY <1>8, InStages, CodeFacts DEF Flowing, Placed
    <3>3. \A i \in Late : i \in Stages \ {IF_ID}
      BY InStages DEF Late
    <3>4. \A i \in Late : IsFree(s, i) \/ HasInstr(s.inflight[i].addr)
      BY <3>3 DEF Flowing, Placed
    <3>5. x # None
      BY <1>8 DEF IsFree
    <3>6. QED
      BY <3>1, <3>2, <3>4, <3>5
  <2>3. s.pc = Following(x)
    BY <1>1, <1>8 DEF Order
  <2>4. BehindMemory(s) = x /\ BehindMemory(v) = Following(x) /\ Past(v) = Past(s)
    BY <1>3, <1>8, <2>1, <2>2, <2>3 DEF BehindMemory, BehindExecute, Past, IsFree, FlowKept
  <2>5. /\ BehindWriteBack(s) = IF IsFree(s, EX_MEM) THEN x ELSE s.inflight[EX_MEM]
        /\ BehindWriteBack(v) = IF IsFree(s, EX_MEM) THEN Following(x) ELSE s.inflight[EX_MEM]
        /\ BehindFinal(s) = IF IsFree(s, MEM_WB) THEN BehindWriteBack(s) ELSE s.inflight[MEM_WB]
        /\ BehindFinal(v) = IF IsFree(s, MEM_WB) THEN BehindWriteBack(v) ELSE s.inflight[MEM_WB]
        /\ Oldest(s) = IF IsFree(s, WB_FIN) THEN BehindFinal(s) ELSE s.inflight[WB_FIN]
        /\ Oldest(v) = IF IsFree(s, WB_FIN) THEN BehindFinal(v) ELSE s.inflight[WB_FIN]
    BY <2>1, <2>4 DEF BehindWriteBack, BehindFinal, Oldest, IsFree
  <2>6. \A i \in Late : Went(s.inflight[i], b[i], r[i], x) => Went(s.inflight[i], b[i], r[i], Following(x))
    <3>1. SUFFICES ASSUME NEW i \in Late, ~IsFree(s, i), Went(s.inflight[i], b[i], r[i], x)
                   PROVE  Went(s.inflight[i], b[i], r[i], Following(x))
      BY NoneIs DEF IsFree
    <3>2. HasInstr(s.inflight[i].addr)
      BY <2>2, <3>1
    <3> HIDE DEF x
    <3>3. QED
      BY <1>5, <1>8, <2>2, <3>1, <3>2, GoesOut
  <2>7. Went(Past(v), b[EX_MEM], r[EX_MEM], BehindMemory(v))
    <3>1. CASE IsLoad(s.inflight[EX_MEM])
      BY <2>4, <3>1, NoneIs DEF Past
    <3>2. CASE ~IsLoad(s.inflight[EX_MEM])
      BY <1>1, <2>4, <2>6, <3>2 DEF Past, Order, Late
    <3>3. QED
      BY <3>1, <3>2
  <2>8. Went(s.inflight[MEM_WB], b[MEM_WB], r[MEM_WB], BehindWriteBack(v))
    BY <1>1, <2>5, <2>6 DEF Order, Late
  <2>9. Went(s.inflight[WB_FIN], b[WB_FIN], r[WB_FIN], BehindFinal(v))
    BY <1>1, <2>5, <2>6 DEF Order, Late
  <2>10. Oldest(v) = a
    <3>1. Oldest(s) = a
      BY <1>1 DEF Order
    <3>2. x # a
      BY <1>8
    <3>3. QED
      BY <2>5, <3>1, <3>2
  <2>11. ~IsLoad(s.inflight[EX_MEM])
    <3>1. SUFFICES ASSUME IsLoad(s.inflight[EX_MEM]) PROVE FALSE
      OBVIOUS
    <3> DEFINE e == s.inflight[EX_MEM]
    <3>2. /\ x = Following(e) /\ e \in Elements /\ HasInstr(e.addr) /\ Code[e.addr].mem = "load"
          /\ ~IsFree(s, EX_MEM)
      BY <1>1, <2>2, <2>4, <3>1, NoneIs DEF Order, Late, IsLoad, IsFree
    <3>3. e.addr = Len(Code)
      <4>1. e.addr <= LinkRegister
        BY <3>2, CodeFacts DEF HasInstr
      <4>2. x.addr = e.addr + 1
        BY <3>2, <4>1, FollowingIs
      <4>3. QED
        BY <1>8, <3>2, <4>2, CodeFacts DEF HasInstr
    <3>4. Code[e.addr].flow \in {"table", "return"}
      BY <3>2, <3>3, EndAssumption, PcLoadAssumption DEF HasInstr, Addresses
    <3>5. StopsFetch(e) /\ ~s.flushed
      <4>1. StopsFetch(e)
        BY <3>2, <3>4 DEF StopsFetch, IsFlow
      <4>2. QED
        BY <1>8, <4>1 DEF Flowing, Cleared
    <3>6. OpenStop(s, EX_MEM) /\ Stops(s)
      BY <3>1, <3>2, <3>5 DEF OpenStop, Flowing
    <3>7. IsFree(s, IF_ID)
      BY <3>6, InStages DEF Stops
    <3>8. QED
      BY <1>8, <3>7
  <2>12. v.branches = s.branches /\ v.returns = s.returns
    BY <1>3 DEF FlowKept
  <2> HIDE DEF x
  <2>13. Order(v, a, b, r)
    BY <1>1, <2>1, <2>4, <2>7, <2>8, <2>9, <2>10, <2>11, <2>12 DEF Order, IsFree
  <2>14. QED
    BY <1>2, <2>13 DEF Ordered
<1>9. QED
  BY <1>6, <1>7, <1>8

LEMMA FetchOrdered ==
    ASSUME NEW s, Flowing(s), NEW a, Ordered(s, a)
    PROVE  Ordered(Fetch(s), a)
<1>1. PICK b \in [Late -> Branch], r \in [Late -> Elements] : Order(s, a, b, r)
  BY DEF Ordered
<1>2. PICK v : v = Fetch(s)
  OBVIOUS
<1>3. (FlowKept(v, s) /\ v.inflight = s.inflight) \/ Fetches(v, s)
  BY <1>2, FetchIs DEF Flowing, Restarts
<1>4. CASE FlowKept(v, s) /\ v.inflight = s.inflight
  BY <1>2, <1>4, OrderKept
<1>5. CASE Fetches(v, s)
  <2>1. s.inflight \in [Stages -> Elements] /\ s.pc # None
    BY ExitIs DEF Flowing, Sound, Core, Placed
  <2>2. /\ IsFree(s, IF_ID) /\ v.inflight[IF_ID] = s.pc /\ v.inflight[ID_EX] = s.inflight[ID_EX]
        /\ v.inflight[EX_MEM] = s.inflight[EX_MEM] /\ v.inflight[MEM_WB] = s.inflight[MEM_WB]
        /\ v.inflight[WB_FIN] = s.inflight[WB_FIN]
    BY <1>5, <2>1, InStages DEF Fetches
  <2>3. /\ BehindExecute(v) = BehindExecute(s) /\ BehindMemory(v) = BehindMemory(s)
        /\ BehindWriteBack(v) = BehindWriteBack(s) /\ BehindFinal(v) = BehindFinal(s)
        /\ Oldest(v) = Oldest(s) /\ Past(v) = Past(s)
    BY <2>1, <2>2 DEF BehindExecute, BehindMemory, BehindWriteBack, BehindFinal,
                      Oldest, Past, IsFree
  <2>4. v.pc = Following(s.pc) /\ v.branches = s.branches /\ v.returns = s.returns
    BY <1>5 DEF Fetches
  <2>5. Order(v, a, b, r)
    BY <1>1, <2>2, <2>3, <2>4 DEF Order, IsFree
  <2>6. QED
    BY <1>2, <2>5 DEF Ordered
<1>6. QED
  BY <1>3, <1>4, <1>5

(* The stages keep the order one after the other.                          *)
LEMMA CycleOrdered ==
    ASSUME NEW m, Flowing(m), ~m.flushed, Pending(m), Counted(m), IsFree(m, WB_FIN),
           NEW a, HasInstr(a.addr), Ordered(m, a), NEW s \in Cycle(m)
    PROVE  Ordered(s, a)
<1>1. PICK w, y, x, d :
         /\ w = WriteBack(m) /\ Flowing(w) /\ ~w.flushed /\ Pending(w) /\ Counted(w)
         /\ y \in MemoryStage(w) /\ Flowing(y) /\ Waits(y) /\ Counted(y)
         /\ x \in ExecuteStage(y) /\ Flowing(x) /\ Waits(x) /\ Counted(x)
         /\ d = Decode(x) /\ Flowing(d) /\ Waits(d) /\ Counted(d)
         /\ s = Fetch(d) /\ Consistent(s)
  BY CycleIs
<1>2. Ordered(w, a)
  BY <1>1, WriteBackOrdered DEF Flowing
<1>3. Ordered(y, a)
  <2>1. \/ StaysInMemory(y, w)
        \/ ~IsFree(w, EX_MEM) /\ IsFree(w, MEM_WB) /\ Leaves(y, w, EX_MEM)
    BY <1>1, MemoryStageIs DEF Flowing
  <2>2. CASE StaysInMemory(y, w)
    BY <1>2, <2>2, OrderKept DEF StaysInMemory, StagesKept
  <2>3. CASE ~IsFree(w, EX_MEM) /\ IsFree(w, MEM_WB) /\ Leaves(y, w, EX_MEM)
    <3>1. Sound(w) /\ Placed(w) /\ Stops(w)
      BY <1>1 DEF Flowing
    <3>2. QED
      BY <1>2, <2>3, <3>1, MemoryLeavesOrdered
  <2>4. QED
    BY <2>1, <2>2, <2>3
<1>4. Ordered(x, a)
  <2>1. \/ StaysInExecute(x, y)
        \/ ~IsFree(y, ID_EX) /\ IsFree(y, EX_MEM) /\ Leaves(x, y, ID_EX)
    BY <1>1, ExecuteStageIs DEF Flowing
  <2>2. CASE StaysInExecute(x, y)
    BY <1>3, <2>2, OrderKept DEF StaysInExecute, StagesKept
  <2>3. CASE ~IsFree(y, ID_EX) /\ IsFree(y, EX_MEM) /\ Leaves(x, y, ID_EX)
    <3>1. Sound(y) /\ Placed(y) /\ Stops(y)
      BY <1>1, <2>3 DEF Flowing, Cleared
    <3>2. QED
      BY <1>3, <2>3, <3>1, ExecuteLeavesOrdered
  <2>4. QED
    BY <2>1, <2>2, <2>3
<1>5. Ordered(d, a)
  BY <1>1, <1>4, DecodeOrdered
<1>6. QED
  BY <1>1, <1>5, FetchOrdered

(* A cycle starts with a free final stage, for the oldest instruction has  *)
(* left it.                                                                *)
LEMMA CycleKeepsOrder ==
    ASSUME Consistent(core), HasInstr(at.addr), Ordered(core, at), CyclePipeline
    PROVE  Ordered(core', at)
<1>1. PICK m : m = Require(CycleMemory(core, answered'), IsFree(core, WB_FIN))
  OBVIOUS
<1>2. answered' \in SUBSET CouldAnswer(core) /\ stalled' \in BOOLEAN
  BY DEF CyclePipeline
<1>3. PICK s \in (IF stalled' THEN {m} ELSE Cycle(m)) : core' = CheckConvergence(core, s)
  BY <1>1, Zenon DEF CyclePipeline
<1>4. /\ Flowing(m) /\ ~m.flushed /\ Pending(m) /\ Counted(m)
      /\ FlowKept(m, core) /\ StagesKept(m, core)
  BY <1>1, <1>2, MemoryCycles
<1>5. IsFree(core, WB_FIN)
  <2>1. Oldest(core) = at
    BY DEF Ordered, Order
  <2>2. core.inflight[WB_FIN] # at
    BY DEF CyclePipeline, IsFinal, GoesExternal
  <2>3. QED
    BY <2>1, <2>2 DEF Oldest
<1>6. Ordered(m, at) /\ IsFree(m, WB_FIN)
  BY <1>4, <1>5, OrderKept DEF StagesKept, IsFree
<1>7. Ordered(s, at) /\ s \in Core
  <2>1. CASE stalled'
    BY <1>3, <1>4, <1>6, <2>1 DEF Flowing, Sound
  <2>2. CASE ~stalled'
    <3>1. s \in Cycle(m)
      BY <1>3, <2>2
    <3>2. Consistent(s)
      BY <1>4, <3>1, CycleIs
    <3>3. QED
      BY <1>4, <1>6, <3>1, <3>2, CycleOrdered DEF Consistent, Flowing, Sound
  <2>3. QED
    BY <2>1, <2>2
<1>8. core' \in Core /\ Kept(core', s)
  BY <1>3, <1>7, CheckConvergenceIs
<1>9. QED
  BY <1>7, <1>8, OrderKept DEF Kept, StagesKept

(* What the driver goes on with is what the pipeline went on with.         *)
LEMMA AdvanceKeepsOrder ==
    ASSUME Consistent(core), HasInstr(at.addr), Ordered(core, at), Advance
    PROVE  /\ Ordered(core', at') \/ at' = Exit
           /\ \/ at' = BehindFinal(core)
              \/ at' = Exit /\ BehindFinal(core) = Following(Exit)
<1>1. PICK b \in [Late -> Branch], r \in [Late -> Elements] : Order(core, at, b, r)
  BY DEF Ordered
<1>2. /\ core \in Core /\ core.inflight \in [Stages -> Elements]
      /\ core.branches \in Seq(Branch) /\ core.returns \in Seq(Elements)
      /\ \A i \in Late : b[i] \in Branch /\ r[i] \in Elements
  BY DEF Consistent, Flowing, Sound, Core
<1>3. /\ at # Exit /\ at # None /\ core.inflight[WB_FIN] = at
  <2>1. at # Exit /\ at # None
    BY ExitIs
  <2>2. IsFinal(core, at)
    BY <2>1 DEF Advance, AdvancePlain, AdvanceTaken, AdvanceNotTaken, AdvanceReturn, AdvanceExit
  <2>3. QED
    BY <2>1, <2>2 DEF IsFinal, GoesExternal
<1> DEFINE f == b[WB_FIN]
           t == r[WB_FIN]
           y == Noted(core.inflight[MEM_WB], b[MEM_WB])
           z == Noted(Past(core), b[EX_MEM])
           v == Came(core.inflight[MEM_WB], b[MEM_WB], r[MEM_WB])
           w == Came(Past(core), b[EX_MEM], r[EX_MEM])
<1>4. /\ f \in Branch /\ t \in Elements /\ y \in Seq(Branch) /\ z \in Seq(Branch)
      /\ v \in Seq(Elements) /\ w \in Seq(Elements)
  BY <1>2, NotedIs DEF Late
<1>5. /\ Went(at, f, t, BehindFinal(core))
      /\ core.branches = Three(Noted(at, f), y, z) /\ core.returns = Three(Came(at, f, t), v, w)
  BY <1>1, <1>3 DEF Order
<1>6. /\ core'.inflight = [core.inflight EXCEPT ![WB_FIN] = None] /\ core'.pc = core.pc
  BY <1>2, <1>3, AdvanceIs DEF Retires
<1>7. ASSUME at' = BehindFinal(core), core'.branches = Three(<<>>, y, z),
             core'.returns = Three(<<>>, v, w)
      PROVE  Ordered(core', at')
  <2>1. /\ core'.inflight[IF_ID] = core.inflight[IF_ID]
        /\ core'.inflight[ID_EX] = core.inflight[ID_EX]
        /\ core'.inflight[EX_MEM] = core.inflight[EX_MEM]
        /\ core'.inflight[MEM_WB] = core.inflight[MEM_WB] /\ core'.inflight[WB_FIN] = None
    BY <1>2, <1>6, InStages
  <2>2. /\ BehindExecute(core') = BehindExecute(core) /\ BehindMemory(core') = BehindMemory(core)
        /\ BehindWriteBack(core') = BehindWriteBack(core)
        /\ BehindFinal(core') = BehindFinal(core) /\ Oldest(core') = at'
        /\ Past(core') = Past(core)
    BY <1>6, <1>7, <2>1 DEF BehindExecute, BehindMemory, BehindWriteBack, BehindFinal, Oldest,
                            Past, IsFree
  <2>3. Noted(None, f) = <<>> /\ Came(None, f, t) = <<>>
    BY <1>4, NoneIs, NotedIs
  <2>4. /\ core'.branches = Three(Noted(core'.inflight[WB_FIN], b[WB_FIN]),
                                  Noted(core'.inflight[MEM_WB], b[MEM_WB]),
                                  Noted(Past(core'), b[EX_MEM]))
        /\ core'.returns = Three(Came(core'.inflight[WB_FIN], b[WB_FIN], r[WB_FIN]),
                                 Came(core'.inflight[MEM_WB], b[MEM_WB], r[MEM_WB]),
                                 Came(Past(core'), b[EX_MEM], r[EX_MEM]))
    BY <1>7, <2>1, <2>2, <2>3
  <2> HIDE DEF f, t, y, z, v, w
  <2>5. Order(core', at', b, r)
    BY <1>1, <1>6, <2>1, <2>2, <2>4, NoneIs DEF Order, IsFree
  <2>6. QED
    BY <2>5 DEF Ordered
<1> HIDE DEF f, t, y, z, v, w
<1>8. ASSUME IsFlow(at, Guarded)
      PROVE  /\ Head(core.branches) = f /\ Tail(core.branches) = Three(<<>>, y, z)
             /\ IsReturn(at) /\ f.taken => /\ Head(core.returns) = t
                                           /\ Tail(core.returns) = Three(<<>>, v, w)
             /\ ~(IsReturn(at) /\ f.taken) => core.returns = Three(<<>>, v, w)
  <2>1. Noted(at, f) = <<f>>
    BY <1>8 DEF Noted
  <2>2. Head(core.branches) = f /\ Tail(core.branches) = Three(<<>>, y, z)
    BY <1>4, <1>5, <2>1, ThreeStarts
  <2>3. IsReturn(at) /\ f.taken => Came(at, f, t) = <<t>>
    BY DEF Came
  <2>4. ~(IsReturn(at) /\ f.taken) => Came(at, f, t) = <<>>
    BY DEF Came
  <2>5. /\ Head(Three(<<t>>, v, w)) = t /\ Tail(Three(<<t>>, v, w)) = Three(<<>>, v, w)
    BY <1>4, ThreeStarts
  <2>6. QED
    BY <1>5, <2>2, <2>3, <2>4, <2>5
<1>9. ASSUME ~IsFlow(at, Guarded)
      PROVE  core.branches = Three(<<>>, y, z) /\ core.returns = Three(<<>>, v, w)
  BY <1>4, <1>5, <1>9, NotedIs
<1>10. PICK s : s = Retired(core)
  OBVIOUS
<1>11. s \in Core /\ s.branches = core.branches /\ s.returns = core.returns
  BY <1>2, <1>10, RetiredIs
<1>12. ASSUME core.branches # <<>>
       PROVE  /\ Forgotten(s).branches = Tail(core.branches)
              /\ Forgotten(s).returns = core.returns /\ Forgotten(s) \in Core
  BY <1>11, <1>12, ForgottenIs
<1>13. CASE AdvancePlain
  <2>1. IsFlow(at, {"next", "jump", "call"}) /\ ~IsFlow(at, Guarded)
    BY <1>13 DEF AdvancePlain, IsFlow, Guarded
  <2>2. core'.branches = Three(<<>>, y, z) /\ core'.returns = Three(<<>>, v, w)
    BY <1>9, <1>10, <1>11, <1>13, <2>1 DEF AdvancePlain
  <2>3. CASE IsFlow(at, {"next"})
    BY <1>5, <1>7, <1>13, <2>2, <2>3 DEF AdvancePlain, NextInstruction, Went
  <2>4. CASE ~IsFlow(at, {"next"})
    <3>1. IsFlow(at, {"jump", "call"}) /\ Targets(at) = TargetsOf(at, entry)
      BY <2>1, <2>4 DEF IsFlow, Targets, TargetsOf
    <3>2. \A p \in Targets(at), q \in Targets(at) : p = q
      <4>1. PICK o \in DOMAIN Code : Code[at.addr].to = {o}
        BY <3>1, DirectAssumption DEF IsFlow, HasInstr, Addresses
      <4>2. Targets(at) = {[addr |-> o, ctx |-> at.ctx]} \/ Targets(at) = {[addr |-> o, ctx |-> at.addr]}
        BY <3>1, <4>1 DEF Targets, Callee, IsFlow, IsReturn
      <4>3. QED
        BY <4>2
    <3>3. at' \in Targets(at)
      BY <1>13, <2>4 DEF AdvancePlain, NextInstruction
    <3>4. BehindFinal(core) \in Targets(at)
      BY <1>5, <3>1 DEF Went
    <3>5. QED
      BY <1>7, <2>2, <3>2, <3>3, <3>4
  <2>5. QED
    BY <2>3, <2>4
<1>14. CASE AdvanceTaken
  <2>1. IsFlow(at, Guarded) /\ ~IsReturn(at) /\ core.branches # <<>>
    BY <1>14 DEF AdvanceTaken, Guarding, IsFlow, IsReturn, Guarded
  <2>2. f.taken /\ at' = f.to
    BY <1>8, <1>14, <2>1 DEF AdvanceTaken, Guarding, NextInstruction
  <2>3. core'.branches = Three(<<>>, y, z) /\ core'.returns = Three(<<>>, v, w)
    BY <1>8, <1>10, <1>12, <1>14, <2>1 DEF AdvanceTaken
  <2>4. QED
    BY <1>5, <1>7, <2>1, <2>2, <2>3 DEF Went
<1>15. CASE AdvanceNotTaken
  <2>1. IsFlow(at, Guarded) /\ core.branches # <<>>
    BY <1>15 DEF AdvanceNotTaken, Guarding, IsFlow, Guarded
  <2>2. ~f.taken /\ at' = Following(at)
    BY <1>8, <1>15, <2>1 DEF AdvanceNotTaken, Guarding, NextInstruction
  <2>3. core'.branches = Three(<<>>, y, z) /\ core'.returns = Three(<<>>, v, w)
    BY <1>8, <1>10, <1>12, <1>15, <2>1, <2>2 DEF AdvanceNotTaken
  <2>4. QED
    BY <1>5, <1>7, <2>1, <2>2, <2>3 DEF Went
<1>16. CASE AdvanceReturn
  <2>1. IsFlow(at, Guarded) /\ IsReturn(at) /\ core.branches # <<>> /\ core.returns # <<>>
    BY <1>16 DEF AdvanceReturn, Guarding, IsFlow, IsReturn, Guarded
  <2>2. f.taken /\ at' = t
    BY <1>8, <1>16, <2>1 DEF AdvanceReturn, Guarding, NextInstruction
  <2>3. \/ at' = BehindFinal(core)
        \/ at' = Exit /\ BehindFinal(core) = Following(Exit)
    BY <1>5, <2>1, <2>2 DEF Went
  <2> SUFFICES ASSUME t # Exit PROVE Ordered(core', at') /\ at' = BehindFinal(core)
    BY <2>2, <2>3
  <2>4. PICK g : g = Forgotten(s)
    OBVIOUS
  <2>5. core' = [g EXCEPT !.returns = Tail(@)]
    BY <1>8, <1>10, <1>16, <2>1, <2>2, <2>4 DEF AdvanceReturn
  <2>6. /\ g \in Core /\ g.branches = Tail(core.branches) /\ g.returns = core.returns
    BY <1>12, <2>1, <2>4
  <2>7. core'.branches = g.branches /\ core'.returns = Tail(g.returns)
    BY <2>5, <2>6 DEF Core
  <2>8. core'.branches = Three(<<>>, y, z) /\ core'.returns = Three(<<>>, v, w)
    BY <1>8, <2>1, <2>2, <2>6, <2>7
  <2>9. QED
    BY <1>7, <2>2, <2>3, <2>8
<1>17. CASE AdvanceExit
  BY <1>3, <1>17 DEF AdvanceExit
<1>18. QED
  BY <1>13, <1>14, <1>15, <1>16, <1>17 DEF Advance

(* Once the driver is at the end of the program it stays there.            *)
LEMMA AdvanceFromEnd ==
    ASSUME ~HasInstr(at.addr), Advance
    PROVE  AdvanceExit /\ ~HasInstr(at'.addr)
<1>1. AdvanceExit
  BY DEF Advance, AdvancePlain, AdvanceTaken, AdvanceNotTaken, AdvanceReturn, IsFlow, IsReturn
<1>2. at' = Done /\ ~(Done.addr \in 1 .. Len(Code))
  <2>1. Done.addr = Len(Code) + 3 /\ Len(Code) \in Nat
    BY CodeFacts DEF Done
  <2>2. QED
    BY <1>1, <2>1 DEF AdvanceExit, NextInstruction
<1>3. QED
  BY <1>1, <1>2, CodeFacts DEF HasInstr

(* As long as the driver waits for an instruction.                         *)
OrderInv == HasInstr(at.addr) => Ordered(core, at)

LEMMA OrderedNext ==
    ASSUME entry' = entry, Ordered(core', at')
    PROVE  Ordered(core, at)'
<1>1. PICK b \in [Late -> Branch], r \in [Late -> Elements] : Order(core', at', b, r)
  BY DEF Ordered
<1>2. Went(core.inflight[WB_FIN], b[WB_FIN], r[WB_FIN], BehindFinal(core))'
  <2>1. Went(core'.inflight[WB_FIN], b[WB_FIN], r[WB_FIN], BehindFinal(core'))
    BY <1>1 DEF Order
  <2>2. QED
    BY <2>1 DEF Went, TargetsOf
<1>3. Went(core.inflight[MEM_WB], b[MEM_WB], r[MEM_WB], BehindWriteBack(core))'
  <2>1. Went(core'.inflight[MEM_WB], b[MEM_WB], r[MEM_WB], BehindWriteBack(core'))
    BY <1>1 DEF Order
  <2>2. QED
    BY <2>1 DEF Went, TargetsOf
<1>4. Went(Past(core), b[EX_MEM], r[EX_MEM], BehindMemory(core))'
  <2>1. Went(Past(core'), b[EX_MEM], r[EX_MEM], BehindMemory(core'))
    BY <1>1 DEF Order
  <2>2. QED
    BY <2>1 DEF Went, TargetsOf
<1>5. Order(core, at, b, r)'
  BY <1>1, <1>2, <1>3, <1>4 DEF Order
<1>6. QED
  BY <1>5 DEF Ordered

LEMMA InitOrder == Init => OrderInv
<1> SUFFICES ASSUME Init PROVE Ordered(core, at)
  BY DEF OrderInv
<1>1. PICK c : c = [from |-> None, taken |-> FALSE, to |-> None]
  OBVIOUS
<1>2. c \in Branch
  BY <1>1, ExitIs DEF Branch
<1>3. PICK b, r : b = [i \in Late |-> c] /\ r = [i \in Late |-> None]
  OBVIOUS
<1>4. b \in [Late -> Branch] /\ r \in [Late -> Elements]
  BY <1>2, <1>3, ExitIs
<1>5. /\ \A i \in Stages : core.inflight[i] = None
      /\ core.pc = at /\ core.branches = <<>> /\ core.returns = <<>>
  BY DEF Init, InitialCore
<1>6. /\ core.inflight[IF_ID] = None /\ core.inflight[ID_EX] = None /\ core.inflight[EX_MEM] = None
      /\ core.inflight[MEM_WB] = None /\ core.inflight[WB_FIN] = None
  BY <1>5, InStages
<1>7. Past(core) = None /\ Oldest(core) = at
  BY <1>5, <1>6, NoneIs DEF Past, Oldest, BehindFinal, BehindWriteBack, BehindMemory,
                            BehindExecute, IsFree
<1>8. \A i \in Late : Noted(None, b[i]) = <<>> /\ Came(None, b[i], r[i]) = <<>>
  BY <1>4, NoneIs, NotedIs
<1>9. Three(<<>>, <<>>, <<>>) = <<>>
  BY ConcatEmptySeq DEF Three
<1>10. Order(core, at, b, r)
  BY <1>5, <1>6, <1>7, <1>8, <1>9, NoneIs DEF Order, IsFree, Late
<1>11. QED
  BY <1>4, <1>10 DEF Ordered

LEMMA NextOrder == PipelineInv /\ OrderInv /\ [Next]_vars => OrderInv'
<1> SUFFICES ASSUME PipelineInv, OrderInv, [Next]_vars, HasInstr(at'.addr)
             PROVE  Ordered(core, at)'
  BY DEF OrderInv
<1>1. entry' = entry
  BY DEF Next, vars, CyclePipeline, Advance, AdvancePlain, AdvanceTaken, AdvanceNotTaken,
         AdvanceReturn, AdvanceExit, NextInstruction
<1>2. Ordered(core', at')
  <2>1. CASE CyclePipeline
    <3>1. at' = at
      BY <2>1 DEF CyclePipeline
    <3>2. QED
      BY <2>1, <3>1, CycleKeepsOrder DEF OrderInv, PipelineInv
  <2>2. CASE Advance
    BY <2>2, AdvanceFromEnd, AdvanceKeepsOrder, ExitIs DEF OrderInv, PipelineInv
  <2>3. CASE UNCHANGED vars
    BY <2>3 DEF vars, OrderInv
  <2>4. QED
    BY <2>1, <2>2, <2>3 DEF Next
<1>3. QED
  BY <1>1, <1>2, OrderedNext

LEMMA SpecOrder == Spec => []OrderInv
BY SpecPipelineInv, InitOrder, NextOrder, PTL DEF Spec

-----------------------------------------------------------------------------
(* What the order says about the stages counted from the oldest one.       *)

LEMMA YoungerStep ==
    ASSUME NEW i \in Stages
    PROVE  Younger(i + 1) = IF IsFree(core, i) THEN Younger(i) ELSE core.inflight[i]
<1> DEFINE behind(n) == {j \in Populated : j < n}
<1>1. Populated \subseteq Nat /\ i \in Nat
  BY InStages DEF Populated, Stages
<1> DEFINE first(B) == IF B = {} THEN core.pc
                       ELSE core.inflight[CHOOSE j \in B : \A k \in B : k <= j]
<1>2. CASE IsFree(core, i)
  <2>1. behind(i + 1) = behind(i)
    BY <1>1, <1>2 DEF Populated
  <2>2. Younger(i + 1) = first(behind(i + 1)) /\ Younger(i) = first(behind(i))
    BY DEF Younger
  <2> HIDE DEF first, behind
  <2>3. QED
    BY <1>2, <2>1, <2>2
<1>3. CASE ~IsFree(core, i)
  <2>1. i \in behind(i + 1) /\ \A k \in behind(i + 1) : k <= i
    BY <1>1, <1>3 DEF Populated
  <2>2. \A j \in behind(i + 1) : (\A k \in behind(i + 1) : k <= j) => j = i
    BY <1>1, <2>1
  <2>3. (CHOOSE j \in behind(i + 1) : \A k \in behind(i + 1) : k <= j) = i
    BY <2>1, <2>2
  <2>4. QED
    BY <1>3, <2>1, <2>3 DEF Younger
<1>4. QED
  BY <1>2, <1>3

LEMMA YoungerIs ==
    /\ Younger(IF_ID) = core.pc /\ Younger(ID_EX) = BehindExecute(core)
    /\ Younger(EX_MEM) = BehindMemory(core) /\ Younger(MEM_WB) = BehindWriteBack(core)
    /\ Younger(WB_FIN) = BehindFinal(core) /\ Younger(WB_FIN + 1) = Oldest(core)
<1>1. Younger(0) = core.pc
  <2>1. {j \in Populated : j < 0} = {}
    BY InStages DEF Populated, Stages
  <2>2. QED
    BY <2>1 DEF Younger
<1>2. /\ 0 \in Stages /\ 1 \in Stages /\ 2 \in Stages /\ 3 \in Stages /\ 4 \in Stages
      /\ 0 + 1 = 1 /\ 1 + 1 = 2 /\ 2 + 1 = 3 /\ 3 + 1 = 4
  BY DEF Stages
<1>3. Younger(1) = BehindExecute(core)
  BY <1>1, <1>2, YoungerStep DEF BehindExecute, IF_ID
<1>4. Younger(2) = BehindMemory(core)
  BY <1>2, <1>3, YoungerStep DEF BehindMemory, ID_EX
<1>5. Younger(3) = BehindWriteBack(core)
  BY <1>2, <1>4, YoungerStep DEF BehindWriteBack, EX_MEM
<1>6. Younger(4) = BehindFinal(core)
  BY <1>2, <1>5, YoungerStep DEF BehindFinal, MEM_WB
<1>7. Younger(4 + 1) = Oldest(core)
  BY <1>2, <1>6, YoungerStep DEF Oldest, WB_FIN
<1>8. QED
  BY <1>1, <1>3, <1>4, <1>5, <1>6, <1>7, InStages

(* The oldest of the instructions in flight.                               *)
LEMMA OldestInFlight ==
    Populated # {} =>
        core.inflight[CHOOSE i \in Populated : \A j \in Populated : j <= i] = Oldest(core)
<1>1. {j \in Populated : j < WB_FIN + 1} = Populated
  BY DEF Populated, Stages, WB_FIN
<1>2. QED
  BY <1>1, YoungerIs DEF Younger

Count(A, i) == Cardinality({j \in A : j >= i})

LEMMA CountStep ==
    ASSUME NEW A \in SUBSET Stages, NEW i \in Stages
    PROVE  Count(A, i) = Count(A, i + 1) + (IF i \in A THEN 1 ELSE 0) /\ Count(A, i + 1) \in Nat
<1> DEFINE upper == {j \in A : j >= i + 1}
           from == {j \in A : j >= i}
<1>0. i \in Nat /\ \A j \in A : j \in Nat
  BY DEF Stages
<1>1. IsFiniteSet(upper)
  <2>1. IsFiniteSet(Stages)
    <3>1. \A a \in Int, b \in Int : IsFiniteSet(a .. b)
      BY FS_Interval
    <3>2. 0 \in Int /\ 4 \in Int
      OBVIOUS
    <3>3. QED
      BY <3>1, <3>2, Zenon DEF Stages
  <2>2. upper \in SUBSET Stages
    OBVIOUS
  <2>3. QED
    BY <2>1, <2>2, FS_Subset
<1>2. Cardinality(upper) \in Nat
  BY <1>1, FS_CardinalityType
<1>3. i \notin upper /\ \A j : j \in from <=> j \in upper \/ (i \in A /\ j = i)
  <2>1. i \notin upper
    BY <1>0
  <2>2. ASSUME NEW j \in A PROVE j >= i <=> j >= i + 1 \/ j = i
    BY <1>0
  <2>3. QED
    BY <1>0, <2>1, <2>2
<1>4. Count(A, i) = Cardinality(from) /\ Count(A, i + 1) = Cardinality(upper)
  BY DEF Count
<1> HIDE DEF upper, from
<1>5. CASE i \in A
  <2>1. from = upper \cup {i}
    BY <1>3, <1>5
  <2>2. Cardinality(upper \cup {i}) = Cardinality(upper) + 1
    BY <1>1, <1>3, FS_AddElement
  <2>3. QED
    BY <1>2, <1>4, <1>5, <2>1, <2>2
<1>6. CASE i \notin A
  <2>1. from = upper
    BY <1>3, <1>6
  <2>2. QED
    BY <1>2, <1>4, <1>6, <2>1
<1>7. QED
  BY <1>5, <1>6

(* Of a subset of the last three stages.                                   *)
LEMMA CountIs ==
    ASSUME NEW A \in SUBSET Late
    PROVE  /\ Count(A, WB_FIN) = IF WB_FIN \in A THEN 1 ELSE 0
           /\ Count(A, MEM_WB) = Count(A, WB_FIN) + (IF MEM_WB \in A THEN 1 ELSE 0)
           /\ Count(A, EX_MEM) = Count(A, MEM_WB) + (IF EX_MEM \in A THEN 1 ELSE 0)
           /\ Cardinality(A) = Count(A, EX_MEM)
<1>1. A \in SUBSET Stages /\ 2 \in Stages /\ 3 \in Stages /\ 4 \in Stages
  BY InStages DEF Late
<1>2. Count(A, 5) = 0
  <2>1. \A j \in A : j \in 0 .. 4
    BY <1>1 DEF Stages
  <2>2. {j \in A : j >= 5} = {}
    BY <2>1
  <2>3. QED
    BY <2>2, FS_EmptySet DEF Count
<1>3. /\ Count(A, 4) = Count(A, 4 + 1) + (IF 4 \in A THEN 1 ELSE 0)
      /\ Count(A, 3) = Count(A, 3 + 1) + (IF 3 \in A THEN 1 ELSE 0)
      /\ Count(A, 2) = Count(A, 2 + 1) + (IF 2 \in A THEN 1 ELSE 0)
  BY <1>1, CountStep
<1>4. {j \in A : j >= 2} = A
  <2>1. \A j \in A : j \in {2, 3, 4}
    BY InStages DEF Late
  <2>2. QED
    BY <2>1
<1>5. QED
  BY <1>2, <1>3, <1>4, InStages DEF Count

(* A sequence with an element for each stage of A, the oldest one first.   *)
Only(A, f, i) == IF i \in A THEN <<f[i]>> ELSE <<>>
InTurn(A, f) == Three(Only(A, f, WB_FIN), Only(A, f, MEM_WB), Only(A, f, EX_MEM))

LEMMA InTurnIs ==
    ASSUME NEW S, NEW A \in SUBSET Late, NEW f \in [Late -> S]
    PROVE  /\ Len(InTurn(A, f)) = Cardinality(A)
           /\ \A i \in A : InTurn(A, f)[Count(A, i)] = f[i]
<1> DEFINE x == Only(A, f, WB_FIN)
           y == Only(A, f, MEM_WB)
           z == Only(A, f, EX_MEM)
<1>1. /\ f[WB_FIN] \in S /\ f[MEM_WB] \in S /\ f[EX_MEM] \in S
  BY DEF Late
<1>2. /\ x \in Seq(S) /\ Len(x) = (IF WB_FIN \in A THEN 1 ELSE 0)
      /\ WB_FIN \in A => x[1] = f[WB_FIN]
  BY <1>1 DEF Only
<1>3. /\ y \in Seq(S) /\ Len(y) = (IF MEM_WB \in A THEN 1 ELSE 0)
      /\ MEM_WB \in A => y[1] = f[MEM_WB]
  BY <1>1 DEF Only
<1>4. /\ z \in Seq(S) /\ Len(z) = (IF EX_MEM \in A THEN 1 ELSE 0)
      /\ EX_MEM \in A => z[1] = f[EX_MEM]
  BY <1>1 DEF Only
<1>5. PICK s : s = InTurn(A, f) /\ s = Three(x, y, z)
  BY DEF InTurn
<1> HIDE DEF x, y, z
<1>6. /\ Len(s) = Len(x) + Len(y) + Len(z)
      /\ Len(x) = 1 => s[1] = x[1]
      /\ Len(y) = 1 => s[Len(x) + 1] = y[1]
      /\ Len(z) = 1 => s[Len(x) + Len(y) + 1] = z[1]
  <2>1. /\ x \in Seq(S) /\ y \in Seq(S) /\ z \in Seq(S)
        /\ Len(x) \in Nat /\ Len(y) \in Nat /\ Len(z) \in Nat
    BY <1>2, <1>3, <1>4
  <2>2. PICK u : u = x \o y
    OBVIOUS
  <2>3. /\ u \in Seq(S) /\ Len(u) = Len(x) + Len(y)
        /\ \A i \in 1 .. Len(x) + Len(y) : u[i] = IF i <= Len(x) THEN x[i] ELSE y[i - Len(x)]
    BY <2>1, <2>2, ConcatProperties, Zenon
  <2>4. s = u \o z
    BY <1>5, <2>2 DEF Three
  <2>5. /\ Len(s) = Len(u) + Len(z)
        /\ \A i \in 1 .. Len(u) + Len(z) : s[i] = IF i <= Len(u) THEN u[i] ELSE z[i - Len(u)]
    <3>1. u \in Seq(S)
      BY <2>3
    <3>2. QED
      BY <2>1, <2>4, <3>1, ConcatProperties, Zenon
  <2>6. Len(x) = 1 => s[1] = x[1]
    BY <2>1, <2>3, <2>5
  <2>7. Len(y) = 1 => s[Len(x) + 1] = y[1]
    <3>1. SUFFICES ASSUME Len(y) = 1 PROVE s[Len(x) + 1] = y[1]
      OBVIOUS
    <3>2. /\ Len(x) + 1 \in 1 .. Len(u) + Len(z) /\ Len(x) + 1 <= Len(u)
          /\ Len(x) + 1 \in 1 .. Len(x) + Len(y)
          /\ ~(Len(x) + 1 <= Len(x)) /\ (Len(x) + 1) - Len(x) = 1
      BY <2>1, <2>3, <3>1
    <3>3. QED
      BY <2>3, <2>5, <3>2
  <2>8. Len(z) = 1 => s[Len(x) + Len(y) + 1] = z[1]
    <3>1. SUFFICES ASSUME Len(z) = 1 PROVE s[Len(u) + 1] = z[1]
      BY <2>3
    <3>2. /\ Len(u) \in Nat /\ Len(u) + 1 \in 1 .. Len(u) + Len(z)
          /\ ~(Len(u) + 1 <= Len(u)) /\ (Len(u) + 1) - Len(u) = 1
      BY <2>1, <2>3, <3>1
    <3>3. QED
      BY <2>5, <3>2
  <2>9. Len(s) = Len(x) + Len(y) + Len(z)
    BY <2>3, <2>5
  <2>10. QED
    BY <2>6, <2>7, <2>8, <2>9
<1>7. /\ Count(A, WB_FIN) = Len(x) /\ Count(A, MEM_WB) = Len(x) + Len(y)
      /\ Count(A, EX_MEM) = Len(x) + Len(y) + Len(z)
      /\ Cardinality(A) = Count(A, EX_MEM)
  BY <1>2, <1>3, <1>4, CountIs
<1>8. WB_FIN \in A => s[Count(A, WB_FIN)] = f[WB_FIN]
  BY <1>2, <1>6, <1>7
<1>9. MEM_WB \in A => s[Count(A, MEM_WB)] = f[MEM_WB]
  BY <1>3, <1>6, <1>7
<1>10. EX_MEM \in A => s[Count(A, EX_MEM)] = f[EX_MEM]
  BY <1>4, <1>6, <1>7
<1>11. \A i \in A : i = WB_FIN \/ i = MEM_WB \/ i = EX_MEM
  BY DEF Late
<1>12. QED
  BY <1>5, <1>6, <1>7, <1>8, <1>9, <1>10, <1>11

(* The branches in flight that have been handled.                          *)
LEMMA AssumingIs ==
    ASSUME core.inflight \in [Stages -> Elements]
    PROVE  /\ Assuming \in SUBSET Late
           /\ WB_FIN \in Assuming <=> IsFlow(core.inflight[WB_FIN], Guarded)
           /\ MEM_WB \in Assuming <=> IsFlow(core.inflight[MEM_WB], Guarded)
           /\ EX_MEM \in Assuming <=> IsFlow(Past(core), Guarded)
           /\ IsResolved(WB_FIN) /\ IsResolved(MEM_WB)
           /\ IsResolved(EX_MEM) <=> ~IsLoad(core.inflight[EX_MEM])
           /\ ~IsResolved(ID_EX) /\ ~IsResolved(IF_ID)
<1>1. /\ IsResolved(WB_FIN) /\ IsResolved(MEM_WB)
      /\ IsResolved(EX_MEM) <=> ~IsLoad(core.inflight[EX_MEM])
      /\ ~IsResolved(ID_EX) /\ ~IsResolved(IF_ID)
  BY InStages DEF IsResolved
<1>2. \A i \in Stages : IsFlow(core.inflight[i], Guarded) => i \in Populated
  BY NoneIs DEF Populated, IsFree
<1>3. \A i \in Stages : i \in Assuming <=> IsFlow(core.inflight[i], Guarded) /\ IsResolved(i)
  BY <1>2 DEF Assuming, Populated
<1>4. Assuming \in SUBSET Late
  <2>1. \A i \in Assuming : i \in Stages /\ i # ID_EX /\ i # IF_ID
    BY <1>1 DEF Assuming, Populated
  <2>2. QED
    BY <2>1, InStages DEF Late
<1>5. IsFlow(Past(core), Guarded) <=>
         IsFlow(core.inflight[EX_MEM], Guarded) /\ ~IsLoad(core.inflight[EX_MEM])
  BY NoneIs DEF Past
<1>6. QED
  BY <1>1, <1>3, <1>4, <1>5, InStages

LEMMA OrderIsProgramOrder ==
    ASSUME Consistent(core), HasInstr(at.addr), Ordered(core, at)
    PROVE  InProgramOrder
<1>1. PICK b \in [Late -> Branch], r \in [Late -> Elements] : Order(core, at, b, r)
  BY DEF Ordered
<1>2. core.inflight \in [Stages -> Elements]
  BY DEF Consistent, Flowing, Sound, Core
<1>3. /\ Len(core.branches) = Cardinality(Assuming)
      /\ \A i \in Assuming : Assumption(i) = b[i]
  <2>1. /\ Noted(core.inflight[WB_FIN], b[WB_FIN]) = Only(Assuming, b, WB_FIN)
        /\ Noted(core.inflight[MEM_WB], b[MEM_WB]) = Only(Assuming, b, MEM_WB)
        /\ Noted(Past(core), b[EX_MEM]) = Only(Assuming, b, EX_MEM)
    BY <1>2, AssumingIs DEF Noted, Only
  <2>2. core.branches = InTurn(Assuming, b)
    BY <1>1, <2>1 DEF Order, InTurn
  <2>3. Assuming \in SUBSET Late
    BY <1>2, AssumingIs
  <2>4. /\ Len(core.branches) = Cardinality(Assuming)
        /\ \A i \in Assuming : core.branches[Count(Assuming, i)] = b[i]
    <3>1. /\ Len(InTurn(Assuming, b)) = Cardinality(Assuming)
          /\ \A i \in Assuming : InTurn(Assuming, b)[Count(Assuming, i)] = b[i]
      BY <2>3, InTurnIs, Zenon
    <3>2. QED
      BY <2>2, <3>1
  <2>5. ASSUME NEW i \in Assuming PROVE Assumption(i) = core.branches[Count(Assuming, i)]
    BY DEF Assumption, Count
  <2>6. QED
    BY <2>4, <2>5
<1>4. \A i \in Late : i \in Returning <=>
         i \in Assuming /\ IsReturn(core.inflight[i]) /\ b[i].taken
  BY <1>3 DEF Returning
<1>5. Returning \subseteq Assuming /\ Returning \in SUBSET Late
  BY <1>2, AssumingIs DEF Returning
<1>6. /\ Len(core.returns) = Cardinality(Returning)
      /\ \A i \in Returning : core.returns[Count(Returning, i)] = r[i]
  <2>1. \A e : IsReturn(e) => IsFlow(e, Guarded)
    BY DEF IsReturn, IsFlow, Guarded
  <2>2. WB_FIN \in Late /\ MEM_WB \in Late /\ EX_MEM \in Late
    BY DEF Late
  <2>3. Came(core.inflight[WB_FIN], b[WB_FIN], r[WB_FIN]) = Only(Returning, r, WB_FIN)
    BY <1>2, <1>4, <2>1, <2>2, AssumingIs DEF Came, Only
  <2>4. Came(core.inflight[MEM_WB], b[MEM_WB], r[MEM_WB]) = Only(Returning, r, MEM_WB)
    BY <1>2, <1>4, <2>1, <2>2, AssumingIs DEF Came, Only
  <2>5. Came(Past(core), b[EX_MEM], r[EX_MEM]) = Only(Returning, r, EX_MEM)
    <3>1. IsReturn(Past(core)) <=>
             IsReturn(core.inflight[EX_MEM]) /\ ~IsLoad(core.inflight[EX_MEM])
      BY NoneIs DEF Past, IsReturn
    <3>2. EX_MEM \in Returning <=> IsReturn(Past(core)) /\ b[EX_MEM].taken
      <4>1. EX_MEM \in Assuming <=> IsFlow(Past(core), Guarded)
        BY <1>2, AssumingIs
      <4>2. IsFlow(Past(core), Guarded) => ~IsLoad(core.inflight[EX_MEM])
        BY NoneIs DEF Past
      <4>3. QED
        BY <1>4, <2>1, <2>2, <3>1, <4>1, <4>2
    <3>3. QED
      BY <3>2 DEF Came, Only
  <2>6. core.returns = InTurn(Returning, r)
    BY <1>1, <2>3, <2>4, <2>5 DEF Order, InTurn
  <2>7. /\ Len(InTurn(Returning, r)) = Cardinality(Returning)
        /\ \A i \in Returning : InTurn(Returning, r)[Count(Returning, i)] = r[i]
    BY <1>5, InTurnIs, Zenon
  <2>8. QED
    BY <2>6, <2>7
<1>7. /\ Younger(WB_FIN + 1) = at \/ Populated # {}
      /\ Populated # {} =>
            at = core.inflight[CHOOSE i \in Populated : \A j \in Populated : j <= i]
  <2>1. Oldest(core) = at
    BY <1>1 DEF Order
  <2>2. QED
    BY <2>1, YoungerIs, OldestInFlight
<1>8. \A i \in Assuming : Assumption(i).from = core.inflight[i]
  <2>1. \A i \in Assuming : Assumption(i) = b[i] /\ IsFlow(core.inflight[i], Guarded)
    BY <1>3 DEF Assuming
  <2>2. WB_FIN \in Assuming => b[WB_FIN].from = core.inflight[WB_FIN]
    BY <1>1, <2>1 DEF Order, Went
  <2>3. MEM_WB \in Assuming => b[MEM_WB].from = core.inflight[MEM_WB]
    BY <1>1, <2>1 DEF Order, Went
  <2>4. EX_MEM \in Assuming => b[EX_MEM].from = core.inflight[EX_MEM]
    <3>1. EX_MEM \in Assuming => IsFlow(Past(core), Guarded) /\ Past(core) = core.inflight[EX_MEM]
      BY <1>2, AssumingIs, NoneIs DEF Past
    <3>2. QED
      BY <1>1, <3>1 DEF Order, Went
  <2>5. \A i \in Assuming : i = WB_FIN \/ i = MEM_WB \/ i = EX_MEM
    BY <1>2, AssumingIs DEF Late
  <2>6. QED
    BY <2>1, <2>2, <2>3, <2>4, <2>5
<1> DEFINE Back(to) == {to} \cup {y \in {Following(Exit)} : to = Exit}
<1> DEFINE Fits(i) ==
        LET e == core.inflight[i]
            falls == Younger(i) = Following(e)
        IN  CASE i \in Returning ->
                    LET to == core.returns[Count(Returning, i)]
                    IN  Younger(i) \in Back(to)
              [] i \in Assuming \ Returning ->
                    IF Assumption(i).taken THEN Younger(i) = Assumption(i).to ELSE falls
              [] i \notin Assuming /\ IsFlow(e, {"jump", "call"}) /\ IsResolved(i) ->
                    Younger(i) \in Targets(e)
              [] OTHER -> falls
<1>9. ASSUME NEW i \in Stages, i \notin Assuming, ~IsResolved(i),
             Younger(i) = Following(core.inflight[i])
      PROVE  Fits(i)
  BY <1>5, <1>9
<1>10. ASSUME NEW i \in Late, HasInstr(core.inflight[i].addr), IsResolved(i),
              Went(core.inflight[i], b[i], r[i], Younger(i))
       PROVE  Fits(i)
  <2> DEFINE e == core.inflight[i]
  <2>1. i \in Stages /\ i \in Populated
    BY <1>10, InStages, ExitIs DEF Late, Populated, IsFree
  <2>2. i \in Assuming <=> IsFlow(e, Guarded)
    BY <1>10, <2>1 DEF Assuming
  <2>3. CASE i \in Returning
    <3>1. IsFlow(e, Guarded) /\ b[i].taken /\ IsReturn(e)
      BY <1>4, <1>10, <2>2, <2>3
    <3>2. Younger(i) = r[i] \/ (r[i] = Exit /\ Younger(i) = Following(Exit))
      BY <1>10, <3>1 DEF Went
    <3>3. core.returns[Count(Returning, i)] = r[i]
      BY <1>6, <2>3
    <3>4. Younger(i) \in Back(r[i])
      BY <3>2
    <3> HIDE DEF Back, e
    <3>5. Younger(i) \in Back(core.returns[Count(Returning, i)])
      BY <3>3, <3>4
    <3>6. i \notin Assuming \ Returning /\ i \in Assuming
      BY <1>5, <2>3
    <3>7. QED
      BY <2>3, <3>5, <3>6, Zenon
  <2>4. CASE i \in Assuming \ Returning
    <3>1. IsFlow(e, Guarded) /\ Assumption(i) = b[i] /\ ~(b[i].taken /\ IsReturn(e))
      BY <1>3, <1>4, <1>10, <2>2, <2>4
    <3>2. IF b[i].taken THEN Younger(i) = b[i].to ELSE Younger(i) = Following(e)
      BY <1>10, <3>1 DEF Went
    <3>3. QED
      BY <2>4, <3>1, <3>2
  <2>5. CASE i \notin Assuming /\ IsFlow(e, {"jump", "call"})
    <3>1. Younger(i) \in TargetsOf(e, entry)
      BY <1>10, <2>5 DEF Went
    <3>2. Targets(e) = TargetsOf(e, entry)
      BY <2>5 DEF Targets, TargetsOf
    <3>3. QED
      BY <1>5, <1>10, <2>5, <3>1, <3>2
  <2>6. CASE i \notin Assuming /\ ~IsFlow(e, {"jump", "call"})
    <3>1. IsFlow(e, {"next"})
      BY <1>10, <2>2, <2>6, CodeFacts DEF IsFlow, HasInstr, Flow, Guarded
    <3>2. Younger(i) = Following(e)
      BY <1>10, <3>1 DEF Went
    <3>3. QED
      BY <1>5, <2>6, <3>2
  <2>7. QED
    BY <2>3, <2>4, <2>5, <2>6
<1>11. \A i \in Populated : Fits(i)
  <2> HIDE DEF Fits
  <2>1. ASSUME IF_ID \in Populated PROVE Fits(IF_ID)
    <3>1. core.pc = Following(core.inflight[IF_ID])
      BY <1>1, <2>1 DEF Order, Populated
    <3>2. IF_ID \notin Assuming /\ ~IsResolved(IF_ID)
      BY <1>2, AssumingIs DEF Assuming
    <3>3. QED
      BY <1>9, <3>1, <3>2, YoungerIs, InStages
  <2>2. ASSUME ID_EX \in Populated PROVE Fits(ID_EX)
    <3>1. BehindExecute(core) = Following(core.inflight[ID_EX])
      BY <1>1, <2>2 DEF Order, Populated
    <3>2. ID_EX \notin Assuming /\ ~IsResolved(ID_EX)
      BY <1>2, AssumingIs DEF Assuming
    <3>3. QED
      BY <1>9, <3>1, <3>2, YoungerIs, InStages
  <2>3. \A i \in Populated \cap Late : HasInstr(core.inflight[i].addr)
    <3>1. \A i \in Late : i \in Stages \ {IF_ID}
      BY InStages DEF Late
    <3>2. QED
      BY <3>1 DEF Populated, Consistent, Flowing, Placed
  <2>4. EX_MEM \in Late /\ MEM_WB \in Late /\ WB_FIN \in Late
    BY DEF Late
  <2>5. ASSUME EX_MEM \in Populated PROVE Fits(EX_MEM)
    <3>1. CASE IsLoad(core.inflight[EX_MEM])
      <4>1. BehindMemory(core) = Following(core.inflight[EX_MEM])
        BY <1>1, <3>1 DEF Order
      <4>2. EX_MEM \notin Assuming /\ ~IsResolved(EX_MEM)
        BY <1>2, <3>1, AssumingIs DEF Assuming
      <4>3. QED
        BY <1>9, <4>1, <4>2, YoungerIs, InStages
    <3>2. CASE ~IsLoad(core.inflight[EX_MEM])
      <4>1. Went(core.inflight[EX_MEM], b[EX_MEM], r[EX_MEM], Younger(EX_MEM))
        BY <1>1, <3>2, YoungerIs DEF Order, Past
      <4>2. IsResolved(EX_MEM)
        BY <1>2, <3>2, AssumingIs
      <4>3. QED
        BY <1>10, <2>3, <2>4, <2>5, <4>1, <4>2
    <3>3. QED
      BY <3>1, <3>2
  <2>6. ASSUME MEM_WB \in Populated PROVE Fits(MEM_WB)
    <3>1. /\ Went(core.inflight[MEM_WB], b[MEM_WB], r[MEM_WB], Younger(MEM_WB))
          /\ IsResolved(MEM_WB)
      BY <1>1, <1>2, AssumingIs, YoungerIs DEF Order
    <3>2. QED
      BY <1>10, <2>3, <2>4, <2>6, <3>1
  <2>7. ASSUME WB_FIN \in Populated PROVE Fits(WB_FIN)
    <3>1. /\ Went(core.inflight[WB_FIN], b[WB_FIN], r[WB_FIN], Younger(WB_FIN))
          /\ IsResolved(WB_FIN)
      BY <1>1, <1>2, AssumingIs, YoungerIs DEF Order
    <3>2. QED
      BY <1>10, <2>3, <2>4, <2>7, <3>1
  <2>8. \A i \in Populated : \/ i = IF_ID \/ i = ID_EX \/ i = EX_MEM
                             \/ i = MEM_WB \/ i = WB_FIN
    BY InStages DEF Populated
  <2>9. QED
    BY <2>1, <2>2, <2>5, <2>6, <2>7, <2>8
<1>12. QED
  BY <1>3, <1>6, <1>7, <1>8, <1>11 DEF InProgramOrder, Count

(* The instructions in flight are a path of the program that starts with   *)
(* the one the driver waits for; and the assumptions about branches and    *)
(* returns, which a state collects as its stages handle them and loses as  *)
(* instructions become final, are about that path, in its order.           *)
THEOREM SpecInProgramOrder == Spec => []InProgramOrder
<1>1. PipelineInv /\ OrderInv => InProgramOrder
  BY OrderIsProgramOrder DEF PipelineInv, OrderInv, InProgramOrder
<1>2. QED
  BY <1>1, SpecPipelineInv, SpecOrder, PTL

(* The driver finds the assumption about a branch that is final in front.  *)
LEMMA SpecAssumptionsFit == Spec => []AssumptionsFit
<1>1. PipelineInv /\ OrderInv => AssumptionsFit
  <2> SUFFICES ASSUME PipelineInv, OrderInv, IsFinal(core, at), IsFlow(at, Guarded)
               PROVE  /\ \E taken \in BOOLEAN : Guarding(core, at, taken)
                      /\ IsReturn(at) /\ Guarding(core, at, TRUE) => core.returns # <<>>
    BY DEF AssumptionsFit, IsReturn, IsFlow, Guarded
  <2>1. HasInstr(at.addr)
    BY DEF IsFlow
  <2>2. PICK b \in [Late -> Branch], r \in [Late -> Elements] : Order(core, at, b, r)
    BY <2>1 DEF OrderInv, Ordered
  <2>3. core.inflight[WB_FIN] = at
    BY <2>1 DEF IsFinal, GoesExternal
  <2> DEFINE f == b[WB_FIN]
             t == r[WB_FIN]
             y == Noted(core.inflight[MEM_WB], b[MEM_WB])
             z == Noted(Past(core), b[EX_MEM])
             v == Came(core.inflight[MEM_WB], b[MEM_WB], r[MEM_WB])
             w == Came(Past(core), b[EX_MEM], r[EX_MEM])
  <2>4. \A i \in Late : b[i] \in Branch /\ r[i] \in Elements
    OBVIOUS
  <2>5. /\ f \in Branch /\ t \in Elements /\ y \in Seq(Branch) /\ z \in Seq(Branch)
        /\ v \in Seq(Elements) /\ w \in Seq(Elements)
    BY <2>4, NotedIs DEF Late
  <2>6. /\ Went(at, f, t, BehindFinal(core))
        /\ core.branches = Three(Noted(at, f), y, z) /\ core.returns = Three(Came(at, f, t), v, w)
    BY <2>2, <2>3 DEF Order
  <2> HIDE DEF f, t, y, z, v, w
  <2>7. f.from = at /\ f.taken \in BOOLEAN /\ Noted(at, f) = <<f>>
    BY <2>5, <2>6 DEF Went, Branch, Noted
  <2>8. core.branches # <<>> /\ Head(core.branches) = f
    BY <2>5, <2>6, <2>7, ThreeStarts
  <2>9. \E taken \in BOOLEAN : Guarding(core, at, taken)
    BY <2>7, <2>8 DEF Guarding
  <2>10. ASSUME IsReturn(at), Guarding(core, at, TRUE) PROVE core.returns # <<>>
    <3>1. Came(at, f, t) = <<t>>
      BY <2>8, <2>10 DEF Guarding, Came
    <3>2. Three(<<t>>, v, w) # <<>>
      BY <2>5, ThreeStarts
    <3>3. QED
      BY <2>6, <3>1, <3>2
  <2>11. QED
    BY <2>9, <2>10
<1>2. QED
  BY <1>1, SpecPipelineInv, SpecOrder, PTL

-----------------------------------------------------------------------------
(* The end of the program.                                                 *)

(* Once the driver has left the program, only what was fetched behind its  *)
(* end is in flight, and that is not decoded.                              *)
Ended(s) ==
    /\ \A i \in Stages \ {IF_ID} : IsFree(s, i)
    /\ IsFree(s, IF_ID) \/ ~HasInstr(s.inflight[IF_ID].addr)
    /\ ~HasInstr(s.pc.addr)

EndInv == ~HasInstr(at.addr) => Ended(core)

LEMMA EndedKept ==
    ASSUME NEW s, Ended(s), NEW r, FlowKept(r, s), r.inflight = s.inflight
    PROVE  Ended(r)
BY DEF Ended, IsFree, FlowKept

(* Where an instruction leaves a stage, the older latches are moved.       *)
LEMMA LeavesStages ==
    ASSUME NEW s \in Core, NEW i \in {ID_EX, EX_MEM}, NEW r, Leaves(r, s, i)
    PROVE  /\ r.inflight[i + 1] = s.inflight[i] /\ r.inflight[i] = None
           /\ \A j \in Stages \ {IF_ID, i, i + 1} : r.inflight[j] = s.inflight[j]
<1>1. PICK n : n = Leaving(s, i)
  OBVIOUS
<1>2. n.inflight = Moved(s, i) /\ Moved(s, i) \in [Stages -> Elements]
  BY <1>1, LeavingIs
<1>3. \/ r.inflight = n.inflight
      \/ r.inflight = [n.inflight EXCEPT ![IF_ID] = None]
  BY <1>1 DEF Leaves, Resolves, Flushes, StagesKept
<1>4. \A j \in Stages \ {IF_ID} : r.inflight[j] = Moved(s, i)[j]
  BY <1>2, <1>3
<1>5. /\ Moved(s, i)[i + 1] = s.inflight[i] /\ Moved(s, i)[i] = None
      /\ \A j \in Stages \ {i, i + 1} : Moved(s, i)[j] = s.inflight[j]
  BY InStages DEF Moved, Core
<1>6. QED
  BY <1>4, <1>5, InStages

LEMMA CycleKeepsEnded ==
    ASSUME NEW m, Flowing(m), ~m.flushed, Pending(m), Counted(m), Ended(m), NEW s \in Cycle(m)
    PROVE  Ended(s)
<1>1. PICK w, y, x, d :
         /\ w = WriteBack(m) /\ Flowing(w) /\ ~w.flushed /\ Pending(w) /\ Counted(w)
         /\ y \in MemoryStage(w) /\ Flowing(y) /\ Waits(y) /\ Counted(y)
         /\ x \in ExecuteStage(y) /\ Flowing(x) /\ Waits(x) /\ Counted(x)
         /\ d = Decode(x) /\ Flowing(d) /\ Waits(d) /\ Counted(d)
         /\ s = Fetch(d) /\ Consistent(s)
  BY CycleIs
<1>2. FlowKept(w, m) /\ w.inflight = m.inflight
  <2>1. Sound(m) /\ IsFree(m, MEM_WB)
    BY InStages DEF Flowing, Ended
  <2>2. QED
    BY <1>1, <2>1, WriteBackIs
<1>3. Ended(w)
  BY <1>2, EndedKept
<1>4. y = w
  <2>1. StaysInMemory(y, w)
    BY <1>1, <1>3, MemoryStageIs, InStages DEF Flowing, Ended
  <2>2. QED
    BY <1>3, <2>1, InStages DEF StaysInMemory, Ended
<1>5. Ended(x) /\ ~x.flushed
  <2>1. StaysInExecute(x, y)
    BY <1>1, <1>3, <1>4, ExecuteStageIs, InStages DEF Flowing, Ended
  <2>2. QED
    BY <1>1, <1>3, <1>4, <2>1, EndedKept DEF StaysInExecute, StagesKept
<1>6. Ended(d) /\ ~d.flushed
  <2>1. /\ FlowKept(d, x) /\ d.flushed = x.flushed
        /\ d.inflight \in {x.inflight, [x.inflight EXCEPT ![IF_ID] = None]}
    BY <1>1, <1>5, DecodeIs DEF Flowing, Ended
  <2>2. x.inflight \in [Stages -> Elements]
    BY <1>1 DEF Flowing, Sound, Core
  <2>3. QED
    BY <1>5, <2>1, <2>2, InStages DEF Ended, IsFree, FlowKept
<1>7. CASE FlowKept(s, d) /\ s.inflight = d.inflight
  BY <1>6, <1>7, EndedKept
<1>8. CASE Fetches(s, d)
  <2>1. d.pc \in Elements /\ d.pc.addr # 0 /\ d.pc.addr <= LinkRegister
    BY <1>1, <1>8 DEF Flowing, Sound, Core, Placed, Fetches
  <2>2. Following(d.pc).addr = d.pc.addr + 1
    BY <2>1, FollowingIs
  <2>3. ~HasInstr(d.pc.addr + 1)
    BY <1>6, <2>1, CodeFacts DEF Ended, HasInstr, Elements
  <2>4. d.inflight \in [Stages -> Elements]
    BY <1>1 DEF Flowing, Sound, Core
  <2>5. QED
    BY <1>6, <1>8, <2>2, <2>3, <2>4, InStages DEF Ended, IsFree, Fetches
<1>9. QED
  <2>1. ~d.flushed => Fetched(d)
    BY <1>1 DEF Flowing
  <2>2. (FlowKept(s, d) /\ s.inflight = d.inflight) \/ Fetches(s, d)
    BY <1>1, <1>6, <2>1, FetchIs DEF Flowing
  <2>3. QED
    BY <1>7, <1>8, <2>2

(* The final stage has been cleared where the pipeline is cycled.          *)
LEMMA FinalStageFree ==
    ASSUME OrderInv, EndInv, CyclePipeline
    PROVE  IsFree(core, WB_FIN)
<1>1. CASE HasInstr(at.addr)
  <2>1. Oldest(core) = at
    BY <1>1 DEF OrderInv, Ordered, Order
  <2>2. core.inflight[WB_FIN] # at
    BY <1>1 DEF CyclePipeline, IsFinal, GoesExternal
  <2>3. QED
    BY <2>1, <2>2 DEF Oldest
<1>2. CASE ~HasInstr(at.addr)
  BY <1>2, InStages DEF EndInv, Ended
<1>3. QED
  BY <1>1, <1>2

(* The state that the memory has cycled in, and the one behind the stages. *)
LEMMA CyclePipelineIs ==
    ASSUME Consistent(core), IsFree(core, WB_FIN), CyclePipeline
    PROVE  \E m, s :
              /\ m = CycleMemory(core, answered') /\ answered' \in SUBSET CouldAnswer(core)
              /\ Flowing(m) /\ ~m.flushed /\ Pending(m) /\ Counted(m)
              /\ FlowKept(m, core) /\ StagesKept(m, core)
              /\ IF stalled' THEN s = m ELSE s \in Cycle(m)
              /\ Consistent(s)
              /\ core' = CheckConvergence(core, s) /\ core' \in Core /\ Kept(core', s)
              /\ converged' = IsConverged(core, s)
              /\ stalled' => answered' = {} /\ CouldAnswer(core) # {}
<1>1. PICK m : m = CycleMemory(core, answered')
  OBVIOUS
<1>2. m = Require(CycleMemory(core, answered'), IsFree(core, WB_FIN))
  BY <1>1 DEF Require
<1>3. /\ answered' \in SUBSET CouldAnswer(core) /\ stalled' \in BOOLEAN
      /\ stalled' => answered' = {} /\ CouldAnswer(core) # {}
  BY DEF CyclePipeline
<1>4. PICK s \in (IF stalled' THEN {m} ELSE Cycle(m)) :
         core' = CheckConvergence(core, s) /\ converged' = IsConverged(core, s)
  BY <1>2, Zenon DEF CyclePipeline
<1>5. /\ Flowing(m) /\ ~m.flushed /\ Pending(m) /\ Counted(m)
      /\ answered' = {} => Consistent(m)
      /\ FlowKept(m, core) /\ StagesKept(m, core)
  BY <1>2, <1>3, MemoryCycles
<1>6. Consistent(s) /\ (IF stalled' THEN s = m ELSE s \in Cycle(m))
  <2>1. CASE stalled'
    BY <1>3, <1>4, <1>5, <2>1
  <2>2. CASE ~stalled'
    BY <1>4, <1>5, <2>2, CycleIs
  <2>3. QED
    BY <2>1, <2>2
<1>7. core' \in Core /\ Kept(core', s)
  BY <1>4, <1>6, CheckConvergenceIs DEF Consistent, Flowing, Sound
<1>8. QED
  BY <1>1, <1>3, <1>4, <1>5, <1>6, <1>7

(* The driver leaves the program when nothing older is in flight.          *)
LEMMA NextEnd == PipelineInv /\ OrderInv /\ EndInv /\ [Next]_vars => EndInv'
<1> SUFFICES ASSUME PipelineInv, OrderInv, EndInv, [Next]_vars, ~HasInstr(at'.addr)
             PROVE  Ended(core')
  BY DEF EndInv, Ended, IsFree
<1>1. CASE CyclePipeline
  <2>1. PICK m, s :
           /\ Flowing(m) /\ ~m.flushed /\ Pending(m) /\ Counted(m)
           /\ FlowKept(m, core) /\ StagesKept(m, core)
           /\ IF stalled' THEN s = m ELSE s \in Cycle(m)
           /\ Kept(core', s)
    BY <1>1, FinalStageFree, CyclePipelineIs DEF PipelineInv
  <2>2. Ended(core)
    BY <1>1 DEF CyclePipeline, EndInv
  <2>3. Ended(m)
    BY <2>1, <2>2, EndedKept DEF StagesKept
  <2>4. Ended(s)
    BY <2>1, <2>3, CycleKeepsEnded
  <2>5. QED
    BY <2>1, <2>4, EndedKept DEF Kept, StagesKept
<1>2. CASE Advance
  <2>1. /\ core \in Core /\ core.inflight \in [Stages -> Elements] /\ Placed(core)
        /\ core.pc \in Elements
    BY DEF PipelineInv, Consistent, Flowing, Sound, Core
  <2>2. /\ core'.pc = core.pc
        /\ core'.inflight = IF at = Exit THEN core.inflight
                            ELSE [core.inflight EXCEPT ![WB_FIN] = None]
    BY <1>2, <2>1, AdvanceIs DEF Retires
  <2>3. CASE ~HasInstr(at.addr)
    <3>1. at = Exit
      BY <1>2, <2>3, AdvanceFromEnd DEF AdvanceExit
    <3>2. QED
      BY <2>2, <2>3, <3>1 DEF EndInv, Ended, IsFree
  <2>4. CASE HasInstr(at.addr)
    <3>1. ~HasInstr(BehindFinal(core).addr)
      <4>1. \/ at' = BehindFinal(core)
            \/ at' = Exit /\ BehindFinal(core) = Following(Exit)
        BY <1>2, <2>4, AdvanceKeepsOrder DEF PipelineInv, OrderInv
      <4>2. ~HasInstr(Following(Exit).addr)
        BY ExitIs, FollowingIs, CodeFacts DEF HasInstr
      <4>3. QED
        BY <4>1, <4>2
    <3>2. at # Exit
      BY <2>4, ExitIs
    <3>3. IsFree(core, MEM_WB) /\ IsFree(core, EX_MEM) /\ IsFree(core, ID_EX)
      BY <2>1, <3>1, InStages
         DEF BehindFinal, BehindWriteBack, BehindMemory, Placed
    <3>4. IF IsFree(core, IF_ID) THEN ~HasInstr(core.pc.addr)
          ELSE ~HasInstr(core.inflight[IF_ID].addr)
      BY <3>1, <3>3 DEF BehindFinal, BehindWriteBack, BehindMemory, BehindExecute
    <3>5. ~HasInstr(core.pc.addr)
      <4>1. CASE IsFree(core, IF_ID)
        BY <3>4, <4>1
      <4>2. CASE ~IsFree(core, IF_ID)
        <5>1. PICK e : e = core.inflight[IF_ID]
          OBVIOUS
        <5>2. e \in Elements /\ e.addr \in 1 .. LinkRegister /\ ~HasInstr(e.addr)
          BY <2>1, <3>4, <4>2, <5>1, InStages DEF Placed
        <5>3. core.pc = Following(e)
          BY <2>4, <4>2, <5>1 DEF OrderInv, Ordered, Order
        <5>4. core.pc.addr = e.addr + 1
          BY <5>2, <5>3, CodeFacts, FollowingIs
        <5>5. QED
          BY <5>2, <5>4, CodeFacts DEF HasInstr
      <4>3. QED
        BY <4>1, <4>2
    <3>6. QED
      BY <2>1, <2>2, <3>2, <3>3, <3>4, <3>5, InStages DEF Ended, IsFree
  <2>5. QED
    BY <2>3, <2>4
<1>3. CASE UNCHANGED vars
  BY <1>3 DEF vars, EndInv
<1>4. QED
  BY <1>1, <1>2, <1>3 DEF Next

LEMMA SpecEnd == Spec => []EndInv
<1>1. Init => EndInv
  BY CodeAssumption DEF Init, EndInv, HasInstr, Addresses
<1>2. QED
  BY <1>1, SpecPipelineInv, SpecOrder, NextEnd, PTL DEF Spec

-----------------------------------------------------------------------------
(* The assertions of the stages.                                           *)

(* Nothing is fetched behind a branch that loads the pc, so execute is     *)
(* empty where it is handled; and execution times are there whenever an    *)
(* instruction is.                                                         *)
LEMMA CycleNeverFails ==
    ASSUME NEW m, Flowing(m), ~m.flushed, Pending(m), Counted(m), Timed(m), NEW s \in Cycle(m)
    PROVE  Timed(s) /\ s.failed = m.failed
<1>1. PICK w, y, x, d :
         /\ w = WriteBack(m) /\ Flowing(w) /\ ~w.flushed /\ Pending(w) /\ Counted(w)
         /\ y \in MemoryStage(w) /\ Flowing(y) /\ Waits(y) /\ Counted(y)
         /\ x \in ExecuteStage(y) /\ Flowing(x) /\ Waits(x) /\ Counted(x)
         /\ d = Decode(x) /\ Flowing(d) /\ Waits(d) /\ Counted(d)
         /\ s = Fetch(d) /\ Consistent(s)
  BY CycleIs
<1>2. Timed(w) /\ w.failed = m.failed
  <2>1. /\ w.times = m.times /\ w.failed = m.failed
        /\ w.inflight = IF IsFree(m, MEM_WB) THEN m.inflight
                        ELSE [m.inflight EXCEPT ![WB_FIN] = m.inflight[MEM_WB],
                                                ![MEM_WB] = None]
    BY <1>1, WriteBackIs DEF Flowing, WorkKept
  <2>2. m.inflight \in [Stages -> Elements]
    BY DEF Flowing, Sound, Core
  <2>3. w.inflight[ID_EX] = m.inflight[ID_EX]
    BY <2>1, <2>2, InStages
  <2>4. QED
    BY <2>1, <2>3 DEF Timed, IsFree
<1>3. Timed(y) /\ y.failed = w.failed
  <2>1. /\ y.times = w.times
        /\ \/ StaysInMemory(y, w)
           \/ ~IsFree(w, EX_MEM) /\ IsFree(w, MEM_WB) /\ Leaves(y, w, EX_MEM)
        /\ \/ y.failed = w.failed
           \/ /\ IsFlow(w.inflight[EX_MEM], Flow \ {"next"}) /\ IsLoad(w.inflight[EX_MEM])
              /\ ~IsFree(w, ID_EX)
    BY <1>1, MemoryStageIs DEF Flowing
  <2>2. y.inflight[ID_EX] = w.inflight[ID_EX]
    <3>1. CASE StaysInMemory(y, w)
      BY <3>1 DEF StaysInMemory, StagesKept
    <3>2. CASE Leaves(y, w, EX_MEM)
      BY <1>1, <3>2, LeavesStages, InStages DEF Flowing, Sound
    <3>3. QED
      BY <2>1, <3>1, <3>2
  <2>3. y.failed = w.failed
    <3>1. SUFFICES ASSUME IsFlow(w.inflight[EX_MEM], Flow \ {"next"}),
                          IsLoad(w.inflight[EX_MEM])
                   PROVE  IsFree(w, ID_EX)
      BY <2>1
    <3>2. IsFlow(w.inflight[EX_MEM], {"table", "return", "predreturn"})
      BY <3>1, PcLoadAssumption DEF IsFlow, IsLoad, HasInstr, Addresses
    <3>3. StopsFetch(w.inflight[EX_MEM])
      BY <3>2 DEF IsFlow, StopsFetch
    <3>4. OpenStop(w, EX_MEM)
      <4>1. ~IsFree(w, EX_MEM)
        BY <3>2, NoneIs DEF IsFree
      <4>2. QED
        BY <3>1, <3>3, <4>1 DEF OpenStop
    <3>5. Stops(w)
      BY <1>1 DEF Flowing
    <3>6. QED
      BY <3>4, <3>5, InStages DEF Stops
  <2>4. QED
    BY <1>2, <2>1, <2>2, <2>3 DEF Timed, IsFree
<1>4. Timed(x) /\ x.failed = y.failed
  BY <1>1, <1>3, ExecuteStageIs DEF Flowing
<1>5. Timed(d) /\ d.failed = x.failed
  BY <1>1, <1>4, DecodeIs DEF Flowing
<1>6. Timed(s) /\ s.failed = d.failed
  <2>1. ~d.flushed => Fetched(d)
    BY <1>1 DEF Flowing
  <2>2. /\ s.failed = d.failed /\ s.times = d.times
        /\ s.inflight \in {d.inflight, [d.inflight EXCEPT ![IF_ID] = d.pc]}
    BY <1>1, <2>1, FetchIs DEF Flowing, WorkKept, Restarts, Fetches
  <2>3. d.inflight \in [Stages -> Elements]
    BY <1>1 DEF Flowing, Sound, Core
  <2>4. s.inflight[ID_EX] = d.inflight[ID_EX]
    BY <2>2, <2>3, InStages
  <2>5. QED
    BY <1>5, <2>2, <2>4 DEF Timed, IsFree
<1>7. QED
  BY <1>2, <1>3, <1>4, <1>5, <1>6

(* A pipeline in which no stage can go on before the data port answers, or *)
(* that has run empty.                                                     *)
Frozen(s) ==
    /\ IsFree(s, MEM_WB) /\ IsFree(s, WB_FIN) /\ ~s.interlock
    /\ s.stallMemory <=> ~IsFree(s, EX_MEM)
    /\ ~IsFree(s, EX_MEM) => AwaitsData(s)
    /\ ~IsFree(s, ID_EX) => ~IsFree(s, EX_MEM) /\ s.times = {0}
    /\ ~IsFree(s, IF_ID) => ~IsFree(s, ID_EX)
    /\ s.accessFinished => ~IsFree(s, IF_ID)
    /\ ~IsFinished(s.instr, s.accessId)

(* A cycle that changes the memory only leaves such a pipeline: if an      *)
(* instruction had gone on, the oldest one that did would show.            *)
LEMMA ConvergedIsFrozen ==
    ASSUME NEW c, Consistent(c), Timed(c), IsFree(c, WB_FIN),
           NEW answer \in SUBSET CouldAnswer(c), NEW m, m = CycleMemory(c, answer),
           Flowing(m), ~m.flushed, Pending(m), Counted(m), FlowKept(m, c), StagesKept(m, c),
           NEW s \in Cycle(m), IsConverged(c, s)
    PROVE  Frozen(s)
<1>1. PICK w, y, x, d :
         /\ w = WriteBack(m) /\ Flowing(w) /\ ~w.flushed /\ Pending(w) /\ Counted(w)
         /\ y \in MemoryStage(w) /\ Flowing(y) /\ Waits(y) /\ Counted(y)
         /\ x \in ExecuteStage(y) /\ Flowing(x) /\ Waits(x) /\ Counted(x)
         /\ d = Decode(x) /\ Flowing(d) /\ Waits(d) /\ Counted(d)
         /\ s = Fetch(d) /\ Consistent(s)
  BY CycleIs
<1>2. /\ s.pc = c.pc /\ s.inflight = c.inflight /\ s.times = c.times
      /\ s.accessFinished = c.accessFinished
  BY DEF IsConverged, UpToMemory
<1>3. /\ m.inflight = c.inflight /\ m.pc = c.pc /\ m.times = c.times
      /\ ~m.stallMemory /\ ~m.interlock /\ m.accessId = c.accessId
  <2>1. Sound(c) /\ Waits(c) /\ Counted(c)
    BY DEF Consistent, Flowing
  <2>2. m.times = c.times /\ ~m.stallMemory /\ ~m.interlock /\ m.accessId = c.accessId
    BY <2>1, CycleMemoryIs
  <2>3. QED
    BY <2>2 DEF FlowKept, StagesKept
<1>4. /\ c.inflight \in [Stages -> Elements] /\ w \in Core /\ y \in Core /\ x \in Core /\ d \in Core
      /\ w.inflight \in [Stages -> Elements] /\ y.inflight \in [Stages -> Elements]
      /\ x.inflight \in [Stages -> Elements] /\ d.inflight \in [Stages -> Elements]
  BY <1>1 DEF Consistent, Flowing, Sound, Core
<1>5. /\ FetchKept(w, m) /\ FlowKept(w, m) /\ WorkKept(w, m)
      /\ w.inflight = IF IsFree(m, MEM_WB) THEN m.inflight
                      ELSE [m.inflight EXCEPT ![WB_FIN] = m.inflight[MEM_WB],
                                              ![MEM_WB] = None]
  BY <1>1, WriteBackIs DEF Flowing
<1>6. /\ y.times = w.times
      /\ \/ StaysInMemory(y, w)
         \/ ~IsFree(w, EX_MEM) /\ IsFree(w, MEM_WB) /\ Leaves(y, w, EX_MEM)
  BY <1>1, MemoryStageIs DEF Flowing
<1>7. \/ StaysInExecute(x, y)
      \/ ~IsFree(y, ID_EX) /\ IsFree(y, EX_MEM) /\ Leaves(x, y, ID_EX)
  BY <1>1, ExecuteStageIs DEF Flowing
<1>8. /\ FetchKept(d, x) /\ FlowKept(d, x) /\ d.flushed = x.flushed
      /\ d.inflight = IF IsFree(x, IF_ID) \/ ~IsFree(x, ID_EX) THEN x.inflight
                      ELSE IF HasInstr(x.inflight[IF_ID].addr) THEN Moved(x, IF_ID)
                      ELSE [x.inflight EXCEPT ![IF_ID] = None]
  BY <1>1, DecodeIs DEF Flowing
<1>9. IF d.flushed THEN Restarts(s, d)
      ELSE \/ /\ FlowKept(s, d) /\ s.inflight = d.inflight
              /\ StaysInFetch(s, d) \/ (s.accessFinished /\ d.accessId # NoId)
           \/ Fetches(s, d)
  <2>1. Sound(d) /\ (~d.flushed => Fetched(d))
    BY <1>1 DEF Flowing
  <2>2. QED
    BY <1>1, <2>1, FetchIs
<1>10. \A j \in {ID_EX, EX_MEM, MEM_WB, WB_FIN} : s.inflight[j] = d.inflight[j]
  BY <1>4, <1>9, InStages DEF Restarts, Fetches
<1>11. \A j \in {EX_MEM, MEM_WB, WB_FIN} : d.inflight[j] = x.inflight[j]
  BY <1>4, <1>8, InStages DEF Moved
<1>12. \A j \in {MEM_WB, WB_FIN} : x.inflight[j] = y.inflight[j]
  BY <1>4, <1>7, LeavesStages, InStages DEF StaysInExecute, StagesKept
<1>13. y.inflight[WB_FIN] = w.inflight[WB_FIN]
  BY <1>4, <1>6, LeavesStages, InStages DEF StaysInMemory, StagesKept
<1>14. IsFree(m, MEM_WB) /\ w.inflight = c.inflight
  <2>1. w.inflight[WB_FIN] = None
    BY <1>2, <1>10, <1>11, <1>12, <1>13 DEF IsFree
  <2>2. IsFree(m, MEM_WB)
    BY <1>3, <1>4, <1>5, <2>1, InStages DEF IsFree
  <2>3. QED
    BY <1>3, <1>5, <2>2
<1>15. StaysInMemory(y, w)
  <2>1. SUFFICES ASSUME ~IsFree(w, EX_MEM), Leaves(y, w, EX_MEM) PROVE FALSE
    BY <1>6
  <2>2. y.inflight[MEM_WB] = w.inflight[EX_MEM]
    BY <1>4, <2>1, LeavesStages, InStages
  <2>3. y.inflight[MEM_WB] = None
    BY <1>2, <1>3, <1>10, <1>11, <1>12, <1>14 DEF IsFree
  <2>4. QED
    BY <2>1, <2>2, <2>3 DEF IsFree
<1>16. StaysInExecute(x, y)
  <2>1. SUFFICES ASSUME ~IsFree(y, ID_EX), IsFree(y, EX_MEM), Leaves(x, y, ID_EX) PROVE FALSE
    BY <1>7
  <2>2. x.inflight[EX_MEM] = y.inflight[ID_EX]
    BY <1>4, <2>1, LeavesStages, InStages
  <2>3. x.inflight[EX_MEM] = y.inflight[EX_MEM]
    BY <1>2, <1>10, <1>11, <1>14, <1>15 DEF StaysInMemory, StagesKept
  <2>4. QED
    BY <2>1, <2>2, <2>3 DEF IsFree
<1>17. /\ x.inflight = c.inflight /\ ~x.flushed /\ x.pc = c.pc /\ x.accessId = c.accessId
  BY <1>1, <1>3, <1>5, <1>14, <1>15, <1>16
     DEF StaysInMemory, StaysInExecute, FetchKept, FlowKept, StagesKept
<1>18. ~d.flushed /\ d.pc = c.pc /\ d.accessId = c.accessId
  BY <1>8, <1>17 DEF FetchKept, FlowKept
<1>19. ~Fetches(s, d)
  <2>1. SUFFICES ASSUME Fetches(s, d) PROVE FALSE
    OBVIOUS
  <2>2. d.pc \in Elements /\ d.pc.addr <= LinkRegister /\ d.pc.addr \in Nat
    BY <1>4, <2>1, CodeFacts DEF Core, Fetches, Elements
  <2>3. s.pc.addr = d.pc.addr + 1
    BY <2>1, <2>2, FollowingIs DEF Fetches
  <2>4. QED
    BY <1>2, <1>18, <2>2, <2>3
<1>20. StaysInFetch(s, d)
  <2>1. c.accessFinished => c.accessId = NoId
    BY DEF Consistent, Flowing, Fetched
  <2>2. QED
    BY <1>2, <1>9, <1>18, <1>19, <2>1
<1>21. IsFree(x, IF_ID) \/ ~IsFree(x, ID_EX)
  <2>1. SUFFICES ASSUME ~IsFree(x, IF_ID), IsFree(x, ID_EX) PROVE FALSE
    OBVIOUS
  <2>2. d.inflight[IF_ID] = None
    BY <1>4, <1>8, <2>1, InStages DEF Moved
  <2>3. d.inflight = x.inflight
    BY <1>2, <1>17, <1>20 DEF StaysInFetch
  <2>4. QED
    BY <2>1, <2>2, <2>3 DEF IsFree
<1>22. s = x
  <2>1. d = x
    BY <1>1, <1>21 DEF Decode
  <2>2. QED
    BY <1>20, <2>1 DEF StaysInFetch
<1>23. /\ ~y.interlock
       /\ IF IsFree(y, EX_MEM) THEN ~y.stallMemory ELSE y.stallMemory /\ AwaitsData(y)
  <2>1. ~w.interlock /\ ~w.stallMemory /\ IsFree(w, MEM_WB)
    BY <1>3, <1>5, <1>14 DEF WorkKept, IsFree
  <2>2. IsFree(y, EX_MEM) <=> IsFree(w, EX_MEM)
    BY <1>15 DEF StaysInMemory, StagesKept, IsFree
  <2>3. QED
    BY <1>15, <2>1, <2>2 DEF StaysInMemory
<1>24. /\ ~s.interlock
       /\ IF IsFree(s, EX_MEM) THEN ~s.stallMemory ELSE s.stallMemory /\ AwaitsData(s)
  BY <1>16, <1>22, <1>23 DEF StaysInExecute, StagesKept, DataKept, IsFree, AwaitsData
<1>25. ASSUME ~IsFree(s, ID_EX) PROVE ~IsFree(s, EX_MEM) /\ s.times = {0}
  <2>1. y.times = c.times /\ IsFree(y, EX_MEM) = IsFree(s, EX_MEM)
    BY <1>3, <1>5, <1>6, <1>16, <1>22 DEF WorkKept, StaysInExecute, StagesKept, IsFree
  <2>2. c.times # {} /\ IsFiniteSet(c.times) /\ c.times \in SUBSET Nat
    BY <1>2, <1>25 DEF Timed, IsFree, Consistent, Flowing, Sound, Core
  <2>3. x.times # Rest(y.times)
    BY <1>2, <1>22, <2>1, <2>2, TimeLeftIs
  <2>4. ~IsFree(y, ID_EX) /\ ~y.interlock
    BY <1>16, <1>22, <1>23, <1>25 DEF StaysInExecute, StagesKept, IsFree
  <2>5. QED
    BY <1>16, <1>22, <2>1, <2>3, <2>4 DEF StaysInExecute
<1>26. QED
  <2>1. IsFree(s, MEM_WB) /\ IsFree(s, WB_FIN)
    BY <1>2, <1>3, <1>14 DEF IsFree
  <2>2. /\ s.accessFinished => ~IsFree(s, IF_ID)
        /\ ~IsFinished(s.instr, s.accessId)
    BY <1>20 DEF StaysInFetch
  <2>3. QED
    BY <1>21, <1>22, <1>24, <1>25, <2>1, <2>2 DEF Frozen

(* What is in flight waits behind a data access, so the port is busy.      *)
LEMMA FrozenIsBusy ==
    ASSUME NEW s, Consistent(s), Frozen(s)
    PROVE  IsBusy(s.data) \/ IsEmpty(s)
<1>1. CASE IsFree(s, EX_MEM)
  BY <1>1, InStages DEF Frozen, IsEmpty
<1>2. CASE ~IsFree(s, EX_MEM)
  <2>1. AwaitsData(s) /\ Waits(s) /\ Counted(s) /\ s.currAccess \in Nat
    BY <1>2 DEF Frozen, Consistent, Flowing, Sound, Core
  <2>2. s.dataIds # {}
    <3>1. SUFFICES ASSUME s.dataIds = {} PROVE FALSE
      OBVIOUS
    <3>2. s.currAccess = Code[s.inflight[EX_MEM].addr].accesses
      BY <2>1, <3>1 DEF AwaitsData, Counted
    <3>3. QED
      BY <2>1, <3>1, <3>2 DEF AwaitsData
  <2>3. QED
    BY <2>1, <2>2 DEF Waits
<1>3. QED
  BY <1>1, <1>2

(* Where no port answers, each stage leaves it as it is.                   *)
LEMMA FrozenStays ==
    ASSUME NEW c, Consistent(c), Timed(c), Frozen(c), NEW m, m = CycleMemory(c, {}),
           Flowing(m), ~m.flushed, Pending(m), Counted(m), FlowKept(m, c), StagesKept(m, c),
           NEW s \in Cycle(m)
    PROVE  UpToMemory(s) = UpToMemory(c)
<1>1. /\ Waits(m) /\ m.dataIds = c.dataIds /\ m.currAccess = c.currAccess
      /\ m.instr.finished = c.instr.finished /\ m.accessId = c.accessId
      /\ m.accessFinished = c.accessFinished /\ m.times = c.times
      /\ ~m.stallMemory /\ ~m.interlock
  <2>1. Sound(c) /\ Waits(c) /\ Counted(c) /\ {} \in SUBSET CouldAnswer(c)
    BY DEF Consistent, Flowing
  <2>2. QED
    BY <2>1, CycleMemoryIs
<1>2. /\ m.inflight = c.inflight /\ m.pc = c.pc /\ m.branches = c.branches
      /\ m.returns = c.returns /\ m.flushed = c.flushed /\ m \in Core /\ c \in Core
      /\ Sound(m)
  BY DEF FlowKept, StagesKept, Flowing, Sound, Consistent
<1>3. PICK y, x : y \in MemoryStage(m) /\ x \in ExecuteStage(y) /\ s = Fetch(Decode(x))
  <2>1. WriteBack(m) = m
    BY <1>2 DEF WriteBack, Frozen, IsFree
  <2>2. QED
    BY <2>1 DEF Cycle
<1>4. y = [m EXCEPT !.stallMemory = c.stallMemory]
  <2>1. CASE IsFree(c, EX_MEM)
    <3>1. y = m
      BY <1>2, <1>3, <2>1 DEF MemoryStage, IsFree
    <3>2. c.stallMemory = m.stallMemory
      BY <1>1, <1>2, <2>1 DEF Frozen, Core
    <3>3. QED
      BY <1>2, <3>1, <3>2 DEF Core
  <2>2. CASE ~IsFree(c, EX_MEM)
    <3>1. c.stallMemory = TRUE
      BY <1>2, <2>2 DEF Frozen, Core
    <3>2. /\ ~IsFree(m, EX_MEM) /\ IsMemory(m.inflight[EX_MEM])
          /\ \/ m.currAccess < Code[m.inflight[EX_MEM].addr].accesses
             \/ m.dataIds # {}
      BY <1>1, <1>2, <2>2 DEF Frozen, AwaitsData, IsFree
    <3>3. PollData(m) = m
      <4>1. {id \in m.dataIds : IsFinished(m.data, id)} = {}
        BY <1>1, <1>2, NothingFinished
      <4>2. QED
        BY <4>1 DEF PollData
    <3>4. y = [m EXCEPT !.stallMemory = TRUE]
      BY <1>3, <3>2, <3>3 DEF MemoryStage
    <3>5. QED
      BY <3>1, <3>4
  <2>3. QED
    BY <2>1, <2>2
<1>5. /\ y \in Core /\ y.inflight = c.inflight /\ y.times = c.times /\ ~y.interlock
      /\ y.stallMemory = c.stallMemory /\ y.instr = m.instr /\ y.accessId = c.accessId
      /\ y.accessFinished = c.accessFinished /\ y.currAccess = c.currAccess
      /\ y.pc = c.pc /\ y.branches = c.branches /\ y.returns = c.returns
      /\ y.flushed = c.flushed
  BY <1>1, <1>2, <1>4 DEF Core
<1>6. x = y
  <2>1. CASE IsFree(c, ID_EX)
    <3>1. IsFree(y, ID_EX) /\ y.times = {}
      BY <1>5, <2>1 DEF Timed, IsFree
    <3>2. x = Require(y, TRUE)
      BY <1>3, <3>1 DEF ExecuteStage
    <3>3. QED
      BY <3>2 DEF Require
  <2>2. CASE ~IsFree(c, ID_EX)
    <3>1. ~IsFree(y, ID_EX) /\ ~IsFree(y, EX_MEM) /\ y.times = {0}
      BY <1>5, <2>2 DEF Frozen, IsFree
    <3>2. {u \in y.times : u > 1} = {}
      BY <3>1
    <3>3. x = [y EXCEPT !.times = {0}]
      BY <1>3, <1>5, <3>1, <3>2 DEF ExecuteStage
    <3>4. QED
      BY <1>5, <3>1, <3>3 DEF Core
  <2>3. QED
    BY <2>1, <2>2
<1>7. Decode(x) = x
  BY <1>5, <1>6 DEF Decode, Frozen, IsFree
<1>8. s = x
  <2>1. ~x.flushed /\ ~IsFinished(x.instr, x.accessId)
    BY <1>1, <1>5, <1>6 DEF Frozen, IsFinished, Consistent
  <2>2. ~IsFree(x, IF_ID) \/ ~x.accessFinished
    BY <1>5, <1>6 DEF Frozen, IsFree
  <2>3. QED
    BY <1>3, <1>7, <2>1, <2>2 DEF Fetch, FetchNext
<1>9. ~c.interlock /\ x.interlock = c.interlock
  BY <1>2, <1>5, <1>6 DEF Frozen, Core
<1>10. QED
  BY <1>5, <1>6, <1>8, <1>9 DEF UpToMemory

(* Where the memory stalls the core another stall changes nothing else.    *)
LEMMA StallStays ==
    ASSUME NEW c, Consistent(c), ~c.stallMemory, ~c.interlock, NEW m, m = CycleMemory(c, {}),
           FlowKept(m, c), StagesKept(m, c)
    PROVE  UpToMemory(m) = UpToMemory(c)
<1>1. Sound(c) /\ Waits(c) /\ Counted(c) /\ {} \in SUBSET CouldAnswer(c) /\ c \in Core
  BY DEF Consistent, Flowing, Sound
<1>2. /\ m.accessFinished = c.accessFinished /\ m.times = c.times
      /\ m.currAccess = c.currAccess /\ ~m.stallMemory /\ ~m.interlock /\ m \in Core
  BY <1>1, CycleMemoryIs DEF Sound
<1>3. m.stallMemory = c.stallMemory /\ m.interlock = c.interlock
  BY <1>1, <1>2 DEF Core
<1>4. QED
  BY <1>2, <1>3 DEF UpToMemory, FlowKept, StagesKept

(* A state that is said to have converged has.                             *)
FrozenInv ==
    converged =>
        /\ IsFree(core, WB_FIN)
        /\ IF stalled THEN ~core.stallMemory /\ ~core.interlock ELSE Frozen(core)

StageInv == Timed(core) /\ ~core.failed /\ FrozenInv

LEMMA FrozenKept ==
    ASSUME NEW s, Frozen(s), NEW r, Kept(r, s)
    PROVE  Frozen(r)
BY DEF Frozen, AwaitsData, IsFree, Kept, FetchKept, DataKept, WorkKept, StagesKept

LEMMA CycleKeepsStages ==
    ASSUME PipelineInv, OrderInv, EndInv, StageInv, CyclePipeline
    PROVE  StageInv'
<1>1. IsFree(core, WB_FIN) /\ Consistent(core) /\ Timed(core) /\ ~core.failed
  BY FinalStageFree DEF PipelineInv, StageInv
<1>2. PICK m, s :
         /\ m = CycleMemory(core, answered') /\ answered' \in SUBSET CouldAnswer(core)
         /\ Flowing(m) /\ ~m.flushed /\ Pending(m) /\ Counted(m)
         /\ FlowKept(m, core) /\ StagesKept(m, core)
         /\ IF stalled' THEN s = m ELSE s \in Cycle(m)
         /\ Consistent(s)
         /\ core' = CheckConvergence(core, s) /\ core' \in Core /\ Kept(core', s)
         /\ converged' = IsConverged(core, s)
         /\ stalled' => answered' = {} /\ CouldAnswer(core) # {}
  BY <1>1, CyclePipelineIs
<1>3. Sound(core) /\ Waits(core) /\ Counted(core)
  BY <1>1 DEF Consistent, Flowing
<1>4. /\ m.failed = core.failed /\ m.times = core.times /\ ~m.stallMemory /\ ~m.interlock
      /\ answered' = {} => /\ IsBusy(m.instr) <=> IsBusy(core.instr)
                           /\ IsBusy(m.data) <=> IsBusy(core.data)
  BY <1>2, <1>3, CycleMemoryIs
<1>5. Timed(m) /\ ~m.failed
  BY <1>1, <1>2, <1>4 DEF Timed, StagesKept, IsFree
<1>6. Timed(s) /\ ~s.failed
  BY <1>2, <1>5, CycleNeverFails
<1>7. IF stalled' THEN (IsBusy(s.instr) \/ IsBusy(s.data)) /\ ~s.stallMemory /\ ~s.interlock
      ELSE IsConverged(core, s) => Frozen(s)
  <2>1. CASE stalled'
    <3>1. IsBusy(core.instr) \/ IsBusy(core.data)
      BY <1>2, <2>1 DEF CouldAnswer, CanAnswer, Started, IsBusy
    <3>2. QED
      BY <1>2, <1>4, <2>1, <3>1
  <2>2. CASE ~stalled'
    BY <1>1, <1>2, <2>2, ConvergedIsFrozen
  <2>3. QED
    BY <2>1, <2>2
<1>8. IsConverged(core, s) => IsBusy(s.instr) \/ IsBusy(s.data) \/ IsEmpty(s)
  BY <1>2, <1>7, FrozenIsBusy
<1>9. core' = s
  BY <1>2, <1>8 DEF CheckConvergence, Require
<1>10. IsConverged(core, s) => IsFree(s, WB_FIN)
  BY <1>1 DEF IsConverged, UpToMemory, IsFree
<1>11. FrozenInv'
  BY <1>2, <1>7, <1>9, <1>10 DEF FrozenInv, Frozen, IsFree, AwaitsData
<1>12. QED
  BY <1>6, <1>9, <1>11 DEF StageInv, Timed, IsFree

LEMMA AdvanceKeepsStages ==
    ASSUME PipelineInv, StageInv, Advance
    PROVE  StageInv'
<1>1. core \in Core /\ core.inflight \in [Stages -> Elements]
  BY DEF PipelineInv, Consistent, Flowing, Sound, Core
<1>2. /\ Retires(core', core)
      /\ core'.inflight \in {core.inflight, [core.inflight EXCEPT ![WB_FIN] = None]}
  BY <1>1, AdvanceIs
<1>3. core'.inflight[ID_EX] = core.inflight[ID_EX]
  BY <1>1, <1>2, InStages
<1>4. ~converged'
  BY DEF Advance, AdvancePlain, AdvanceTaken, AdvanceNotTaken, AdvanceReturn,
         AdvanceExit, NextInstruction
<1>5. QED
  BY <1>2, <1>3, <1>4 DEF StageInv, FrozenInv, Timed, IsFree, Retires, WorkKept

LEMMA SpecStageInv == Spec => []StageInv
<1>1. Init => StageInv
  BY FS_EmptySet, InStages DEF Init, InitialCore, StageInv, FrozenInv, Timed, IsFree
<1>2. PipelineInv /\ OrderInv /\ EndInv /\ StageInv /\ [Next]_vars => StageInv'
  <2> SUFFICES ASSUME PipelineInv, OrderInv, EndInv, StageInv, [Next]_vars PROVE StageInv'
    OBVIOUS
  <2>1. CASE UNCHANGED vars
    BY <2>1 DEF vars, StageInv, FrozenInv, Timed, Frozen, IsFree, AwaitsData
  <2>2. QED
    BY <2>1, CycleKeepsStages, AdvanceKeepsStages DEF Next
<1>3. QED
  BY <1>1, <1>2, SpecPipelineInv, SpecOrder, SpecEnd, PTL DEF Spec

(* No assertion fails, whatever the program and the answers of the memory: *)
(* the final stage is clear where the pipeline is cycled, data accesses    *)
(* are accepted, execute is empty behind a branch that loads the pc, a     *)
(* converged pipeline waits for a port or has run empty, and the driver    *)
(* finds the assumption that it needs.                                     *)
THEOREM SpecNoAssertionFails == Spec => []NoAssertionFails
<1>1. StageInv /\ AssumptionsFit => NoAssertionFails
  BY DEF StageInv, NoAssertionFails
<1>2. QED
  BY <1>1, SpecStageInv, SpecAssumptionsFit, PTL

(* Fast-forwarding skips only cycles that change nothing but the memory.   *)
THEOREM SpecFastForwardSound == Spec => FastForwardSound
<1> DEFINE Skipped ==
        converged /\ at' = at /\ answered' = {} /\ stalled' = stalled
            => UpToMemory(core') = UpToMemory(core)
<1>1. PipelineInv /\ OrderInv /\ EndInv /\ StageInv /\ [Next]_vars => [Skipped]_vars
  <2> SUFFICES ASSUME PipelineInv, OrderInv, EndInv, StageInv, [Next]_vars,
                      converged, at' = at, answered' = {}, stalled' = stalled
               PROVE  UpToMemory(core') = UpToMemory(core)
    OBVIOUS
  <2>1. CASE CyclePipeline
    <3>1. IsFree(core, WB_FIN) /\ Consistent(core) /\ Timed(core)
      BY <2>1, FinalStageFree DEF PipelineInv, StageInv
    <3>2. PICK m, s :
             /\ m = CycleMemory(core, answered')
             /\ Flowing(m) /\ ~m.flushed /\ Pending(m) /\ Counted(m)
             /\ FlowKept(m, core) /\ StagesKept(m, core)
             /\ IF stalled' THEN s = m ELSE s \in Cycle(m)
             /\ Kept(core', s)
      BY <2>1, <3>1, CyclePipelineIs
    <3>3. m = CycleMemory(core, {})
      BY <3>2
    <3>4. IF stalled THEN ~core.stallMemory /\ ~core.interlock ELSE Frozen(core)
      BY DEF StageInv, FrozenInv
    <3>5. UpToMemory(s) = UpToMemory(core)
      <4>1. CASE stalled
        BY <3>1, <3>2, <3>3, <3>4, <4>1, StallStays
      <4>2. CASE ~stalled
        BY <3>1, <3>2, <3>3, <3>4, <4>2, FrozenStays
      <4>3. QED
        BY <4>1, <4>2
    <3>6. UpToMemory(core') = UpToMemory(s)
      BY <3>2 DEF UpToMemory, Kept, FetchKept, DataKept, FlowKept, WorkKept, StagesKept
    <3>7. QED
      BY <3>5, <3>6
  <2>2. CASE Advance
    <3>1. core.inflight[WB_FIN] = None
      BY DEF StageInv, FrozenInv, IsFree
    <3>2. CASE HasInstr(at.addr)
      <4>1. at # None /\ at # Exit
        BY <3>2, ExitIs
      <4>2. IsFinal(core, at)
        BY <2>2, <4>1
           DEF Advance, AdvancePlain, AdvanceTaken, AdvanceNotTaken, AdvanceReturn, AdvanceExit
      <4>3. QED
        BY <3>1, <3>2, <4>1, <4>2 DEF IsFinal, GoesExternal
    <3>3. CASE ~HasInstr(at.addr)
      <4>1. at = Exit /\ at' = Done
        BY <2>2, <3>3, AdvanceFromEnd DEF AdvanceExit, NextInstruction
      <4>2. Done.addr # Exit.addr
        BY ExitIs, CodeFacts DEF Done
      <4>3. QED
        BY <4>1, <4>2
    <3>4. QED
      BY <3>2, <3>3
  <2>3. CASE UNCHANGED vars
    BY <2>3 DEF vars
  <2>4. QED
    BY <2>1, <2>2, <2>3 DEF Next
<1>2. QED
  BY <1>1, SpecPipelineInv, SpecOrder, SpecEnd, SpecStageInv, PTL DEF Spec, FastForwardSound
=============================================================================
