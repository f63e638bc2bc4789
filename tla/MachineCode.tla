---------------------------- MODULE MachineCode ----------------------------
(***************************************************************************)
(* The machine code under analysis, as the pipeline sees it: instructions  *)
(* at addresses 1, 2, ..., the basic blocks they are in, and the loops     *)
(* that are persistence scopes.                                            *)
(***************************************************************************)
EXTENDS Naturals, Sequences, FiniteSets

CONSTANTS
    Code,          \* the instructions in address order
    Loops,         \* names of the loops that are persistence scopes
    LoopBlocks,    \* the basic blocks of each loop
    EntryPoints    \* where an analysis may start

(* load-return and jump-table-by-load instructions branch by loading pc.   *)
Flow == {"next", "cond", "jump", "table", "call", "return", "predreturn"}

Instruction ==
    [block : Nat, function : Nat,
     flow : Flow, to : SUBSET (DOMAIN Code),    \* targets, or the callee
     mem : {"none", "load", "store"}, accesses : Nat,
     dest : Nat, uses : SUBSET Nat,             \* registers
     times : SUBSET Nat]                        \* cycles in execute

ASSUME CodeAssumption ==
    /\ Code \in Seq(Instruction) /\ Code # <<>>
    /\ \A a \in DOMAIN Code :
          /\ Code[a].times # {} /\ IsFiniteSet(Code[a].times)
          /\ Code[a].flow \in {"cond", "jump", "table", "call"} => Code[a].to # {}
    /\ EntryPoints \subseteq DOMAIN Code /\ EntryPoints # {}
    /\ LoopBlocks \in [Loops -> SUBSET Nat]

(* "Unexpected opcode": among the branches only those through a table and  *)
(* returns load the pc.                                                    *)
ASSUME PcLoadAssumption ==
    \A a \in DOMAIN Code :
        Code[a].mem = "load" /\ Code[a].flow # "next" =>
            Code[a].flow \in {"table", "return", "predreturn"}

(* An unconditional branch names its target block, a call its callee.      *)
ASSUME DirectAssumption ==
    \A a \in DOMAIN Code :
        Code[a].flow \in {"jump", "call"} => \E t \in DOMAIN Code : Code[a].to = {t}

(* Nothing falls out of the end of the program.                            *)
ASSUME EndAssumption == Code[Len(Code)].flow \in {"jump", "table", "return"}

Addresses == DOMAIN Code

(* The initial link register: the program ends there.  Addresses that hold *)
(* no instruction are external.                                            *)
LinkRegister == Len(Code) + 2
AllAddresses == 0 .. Len(Code) + 3

HasInstr(a) == a \in Addresses
GoesExternal(a) == ~HasInstr(a)

(* Contexts are reduced to the token of the call site; zero is none.       *)
NoContext == 0
Elements == [addr : AllAddresses, ctx : AllAddresses]
None == [addr |-> 0, ctx |-> NoContext]

Exit == [addr |-> LinkRegister, ctx |-> NoContext]

-----------------------------------------------------------------------------
(* Flow inside a function.                                                 *)

Successors(a) ==
    (IF Code[a].flow \in {"jump", "table", "return"} THEN {} ELSE {a + 1})
        \cup (IF Code[a].flow \in {"cond", "jump", "table"} THEN Code[a].to ELSE {})

IsEdge(b, c) ==
    \E a \in Addresses : \E d \in Successors(a) \cap Addresses :
        /\ Code[a].block = b /\ Code[d].block = c
        /\ Code[a].function = Code[d].function

(* pc + 4; the context is lost where the flow cannot fall through.         *)
Following(e) ==
    [addr |-> e.addr + 1,
     ctx |-> IF /\ HasInstr(e.addr) /\ HasInstr(e.addr + 1)
                /\ \/ Code[e.addr].block = Code[e.addr + 1].block
                   \/ IsEdge(Code[e.addr].block, Code[e.addr + 1].block)
             THEN e.ctx ELSE NoContext]

-----------------------------------------------------------------------------
(* Call graph.                                                             *)

CallSites(f) ==
    {c \in Addresses : /\ Code[c].flow = "call"
                       /\ \E t \in Code[c].to : Code[t].function = f}

(* The contexts in which a call site is analysed.                          *)
Contexts(c) ==
    IF CallSites(Code[c].function) = {} THEN {NoContext}
    ELSE CallSites(Code[c].function)

Callee(e) == {[addr |-> t, ctx |-> e.addr] : t \in Code[e.addr].to}

(* Where a return of e's function may continue: behind each call site that *)
(* leads to e's context, and outside if it is the entry function.          *)
ReturnLocations(e, entry) ==
    {[addr |-> e.ctx + 1, ctx |-> x] :
        x \in UNION {Contexts(c) :
                       c \in CallSites(Code[e.addr].function) \cap {e.ctx}}}
    \cup {x \in {Exit} : Code[e.addr].function = Code[entry].function}

-----------------------------------------------------------------------------
(* Persistence scopes.  The edges into and out of each loop.               *)

EnteredBy(a, b) ==
    IF HasInstr(a) /\ HasInstr(b) /\ IsEdge(Code[a].block, Code[b].block)
    THEN {l \in Loops : /\ Code[a].block \notin LoopBlocks[l]
                        /\ Code[b].block \in LoopBlocks[l]}
    ELSE {}

LeftBy(a, b) ==
    IF HasInstr(a) /\ HasInstr(b) /\ IsEdge(Code[a].block, Code[b].block)
    THEN {l \in Loops : /\ Code[a].block \in LoopBlocks[l]
                        /\ Code[b].block \notin LoopBlocks[l]}
    ELSE {}
=============================================================================
