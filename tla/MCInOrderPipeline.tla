------------------------- MODULE MCInOrderPipeline -------------------------
(* A function that calls one directly in front of a loop, jumps through a  *)
(* table that it loads, past or into a loop that calls again; the callee   *)
(* has a predicated return and one that loads the pc.  The other entry     *)
(* point is a loop behind a branch around it.                              *)
EXTENDS InOrderPipeline

Instr(block, function, flow, to) ==
    [block |-> block, function |-> function, flow |-> flow, to |-> to,
     mem |-> "none", accesses |-> 0, dest |-> 0, uses |-> {}, times |-> {1}]

Load(i, accesses, dest) == [i EXCEPT !.mem = "load", !.accesses = accesses, !.dest = dest]

MCCode ==
    <<[Instr(1, 1, "next", {}) EXCEPT !.times = {1, 2}],
      Instr(1, 1, "cond", {4}),
      Instr(2, 1, "call", {13}),
      Load(Instr(3, 1, "next", {}), 2, 1),
      [Instr(3, 1, "next", {}) EXCEPT !.uses = {1}, !.times = {1, 3}],
      Instr(3, 1, "cond", {4}),
      Load(Instr(4, 1, "table", {8, 10}), 1, 2),
      [Instr(5, 1, "next", {}) EXCEPT !.mem = "store", !.accesses = 1],
      Instr(5, 1, "jump", {12}),
      Instr(6, 1, "call", {13}),
      [Instr(6, 1, "cond", {10}) EXCEPT !.uses = {3}],
      Instr(7, 1, "return", {}),
      [Instr(8, 2, "predreturn", {}) EXCEPT !.times = {2}],
      Load(Instr(8, 2, "return", {}), 2, 3),
      Instr(9, 3, "cond", {19}),
      Load(Instr(10, 3, "next", {}), 1, 1),
      [Instr(10, 3, "next", {}) EXCEPT !.mem = "store", !.accesses = 2, !.uses = {1}],
      Instr(10, 3, "cond", {16}),
      Instr(11, 3, "next", {}),
      Instr(11, 3, "return", {})>>

MCLoopBlocks ==
    [l \in Loops |-> CASE l = "first" -> {3} [] l = "calling" -> {6} [] OTHER -> {10}]
=============================================================================
