------------------------------ MODULE TaskCode ------------------------------
(***************************************************************************)
(* A task as the graph of its instructions in their call contexts (CtxMI), *)
(* how often UrGraph takes each of them to be executed, and the loops in   *)
(* which OurGraph takes its line to persist.                               *)
(*                                                                         *)
(* A task t has blocks[b], the instructions of basic block b, numbered in  *)
(* the order of their objects; next[b], the successors of a block;         *)
(* callees[mi], the first blocks of what a call may call; returns; loops   *)
(* [header, body, bound, ps] with the outer loops first, ps[mi] being      *)
(* [level, conflicts] for a line that persists in the loop: the first      *)
(* level in which it does, and the size of its conflict set there; and     *)
(* class[cm], what the cache analysis says of an access: [cl, age], where  *)
(* it says anything (else CL_BOT).  Each instruction starts a line of its  *)
(* own; data accesses and transient instructions are left out.             *)
(***************************************************************************)
EXTENDS Integers, Lists

Ctx(mi, sites) == [mi |-> mi, sites |-> sites]
BlockOf(t, mi) == CHOOSE b \in DOMAIN t.blocks : mi \in Range(t.blocks[b])
First(t, b) == t.blocks[b][1]
After(t, mi) ==
    LET code == t.blocks[BlockOf(t, mi)]
    IN code[1 + CHOOSE i \in DOMAIN code : code[i] = mi]
Start(t) == Ctx(First(t, 1), <<>>)

(* No call is the last instruction of its block, as a call that is also a  *)
(* return would be: after the return from it an assertion fails.           *)
Instructions(t) == UNION {Range(t.blocks[b]) : b \in DOMAIN t.blocks}
IsTask(t) ==
    /\ t.blocks \in Seq(Seq(Nat) \ {<<>>}) /\ t.blocks # <<>>
    /\ t.next \in [DOMAIN t.blocks -> Seq(DOMAIN t.blocks)]
    /\ \A mi \in DOMAIN t.callees :
           /\ t.callees[mi] \in Seq(DOMAIN t.blocks)
           /\ mi \in Instructions(t) \ t.returns /\ mi # Last(t.blocks[BlockOf(t, mi)])
    /\ IsFiniteSet(DOMAIN t.loops) /\ \A l \in DOMAIN t.loops : t.loops[l].bound \in Nat

(* CtxMI::getSucc.                                                         *)
Succ(t, cm) ==
    LET b == BlockOf(t, cm.mi)
        into(callee) == Ctx(First(t, callee), Append(cm.sites, cm.mi))
        to(block) == Ctx(First(t, block), cm.sites)
    IN CASE cm.mi \in DOMAIN t.callees ->
                [i \in DOMAIN t.callees[cm.mi] |-> into(t.callees[cm.mi][i])]
         [] cm.mi \in t.returns /\ cm.sites = <<>> -> <<>>
         [] cm.mi \in t.returns /\ cm.sites # <<>> ->
                <<Ctx(After(t, Last(cm.sites)), Front(cm.sites))>>
         [] cm.mi = Last(t.blocks[b]) /\ cm.mi \notin DOMAIN t.callees \cup t.returns ->
                [i \in DOMAIN t.next[b] |-> to(t.next[b][i])]
         [] OTHER -> <<Ctx(After(t, cm.mi), cm.sites)>>

(* CtxMI::operator<, the order of the maps.                                *)
Before(a, b) ==
    LET n == Min({Len(a.sites), Len(b.sites)})
        differ == {i \in 1 .. n : a.sites[i] # b.sites[i]}
        i == Min(differ)
    IN \/ a.mi < b.mi
       \/ /\ a.mi = b.mi
          /\ IF differ = {} THEN Len(a.sites) < Len(b.sites)
                            ELSE a.sites[i] < b.sites[i]

InOrder(cms) == Sorted(cms, Before)

-----------------------------------------------------------------------------
(* getGlobalUpBd: the bounds of all loops around the instruction and       *)
(* around the calls that lead to it; getExeCntMust takes at least the one  *)
(* of a new AccessInfo.                                                    *)
LoopsAround(t, mi) == {l \in DOMAIN t.loops : BlockOf(t, mi) \in t.loops[l].body}

LocalBound(t, mi) ==
    FoldSet(LAMBDA l, n : n * t.loops[l].bound, 1, LoopsAround(t, mi))

Count(t, cm) ==
    Max({1, FoldLeft(LAMBDA n, mi : n * LocalBound(t, mi), 1, Append(cm.sites, cm.mi))})

-----------------------------------------------------------------------------
(* OurGraph::getGlobalLoop.  A block before the header of a loop, or after *)
(* it, counts as one of the loop's.                                        *)
Near(t, l, b) ==
    LET header == t.loops[l].header
    IN b \in t.loops[l].body \/ header \in Range(t.next[b]) \/ b \in Range(t.next[header])

Inside(t, l, k) == l # k /\ t.loops[l].body \subseteq t.loops[k].body
IsSubLoop(t, l, k) ==
    Inside(t, l, k) /\ ~\E m \in DOMAIN t.loops : Inside(t, l, m) /\ Inside(t, m, k)

InnerFirst(t, loops) == Sorted(loops, LAMBDA l, k : Inside(t, l, k))

LocalLoops(t, mi) ==
    LET near == {l \in DOMAIN t.loops : Near(t, l, BlockOf(t, mi))}
        found == {l \in near : ~\E s \in near : IsSubLoop(t, s, l)}
        around == {l \in DOMAIN t.loops : l = Min(found) \/ Inside(t, Min(found), l)}
    IN IF found = {} THEN <<>> ELSE InnerFirst(t, around)

LoopStack(t, cm) ==
    FoldLeft(LAMBDA s, mi : LocalLoops(t, mi) \o s, <<>>, Append(cm.sites, cm.mi))

(* The loops in which the line persists, the outermost first.              *)
PersistsIn(t, cm) ==
    LET loops == Reverse(LoopStack(t, cm))
    IN Those(loops, {i \in DOMAIN loops : cm.mi \in DOMAIN t.loops[loops[i]].ps})
=============================================================================
