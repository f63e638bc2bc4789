----------------------- MODULE AnalysedProgramProofs -----------------------
(***************************************************************************)
(* For every program and every setting, the worklist is complete: a block  *)
(* and context that is not on it has passed on all it has.  So whatever    *)
(* order the blocks are analysed in, the iteration stops at a fixed point. *)
(*                                                                         *)
(* First, what the operations on contexts preserve: their results are      *)
(* lists of tokens, and going along an edge keeps the tokens of the loops  *)
(* around a block in step with the block.                                  *)
(***************************************************************************)
EXTENDS AnalysedProgram, FiniteSetTheorems, SequenceTheorems, WellFoundedInduction, TLAPS

(* A set of numbers has a least one.  What recursive functions are, is     *)
(* proved with it, by least counterexample.                                *)
LEMMA LeastNumber ==
    ASSUME NEW T, T \subseteq Nat, T # {}
    PROVE  \E m \in T : \A k \in T : m <= k
<1>1. PICK m \in T : \A k \in T : <<k, m>> \notin OpToRel(<, Nat)
  BY NatLessThanWellFounded, WFMin
<1>2. \A k \in T : ~ k < m
  BY <1>1 DEF OpToRel
<1>3. QED
  BY <1>2

-----------------------------------------------------------------------------
(* Lists.                                                                  *)

LEMMA FrontLast ==
    ASSUME NEW S, NEW c \in Seq(S), c # <<>>
    PROVE  /\ Front(c) \in Seq(S) /\ Last(c) \in S
           /\ Len(Front(c)) = Len(c) - 1 /\ Len(c) \in Nat \ {0}
           /\ \A i \in 1 .. Len(c) - 1 : Front(c)[i] = c[i]
<1>1. Len(c) \in Nat \ {0} /\ c = [i \in 1 .. Len(c) |-> c[i]]
  OBVIOUS
<1>2. Last(c) \in S
  BY <1>1 DEF Last
<1>3. Front(c) = [i \in 1 .. Len(c) - 1 |-> c[i]]
  BY <1>1 DEF Front
<1>4. Front(c) \in Seq(S) /\ Len(Front(c)) = Len(c) - 1
  <2>1. \A i \in 1 .. Len(c) - 1 : c[i] \in S
    BY <1>1
  <2>2. Len(c) - 1 \in Nat
    BY <1>1
  <2>3. QED
    BY <1>3, <2>1, <2>2, IsASeq
<1>5. QED
  BY <1>1, <1>2, <1>3, <1>4

LEMMA FrontOfAppend ==
    ASSUME NEW S, NEW c \in Seq(S), NEW e
    PROVE  Front(Append(c, e)) = c
<1>1. Front(Append(c, e)) = SubSeq(Append(c, e), 1, Len(c))
  BY DEF Front
<1>2. QED
  BY <1>1

(* A list that is not empty ends with its last element.                   *)
LEMMA ListSplit ==
    ASSUME NEW S, NEW c \in Seq(S), c # <<>>
    PROVE  c = Append(Front(c), Last(c)) /\ Front(c) \in Seq(S) /\ Last(c) \in S
           /\ Len(Front(c)) = Len(c) - 1 /\ Len(c) \in Nat \ {0}
<1>1. /\ Front(c) \in Seq(S) /\ Last(c) \in S /\ Len(Front(c)) = Len(c) - 1
      /\ Len(c) \in Nat \ {0} /\ \A i \in 1 .. Len(c) - 1 : Front(c)[i] = c[i]
  BY FrontLast
<1>2. Last(c) = c[Len(c)]
  BY DEF Last
<1> DEFINE d == Append(Front(c), Last(c))
<1>3. Len(d) = Len(c) /\ d \in Seq(S)
  BY <1>1
<1>4. \A i \in 1 .. Len(c) : d[i] = c[i]
  BY <1>1, <1>2
<1>5. c = d
  <2> HIDE DEF d
  <2>1. QED
    BY <1>3, <1>4, SeqEqual
<1>6. QED
  BY <1>1, <1>5

-----------------------------------------------------------------------------
(* Types.                                                                  *)

LEMMA LoopTokenType ==
    ASSUME NEW opt, NEW l \in Range(Loops), NEW i \in 0 .. opt.loopPeel
    PROVE  /\ LoopToken(opt, l, i) \in LoopTokens(opt, l)
           /\ LoopToken(opt, l, i) \in Token(opt)
<1>1. LoopToken(opt, l, i) \in LoopTokens(opt, l)
  BY DEF LoopTokens
<1>2. LoopTokens(opt, l) \subseteq Token(opt)
  BY DEF Token
<1>3. QED
  BY <1>1, <1>2

LEMMA TokenKinds ==
    ASSUME NEW opt \in OptionType, NEW x \in Token(opt), x.kind = "LOOPPEEL"
    PROVE  /\ x.of \in Range(Loops) /\ x.taken \in 0 .. opt.loopPeel - 1
           /\ x = LoopToken(opt, x.of, x.taken)
<1>1. PICK l \in Range(Loops) : x \in LoopTokens(opt, l)
  <2>1. \A f : CalleeToken(f).kind # "LOOPPEEL" /\ SiteToken(f).kind # "LOOPPEEL"
    BY DEF CalleeToken, SiteToken
  <2>2. x \notin {CalleeToken(f) : f \in Functions} /\ x \notin {SiteToken(b) : b \in Blocks}
    BY <2>1
  <2>3. x \in UNION {LoopTokens(opt, l) : l \in Range(Loops)}
    BY <2>2 DEF Token
  <2>4. QED
    BY <2>3
<1>2. PICK i \in 0 .. opt.loopPeel : x = LoopToken(opt, l, i)
  BY <1>1 DEF LoopTokens
<1>3. QED
  BY <1>2 DEF LoopToken, OptionType

LEMMA MergeType ==
    ASSUME NEW S, NEW c \in Seq(S), NEW tokens
    PROVE  Merge(c, tokens) \in Seq(S)
BY FrontLast DEF Merge

LEMMA TransferType ==
    ASSUME NEW opt \in OptionType, NEW c \in Seq(Token(opt)), NEW edge
    PROVE  Transfer(opt, c, edge) \in Seq(Token(opt))
<1>1. CASE c # <<>> /\ Last(c).kind = "LOOPPEEL" /\ edge \in BackEdges(Last(c).of)
  <2>1. Last(c) \in Token(opt) /\ Front(c) \in Seq(Token(opt))
    BY <1>1, FrontLast
  <2>2. Last(c).of \in Range(Loops) /\ Last(c).taken + 1 \in 0 .. opt.loopPeel
    BY <1>1, <2>1, TokenKinds DEF OptionType
  <2>3. LoopToken(opt, Last(c).of, Last(c).taken + 1) \in Token(opt)
    BY <2>2, LoopTokenType
  <2>4. QED
    BY <1>1, <2>1, <2>3 DEF Transfer
<1>2. QED
  BY <1>1 DEF Transfer

LEMMA EnterLoopsType ==
    ASSUME NEW opt \in OptionType, NEW c \in Seq(Token(opt)), NEW edge
    PROVE  EnterLoopsTo(opt, c, edge) \in Seq(Token(opt))
<1> DEFINE entered == {l \in Range(Loops) : edge \in IncomingEdges(l)}
           l == CHOOSE k \in entered : TRUE
<1>1. CASE entered = {}
  BY <1>1 DEF EnterLoopsTo
<1>2. CASE entered # {}
  <2>1. l \in Range(Loops)
    BY <1>2
  <2> HIDE DEF l
  <2>2. LoopToken(opt, l, 0) \in Token(opt)
    <3>1. 0 \in 0 .. opt.loopPeel
      BY DEF OptionType
    <3>2. QED
      BY <2>1, <3>1, LoopTokenType
  <2>3. EnterLoopsTo(opt, c, edge) \in {c, Append(c, LoopToken(opt, l, 0))}
    BY DEF EnterLoopsTo, l
  <2>4. QED
    BY <2>2, <2>3
<1>3. QED
  BY <1>1, <1>2

-----------------------------------------------------------------------------
(* The two recursive functions exist, as each value is made of the one     *)
(* before it.                                                              *)

IsLeaving(left, opt, ctx, edge, n) ==
    left = [i \in 0 .. n |->
               IF i = 0 THEN ctx
               ELSE IF edge \in ExitingEdges(Loops[i])
                    THEN Merge(left[i - 1], LoopTokens(opt, Loops[i])) ELSE left[i - 1]]

LEMMA LeavingExists ==
    ASSUME NEW opt, NEW ctx, NEW edge, NEW n \in Nat
    PROVE  \E left : IsLeaving(left, opt, ctx, edge, n)
<1> DEFINE Next1(v, i) == IF edge \in ExitingEdges(Loops[i])
                          THEN Merge(v, LoopTokens(opt, Loops[i])) ELSE v
           Is(g, m) == IsLeaving(g, opt, ctx, edge, m)
           T == {m \in Nat : ~ \E g : Is(g, m)}
<1>1. ASSUME NEW g, NEW m PROVE
         Is(g, m) <=> g = [i \in 0 .. m |-> IF i = 0 THEN ctx ELSE Next1(g[i - 1], i)]
  BY DEF IsLeaving
<1> HIDE DEF Next1, Is
<1>2. SUFFICES ASSUME T # {} PROVE FALSE
  BY DEF Is
<1>3. PICK m \in T : \A k \in T : m <= k
  <2>1. T \subseteq Nat
    OBVIOUS
  <2>2. QED
    BY <1>2, <2>1, LeastNumber
<1>4. CASE m = 0
  <2> DEFINE g == [i \in 0 .. 0 |-> ctx]
  <2>1. g = [i \in 0 .. 0 |-> IF i = 0 THEN ctx ELSE Next1(g[i - 1], i)]
    OBVIOUS
  <2>2. QED
    BY <1>1, <1>4, <2>1
<1>5. CASE m # 0
  <2>1. m - 1 \in Nat /\ m - 1 \notin T
    BY <1>3, <1>5
  <2>2. PICK g : Is(g, m - 1)
    BY <2>1
  <2>3. g = [i \in 0 .. m - 1 |-> IF i = 0 THEN ctx ELSE Next1(g[i - 1], i)]
    BY <1>1, <2>2
  <2> DEFINE h == [i \in 0 .. m |-> IF i = m THEN Next1(g[m - 1], m) ELSE g[i]]
  <2>4. ASSUME NEW i \in 0 .. m
        PROVE  h[i] = IF i = 0 THEN ctx ELSE Next1(h[i - 1], i)
    <3>1. CASE i = 0
      BY <1>5, <2>3, <3>1
    <3>2. CASE i # 0
      <4>1. i - 1 \in 0 .. m /\ i - 1 # m
        BY <3>2
      <4>2. h[i - 1] = g[i - 1]
        BY <4>1
      <4>3. h[i] = Next1(g[i - 1], i)
        BY <2>3, <3>2
      <4>4. QED
        BY <3>2, <4>2, <4>3
    <3>3. QED
      BY <3>1, <3>2
  <2>5. h = [i \in 0 .. m |-> IF i = 0 THEN ctx ELSE Next1(h[i - 1], i)]
    BY <2>4
  <2>6. QED
    BY <1>1, <2>5
<1>6. QED
  BY <1>4, <1>5

LEMMA LeavingIs ==
    ASSUME NEW opt, NEW ctx, NEW edge, opt.loopPeel # 0
    PROVE  \E left : /\ IsLeaving(left, opt, ctx, edge, Len(Loops))
                     /\ LeaveLoops(opt, ctx, edge) = left[Len(Loops)]
<1> DEFINE left == CHOOSE g : IsLeaving(g, opt, ctx, edge, Len(Loops))
<1>1. LeaveLoops(opt, ctx, edge) = left[Len(Loops)]
  BY Zenon DEF LeaveLoops, IsLeaving
<1>2. IsLeaving(left, opt, ctx, edge, Len(Loops))
  <2>1. Len(Loops) \in Nat
    BY LoopAssumption
  <2>2. \E g : IsLeaving(g, opt, ctx, edge, Len(Loops))
    BY <2>1, LeavingExists
  <2>3. QED
    BY <2>2
<1>3. QED
  BY <1>1, <1>2

LEMMA LeaveLoopsType ==
    ASSUME NEW S, NEW opt, NEW ctx \in Seq(S), NEW edge
    PROVE  LeaveLoops(opt, ctx, edge) \in Seq(S)
<1>1. CASE opt.loopPeel = 0
  BY <1>1 DEF LeaveLoops
<1>2. CASE opt.loopPeel # 0
  <2> DEFINE n == Len(Loops)
  <2>1. n \in Nat
    BY LoopAssumption
  <2>2. PICK left : /\ IsLeaving(left, opt, ctx, edge, n)
                    /\ LeaveLoops(opt, ctx, edge) = left[n]
    BY <1>2, LeavingIs
  <2> HIDE DEF n
  <2> DEFINE T == {i \in 0 .. n : left[i] \notin Seq(S)}
  <2>3. ASSUME NEW i \in 0 .. n
        PROVE  left[i] = IF i = 0 THEN ctx
                         ELSE IF edge \in ExitingEdges(Loops[i])
                              THEN Merge(left[i - 1], LoopTokens(opt, Loops[i])) ELSE left[i - 1]
    BY <2>1, <2>2 DEF IsLeaving
  <2>4. SUFFICES ASSUME T # {} PROVE FALSE
    BY <2>1, <2>2
  <2>5. PICK m \in T : \A k \in T : m <= k
    <3>1. T \subseteq Nat
      BY <2>1
    <3>2. QED
      BY <2>4, <3>1, LeastNumber
  <2>6. m # 0 /\ m - 1 \in 0 .. n /\ left[m - 1] \in Seq(S)
    BY <2>1, <2>3, <2>5
  <2>7. left[m] \in Seq(S)
    BY <2>3, <2>6, MergeType
  <2>8. QED
    BY <2>7
<1>3. QED
  BY <1>1, <1>2

LEMMA EdgeContextType ==
    ASSUME NEW opt \in OptionType, NEW c \in Seq(Token(opt)), NEW edge
    PROVE  EdgeContext(opt, c, edge) \in Seq(Token(opt))
BY LeaveLoopsType, TransferType, EnterLoopsType DEF EdgeContext

IsOld(ctx, kinds, limit, i) ==
    /\ ctx[i].kind \in kinds
    /\ Cardinality({j \in i + 1 .. Len(ctx) : ctx[j].kind \in kinds}) >= limit

IsClearing(kept, ctx, kinds, limit, n) ==
    kept = [i \in 0 .. n |->
               IF i = 0 THEN <<>>
               ELSE IF IsOld(ctx, kinds, limit, i) THEN kept[i - 1]
               ELSE Append(kept[i - 1], ctx[i])]

LEMMA ClearingExists ==
    ASSUME NEW ctx, NEW kinds, NEW limit, NEW n \in Nat
    PROVE  \E kept : IsClearing(kept, ctx, kinds, limit, n)
<1> DEFINE Next1(v, i) == IF IsOld(ctx, kinds, limit, i) THEN v ELSE Append(v, ctx[i])
           Is(g, m) == IsClearing(g, ctx, kinds, limit, m)
           T == {m \in Nat : ~ \E g : Is(g, m)}
<1>1. ASSUME NEW g, NEW m PROVE
         Is(g, m) <=> g = [i \in 0 .. m |-> IF i = 0 THEN <<>> ELSE Next1(g[i - 1], i)]
  BY DEF IsClearing
<1> HIDE DEF Next1, Is
<1>2. SUFFICES ASSUME T # {} PROVE FALSE
  BY DEF Is
<1>3. PICK m \in T : \A k \in T : m <= k
  <2>1. T \subseteq Nat
    OBVIOUS
  <2>2. QED
    BY <1>2, <2>1, LeastNumber
<1>4. CASE m = 0
  <2> DEFINE g == [i \in 0 .. 0 |-> <<>>]
  <2>1. g = [i \in 0 .. 0 |-> IF i = 0 THEN <<>> ELSE Next1(g[i - 1], i)]
    OBVIOUS
  <2>2. QED
    BY <1>1, <1>4, <2>1
<1>5. CASE m # 0
  <2>1. m - 1 \in Nat /\ m - 1 \notin T
    BY <1>3, <1>5
  <2>2. PICK g : Is(g, m - 1)
    BY <2>1
  <2>3. g = [i \in 0 .. m - 1 |-> IF i = 0 THEN <<>> ELSE Next1(g[i - 1], i)]
    BY <1>1, <2>2
  <2> DEFINE h == [i \in 0 .. m |-> IF i = m THEN Next1(g[m - 1], m) ELSE g[i]]
  <2>4. ASSUME NEW i \in 0 .. m
        PROVE  h[i] = IF i = 0 THEN <<>> ELSE Next1(h[i - 1], i)
    <3>1. CASE i = 0
      BY <1>5, <2>3, <3>1
    <3>2. CASE i # 0
      <4>1. i - 1 \in 0 .. m /\ i - 1 # m
        BY <3>2
      <4>2. h[i - 1] = g[i - 1]
        BY <4>1
      <4>3. h[i] = Next1(g[i - 1], i)
        BY <2>3, <3>2
      <4>4. QED
        BY <3>2, <4>2, <4>3
    <3>3. QED
      BY <3>1, <3>2
  <2>5. h = [i \in 0 .. m |-> IF i = 0 THEN <<>> ELSE Next1(h[i - 1], i)]
    BY <2>4
  <2>6. QED
    BY <1>1, <2>5
<1>6. QED
  BY <1>4, <1>5

LEMMA ClearOlderThanType ==
    ASSUME NEW S, NEW ctx \in Seq(S), NEW kinds, NEW limit
    PROVE  ClearOlderThan(ctx, kinds, limit) \in Seq(S)
<1> DEFINE n == Len(ctx)
           kept == CHOOSE g : IsClearing(g, ctx, kinds, limit, n)
           T == {i \in 0 .. n : kept[i] \notin Seq(S)}
<1>1. ClearOlderThan(ctx, kinds, limit) \in {ctx, kept[n]}
  BY Zenon DEF ClearOlderThan, IsClearing, IsOld
<1>2. n \in Nat /\ \A i \in 1 .. n : ctx[i] \in S
  OBVIOUS
<1>3. IsClearing(kept, ctx, kinds, limit, n)
  <2> HIDE DEF n
  <2>1. \E g : IsClearing(g, ctx, kinds, limit, n)
    BY <1>2, ClearingExists
  <2>2. QED
    BY <2>1
<1> HIDE DEF kept, n
<1>4. ASSUME NEW i \in 0 .. n
      PROVE  kept[i] = IF i = 0 THEN <<>>
                       ELSE IF IsOld(ctx, kinds, limit, i) THEN kept[i - 1]
                       ELSE Append(kept[i - 1], ctx[i])
  BY <1>3 DEF IsClearing
<1>5. SUFFICES ASSUME T # {} PROVE FALSE
  BY <1>1, <1>2
<1>6. PICK m \in T : \A k \in T : m <= k
  <2>1. T \subseteq Nat
    BY <1>2
  <2>2. QED
    BY <1>5, <2>1, LeastNumber
<1>7. m # 0 /\ m - 1 \in 0 .. n /\ m \in 1 .. n /\ kept[m - 1] \in Seq(S)
  <2>1. 0 \in 0 .. n /\ kept[0] = <<>>
    BY <1>2, <1>4
  <2>2. m \in 0 .. n /\ kept[m] \notin Seq(S)
    OBVIOUS
  <2>3. m # 0
    <3>1. kept[0] \in Seq(S)
      BY <2>1, EmptySeq
    <3>2. QED
      BY <2>2, <3>1
  <2>4. m - 1 \in 0 .. n /\ m \in 1 .. n /\ ~ m <= m - 1
    BY <1>2, <2>2, <2>3
  <2>5. m - 1 \notin T
    BY <1>6, <2>4
  <2>6. QED
    BY <2>3, <2>4, <2>5
<1>8. kept[m] \in {kept[m - 1], Append(kept[m - 1], ctx[m])}
  BY <1>4, <1>7
<1>9. kept[m] \in Seq(S)
  <2>1. ctx[m] \in S
    BY <1>2, <1>7
  <2>2. Append(kept[m - 1], ctx[m]) \in Seq(S)
    BY <1>7, <2>1, AppendProperties
  <2>3. QED
    BY <1>7, <1>8, <2>2
<1>10. QED
  BY <1>9

LEMMA CallContextType ==
    ASSUME NEW opt, NEW ctx \in Seq(Token(opt)), NEW b \in Blocks
    PROVE  CallContext(opt, ctx, b) \in Seq(Token(opt))
<1>1. SiteToken(b) \in Token(opt)
  BY DEF Token
<1>2. Append(ctx, SiteToken(b)) \in Seq(Token(opt))
  BY <1>1
<1>3. QED
  BY <1>2, ClearOlderThanType DEF CallContext, ReduceOnCall

-----------------------------------------------------------------------------
(* Contexts and the loops around a block.                                  *)

LEMMA LoopsDiffer ==
    ASSUME NEW i \in DOMAIN Loops, NEW j \in DOMAIN Loops
    PROVE  /\ Loops[i] \in Range(Loops)
           /\ Header[Loops[i]] = Header[Loops[j]] => i = j
           /\ Loops[i] = Loops[j] => i = j
<1>1. \A k \in DOMAIN Loops : k \in Nat /\ Loops[k] \in Range(Loops)
  BY LoopAssumption DEF Range
<1>2. \A k \in DOMAIN Loops : Header[Loops[k]] \in Body[Loops[k]]
  BY <1>1, LoopAssumption
<1>3. Header[Loops[i]] = Header[Loops[j]] => ~ i < j /\ ~ j < i
  BY <1>2, NestingAssumption
<1>4. QED
  BY <1>1, <1>3

LEMMA LoopsFinite ==
    ASSUME NEW S, S \subseteq DOMAIN Loops
    PROVE  /\ S \subseteq Nat /\ IsFiniteSet(S) /\ Cardinality(S) \in Nat
           /\ (S = {}) = (Cardinality(S) = 0)
<1>1. DOMAIN Loops = 1 .. Len(Loops) /\ Len(Loops) \in Nat
  BY LoopAssumption
<1>2. IsFiniteSet(1 .. Len(Loops))
  BY <1>1, FS_Interval
<1>3. IsFiniteSet(S)
  BY <1>1, <1>2, FS_Subset
<1>4. QED
  BY <1>1, <1>3, FS_CardinalityType, FS_EmptySet

(* The exact shape: after what was there at the call of f, the token of    *)
(* the call, and of each of the loops the one with its iterations.         *)
Lays(opt, c, pre, f, S, taken) ==
    /\ Len(c) = Len(pre) + 1 + Cardinality(S)
    /\ \A k \in 1 .. Len(pre) : c[k] = pre[k]
    /\ c[Len(pre) + 1] = CalleeToken(f)
    /\ \A i \in S : c[Len(pre) + 1 + Cardinality({j \in S : i <= j})]
                        = LoopToken(opt, Loops[i], taken[Loops[i]])

(* The innermost loop is left.                                             *)
LEMMA LaysPop ==
    ASSUME NEW T, NEW U, NEW opt, NEW c \in Seq(T), NEW pre \in Seq(U), NEW f, NEW taken,
           NEW S, S \subseteq DOMAIN Loops,
           NEW i \in S, \A j \in S : i <= j, Lays(opt, c, pre, f, S, taken)
    PROVE  /\ c # <<>> /\ Last(c) = LoopToken(opt, Loops[i], taken[Loops[i]])
           /\ Lays(opt, Front(c), pre, f, S \ {i}, taken)
<1> DEFINE from(k) == {j \in S : k <= j}
           n == Cardinality(S)
           p == Len(pre)
<1>1. /\ IsFiniteSet(S) /\ n \in Nat /\ S \subseteq Nat /\ n > 0
      /\ S \ {i} \subseteq DOMAIN Loops /\ IsFiniteSet(S \ {i})
  <2>1. S \ {i} \subseteq DOMAIN Loops
    OBVIOUS
  <2>2. QED
    BY <2>1, LoopsFinite
<1>2. Cardinality(S \ {i}) = n - 1
  BY <1>1, FS_RemoveElement
<1>3. /\ p \in Nat /\ Len(c) = p + 1 + n
      /\ \A k \in 1 .. p : c[k] = pre[k]
      /\ c[p + 1] = CalleeToken(f)
      /\ \A k \in S : c[p + 1 + Cardinality(from(k))] = LoopToken(opt, Loops[k], taken[Loops[k]])
  BY DEF Lays
<1> HIDE DEF n, p, from
<1>4. c # <<>>
  BY <1>1, <1>3
<1>5. /\ Len(Front(c)) = Len(c) - 1
      /\ \A k \in 1 .. Len(c) - 1 : Front(c)[k] = c[k]
  BY <1>4, FrontLast
<1>6. Last(c) = LoopToken(opt, Loops[i], taken[Loops[i]])
  <2>1. from(i) = S
    BY DEF from
  <2>2. p + 1 + Cardinality(from(i)) = Len(c)
    BY <1>1, <1>3, <2>1 DEF n
  <2>3. QED
    BY <1>3, <2>2 DEF Last
<1>7. ASSUME NEW k \in S \ {i}
      PROVE  /\ {j \in S \ {i} : k <= j} = from(k)
             /\ Front(c)[p + 1 + Cardinality(from(k))] = LoopToken(opt, Loops[k], taken[Loops[k]])
  <2>1. ~ k <= i
    BY <1>1
  <2>2. {j \in S \ {i} : k <= j} = from(k) /\ from(k) \subseteq S \ {i}
    BY <2>1 DEF from
  <2>3. Cardinality(from(k)) \in Nat /\ Cardinality(from(k)) <= n - 1
    BY <1>1, <1>2, <2>2, FS_Subset, FS_CardinalityType
  <2>4. p + 1 + Cardinality(from(k)) \in 1 .. Len(c) - 1
    BY <1>1, <1>3, <2>3
  <2>5. QED
    BY <1>3, <1>5, <2>2, <2>4
<1>8. /\ Len(Front(c)) = p + 1 + Cardinality(S \ {i})
      /\ \A k \in 1 .. p + 1 : Front(c)[k] = c[k]
  <2>1. p \in Nat /\ n \in Nat /\ n > 0 /\ Len(c) = p + 1 + n
    BY <1>1, <1>3
  <2>2. Len(Front(c)) = p + 1 + (n - 1)
    BY <1>5, <2>1
  <2>3. ASSUME NEW k \in 1 .. p + 1 PROVE Front(c)[k] = c[k]
    <3>1. k \in 1 .. Len(c) - 1
      BY <2>1
    <3>2. QED
      BY <1>5, <3>1
  <2>4. Len(Front(c)) = p + 1 + Cardinality(S \ {i})
    BY <1>2, <2>2
  <2>5. QED
    BY <2>3, <2>4
<1>9. /\ \A k \in 1 .. p : Front(c)[k] = pre[k]
      /\ Front(c)[p + 1] = CalleeToken(f)
  <2>1. \A k \in 1 .. p + 1 : Front(c)[k] = c[k]
    BY <1>8
  <2>2. p + 1 \in 1 .. p + 1 /\ \A k \in 1 .. p : k \in 1 .. p + 1
    BY <1>3
  <2>3. QED
    BY <1>3, <2>1, <2>2
<1>10. Lays(opt, Front(c), pre, f, S \ {i}, taken)
  BY <1>7, <1>8, <1>9 DEF Lays, p
<1>11. QED
  BY <1>4, <1>6, <1>10

(* A loop inside the others is entered.                                    *)
LEMMA LaysPush ==
    ASSUME NEW T, NEW U, NEW opt, NEW c \in Seq(T), NEW pre \in Seq(U), NEW f, NEW taken,
           NEW S, S \subseteq DOMAIN Loops,
           NEW i \in DOMAIN Loops, \A j \in S : i < j, Lays(opt, c, pre, f, S, taken)
    PROVE  Lays(opt, Append(c, LoopToken(opt, Loops[i], taken[Loops[i]])),
                pre, f, S \cup {i}, taken)
<1> DEFINE from(k) == {j \in S : k <= j}
           from1(k) == {j \in S \cup {i} : k <= j}
           n == Cardinality(S)
           p == Len(pre)
           token == LoopToken(opt, Loops[i], taken[Loops[i]])
           d == Append(c, token)
<1>1. IsFiniteSet(S) /\ n \in Nat /\ S \subseteq Nat /\ i \in Nat /\ i \notin S
  BY LoopsFinite, LoopAssumption
<1>2. Cardinality(S \cup {i}) = n + 1
  BY <1>1, FS_AddElement
<1>3. /\ p \in Nat /\ Len(c) = p + 1 + n
      /\ \A k \in 1 .. p : c[k] = pre[k]
      /\ c[p + 1] = CalleeToken(f)
      /\ \A k \in S : c[p + 1 + Cardinality(from(k))] = LoopToken(opt, Loops[k], taken[Loops[k]])
  BY DEF Lays
<1>4. /\ Len(d) = Len(c) + 1 /\ d[Len(c) + 1] = token
      /\ \A k \in 1 .. Len(c) : d[k] = c[k]
  OBVIOUS
<1> HIDE DEF n, p, from, from1, d, token
<1>5. ASSUME NEW k \in S
      PROVE  d[p + 1 + Cardinality(from1(k))] = LoopToken(opt, Loops[k], taken[Loops[k]])
  <2>1. from1(k) = from(k) /\ from(k) \subseteq S
    BY <1>1 DEF from, from1
  <2>2. Cardinality(from(k)) \in Nat /\ Cardinality(from(k)) <= n
    BY <1>1, <2>1, FS_Subset, FS_CardinalityType DEF n
  <2>3. p + 1 + Cardinality(from(k)) \in 1 .. Len(c)
    BY <1>1, <1>3, <2>2
  <2>4. QED
    BY <1>3, <1>4, <2>1, <2>3
<1>6. d[p + 1 + Cardinality(from1(i))] = token
  <2>1. from1(i) = S \cup {i}
    BY <1>1 DEF from1
  <2>2. p + 1 + Cardinality(from1(i)) = Len(c) + 1
    BY <1>1, <1>2, <1>3, <2>1
  <2>3. QED
    BY <1>4, <2>2
<1>7. Len(d) = p + 1 + Cardinality(S \cup {i})
  BY <1>1, <1>2, <1>3, <1>4
<1>8. /\ \A k \in 1 .. p : d[k] = pre[k]
      /\ d[p + 1] = CalleeToken(f)
  BY <1>1, <1>3, <1>4
<1>9. \A k \in S \cup {i} : d[p + 1 + Cardinality(from1(k))] = LoopToken(opt, Loops[k], taken[Loops[k]])
  BY <1>5, <1>6 DEF token
<1>10. QED
  BY <1>7, <1>8, <1>9 DEF Lays, p, from1, d, token

LEMMA LaysSame ==
    ASSUME NEW opt, NEW c, NEW pre, NEW f, NEW S, NEW taken, NEW taken1,
           \A i \in S : taken1[Loops[i]] = taken[Loops[i]], Lays(opt, c, pre, f, S, taken)
    PROVE  Lays(opt, c, pre, f, S, taken1)
BY DEF Lays

LEMMA LaysInnermost ==
    ASSUME NEW S, S \subseteq DOMAIN Loops, S # {}
    PROVE  \E i \in S : \A j \in S : i <= j
<1>1. S \subseteq Nat
  BY LoopsFinite
<1>2. QED
  BY <1>1, LeastNumber

(* Nothing else has that shape.                                            *)
LEMMA LaysUnique ==
    ASSUME NEW T, NEW U, NEW opt, NEW pre \in Seq(U), NEW f, NEW taken,
           NEW S, S \subseteq DOMAIN Loops, NEW c \in Seq(T), NEW d \in Seq(T),
           Lays(opt, c, pre, f, S, taken), Lays(opt, d, pre, f, S, taken)
    PROVE  c = d
<1> DEFINE Differ(A) == \E x, y \in Seq(T) : /\ Lays(opt, x, pre, f, A, taken)
                                             /\ Lays(opt, y, pre, f, A, taken)
                                             /\ x # y
           N == {n \in Nat : \E A \in SUBSET DOMAIN Loops : Cardinality(A) = n /\ Differ(A)}
<1>1. ASSUME N # {} PROVE FALSE
  <2>1. PICK n \in N : \A k \in N : n <= k
    BY <1>1, LeastNumber
  <2>2. PICK A \in SUBSET DOMAIN Loops : Cardinality(A) = n /\ Differ(A)
    BY <2>1
  <2>3. PICK x \in Seq(T), y \in Seq(T) : /\ Lays(opt, x, pre, f, A, taken)
                                          /\ Lays(opt, y, pre, f, A, taken)
                                          /\ x # y
    BY <2>2
  <2>4. CASE A = {}
    <3>1. Cardinality(A) = 0
      BY <2>4, FS_EmptySet
    <3>2. Len(pre) \in Nat
      OBVIOUS
    <3>3. Len(x) = Len(pre) + 1 /\ Len(y) = Len(pre) + 1
      BY <2>3, <3>1, <3>2 DEF Lays
    <3>4. ASSUME NEW k \in 1 .. Len(pre) + 1 PROVE x[k] = y[k]
      <4>1. k \in 1 .. Len(pre) \/ k = Len(pre) + 1
        BY <3>2
      <4>2. QED
        BY <2>3, <4>1 DEF Lays
    <3>5. QED
      BY <2>3, <3>3, <3>4, SeqEqual
  <2>5. CASE A # {}
    <3>1. PICK i \in A : \A j \in A : i <= j
      BY <2>5, LaysInnermost
    <3> DEFINE B == A \ {i}
    <3>2. /\ x # <<>> /\ Last(x) = LoopToken(opt, Loops[i], taken[Loops[i]])
          /\ Lays(opt, Front(x), pre, f, B, taken)
      BY <2>3, <3>1, LaysPop
    <3>3. /\ y # <<>> /\ Last(y) = LoopToken(opt, Loops[i], taken[Loops[i]])
          /\ Lays(opt, Front(y), pre, f, B, taken)
      BY <2>3, <3>1, LaysPop
    <3>4. /\ x = Append(Front(x), Last(x)) /\ Front(x) \in Seq(T)
          /\ y = Append(Front(y), Last(y)) /\ Front(y) \in Seq(T)
      BY <3>2, <3>3, ListSplit
    <3>5. Front(x) # Front(y)
      BY <2>3, <3>2, <3>3, <3>4
    <3>6. B \in SUBSET DOMAIN Loops /\ Cardinality(B) = n - 1 /\ n - 1 \in Nat
      <4>1. IsFiniteSet(A) /\ n \in Nat /\ n # 0
        BY <2>2, <2>5, LoopsFinite
      <4>2. Cardinality(B) = n - 1
        BY <2>2, <4>1, FS_RemoveElement
      <4>3. QED
        BY <4>1, <4>2
    <3>7. Differ(B)
      BY <3>2, <3>3, <3>4, <3>5
    <3> HIDE DEF B, Differ
    <3>8. n - 1 \in N
      BY <3>6, <3>7
    <3>9. QED
      BY <2>1, <3>6, <3>8
  <2>6. QED
    BY <2>4, <2>5
<1>2. SUFFICES ASSUME c # d PROVE FALSE
  OBVIOUS
<1>3. Differ(S)
  BY <1>2
<1>4. Cardinality(S) \in Nat
  BY LoopsFinite
<1> HIDE DEF Differ
<1>5. QED
  BY <1>1, <1>3, <1>4

TakenOn(opt, b, t, taken) ==
    [l \in Range(Loops) |->
        IF {b, t} \subseteq Body[l]
        THEN IF t = Header[l] /\ taken[l] < opt.loopPeel THEN taken[l] + 1 ELSE taken[l]
        ELSE 0]

TakenType(opt) == [Range(Loops) -> 0 .. opt.loopPeel]

LEMMA TakenOnType ==
    ASSUME NEW opt \in OptionType, NEW b, NEW t, NEW taken \in TakenType(opt)
    PROVE  TakenOn(opt, b, t, taken) \in TakenType(opt)
<1>1. opt.loopPeel \in Nat
  BY DEF OptionType
<1>2. \A l \in Range(Loops) : taken[l] \in 0 .. opt.loopPeel
  BY DEF TakenType
<1>3. QED
  BY <1>1, <1>2 DEF TakenType, TakenOn

(* Taking a back edge exchanges the token on top for the next one of the   *)
(* same loop; what the block and the target share is all there is left.    *)
LEMMA TransferLays ==
    ASSUME NEW opt \in OptionType, NEW T, NEW U, NEW c \in Seq(T), NEW pre \in Seq(U), NEW f,
           NEW taken \in TakenType(opt), NEW S, S \subseteq DOMAIN Loops, NEW b, NEW t,
           \A i \in S : b \in Body[Loops[i]] /\ t \in Body[Loops[i]],
           Lays(opt, c, pre, f, S, taken)
    PROVE  Lays(opt, Transfer(opt, c, <<b, t>>), pre, f, S, TakenOn(opt, b, t, taken))
<1> DEFINE next == TakenOn(opt, b, t, taken)
           edge == <<b, t>>
<1>1. /\ opt.loopPeel \in Nat
      /\ \A i \in S : Loops[i] \in Range(Loops) /\ taken[Loops[i]] \in 0 .. opt.loopPeel
  BY LoopsDiffer DEF OptionType, TakenType
<1>2. \A i \in S : next[Loops[i]] = IF t = Header[Loops[i]] /\ taken[Loops[i]] < opt.loopPeel
                                    THEN taken[Loops[i]] + 1 ELSE taken[Loops[i]]
  BY <1>1 DEF TakenOn
<1> HIDE DEF next
<1>3. CASE S = {}
  <2>1. Cardinality(S) = 0 /\ Len(pre) \in Nat
    BY <1>3, FS_EmptySet
  <2>2. Last(c) = CalleeToken(f)
    BY <2>1 DEF Lays, Last
  <2>3. Transfer(opt, c, edge) = c
    BY <2>2 DEF Transfer, CalleeToken
  <2>4. QED
    BY <1>3, <2>3, LaysSame DEF next
<1>4. CASE S # {}
  <2>1. PICK i \in S : \A j \in S : i <= j
    BY <1>4, LaysInnermost
  <2> DEFINE l == Loops[i]
  <2>2. /\ c # <<>> /\ Last(c) = LoopToken(opt, l, taken[l])
        /\ Lays(opt, Front(c), pre, f, S \ {i}, taken)
    BY <2>1, LaysPop
  <2>3. Front(c) \in Seq(T)
    BY <2>2, FrontLast
  <2>4. /\ Last(c).of = l /\ Last(c).taken = taken[l]
        /\ Last(c).kind = "LOOPPEEL" <=> taken[l] < opt.loopPeel
    BY <2>2 DEF LoopToken
  <2>5. edge \in BackEdges(l) <=> t = Header[l]
    BY <2>1 DEF BackEdges
  <2>6. ASSUME NEW k \in S \ {i} PROVE i < k /\ next[Loops[k]] = taken[Loops[k]]
    <3>1. i < k
      <4>1. i \in Nat /\ k \in Nat /\ i <= k /\ i # k
        BY <2>1, LoopsFinite
      <4>2. QED
        BY <4>1
    <3>2. Header[Loops[k]] \notin Body[Loops[i]] /\ t \in Body[Loops[i]]
      BY <3>1, NestingAssumption
    <3>3. QED
      BY <1>2, <3>1, <3>2
  <2>7. CASE t = Header[l] /\ taken[l] < opt.loopPeel
    <3>1. next[l] = taken[l] + 1
      BY <1>2, <2>7
    <3>2. Transfer(opt, c, edge) = Append(Front(c), LoopToken(opt, l, next[l]))
      BY <2>2, <2>4, <2>5, <2>7, <3>1 DEF Transfer
    <3>3. Lays(opt, Front(c), pre, f, S \ {i}, next)
      BY <2>2, <2>6, LaysSame
    <3>4. Lays(opt, Append(Front(c), LoopToken(opt, l, next[l])), pre, f, (S \ {i}) \cup {i}, next)
      <4>1. S \ {i} \subseteq DOMAIN Loops /\ i \in DOMAIN Loops
        OBVIOUS
      <4>2. QED
        BY <2>3, <2>6, <3>3, <4>1, LaysPush
    <3>5. (S \ {i}) \cup {i} = S
      OBVIOUS
    <3>6. QED
      BY <3>2, <3>4, <3>5 DEF next
  <2>8. CASE ~ (t = Header[l] /\ taken[l] < opt.loopPeel)
    <3>1. Transfer(opt, c, edge) = c
      BY <2>4, <2>5, <2>8 DEF Transfer
    <3>2. \A k \in S : next[Loops[k]] = taken[Loops[k]]
      BY <1>2, <2>6, <2>8
    <3>3. QED
      BY <3>1, <3>2, LaysSame DEF next
  <2>9. QED
    BY <2>7, <2>8
<1>5. QED
  BY <1>3, <1>4

(* Of the loops that an edge leaves the inner ones come first, so that the *)
(* token of each is on top when its turn comes.                            *)
LEMMA LeaveLoopsLays ==
    ASSUME NEW T, NEW U, NEW opt \in OptionType, opt.loopPeel # 0, NEW c \in Seq(T),
           NEW pre \in Seq(U), NEW f, NEW taken \in TakenType(opt),
           NEW b \in Blocks, NEW t \in Blocks, Lays(opt, c, pre, f, Around(opt, b), taken)
    PROVE  Lays(opt, LeaveLoops(opt, c, <<b, t>>), pre, f,
                {i \in Around(opt, b) : t \in Body[Loops[i]]}, taken)
<1> DEFINE n == Len(Loops)
           Stays(i) == t \in Body[Loops[i]]
           after(k) == {i \in Around(opt, b) : Stays(i) \/ k < i}
<1>1. n \in Nat /\ DOMAIN Loops = 1 .. n
  BY LoopAssumption
<1>2. PICK left : /\ IsLeaving(left, opt, c, <<b, t>>, n)
                  /\ LeaveLoops(opt, c, <<b, t>>) = left[n]
  BY LeavingIs
<1> HIDE DEF n
<1>3. Around(opt, b) = {i \in DOMAIN Loops : b \in Body[Loops[i]]}
  BY DEF Around
<1> DEFINE V == {k \in 0 .. n : ~ (left[k] \in Seq(T) /\ Lays(opt, left[k], pre, f, after(k), taken))}
<1>4. ASSUME NEW k \in 0 .. n
      PROVE  left[k] = IF k = 0 THEN c
                       ELSE IF <<b, t>> \in ExitingEdges(Loops[k])
                            THEN Merge(left[k - 1], LoopTokens(opt, Loops[k])) ELSE left[k - 1]
  BY <1>1, <1>2 DEF IsLeaving
<1>5. after(n) = {i \in Around(opt, b) : t \in Body[Loops[i]]}
  BY <1>1, <1>3
<1>6. SUFFICES ASSUME V # {} PROVE FALSE
  <2>1. n \in 0 .. n
    BY <1>1
  <2>2. QED
    BY <1>2, <1>5, <2>1
<1>7. PICK k \in V : \A j \in V : k <= j
  <2>1. V \subseteq Nat
    BY <1>1
  <2>2. QED
    BY <1>6, <2>1, LeastNumber
<1>8. k # 0
  <2>1. after(0) = Around(opt, b)
    BY <1>1, <1>3
  <2>2. 0 \in 0 .. n /\ left[0] = c
    BY <1>1, <1>4
  <2>3. QED
    BY <1>7, <2>1, <2>2
<1> DEFINE S == after(k - 1)
           d == left[k - 1]
<1>9. k \in 1 .. n /\ k - 1 \in 0 .. n /\ d \in Seq(T) /\ Lays(opt, d, pre, f, S, taken)
  <2>1. k \in 1 .. n /\ k - 1 \in 0 .. n /\ ~ k <= k - 1
    BY <1>1, <1>7, <1>8
  <2>2. k - 1 \notin V
    BY <1>7, <2>1
  <2>3. QED
    BY <2>1, <2>2
<1>10. <<b, t>> \in ExitingEdges(Loops[k]) <=> k \in Around(opt, b) /\ ~ Stays(k)
  <2>1. k \in DOMAIN Loops /\ Loops[k] \in Range(Loops)
    BY <1>1, <1>9, LoopsDiffer
  <2>2. Body[Loops[k]] \subseteq Blocks
    BY <2>1, LoopAssumption
  <2>3. QED
    BY <1>3, <2>1, <2>2 DEF ExitingEdges
<1>11. CASE <<b, t>> \notin ExitingEdges(Loops[k])
  <2>1. after(k) = S
    <3>1. k \notin Around(opt, b) \/ Stays(k)
      BY <1>10, <1>11
    <3>2. \A i \in Around(opt, b) : i \in Nat
      BY <1>1, <1>3
    <3>3. \A i \in Around(opt, b) : (Stays(i) \/ k < i) <=> (Stays(i) \/ k - 1 < i)
      BY <1>9, <3>1, <3>2
    <3>4. QED
      BY <3>3
  <2>2. left[k] = d
    BY <1>4, <1>9, <1>11
  <2>3. QED
    BY <1>7, <1>9, <2>1, <2>2
<1>12. CASE <<b, t>> \in ExitingEdges(Loops[k])
  <2>1. k \in Around(opt, b) /\ ~ Stays(k)
    BY <1>10, <1>12
  <2>2. S \subseteq DOMAIN Loops /\ k \in S
    BY <1>3, <1>9, <2>1
  <2>3. ASSUME NEW i \in S PROVE k <= i
    <3>1. i \in 1 .. n /\ b \in Body[Loops[i]] /\ (Stays(i) \/ k - 1 < i)
      BY <1>1, <1>3
    <3>2. CASE k - 1 < i
      BY <1>9, <3>1, <3>2
    <3>3. CASE Stays(i) /\ i < k
      <4>1. b \in Body[Loops[k]]
        BY <1>3, <2>1
      <4>2. Body[Loops[i]] \subseteq Body[Loops[k]]
        BY <1>1, <1>9, <3>1, <3>3, <4>1, NestingAssumption
      <4>3. QED
        BY <2>1, <3>3, <4>2
    <3>4. QED
      BY <1>9, <3>1, <3>2, <3>3
  <2>4. /\ d # <<>> /\ Last(d) = LoopToken(opt, Loops[k], taken[Loops[k]])
        /\ Lays(opt, Front(d), pre, f, S \ {k}, taken)
    BY <1>9, <2>2, <2>3, LaysPop
  <2>5. Last(d) \in LoopTokens(opt, Loops[k])
    <3>1. taken[Loops[k]] \in 0 .. opt.loopPeel
      BY <2>2, LoopsDiffer DEF TakenType
    <3>2. QED
      BY <2>4, <3>1 DEF LoopTokens
  <2>6. left[k] = Front(d)
    BY <1>4, <1>9, <1>12, <2>4, <2>5 DEF Merge
  <2>7. after(k) = S \ {k}
    <3>1. \A i \in Around(opt, b) : i \in Nat
      BY <1>1, <1>3
    <3>2. ASSUME NEW i \in Around(opt, b)
          PROVE  (Stays(i) \/ k < i) <=> ((Stays(i) \/ k - 1 < i) /\ i # k)
      <4>1. i = k => ~ Stays(i)
        BY <2>1
      <4>2. k \in Int /\ i \in Int
        BY <1>9, <3>1
      <4> HIDE DEF Stays
      <4>3. QED
        BY <4>1, <4>2
    <3>3. QED
      BY <3>2
  <2>8. Front(d) \in Seq(T)
    BY <1>9, <2>4, FrontLast
  <2>9. QED
    BY <1>7, <2>4, <2>6, <2>7, <2>8
<1>13. QED
  BY <1>11, <1>12

LEMMA EnterLoopsLays ==
    ASSUME NEW T, NEW U, NEW opt \in OptionType, opt.loopPeel # 0, NEW c \in Seq(T),
           NEW pre \in Seq(U), NEW f, NEW next, NEW b \in Blocks, NEW t \in Blocks,
           \A l \in Range(Loops) : b \notin Body[l] => next[l] = 0,
           Lays(opt, c, pre, f, {i \in Around(opt, b) : t \in Body[Loops[i]]}, next),
           \A l \in Range(Loops) : b \notin Body[l] /\ t \in Body[l] => t = Header[l]
    PROVE  Lays(opt, EnterLoopsTo(opt, c, <<b, t>>), pre, f, Around(opt, t), next)
<1> DEFINE S == {i \in Around(opt, b) : t \in Body[Loops[i]]}
           entered == {l \in Range(Loops) : <<b, t>> \in IncomingEdges(l)}
           l == CHOOSE k \in entered : TRUE
<1>1. /\ DOMAIN Loops \subseteq Nat /\ S \subseteq DOMAIN Loops
      /\ \A i : i \in Around(opt, b) <=> i \in DOMAIN Loops /\ b \in Body[Loops[i]]
      /\ \A i : i \in Around(opt, t) <=> i \in DOMAIN Loops /\ t \in Body[Loops[i]]
  BY LoopAssumption DEF Around
<1>2. \A k : k \in entered <=> k \in Range(Loops) /\ b \notin Body[k] /\ t = Header[k]
  BY DEF IncomingEdges
<1>3. \A i \in DOMAIN Loops : Loops[i] \in Range(Loops)
  BY DEF Range
<1>4. CASE entered = {}
  <2>1. Around(opt, t) = S
    BY <1>1, <1>2, <1>3, <1>4
  <2>2. EnterLoopsTo(opt, c, <<b, t>>) = c
    BY <1>4 DEF EnterLoopsTo
  <2>3. QED
    BY <2>1, <2>2
<1>5. CASE entered # {}
  <2>1. l \in entered
    BY <1>5
  <2>2. EnterLoopsTo(opt, c, <<b, t>>) = Append(c, LoopToken(opt, l, 0))
    BY <1>5 DEF EnterLoopsTo
  <2> HIDE DEF l, entered
  <2>3. PICK i \in DOMAIN Loops : l = Loops[i]
    BY <1>2, <2>1 DEF Range
  <2>4. b \notin Body[Loops[i]] /\ t = Header[Loops[i]] /\ t \in Body[Loops[i]] /\ next[l] = 0
    BY <1>2, <1>3, <2>1, <2>3, LoopAssumption
  <2>5. \A j \in DOMAIN Loops : t = Header[Loops[j]] => j = i
    BY <2>4, LoopsDiffer
  <2>6. Around(opt, t) = S \cup {i}
    <3>1. \A j \in Around(opt, t) : j \in S \/ j = i
      BY <1>1, <1>3, <2>5
    <3>2. S \cup {i} \subseteq Around(opt, t)
      BY <1>1, <2>4
    <3>3. QED
      BY <3>1, <3>2
  <2>7. ASSUME NEW j \in S PROVE i < j
    <3>1. j \in DOMAIN Loops /\ b \in Body[Loops[j]] /\ t \in Body[Loops[j]] /\ j # i
      BY <1>1, <2>4
    <3>2. ~ j < i
      BY <1>1, <2>4, <3>1, NestingAssumption
    <3>3. QED
      BY <1>1, <3>1, <3>2
  <2>8. Lays(opt, c, pre, f, S, next) /\ S \subseteq DOMAIN Loops
    BY <1>1
  <2> HIDE DEF S
  <2>9. Lays(opt, Append(c, LoopToken(opt, Loops[i], next[Loops[i]])), pre, f, S \cup {i}, next)
    BY <2>7, <2>8, LaysPush
  <2>10. QED
    BY <2>2, <2>3, <2>4, <2>6, <2>9
<1>6. QED
  BY <1>4, <1>5

(* Along an edge of the control flow the tokens count the iterations.      *)
LEMMA EdgeContextLays ==
    ASSUME NEW opt \in OptionType, NEW c \in Seq(Token(opt)), NEW U, NEW pre \in Seq(U), NEW f,
           NEW taken \in TakenType(opt), NEW b \in Blocks, NEW t \in Blocks,
           Lays(opt, c, pre, f, Around(opt, b), taken),
           \A l \in Range(Loops) : b \notin Body[l] /\ t \in Body[l] => t = Header[l]
    PROVE  Lays(opt, EdgeContext(opt, c, <<b, t>>), pre, f, Around(opt, t),
                TakenOn(opt, b, t, taken))
<1> DEFINE edge == <<b, t>>
           left == LeaveLoops(opt, c, edge)
           next == TakenOn(opt, b, t, taken)
           S == {i \in Around(opt, b) : t \in Body[Loops[i]]}
<1>1. left \in Seq(Token(opt)) /\ Transfer(opt, left, edge) \in Seq(Token(opt))
  BY LeaveLoopsType, TransferType
<1>2. CASE opt.loopPeel = 0
  <2>1. Around(opt, b) = {} /\ Around(opt, t) = {} /\ left = c
    BY <1>2 DEF Around, LeaveLoops
  <2>2. Lays(opt, Transfer(opt, left, edge), pre, f, {}, next)
    BY <2>1, TransferLays
  <2>3. QED
    BY <1>2, <2>1, <2>2 DEF EdgeContext, EnterLoopsTo
<1>3. CASE opt.loopPeel # 0
  <2>1. S \subseteq DOMAIN Loops /\ \A i \in S : b \in Body[Loops[i]] /\ t \in Body[Loops[i]]
    BY DEF Around
  <2>2. Lays(opt, left, pre, f, S, taken)
    BY <1>3, LeaveLoopsLays
  <2> HIDE DEF S, left
  <2>3. Lays(opt, Transfer(opt, left, edge), pre, f, S, next)
    BY <1>1, <2>1, <2>2, TransferLays
  <2>4. \A l \in Range(Loops) : b \notin Body[l] => next[l] = 0
    BY DEF TakenOn
  <2> HIDE DEF next
  <2>5. Lays(opt, EnterLoopsTo(opt, Transfer(opt, left, edge), edge), pre, f, Around(opt, t), next)
    BY <1>1, <1>3, <2>3, <2>4, EnterLoopsLays DEF S
  <2>6. QED
    BY <2>5 DEF EdgeContext, left, next
<1>4. QED
  BY <1>2, <1>3

(* A context fits if it has the exact shape for some numbers of iterations. *)
LEMMA LaysFits ==
    ASSUME NEW opt \in OptionType, NEW U, NEW pre \in Seq(U), NEW c, NEW f,
           NEW taken \in TakenType(opt), NEW S, S \subseteq DOMAIN Loops,
           Lays(opt, c, pre, f, S, taken)
    PROVE  Fits(opt, c, f, S)
<1>1. Cardinality(S) \in Nat /\ Len(pre) \in Nat
  BY LoopsFinite
<1>2. Len(c) - Cardinality(S) = Len(pre) + 1
  BY <1>1 DEF Lays
<1>3. ASSUME NEW i \in S
      PROVE  c[Len(pre) + 1 + Cardinality({j \in S : i <= j})] \in LoopTokens(opt, Loops[i])
  <2>1. taken[Loops[i]] \in 0 .. opt.loopPeel
    BY LoopsDiffer DEF TakenType
  <2>2. QED
    BY <2>1 DEF Lays, LoopTokens
<1>4. Len(pre) + 1 > 0 /\ c[Len(pre) + 1] = CalleeToken(f)
  BY <1>1 DEF Lays
<1>5. QED
  BY <1>2, <1>3, <1>4 DEF Fits

LEMMA FitsLays ==
    ASSUME NEW opt \in OptionType, NEW T, NEW c \in Seq(T), NEW f,
           NEW S, S \subseteq DOMAIN Loops, Fits(opt, c, f, S)
    PROVE  \E pre \in Seq(T) : \E taken \in TakenType(opt) : Lays(opt, c, pre, f, S, taken)
<1> DEFINE top == Len(c) - Cardinality(S)
           at(i) == c[top + Cardinality({j \in S : i <= j})]
           Has(l, k) == \E i \in S : Loops[i] = l /\ at(i) = LoopToken(opt, l, k)
           taken == [l \in Range(Loops) |->
                        CHOOSE k \in 0 .. opt.loopPeel : (\E m \in 0 .. opt.loopPeel : Has(l, m)) => Has(l, k)]
           pre == SubSeq(c, 1, top - 1)
<1>1. /\ Cardinality(S) \in Nat /\ Len(c) \in Nat /\ opt.loopPeel \in Nat
      /\ top > 0 /\ c[top] = CalleeToken(f)
      /\ \A i \in S : at(i) \in LoopTokens(opt, Loops[i])
  BY LoopsFinite DEF Fits, OptionType
<1> HIDE DEF at
<1>2. ASSUME NEW l \in Range(Loops)
      PROVE  /\ taken[l] \in 0 .. opt.loopPeel
             /\ (\E m \in 0 .. opt.loopPeel : Has(l, m)) => Has(l, taken[l])
  <2> HIDE DEF Has
  <2>1. \E k \in 0 .. opt.loopPeel : (\E m \in 0 .. opt.loopPeel : Has(l, m)) => Has(l, k)
    <3>1. 0 \in 0 .. opt.loopPeel
      BY <1>1
    <3>2. QED
      BY <3>1
  <2>2. QED
    BY <2>1
<1>3. taken \in TakenType(opt)
  BY <1>2 DEF TakenType
<1> HIDE DEF taken
<1>4. ASSUME NEW i \in S PROVE at(i) = LoopToken(opt, Loops[i], taken[Loops[i]])
  <2>1. \E m \in 0 .. opt.loopPeel : at(i) = LoopToken(opt, Loops[i], m)
    BY <1>1 DEF LoopTokens
  <2>2. Loops[i] \in Range(Loops)
    BY LoopsDiffer
  <2>3. Has(Loops[i], taken[Loops[i]])
    BY <1>2, <2>1, <2>2
  <2>4. PICK j \in S : Loops[j] = Loops[i] /\ at(j) = LoopToken(opt, Loops[i], taken[Loops[i]])
    BY <2>3
  <2>5. j = i
    BY <2>4, LoopsDiffer
  <2>6. QED
    BY <2>4, <2>5
<1>5. /\ pre \in Seq(T) /\ Len(pre) = top - 1
      /\ \A k \in 1 .. top - 1 : pre[k] = c[k]
  <2>1. top - 1 \in 0 .. Len(c) /\ top \in Int
    BY <1>1
  <2> HIDE DEF top
  <2>2. QED
    BY <2>1
<1>6. Len(pre) + 1 = top /\ Len(c) = top + Cardinality(S)
  BY <1>1, <1>5
<1> HIDE DEF pre, top
<1>7. Lays(opt, c, pre, f, S, taken)
  BY <1>1, <1>4, <1>5, <1>6 DEF Lays, at
<1>8. QED
  BY <1>3, <1>5, <1>7

LEMMA EdgeContextFits ==
    ASSUME NEW opt \in OptionType, NEW c \in Seq(Token(opt)), NEW f,
           NEW b \in Blocks, NEW t \in Blocks, Fits(opt, c, f, Around(opt, b)),
           \A l \in Range(Loops) : b \notin Body[l] /\ t \in Body[l] => t = Header[l]
    PROVE  Fits(opt, EdgeContext(opt, c, <<b, t>>), f, Around(opt, t))
<1>1. Around(opt, b) \subseteq DOMAIN Loops /\ Around(opt, t) \subseteq DOMAIN Loops
  BY DEF Around
<1>2. PICK pre \in Seq(Token(opt)), taken \in TakenType(opt) :
          Lays(opt, c, pre, f, Around(opt, b), taken)
  BY <1>1, FitsLays
<1>3. Lays(opt, EdgeContext(opt, c, <<b, t>>), pre, f, Around(opt, t), TakenOn(opt, b, t, taken))
  BY <1>2, EdgeContextLays
<1>4. QED
  BY <1>1, <1>3, TakenOnType, LaysFits

-----------------------------------------------------------------------------
(* Joining flows.                                                          *)

(* A flow has arrived after it was joined.                                 *)
LEMMA JoinedCovers ==
    ASSUME NEW maps, NEW flows, NEW f \in flows, f[1] \in DOMAIN maps
    PROVE  Covers(JoinedTo(maps, flows), f)
<1> DEFINE old == maps[f[1]]
           to == {g \in flows : g[1] = f[1]}
           at(c) == FindEarly(old, c) \cup UNION {g[3] : g \in {h \in to : h[2] = c}}
<1>1. f \in to
  OBVIOUS
<1>2. JoinedTo(maps, flows)[f[1]] = [c \in DOMAIN old \cup {g[2] : g \in to} |-> at(c)]
  BY <1>1 DEF JoinedTo
<1>3. f[2] \in DOMAIN old \cup {g[2] : g \in to}
  BY <1>1
<1>4. f[3] \subseteq at(f[2])
  BY <1>1
<1>5. QED
  BY <1>2, <1>3, <1>4 DEF Covers

(* What was there is kept.                                                 *)
LEMMA JoinedGrows ==
    ASSUME NEW maps, NEW flows, NEW x \in DOMAIN maps, NEW c \in DOMAIN maps[x]
    PROVE  /\ c \in DOMAIN JoinedTo(maps, flows)[x]
           /\ maps[x][c] \subseteq JoinedTo(maps, flows)[x][c]
<1> DEFINE to == {g \in flows : g[1] = x}
           at(d) == FindEarly(maps[x], d) \cup UNION {g[3] : g \in {h \in to : h[2] = d}}
<1>1. CASE to = {}
  BY <1>1 DEF JoinedTo
<1>2. CASE to # {}
  <2>1. JoinedTo(maps, flows)[x] = [d \in DOMAIN maps[x] \cup {g[2] : g \in to} |-> at(d)]
    BY <1>2 DEF JoinedTo
  <2>2. maps[x][c] \subseteq at(c)
    BY DEF FindEarly
  <2>3. QED
    BY <2>1, <2>2
<1>3. QED
  BY <1>1, <1>2

(* What is not reported as changed is as it was.                           *)
LEMMA JoinedSame ==
    ASSUME NEW maps, NEW flows, NEW x \in DOMAIN maps,
           NEW c \in DOMAIN JoinedTo(maps, flows)[x],
           <<x, c>> \notin ChangedBy(maps, flows)
    PROVE  /\ c \in DOMAIN maps[x]
           /\ JoinedTo(maps, flows)[x][c] = maps[x][c]
<1> DEFINE to == {g \in flows : g[1] = x}
           at(d) == FindEarly(maps[x], d) \cup UNION {g[3] : g \in {h \in to : h[2] = d}}
<1>1. CASE to = {}
  BY <1>1 DEF JoinedTo
<1>2. CASE to # {}
  <2>1. JoinedTo(maps, flows)[x] = [d \in DOMAIN maps[x] \cup {g[2] : g \in to} |-> at(d)]
    BY <1>2 DEF JoinedTo
  <2>2. ASSUME NEW g \in to, g[2] = c
        PROVE  c \in DOMAIN maps[x] /\ g[3] \subseteq maps[x][c]
    <3>1. <<g[1], g[2]>> = <<x, c>>
      BY <2>2
    <3>2. Covers(maps, g)
      BY <3>1 DEF ChangedBy
    <3>3. QED
      BY <3>2, <2>2 DEF Covers
  <2>3. c \in DOMAIN maps[x]
    BY <2>1, <2>2
  <2>4. at(c) = maps[x][c]
    BY <2>2, <2>3 DEF FindEarly
  <2>5. QED
    BY <2>1, <2>3, <2>4
<1>3. QED
  BY <1>1, <1>2

LEMMA CoversGrows ==
    ASSUME NEW maps, NEW flows, NEW f, f[1] \in DOMAIN maps, Covers(maps, f)
    PROVE  Covers(JoinedTo(maps, flows), f)
<1>1. f[2] \in DOMAIN maps[f[1]] /\ f[3] \subseteq maps[f[1]][f[2]]
  BY DEF Covers
<1>2. /\ f[2] \in DOMAIN JoinedTo(maps, flows)[f[1]]
      /\ maps[f[1]][f[2]] \subseteq JoinedTo(maps, flows)[f[1]][f[2]]
  BY <1>1, JoinedGrows
<1>3. QED
  BY <1>1, <1>2 DEF Covers

LEMMA JoinedOne ==
    ASSUME NEW maps, NEW flows, NEW x \in DOMAIN maps, NEW c, NEW v, flows = {<<x, c, v>>}
    PROVE  JoinedTo(maps, flows)[x][c] = FindEarly(maps[x], c) \cup v
<1> DEFINE to == {g \in flows : g[1] = x}
           at(d) == FindEarly(maps[x], d) \cup UNION {g[3] : g \in {h \in to : h[2] = d}}
<1>1. to = flows /\ to # {}
  <2>1. \A g \in flows : g[1] = x
    OBVIOUS
  <2>2. <<x, c, v>> \in flows
    OBVIOUS
  <2>3. QED
    BY <2>1, <2>2
<1>2. JoinedTo(maps, flows)[x] = [d \in DOMAIN maps[x] \cup {g[2] : g \in to} |-> at(d)]
  BY <1>1 DEF JoinedTo
<1>3. c \in {g[2] : g \in to} /\ at(c) = FindEarly(maps[x], c) \cup v
  BY <1>1
<1>4. QED
  BY <1>2, <1>3

LEMMA JoinedDomain ==
    ASSUME NEW maps, NEW flows PROVE DOMAIN JoinedTo(maps, flows) = DOMAIN maps
BY DEF JoinedTo

-----------------------------------------------------------------------------
(* The invariant: information for every place, items that are blocks and   *)
(* contexts, and the worklist complete.                                    *)
Shape ==
    /\ DOMAIN mbb2anainfo = Blocks
    /\ DOMAIN funcIn = Functions
    /\ DOMAIN funcOut = Functions
    /\ \A item \in worklist : item = <<item[1], item[2]>> /\ item[1] \in Blocks

(* Where the flows of a block go.                                          *)
LEMMA FlowPlaces ==
    ASSUME NEW b \in Blocks, NEW c
    PROVE  /\ \A f \in FromFunctionIn(b, c) : f[1] = b /\ f[2] = c
           /\ \A f \in ToSuccessors(b, c) : f[1] \in Blocks
           /\ \A f \in ToCallee(b, c) : f[1] \in Functions
           /\ \A f \in ToExit(b, c) : f[1] \in Functions
<1>1. \A f \in FromFunctionIn(b, c) : f[1] = b /\ f[2] = c
  BY DEF FromFunctionIn
<1>2. ASSUME NEW f \in ToSuccessors(b, c) PROVE f[1] \in Blocks
  <2>1. DOMAIN Branches[b] \subseteq Blocks /\ Layout[b] \subseteq Blocks
    BY ProgramAssumption
  <2> DEFINE taken(t) == <<t, EdgeContext(options, c, <<b, t>>), AfterCall(b, c) \cap Branches[b][t]>>
             fallen(t) == <<t, EdgeContext(options, c, <<b, t>>), AfterCall(b, c) \cap FallsThrough[b]>>
  <2>2. f \in {taken(t) : t \in DOMAIN Branches[b]} \cup {fallen(t) : t \in Layout[b]}
    BY <1>2 DEF ToSuccessors
  <2>3. CASE f \in {taken(t) : t \in DOMAIN Branches[b]}
    <3>1. PICK t \in DOMAIN Branches[b] : f = taken(t)
      BY <2>3
    <3>2. QED
      BY <2>1, <3>1
  <2>4. CASE f \in {fallen(t) : t \in Layout[b]}
    <3>1. PICK t \in Layout[b] : f = fallen(t)
      BY <2>4
    <3>2. QED
      BY <2>1, <3>1
  <2>5. QED
    BY <2>2, <2>3, <2>4
<1>3. \A f \in ToCallee(b, c) : f[1] \in Functions
  BY DEF ToCallee
<1>4. \A f \in ToExit(b, c) : f[1] \in Functions
  BY LoopAssumption DEF ToExit
<1>5. QED
  BY <1>1, <1>2, <1>3, <1>4

(* The flows of a block depend on what it starts with and on what is known *)
(* at the exit of its callee.                                              *)
LEMMA FlowsSame ==
    ASSUME NEW b \in Blocks, NEW c,
           options' = options, BlockIn(b, c)' = BlockIn(b, c),
           Callee[b] \in Functions =>
               FindEarly(funcOut[Callee[b]], CallContext(options, c, b))'
                   = FindEarly(funcOut[Callee[b]], CallContext(options, c, b))
    PROVE  /\ ToSuccessors(b, c)' = ToSuccessors(b, c)
           /\ ToCallee(b, c)' = ToCallee(b, c)
           /\ ToExit(b, c)' = ToExit(b, c)
<1>1. BeforeCall(b, c)' = BeforeCall(b, c)
  BY DEF BeforeCall
<1>2. Callee[b] \in Functions \/ Callee[b] = NoCall \/ Callee[b] = External
  BY ProgramAssumption
<1>3. AfterCall(b, c)' = AfterCall(b, c)
  BY <1>1, <1>2 DEF AfterCall
<1>4. QED
  BY <1>1, <1>3 DEF ToSuccessors, ToCallee, ToExit

(* One block is analysed: whatever changes is on the worklist afterwards,  *)
(* and everything else is as complete as it was.                           *)
LEMMA AnalyseComplete ==
    ASSUME Shape, WorklistComplete, options' = options,
           NEW at \in Blocks, NEW ctx, <<at, ctx>> \in worklist, Analyse(at, ctx)
    PROVE  Shape' /\ WorklistComplete'
<1> DEFINE blocks == WithEntryInfo(at, ctx)
           succ == ToSuccessors(at, ctx)
           call == ToCallee(at, ctx)
           exit == ToExit(at, ctx)
           entered == FromFunctionIn(at, ctx)
<1>1. /\ HasInfo(at, ctx)
      /\ blocks = JoinedTo(mbb2anainfo, entered)
      /\ mbb2anainfo' = JoinedTo(blocks, succ)
      /\ funcIn' = JoinedTo(funcIn, call)
      /\ funcOut' = JoinedTo(funcOut, exit)
      /\ worklist' = (worklist \ {<<at, ctx>>}) \cup ChangedBy(blocks, succ)
                         \cup EntryItems(ChangedBy(funcIn, call))
                         \cup CallSiteItems(blocks, ChangedBy(funcOut, exit))
  BY DEF Analyse, WithEntryInfo
<1>2. /\ DOMAIN mbb2anainfo = Blocks /\ DOMAIN blocks = Blocks
      /\ DOMAIN funcIn = Functions /\ DOMAIN funcOut = Functions
  BY <1>1, JoinedDomain DEF Shape
<1>3. Shape'
  <2>1. DOMAIN mbb2anainfo' = Blocks /\ DOMAIN funcIn' = Functions /\ DOMAIN funcOut' = Functions
    BY <1>1, <1>2, JoinedDomain
  <2>2. \A item \in ChangedBy(blocks, succ) : item = <<item[1], item[2]>> /\ item[1] \in Blocks
    BY FlowPlaces DEF ChangedBy
  <2>3. \A item \in EntryItems(ChangedBy(funcIn, call)) :
            item = <<item[1], item[2]>> /\ item[1] \in Blocks
    <3>1. \A x \in ChangedBy(funcIn, call) : x[1] \in Functions
      BY FlowPlaces DEF ChangedBy
    <3>2. QED
      BY <3>1, ProgramAssumption DEF EntryItems
  <2>4. \A item \in CallSiteItems(blocks, ChangedBy(funcOut, exit)) :
            item = <<item[1], item[2]>> /\ item[1] \in Blocks
    BY DEF CallSiteItems, CallSites
  <2>5. QED
    BY <1>1, <2>1, <2>2, <2>3, <2>4 DEF Shape
<1>4. \* contexts and values only grow
      /\ \A f : f[1] \in Blocks /\ Covers(mbb2anainfo, f) => Covers(mbb2anainfo', f)
      /\ \A f : f[1] \in Functions /\ Covers(funcIn, f) => Covers(funcIn', f)
      /\ \A f : f[1] \in Functions /\ Covers(funcOut, f) => Covers(funcOut', f)
  BY <1>1, <1>2, CoversGrows
<1>5. ASSUME NEW b \in Blocks, NEW c, c \in DOMAIN mbb2anainfo'[b], <<b, c>> \notin worklist'
      PROVE  c \in DOMAIN blocks[b] /\ mbb2anainfo'[b][c] = blocks[b][c]
  BY <1>1, <1>2, <1>5, JoinedSame
<1>6. ASSUME NEW b \in Blocks, NEW c, c \in DOMAIN blocks[b], <<b, c>> # <<at, ctx>>
      PROVE  c \in DOMAIN mbb2anainfo[b] /\ blocks[b][c] = mbb2anainfo[b][c]
  <2>1. <<b, c>> \notin ChangedBy(mbb2anainfo, entered)
    BY <1>6, FlowPlaces DEF ChangedBy
  <2>2. QED
    BY <1>1, <1>2, <1>6, <2>1, JoinedSame
<1>7. ASSUME NEW b \in Blocks, NEW c, HasInfo(b, c), <<b, c>> \notin worklist'
      PROVE  HasInfo(b, c)' /\ FromFunctionIn(b, c)' = FromFunctionIn(b, c)
  <2> DEFINE f == FuncOf[b]
  <2>1. CASE IsEntry(b)
    <3>1. f \in Functions /\ b = EntryBlock[f]
      BY <2>1, LoopAssumption DEF IsEntry
    <3>2. c = Append(Front(c), CalleeToken(f)) /\ Front(c) \in DOMAIN funcIn[f]
      BY <1>7, <2>1 DEF HasInfo
    <3>3. Front(c) \in DOMAIN funcIn'[f]
      BY <1>1, <1>2, <3>1, <3>2, JoinedGrows
    <3>4. <<f, Front(c)>> \notin ChangedBy(funcIn, call)
      <4>1. SUFFICES ASSUME <<f, Front(c)>> \in ChangedBy(funcIn, call) PROVE FALSE
        OBVIOUS
      <4>2. <<EntryBlock[f], Append(Front(c), CalleeToken(f))>>
                \in EntryItems(ChangedBy(funcIn, call))
        BY <4>1 DEF EntryItems
      <4>3. QED
        BY <1>1, <1>7, <3>1, <3>2, <4>2
    <3>5. funcIn'[f][Front(c)] = funcIn[f][Front(c)]
      BY <1>1, <1>2, <3>1, <3>3, <3>4, JoinedSame
    <3>6. QED
      BY <2>1, <3>2, <3>3, <3>5 DEF HasInfo, FromFunctionIn, IsEntry
  <2>2. CASE ~IsEntry(b)
    <3>1. c \in DOMAIN mbb2anainfo[b]
      BY <1>7, <2>2 DEF HasInfo
    <3>2. c \in DOMAIN mbb2anainfo'[b]
      BY <1>1, <1>2, <3>1, JoinedGrows
    <3>3. QED
      BY <2>2, <3>2 DEF HasInfo, FromFunctionIn, IsEntry
  <2>3. QED
    BY <2>1, <2>2
<1>8. ASSUME NEW b \in Blocks, NEW c, c \in DOMAIN blocks[b], <<b, c>> \notin worklist',
             Callee[b] \in Functions
      PROVE  FindEarly(funcOut[Callee[b]], CallContext(options, c, b))'
                 = FindEarly(funcOut[Callee[b]], CallContext(options, c, b))
  <2> DEFINE f == Callee[b]
             d == CallContext(options, c, b)
  <2>1. <<f, d>> \notin ChangedBy(funcOut, exit)
    <3>1. SUFFICES ASSUME <<f, d>> \in ChangedBy(funcOut, exit) PROVE FALSE
      OBVIOUS
    <3>2. <<b, c>> \in CallSites(blocks)
      BY <1>8 DEF CallSites
    <3>3. <<b, c>> \in CallSiteItems(blocks, ChangedBy(funcOut, exit))
      BY <3>1, <3>2 DEF CallSiteItems
    <3>4. QED
      BY <1>1, <1>8, <3>3
  <2>2. CASE d \in DOMAIN funcOut'[f]
    <3>1. d \in DOMAIN funcOut[f] /\ funcOut'[f][d] = funcOut[f][d]
      BY <1>1, <1>2, <1>8, <2>1, <2>2, JoinedSame
    <3>2. QED
      BY <2>2, <3>1 DEF FindEarly
  <2>3. CASE d \notin DOMAIN funcOut'[f]
    <3>1. d \notin DOMAIN funcOut[f]
      BY <1>1, <1>2, <1>8, <2>3, JoinedGrows
    <3>2. QED
      BY <2>3, <3>1 DEF FindEarly
  <2>4. QED
    BY <2>2, <2>3
<1>9. ASSUME NEW b \in Blocks, NEW c, c \in DOMAIN mbb2anainfo'[b]
      PROVE  <<b, c>> \in worklist' \/ Solved(b, c)'
  <2>1. SUFFICES ASSUME <<b, c>> \notin worklist' PROVE Solved(b, c)'
    OBVIOUS
  <2>2. c \in DOMAIN blocks[b] /\ mbb2anainfo'[b][c] = blocks[b][c]
    BY <1>5, <1>9, <2>1
  <2>3. HasInfo(b, c) /\ BlockIn(b, c) = FindEarly(blocks[b], c)
                            \cup UNION {f[3] : f \in FromFunctionIn(b, c)}
    <3>1. CASE <<b, c>> = <<at, ctx>>
      <4>1. b = at /\ c = ctx
        BY <3>1
      <4>2. HasInfo(b, c)
        BY <1>1, <4>1
      <4>3. CASE IsEntry(b)
        <5>1. entered = {<<b, c, funcIn[FuncOf[b]][Front(c)]>>}
          BY <4>1, <4>3 DEF FromFunctionIn
        <5>2. blocks[b][c] = FindEarly(mbb2anainfo[b], c) \cup funcIn[FuncOf[b]][Front(c)]
          <6>1. b \in DOMAIN mbb2anainfo
            BY <1>2
          <6>2. QED
            BY <1>1, <5>1, <6>1, JoinedOne
        <5>3. QED
          BY <2>2, <4>1, <4>2, <5>1, <5>2 DEF BlockIn, FindEarly
      <4>4. CASE ~IsEntry(b)
        <5>1. entered = {}
          BY <4>1, <4>4 DEF FromFunctionIn
        <5>2. blocks[b] = mbb2anainfo[b]
          BY <1>1, <1>2, <5>1 DEF JoinedTo
        <5>3. QED
          BY <4>2, <5>2 DEF BlockIn
      <4>5. QED
        BY <4>3, <4>4
    <3>2. CASE <<b, c>> # <<at, ctx>>
      <4>1. c \in DOMAIN mbb2anainfo[b] /\ blocks[b][c] = mbb2anainfo[b][c]
        BY <1>6, <2>2, <3>2
      <4>2. <<b, c>> \notin worklist
        BY <1>1, <2>1, <3>2
      <4>3. HasInfo(b, c)
        BY <4>1, <4>2 DEF WorklistComplete, Solved
      <4>4. QED
        BY <2>2, <4>1, <4>3 DEF BlockIn, FindEarly
    <3>3. QED
      BY <3>1, <3>2
  <2>4. HasInfo(b, c)' /\ FromFunctionIn(b, c)' = FromFunctionIn(b, c)
    BY <1>7, <2>1, <2>3
  <2>5. BlockIn(b, c)' = BlockIn(b, c)
    BY <1>9, <2>2, <2>3, <2>4 DEF BlockIn, FindEarly
  <2>6. /\ ToSuccessors(b, c)' = ToSuccessors(b, c)
        /\ ToCallee(b, c)' = ToCallee(b, c)
        /\ ToExit(b, c)' = ToExit(b, c)
    BY <1>8, <2>1, <2>2, <2>5, FlowsSame
  <2>7. /\ CoversAll(mbb2anainfo', FromFunctionIn(b, c) \cup ToSuccessors(b, c))
        /\ CoversAll(funcIn', ToCallee(b, c))
        /\ CoversAll(funcOut', ToExit(b, c))
    <3>1. CASE <<b, c>> = <<at, ctx>>
      <4>1. b = at /\ c = ctx
        BY <3>1
      <4>2. \A f \in entered : Covers(blocks, f)
        BY <1>1, <1>2, FlowPlaces, JoinedCovers
      <4>3. \A f \in entered : Covers(mbb2anainfo', f)
        BY <1>1, <1>2, <4>2, FlowPlaces, CoversGrows
      <4>4. \A f \in succ : Covers(mbb2anainfo', f)
        BY <1>1, <1>2, FlowPlaces, JoinedCovers
      <4>5. \A f \in call : Covers(funcIn', f)
        BY <1>1, <1>2, FlowPlaces, JoinedCovers
      <4>6. \A f \in exit : Covers(funcOut', f)
        BY <1>1, <1>2, FlowPlaces, JoinedCovers
      <4>7. QED
        BY <4>1, <4>3, <4>4, <4>5, <4>6 DEF CoversAll
    <3>2. CASE <<b, c>> # <<at, ctx>>
      <4>1. c \in DOMAIN mbb2anainfo[b]
        BY <1>6, <2>2, <3>2
      <4>2. <<b, c>> \notin worklist
        BY <1>1, <2>1, <3>2
      <4>3. Solved(b, c)
        BY <4>1, <4>2 DEF WorklistComplete
      <4>4. QED
        BY <1>4, <4>3, FlowPlaces DEF Solved, CoversAll
    <3>3. QED
      BY <3>1, <3>2
  <2>8. QED
    BY <2>4, <2>6, <2>7 DEF Solved
<1>10. ASSUME NEW f \in Functions, NEW c, c \in DOMAIN funcIn'[f]
       PROVE  \/ <<EntryBlock[f], Append(c, CalleeToken(f))>> \in worklist'
              \/ Append(c, CalleeToken(f)) \in DOMAIN mbb2anainfo'[EntryBlock[f]]
  <2> DEFINE b == EntryBlock[f]
             d == Append(c, CalleeToken(f))
  <2>1. SUFFICES ASSUME <<b, d>> \notin worklist' PROVE d \in DOMAIN mbb2anainfo'[b]
    OBVIOUS
  <2>2. b \in Blocks /\ FuncOf[b] = f /\ IsEntry(b)
    BY ProgramAssumption DEF IsEntry
  <2>3. <<f, c>> \notin ChangedBy(funcIn, call)
    <3>1. SUFFICES ASSUME <<f, c>> \in ChangedBy(funcIn, call) PROVE FALSE
      OBVIOUS
    <3>2. <<b, d>> \in EntryItems(ChangedBy(funcIn, call))
      BY <3>1 DEF EntryItems
    <3>3. QED
      BY <1>1, <2>1, <3>2
  <2>4. c \in DOMAIN funcIn[f]
    BY <1>1, <1>2, <1>10, <2>3, JoinedSame
  <2>5. d \in DOMAIN blocks[b]
    <3>1. CASE <<b, d>> = <<at, ctx>>
      <4>1. b = at /\ d = ctx
        BY <3>1
      <4>2. <<b, d, funcIn[f][Front(d)]>> \in entered
        BY <2>2, <4>1 DEF FromFunctionIn
      <4>3. Covers(blocks, <<b, d, funcIn[f][Front(d)]>>)
        BY <1>1, <1>2, <2>2, <4>2, JoinedCovers
      <4>4. QED
        BY <4>3 DEF Covers
    <3>2. CASE <<b, d>> # <<at, ctx>>
      <4>1. d \in DOMAIN mbb2anainfo[b]
        BY <1>1, <2>1, <2>4, <3>2 DEF WorklistComplete
      <4>2. QED
        BY <1>1, <1>2, <2>2, <4>1, JoinedGrows
    <3>3. QED
      BY <3>1, <3>2
  <2>6. QED
    BY <1>1, <1>2, <2>2, <2>5, JoinedGrows
<1>11. QED
  BY <1>3, <1>9, <1>10 DEF WorklistComplete

-----------------------------------------------------------------------------
IInv == Shape /\ WorklistComplete

LEMMA InitComplete == DriverInit => IInv
<1> SUFFICES ASSUME DriverInit PROVE IInv
  OBVIOUS
<1> DEFINE start == {<<EntryPoint, <<>>, Start>>}
<1>1. /\ mbb2anainfo = [b \in Blocks |-> NoContext]
      /\ funcOut = [f \in Functions |-> NoContext]
      /\ funcIn = JoinedTo(funcOut, start)
      /\ worklist = {<<EntryBlock[EntryPoint], <<CalleeToken(EntryPoint)>>>>}
  BY DEF DriverInit
<1>2. DOMAIN funcIn = Functions /\ DOMAIN funcOut = Functions
  BY <1>1, JoinedDomain
<1>3. EntryBlock[EntryPoint] \in Blocks
  BY ProgramAssumption
<1>4. Shape
  BY <1>1, <1>2, <1>3 DEF Shape
<1>5. ASSUME NEW b \in Blocks PROVE DOMAIN mbb2anainfo[b] = {}
  BY <1>1 DEF NoContext
<1>6. ASSUME NEW f \in Functions, NEW c, c \in DOMAIN funcIn[f]
      PROVE  <<EntryBlock[f], Append(c, CalleeToken(f))>> \in worklist
  <2>1. DOMAIN funcOut[f] = {}
    BY <1>1 DEF NoContext
  <2>2. <<f, c>> \in ChangedBy(funcOut, start)
    BY <1>1, <1>2, <1>6, <2>1, JoinedSame
  <2>3. f = EntryPoint /\ c = <<>>
    BY <2>2 DEF ChangedBy
  <2>4. Append(c, CalleeToken(f)) = <<CalleeToken(EntryPoint)>>
    BY <2>3
  <2>5. QED
    BY <1>1, <2>3, <2>4
<1>7. QED
  BY <1>4, <1>5, <1>6 DEF IInv, WorklistComplete

LEMMA StepComplete == IInv /\ [AnalyseNext]_driverVars => IInv'
<1> SUFFICES ASSUME IInv, [AnalyseNext]_driverVars PROVE IInv'
  OBVIOUS
<1>1. CASE AnalyseNext
  <2>1. PICK item \in worklist : Analyse(item[1], item[2])
    BY <1>1 DEF AnalyseNext
  <2>2. item[1] \in Blocks /\ <<item[1], item[2]>> \in worklist
    BY DEF IInv, Shape
  <2>3. options' = options
    BY <1>1 DEF AnalyseNext
  <2>4. QED
    BY <2>1, <2>2, <2>3, AnalyseComplete DEF IInv
<1>2. CASE UNCHANGED driverVars
  <2>1. /\ options' = options /\ mbb2anainfo' = mbb2anainfo
        /\ funcIn' = funcIn /\ funcOut' = funcOut /\ worklist' = worklist
    BY <1>2 DEF driverVars, info
  <2>2. ASSUME NEW b \in Blocks, NEW c PROVE Solved(b, c)' = Solved(b, c)
    <3>1. FromFunctionIn(b, c)' = FromFunctionIn(b, c)
      BY <2>1 DEF FromFunctionIn, IsEntry
    <3>2. BlockIn(b, c)' = BlockIn(b, c)
      BY <2>1, <3>1 DEF BlockIn
    <3>3. /\ ToSuccessors(b, c)' = ToSuccessors(b, c)
          /\ ToCallee(b, c)' = ToCallee(b, c)
          /\ ToExit(b, c)' = ToExit(b, c)
      BY <2>1, <3>2, FlowsSame
    <3>4. HasInfo(b, c)' = HasInfo(b, c)
      BY <2>1 DEF HasInfo, IsEntry
    <3>5. QED
      BY <2>1, <3>1, <3>3, <3>4 DEF Solved, CoversAll
  <2>3. QED
    BY <2>1, <2>2 DEF IInv, Shape, WorklistComplete
<1>3. QED
  BY <1>1, <1>2

(* The worklist of runAnalysis is complete throughout, for any program and *)
(* any setting, whatever item is taken next; the run of the program leaves *)
(* the analysis alone.                                                     *)
THEOREM WorklistIsComplete == Spec => []WorklistComplete
<1>1. Init => IInv
  BY InitComplete DEF Init
<1>2. [Next]_vars => [AnalyseNext]_driverVars
  BY DEF Next, vars, AnalyseStep, Execute, Call, Branch, Return
<1>3. IInv /\ [Next]_vars => IInv'
  BY <1>2, StepComplete
<1>4. IInv => WorklistComplete
  BY DEF IInv
<1>5. QED
  BY <1>1, <1>3, <1>4, PTL DEF Spec

(* Once the worklist is empty a fixed point is reached: no block in any of *)
(* its contexts has anything left to pass on.  getAnalysisResults aborts   *)
(* if it finds otherwise.                                                  *)
FixedPoint ==
    worklist = {} => \A b \in Blocks : \A c \in DOMAIN mbb2anainfo[b] : Solved(b, c)

THEOREM EndsInFixedPoint == Spec => []FixedPoint
<1>1. WorklistComplete => FixedPoint
  BY DEF WorklistComplete, FixedPoint
<1>2. QED
  BY <1>1, WorklistIsComplete, PTL

-----------------------------------------------------------------------------
(* Types, contexts that fit, and information for what is on the worklist.  *)

(* What is there after a join was there before or has arrived with a flow. *)
LEMMA JoinedFrom ==
    ASSUME NEW maps, NEW flows, NEW x \in DOMAIN maps,
           NEW c \in DOMAIN JoinedTo(maps, flows)[x]
    PROVE  c \in DOMAIN maps[x] \/ \E f \in flows : f[1] = x /\ f[2] = c
<1> DEFINE to == {g \in flows : g[1] = x}
           at(d) == FindEarly(maps[x], d) \cup UNION {g[3] : g \in {h \in to : h[2] = d}}
<1>1. CASE to = {}
  BY <1>1 DEF JoinedTo
<1>2. CASE to # {}
  <2>1. JoinedTo(maps, flows)[x] = [d \in DOMAIN maps[x] \cup {g[2] : g \in to} |-> at(d)]
    BY <1>2 DEF JoinedTo
  <2>2. c \in DOMAIN maps[x] \cup {g[2] : g \in to}
    BY <2>1
  <2>3. QED
    BY <2>2
<1>3. QED
  BY <1>1, <1>2

LEMMA JoinedType ==
    ASSUME NEW maps, NEW flows, NEW places, NEW tokens, IsInfo(maps, places, tokens),
           \A f \in flows : f[2] \in Seq(tokens) /\ f[3] \subseteq Values
    PROVE  IsInfo(JoinedTo(maps, flows), places, tokens)
<1>1. DOMAIN maps = places /\ DOMAIN JoinedTo(maps, flows) = places
  BY JoinedDomain DEF IsInfo
<1>2. ASSUME NEW x \in places, NEW c \in DOMAIN JoinedTo(maps, flows)[x]
      PROVE  c \in Seq(tokens) /\ JoinedTo(maps, flows)[x][c] \subseteq Values
  <2> DEFINE to == {g \in flows : g[1] = x}
             at(d) == FindEarly(maps[x], d) \cup UNION {g[3] : g \in {h \in to : h[2] = d}}
  <2>1. \A d \in DOMAIN maps[x] : d \in Seq(tokens) /\ maps[x][d] \subseteq Values
    BY DEF IsInfo
  <2>2. c \in Seq(tokens)
    <3>1. c \in DOMAIN maps[x] \/ \E f \in flows : f[1] = x /\ f[2] = c
      BY <1>1, <1>2, JoinedFrom
    <3>2. QED
      BY <2>1, <3>1
  <2>3. CASE to = {}
    BY <1>1, <1>2, <2>1, <2>2, <2>3 DEF JoinedTo
  <2>4. CASE to # {}
    <3>1. JoinedTo(maps, flows)[x] = [d \in DOMAIN maps[x] \cup {g[2] : g \in to} |-> at(d)]
      BY <1>1, <2>4 DEF JoinedTo
    <3>2. JoinedTo(maps, flows)[x][c] = at(c)
      BY <1>2, <3>1
    <3>3. FindEarly(maps[x], c) \subseteq Values
      BY <2>1 DEF FindEarly
    <3>4. UNION {g[3] : g \in {h \in to : h[2] = c}} \subseteq Values
      OBVIOUS
    <3>5. QED
      BY <2>2, <3>2, <3>3, <3>4
  <2>5. QED
    BY <2>3, <2>4
<1>3. QED
  BY <1>1, <1>2 DEF IsInfo

(* What an analysed block passes on.                                       *)
LEMMA FlowTypes ==
    ASSUME TypeOK, NEW b \in Blocks, NEW c \in Seq(Token(options)), HasInfo(b, c)
    PROVE  /\ \A f \in FromFunctionIn(b, c) : f[3] \subseteq Values
           /\ \A f \in ToSuccessors(b, c) \cup ToCallee(b, c) \cup ToExit(b, c) :
                 f[2] \in Seq(Token(options)) /\ f[3] \subseteq Values
<1>1. /\ options \in OptionType
      /\ IsInfo(mbb2anainfo, Blocks, Token(options))
      /\ IsInfo(funcIn, Functions, Token(options))
      /\ IsInfo(funcOut, Functions, Token(options))
  BY DEF TypeOK
<1>2. \A f \in FromFunctionIn(b, c) : f[3] \subseteq Values
  BY <1>1, LoopAssumption DEF FromFunctionIn, HasInfo, IsInfo
<1>3. BlockIn(b, c) \subseteq Values
  <2>1. FindEarly(mbb2anainfo[b], c) \subseteq Values
    BY <1>1 DEF FindEarly, IsInfo
  <2>2. QED
    BY <1>2, <2>1 DEF BlockIn
<1>4. BeforeCall(b, c) \subseteq Values
  <2>1. \A v \in BlockIn(b, c) : Transferred[b][v] \subseteq Values
    BY <1>3, ProgramAssumption
  <2>2. QED
    BY <2>1 DEF BeforeCall
<1>5. CallContext(options, c, b) \in Seq(Token(options))
  BY CallContextType
<1>6. AfterCall(b, c) \subseteq Values
  <2>1. CASE Callee[b] \in Functions
    <3>1. FindEarly(funcOut[Callee[b]], CallContext(options, c, b)) \subseteq Values
      BY <1>1, <2>1 DEF FindEarly, IsInfo
    <3>2. QED
      BY <1>4, <2>1, <3>1 DEF AfterCall
  <2>2. CASE Callee[b] \notin Functions
    <3>1. Callee[b] = NoCall \/ Callee[b] = External
      BY <2>2, ProgramAssumption
    <3>2. QED
      BY <1>4, <3>1 DEF AfterCall
  <2>3. QED
    BY <2>1, <2>2
<1>7. ASSUME NEW f \in ToSuccessors(b, c)
      PROVE  f[2] \in Seq(Token(options)) /\ f[3] \subseteq Values
  <2> DEFINE taken(t) == <<t, EdgeContext(options, c, <<b, t>>), AfterCall(b, c) \cap Branches[b][t]>>
             fallen(t) == <<t, EdgeContext(options, c, <<b, t>>), AfterCall(b, c) \cap FallsThrough[b]>>
  <2>1. f \in {taken(t) : t \in DOMAIN Branches[b]} \cup {fallen(t) : t \in Layout[b]}
    BY <1>7 DEF ToSuccessors
  <2>2. PICK t : f = taken(t) \/ f = fallen(t)
    BY <2>1
  <2>3. EdgeContext(options, c, <<b, t>>) \in Seq(Token(options))
    BY <1>1, EdgeContextType
  <2>4. QED
    BY <1>6, <2>2, <2>3
<1>8. \A f \in ToCallee(b, c) : f[2] \in Seq(Token(options)) /\ f[3] \subseteq Values
  BY <1>4, <1>5 DEF ToCallee
<1>9. \A f \in ToExit(b, c) : f[2] \in Seq(Token(options)) /\ f[3] \subseteq Values
  <2>1. Merge(c, {CalleeToken(FuncOf[b])}) \in Seq(Token(options))
    BY MergeType
  <2>2. QED
    BY <1>6, <2>1 DEF ToExit
<1>10. QED
  BY <1>2, <1>7, <1>8, <1>9

(* Contexts of the successors fit, and these are no entry blocks.          *)
LEMMA SuccessorsFit ==
    ASSUME options \in OptionType, NEW b \in Blocks, NEW c \in Seq(Token(options)),
           Fits(options, c, FuncOf[b], Around(options, b)), NEW f \in ToSuccessors(b, c)
    PROVE  /\ f[1] \in Blocks /\ ~ IsEntry(f[1])
           /\ Fits(options, f[2], FuncOf[f[1]], Around(options, f[1]))
<1> DEFINE taken(t) == <<t, EdgeContext(options, c, <<b, t>>), AfterCall(b, c) \cap Branches[b][t]>>
           fallen(t) == <<t, EdgeContext(options, c, <<b, t>>), AfterCall(b, c) \cap FallsThrough[b]>>
<1>1. f \in {taken(t) : t \in DOMAIN Branches[b]} \cup {fallen(t) : t \in Layout[b]}
  BY DEF ToSuccessors
<1>2. PICK t \in DOMAIN Branches[b] \cup Layout[b] : f = taken(t) \/ f = fallen(t)
  BY <1>1
<1>3. f[1] = t /\ f[2] = EdgeContext(options, c, <<b, t>>)
  BY <1>2
<1>4. t \in Blocks
  BY ProgramAssumption
<1>5. /\ FuncOf[t] = FuncOf[b] /\ t # EntryBlock[FuncOf[b]]
      /\ \A l \in Range(Loops) : b \notin Body[l] /\ t \in Body[l] => t = Header[l]
  BY <1>2, FlowAssumption
<1>6. Fits(options, f[2], FuncOf[b], Around(options, t))
  BY <1>3, <1>4, <1>5, EdgeContextFits
<1>7. QED
  BY <1>3, <1>4, <1>5, <1>6 DEF IsEntry

InfoAvailable == \A b \in Blocks : \A c \in DOMAIN mbb2anainfo[b] : HasInfo(b, c)

TInv == TypeOK /\ ContextsFitBlocks /\ InfoAvailable /\ NoAssertionFails

(* The context in which a block can be analysed fits the block.            *)
LEMMA AnalysedFits ==
    ASSUME ContextsFitBlocks, NEW b \in Blocks, NEW c \in Seq(Token(options)), HasInfo(b, c)
    PROVE  Fits(options, c, FuncOf[b], Around(options, b))
<1>1. CASE ~ IsEntry(b)
  BY <1>1 DEF HasInfo, ContextsFitBlocks
<1>2. CASE IsEntry(b)
  <2> DEFINE f == FuncOf[b]
  <2>1. c = Append(Front(c), CalleeToken(f))
    BY <1>2 DEF HasInfo
  <2>2. c # <<>>
    <3>1. Front(c) \in Seq(Token(options))
      <4>1. CASE c = <<>>
        BY <4>1 DEF Front
      <4>2. CASE c # <<>>
        BY <4>2, FrontLast
      <4>3. QED
        BY <4>1, <4>2
    <3>2. QED
      BY <2>1, <3>1
  <2>3. Len(c) \in Nat \ {0} /\ c[Len(c)] = CalleeToken(f)
    <3>1. Front(c) \in Seq(Token(options)) /\ Len(Front(c)) = Len(c) - 1 /\ Len(c) \in Nat \ {0}
      BY <2>2, FrontLast
    <3>2. Append(Front(c), CalleeToken(f))[Len(Front(c)) + 1] = CalleeToken(f)
      BY <3>1
    <3>3. QED
      BY <2>1, <3>1, <3>2
  <2>4. Around(options, b) = {}
    <3>1. \A i \in DOMAIN Loops : Loops[i] \in Range(Loops)
      BY DEF Range
    <3>2. f \in Functions /\ b = EntryBlock[f]
      BY <1>2, LoopAssumption DEF IsEntry
    <3>3. QED
      BY <3>1, <3>2, FlowAssumption DEF Around
  <2>5. Cardinality({}) = 0
    BY FS_EmptySet
  <2>6. QED
    BY <2>3, <2>4, <2>5 DEF Fits
<1>3. QED
  BY <1>1, <1>2

(* Information does not get lost.                                          *)
LEMMA HasInfoGrows ==
    ASSUME Shape, NEW at \in Blocks, NEW ctx, Analyse(at, ctx),
           NEW b \in Blocks, NEW c, HasInfo(b, c)
    PROVE  HasInfo(b, c)'
<1>1. /\ mbb2anainfo' = JoinedTo(WithEntryInfo(at, ctx), ToSuccessors(at, ctx))
      /\ funcIn' = JoinedTo(funcIn, ToCallee(at, ctx))
  BY DEF Analyse
<1>2. CASE IsEntry(b)
  <2>1. FuncOf[b] \in DOMAIN funcIn
    BY LoopAssumption DEF Shape
  <2>2. Front(c) \in DOMAIN funcIn'[FuncOf[b]]
    BY <1>1, <1>2, <2>1, JoinedGrows DEF HasInfo
  <2>3. QED
    BY <1>2, <2>2 DEF HasInfo, IsEntry
<1>3. CASE ~ IsEntry(b)
  <2>1. b \in DOMAIN mbb2anainfo /\ b \in DOMAIN WithEntryInfo(at, ctx)
    BY JoinedDomain DEF Shape, WithEntryInfo
  <2>2. c \in DOMAIN WithEntryInfo(at, ctx)[b]
    BY <1>3, <2>1, JoinedGrows DEF HasInfo, WithEntryInfo
  <2>3. c \in DOMAIN mbb2anainfo'[b]
    BY <1>1, <2>1, <2>2, JoinedGrows
  <2>4. QED
    BY <1>3, <2>3 DEF HasInfo, IsEntry
<1>4. QED
  BY <1>2, <1>3

LEMMA AnalyseTInv ==
    ASSUME Shape, TInv, options' = options,
           NEW at \in Blocks, NEW ctx, <<at, ctx>> \in worklist, Analyse(at, ctx)
    PROVE  TInv'
<1> DEFINE blocks == WithEntryInfo(at, ctx)
           succ == ToSuccessors(at, ctx)
           call == ToCallee(at, ctx)
           exit == ToExit(at, ctx)
           entered == FromFunctionIn(at, ctx)
           tokens == Token(options)
<1>1. /\ HasInfo(at, ctx)
      /\ blocks = JoinedTo(mbb2anainfo, entered)
      /\ mbb2anainfo' = JoinedTo(blocks, succ)
      /\ funcIn' = JoinedTo(funcIn, call)
      /\ funcOut' = JoinedTo(funcOut, exit)
      /\ worklist' = (worklist \ {<<at, ctx>>}) \cup ChangedBy(blocks, succ)
                         \cup EntryItems(ChangedBy(funcIn, call))
                         \cup CallSiteItems(blocks, ChangedBy(funcOut, exit))
  BY DEF Analyse, WithEntryInfo
<1>2. /\ options \in OptionType /\ worklist \subseteq Blocks \X Seq(tokens)
      /\ IsInfo(mbb2anainfo, Blocks, tokens)
      /\ IsInfo(funcIn, Functions, tokens) /\ IsInfo(funcOut, Functions, tokens)
  BY DEF TInv, TypeOK
<1>3. /\ DOMAIN mbb2anainfo = Blocks /\ DOMAIN blocks = Blocks
      /\ DOMAIN funcIn = Functions /\ DOMAIN funcOut = Functions
  BY <1>1, JoinedDomain DEF Shape
<1>4. ctx \in Seq(tokens)
  BY <1>2
<1>5. /\ \A f \in entered : f[2] \in Seq(tokens) /\ f[3] \subseteq Values
      /\ \A f \in succ \cup call \cup exit : f[2] \in Seq(tokens) /\ f[3] \subseteq Values
  <2>1. \A f \in entered : f[2] = ctx
    BY FlowPlaces
  <2>2. QED
    BY <1>1, <1>4, <2>1, FlowTypes DEF TInv
<1>6. Fits(options, ctx, FuncOf[at], Around(options, at))
  BY <1>1, <1>4, AnalysedFits DEF TInv
<1>7. /\ IsInfo(blocks, Blocks, tokens) /\ IsInfo(mbb2anainfo', Blocks, tokens)
      /\ IsInfo(funcIn', Functions, tokens) /\ IsInfo(funcOut', Functions, tokens)
  <2> HIDE DEF entered, succ, call, exit, tokens, blocks
  <2>1. IsInfo(blocks, Blocks, tokens)
    BY <1>1, <1>2, <1>5, JoinedType
  <2>2. QED
    BY <1>1, <1>2, <1>5, <2>1, JoinedType
<1>8. \* what is known in the blocks came from there or is what is analysed
      ASSUME NEW b \in Blocks, NEW c \in DOMAIN blocks[b]
      PROVE  c \in DOMAIN mbb2anainfo[b] \/ (b = at /\ c = ctx)
  <2>1. c \in DOMAIN mbb2anainfo[b] \/ \E f \in entered : f[1] = b /\ f[2] = c
    BY <1>1, <1>3, JoinedFrom
  <2>2. QED
    BY <2>1, FlowPlaces
<1>9. ASSUME NEW b \in Blocks, NEW c \in DOMAIN blocks[b]
      PROVE  /\ HasInfo(b, c) /\ HasInfo(b, c)'
             /\ Fits(options, c, FuncOf[b], Around(options, b))
  <2>1. HasInfo(b, c) /\ Fits(options, c, FuncOf[b], Around(options, b))
    BY <1>1, <1>6, <1>8 DEF TInv, InfoAvailable, ContextsFitBlocks
  <2>2. QED
    BY <2>1, HasInfoGrows
<1>10. ASSUME NEW f \in succ
       PROVE  /\ f[1] \in Blocks /\ f[2] \in DOMAIN mbb2anainfo'[f[1]]
              /\ HasInfo(f[1], f[2])'
              /\ Fits(options, f[2], FuncOf[f[1]], Around(options, f[1]))
  <2>1. /\ f[1] \in Blocks /\ ~ IsEntry(f[1])
        /\ Fits(options, f[2], FuncOf[f[1]], Around(options, f[1]))
    BY <1>2, <1>4, <1>6, SuccessorsFit
  <2>2. f[2] \in DOMAIN mbb2anainfo'[f[1]]
    BY <1>1, <1>3, <2>1, JoinedCovers DEF Covers
  <2>3. QED
    BY <2>1, <2>2 DEF HasInfo, IsEntry
<1>11. ASSUME NEW b \in Blocks, NEW c \in DOMAIN mbb2anainfo'[b]
       PROVE  HasInfo(b, c)' /\ Fits(options, c, FuncOf[b], Around(options, b))
  <2>1. c \in DOMAIN blocks[b] \/ \E f \in succ : f[1] = b /\ f[2] = c
    BY <1>1, <1>3, JoinedFrom
  <2>2. QED
    BY <1>9, <1>10, <2>1
<1>12. ASSUME NEW item \in worklist'
       PROVE  item \in Blocks \X Seq(tokens) /\ HasInfo(item[1], item[2])'
  <2>1. CASE item \in worklist
    <3>1. item[1] \in Blocks /\ HasInfo(item[1], item[2]) /\ item \in Blocks \X Seq(tokens)
      BY <1>2, <2>1 DEF TInv, NoAssertionFails
    <3>2. QED
      BY <3>1, HasInfoGrows
  <2>2. CASE item \in ChangedBy(blocks, succ)
    <3>1. PICK f \in succ : item = <<f[1], f[2]>>
      BY <2>2 DEF ChangedBy
    <3>2. QED
      BY <1>5, <1>10, <3>1
  <2>3. CASE item \in EntryItems(ChangedBy(funcIn, call))
    <3>1. PICK x \in ChangedBy(funcIn, call) :
              item = <<EntryBlock[x[1]], Append(x[2], CalleeToken(x[1]))>>
      BY <2>3 DEF EntryItems
    <3>2. PICK g \in call : x = <<g[1], g[2]>>
      BY <3>1 DEF ChangedBy
    <3> DEFINE f == g[1]
               c == g[2]
               b == EntryBlock[f]
               d == Append(c, CalleeToken(f))
    <3>3. f \in Functions /\ c \in Seq(tokens) /\ item = <<b, d>>
      BY <1>5, <3>1, <3>2, FlowPlaces
    <3>4. CalleeToken(f) \in tokens
      BY <3>3 DEF Token
    <3>5. d \in Seq(tokens) /\ b \in Blocks /\ FuncOf[b] = f
      BY <3>3, <3>4, ProgramAssumption
    <3>6. Front(d) = c
      BY <3>3, FrontOfAppend
    <3>7. c \in DOMAIN funcIn'[f]
      BY <1>1, <1>3, <3>3, JoinedCovers DEF Covers
    <3>8. HasInfo(b, d)'
      BY <3>5, <3>6, <3>7 DEF HasInfo, IsEntry
    <3>9. QED
      BY <3>3, <3>5, <3>8
  <2>4. CASE item \in CallSiteItems(blocks, ChangedBy(funcOut, exit))
    <3>1. item \in CallSites(blocks)
      BY <2>4 DEF CallSiteItems
    <3>2. PICK b \in Blocks : item \in {b} \X DOMAIN blocks[b]
      BY <3>1 DEF CallSites
    <3>3. item = <<b, item[2]>> /\ item[1] = b /\ item[2] \in DOMAIN blocks[b]
      BY <3>2
    <3>4. item[2] \in Seq(tokens)
      BY <1>7, <3>3 DEF IsInfo
    <3>5. QED
      BY <1>9, <3>3, <3>4
  <2>5. QED
    BY <1>1, <2>1, <2>2, <2>3, <2>4
<1>13. TypeOK'
  BY <1>2, <1>7, <1>12 DEF TypeOK
<1>14. QED
  BY <1>11, <1>12, <1>13
     DEF TInv, ContextsFitBlocks, InfoAvailable, NoAssertionFails

LEMMA InitTInv == DriverInit => TInv
<1> SUFFICES ASSUME DriverInit PROVE TInv
  OBVIOUS
<1> DEFINE tokens == Token(options)
           start == {<<EntryPoint, <<>>, Start>>}
           entry == EntryBlock[EntryPoint]
           ctx == <<CalleeToken(EntryPoint)>>
<1>1. /\ options \in Options
      /\ mbb2anainfo = [b \in Blocks |-> NoContext]
      /\ funcOut = [f \in Functions |-> NoContext]
      /\ funcIn = JoinedTo(funcOut, start)
      /\ worklist = {<<entry, ctx>>}
  BY DEF DriverInit
<1>2. /\ options \in OptionType /\ EntryPoint \in Functions /\ entry \in Blocks
      /\ FuncOf[entry] = EntryPoint /\ Start \subseteq Values
  BY <1>1, ProgramAssumption
<1>3. DOMAIN NoContext = {}
  BY DEF NoContext
<1>4. IsInfo(mbb2anainfo, Blocks, tokens) /\ IsInfo(funcOut, Functions, tokens)
  BY <1>1, <1>3 DEF IsInfo
<1>5. IsInfo(funcIn, Functions, tokens)
  <2>1. \A f \in start : f[2] \in Seq(tokens) /\ f[3] \subseteq Values
    <3>1. \A f \in start : f[2] = <<>> /\ f[3] = Start
      OBVIOUS
    <3>2. QED
      BY <1>2, <3>1, EmptySeq
  <2> HIDE DEF tokens, start
  <2>2. QED
    BY <1>1, <1>4, <2>1, JoinedType
<1>6. CalleeToken(EntryPoint) \in tokens
  BY <1>2 DEF Token
<1>7. <<>> \in DOMAIN funcIn[EntryPoint]
  <2>1. EntryPoint \in DOMAIN funcOut /\ <<EntryPoint, <<>>, Start>> \in start
    BY <1>1, <1>2
  <2>2. Covers(JoinedTo(funcOut, start), <<EntryPoint, <<>>, Start>>)
    BY <2>1, JoinedCovers
  <2>3. QED
    BY <1>1, <2>2 DEF Covers
<1>8. HasInfo(entry, ctx)
  <2>1. Front(ctx) = <<>> /\ ctx = Append(<<>>, CalleeToken(EntryPoint))
    BY DEF Front
  <2>2. QED
    BY <1>2, <1>7, <2>1 DEF HasInfo, IsEntry
<1>9. worklist \subseteq Blocks \X Seq(tokens)
  <2>1. ctx \in Seq(tokens)
    BY <1>6
  <2> HIDE DEF ctx, tokens
  <2>2. QED
    BY <1>1, <1>2, <2>1
<1>10. \A b \in Blocks : DOMAIN mbb2anainfo[b] = {}
  BY <1>1, <1>3
<1>11. NoAssertionFails
  BY <1>1, <1>8 DEF NoAssertionFails
<1>12. QED
  BY <1>2, <1>4, <1>5, <1>9, <1>10, <1>11
     DEF TInv, TypeOK, ContextsFitBlocks, InfoAvailable

LEMMA StepTInv == IInv /\ TInv /\ [AnalyseNext]_driverVars => TInv'
<1> SUFFICES ASSUME IInv, TInv, [AnalyseNext]_driverVars PROVE TInv'
  OBVIOUS
<1>1. CASE AnalyseNext
  <2>1. PICK item \in worklist : Analyse(item[1], item[2])
    BY <1>1 DEF AnalyseNext
  <2>2. item[1] \in Blocks /\ <<item[1], item[2]>> \in worklist
    BY DEF IInv, Shape
  <2>3. options' = options
    BY <1>1 DEF AnalyseNext
  <2>4. QED
    BY <2>1, <2>2, <2>3, AnalyseTInv DEF IInv
<1>2. CASE UNCHANGED driverVars
  <2>1. /\ options' = options /\ mbb2anainfo' = mbb2anainfo
        /\ funcIn' = funcIn /\ funcOut' = funcOut /\ worklist' = worklist
    BY <1>2 DEF driverVars, info
  <2>2. \A b, c : HasInfo(b, c)' = HasInfo(b, c)
    BY <2>1 DEF HasInfo, IsEntry
  <2>3. QED
    BY <2>1, <2>2 DEF TInv, TypeOK, IsInfo, ContextsFitBlocks, InfoAvailable, NoAssertionFails
<1>3. QED
  BY <1>1, <1>2

LEMMA SpecTInv == Spec => []TInv
<1>1. Init => IInv /\ TInv
  BY InitComplete, InitTInv DEF Init
<1>2. [Next]_vars => [AnalyseNext]_driverVars
  BY DEF Next, vars, AnalyseStep, Execute, Call, Branch, Return
<1>3. (IInv /\ TInv) /\ [Next]_vars => (IInv /\ TInv)'
  BY <1>2, StepComplete, StepTInv
<1>4. QED
  BY <1>1, <1>3, PTL DEF Spec

(* Information is kept under lists of tokens, for the command line's       *)
(* number of peeled iterations, and consists of values of the analysis.    *)
THEOREM InformationIsTyped == Spec => []TypeOK
<1>1. TInv => TypeOK
  BY DEF TInv
<1>2. QED
  BY <1>1, SpecTInv, PTL

(* The assertions of runAnalysis and findAnalysisInfo hold whatever order  *)
(* the work is done in: there is information for each item, and an entry   *)
(* block is analysed in contexts that end with the call of its function.   *)
THEOREM NoAssertionEverFails == Spec => []NoAssertionFails
<1>1. TInv => NoAssertionFails
  BY DEF TInv
<1>2. QED
  BY <1>1, SpecTInv, PTL

(* On every path through nested loops, with early exits from several of    *)
(* them, pushes and pops of tokens match: a context ends with one token    *)
(* for each loop around its block, behind that of the function's call.     *)
THEOREM ContextsAlwaysFit == Spec => []ContextsFitBlocks
<1>1. TInv => ContextsFitBlocks
  BY DEF TInv
<1>2. QED
  BY <1>1, SpecTInv, PTL

-----------------------------------------------------------------------------
(* Reducing a context keeps its newest tokens of each kind.                *)

(* What is kept of a list, from the newest token on: one that counts uses  *)
(* up a place, and none that counts is kept once no place is left.         *)
LEMMA ClearingIs ==
    ASSUME NEW S, NEW ctx \in Seq(S), NEW kinds, NEW n \in Nat
    PROVE  \E kept : /\ IsClearing(kept, ctx, kinds, n, Len(ctx))
                     /\ ClearOlderThan(ctx, kinds, n) = kept[Len(ctx)]
<1> DEFINE kept == CHOOSE g : IsClearing(g, ctx, kinds, n, Len(ctx))
<1>1. ClearOlderThan(ctx, kinds, n) = IF n < 0 THEN ctx ELSE kept[Len(ctx)]
  BY Zenon DEF ClearOlderThan, IsClearing, IsOld
<1>2. IsClearing(kept, ctx, kinds, n, Len(ctx))
  <2>1. Len(ctx) \in Nat
    OBVIOUS
  <2>2. \E g : IsClearing(g, ctx, kinds, n, Len(ctx))
    BY <2>1, ClearingExists
  <2>3. QED
    BY <2>2
<1> HIDE DEF kept
<1>3. ~ n < 0
  OBVIOUS
<1>4. QED
  BY <1>1, <1>2, <1>3

LEMMA ClearEmpty ==
    ASSUME NEW kinds, NEW n \in Int PROVE ClearOlderThan(<<>>, kinds, n) = <<>>
<1>1. CASE n < 0
  BY <1>1 DEF ClearOlderThan
<1>2. CASE n >= 0
  <2>1. n \in Nat /\ <<>> \in Seq({}) /\ Len(<<>>) = 0
    BY <1>2
  <2>2. PICK kept : /\ IsClearing(kept, <<>>, kinds, n, 0)
                    /\ ClearOlderThan(<<>>, kinds, n) = kept[0]
    BY <2>1, ClearingIs
  <2>3. QED
    BY <2>2 DEF IsClearing
<1>3. QED
  BY <1>1, <1>2

(* Appending a token shifts by one what counts as old.                     *)
LEMMA OldAfterAppend ==
    ASSUME NEW S, NEW ctx \in Seq(S), NEW e \in S, NEW kinds, NEW n \in Nat,
           NEW i \in 1 .. Len(ctx)
    PROVE  IsOld(Append(ctx, e), kinds, n, i) <=>
              IsOld(ctx, kinds, IF e.kind \in kinds /\ n > 0 THEN n - 1 ELSE n, i)
<1> DEFINE d == Append(ctx, e)
           N == Len(ctx)
           newer == {j \in i + 1 .. N : ctx[j].kind \in kinds}
           newer1 == {j \in i + 1 .. N + 1 : d[j].kind \in kinds}
<1>1. /\ N \in Nat /\ Len(d) = N + 1 /\ d[N + 1] = e
      /\ \A j \in 1 .. N : d[j] = ctx[j]
  OBVIOUS
<1>2. /\ IsOld(d, kinds, n, i) <=> ctx[i].kind \in kinds /\ Cardinality(newer1) >= n
      /\ \A m : IsOld(ctx, kinds, m, i) <=> ctx[i].kind \in kinds /\ Cardinality(newer) >= m
  BY <1>1 DEF IsOld
<1>3. IsFiniteSet(newer) /\ Cardinality(newer) \in Nat /\ N + 1 \notin newer
  <2>1. IsFiniteSet(i + 1 .. N)
    BY <1>1, FS_Interval
  <2>2. IsFiniteSet(newer)
    BY <2>1, FS_Subset
  <2>3. QED
    BY <1>1, <2>2, FS_CardinalityType
<1>4. CASE e.kind \in kinds
  <2>1. newer1 = newer \cup {N + 1}
    BY <1>1, <1>4
  <2>2. Cardinality(newer1) = Cardinality(newer) + 1
    BY <1>3, <2>1, FS_AddElement
  <2> HIDE DEF newer, newer1
  <2>3. QED
    BY <1>2, <1>3, <1>4, <2>2
<1>5. CASE e.kind \notin kinds
  <2>1. newer1 = newer
    BY <1>1, <1>5
  <2>2. QED
    BY <1>2, <1>5, <2>1
<1>6. QED
  BY <1>4, <1>5

LEMMA ClearAppend ==
    ASSUME NEW S, NEW ctx \in Seq(S), NEW e \in S, NEW kinds, NEW n \in Nat
    PROVE  ClearOlderThan(Append(ctx, e), kinds, n) =
              IF e.kind \notin kinds THEN Append(ClearOlderThan(ctx, kinds, n), e)
              ELSE IF n = 0 THEN ClearOlderThan(ctx, kinds, 0)
              ELSE Append(ClearOlderThan(ctx, kinds, n - 1), e)
<1> DEFINE d == Append(ctx, e)
           N == Len(ctx)
           m == IF e.kind \in kinds /\ n > 0 THEN n - 1 ELSE n
<1>1. /\ N \in Nat /\ Len(d) = N + 1 /\ d[N + 1] = e /\ d \in Seq(S)
      /\ \A j \in 1 .. N : d[j] = ctx[j]
  OBVIOUS
<1>2. m \in Nat
  OBVIOUS
<1>3. \A i \in 1 .. N : IsOld(d, kinds, n, i) <=> IsOld(ctx, kinds, m, i)
  BY OldAfterAppend
<1>4. IsOld(d, kinds, n, N + 1) <=> e.kind \in kinds /\ n = 0
  <2>1. {j \in N + 1 + 1 .. N + 1 : d[j].kind \in kinds} = {}
    BY <1>1
  <2>2. IsOld(d, kinds, n, N + 1) <=> e.kind \in kinds /\ Cardinality({}) >= n
    BY <1>1, <2>1 DEF IsOld
  <2>3. QED
    BY <2>2, FS_EmptySet
<1> HIDE DEF m, d, N
<1>5. PICK kd : /\ IsClearing(kd, d, kinds, n, N + 1)
                /\ ClearOlderThan(d, kinds, n) = kd[N + 1]
  BY <1>1, ClearingIs
<1>6. PICK kc : /\ IsClearing(kc, ctx, kinds, m, N)
                /\ ClearOlderThan(ctx, kinds, m) = kc[N]
  BY <1>2, ClearingIs DEF N
<1>7. ASSUME NEW i \in 0 .. N + 1
      PROVE  kd[i] = IF i = 0 THEN <<>>
                     ELSE IF IsOld(d, kinds, n, i) THEN kd[i - 1] ELSE Append(kd[i - 1], d[i])
  BY <1>5 DEF IsClearing
<1>8. ASSUME NEW i \in 0 .. N
      PROVE  kc[i] = IF i = 0 THEN <<>>
                     ELSE IF IsOld(ctx, kinds, m, i) THEN kc[i - 1] ELSE Append(kc[i - 1], ctx[i])
  BY <1>6 DEF IsClearing
<1> DEFINE U == {i \in 0 .. N : kd[i] # kc[i]}
<1>9. kd[N] = kc[N]
  <2>1. SUFFICES ASSUME U # {} PROVE FALSE
    BY <1>1
  <2>2. PICK i \in U : \A j \in U : i <= j
    <3>1. U \subseteq Nat
      BY <1>1
    <3>2. QED
      BY <2>1, <3>1, LeastNumber
  <2>3. i # 0
    BY <1>1, <1>7, <1>8
  <2>4. i \in 1 .. N /\ i - 1 \in 0 .. N /\ i \in 0 .. N + 1 /\ ~ i <= i - 1
    BY <1>1, <2>3
  <2>5. kd[i - 1] = kc[i - 1]
    BY <2>2, <2>4
  <2>6. kd[i] = kc[i]
    BY <1>1, <1>3, <1>7, <1>8, <2>3, <2>4, <2>5
  <2>7. QED
    BY <2>6
<1>10. kd[N + 1] = IF e.kind \in kinds /\ n = 0 THEN kd[N] ELSE Append(kd[N], e)
  <2>1. N + 1 \in 0 .. N + 1 /\ N + 1 # 0 /\ N + 1 - 1 = N
    BY <1>1
  <2>2. QED
    BY <1>1, <1>4, <1>7, <2>1
<1>11. ClearOlderThan(d, kinds, n) =
          IF e.kind \in kinds /\ n = 0 THEN ClearOlderThan(ctx, kinds, m)
          ELSE Append(ClearOlderThan(ctx, kinds, m), e)
  BY <1>5, <1>6, <1>9, <1>10
<1>12. m = IF e.kind \in kinds THEN IF n = 0 THEN 0 ELSE n - 1 ELSE n
  BY DEF m
<1>13. QED
  BY <1>11, <1>12 DEF d

(* Clearing once more changes nothing.                                     *)
LEMMA ClearTwice ==
    ASSUME NEW S, NEW kinds, NEW x \in Seq(S)
    PROVE  \A n \in Nat : \A m \in 0 .. n :
              ClearOlderThan(ClearOlderThan(x, kinds, n), kinds, m) = ClearOlderThan(x, kinds, m)
<1> DEFINE K(y, n) == ClearOlderThan(y, kinds, n)
           P(y) == \A n \in Nat : \A m \in 0 .. n : K(K(y, n), m) = K(y, m)
           U == {k \in Nat : \E y \in Seq(S) : Len(y) = k /\ ~ P(y)}
<1>1. /\ \A n \in Nat : K(<<>>, n) = <<>>
      /\ \A y \in Seq(S) : \A n \in Nat : K(y, n) \in Seq(S)
  BY ClearEmpty, ClearOlderThanType
<1>2. \A y \in Seq(S) : \A e \in S : \A n \in Nat :
         K(Append(y, e), n) = IF e.kind \notin kinds THEN Append(K(y, n), e)
                              ELSE IF n = 0 THEN K(y, 0) ELSE Append(K(y, n - 1), e)
  BY ClearAppend
<1> HIDE DEF K
<1>3. SUFFICES ASSUME U # {} PROVE FALSE
  BY DEF K
<1>4. PICK k \in U : \A j \in U : k <= j
  BY <1>3, LeastNumber
<1>5. PICK y \in Seq(S) : Len(y) = k /\ ~ P(y)
  BY <1>4
<1>6. y # <<>>
  BY <1>1, <1>5
<1> DEFINE z == Front(y)
           e == Last(y)
<1>7. y = Append(z, e) /\ z \in Seq(S) /\ e \in S /\ Len(z) \in Nat /\ ~ k <= Len(z)
  <2>1. y = Append(z, e) /\ z \in Seq(S) /\ e \in S /\ Len(z) = Len(y) - 1 /\ Len(y) \in Nat \ {0}
    BY <1>6, ListSplit
  <2> HIDE DEF z, e
  <2>2. QED
    BY <1>5, <2>1
<1> HIDE DEF z, e
<1>8. P(z)
  <2> HIDE DEF P
  <2>1. Len(z) \notin U
    BY <1>4, <1>7
  <2>2. QED
    BY <1>7, <2>1
<1>9. ASSUME NEW w \in Seq(S), NEW n \in Nat
      PROVE  /\ e.kind \notin kinds => K(Append(w, e), n) = Append(K(w, n), e)
             /\ e.kind \in kinds /\ n = 0 => K(Append(w, e), n) = K(w, 0)
             /\ e.kind \in kinds /\ n # 0 => K(Append(w, e), n) = Append(K(w, n - 1), e)
  BY <1>2, <1>7
<1>10. ASSUME NEW n \in Nat, NEW m \in 0 .. n PROVE K(K(y, n), m) = K(y, m)
  <2>1. m \in Nat /\ 0 \in Nat /\ K(z, n) \in Seq(S)
    BY <1>1, <1>7
  <2>2. CASE e.kind \notin kinds
    <3>1. K(y, n) = Append(K(z, n), e) /\ K(y, m) = Append(K(z, m), e)
      BY <1>7, <1>9, <2>1, <2>2
    <3>2. K(Append(K(z, n), e), m) = Append(K(K(z, n), m), e)
      BY <1>9, <2>1, <2>2
    <3>3. K(K(z, n), m) = K(z, m)
      BY <1>8
    <3>4. QED
      BY <3>1, <3>2, <3>3
  <2>3. CASE e.kind \in kinds /\ n = 0
    <3>1. m = 0 /\ K(y, 0) = K(z, 0) /\ K(K(z, 0), 0) = K(z, 0)
      BY <1>7, <1>8, <1>9, <2>3
    <3>2. QED
      BY <2>3, <3>1
  <2>4. CASE e.kind \in kinds /\ n # 0
    <3>1. n - 1 \in Nat /\ 0 \in 0 .. n - 1 /\ (m # 0 => m - 1 \in 0 .. n - 1)
      BY <2>1, <2>4
    <3>2. K(y, n) = Append(K(z, n - 1), e) /\ K(z, n - 1) \in Seq(S)
      BY <1>1, <1>7, <1>9, <2>4, <3>1
    <3>3. CASE m = 0
      <4>1. K(Append(K(z, n - 1), e), 0) = K(K(z, n - 1), 0) /\ K(y, 0) = K(z, 0)
        BY <1>7, <1>9, <2>1, <2>4, <3>2
      <4>2. K(K(z, n - 1), 0) = K(z, 0)
        BY <1>8, <3>1
      <4>3. QED
        BY <3>2, <3>3, <4>1, <4>2
    <3>4. CASE m # 0
      <4>1. /\ K(Append(K(z, n - 1), e), m) = Append(K(K(z, n - 1), m - 1), e)
            /\ K(y, m) = Append(K(z, m - 1), e)
        BY <1>7, <1>9, <2>1, <2>4, <3>2, <3>4
      <4>2. K(K(z, n - 1), m - 1) = K(z, m - 1)
        BY <1>8, <3>1, <3>4
      <4>3. QED
        BY <3>2, <4>1, <4>2
    <3>5. QED
      BY <3>3, <3>4
  <2>5. QED
    BY <2>2, <2>3, <2>4
<1>11. QED
  BY <1>5, <1>10

LEMMA ClearNegative ==
    ASSUME NEW ctx, NEW kinds, NEW n \in Int, n < 0 PROVE ClearOlderThan(ctx, kinds, n) = ctx
BY DEF ClearOlderThan

(* What is cleared already need not be there when more is appended.        *)
LEMMA ClearAbsorbs ==
    ASSUME NEW S, NEW kinds, NEW n \in Int, NEW x \in Seq(S), NEW y0 \in Seq(S)
    PROVE  ClearOlderThan(ClearOlderThan(x, kinds, n) \o y0, kinds, n)
               = ClearOlderThan(x \o y0, kinds, n)
<1> DEFINE K(y, i) == ClearOlderThan(y, kinds, i)
           P(y) == \A i \in Nat : \A m \in 0 .. i : K(K(x, i) \o y, m) = K(x \o y, m)
           U == {k \in Nat : \E y \in Seq(S) : Len(y) = k /\ ~ P(y)}
<1>1. CASE n < 0
  BY <1>1, ClearNegative
<1>2. \A y \in Seq(S) : \A i \in Nat : K(y, i) \in Seq(S)
  BY ClearOlderThanType
<1>3. \A y \in Seq(S) : \A e \in S : \A i \in Nat :
         K(Append(y, e), i) = IF e.kind \notin kinds THEN Append(K(y, i), e)
                              ELSE IF i = 0 THEN K(y, 0) ELSE Append(K(y, i - 1), e)
  BY ClearAppend
<1>4. \A i \in Nat : \A m \in 0 .. i : K(K(x, i), m) = K(x, m)
  BY ClearTwice
<1> HIDE DEF K
<1>5. ASSUME U # {} PROVE FALSE
  <2>1. PICK k \in U : \A j \in U : k <= j
    BY <1>5, LeastNumber
  <2>2. PICK y \in Seq(S) : Len(y) = k /\ ~ P(y)
    BY <2>1
  <2>3. y # <<>>
    <3>1. \A w \in Seq(S) : w \o <<>> = w
      OBVIOUS
    <3>2. ASSUME NEW i \in Nat, NEW m \in 0 .. i PROVE K(K(x, i) \o <<>>, m) = K(x \o <<>>, m)
      <4>1. K(x, i) \o <<>> = K(x, i) /\ x \o <<>> = x
        BY <1>2, <3>1
      <4>2. QED
        BY <1>4, <4>1
    <3>3. P(<<>>)
      BY <3>2
    <3> HIDE DEF P
    <3>4. QED
      BY <2>2, <3>3
  <2> DEFINE z == Front(y)
             e == Last(y)
  <2>4. y = Append(z, e) /\ z \in Seq(S) /\ e \in S /\ Len(z) \in Nat /\ ~ k <= Len(z)
    <3>1. y = Append(z, e) /\ z \in Seq(S) /\ e \in S /\ Len(z) = Len(y) - 1 /\ Len(y) \in Nat \ {0}
      BY <2>3, ListSplit
    <3> HIDE DEF z, e
    <3>2. QED
      BY <2>2, <3>1
  <2> HIDE DEF z, e
  <2>5. P(z)
    <3> HIDE DEF P
    <3>1. Len(z) \notin U
      BY <2>1, <2>4
    <3>2. QED
      BY <2>4, <3>1
  <2>6. \A w \in Seq(S) : w \o y = Append(w \o z, e) /\ w \o z \in Seq(S)
    BY <2>4
  <2>7. ASSUME NEW i \in Nat, NEW m \in 0 .. i PROVE K(K(x, i) \o y, m) = K(x \o y, m)
    <3> DEFINE a == K(x, i) \o z
               b == x \o z
    <3>1. a \in Seq(S) /\ b \in Seq(S) /\ K(x, i) \o y = Append(a, e) /\ x \o y = Append(b, e)
      BY <1>2, <2>6
    <3>2. K(a, m) = K(b, m) /\ (m # 0 => K(a, m - 1) = K(b, m - 1))
      BY <2>5
    <3> HIDE DEF a, b
    <3>3. m \in Nat
      OBVIOUS
    <3>4. K(Append(a, e), m) = IF e.kind \notin kinds THEN Append(K(a, m), e)
                               ELSE IF m = 0 THEN K(a, 0) ELSE Append(K(a, m - 1), e)
      BY <1>3, <2>4, <3>1, <3>3
    <3>5. K(Append(b, e), m) = IF e.kind \notin kinds THEN Append(K(b, m), e)
                               ELSE IF m = 0 THEN K(b, 0) ELSE Append(K(b, m - 1), e)
      BY <1>3, <2>4, <3>1, <3>3
    <3>6. QED
      BY <3>1, <3>2, <3>4, <3>5
  <2>8. QED
    BY <2>2, <2>7
<1>6. CASE n >= 0
  <2>1. n \in Nat /\ n \in 0 .. n
    BY <1>6
  <2>2. P(y0)
    <3>1. Len(y0) \in Nat
      OBVIOUS
    <3>2. QED
      BY <1>5, <3>1
  <2>3. QED
    BY <2>1, <2>2 DEF K
<1>7. QED
  BY <1>1, <1>6

(* Kinds that have nothing in common are cleared in any order.             *)
LEMMA ClearCommutes ==
    ASSUME NEW S, NEW A, NEW B, A \cap B = {}, NEW p \in Int, NEW q \in Int, NEW x \in Seq(S)
    PROVE  ClearOlderThan(ClearOlderThan(x, B, q), A, p)
               = ClearOlderThan(ClearOlderThan(x, A, p), B, q)
<1> DEFINE KA(y, i) == ClearOlderThan(y, A, i)
           KB(y, i) == ClearOlderThan(y, B, i)
           P(y) == \A i, m \in Nat : KA(KB(y, m), i) = KB(KA(y, i), m)
           U == {k \in Nat : \E y \in Seq(S) : Len(y) = k /\ ~ P(y)}
<1>1. CASE p < 0 \/ q < 0
  BY <1>1, ClearNegative
<1>2. /\ \A i \in Nat : KA(<<>>, i) = <<>> /\ KB(<<>>, i) = <<>>
      /\ \A y \in Seq(S) : \A i \in Nat : KA(y, i) \in Seq(S) /\ KB(y, i) \in Seq(S)
  BY ClearEmpty, ClearOlderThanType
<1>3. \A y \in Seq(S) : \A e \in S : \A i \in Nat :
         KA(Append(y, e), i) = IF e.kind \notin A THEN Append(KA(y, i), e)
                               ELSE IF i = 0 THEN KA(y, 0) ELSE Append(KA(y, i - 1), e)
  BY ClearAppend
<1>4. \A y \in Seq(S) : \A e \in S : \A i \in Nat :
         KB(Append(y, e), i) = IF e.kind \notin B THEN Append(KB(y, i), e)
                               ELSE IF i = 0 THEN KB(y, 0) ELSE Append(KB(y, i - 1), e)
  BY ClearAppend
<1> HIDE DEF KA, KB
<1>5. ASSUME U # {} PROVE FALSE
  <2>1. PICK k \in U : \A j \in U : k <= j
    BY <1>5, LeastNumber
  <2>2. PICK y \in Seq(S) : Len(y) = k /\ ~ P(y)
    BY <2>1
  <2>3. y # <<>>
    BY <1>2, <2>2
  <2> DEFINE z == Front(y)
             e == Last(y)
  <2>4. y = Append(z, e) /\ z \in Seq(S) /\ e \in S /\ Len(z) \in Nat /\ ~ k <= Len(z)
    <3>1. y = Append(z, e) /\ z \in Seq(S) /\ e \in S /\ Len(z) = Len(y) - 1 /\ Len(y) \in Nat \ {0}
      BY <2>3, ListSplit
    <3> HIDE DEF z, e
    <3>2. QED
      BY <2>2, <3>1
  <2> HIDE DEF z, e
  <2>5. P(z)
    <3> HIDE DEF P
    <3>1. Len(z) \notin U
      BY <2>1, <2>4
    <3>2. QED
      BY <2>4, <3>1
  <2>7. ASSUME NEW w \in Seq(S), NEW i \in Nat
        PROVE  /\ e.kind \notin A => KA(Append(w, e), i) = Append(KA(w, i), e)
               /\ e.kind \in A /\ i = 0 => KA(Append(w, e), i) = KA(w, 0)
               /\ e.kind \in A /\ i # 0 => KA(Append(w, e), i) = Append(KA(w, i - 1), e)
               /\ e.kind \notin B => KB(Append(w, e), i) = Append(KB(w, i), e)
               /\ e.kind \in B /\ i = 0 => KB(Append(w, e), i) = KB(w, 0)
               /\ e.kind \in B /\ i # 0 => KB(Append(w, e), i) = Append(KB(w, i - 1), e)
    <3>1. KA(Append(w, e), i) = IF e.kind \notin A THEN Append(KA(w, i), e)
                                ELSE IF i = 0 THEN KA(w, 0) ELSE Append(KA(w, i - 1), e)
      BY <1>3, <2>4
    <3>2. KB(Append(w, e), i) = IF e.kind \notin B THEN Append(KB(w, i), e)
                                ELSE IF i = 0 THEN KB(w, 0) ELSE Append(KB(w, i - 1), e)
      BY <1>4, <2>4
    <3>3. QED
      BY <3>1, <3>2
  <2>8. ASSUME NEW i \in Nat, NEW m \in Nat PROVE KA(KB(y, m), i) = KB(KA(y, i), m)
    <3>1. CASE e.kind \notin A /\ e.kind \notin B
      <4>1. /\ KB(y, m) = Append(KB(z, m), e) /\ KB(z, m) \in Seq(S)
            /\ KA(y, i) = Append(KA(z, i), e) /\ KA(z, i) \in Seq(S)
        BY <1>2, <2>4, <2>7, <3>1
      <4>2. KA(Append(KB(z, m), e), i) = Append(KA(KB(z, m), i), e)
        BY <2>7, <3>1, <4>1
      <4>3. KB(Append(KA(z, i), e), m) = Append(KB(KA(z, i), m), e)
        BY <2>7, <3>1, <4>1
      <4>4. KA(KB(z, m), i) = KB(KA(z, i), m)
        BY <2>5
      <4>5. QED
        BY <4>1, <4>2, <4>3, <4>4
    <3>2. CASE e.kind \in A
      <4>1. e.kind \notin B
        BY <3>2
      <4>2. KB(y, m) = Append(KB(z, m), e) /\ KB(z, m) \in Seq(S)
        BY <1>2, <2>4, <2>7, <4>1
      <4>3. CASE i = 0
        <5>1. KA(Append(KB(z, m), e), 0) = KA(KB(z, m), 0) /\ KA(y, 0) = KA(z, 0)
          BY <2>4, <2>7, <3>2, <4>2
        <5>2. KA(KB(z, m), 0) = KB(KA(z, 0), m)
          BY <2>5
        <5>3. QED
          BY <4>2, <4>3, <5>1, <5>2
      <4>4. CASE i # 0
        <5>1. i - 1 \in Nat
          BY <4>4
        <5>2. /\ KA(Append(KB(z, m), e), i) = Append(KA(KB(z, m), i - 1), e)
              /\ KA(y, i) = Append(KA(z, i - 1), e) /\ KA(z, i - 1) \in Seq(S)
          BY <1>2, <2>4, <2>7, <3>2, <4>2, <4>4, <5>1
        <5>3. KB(Append(KA(z, i - 1), e), m) = Append(KB(KA(z, i - 1), m), e)
          BY <2>7, <4>1, <5>2
        <5>4. KA(KB(z, m), i - 1) = KB(KA(z, i - 1), m)
          BY <2>5, <5>1
        <5>5. QED
          BY <4>2, <5>2, <5>3, <5>4
      <4>5. QED
        BY <4>3, <4>4
    <3>3. CASE e.kind \in B
      <4>1. e.kind \notin A
        BY <3>3
      <4>2. KA(y, i) = Append(KA(z, i), e) /\ KA(z, i) \in Seq(S)
        BY <1>2, <2>4, <2>7, <4>1
      <4>3. CASE m = 0
        <5>1. KB(Append(KA(z, i), e), 0) = KB(KA(z, i), 0) /\ KB(y, 0) = KB(z, 0)
          BY <2>4, <2>7, <3>3, <4>2
        <5>2. KB(KA(z, i), 0) = KA(KB(z, 0), i)
          BY <2>5
        <5>3. QED
          BY <4>2, <4>3, <5>1, <5>2
      <4>4. CASE m # 0
        <5>1. m - 1 \in Nat
          BY <4>4
        <5>2. /\ KB(Append(KA(z, i), e), m) = Append(KB(KA(z, i), m - 1), e)
              /\ KB(y, m) = Append(KB(z, m - 1), e) /\ KB(z, m - 1) \in Seq(S)
          BY <1>2, <2>4, <2>7, <3>3, <4>2, <4>4, <5>1
        <5>3. KA(Append(KB(z, m - 1), e), i) = Append(KA(KB(z, m - 1), i), e)
          BY <2>7, <4>1, <5>2
        <5>4. KB(KA(z, i), m - 1) = KA(KB(z, m - 1), i)
          BY <2>5, <5>1
        <5>5. QED
          BY <4>2, <5>2, <5>3, <5>4
      <4>5. QED
        BY <4>3, <4>4
    <3>4. QED
      BY <3>1, <3>2, <3>3
  <2>9. QED
    BY <2>2, <2>8
<1>6. CASE p >= 0 /\ q >= 0
  <2>1. p \in Nat /\ q \in Nat
    BY <1>6
  <2>2. Len(x) \in Nat
    OBVIOUS
  <2>3. P(x)
    BY <1>5, <2>2
  <2>4. QED
    BY <2>1, <2>3 DEF KA, KB
<1>7. QED
  BY <1>1, <1>6

(* So a context that was reduced at a call can be reduced with more behind *)
(* it as if it had not been reduced.                                       *)
LEMMA ReduceAbsorbs ==
    ASSUME NEW S, NEW opt \in OptionType, NEW x \in Seq(S), NEW y \in Seq(S)
    PROVE  ReduceOnCall(opt, ReduceOnCall(opt, x) \o y) = ReduceOnCall(opt, x \o y)
<1> DEFINE K1(z) == ClearOlderThan(z, LoopKinds, opt.loopTokens)
           K2(z) == ClearOlderThan(z, {"FUNCALLEE"}, opt.calleeTokens)
           K3(z) == ClearOlderThan(z, {"CALLSITE"}, opt.callsiteTokens)
<1>1. opt.loopTokens \in Int /\ opt.calleeTokens \in Int /\ opt.callsiteTokens \in Int
  BY DEF OptionType
<1>2. \A z \in Seq(S) : K1(z) \in Seq(S) /\ K2(z) \in Seq(S) /\ K3(z) \in Seq(S)
  BY ClearOlderThanType
<1>3. \A z \in Seq(S) : K1(K2(z)) = K2(K1(z)) /\ K1(K3(z)) = K3(K1(z)) /\ K2(K3(z)) = K3(K2(z))
  <2>1. LoopKinds \cap {"FUNCALLEE"} = {} /\ LoopKinds \cap {"CALLSITE"} = {}
        /\ {"FUNCALLEE"} \cap {"CALLSITE"} = {}
    BY DEF LoopKinds
  <2>2. QED
    BY <1>1, <2>1, ClearCommutes
<1>4. \A z \in Seq(S) : /\ K1(K1(z) \o y) = K1(z \o y)
                        /\ K2(K2(z) \o y) = K2(z \o y)
                        /\ K3(K3(z) \o y) = K3(z \o y)
  BY <1>1, ClearAbsorbs
<1>5. \A z : ReduceOnCall(opt, z) = K3(K2(K1(z)))
  BY DEF ReduceOnCall
<1> HIDE DEF K1, K2, K3
<1>6. \A z \in Seq(S) : z \o y \in Seq(S)
  OBVIOUS
<1>7. K3(K2(K1(K3(K2(K1(x))) \o y))) = K3(K2(K1(K3(K2(x)) \o y)))
  <2>1. K3(K2(K1(x))) = K1(K3(K2(x)))
    BY <1>2, <1>3
  <2>2. QED
    BY <1>2, <1>4, <2>1
<1>8. K3(K2(K1(K3(K2(x)) \o y))) = K3(K2(K1(K3(x) \o y)))
  <2>1. \A z \in Seq(S) : K3(K2(K1(z))) = K3(K1(K2(z)))
    BY <1>3
  <2>2. K3(K2(x)) = K2(K3(x)) /\ K3(x) \in Seq(S) /\ K2(K3(x)) \in Seq(S)
    BY <1>2, <1>3
  <2> DEFINE u == K2(K3(x)) \o y
             v == K3(x) \o y
  <2>3. u \in Seq(S) /\ v \in Seq(S)
    BY <1>6, <2>2
  <2>4. K2(u) = K2(v)
    BY <1>4, <2>2
  <2> HIDE DEF u, v
  <2>5. K3(K2(K1(u))) = K3(K2(K1(v)))
    BY <2>1, <2>3, <2>4
  <2>6. QED
    BY <2>2, <2>5 DEF u, v
<1>9. K3(K2(K1(K3(x) \o y))) = K3(K2(K1(x \o y)))
  <2>1. ASSUME NEW z \in Seq(S) PROVE K3(K2(K1(z))) = K2(K1(K3(z)))
    <3>1. K3(K2(K1(z))) = K2(K3(K1(z)))
      BY <1>2, <1>3
    <3>2. QED
      BY <1>3, <3>1
  <2> DEFINE u == K3(x) \o y
             v == x \o y
  <2>2. u \in Seq(S) /\ v \in Seq(S)
    BY <1>2, <1>6
  <2>3. K3(u) = K3(v)
    BY <1>4
  <2> HIDE DEF u, v
  <2>4. K3(K2(K1(u))) = K3(K2(K1(v)))
    BY <2>1, <2>2, <2>3
  <2>5. QED
    BY <2>4 DEF u, v
<1>10. QED
  BY <1>5, <1>7, <1>8, <1>9

-----------------------------------------------------------------------------
(* FlattenSeq, whose recursion is known by its values.                     *)

IsFlattening(g, seqs, n) ==
    g = [i \in 1 .. n |-> IF i = 1 THEN seqs[i] ELSE g[i - 1] \o seqs[i]]

LEMMA FlatteningExists ==
    ASSUME NEW seqs, NEW n \in Nat PROVE \E g : IsFlattening(g, seqs, n)
<1> DEFINE Next1(v, i) == v \o seqs[i]
           Is(g, m) == IsFlattening(g, seqs, m)
           T == {m \in Nat : ~ \E g : Is(g, m)}
<1>1. ASSUME NEW g, NEW m PROVE
         Is(g, m) <=> g = [i \in 1 .. m |-> IF i = 1 THEN seqs[i] ELSE Next1(g[i - 1], i)]
  BY DEF IsFlattening
<1> HIDE DEF Next1, Is
<1>2. SUFFICES ASSUME T # {} PROVE FALSE
  BY DEF Is
<1>3. PICK m \in T : \A k \in T : m <= k
  <2>1. T \subseteq Nat
    OBVIOUS
  <2>2. QED
    BY <1>2, <2>1, LeastNumber
<1>4. CASE m = 0
  <2> DEFINE g == [i \in 1 .. 0 |-> <<>>]
  <2>1. g = [i \in 1 .. 0 |-> IF i = 1 THEN seqs[i] ELSE Next1(g[i - 1], i)]
    OBVIOUS
  <2>2. QED
    BY <1>1, <1>4, <2>1
<1>5. CASE m # 0
  <2>1. m - 1 \in Nat /\ m - 1 \notin T
    BY <1>3, <1>5
  <2>2. PICK g : Is(g, m - 1)
    BY <2>1
  <2>3. g = [i \in 1 .. m - 1 |-> IF i = 1 THEN seqs[i] ELSE Next1(g[i - 1], i)]
    BY <1>1, <2>2
  <2> DEFINE h == [i \in 1 .. m |-> IF i = m THEN IF m = 1 THEN seqs[1] ELSE Next1(g[m - 1], m)
                                    ELSE g[i]]
  <2>4. ASSUME NEW i \in 1 .. m
        PROVE  h[i] = IF i = 1 THEN seqs[i] ELSE Next1(h[i - 1], i)
    <3>1. CASE i = 1
      BY <1>5, <2>3, <3>1
    <3>2. CASE i # 1
      <4>1. i - 1 \in 1 .. m /\ i - 1 # m
        BY <3>2
      <4>2. h[i - 1] = g[i - 1]
        BY <4>1
      <4>3. h[i] = Next1(g[i - 1], i)
        BY <2>3, <3>2
      <4>4. QED
        BY <3>2, <4>2, <4>3
    <3>3. QED
      BY <3>1, <3>2
  <2>5. h = [i \in 1 .. m |-> IF i = 1 THEN seqs[i] ELSE Next1(h[i - 1], i)]
    BY <2>4
  <2>6. QED
    BY <1>1, <2>5
<1>6. QED
  BY <1>4, <1>5

LEMMA FlatteningIs ==
    ASSUME NEW S, NEW seqs \in Seq(Seq(S)), seqs # <<>>
    PROVE  \E g : /\ IsFlattening(g, seqs, Len(seqs))
                  /\ FlattenSeq(seqs) = g[Len(seqs)]
<1> DEFINE g == CHOOSE h : IsFlattening(h, seqs, Len(seqs))
<1>1. FlattenSeq(seqs) = IF Len(seqs) = 0 THEN seqs ELSE g[Len(seqs)]
  BY Zenon DEF FlattenSeq, IsFlattening
<1>2. Len(seqs) \in Nat \ {0}
  OBVIOUS
<1>3. IsFlattening(g, seqs, Len(seqs))
  <2>1. \E h : IsFlattening(h, seqs, Len(seqs))
    BY <1>2, FlatteningExists
  <2>2. QED
    BY <2>1
<1> HIDE DEF g
<1>4. QED
  BY <1>1, <1>2, <1>3

LEMMA FlattenAppend ==
    ASSUME NEW S, NEW seqs \in Seq(Seq(S)), NEW s \in Seq(S)
    PROVE  FlattenSeq(Append(seqs, s)) = FlattenSeq(seqs) \o s
<1> DEFINE d == Append(seqs, s)
           n == Len(seqs)
<1>1. /\ n \in Nat /\ d \in Seq(Seq(S)) /\ Len(d) = n + 1 /\ d[n + 1] = s /\ d # <<>>
      /\ \A i \in 1 .. n : d[i] = seqs[i]
      /\ (n = 0) = (seqs = <<>>)
  <2>1. n \in Nat /\ (n = 0) = (seqs = <<>>)
    OBVIOUS
  <2>2. Len(d) = n + 1 /\ d[n + 1] = s /\ \A i \in 1 .. n : d[i] = seqs[i]
    OBVIOUS
  <2>3. d \in Seq(Seq(S)) /\ d # <<>>
    BY AppendProperties
  <2> HIDE DEF d, n
  <2>4. QED
    BY <2>1, <2>2, <2>3
<1> HIDE DEF d, n
<1>2. PICK gd : IsFlattening(gd, d, n + 1) /\ FlattenSeq(d) = gd[n + 1]
  BY <1>1, FlatteningIs
<1>3. ASSUME NEW i \in 1 .. n + 1
      PROVE  gd[i] = IF i = 1 THEN d[i] ELSE gd[i - 1] \o d[i]
  BY <1>2 DEF IsFlattening
<1>4. CASE n = 0
  <2>1. 1 \in 1 .. n + 1 /\ gd[1] = s
    BY <1>1, <1>3, <1>4
  <2>2. FlattenSeq(seqs) = <<>>
    BY <1>1, <1>4 DEF FlattenSeq, n
  <2>3. <<>> \o s = s
    OBVIOUS
  <2>4. QED
    BY <1>2, <1>4, <2>1, <2>2, <2>3 DEF d
<1>5. CASE n # 0
  <2>1. PICK g : IsFlattening(g, seqs, n) /\ FlattenSeq(seqs) = g[n]
    BY <1>1, <1>5, FlatteningIs DEF n
  <2>2. ASSUME NEW i \in 1 .. n
        PROVE  g[i] = IF i = 1 THEN seqs[i] ELSE g[i - 1] \o seqs[i]
    BY <2>1 DEF IsFlattening
  <2> DEFINE U == {i \in 1 .. n : gd[i] # g[i]}
  <2>3. ASSUME U # {} PROVE FALSE
    <3>1. PICK i \in U : \A j \in U : i <= j
      <4>1. U \subseteq Nat
        BY <1>1
      <4>2. QED
        BY <2>3, <4>1, LeastNumber
    <3>2. i \in 1 .. n /\ i \in 1 .. n + 1 /\ gd[i] # g[i] /\ d[i] = seqs[i]
      BY <1>1
    <3>3. i # 1
      BY <1>3, <2>2, <3>2
    <3>4. i - 1 \in 1 .. n /\ ~ i <= i - 1
      BY <1>1, <3>2, <3>3
    <3>5. gd[i - 1] = g[i - 1]
      BY <3>1, <3>4
    <3>6. QED
      BY <1>3, <2>2, <3>2, <3>3, <3>5
  <2>4. gd[n] = g[n]
    <3>1. n \in 1 .. n
      BY <1>1, <1>5
    <3>2. QED
      BY <2>3, <3>1
  <2>5. gd[n + 1] = gd[n] \o s
    <3>1. PICK m \in 1 .. n + 1 : m = n + 1
      BY <1>1
    <3>2. gd[m] = gd[m - 1] \o d[m]
      <4>1. m # 1
        BY <1>1, <1>5, <3>1
      <4>2. QED
        BY <1>3, <4>1
    <3>3. m - 1 = n /\ d[m] = s
      BY <1>1, <3>1
    <3>4. QED
      BY <3>1, <3>2, <3>3
  <2>6. QED
    BY <1>2, <2>1, <2>4, <2>5 DEF d
<1>6. QED
  BY <1>4, <1>5

LEMMA FlattenType ==
    ASSUME NEW S, NEW seqs \in Seq(Seq(S)) PROVE FlattenSeq(seqs) \in Seq(S)
<1> DEFINE n == Len(seqs)
<1>1. n \in Nat /\ \A i \in 1 .. n : seqs[i] \in Seq(S)
  OBVIOUS
<1>2. CASE seqs = <<>>
  <2>1. FlattenSeq(seqs) = <<>>
    BY <1>2 DEF FlattenSeq
  <2>2. QED
    BY <2>1, EmptySeq
<1>3. CASE seqs # <<>>
  <2>1. PICK g : IsFlattening(g, seqs, n) /\ FlattenSeq(seqs) = g[n]
    BY <1>3, FlatteningIs
  <2>2. n \in 1 .. n
    BY <1>1, <1>3
  <2> HIDE DEF n
  <2>3. ASSUME NEW i \in 1 .. n
        PROVE  g[i] = IF i = 1 THEN seqs[i] ELSE g[i - 1] \o seqs[i]
    BY <2>1 DEF IsFlattening
  <2> DEFINE U == {i \in 1 .. n : g[i] \notin Seq(S)}
  <2>4. ASSUME U # {} PROVE FALSE
    <3>1. PICK i \in U : \A j \in U : i <= j
      <4>1. U \subseteq Nat
        BY <1>1
      <4>2. QED
        BY <2>4, <4>1, LeastNumber
    <3>2. i \in 1 .. n /\ g[i] \notin Seq(S) /\ seqs[i] \in Seq(S)
      BY <1>1
    <3>3. i # 1
      BY <2>3, <3>2
    <3>4. i - 1 \in 1 .. n /\ ~ i <= i - 1
      BY <1>1, <3>2, <3>3
    <3>5. g[i - 1] \in Seq(S)
      BY <3>1, <3>4
    <3>6. g[i - 1] \o seqs[i] \in Seq(S)
      BY <3>2, <3>5
    <3>7. QED
      BY <2>3, <3>2, <3>3, <3>6
  <2>5. QED
    BY <2>1, <2>2, <2>4
<1>4. QED
  BY <1>2, <1>3

-----------------------------------------------------------------------------
(* The context of the run, and the tokens of its frames.                   *)

(* The tokens of a frame of the run.                                       *)
IsFrame(from, block, taken, m) ==
    from = [i \in m .. Len(Loops) + 1 |->
               IF i = Len(Loops) + 1 THEN <<CalleeToken(FuncOf[block])>>
               ELSE IF i \in Around(options, block)
               THEN Append(from[i + 1], LoopToken(options, Loops[i], taken[Loops[i]]))
               ELSE from[i + 1]]

LEMMA FrameExists ==
    ASSUME NEW block, NEW taken, NEW m \in 1 .. Len(Loops) + 1
    PROVE  \E from : IsFrame(from, block, taken, m)
<1> DEFINE n == Len(Loops) + 1
           first == <<CalleeToken(FuncOf[block])>>
           Next1(v, i) == IF i \in Around(options, block)
                          THEN Append(v, LoopToken(options, Loops[i], taken[Loops[i]])) ELSE v
           Is(g, k) == IsFrame(g, block, taken, k)
           T == {k \in Nat : k < n /\ ~ \E g : Is(g, n - k)}
<1>1. ASSUME NEW g, NEW k PROVE
         Is(g, k) <=> g = [i \in k .. n |-> IF i = n THEN first ELSE Next1(g[i + 1], i)]
  BY DEF IsFrame
<1>2. n \in Nat \ {0}
  BY LoopAssumption
<1> HIDE DEF Next1, Is, n, first
<1>3. SUFFICES ASSUME T # {} PROVE FALSE
  <2>1. m \in 1 .. n
    BY DEF n
  <2>2. n - m \in Nat /\ n - m < n /\ n - (n - m) = m
    BY <1>2, <2>1
  <2>3. n - m \notin T
    BY <1>3
  <2>4. \E g : Is(g, n - (n - m))
    BY <2>2, <2>3
  <2>5. \E g : Is(g, m)
    BY <2>2, <2>4
  <2>6. QED
    BY <2>5 DEF Is
<1>4. PICK k \in T : \A j \in T : k <= j
  <2>1. T \subseteq Nat
    OBVIOUS
  <2>2. QED
    BY <1>3, <2>1, LeastNumber
<1> DEFINE w == n - k
<1>5. w \in 1 .. n /\ ~ \E g : Is(g, w)
  BY <1>2, <1>4
<1> HIDE DEF w
<1>6. CASE k = 0
  <2> DEFINE g == [i \in n .. n |-> first]
  <2>1. w = n
    BY <1>2, <1>6 DEF w
  <2>2. g = [i \in n .. n |-> IF i = n THEN first ELSE Next1(g[i + 1], i)]
    BY <1>2
  <2>3. QED
    BY <1>1, <1>5, <2>1, <2>2
<1>7. CASE k # 0
  <2>1. /\ k - 1 \in Nat /\ ~ k <= k - 1 /\ k - 1 < n
        /\ n - (k - 1) = w + 1 /\ w # n /\ w \in Int
    <3>1. k \in Nat /\ k < n
      OBVIOUS
    <3> HIDE DEF T
    <3>2. QED
      BY <1>2, <1>7, <3>1 DEF w
  <2>2. \E g : Is(g, n - (k - 1))
    <3>1. k - 1 \notin T
      BY <1>4, <2>1
    <3>2. QED
      BY <2>1, <3>1
  <2>3. PICK g : Is(g, w + 1)
    BY <2>1, <2>2
  <2>4. g = [i \in w + 1 .. n |-> IF i = n THEN first ELSE Next1(g[i + 1], i)]
    BY <1>1, <2>3
  <2> DEFINE h == [i \in w .. n |-> IF i = w THEN Next1(g[w + 1], w) ELSE g[i]]
  <2>5. ASSUME NEW i \in w .. n
        PROVE  h[i] = IF i = n THEN first ELSE Next1(h[i + 1], i)
    <3>1. CASE i = w
      <4>1. w + 1 \in w .. n /\ w + 1 # w
        BY <1>2, <1>5, <2>1
      <4>2. h[w + 1] = g[w + 1] /\ h[i] = Next1(g[w + 1], w)
        BY <3>1, <4>1
      <4>3. QED
        BY <2>1, <3>1, <4>2
    <3>2. CASE i # w
      <4>1. i \in w + 1 .. n /\ h[i] = g[i]
        BY <1>2, <2>1, <3>2
      <4>2. CASE i = n
        BY <2>4, <4>1, <4>2
      <4>3. CASE i # n
        <5>1. i + 1 \in w .. n /\ i + 1 # w
          BY <1>2, <2>1, <4>1, <4>3
        <5>2. h[i + 1] = g[i + 1]
          BY <5>1
        <5>3. QED
          BY <2>4, <4>1, <4>3, <5>2
      <4>4. QED
        BY <4>2, <4>3
    <3>3. QED
      BY <3>1, <3>2
  <2>6. h = [i \in w .. n |-> IF i = n THEN first ELSE Next1(h[i + 1], i)]
    BY <2>5
  <2>7. QED
    BY <1>1, <1>5, <2>6
<1>8. QED
  BY <1>6, <1>7

LEMMA FrameIs ==
    ASSUME NEW block, NEW taken
    PROVE  \E from : IsFrame(from, block, taken, 1) /\ FrameTokens(block, taken) = from[1]
<1> DEFINE from == CHOOSE g : IsFrame(g, block, taken, 1)
<1>1. FrameTokens(block, taken) = from[1]
  BY Zenon DEF FrameTokens, IsFrame
<1>2. IsFrame(from, block, taken, 1)
  <2>1. 1 \in 1 .. Len(Loops) + 1
    BY LoopAssumption
  <2>2. \E g : IsFrame(g, block, taken, 1)
    BY <2>1, FrameExists
  <2>3. QED
    BY <2>2
<1>3. QED
  BY <1>1, <1>2

LEMMA FrameLays ==
    ASSUME options \in OptionType, NEW block \in Blocks, NEW taken \in TakenType(options),
           NEW pre \in Seq(Token(options))
    PROVE  /\ FrameTokens(block, taken) \in Seq(Token(options))
           /\ Lays(options, pre \o FrameTokens(block, taken), pre, FuncOf[block],
                   Around(options, block), taken)
<1> DEFINE n == Len(Loops) + 1
           A == Around(options, block)
           f == FuncOf[block]
           first == <<CalleeToken(f)>>
           token(i) == LoopToken(options, Loops[i], taken[Loops[i]])
           of(k) == {i \in A : k <= i}
           tokens == Token(options)
<1>1. PICK from : IsFrame(from, block, taken, 1) /\ FrameTokens(block, taken) = from[1]
  BY FrameIs
<1>2. n \in Nat \ {0} /\ A \subseteq 1 .. n - 1 /\ A \subseteq DOMAIN Loops /\ DOMAIN Loops = 1 .. n - 1
  <2>1. Len(Loops) \in Nat /\ DOMAIN Loops = 1 .. Len(Loops)
    BY LoopAssumption
  <2>2. A \subseteq DOMAIN Loops
    BY DEF Around
  <2>3. QED
    BY <2>1, <2>2
<1>3. first \in Seq(tokens)
  <2>1. CalleeToken(f) \in tokens
    BY LoopAssumption DEF Token
  <2> HIDE DEF tokens
  <2>2. QED
    BY <2>1
<1>4. \A i \in A : token(i) \in tokens
  <2>1. ASSUME NEW i \in A PROVE token(i) \in tokens
    <3>1. Loops[i] \in Range(Loops) /\ taken[Loops[i]] \in 0 .. options.loopPeel
      BY <1>2, LoopsDiffer DEF TakenType
    <3>2. QED
      BY <3>1, LoopTokenType
  <2>2. QED
    BY <2>1
<1>5. ASSUME NEW i \in 1 .. n
      PROVE  from[i] = IF i = n THEN first
                       ELSE IF i \in A THEN Append(from[i + 1], token(i)) ELSE from[i + 1]
  BY <1>1 DEF IsFrame
<1> DEFINE Good(k) == /\ from[k] \in Seq(tokens)
                      /\ Lays(options, pre \o from[k], pre, f, of(k), taken)
           U == {j \in Nat : j < n /\ ~ Good(n - j)}
<1> HIDE DEF n, A, first, tokens, token, f
<1>6. ASSUME U # {} PROVE FALSE
  <2>1. PICK j \in U : \A k \in U : j <= k
    <3>1. U \subseteq Nat
      OBVIOUS
    <3>2. QED
      BY <1>6, <3>1, LeastNumber
  <2> DEFINE k == n - j
  <2>2. k \in 1 .. n /\ ~ Good(k)
    BY <1>2, <2>1
  <2>3. CASE j = 0
    <3>1. k = n /\ from[k] = first
      BY <1>2, <1>5, <2>2, <2>3
    <3>2. of(k) = {}
      BY <1>2, <3>1
    <3>3. Len(first) = 1 /\ first[1] = CalleeToken(f)
      BY DEF first
    <3>4. pre \in Seq(tokens) /\ Len(pre) \in Nat
      BY DEF tokens
    <3>5. /\ Len(pre \o first) = Len(pre) + 1
          /\ \A i \in 1 .. Len(pre) : (pre \o first)[i] = pre[i]
          /\ (pre \o first)[Len(pre) + 1] = CalleeToken(f)
      <4>1. first \in Seq(tokens)
        BY <1>3
      <4>2. Len(pre \o first) = Len(pre) + Len(first)
        BY <3>4, <4>1, ConcatProperties
      <4>3. \A i \in 1 .. Len(pre) + Len(first) :
               (pre \o first)[i] = IF i <= Len(pre) THEN pre[i] ELSE first[i - Len(pre)]
        BY <3>4, <4>1, ConcatProperties
      <4>4. Len(pre) + 1 \in 1 .. Len(pre) + Len(first) /\ Len(pre) + 1 - Len(pre) = 1
            /\ ~ Len(pre) + 1 <= Len(pre)
        BY <3>3, <3>4
      <4>5. (pre \o first)[Len(pre) + 1] = CalleeToken(f)
        <5>1. PICK i \in 1 .. Len(pre) + Len(first) : i = Len(pre) + 1
          BY <4>4
        <5>2. ~ i <= Len(pre) /\ i - Len(pre) = 1
          BY <4>4, <5>1
        <5>3. (pre \o first)[i] = first[i - Len(pre)]
          BY <4>3, <5>2
        <5>4. QED
          BY <3>3, <5>1, <5>2, <5>3
      <4>6. ASSUME NEW i \in 1 .. Len(pre) PROVE (pre \o first)[i] = pre[i]
        <5>1. i \in 1 .. Len(pre) + Len(first) /\ i <= Len(pre)
          BY <3>3, <3>4
        <5>2. QED
          BY <4>3, <5>1
      <4>7. QED
        BY <3>3, <4>2, <4>5, <4>6
    <3>6. Cardinality({}) = 0
      BY FS_EmptySet
    <3>7. Lays(options, pre \o first, pre, f, {}, taken)
      BY <3>4, <3>5, <3>6 DEF Lays
    <3>8. QED
      BY <1>3, <2>2, <3>1, <3>2, <3>7
  <2>4. CASE j # 0
    <3>1. k # n /\ k + 1 = n - (j - 1) /\ j - 1 \in Nat /\ j - 1 < n /\ ~ j <= j - 1 /\ k + 1 \in 1 .. n
      BY <1>2, <2>1, <2>4
    <3>2. Good(k + 1)
      <4> HIDE DEF Good
      <4>1. j - 1 \notin U
        BY <2>1, <3>1
      <4>2. QED
        BY <3>1, <4>1
    <3> HIDE DEF k
    <3>3. CASE k \notin A
      <4>1. from[k] = from[k + 1]
        BY <1>5, <2>2, <3>1, <3>3
      <4>2. of(k) = of(k + 1)
        BY <1>2, <2>2, <3>3
      <4>3. QED
        BY <2>2, <3>2, <4>1, <4>2
    <3>4. CASE k \in A
      <4>1. from[k] = Append(from[k + 1], token(k))
        BY <1>5, <2>2, <3>1, <3>4
      <4>2. of(k) = of(k + 1) \cup {k} /\ of(k + 1) \subseteq DOMAIN Loops /\ k \in DOMAIN Loops
            /\ \A i \in of(k + 1) : k < i
        BY <1>2, <2>2, <3>4
      <4>3. token(k) \in tokens /\ from[k + 1] \in Seq(tokens) /\ pre \in Seq(tokens)
        BY <1>4, <3>2, <3>4 DEF tokens
      <4> DEFINE c == pre \o from[k + 1]
      <4>4. pre \o from[k] = Append(c, token(k)) /\ c \in Seq(tokens)
        BY <4>1, <4>3
      <4>5. Lays(options, c, pre, f, of(k + 1), taken)
        BY <3>2
      <4> HIDE DEF c, of
      <4>6. Lays(options, Append(c, token(k)), pre, f, of(k + 1) \cup {k}, taken)
        BY <4>2, <4>3, <4>4, <4>5, LaysPush DEF token
      <4>7. from[k] \in Seq(tokens)
        BY <4>1, <4>3
      <4>8. QED
        BY <2>2, <4>2, <4>4, <4>6, <4>7
    <3>5. QED
      BY <3>3, <3>4
  <2>5. QED
    BY <2>3, <2>4
<1>7. Good(1)
  <2> HIDE DEF Good
  <2>1. n - 1 \in Nat /\ n - 1 < n /\ n - (n - 1) = 1
    BY <1>2
  <2>2. n - 1 \notin U
    BY <1>6
  <2>3. QED
    BY <2>1, <2>2
<1>8. of(1) = A
  BY <1>2
<1>9. QED
  BY <1>1, <1>7, <1>8 DEF A, f, tokens

RunFrame == [site : Blocks, taken : TakenType(options)]

CallsOf(stack) ==
    [i \in DOMAIN stack |->
        Append(FrameTokens(stack[i].site, stack[i].taken), SiteToken(stack[i].site))]

(* The context at the entry of what is called from the top of a stack.     *)
Outer(stack) == ReduceOnCall(options, FlattenSeq(CallsOf(stack)))

ContextIn(stack, block, taken) == Outer(stack) \o FrameTokens(block, taken)

LEMMA AppendParts ==
    ASSUME NEW S, NEW s \in Seq(S), NEW e \in S, NEW n, Len(s) = n
    PROVE  /\ Append(s, e) = [i \in 1 .. n + 1 |-> Append(s, e)[i]]
           /\ Append(s, e)[n + 1] = e
           /\ \A i \in 1 .. n : Append(s, e)[i] = s[i]
<1> DEFINE d == Append(s, e)
<1>1. d \in Seq(S) /\ Len(d) = n + 1
  OBVIOUS
<1>2. d[n + 1] = e /\ \A i \in 1 .. n : d[i] = s[i]
  OBVIOUS
<1>3. d = [i \in 1 .. n + 1 |-> d[i]]
  <2> HIDE DEF d
  <2>1. QED
    BY <1>1
<1>4. QED
  BY <1>2, <1>3

LEMMA ReduceType ==
    ASSUME NEW S, NEW opt, NEW ctx \in Seq(S) PROVE ReduceOnCall(opt, ctx) \in Seq(S)
BY ClearOlderThanType DEF ReduceOnCall

LEMMA FrameType ==
    ASSUME options \in OptionType, NEW block \in Blocks, NEW taken \in TakenType(options)
    PROVE  FrameTokens(block, taken) \in Seq(Token(options))
<1>1. <<>> \in Seq(Token(options))
  OBVIOUS
<1>2. QED
  BY <1>1, FrameLays

LEMMA CallsType ==
    ASSUME options \in OptionType, NEW stack \in Seq(RunFrame)
    PROVE  CallsOf(stack) \in Seq(Seq(Token(options))) /\ Len(CallsOf(stack)) = Len(stack)
<1> DEFINE tokens == Token(options)
<1>1. ASSUME NEW i \in 1 .. Len(stack)
      PROVE  Append(FrameTokens(stack[i].site, stack[i].taken), SiteToken(stack[i].site)) \in Seq(tokens)
  <2>1. stack[i] \in RunFrame
    OBVIOUS
  <2>2. stack[i].site \in Blocks /\ stack[i].taken \in TakenType(options)
    BY <2>1 DEF RunFrame
  <2>3. SiteToken(stack[i].site) \in tokens /\ FrameTokens(stack[i].site, stack[i].taken) \in Seq(tokens)
    BY <2>2, FrameType DEF Token
  <2> HIDE DEF tokens
  <2>4. QED
    BY <2>3
<1> HIDE DEF tokens
<1>2. DOMAIN stack = 1 .. Len(stack) /\ Len(stack) \in Nat
  OBVIOUS
<1>3. QED
  BY <1>1, <1>2, IsASeq DEF CallsOf, tokens

LEMMA OuterType ==
    ASSUME options \in OptionType, NEW stack \in Seq(RunFrame)
    PROVE  Outer(stack) \in Seq(Token(options))
BY CallsType, FlattenType, ReduceType DEF Outer

LEMMA OuterEmpty == ASSUME options \in OptionType PROVE Outer(<<>>) = <<>>
<1>1. CallsOf(<<>>) = <<>>
  BY DEF CallsOf
<1>2. FlattenSeq(<<>>) = <<>>
  BY DEF FlattenSeq
<1>3. ReduceOnCall(options, <<>>) = <<>>
  BY ClearEmpty DEF ReduceOnCall, OptionType
<1>4. QED
  BY <1>1, <1>2, <1>3 DEF Outer

(* The context in which the analysis looks for the callee is the one that  *)
(* the run has at the callee's entry.                                      *)
LEMMA OuterCall ==
    ASSUME options \in OptionType, NEW stack \in Seq(RunFrame), NEW frame \in RunFrame
    PROVE  CallContext(options, ContextIn(stack, frame.site, frame.taken), frame.site)
               = Outer(Append(stack, frame))
<1> DEFINE tokens == Token(options)
           calls == CallsOf(stack)
           own == FrameTokens(frame.site, frame.taken)
           site == SiteToken(frame.site)
           flat == FlattenSeq(calls)
<1>1. own \in Seq(tokens) /\ site \in tokens
  BY FrameType DEF RunFrame, Token
<1>2. calls \in Seq(Seq(tokens)) /\ flat \in Seq(tokens) /\ Len(calls) = Len(stack)
  BY CallsType, FlattenType
<1>3. CallsOf(Append(stack, frame)) = Append(calls, Append(own, site))
  <2> DEFINE d == Append(stack, frame)
             n == Len(stack)
  <2>1. /\ n \in Nat /\ DOMAIN d = 1 .. n + 1 /\ d[n + 1] = frame
        /\ \A i \in 1 .. n : d[i] = stack[i] /\ i \in DOMAIN stack
    OBVIOUS
  <2> DEFINE e == Append(calls, Append(own, site))
  <2>2. /\ e = [i \in 1 .. n + 1 |-> e[i]] /\ e[n + 1] = Append(own, site)
        /\ \A i \in 1 .. n : e[i] = calls[i]
    <3> DEFINE new == Append(own, site)
    <3>1. new \in Seq(tokens)
      BY <1>1
    <3>2. n \in Nat /\ Len(calls) = n /\ calls \in Seq(Seq(tokens))
      BY <1>2
    <3> HIDE DEF calls, new, n, tokens
    <3>3. QED
      BY <3>1, <3>2, AppendParts DEF new
  <2>3. \A i \in 1 .. n : calls[i] = Append(FrameTokens(stack[i].site, stack[i].taken), SiteToken(stack[i].site))
    BY <2>1 DEF CallsOf
  <2>4. CallsOf(d) = [i \in 1 .. n + 1 |-> Append(FrameTokens(d[i].site, d[i].taken), SiteToken(d[i].site))]
    BY <2>1 DEF CallsOf
  <2>5. ASSUME NEW i \in 1 .. n + 1
        PROVE  Append(FrameTokens(d[i].site, d[i].taken), SiteToken(d[i].site)) = e[i]
    <3>1. CASE i = n + 1
      BY <2>1, <2>2, <3>1
    <3>2. CASE i # n + 1
      <4>1. i \in 1 .. n
        BY <2>1, <3>2
      <4>2. QED
        BY <2>1, <2>2, <2>3, <4>1
    <3>3. QED
      BY <3>1, <3>2
  <2> HIDE DEF d, e, n
  <2>6. QED
    BY <2>2, <2>4, <2>5 DEF d, e
<1> HIDE DEF calls, own, site, tokens
<1>4. FlattenSeq(Append(calls, Append(own, site))) = flat \o Append(own, site)
  <2>1. Append(own, site) \in Seq(tokens)
    BY <1>1
  <2>2. QED
    BY <1>2, <2>1, FlattenAppend
<1> HIDE DEF flat
<1>5. ReduceOnCall(options, flat) \in Seq(tokens)
  BY <1>2, ReduceType
<1> DEFINE reduced == ReduceOnCall(options, flat)
<1>6. Append(reduced \o own, site) = reduced \o Append(own, site)
  <2> HIDE DEF reduced
  <2>1. reduced \in Seq(tokens) /\ reduced \o own \in Seq(tokens) /\ <<site>> \in Seq(tokens)
    BY <1>1, <1>5 DEF reduced
  <2>2. /\ Append(reduced \o own, site) = (reduced \o own) \o <<site>>
        /\ Append(own, site) = own \o <<site>>
    BY <1>1, <2>1, AppendIsConcat
  <2>3. (reduced \o own) \o <<site>> = reduced \o (own \o <<site>>)
    BY <1>1, <2>1, ConcatAssociative
  <2>4. QED
    BY <2>2, <2>3
<1>7. ReduceOnCall(options, reduced \o Append(own, site)) = ReduceOnCall(options, flat \o Append(own, site))
  <2>1. Append(own, site) \in Seq(tokens)
    BY <1>1
  <2>2. QED
    BY <1>2, <2>1, ReduceAbsorbs
<1>8. ContextIn(stack, frame.site, frame.taken) = reduced \o own
  BY DEF ContextIn, Outer, own, flat, calls
<1>9. Outer(Append(stack, frame)) = ReduceOnCall(options, flat \o Append(own, site))
  BY <1>3, <1>4 DEF Outer
<1>10. QED
  BY <1>6, <1>7, <1>8, <1>9 DEF CallContext, site

LEMMA ContextType ==
    ASSUME options \in OptionType, NEW stack \in Seq(RunFrame),
           NEW block \in Blocks, NEW taken \in TakenType(options)
    PROVE  ContextIn(stack, block, taken) \in Seq(Token(options))
<1>1. Outer(stack) \in Seq(Token(options)) /\ FrameTokens(block, taken) \in Seq(Token(options))
  BY OuterType, FrameType
<1>2. QED
  BY <1>1 DEF ContextIn

(* Going along an edge is what EdgeContext does to the context.            *)
LEMMA RunEdge ==
    ASSUME options \in OptionType, NEW stack \in Seq(RunFrame),
           NEW b \in Blocks, NEW t \in Blocks, NEW taken \in TakenType(options),
           FuncOf[t] = FuncOf[b],
           \A l \in Range(Loops) : b \notin Body[l] /\ t \in Body[l] => t = Header[l]
    PROVE  EdgeContext(options, ContextIn(stack, b, taken), <<b, t>>)
               = ContextIn(stack, t, TakenOn(options, b, t, taken))
<1> DEFINE tokens == Token(options)
           c == ContextIn(stack, b, taken)
           next == TakenOn(options, b, t, taken)
<1>1. Outer(stack) \in Seq(tokens) /\ c \in Seq(tokens) /\ next \in TakenType(options)
  BY OuterType, ContextType, TakenOnType
<1>2. Around(options, b) \subseteq DOMAIN Loops /\ Around(options, t) \subseteq DOMAIN Loops
  BY DEF Around
<1>3. Lays(options, c, Outer(stack), FuncOf[b], Around(options, b), taken)
  BY <1>1, FrameLays DEF ContextIn
<1> HIDE DEF c, next
<1>4. Lays(options, EdgeContext(options, c, <<b, t>>), Outer(stack), FuncOf[b], Around(options, t), next)
  BY <1>1, <1>3, EdgeContextLays DEF next
<1>5. Lays(options, ContextIn(stack, t, next), Outer(stack), FuncOf[b], Around(options, t), next)
  <2>1. Lays(options, Outer(stack) \o FrameTokens(t, next), Outer(stack), FuncOf[t], Around(options, t), next)
    BY <1>1, FrameLays
  <2>2. QED
    BY <2>1 DEF ContextIn
<1>6. EdgeContext(options, c, <<b, t>>) \in Seq(tokens) /\ ContextIn(stack, t, next) \in Seq(tokens)
  BY <1>1, EdgeContextType, ContextType
<1>7. EdgeContext(options, c, <<b, t>>) = ContextIn(stack, t, next)
  BY <1>1, <1>2, <1>4, <1>5, <1>6, LaysUnique
<1>8. QED
  BY <1>7 DEF c, next

(* Outside of loops the token of the function's call is on top.            *)
LEMMA RunOutside ==
    ASSUME options \in OptionType, NEW stack \in Seq(RunFrame),
           NEW b \in Blocks, NEW taken \in TakenType(options),
           \A l \in Range(Loops) : b \notin Body[l]
    PROVE  ContextIn(stack, b, taken) = Append(Outer(stack), CalleeToken(FuncOf[b]))
<1> DEFINE tokens == Token(options)
           c == ContextIn(stack, b, taken)
           pre == Outer(stack)
           d == Append(pre, CalleeToken(FuncOf[b]))
<1>1. pre \in Seq(tokens) /\ c \in Seq(tokens) /\ CalleeToken(FuncOf[b]) \in tokens
  BY OuterType, ContextType, LoopAssumption DEF Token
<1>2. Around(options, b) = {}
  BY LoopsDiffer DEF Around
<1>3. Lays(options, c, pre, FuncOf[b], {}, taken)
  BY <1>1, <1>2, FrameLays DEF ContextIn
<1> HIDE DEF c, pre, tokens
<1>4. Len(pre) \in Nat /\ Cardinality({}) = 0
  BY <1>1, FS_EmptySet
<1>5. /\ d \in Seq(tokens) /\ Len(d) = Len(pre) + 1 /\ d[Len(pre) + 1] = CalleeToken(FuncOf[b])
      /\ \A k \in 1 .. Len(pre) : d[k] = pre[k]
  BY <1>1
<1>6. Lays(options, d, pre, FuncOf[b], {}, taken)
  BY <1>4, <1>5 DEF Lays
<1>7. c = d
  <2> HIDE DEF d
  <2>1. QED
    BY <1>1, <1>3, <1>5, <1>6, LaysUnique
<1>8. QED
  BY <1>7 DEF c, pre

-----------------------------------------------------------------------------
(* The run is expected where it is.                                        *)

(* A call on the stack has been expected where it was made, and calls f.   *)
Pending(stack, k, f) ==
    LET frame == stack[k]
        c == ContextIn(SubSeq(stack, 1, k - 1), frame.site, frame.taken)
    IN  /\ Callee[frame.site] = f
        /\ c \in DOMAIN mbb2anainfo[frame.site]
        /\ BeforeCall(frame.site, c) # {}

CalledAt(r, k) == IF k = Len(r.stack) THEN FuncOf[r.block] ELSE FuncOf[r.stack[k + 1].site]

RunTyped(r) ==
    /\ r = [phase |-> r.phase, block |-> r.block, value |-> r.value,
            taken |-> r.taken, stack |-> r.stack]
    /\ r.phase \in Phases /\ r.block \in Blocks
    /\ r.taken \in TakenType(options) /\ r.stack \in Seq(RunFrame)

StackExpected(r) == \A k \in 1 .. Len(r.stack) : Pending(r.stack, k, CalledAt(r, k))

PlaceExpected(r) ==
    LET c == ContextIn(r.stack, r.block, r.taken)
    IN  /\ c \in DOMAIN mbb2anainfo[r.block]
        /\ r.phase = "enter" => r.value \in mbb2anainfo[r.block][c]
        /\ r.phase = "leave" => r.value \in AfterCall(r.block, c)

Expected(r) == RunTyped(r) /\ StackExpected(r) /\ PlaceExpected(r)

LEMMA PrefixAppend ==
    ASSUME NEW S, NEW s \in Seq(S), NEW e \in S
    PROVE  /\ \A k \in 1 .. Len(s) + 1 : SubSeq(Append(s, e), 1, k - 1) = SubSeq(s, 1, k - 1)
           /\ SubSeq(s, 1, Len(s)) = s
<1> DEFINE d == Append(s, e)
           n == Len(s)
<1>1. n \in Nat /\ d \in Seq(S) /\ Len(d) = n + 1 /\ \A i \in 1 .. n : d[i] = s[i]
  OBVIOUS
<1>2. SubSeq(s, 1, n) = s
  OBVIOUS
<1> HIDE DEF d, n
<1>3. ASSUME NEW k \in 1 .. n + 1 PROVE SubSeq(d, 1, k - 1) = SubSeq(s, 1, k - 1)
  <2>1. SubSeq(d, 1, k - 1) = [i \in 1 .. k - 1 |-> d[i]]
    BY <1>1
  <2>2. SubSeq(s, 1, k - 1) = [i \in 1 .. k - 1 |-> s[i]]
    BY <1>1 DEF n
  <2>3. \A i \in 1 .. k - 1 : d[i] = s[i]
    BY <1>1
  <2>4. QED
    BY <2>1, <2>2, <2>3
<1>4. QED
  BY <1>2, <1>3 DEF d, n

(* At the fixed point, what is known somewhere has been passed on, ...     *)
LEMMA FixedPlace ==
    ASSUME IInv, TInv, worklist = {}, NEW b \in Blocks, NEW c \in DOMAIN mbb2anainfo[b]
    PROVE  /\ Solved(b, c) /\ c \in Seq(Token(options))
           /\ mbb2anainfo[b][c] \subseteq BlockIn(b, c)
<1>1. Solved(b, c)
  BY DEF IInv, WorklistComplete
<1>2. c \in Seq(Token(options))
  BY DEF TInv, TypeOK, IsInfo
<1>3. mbb2anainfo[b][c] \subseteq BlockIn(b, c)
  BY DEF BlockIn, FindEarly
<1>4. QED
  BY <1>1, <1>2, <1>3

(* ... and what is known at the entry of a function is known at the entry  *)
(* of its first block.                                                     *)
LEMMA FixedEntry ==
    ASSUME IInv, TInv, worklist = {}, NEW f \in Functions, NEW c \in DOMAIN funcIn[f],
           NEW v \in funcIn[f][c]
    PROVE  /\ Append(c, CalleeToken(f)) \in DOMAIN mbb2anainfo[EntryBlock[f]]
           /\ v \in mbb2anainfo[EntryBlock[f]][Append(c, CalleeToken(f))]
<1> DEFINE b == EntryBlock[f]
           entered == Append(c, CalleeToken(f))
<1>1. b \in Blocks /\ FuncOf[b] = f
  BY ProgramAssumption
<1>2. c \in Seq(Token(options))
  BY DEF TInv, TypeOK, IsInfo
<1>3. entered \in DOMAIN mbb2anainfo[b]
  BY DEF IInv, WorklistComplete
<1>4. Front(entered) = c
  BY <1>2, FrontOfAppend
<1> HIDE DEF entered, b
<1>5. Solved(b, entered)
  BY <1>1, <1>3, FixedPlace
<1>6. FromFunctionIn(b, entered) = {<<b, entered, funcIn[f][c]>>}
  BY <1>1, <1>4 DEF FromFunctionIn, IsEntry, b
<1>7. Covers(mbb2anainfo, <<b, entered, funcIn[f][c]>>)
  BY <1>5, <1>6 DEF Solved, CoversAll
<1>8. QED
  BY <1>7 DEF Covers, b, entered

(* Each step of the run leads to where the run is expected.                *)
LEMMA ExecuteExpected ==
    ASSUME IInv, TInv, worklist = {}, Expected(run), Execute PROVE Expected(run')
<1> DEFINE b == run.block
           c == ContextIn(run.stack, run.block, run.taken)
<1>1. PICK v \in Transferred[b][run.value] :
        \E w \in IF Callee[b] = External THEN Values ELSE {v} :
           run' = [run EXCEPT !.phase = "leave", !.value = w]
  BY DEF Execute
<1>2. PICK w \in IF Callee[b] = External THEN Values ELSE {v} :
           run' = [run EXCEPT !.phase = "leave", !.value = w]
  BY <1>1
<1>3. /\ b \in Blocks /\ c \in DOMAIN mbb2anainfo[b] /\ run.value \in mbb2anainfo[b][c]
      /\ Callee[b] \in {NoCall, External} /\ NoCall # External
      /\ NoCall \notin Functions /\ External \notin Functions
  BY ProgramAssumption DEF Expected, RunTyped, PlaceExpected, Execute, IsRunning
<1>4. v \in BeforeCall(b, c)
  BY <1>1, <1>3, FixedPlace DEF BeforeCall
<1>5. w \in AfterCall(b, c)
  BY <1>2, <1>3, <1>4 DEF AfterCall
<1>6. /\ RunTyped(run') /\ run'.stack = run.stack /\ run'.block = b
      /\ run'.taken = run.taken /\ run'.phase = "leave" /\ run'.value = w
  BY <1>2 DEF Expected, RunTyped, Phases
<1>7. StackExpected(run')
  BY <1>6 DEF Expected, StackExpected, CalledAt
<1>8. PlaceExpected(run')
  BY <1>3, <1>5, <1>6 DEF PlaceExpected
<1>9. QED
  BY <1>6, <1>7, <1>8 DEF Expected

LEMMA CallExpected ==
    ASSUME IInv, TInv, worklist = {}, Expected(run), Call PROVE Expected(run')
<1> DEFINE b == run.block
           c == ContextIn(run.stack, run.block, run.taken)
           f == Callee[b]
           frame == [site |-> b, taken |-> run.taken]
           stack == Append(run.stack, frame)
<1>1. PICK v \in Transferred[b][run.value] :
        run' = [run EXCEPT !.value = v, !.block = EntryBlock[f],
                           !.taken = NoLoopTaken, !.stack = stack]
  BY DEF Call
<1>2. /\ options \in OptionType /\ b \in Blocks /\ run.taken \in TakenType(options)
      /\ run.stack \in Seq(RunFrame) /\ frame \in RunFrame
      /\ c \in DOMAIN mbb2anainfo[b] /\ run.value \in mbb2anainfo[b][c] /\ f \in Functions
      /\ run.phase = "enter"
  BY DEF Expected, RunTyped, PlaceExpected, Call, IsRunning, RunFrame, TInv, TypeOK
<1>3. v \in BeforeCall(b, c) /\ Solved(b, c)
  BY <1>1, <1>2, FixedPlace DEF BeforeCall
<1>4. /\ CallContext(options, c, b) \in DOMAIN funcIn[f]
      /\ v \in funcIn[f][CallContext(options, c, b)]
  <2>1. <<f, CallContext(options, c, b), BeforeCall(b, c)>> \in ToCallee(b, c)
    BY <1>2, <1>3 DEF ToCallee
  <2>2. Covers(funcIn, <<f, CallContext(options, c, b), BeforeCall(b, c)>>)
    BY <1>3, <2>1 DEF Solved, CoversAll
  <2>3. QED
    BY <1>3, <2>2 DEF Covers
<1>5. CallContext(options, c, b) = Outer(stack)
  BY <1>2, OuterCall
<1>6. stack \in Seq(RunFrame) /\ Len(stack) = Len(run.stack) + 1 /\ Len(run.stack) \in Nat
      /\ stack[Len(run.stack) + 1] = frame
      /\ \A k \in 1 .. Len(run.stack) : stack[k] = run.stack[k]
  BY <1>2
<1> DEFINE entry == EntryBlock[f]
<1>7. entry \in Blocks /\ FuncOf[entry] = f /\ \A l \in Range(Loops) : entry \notin Body[l]
  BY <1>2, ProgramAssumption, FlowAssumption
<1>8. NoLoopTaken \in TakenType(options)
  BY <1>2 DEF NoLoopTaken, TakenType, OptionType
<1> HIDE DEF b, c, f, frame, stack, entry
<1>9. /\ RunTyped(run') /\ run'.stack = stack /\ run'.block = entry
      /\ run'.taken = NoLoopTaken /\ run'.phase = "enter" /\ run'.value = v
  BY <1>1, <1>2, <1>6, <1>7, <1>8 DEF Expected, RunTyped, Phases, entry
<1>10. ContextIn(stack, entry, NoLoopTaken) = Append(Outer(stack), CalleeToken(f))
  BY <1>2, <1>6, <1>7, <1>8, RunOutside
<1>11. PlaceExpected(run')
  <2>1. /\ Append(Outer(stack), CalleeToken(f)) \in DOMAIN mbb2anainfo[entry]
        /\ v \in mbb2anainfo[entry][Append(Outer(stack), CalleeToken(f))]
    BY <1>2, <1>4, <1>5, FixedEntry DEF entry
  <2>2. QED
    BY <1>9, <1>10, <2>1 DEF PlaceExpected
<1>12. ASSUME NEW k \in 1 .. Len(stack) PROVE Pending(stack, k, CalledAt(run', k))
  <2>1. k \in 1 .. Len(run.stack) + 1 /\ Len(run.stack) \in Nat
    BY <1>6
  <2>2. SubSeq(stack, 1, k - 1) = SubSeq(run.stack, 1, k - 1)
    BY <1>2, <2>1, PrefixAppend DEF stack
  <2>3. CASE k = Len(run.stack) + 1
    <3>1. SubSeq(stack, 1, k - 1) = run.stack
      <4>1. k - 1 = Len(run.stack)
        BY <2>1, <2>3
      <4>2. QED
        BY <1>2, <2>2, <4>1, PrefixAppend
    <3>2. stack[k] = frame /\ frame.site = b /\ frame.taken = run.taken
      BY <1>6, <2>3 DEF frame
    <3>3. CalledAt(run', k) = f
      BY <1>6, <1>7, <1>9, <2>3 DEF CalledAt
    <3>4. QED
      BY <1>2, <1>3, <3>1, <3>2, <3>3 DEF Pending, b, c, f
  <2>4. CASE k # Len(run.stack) + 1
    <3>1. k \in 1 .. Len(run.stack) /\ stack[k] = run.stack[k] /\ k # Len(stack)
      BY <1>6, <2>1, <2>4
    <3>2. Pending(run.stack, k, CalledAt(run, k))
      BY <3>1 DEF Expected, StackExpected
    <3>3. CalledAt(run', k) = CalledAt(run, k)
      <4>1. CASE k = Len(run.stack)
        <5>1. stack[k + 1] = frame /\ frame.site = b
          BY <1>6, <4>1 DEF frame
        <5>2. QED
          BY <1>9, <3>1, <4>1, <5>1 DEF CalledAt, b
      <4>2. CASE k # Len(run.stack)
        <5>1. k + 1 \in 1 .. Len(run.stack)
          BY <2>1, <3>1, <4>2
        <5>2. stack[k + 1] = run.stack[k + 1]
          BY <1>6, <5>1
        <5>3. QED
          BY <1>9, <3>1, <4>2, <5>2 DEF CalledAt
      <4>3. QED
        BY <4>1, <4>2
    <3>4. QED
      BY <2>2, <3>1, <3>2, <3>3 DEF Pending
  <2>5. QED
    BY <2>3, <2>4
<1>13. StackExpected(run')
  BY <1>9, <1>12 DEF StackExpected
<1>14. QED
  BY <1>9, <1>11, <1>13 DEF Expected

LEMMA BranchExpected ==
    ASSUME IInv, TInv, worklist = {}, Expected(run), Branch PROVE Expected(run')
<1> DEFINE b == run.block
           c == ContextIn(run.stack, run.block, run.taken)
<1>1. /\ options \in OptionType /\ b \in Blocks /\ run.taken \in TakenType(options)
      /\ run.stack \in Seq(RunFrame)
      /\ c \in DOMAIN mbb2anainfo[b] /\ run.value \in AfterCall(b, c)
  BY DEF Expected, RunTyped, PlaceExpected, Branch, IsRunning, TInv, TypeOK
<1>2. Solved(b, c)
  BY <1>1, FixedPlace
<1>3. PICK t \in DOMAIN Branches[b] \cup Layout[b] :
        /\ GoTo(t)
        /\ \E f \in ToSuccessors(b, c) :
              /\ f[1] = t /\ f[2] = EdgeContext(options, c, <<b, t>>) /\ run.value \in f[3]
  <2> DEFINE taken(t) == <<t, EdgeContext(options, c, <<b, t>>), AfterCall(b, c) \cap Branches[b][t]>>
             fallen(t) == <<t, EdgeContext(options, c, <<b, t>>), AfterCall(b, c) \cap FallsThrough[b]>>
  <2>1. CASE \E t \in DOMAIN Branches[b] : run.value \in Branches[b][t] /\ GoTo(t)
    <3>1. PICK t \in DOMAIN Branches[b] : run.value \in Branches[b][t] /\ GoTo(t)
      BY <2>1
    <3>2. taken(t) \in ToSuccessors(b, c)
      BY DEF ToSuccessors
    <3>3. taken(t)[1] = t /\ taken(t)[2] = EdgeContext(options, c, <<b, t>>) /\ run.value \in taken(t)[3]
      BY <1>1, <3>1
    <3>4. QED
      BY <3>1, <3>2, <3>3
  <2>2. CASE \E t \in Layout[b] : run.value \in FallsThrough[b] /\ GoTo(t)
    <3>1. PICK t \in Layout[b] : run.value \in FallsThrough[b] /\ GoTo(t)
      BY <2>2
    <3>2. fallen(t) \in ToSuccessors(b, c)
      BY DEF ToSuccessors
    <3>3. fallen(t)[1] = t /\ fallen(t)[2] = EdgeContext(options, c, <<b, t>>) /\ run.value \in fallen(t)[3]
      BY <1>1, <3>1
    <3>4. QED
      BY <3>1, <3>2, <3>3
  <2>3. QED
    BY <2>1, <2>2 DEF Branch
<1>4. t \in Blocks
  BY <1>1, ProgramAssumption
<1>5. /\ FuncOf[t] = FuncOf[b]
      /\ \A l \in Range(Loops) : b \notin Body[l] /\ t \in Body[l] => t = Header[l]
  BY <1>1, FlowAssumption
<1> DEFINE next == TakenOn(options, b, t, run.taken)
<1>6. EdgeContext(options, c, <<b, t>>) = ContextIn(run.stack, t, next)
  BY <1>1, <1>4, <1>5, RunEdge
<1>7. /\ EdgeContext(options, c, <<b, t>>) \in DOMAIN mbb2anainfo[t]
      /\ run.value \in mbb2anainfo[t][EdgeContext(options, c, <<b, t>>)]
  BY <1>2, <1>3 DEF Solved, CoversAll, Covers
<1>8. TakenAfter(b, t) = next
  <2>1. \A l \in Range(Loops) : Counted(run.taken[l]) =
            IF run.taken[l] < options.loopPeel THEN run.taken[l] + 1 ELSE run.taken[l]
    BY DEF Counted
  <2>2. QED
    BY <2>1 DEF TakenAfter, TakenOn
<1>9. next \in TakenType(options)
  BY <1>1, TakenOnType
<1>10. run' = [run EXCEPT !.phase = "enter", !.block = t, !.taken = next]
  BY <1>3, <1>8 DEF GoTo
<1> HIDE DEF next, c, b
<1>11. /\ RunTyped(run') /\ run'.stack = run.stack /\ run'.block = t
       /\ run'.taken = next /\ run'.phase = "enter" /\ run'.value = run.value
  BY <1>4, <1>9, <1>10 DEF Expected, RunTyped, Phases
<1>12. PlaceExpected(run')
  BY <1>6, <1>7, <1>11 DEF PlaceExpected
<1>13. StackExpected(run')
  BY <1>5, <1>11 DEF Expected, StackExpected, CalledAt, b
<1>14. QED
  BY <1>11, <1>12, <1>13 DEF Expected

LEMMA ReturnExpected ==
    ASSUME ReturnsOutsideLoops, IInv, TInv, worklist = {}, Expected(run), Return
    PROVE  Expected(run')
<1> DEFINE b == run.block
           c == ContextIn(run.stack, run.block, run.taken)
           f == FuncOf[b]
<1>1. /\ options \in OptionType /\ b \in Blocks /\ run.taken \in TakenType(options)
      /\ run.stack \in Seq(RunFrame) /\ run.phase = "leave"
      /\ b \in ReturnBlocks /\ run.value \in Returned[b]
      /\ c \in DOMAIN mbb2anainfo[b] /\ run.value \in AfterCall(b, c)
  BY DEF Expected, RunTyped, PlaceExpected, Return, IsRunning, TInv, TypeOK
<1>2. CASE run.stack = <<>>
  <2>1. run' = [run EXCEPT !.phase = "ended"]
    BY <1>2 DEF Return
  <2>2. /\ RunTyped(run') /\ run'.stack = run.stack /\ run'.block = b
        /\ run'.taken = run.taken /\ run'.phase = "ended"
    BY <2>1 DEF Expected, RunTyped, Phases
  <2>3. StackExpected(run')
    BY <2>2 DEF Expected, StackExpected, CalledAt
  <2>4. PlaceExpected(run')
    BY <1>1, <2>2 DEF PlaceExpected
  <2>5. QED
    BY <2>2, <2>3, <2>4 DEF Expected
<1>3. CASE run.stack # <<>>
  <2> DEFINE frame == Last(run.stack)
             stack == Front(run.stack)
             n == Len(run.stack)
             d == ContextIn(stack, frame.site, frame.taken)
  <2>1. run' = [run EXCEPT !.block = frame.site, !.taken = frame.taken, !.stack = stack]
    BY <1>3 DEF Return
  <2>2. /\ run.stack = Append(stack, frame) /\ stack \in Seq(RunFrame) /\ frame \in RunFrame
        /\ Len(stack) = n - 1 /\ n \in Nat \ {0}
    BY <1>1, <1>3, ListSplit
  <2> HIDE DEF frame, stack
  <2>3. frame.site \in Blocks /\ frame.taken \in TakenType(options)
    BY <2>2 DEF RunFrame
  <2>4. SubSeq(run.stack, 1, n - 1) = stack /\ run.stack[n] = frame
    <3>1. \A k \in 1 .. Len(stack) + 1 : SubSeq(Append(stack, frame), 1, k - 1) = SubSeq(stack, 1, k - 1)
      BY <2>2, PrefixAppend
    <3>2. SubSeq(stack, 1, Len(stack)) = stack
      BY <2>2, PrefixAppend
    <3>3. n \in 1 .. Len(stack) + 1 /\ n - 1 = Len(stack) /\ n = Len(stack) + 1
      BY <2>2
    <3>4. SubSeq(run.stack, 1, n - 1) = SubSeq(stack, 1, n - 1)
      BY <2>2, <3>1, <3>3
    <3>5. Append(stack, frame)[Len(stack) + 1] = frame
      BY <2>2
    <3>6. QED
      BY <2>2, <3>2, <3>3, <3>4, <3>5
  <2>5. /\ Callee[frame.site] = f /\ d \in DOMAIN mbb2anainfo[frame.site]
        /\ BeforeCall(frame.site, d) # {}
    <3>1. n \in 1 .. n
      BY <2>2
    <3>2. Pending(run.stack, n, CalledAt(run, n))
      BY <3>1 DEF Expected, StackExpected
    <3>3. CalledAt(run, n) = f
      BY DEF CalledAt
    <3>4. QED
      BY <2>4, <3>2, <3>3 DEF Pending
  <2>6. CallContext(options, d, frame.site) = Outer(run.stack)
    BY <1>1, <2>2, OuterCall
  <2>7. /\ Outer(run.stack) \in DOMAIN funcOut[f]
        /\ run.value \in funcOut[f][Outer(run.stack)]
    <3>1. \A l \in Range(Loops) : b \notin Body[l]
      BY <1>1 DEF ReturnsOutsideLoops
    <3>2. c = Append(Outer(run.stack), CalleeToken(f))
      BY <1>1, <3>1, RunOutside
    <3>3. Outer(run.stack) \in Seq(Token(options))
      BY <1>1, OuterType
    <3> DEFINE o == Outer(run.stack)
               e == Append(o, CalleeToken(f))
    <3>4. /\ e # <<>> /\ Last(e) = CalleeToken(f) /\ Front(e) = o
      <4>1. o \in Seq(Token(options))
        BY <3>3
      <4> HIDE DEF o
      <4>2. Len(e) = Len(o) + 1 /\ e[Len(o) + 1] = CalleeToken(f) /\ Len(o) \in Nat
        BY <4>1
      <4>3. e # <<>>
        BY <4>2
      <4>4. QED
        BY <4>1, <4>2, <4>3, FrontOfAppend DEF Last
    <3>5. Merge(c, {CalleeToken(f)}) = o
      BY <3>2, <3>4 DEF Merge
    <3>6. <<f, Merge(c, {CalleeToken(f)}), AfterCall(b, c) \cap Returned[b]>> \in ToExit(b, c)
      BY <1>1 DEF ToExit
    <3>7. Solved(b, c)
      BY <1>1, FixedPlace
    <3>8. Covers(funcOut, <<f, o, AfterCall(b, c) \cap Returned[b]>>)
      BY <3>5, <3>6, <3>7 DEF Solved, CoversAll
    <3>9. QED
      BY <1>1, <3>8 DEF Covers
  <2>8. run.value \in AfterCall(frame.site, d)
    <3>1. f \in Functions /\ f # NoCall /\ f # External
      BY <1>1, LoopAssumption, ProgramAssumption
    <3>2. AfterCall(frame.site, d) = FindEarly(funcOut[f], Outer(run.stack))
      BY <2>5, <2>6, <3>1 DEF AfterCall
    <3>3. QED
      BY <2>7, <3>2 DEF FindEarly
  <2> HIDE DEF d, n
  <2>9. /\ RunTyped(run') /\ run'.stack = stack /\ run'.block = frame.site
        /\ run'.taken = frame.taken /\ run'.phase = "leave" /\ run'.value = run.value
    BY <1>1, <2>1, <2>2, <2>3 DEF Expected, RunTyped, Phases
  <2>10. PlaceExpected(run')
    BY <2>5, <2>8, <2>9 DEF PlaceExpected, d
  <2>11. ASSUME NEW k \in 1 .. Len(stack) PROVE Pending(stack, k, CalledAt(run', k))
    <3>1. k \in 1 .. n /\ k # n /\ k \in 1 .. Len(stack) + 1 /\ Len(stack) \in Nat
      BY <2>2
    <3>2. /\ SubSeq(Append(stack, frame), 1, k - 1) = SubSeq(stack, 1, k - 1)
          /\ Append(stack, frame)[k] = stack[k]
      BY <2>2, <3>1, PrefixAppend
    <3>3. Pending(run.stack, k, CalledAt(run, k))
      BY <3>1 DEF Expected, StackExpected, n
    <3>4. CalledAt(run', k) = CalledAt(run, k)
      <4>1. CalledAt(run, k) = FuncOf[run.stack[k + 1].site]
        BY <3>1 DEF CalledAt, n
      <4>2. CASE k = Len(stack)
        <5>1. k + 1 = n
          BY <2>2, <4>2
        <5>2. QED
          BY <2>4, <2>9, <4>1, <4>2, <5>1 DEF CalledAt
      <4>3. CASE k # Len(stack)
        <5>1. k + 1 \in 1 .. Len(stack)
          BY <3>1, <4>3
        <5>2. Append(stack, frame)[k + 1] = stack[k + 1]
          BY <2>2, <5>1
        <5>3. QED
          BY <2>2, <2>9, <4>1, <4>3, <5>2 DEF CalledAt
      <4>4. QED
        BY <4>2, <4>3
    <3>5. QED
      BY <2>2, <3>2, <3>3, <3>4 DEF Pending
  <2>12. StackExpected(run')
    BY <2>9, <2>11 DEF StackExpected
  <2>13. QED
    BY <2>9, <2>10, <2>12 DEF Expected
<1>4. QED
  BY <1>2, <1>3

(* Until the fixed point is reached the run has not begun.                 *)
NotBegun(r) ==
    /\ r = [phase |-> "enter", block |-> EntryBlock[EntryPoint], value |-> r.value,
            taken |-> NoLoopTaken, stack |-> <<>>]
    /\ r.value \in Start

(* The analysis begins with all the run may begin with.                    *)
StartKnown == <<>> \in DOMAIN funcIn[EntryPoint] /\ Start \subseteq funcIn[EntryPoint][<<>>]

RInv ==
    /\ StartKnown
    /\ IF worklist = {} THEN Expected(run) ELSE NotBegun(run)

LEMMA BeginExpected ==
    IInv /\ TInv /\ StartKnown /\ worklist = {} /\ NotBegun(run) => Expected(run)
<1> SUFFICES ASSUME IInv, TInv, StartKnown, worklist = {}, NotBegun(run) PROVE Expected(run)
  OBVIOUS
<1> DEFINE entry == EntryBlock[EntryPoint]
<1>1. /\ options \in OptionType /\ EntryPoint \in Functions /\ entry \in Blocks
      /\ FuncOf[entry] = EntryPoint /\ \A l \in Range(Loops) : entry \notin Body[l]
  BY ProgramAssumption, FlowAssumption DEF TInv, TypeOK
<1>2. NoLoopTaken \in TakenType(options)
  BY <1>1 DEF NoLoopTaken, TakenType, OptionType
<1>3. <<>> \in Seq(RunFrame)
  OBVIOUS
<1> HIDE DEF entry
<1>4. /\ RunTyped(run) /\ run.phase = "enter" /\ run.block = entry /\ run.stack = <<>>
      /\ run.taken = NoLoopTaken /\ run.value \in Start
  <2>1. /\ run.phase = "enter" /\ run.block = entry /\ run.stack = <<>>
        /\ run.taken = NoLoopTaken /\ run.value \in Start
    BY DEF NotBegun, entry
  <2>2. run = [phase |-> run.phase, block |-> run.block, value |-> run.value,
               taken |-> run.taken, stack |-> run.stack]
    BY <2>1 DEF NotBegun, entry
  <2>3. QED
    BY <1>1, <1>2, <1>3, <2>1, <2>2 DEF RunTyped, Phases
<1>5. StackExpected(run)
  <2>1. 1 .. Len(run.stack) = {}
    BY <1>4
  <2>2. QED
    BY <2>1 DEF StackExpected
<1>6. ContextIn(<<>>, entry, NoLoopTaken) = Append(<<>>, CalleeToken(EntryPoint))
  <2>1. ContextIn(<<>>, entry, NoLoopTaken) = Append(Outer(<<>>), CalleeToken(FuncOf[entry]))
    BY <1>1, <1>2, <1>3, RunOutside
  <2>2. QED
    BY <1>1, <2>1, OuterEmpty
<1>7. /\ Append(<<>>, CalleeToken(EntryPoint)) \in DOMAIN mbb2anainfo[entry]
      /\ run.value \in mbb2anainfo[entry][Append(<<>>, CalleeToken(EntryPoint))]
  <2>1. <<>> \in DOMAIN funcIn[EntryPoint] /\ run.value \in funcIn[EntryPoint][<<>>]
    BY <1>4 DEF StartKnown
  <2>2. QED
    BY <1>1, <2>1, FixedEntry DEF entry
<1>8. PlaceExpected(run)
  BY <1>4, <1>6, <1>7 DEF PlaceExpected
<1>9. QED
  BY <1>4, <1>5, <1>8 DEF Expected

LEMMA InitExpected == Init => RInv
<1> SUFFICES ASSUME Init PROVE RInv
  OBVIOUS
<1> DEFINE start == <<EntryPoint, <<>>, Start>>
<1>1. /\ funcOut = [f \in Functions |-> NoContext]
      /\ funcIn = JoinedTo(funcOut, {start})
      /\ worklist # {}
  BY DEF Init, DriverInit
<1>2. Covers(funcIn, start)
  <2>1. start[1] \in DOMAIN funcOut
    BY <1>1, ProgramAssumption
  <2> HIDE DEF start
  <2>2. QED
    BY <1>1, <2>1, JoinedCovers
<1>3. StartKnown
  BY <1>2 DEF Covers, StartKnown
<1>4. NotBegun(run)
  BY DEF Init, NotBegun
<1>5. QED
  BY <1>1, <1>3, <1>4 DEF RInv

LEMMA StepExpected ==
    ASSUME ReturnsOutsideLoops, IInv, TInv, IInv', TInv', RInv, [Next]_vars PROVE RInv'
<1>1. CASE AnalyseStep
  <2>1. run' = run /\ NotBegun(run')
    BY <1>1 DEF AnalyseStep, AnalyseNext, RInv
  <2>2. StartKnown'
    <3>1. PICK item \in worklist : Analyse(item[1], item[2])
      BY <1>1 DEF AnalyseStep, AnalyseNext
    <3>2. funcIn' = JoinedTo(funcIn, ToCallee(item[1], item[2]))
      BY <3>1 DEF Analyse
    <3>3. EntryPoint \in DOMAIN funcIn
      BY ProgramAssumption DEF IInv, Shape
    <3>4. QED
      BY <3>2, <3>3, JoinedGrows DEF RInv, StartKnown
  <2>3. (IInv /\ TInv /\ StartKnown /\ worklist = {} /\ NotBegun(run) => Expected(run))'
    BY BeginExpected, PTL
  <2>4. NotBegun(run)'
    BY <2>1 DEF NotBegun, NoLoopTaken
  <2>5. QED
    BY <2>2, <2>3, <2>4 DEF RInv
<1>2. ASSUME UNCHANGED driverVars, worklist = {} => Expected(run'),
             worklist # {} => run' = run
      PROVE  RInv'
  <2>1. /\ options' = options /\ mbb2anainfo' = mbb2anainfo
        /\ funcIn' = funcIn /\ funcOut' = funcOut /\ worklist' = worklist
    BY <1>2 DEF driverVars, info
  <2>2. StartKnown'
    BY <2>1 DEF RInv, StartKnown
  <2>3. CASE worklist = {}
    <3>1. \A r : Expected(r)' = Expected(r)
      <4>1. \A b, t : FrameTokens(b, t)' = FrameTokens(b, t)
        BY <2>1 DEF FrameTokens
      <4>2. \A s : CallsOf(s)' = CallsOf(s)
        BY <4>1 DEF CallsOf
      <4>3. \A s, b, t : ContextIn(s, b, t)' = ContextIn(s, b, t)
        BY <2>1, <4>1, <4>2 DEF ContextIn, Outer
      <4>4. \A s, k, f : Pending(s, k, f)' = Pending(s, k, f)
        BY <2>1, <4>3 DEF Pending, BeforeCall, BlockIn, FromFunctionIn
      <4>5. \A r : PlaceExpected(r)' = PlaceExpected(r)
        BY <2>1, <4>3 DEF PlaceExpected, AfterCall, BeforeCall, BlockIn, FromFunctionIn
      <4>6. \A r : RunTyped(r)' = RunTyped(r)
        <5>1. TakenType(options)' = TakenType(options)
          BY <2>1
        <5>2. QED
          BY <5>1 DEF RunTyped, RunFrame
      <4>7. ASSUME NEW r PROVE StackExpected(r)' = StackExpected(r)
        <5>1. \A k : CalledAt(r, k)' = CalledAt(r, k)
          BY DEF CalledAt
        <5>2. QED
          BY <4>4, <5>1 DEF StackExpected
      <4>8. QED
        BY <4>5, <4>6, <4>7 DEF Expected
    <3>2. Expected(run')
      BY <1>2, <2>3
    <3>3. Expected(run)'
      BY <3>1, <3>2
    <3>4. QED
      BY <2>1, <2>2, <2>3, <3>3 DEF RInv
  <2>4. CASE worklist # {}
    BY <1>2, <2>1, <2>2, <2>4 DEF RInv, NotBegun, NoLoopTaken
  <2>5. QED
    BY <2>3, <2>4
<1>3. CASE Execute
  <2>1. worklist = {} /\ Expected(run) /\ UNCHANGED driverVars
    BY <1>3 DEF Execute, IsRunning, RInv
  <2>2. QED
    BY <1>2, <1>3, <2>1, ExecuteExpected
<1>4. CASE Call
  <2>1. worklist = {} /\ Expected(run) /\ UNCHANGED driverVars
    BY <1>4 DEF Call, IsRunning, RInv
  <2>2. QED
    BY <1>2, <1>4, <2>1, CallExpected
<1>5. CASE Branch
  <2>1. worklist = {} /\ Expected(run) /\ UNCHANGED driverVars
    BY <1>5 DEF Branch, IsRunning, RInv
  <2>2. QED
    BY <1>2, <1>5, <2>1, BranchExpected
<1>6. CASE Return
  <2>1. worklist = {} /\ Expected(run) /\ UNCHANGED driverVars
    BY <1>6 DEF Return, IsRunning, RInv
  <2>2. QED
    BY <1>2, <1>6, <2>1, ReturnExpected
<1>7. CASE UNCHANGED vars
  <2>1. run' = run /\ UNCHANGED driverVars
    BY <1>7 DEF vars
  <2>2. worklist = {} => Expected(run')
    BY <2>1 DEF RInv
  <2>3. QED
    BY <1>2, <2>1, <2>2
<1>8. QED
  BY <1>1, <1>3, <1>4, <1>5, <1>6, <1>7 DEF Next

(* The analysis is sound: however the run takes branches, calls and loops, *)
(* it is where the analysis expects it, in the context it counts out for   *)
(* itself and with a value known there.                                    *)
THEOREM RunIsAlwaysCovered == ASSUME ReturnsOutsideLoops PROVE Spec => []RunIsCovered
<1>1. RInv => RunIsCovered
  <2> SUFFICES ASSUME RInv, worklist = {}
               PROVE  /\ run.phase = "enter" =>
                            /\ RunContext \in DOMAIN mbb2anainfo[run.block]
                            /\ run.value \in mbb2anainfo[run.block][RunContext]
                      /\ run.phase = "leave" => run.value \in AfterCall(run.block, RunContext)
    BY DEF RunIsCovered
  <2>1. RunContext = ContextIn(run.stack, run.block, run.taken)
    BY DEF RunContext, ContextIn, Outer, CallsOf
  <2>2. PlaceExpected(run)
    BY DEF RInv, Expected
  <2>3. QED
    BY <2>1, <2>2 DEF PlaceExpected
<1>2. Init => IInv /\ TInv /\ RInv
  BY InitComplete, InitTInv, InitExpected DEF Init
<1>3. [Next]_vars => [AnalyseNext]_driverVars
  BY DEF Next, vars, AnalyseStep, Execute, Call, Branch, Return
<1>4. (IInv /\ TInv /\ RInv) /\ [Next]_vars => (IInv /\ TInv /\ RInv)'
  BY <1>3, StepComplete, StepTInv, StepExpected
<1>5. QED
  BY <1>1, <1>2, <1>4, PTL DEF Spec
=============================================================================
