-------------------------- MODULE InterCoreProofs --------------------------
(***************************************************************************)
(* From a task to the bound on its interference, whatever the task, the    *)
(* cache and the paths of the other core.  The iterative search for        *)
(* unordered regions leaves no instruction out; what is made of the        *)
(* regions are paths, blocks and conflict regions (PathTypes, CRsType);    *)
(* and the dynamic program of DpMaxOutNumber covers every way to match the *)
(* two paths (BoundCoversMatchings); a persistent line misses no more      *)
(* often than is counted in a region (EvictionsAreCounted); and a run of   *)
(* the task goes through the regions of a path listed (RunsFollowCeops).   *)
(*                                                                         *)
(* The program leaves out starts of the other core that are as good as the *)
(* one before, and keeps one row per set of lines that are out.  So what   *)
(* it counts is not what a match counts: an earlier start evicts more      *)
(* (OutsGrow, EndangeredGrow), and leaves other lines out.  MatchGrows     *)
(* says that lines out only there are made up for by what is counted only  *)
(* there, and Counted is the invariant that follows.                       *)
(*                                                                         *)
(* Misses of a line are counted from sorted loads, not from an order of    *)
(* them.  k misses take at most one load each of a line, so min(k, f[l])   *)
(* of line l: Served says that this is enough for every part of the misses *)
(* (Hall's condition), and the loads of one region satisfy it as they go   *)
(* by (ServedLoad, ServedUse).  Counting takes the misses away again, the  *)
(* smallest blocks first, and leaves at most one that takes loads of two   *)
(* regions (Covered, OutsCover).                                           *)
(*                                                                         *)
(* For each visit of ceopDfs_it still to come, what is on tmpPath by then  *)
(* is known: each visit that ends takes a region off.  A walk not listed   *)
(* yet goes through one of those regions after that path (WillList).       *)
(***************************************************************************)
EXTENDS InterCore, FiniteSetTheorems, SequenceTheorems, WellFoundedInduction, TLAPS

-----------------------------------------------------------------------------
(* Recursion, over numbers and over finite sets. *)

(* A set of numbers has a least one. *)
LEMMA LeastNumber ==
    ASSUME NEW T, T \subseteq Nat, T # {}
    PROVE  \E m \in T : \A k \in T : m <= k
<1>1. PICK m \in T : \A k \in T : <<k, m>> \notin OpToRel(<, Nat)
  BY NatLessThanWellFounded, WFMin
<1>2. \A k \in T : ~ k < m
  BY <1>1 DEF OpToRel
<1>3. QED
  BY <1>2

(* What holds of 0, and of i if it holds of i - 1, holds up to n. *)
LEMMA Upward ==
    ASSUME NEW n \in Nat, NEW T, 0 \in T, \A i \in 1 .. n : i - 1 \in T => i \in T
    PROVE  \A i \in 0 .. n : i \in T
<1> DEFINE bad == {i \in 0 .. n : i \notin T}
<1>1. SUFFICES ASSUME bad # {} PROVE FALSE
  OBVIOUS
<1>2. PICK m \in bad : \A k \in bad : m <= k
  <2>1. bad \subseteq Nat
    OBVIOUS
  <2>2. QED
    BY <1>1, <2>1, LeastNumber
<1>3. m \in 1 .. n /\ m - 1 \in 0 .. n /\ ~ m <= m - 1
  BY <1>2
<1>4. m - 1 \in T
  BY <1>2, <1>3
<1>5. QED
  BY <1>2, <1>3, <1>4

(* The same, for the last number. *)
LEMMA UpwardTo ==
    ASSUME NEW n \in Nat, NEW T, 0 \in T, \A i \in 1 .. n : i - 1 \in T => i \in T
    PROVE  n \in T
<1>1. \A i \in 0 .. n : i \in T
  BY Upward
<1>2. QED
  BY <1>1

(* The numbers up to n are 0 and those from 1. *)
LEMMA UpToOrZero ==
    ASSUME NEW n \in Nat
    PROVE  /\ \A i \in 0 .. n : i = 0 \/ (i # 0 /\ i \in 1 .. n)
           /\ \A i \in 1 .. n : i \in 0 .. n /\ i # 0
           /\ 0 \in 0 .. n
OBVIOUS

(* g[i] comes from g[i - 1] by F[i]. *)
Recursive(g, n, S, base, F) ==
    /\ g = [i \in 0 .. n |-> g[i]] /\ g[0] = base
    /\ \A i \in 0 .. n : g[i] \in S
    /\ \A i \in 1 .. n : g[i - 1] \in S /\ g[i] = F[i][g[i - 1]]

(* A function can be defined by recursion over the numbers up to n. *)
LEMMA Recursion ==
    ASSUME NEW n \in Nat, NEW S, NEW base \in S, NEW F \in [1 .. n -> [S -> S]]
    PROVE  \E g : Recursive(g, n, S, base, F)
<1> DEFINE Is(g, m) == Recursive(g, m, S, base, F)
           T == {m \in 0 .. n : \E g : Is(g, m)}
<1>1. 0 \in T
  <2> DEFINE g == [i \in 0 .. 0 |-> base]
  <2>1. g \in [0 .. 0 -> S] /\ g[0] = base /\ \A i \in 1 .. 0 : g[i] = F[i][g[i - 1]]
    OBVIOUS
  <2> HIDE DEF g
  <2>2. Is(g, 0)
    BY <2>1 DEF Recursive
  <2>3. QED
    BY <2>2
<1>2. ASSUME NEW m \in 1 .. n, m - 1 \in T PROVE m \in T
  <2>1. PICK g : /\ g \in [0 .. m - 1 -> S] /\ g[0] = base
                 /\ \A i \in 1 .. m - 1 : g[i] = F[i][g[i - 1]]
    BY <1>2 DEF Recursive
  <2> DEFINE h == [i \in 0 .. m |-> IF i = m THEN F[m][g[m - 1]] ELSE g[i]]
  <2>2. g[m - 1] \in S /\ F[m][g[m - 1]] \in S
    <3>1. g[m - 1] \in S
      BY <2>1
    <3>2. F[m] \in [S -> S]
      OBVIOUS
    <3>3. QED
      BY <3>1, <3>2
  <2>3. h \in [0 .. m -> S]
    BY <2>1, <2>2
  <2>4. h[0] = base
    BY <2>1
  <2>5. \A i \in 1 .. m : h[i] = F[i][h[i - 1]]
    <3> TAKE i \in 1 .. m
    <3>1. i - 1 \in 0 .. m /\ i - 1 # m /\ h[i - 1] = g[i - 1]
      OBVIOUS
    <3>2. CASE i = m
      BY <3>1, <3>2
    <3>3. CASE i # m
      <4>1. i \in 1 .. m - 1 /\ h[i] = g[i]
        BY <3>3
      <4>2. QED
        BY <3>1, <4>1, <2>1
    <3>4. QED
      BY <3>2, <3>3
  <2> HIDE DEF h
  <2>6. Is(h, m)
    BY <2>3, <2>4, <2>5 DEF Recursive
  <2>7. QED
    BY <2>6
<1> HIDE DEF T
<1>3. n \in T
  <2>1. \A i \in 1 .. n : i - 1 \in T => i \in T
    BY <1>2
  <2>2. \A i \in 0 .. n : i \in T
    BY <1>1, <2>1, Upward
  <2>3. QED
    BY <2>2
<1>4. QED
  BY <1>3 DEF T

(* The same over the parts of a finite set: pick says in which order. *)
LEMMA SetUpward ==
    ASSUME NEW S, IsFiniteSet(S), NEW T, {} \in T,
           \A s \in SUBSET S : s # {} => \E x \in s : s \ {x} \in T => s \in T
    PROVE  \A s \in SUBSET S : s \in T
<1> DEFINE U == {n \in Nat : \A s \in SUBSET S : Cardinality(s) = n => s \in T}
<1>1. \A s \in SUBSET S : IsFiniteSet(s) /\ Cardinality(s) \in Nat
  BY FS_Subset, FS_CardinalityType
<1>2. 0 \in U
  BY <1>1, FS_EmptySet
<1>3. ASSUME NEW n \in Nat, n # 0, n - 1 \in U PROVE n \in U
  <2>1. SUFFICES ASSUME NEW s \in SUBSET S, Cardinality(s) = n PROVE s \in T
    BY <1>3
  <2>2. s # {}
    BY <1>3, <2>1, FS_EmptySet
  <2>3. PICK x \in s : s \ {x} \in T => s \in T
    BY <2>2
  <2>4. Cardinality(s \ {x}) = n - 1
    BY <1>1, <2>1, <2>3, FS_RemoveElement
  <2>5. s \ {x} \in SUBSET S
    OBVIOUS
  <2>6. QED
    BY <1>3, <2>3, <2>4, <2>5
<1> HIDE DEF U
<1>4. ASSUME NEW n \in Nat PROVE n \in U
  BY <1>2, <1>3, Upward
<1>5. QED
  <2> TAKE s \in SUBSET S
  <2>1. Cardinality(s) \in U
    BY <1>1, <1>4
  <2>2. QED
    BY <2>1 DEF U

SetRecursive(g, S, V, base, pick, F) ==
    /\ g \in [SUBSET S -> V]
    /\ \A s \in SUBSET S :
           g[s] = IF s = {} THEN base ELSE F[pick[s]][g[s \ {pick[s]}]]

(* A function can be defined by recursion over the subsets of a finite set.*)
LEMMA SetRecursion ==
    ASSUME NEW S, IsFiniteSet(S), NEW V, NEW base \in V,
           NEW pick, \A s \in SUBSET S : s # {} => pick[s] \in s,
           NEW F \in [S -> [V -> V]]
    PROVE  \E g : SetRecursive(g, S, V, base, pick, F)
<1> DEFINE n == Cardinality(S)
           W == [SUBSET S -> V]
           Extended(f) == [s \in SUBSET S |->
                          IF s = {} THEN base ELSE F[pick[s]][f[s \ {pick[s]}]]]
           H == [i \in 1 .. n |-> [f \in W |-> Extended(f)]]
           start == [s \in SUBSET S |-> base]
<1>1. n \in Nat
  BY FS_CardinalityType
<1>2. ASSUME NEW f \in W PROVE Extended(f) \in W
  <2>1. ASSUME NEW s \in SUBSET S, s # {} PROVE F[pick[s]][f[s \ {pick[s]}]] \in V
    <3>1. pick[s] \in S /\ s \ {pick[s]} \in SUBSET S
      BY <2>1
    <3>2. f[s \ {pick[s]}] \in V
      BY <3>1
    <3>3. F[pick[s]] \in [V -> V]
      BY <3>1
    <3>4. QED
      BY <3>2, <3>3
  <2>2. QED
    BY <2>1
<1>3. start \in W
  OBVIOUS
<1> HIDE DEF W, n
<1>4. H \in [1 .. n -> [W -> W]]
  <2> HIDE DEF Extended
  <2>1. QED
    BY <1>2
<1>5. \E G : Recursive(G, n, W, start, H)
  <2> HIDE DEF H, start
  <2>1. QED
    BY <1>1, <1>3, <1>4, Recursion
<1> PICK G : /\ G[0] = start /\ \A i \in 0 .. n : G[i] \in W
             /\ \A i \in 1 .. n : G[i] = H[i][G[i - 1]]
  BY <1>5 DEF Recursive
<1>6. ASSUME NEW i \in 1 .. n PROVE G[i] = Extended(G[i - 1]) /\ G[i - 1] \in W
  <2>1. i \in 0 .. n /\ i - 1 \in 0 .. n /\ i # 0
    BY <1>1
  <2>2. G[i - 1] \in W
    BY <2>1
  <2>4. G[i] = H[i][G[i - 1]]
    OBVIOUS
  <2>5. H[i][G[i - 1]] = Extended(G[i - 1])
    <3> HIDE DEF Extended
    <3>1. QED
      BY <2>2
  <2>6. QED
    BY <2>2, <2>4, <2>5
<1>7. ASSUME NEW s \in SUBSET S
      PROVE  Cardinality(s) \in 0 .. n /\ IsFiniteSet(s) /\ (s = {} <=> Cardinality(s) = 0)
  BY FS_Subset, FS_CardinalityType, FS_EmptySet DEF n
<1> DEFINE g == [s \in SUBSET S |-> G[Cardinality(s)][s]]
<1>8. g \in [SUBSET S -> V]
  <2>1. ASSUME NEW s \in SUBSET S PROVE G[Cardinality(s)][s] \in V
    <3>1. G[Cardinality(s)] \in W
      BY <1>7
    <3>2. QED
      BY <3>1 DEF W
  <2>2. QED
    BY <2>1
<1>9. ASSUME NEW s \in SUBSET S
      PROVE  g[s] = IF s = {} THEN base ELSE F[pick[s]][g[s \ {pick[s]}]]
  <2>1. CASE s = {}
    BY <1>7, <2>1
  <2>2. CASE s # {}
    <3> DEFINE i == Cardinality(s)
               rest == s \ {pick[s]}
    <3>1. i \in 1 .. n
      BY <1>1, <1>7, <2>2
    <3>2. rest \in SUBSET S /\ Cardinality(rest) = i - 1
      BY <1>7, <2>2, FS_RemoveElement
    <3>3. g[s] = G[i][s]
      OBVIOUS
    <3>4. G[i][s] = F[pick[s]][G[i - 1][rest]]
      <4>1. G[i] = Extended(G[i - 1])
        BY <1>6, <3>1
      <4>2. Extended(G[i - 1])[s] = F[pick[s]][G[i - 1][rest]]
        BY <2>2
      <4> HIDE DEF Extended, i
      <4>3. QED
        BY <4>1, <4>2
    <3>5. g[rest] = G[i - 1][rest]
      BY <3>2
    <3>6. QED
      BY <2>2, <3>3, <3>4, <3>5
  <2>3. QED
    BY <2>1, <2>2
<1> HIDE DEF g
<1>10. SetRecursive(g, S, V, base, pick, F)
  BY <1>8, <1>9 DEF SetRecursive
<1>11. QED
  BY <1>10

(* A finite set of numbers has a greatest one. *)
LEMMA GreatestNumber ==
    ASSUME NEW S, IsFiniteSet(S), S \subseteq Int, S # {}
    PROVE  \E m \in S : \A k \in S : k <= m
<1> DEFINE T == {s \in SUBSET S : s = {} \/ \E m \in s : \A k \in s : k <= m}
<1>1. {} \in T
  OBVIOUS
<1>2. ASSUME NEW s \in SUBSET S, s # {} PROVE \E x \in s : s \ {x} \in T => s \in T
  <2>1. PICK x \in s : TRUE
    BY <1>2
  <2>2. ASSUME s \ {x} \in T PROVE \E m \in s : \A k \in s : k <= m
    <3>1. CASE s \ {x} = {}
      BY <2>1, <3>1
    <3>2. CASE s \ {x} # {}
      <4>1. PICK m \in s \ {x} : \A k \in s \ {x} : k <= m
        BY <2>2, <3>2
      <4>2. m \in Int /\ x \in Int /\ \A k \in s : k \in Int
        BY <2>1
      <4>3. CASE x <= m
        BY <4>1, <4>2, <4>3
      <4>4. CASE ~ x <= m
        <5>1. \A k \in s : k <= x
          BY <4>1, <4>2, <4>4
        <5>2. QED
          BY <2>1, <5>1
      <4>5. QED
        BY <4>3, <4>4
    <3>3. QED
      BY <3>1, <3>2
  <2>3. QED
    BY <2>1, <2>2
<1> HIDE DEF T
<1>3. S \in T
  BY <1>1, <1>2, SetUpward, Zenon
<1>4. QED
  BY <1>3 DEF T

-----------------------------------------------------------------------------
(* Lists, and how often each of some lines is loaded. *)

(* An element of a sequence. *)
LEMMA ElementOf ==
    ASSUME NEW S, NEW s \in Seq(S), NEW i \in DOMAIN s
    PROVE  s[i] \in S
OBVIOUS

(* Facts about recursive functions of the model: they exist. *)

IsThose(g, s, keep) ==
    g = [i \in 0 .. Len(s) |->
            IF i = 0 THEN <<>>
            ELSE IF i \in keep THEN Append(g[i - 1], s[i])
            ELSE g[i - 1]]

(* The running lists of Those. *)
ListsThose(g, s, keep) ==
    /\ Those(s, keep) = g[Len(s)] /\ g[0] = <<>>
    /\ \A i \in 1 .. Len(s) : g[i] = IF i \in keep THEN Append(g[i - 1], s[i]) ELSE g[i - 1]

LEMMA ThoseSteps ==
    ASSUME NEW S, NEW s \in Seq(S), NEW keep
    PROVE  \E g : ListsThose(g, s, keep)
<1> DEFINE n == Len(s)
           F == [i \in 1 .. n |-> [v \in Seq(S) |-> IF i \in keep THEN Append(v, s[i]) ELSE v]]
           found == CHOOSE g : IsThose(g, s, keep)
<1>1. Those(s, keep) = found[n]
  BY Zenon DEF Those, IsThose
<1>2. n \in Nat /\ \A i \in 1 .. n : s[i] \in S
  OBVIOUS
<1>3. \E g : IsThose(g, s, keep)
  <2>1. <<>> \in Seq(S)
    BY EmptySeq
  <2>2. \A i \in 1 .. n : \A v \in Seq(S) : Append(v, s[i]) \in Seq(S)
    BY <1>2, AppendProperties
  <2>3. F \in [1 .. n -> [Seq(S) -> Seq(S)]]
    BY <2>2
  <2> HIDE DEF F, n
  <2>4. \E g : Recursive(g, n, Seq(S), <<>>, F)
    BY <1>2, <2>1, <2>3, Recursion, Zenon
  <2> PICK g : Recursive(g, n, Seq(S), <<>>, F)
    BY <2>4
  <2>5. /\ g = [i \in 0 .. n |-> g[i]] /\ g[0] = <<>>
        /\ \A i \in 1 .. n : g[i - 1] \in Seq(S) /\ g[i] = F[i][g[i - 1]]
    BY DEF Recursive
  <2>6. \A i \in 1 .. n : g[i] = IF i \in keep THEN Append(g[i - 1], s[i]) ELSE g[i - 1]
    BY <2>5 DEF F
  <2>7. \A i \in 0 .. n :
            g[i] = IF i = 0 THEN <<>>
                   ELSE IF i \in keep THEN Append(g[i - 1], s[i]) ELSE g[i - 1]
    <3> TAKE i \in 0 .. n
    <3>1. CASE i = 0
      BY <2>5, <3>1
    <3>2. CASE i # 0
      <4>1. i \in 1 .. n
        BY <1>2, <3>2
      <4>2. QED
        BY <2>6, <3>2, <4>1
    <3>3. QED
      BY <3>1, <3>2
  <2>8. QED
    BY <2>5, <2>7, Zenon DEF IsThose, n
<1>4. IsThose(found, s, keep)
  BY <1>3
<1> HIDE DEF found
<1>5. \A i \in 0 .. n :
          found[i] = IF i = 0 THEN <<>>
                     ELSE IF i \in keep THEN Append(found[i - 1], s[i]) ELSE found[i - 1]
  BY <1>4 DEF IsThose
<1>6. found[0] = <<>>
  BY <1>2, <1>5
<1>7. \A i \in 1 .. n : found[i] = IF i \in keep THEN Append(found[i - 1], s[i]) ELSE found[i - 1]
  <2> TAKE i \in 1 .. n
  <2>1. i \in 0 .. n /\ i # 0
    BY <1>2
  <2>2. QED
    BY <1>5, <2>1
<1>8. QED
  BY <1>1, <1>6, <1>7 DEF ListsThose

(* Those lists elements of the sequence, at the places in keep. *)
LEMMA ThoseType ==
    ASSUME NEW S, NEW s \in Seq(S), NEW keep
    PROVE  /\ Those(s, keep) \in Seq(S)
           /\ \A k \in DOMAIN Those(s, keep) : \E i \in DOMAIN s : i \in keep /\ Those(s, keep)[k] = s[i]
<1>1. PICK found : ListsThose(found, s, keep)
  BY ThoseSteps
<1> DEFINE n == Len(s)
           T == {i \in 0 .. n : /\ found[i] \in Seq(S)
                                /\ \A k \in DOMAIN found[i] :
                                       \E j \in DOMAIN s : j \in keep /\ found[i][k] = s[j]}
<1>2. n \in Nat /\ \A i \in 1 .. n : s[i] \in S
  OBVIOUS
<1>3. /\ Those(s, keep) = found[n] /\ found[0] = <<>>
      /\ \A i \in 1 .. n : found[i] = IF i \in keep THEN Append(found[i - 1], s[i]) ELSE found[i - 1]
  BY <1>1 DEF ListsThose
<1>4. 0 \in T
  <2>1. found[0] = <<>> /\ 0 \in 0 .. n
    BY <1>2, <1>3
  <2>2. <<>> \in Seq(S) /\ \A k \in DOMAIN <<>> : FALSE
    BY EmptySeq
  <2>3. QED
    BY <2>1, <2>2
<1>5. ASSUME NEW i \in 1 .. n, i - 1 \in T PROVE i \in T
  <2> DEFINE before == found[i - 1]
  <2>1. /\ before \in Seq(S) /\ i \in 0 .. n /\ i \in DOMAIN s
        /\ \A k \in DOMAIN before : \E j \in DOMAIN s : j \in keep /\ before[k] = s[j]
    BY <1>2, <1>5
  <2>2. CASE i \notin keep
    <3>1. found[i] = before
      BY <1>3, <2>1, <2>2
    <3>2. QED
      BY <2>1, <3>1
  <2>3. CASE i \in keep
    <3>1. found[i] = Append(before, s[i])
      BY <1>3, <2>3
    <3> HIDE DEF before
    <3>2. Append(before, s[i]) \in Seq(S)
      BY <1>2, <2>1, AppendProperties
    <3>3. \A k \in DOMAIN Append(before, s[i]) :
              IF k = Len(before) + 1 THEN Append(before, s[i])[k] = s[i]
              ELSE k \in DOMAIN before /\ Append(before, s[i])[k] = before[k]
      BY <2>1
    <3>4. \A k \in DOMAIN Append(before, s[i]) :
              \E j \in DOMAIN s : j \in keep /\ Append(before, s[i])[k] = s[j]
      BY <2>1, <2>3, <3>3
    <3>5. QED
      BY <2>1, <3>1, <3>2, <3>4
  <2>4. QED
    BY <2>2, <2>3
<1> HIDE DEF T
<1>6. n \in T
  <2>1. \A i \in 1 .. n : i - 1 \in T => i \in T
    BY <1>5
  <2>2. \A i \in 0 .. n : i \in T
    BY <1>2, <1>4, <2>1, Upward
  <2>3. QED
    BY <1>2, <2>2
<1>7. QED
  BY <1>3, <1>6 DEF T

-----------------------------------------------------------------------------
(* Decreasing counts. *)

(* Finitely many arguments have a value of at least w. *)
LEMMA AtLeastFinite ==
    ASSUME NEW f, IsFiniteSet(DOMAIN f), NEW w
    PROVE  IsFiniteSet(AtLeast(f, w)) /\ Cardinality(AtLeast(f, w)) \in Nat
<1>1. AtLeast(f, w) \subseteq DOMAIN f
  BY DEF AtLeast
<1>2. QED
  BY <1>1, FS_Subset, FS_CardinalityType

(* The least value that is at least w is at least w as often as w. *)
LEMMA LeastValue ==
    ASSUME NEW f, \A x \in DOMAIN f : f[x] \in Int, NEW w \in Nat, AtLeast(f, w) # {}
    PROVE  \E v \in Range(f) : v >= w /\ v \in Nat /\ AtLeast(f, v) = AtLeast(f, w)
<1> DEFINE V == {f[x] : x \in AtLeast(f, w)}
<1>1. V \subseteq Nat /\ V # {} /\ \A v \in V : v >= w
  BY DEF AtLeast
<1>2. PICK v \in V : \A u \in V : v <= u
  <2> HIDE DEF V
  <2>1. QED
    BY <1>1, LeastNumber
<1>3. v \in Nat /\ v >= w
  BY <1>1
<1>4. \A x \in DOMAIN f : f[x] >= w => f[x] >= v
  BY <1>2, <1>3 DEF AtLeast
<1>5. \A x \in DOMAIN f : f[x] >= v => f[x] >= w
  BY <1>3
<1>6. AtLeast(f, v) = AtLeast(f, w)
  BY <1>4, <1>5 DEF AtLeast
<1>7. v \in Range(f)
  BY DEF AtLeast, Range
<1>8. QED
  BY <1>3, <1>6, <1>7

(* The r-th value is at least w if and only if r values are. *)
LEMMA DecreasingCounts ==
    ASSUME NEW f, IsFiniteSet(DOMAIN f), \A x \in DOMAIN f : f[x] \in Int
    PROVE  /\ Decreasing(f) \in Seq(Nat \ {0})
           /\ Len(Decreasing(f)) = Cardinality(AtLeast(f, 1))
           /\ \A r \in 1 .. Len(Decreasing(f)) : \A w \in Nat \ {0} :
                  Decreasing(f)[r] >= w <=> Cardinality(AtLeast(f, w)) >= r
<1> DEFINE n == Cardinality(AtLeast(f, 1))
           C(v) == Cardinality(AtLeast(f, v))
           V(r) == {v \in Range(f) : C(v) >= r}
<1>1. n \in Nat /\ \A v : C(v) \in Nat /\ IsFiniteSet(AtLeast(f, v))
  BY AtLeastFinite
<1>2. ASSUME NEW r \in 1 .. n
      PROVE  /\ Max(V(r)) \in V(r) /\ Max(V(r)) \in Nat \ {0}
             /\ \A v \in V(r) : Max(V(r)) >= v
  <2>1. AtLeast(f, 1) # {}
    BY <1>1, <1>2, FS_EmptySet
  <2>2. PICK v \in Range(f) : v >= 1 /\ v \in Nat /\ AtLeast(f, v) = AtLeast(f, 1)
    BY <2>1, LeastValue
  <2>3. v \in V(r)
    BY <1>1, <1>2, <2>2
  <2>4. V(r) \subseteq Int /\ V(r) # {}
    BY <2>3 DEF Range
  <2>5. IsFiniteSet(Range(f))
    <3> DEFINE h == [x \in DOMAIN f |-> f[x]]
    <3>1. h \in Surjection(DOMAIN f, Range(f))
      BY DEF Surjection, Range
    <3>2. QED
      BY <3>1, FS_Surjection
  <2>6. IsFiniteSet(V(r))
    BY <2>5, FS_Subset
  <2> HIDE DEF V
  <2>7. \E m \in V(r) : \A k \in V(r) : k <= m
    BY <2>4, <2>6, GreatestNumber
  <2>8. Max(V(r)) \in V(r) /\ \A k \in V(r) : Max(V(r)) >= k
    BY <2>4, <2>7 DEF Max
  <2>9. QED
    BY <2>2, <2>3, <2>4, <2>8
<1>3. Decreasing(f) = [r \in 1 .. n |-> Max(V(r))]
  BY DEF Decreasing
<1>4. Decreasing(f) \in Seq(Nat \ {0}) /\ Len(Decreasing(f)) = n
  <2> HIDE DEF n, V
  <2>1. QED
    BY <1>1, <1>2, <1>3
<1>5. ASSUME NEW r \in 1 .. n, NEW w \in Nat \ {0}
      PROVE  Max(V(r)) >= w <=> C(w) >= r
  <2> DEFINE m == Max(V(r))
  <2>1. m \in V(r) /\ m \in Nat \ {0} /\ \A v \in V(r) : m >= v
    BY <1>2
  <2>2. ASSUME m >= w PROVE C(w) >= r
    <3>1. AtLeast(f, m) \subseteq AtLeast(f, w)
      <4> HIDE DEF m
      <4>1. QED
        BY <2>1, <2>2 DEF AtLeast
    <3>2. C(m) <= C(w)
      BY <1>1, <3>1, FS_Subset
    <3>3. C(m) >= r
      BY <2>1
    <3> HIDE DEF m, C
    <3>4. QED
      BY <1>1, <3>2, <3>3
  <2>3. ASSUME C(w) >= r PROVE m >= w
    <3>1. AtLeast(f, w) # {}
      BY <1>1, <2>3, FS_EmptySet
    <3>2. PICK v \in Range(f) : v >= w /\ v \in Nat /\ AtLeast(f, v) = AtLeast(f, w)
      BY <3>1, LeastValue
    <3>3. v \in V(r)
      BY <2>3, <3>2
    <3>4. m >= v
      BY <2>1, <3>3
    <3> HIDE DEF m
    <3>5. QED
      BY <2>1, <3>2, <3>4
  <2>4. QED
    BY <2>2, <2>3
<1>6. \A r \in 1 .. n : Decreasing(f)[r] = Max(V(r))
  BY <1>3
<1> HIDE DEF n, V
<1>7. QED
  BY <1>4, <1>5, <1>6 DEF n

(* One queue is below another: not longer, and not more loads at a rank. *)
Below(p, q) == Len(p) <= Len(q) /\ \A r \in 1 .. Len(p) : p[r] <= q[r]

(* Greater values at more arguments: the ordered values are greater. *)
LEMMA DecreasingBelow ==
    ASSUME NEW f, IsFiniteSet(DOMAIN f), \A x \in DOMAIN f : f[x] \in Int,
           NEW g, IsFiniteSet(DOMAIN g), \A x \in DOMAIN g : g[x] \in Int,
           \A x \in DOMAIN f : f[x] >= 1 => x \in DOMAIN g /\ f[x] <= g[x]
    PROVE  Below(Decreasing(f), Decreasing(g))
<1> DEFINE p == Decreasing(f)
           q == Decreasing(g)
<1>1. \A w \in Nat \ {0} : Cardinality(AtLeast(f, w)) <= Cardinality(AtLeast(g, w))
  <2> TAKE w \in Nat \ {0}
  <2>1. AtLeast(f, w) \subseteq AtLeast(g, w)
    BY DEF AtLeast
  <2>2. IsFiniteSet(AtLeast(g, w))
    BY AtLeastFinite
  <2>3. QED
    BY <2>1, <2>2, FS_Subset
<1>2. \A w : Cardinality(AtLeast(f, w)) \in Nat /\ Cardinality(AtLeast(g, w)) \in Nat
  BY AtLeastFinite
<1>3. /\ p \in Seq(Nat \ {0}) /\ Len(p) = Cardinality(AtLeast(f, 1))
      /\ \A r \in 1 .. Len(p) : \A w \in Nat \ {0} :
             p[r] >= w <=> Cardinality(AtLeast(f, w)) >= r
  BY DecreasingCounts
<1>4. /\ q \in Seq(Nat \ {0}) /\ Len(q) = Cardinality(AtLeast(g, 1))
      /\ \A r \in 1 .. Len(q) : \A w \in Nat \ {0} :
             q[r] >= w <=> Cardinality(AtLeast(g, w)) >= r
  BY DecreasingCounts
<1> HIDE DEF p, q
<1>5. Len(p) <= Len(q)
  BY <1>1, <1>3, <1>4
<1>6. ASSUME NEW r \in 1 .. Len(p) PROVE p[r] <= q[r]
  <2>1. p[r] \in Nat \ {0} /\ r \in 1 .. Len(q) /\ q[r] \in Nat
    BY <1>3, <1>4, <1>5
  <2>2. Cardinality(AtLeast(f, p[r])) >= r
    BY <1>3, <2>1
  <2>3. Cardinality(AtLeast(g, p[r])) >= r
    <3>1. Cardinality(AtLeast(f, p[r])) <= Cardinality(AtLeast(g, p[r]))
      BY <1>1, <2>1
    <3>2. Cardinality(AtLeast(f, p[r])) \in Nat /\ Cardinality(AtLeast(g, p[r])) \in Nat
      BY <1>2
    <3>3. QED
      BY <2>2, <3>1, <3>2
  <2>4. q[r] >= p[r]
    BY <1>4, <2>1, <2>3
  <2>5. QED
    BY <2>1, <2>4
<1>7. QED
  BY <1>5, <1>6 DEF Below, p, q

-----------------------------------------------------------------------------
(* Blocks and loads. *)

(* What a block has. *)
LEMMA BlockType ==
    ASSUME NEW b \in Blocks
    PROVE  /\ b.line \in DOMAIN SetOf /\ b.count \in Int /\ b.age \in Int /\ b.cap \in Int
           /\ b.cl = "CL2_PS" => b.cap \in Nat \ {0} /\ b.count \in Nat
BY DEF Blocks

(* A sequence has finitely many elements. *)
LEMMA FiniteRange ==
    ASSUME NEW S, NEW s \in Seq(S)
    PROVE  IsFiniteSet(Range(s)) /\ Range(s) \subseteq S
<1>1. s \in Surjection(1 .. Len(s), Range(s))
  BY DEF Surjection, Range
<1>2. IsFiniteSet(1 .. Len(s))
  BY FS_Interval
<1>3. QED
  BY <1>1, <1>2, FS_Surjection DEF Range

(* The image of a finite set by a function is finite. *)
LEMMA FiniteImage ==
    ASSUME NEW S, IsFiniteSet(S), NEW f
    PROVE  IsFiniteSet({f[x] : x \in S})
<1> DEFINE T == {f[x] : x \in S}
           h == [x \in S |-> f[x]]
<1>1. h \in Surjection(S, T)
  BY DEF Surjection
<1>2. QED
  BY <1>1, FS_Surjection

-----------------------------------------------------------------------------

(* Finitely many lines are loaded. *)
LEMMA LinesLoadedFinite ==
    ASSUME NEW urs \in Seq(Seq(Blocks)), NEW set
    PROVE  IsFiniteSet(LinesLoaded(urs, set)) /\ LinesLoaded(urs, set) \subseteq DOMAIN SetOf
<1> DEFINE all == UNION {Range(ur) : ur \in Range(urs)}
           found == {b \in all : ReachesL2(b) /\ SetOf[b.line] = set}
<1>1. IsFiniteSet(all) /\ all \subseteq Blocks
  <2>1. IsFiniteSet(Range(urs)) /\ Range(urs) \subseteq Seq(Blocks)
    BY FiniteRange
  <2>2. \A ur \in Range(urs) : IsFiniteSet(Range(ur)) /\ Range(ur) \subseteq Blocks
    BY <2>1, FiniteRange
  <2> DEFINE f == [ur \in Range(urs) |-> Range(ur)]
             parts == {f[ur] : ur \in Range(urs)}
  <2>3. IsFiniteSet(parts)
    BY <2>1, FiniteImage
  <2>4. \A part \in parts : IsFiniteSet(part)
    BY <2>2
  <2>5. all = UNION parts
    OBVIOUS
  <2>6. all \subseteq Blocks
    BY <2>2
  <2> HIDE DEF parts, all
  <2>7. QED
    BY <2>3, <2>4, <2>5, <2>6, FS_UNION
<1>2. IsFiniteSet(found) /\ found \subseteq Blocks
  BY <1>1, FS_Subset
<1> DEFINE g == [b \in found |-> b.line]
<1>3. {g[b] : b \in found} = {b.line : b \in found}
  OBVIOUS
<1>4. IsFiniteSet({g[b] : b \in found})
  BY <1>2, FiniteImage
<1>5. {b.line : b \in found} \subseteq DOMAIN SetOf
  BY <1>2, BlockType
<1>6. LinesLoaded(urs, set) = {b.line : b \in found}
  BY DEF LinesLoaded
<1>7. QED
  BY <1>3, <1>4, <1>5, <1>6

IsLoads(g, ur, line) ==
    g = [j \in 0 .. Len(ur) |->
            IF j = 0 THEN 0
            ELSE g[j - 1] + (IF ReachesL2(ur[j]) /\ ur[j].line = line THEN ur[j].count ELSE 0)]

(* The running sums of a line's loads. *)
SumsLoads(g, ur, l) ==
    /\ LoadsOf(ur, l) = g[Len(ur)] /\ g[0] = 0
    /\ \A j \in 0 .. Len(ur) : g[j] \in Int
    /\ \A j \in 1 .. Len(ur) :
           g[j] = g[j - 1] + (IF ReachesL2(ur[j]) /\ ur[j].line = l THEN ur[j].count ELSE 0)

LEMMA LoadsOfSteps ==
    ASSUME NEW ur, Len(ur) \in Nat, \A j \in 1 .. Len(ur) : ur[j].count \in Int, NEW l
    PROVE  \E g : SumsLoads(g, ur, l)
<1> DEFINE n == Len(ur)
           add(j) == IF ReachesL2(ur[j]) /\ ur[j].line = l THEN ur[j].count ELSE 0
           F == [j \in 1 .. n |-> [v \in Int |-> v + add(j)]]
           loads == CHOOSE g : IsLoads(g, ur, l)
           T == {j \in 0 .. n : loads[j] \in Int}
<1>1. LoadsOf(ur, l) = loads[n]
  BY Zenon DEF LoadsOf, IsLoads
<1>2. n \in Nat /\ \A j \in 1 .. n : add(j) \in Int
  OBVIOUS
<1>3. \E g : IsLoads(g, ur, l)
  <2>1. F \in [1 .. n -> [Int -> Int]]
    <3> HIDE DEF add
    <3>1. QED
      BY <1>2
  <2> HIDE DEF F, n
  <2>2. \E g : Recursive(g, n, Int, 0, F)
    <3>1. 0 \in Int
      OBVIOUS
    <3>2. QED
      BY <1>2, <2>1, <3>1, Recursion, Zenon
  <2> PICK g : Recursive(g, n, Int, 0, F)
    BY <2>2
  <2>3. /\ g = [j \in 0 .. n |-> g[j]] /\ g[0] = 0
        /\ \A j \in 1 .. n : g[j - 1] \in Int /\ g[j] = F[j][g[j - 1]]
    BY DEF Recursive
  <2>4. \A j \in 1 .. n : g[j] = g[j - 1] + add(j)
    <3> HIDE DEF add
    <3>1. QED
      BY <2>3 DEF F
  <2>5. \A j \in 0 .. n : g[j] = IF j = 0 THEN 0 ELSE g[j - 1] + add(j)
    <3> HIDE DEF add
    <3>1. QED
      BY <1>2, <2>3, <2>4, UpToOrZero
  <2>6. IsLoads(g, ur, l)
    BY <2>3, <2>5 DEF IsLoads, n
  <2>7. QED
    BY <2>6
<1>4. IsLoads(loads, ur, l)
  BY <1>3
<1> HIDE DEF loads
<1>5. loads[0] = 0 /\ \A j \in 1 .. n : loads[j] = loads[j - 1] + add(j)
  <2>1. \A j \in 0 .. n : loads[j] = IF j = 0 THEN 0 ELSE loads[j - 1] + add(j)
    BY <1>4, Zenon DEF IsLoads
  <2> HIDE DEF n, add
  <2>2. QED
    BY <1>2, <2>1, UpToOrZero
<1>6. \A j \in 0 .. n : loads[j] \in Int
  <2>1. 0 \in T
    BY <1>2, <1>5
  <2>2. ASSUME NEW j \in 1 .. n, j - 1 \in T PROVE j \in T
    <3> HIDE DEF add
    <3>1. QED
      BY <1>2, <1>5, <2>2
  <2> HIDE DEF T
  <2>3. \A j \in 0 .. n : j \in T
    BY <1>2, <2>1, <2>2, Upward
  <2>4. QED
    BY <2>3 DEF T
<1>7. QED
  BY <1>1, <1>5, <1>6 DEF SumsLoads

(* How often a region loads a line is a number. *)
LEMMA LoadsOfType ==
    ASSUME NEW ur \in Seq(Blocks), NEW line
    PROVE  LoadsOf(ur, line) \in Int
<1>1. Len(ur) \in Nat /\ \A j \in 1 .. Len(ur) : ur[j].count \in Int
  BY BlockType
<1>2. PICK g : SumsLoads(g, ur, line)
  BY <1>1, LoadsOfSteps
<1>3. Len(ur) \in 0 .. Len(ur)
  BY <1>1
<1>4. QED
  BY <1>2, <1>3 DEF SumsLoads

(* The loads of a region: a queue of positive numbers. *)
LEMMA LoadsType ==
    ASSUME NEW ur \in Seq(Blocks), NEW set
    PROVE  Loads(ur, set) \in Seq(Nat \ {0})
<1> DEFINE lines == LinesLoaded(<<ur>>, set)
           f == [line \in lines |-> LoadsOf(ur, line)]
<1>1. <<ur>> \in Seq(Seq(Blocks))
  OBVIOUS
<1>2. IsFiniteSet(lines)
  BY <1>1, LinesLoadedFinite
<1> HIDE DEF lines
<1>3. DOMAIN f = lines /\ \A line \in lines : f[line] \in Int
  BY LoadsOfType
<1>4. Loads(ur, set) = Decreasing(f)
  BY DEF Loads, lines
<1> HIDE DEF f
<1>5. QED
  BY <1>2, <1>3, <1>4, DecreasingCounts

At(s, r) == IF r \in DOMAIN s THEN s[r] ELSE 0

(* Queues add up to a queue, *)
LEMMA AddedUpType ==
    ASSUME NEW p \in Seq(Nat \ {0}), NEW q \in Seq(Nat \ {0})
    PROVE  /\ AddedUp(p, q) \in Seq(Nat \ {0})
           /\ Len(AddedUp(p, q)) = IF Len(p) <= Len(q) THEN Len(q) ELSE Len(p)
           /\ \A r \in 1 .. Len(AddedUp(p, q)) : AddedUp(p, q)[r] = At(p, r) + At(q, r)
<1> DEFINE n == IF Len(p) <= Len(q) THEN Len(q) ELSE Len(p)
<1>1. Max({Len(p), Len(q)}) = n
  BY DEF Max
<1>2. AddedUp(p, q) = [r \in 1 .. n |-> At(p, r) + At(q, r)]
  BY <1>1 DEF AddedUp, At
<1>3. n \in Nat /\ \A r \in 1 .. n : At(p, r) + At(q, r) \in Nat \ {0}
  BY DEF At
<1> HIDE DEF n
<1>4. QED
  BY <1>2, <1>3 DEF n

(* and none of the two is above it. *)
LEMMA AddedUpBelow ==
    ASSUME NEW p \in Seq(Nat \ {0}), NEW P \in Seq(Nat \ {0}), NEW q \in Seq(Nat \ {0}),
           Below(p, P)
    PROVE  Below(AddedUp(p, q), AddedUp(P, q))
<1> DEFINE a == AddedUp(p, q)
           A == AddedUp(P, q)
<1>1. /\ Len(a) = IF Len(p) <= Len(q) THEN Len(q) ELSE Len(p)
      /\ \A r \in 1 .. Len(a) : a[r] = At(p, r) + At(q, r)
  BY AddedUpType
<1>2. /\ Len(A) = IF Len(P) <= Len(q) THEN Len(q) ELSE Len(P)
      /\ \A r \in 1 .. Len(A) : A[r] = At(P, r) + At(q, r)
  BY AddedUpType
<1> HIDE DEF a, A
<1>3. Len(p) <= Len(P) /\ \A r \in 1 .. Len(p) : p[r] <= P[r]
  BY DEF Below
<1>4. Len(a) <= Len(A) /\ Len(a) \in Nat /\ Len(A) \in Nat
  BY <1>1, <1>2, <1>3
<1>5. ASSUME NEW r \in 1 .. Len(a) PROVE a[r] <= A[r]
  <2>1. At(p, r) \in Nat /\ At(P, r) \in Nat /\ At(q, r) \in Nat /\ At(p, r) <= At(P, r)
    <3>1. \A s \in Seq(Nat \ {0}) : At(s, r) \in Nat
      BY DEF At
    <3>2. CASE r \in DOMAIN p
      <4>1. r \in DOMAIN P /\ r \in 1 .. Len(p)
        BY <1>3, <3>2
      <4>2. p[r] <= P[r]
        BY <1>3, <4>1
      <4>3. QED
        BY <3>1, <3>2, <4>1, <4>2 DEF At
    <3>3. CASE r \notin DOMAIN p
      <4>1. At(p, r) = 0
        BY <3>3 DEF At
      <4>2. QED
        BY <3>1, <4>1
    <3>4. QED
      BY <3>2, <3>3
  <2>2. a[r] = At(p, r) + At(q, r) /\ A[r] = At(P, r) + At(q, r)
    BY <1>1, <1>2, <1>4
  <2>3. QED
    BY <2>1, <2>2
<1>6. QED
  BY <1>4, <1>5 DEF Below, a, A

-----------------------------------------------------------------------------
(* Queues of loads of a stretch of a path. *)

Queues == Seq(Nat \ {0})

IsLoadQueue(g, urs, set) ==
    g = [k \in 0 .. Len(urs) |->
            IF k = 0 THEN <<>> ELSE AddedUp(g[k - 1], Loads(urs[k], set))]

(* The queue of a stretch of a path, region by region. *)
LEMMA LoadQueueSteps ==
    ASSUME NEW urs \in Seq(Seq(Blocks)), NEW set
    PROVE  \E g : /\ LoadQueue(urs, set) = g[Len(urs)] /\ g[0] = <<>>
                  /\ \A k \in 0 .. Len(urs) : g[k] \in Queues
                  /\ \A k \in 1 .. Len(urs) : g[k] = AddedUp(g[k - 1], Loads(urs[k], set))
<1> DEFINE n == Len(urs)
           add(v, k) == AddedUp(v, Loads(urs[k], set))
           F == [k \in 1 .. n |-> [v \in Queues |-> add(v, k)]]
           queue == CHOOSE g : IsLoadQueue(g, urs, set)
           T == {k \in 0 .. n : queue[k] \in Queues}
<1>1. LoadQueue(urs, set) = queue[n]
  BY Zenon DEF LoadQueue, IsLoadQueue
<1>2. n \in Nat /\ <<>> \in Queues
  BY EmptySeq DEF Queues
<1>3. \A k \in 1 .. n : \A v \in Queues : add(v, k) \in Queues
  <2> TAKE k \in 1 .. n
  <2> TAKE v \in Queues
  <2>1. urs[k] \in Seq(Blocks)
    OBVIOUS
  <2>2. Loads(urs[k], set) \in Seq(Nat \ {0})
    BY <2>1, LoadsType
  <2>3. QED
    BY <2>2, AddedUpType DEF Queues
<1> HIDE DEF add
<1>4. \E g : IsLoadQueue(g, urs, set)
  <2>1. F \in [1 .. n -> [Queues -> Queues]]
    BY <1>3
  <2> HIDE DEF F, n
  <2>2. \E g : Recursive(g, n, Queues, <<>>, F)
    BY <1>2, <2>1, Recursion, Zenon
  <2> PICK g : Recursive(g, n, Queues, <<>>, F)
    BY <2>2
  <2>3. /\ g = [k \in 0 .. n |-> g[k]] /\ g[0] = <<>>
        /\ \A k \in 1 .. n : g[k - 1] \in Queues /\ g[k] = F[k][g[k - 1]]
    BY DEF Recursive
  <2>4. \A k \in 1 .. n : g[k] = add(g[k - 1], k)
    BY <2>3 DEF F
  <2>5. \A k \in 0 .. n : g[k] = IF k = 0 THEN <<>> ELSE add(g[k - 1], k)
    BY <1>2, <2>3, <2>4, UpToOrZero
  <2>6. IsLoadQueue(g, urs, set)
    BY <2>3, <2>5 DEF IsLoadQueue, n, add
  <2>7. QED
    BY <2>6
<1>5. IsLoadQueue(queue, urs, set)
  BY <1>4
<1> HIDE DEF queue
<1>6. queue[0] = <<>> /\ \A k \in 1 .. n : queue[k] = add(queue[k - 1], k)
  <2>1. \A k \in 0 .. n : queue[k] = IF k = 0 THEN <<>> ELSE add(queue[k - 1], k)
    BY <1>5, Zenon DEF IsLoadQueue, add
  <2> HIDE DEF n
  <2>2. QED
    BY <1>2, <2>1, UpToOrZero
<1> HIDE DEF n
<1>7. \A k \in 0 .. n : k \in T
  <2>1. 0 \in T
    BY <1>2, <1>6
  <2>2. \A k \in 1 .. n : k - 1 \in T => k \in T
    BY <1>2, <1>3, <1>6, UpToOrZero
  <2> HIDE DEF T
  <2>3. QED
    BY <1>2, <2>1, <2>2, Upward
<1>8. QED
  BY <1>1, <1>6, <1>7 DEF n, add

IsLinesPerRegion(g, urs, set) ==
    g = [k \in 0 .. Len(urs) |->
            IF k = 0 THEN 0 ELSE g[k - 1] + Len(Loads(urs[k], set))]

(* The lines per region, added up region by region. *)
LEMMA LinesPerRegionSteps ==
    ASSUME NEW urs \in Seq(Seq(Blocks)), NEW set
    PROVE  \E g : /\ LinesPerRegion(urs, set) = g[Len(urs)] /\ g[0] = 0
                  /\ \A k \in 0 .. Len(urs) : g[k] \in Nat
                  /\ \A k \in 1 .. Len(urs) : g[k] = g[k - 1] + Len(Loads(urs[k], set))
<1> DEFINE n == Len(urs)
           number(k) == Len(Loads(urs[k], set))
           F == [k \in 1 .. n |-> [v \in Nat |-> v + number(k)]]
           lines == CHOOSE g : IsLinesPerRegion(g, urs, set)
           T == {k \in 0 .. n : lines[k] \in Nat}
<1>1. LinesPerRegion(urs, set) = lines[n]
  BY Zenon DEF LinesPerRegion, IsLinesPerRegion
<1>2. n \in Nat /\ 0 \in Nat
  OBVIOUS
<1>3. \A k \in 1 .. n : number(k) \in Nat
  <2> TAKE k \in 1 .. n
  <2>1. urs[k] \in Seq(Blocks)
    OBVIOUS
  <2>2. Loads(urs[k], set) \in Seq(Nat \ {0})
    BY <2>1, LoadsType
  <2>3. QED
    BY <2>2
<1> HIDE DEF number
<1>4. \E g : IsLinesPerRegion(g, urs, set)
  <2>1. F \in [1 .. n -> [Nat -> Nat]]
    BY <1>3
  <2> HIDE DEF F, n
  <2>2. \E g : Recursive(g, n, Nat, 0, F)
    BY <1>2, <2>1, Recursion, Zenon
  <2> PICK g : Recursive(g, n, Nat, 0, F)
    BY <2>2
  <2>3. /\ g = [k \in 0 .. n |-> g[k]] /\ g[0] = 0
        /\ \A k \in 1 .. n : g[k - 1] \in Nat /\ g[k] = F[k][g[k - 1]]
    BY DEF Recursive
  <2>4. \A k \in 1 .. n : g[k] = g[k - 1] + number(k)
    BY <2>3 DEF F
  <2>5. \A k \in 0 .. n : g[k] = IF k = 0 THEN 0 ELSE g[k - 1] + number(k)
    BY <1>2, <2>3, <2>4, UpToOrZero
  <2>6. IsLinesPerRegion(g, urs, set)
    BY <2>3, <2>5 DEF IsLinesPerRegion, n, number
  <2>7. QED
    BY <2>6
<1>5. IsLinesPerRegion(lines, urs, set)
  BY <1>4
<1> HIDE DEF lines
<1>6. lines[0] = 0 /\ \A k \in 1 .. n : lines[k] = lines[k - 1] + number(k)
  <2>1. \A k \in 0 .. n : lines[k] = IF k = 0 THEN 0 ELSE lines[k - 1] + number(k)
    BY <1>5, Zenon DEF IsLinesPerRegion, number
  <2> HIDE DEF n
  <2>2. QED
    BY <1>2, <2>1, UpToOrZero
<1> HIDE DEF n
<1>7. \A k \in 0 .. n : k \in T
  <2>1. 0 \in T
    BY <1>2, <1>6
  <2>2. \A k \in 1 .. n : k - 1 \in T => k \in T
    BY <1>2, <1>3, <1>6, UpToOrZero
  <2> HIDE DEF T
  <2>3. QED
    BY <1>2, <2>1, <2>2, Upward
<1>8. QED
  BY <1>1, <1>6, <1>7 DEF n, number

-----------------------------------------------------------------------------
(* A longer stretch of the other core's path, up to the same region. *)
IsEnd(urs, longer) ==
    LET d == Len(longer) - Len(urs)
    IN d >= 0 /\ \A k \in 1 .. Len(urs) : urs[k] = longer[k + d]

(* The places of a stretch of a sequence are places of the sequence. *)
LEMMA PlacesOfStretch ==
    ASSUME NEW start \in Nat, NEW stop \in Nat, NEW n \in Nat, 1 <= start, start <= stop, stop <= n,
           NEW i \in 1 .. stop - start + 1
    PROVE  start + i - 1 \in 1 .. n
OBVIOUS

(* The regions passed through, one by one. *)
LEMMA PassedIs ==
    ASSUME NEW route \in Seq(Seq(Blocks)),
           NEW start \in DOMAIN route, NEW stop \in DOMAIN route, start <= stop
    PROVE  /\ Passed(route, start, stop) \in Seq(Seq(Blocks))
           /\ Len(Passed(route, start, stop)) = stop - start + 1
           /\ \A i \in 1 .. stop - start + 1 : Passed(route, start, stop)[i] = route[start + i - 1]
<1> DEFINE c == stop - start + 1
           s == [i \in 1 .. c |-> route[start + i - 1]]
<1>1. /\ start \in 1 .. Len(route) /\ stop \in 1 .. Len(route) /\ Len(route) \in Nat
      /\ \A i \in 1 .. Len(route) : route[i] \in Seq(Blocks)
  OBVIOUS
<1>2. c \in Nat /\ \A i \in 1 .. c : start + i - 1 \in 1 .. Len(route)
  <2> HIDE DEF s
  <2>1. /\ start \in Nat /\ stop \in Nat /\ Len(route) \in Nat
        /\ 1 <= start /\ start <= stop /\ stop <= Len(route)
    BY <1>1
  <2>2. c \in Nat
    BY <2>1
  <2>3. ASSUME NEW i \in 1 .. c PROVE start + i - 1 \in 1 .. Len(route)
    <3>1. i \in 1 .. stop - start + 1
      OBVIOUS
    <3> HIDE DEF c
    <3>2. QED
      BY <2>1, <3>1, PlacesOfStretch
  <2> HIDE DEF c
  <2>4. QED
    BY <2>2, <2>3
<1>3. Passed(route, start, stop) = s
  BY DEF Passed, SubSeq
<1> HIDE DEF c
<1>4. \A i \in 1 .. c : s[i] \in Seq(Blocks)
  BY <1>1, <1>2
<1>5. s \in Seq(Seq(Blocks)) /\ Len(s) = c /\ \A i \in 1 .. c : s[i] = route[start + i - 1]
  BY <1>2, <1>4
<1> HIDE DEF s
<1>6. QED
  BY <1>3, <1>5 DEF c

(* A place in a stretch, counted from an earlier start. *)
LEMMA PlacesShift ==
    ASSUME NEW j \in Nat, NEW start \in Nat, NEW stop \in Nat, j <= start, start <= stop
    PROVE  /\ (stop - j + 1) - (stop - start + 1) = start - j /\ start - j >= 0
           /\ \A k \in 1 .. stop - start + 1 :
                  /\ k + (start - j) \in 1 .. stop - j + 1
                  /\ start + k - 1 = j + (k + (start - j)) - 1
OBVIOUS

(* Who started earlier has passed through more regions. *)
LEMMA PassedType ==
    ASSUME NEW route \in Seq(Seq(Blocks)),
           NEW j \in DOMAIN route, NEW start \in DOMAIN route, NEW stop \in DOMAIN route,
           j <= start, start <= stop
    PROVE  /\ Passed(route, start, stop) \in Seq(Seq(Blocks))
           /\ Passed(route, j, stop) \in Seq(Seq(Blocks))
           /\ IsEnd(Passed(route, start, stop), Passed(route, j, stop))
<1> DEFINE R == Passed(route, start, stop)
           L == Passed(route, j, stop)
<1>1. j \in Nat /\ start \in Nat /\ stop \in Nat /\ j <= stop
  OBVIOUS
<1>2. /\ R \in Seq(Seq(Blocks)) /\ Len(R) = stop - start + 1
      /\ \A i \in 1 .. stop - start + 1 : R[i] = route[start + i - 1]
  BY PassedIs
<1>3. /\ L \in Seq(Seq(Blocks)) /\ Len(L) = stop - j + 1
      /\ \A i \in 1 .. stop - j + 1 : L[i] = route[j + i - 1]
  BY <1>1, PassedIs
<1> HIDE DEF R, L
<1>4. Len(L) - Len(R) = start - j /\ start - j >= 0
  <2>1. (stop - j + 1) - (stop - start + 1) = start - j /\ start - j >= 0
    BY <1>1, PlacesShift
  <2>2. Len(L) = stop - j + 1 /\ Len(R) = stop - start + 1
    BY <1>2, <1>3
  <2>3. QED
    BY ONLY <2>1, <2>2, Zenon
<1>5. ASSUME NEW k \in 1 .. Len(R) PROVE R[k] = L[k + (start - j)]
  <2>1. k \in 1 .. stop - start + 1 /\ k + (start - j) \in 1 .. stop - j + 1
    BY <1>1, <1>2, PlacesShift
  <2>2. R[k] = route[start + k - 1] /\ L[k + (start - j)] = route[j + (k + (start - j)) - 1]
    BY <1>2, <1>3, <2>1
  <2>3. start + k - 1 = j + (k + (start - j)) - 1
    BY <1>1, <2>1, PlacesShift
  <2>4. QED
    BY <2>2, <2>3
<1>6. IsEnd(R, L)
  BY <1>4, <1>5 DEF IsEnd
<1>7. QED
  BY <1>2, <1>3, <1>6 DEF R, L

(* More regions load more lines, *)
LEMMA LinesLoadedGrow ==
    ASSUME NEW urs \in Seq(Seq(Blocks)), NEW longer \in Seq(Seq(Blocks)), IsEnd(urs, longer),
           NEW set
    PROVE  LinesLoaded(urs, set) \subseteq LinesLoaded(longer, set)
<1>1. Range(urs) \subseteq Range(longer)
  <2> DEFINE d == Len(longer) - Len(urs)
  <2>1. d >= 0 /\ d \in Int /\ \A k \in 1 .. Len(urs) : urs[k] = longer[k + d]
    BY DEF IsEnd
  <2>2. \A k \in 1 .. Len(urs) : k + d \in 1 .. Len(longer)
    BY <2>1
  <2> HIDE DEF d
  <2>3. \A k \in DOMAIN urs : \E i \in DOMAIN longer : urs[k] = longer[i]
    <3> TAKE k \in DOMAIN urs
    <3>1. k \in 1 .. Len(urs) /\ DOMAIN longer = 1 .. Len(longer)
      OBVIOUS
    <3>2. k + d \in DOMAIN longer /\ urs[k] = longer[k + d]
      BY <2>1, <2>2, <3>1
    <3>3. QED
      BY <3>2
  <2>4. QED
    BY <2>3 DEF Range
<1>2. QED
  BY <1>1, Zenon DEF LinesLoaded

(* and load them more often. *)
LEMMA LoadQueueGrows ==
    ASSUME NEW urs \in Seq(Seq(Blocks)), NEW longer \in Seq(Seq(Blocks)), IsEnd(urs, longer),
           NEW set
    PROVE  /\ LoadQueue(urs, set) \in Queues /\ LoadQueue(longer, set) \in Queues
           /\ Below(LoadQueue(urs, set), LoadQueue(longer, set))
           /\ LinesPerRegion(urs, set) \in Nat /\ LinesPerRegion(longer, set) \in Nat
           /\ LinesPerRegion(urs, set) <= LinesPerRegion(longer, set)
<1> DEFINE n == Len(urs)
           m == Len(longer)
           d == m - n
<1>1. n \in Nat /\ m \in Nat /\ d \in Nat /\ \A k \in 1 .. n : urs[k] = longer[k + d]
  <2>1. n \in Nat /\ m \in Nat
    OBVIOUS
  <2>2. d >= 0 /\ \A k \in 1 .. n : urs[k] = longer[k + d]
    BY Zenon DEF IsEnd
  <2> HIDE DEF n, m
  <2>3. QED
    BY <2>1, <2>2
<1>2. \A k \in 1 .. n : k + d \in 1 .. m /\ k - 1 + d \in 0 .. m
  BY <1>1
<1>3. d \in 0 .. m /\ n + d = m
  BY <1>1
<1>4. \A k \in 1 .. n : Loads(urs[k], set) \in Queues
  <2> TAKE k \in 1 .. n
  <2>1. urs[k] \in Seq(Blocks)
    OBVIOUS
  <2>2. QED
    BY <2>1, LoadsType DEF Queues
<1>5. PICK g : /\ LoadQueue(urs, set) = g[n] /\ g[0] = <<>>
               /\ \A k \in 0 .. n : g[k] \in Queues
               /\ \A k \in 1 .. n : g[k] = AddedUp(g[k - 1], Loads(urs[k], set))
  BY LoadQueueSteps
<1>6. PICK G : /\ LoadQueue(longer, set) = G[m] /\ G[0] = <<>>
               /\ \A k \in 0 .. m : G[k] \in Queues
               /\ \A k \in 1 .. m : G[k] = AddedUp(G[k - 1], Loads(longer[k], set))
  BY LoadQueueSteps
<1>7. PICK h : /\ LinesPerRegion(urs, set) = h[n] /\ h[0] = 0
               /\ \A k \in 0 .. n : h[k] \in Nat
               /\ \A k \in 1 .. n : h[k] = h[k - 1] + Len(Loads(urs[k], set))
  BY LinesPerRegionSteps
<1>8. PICK H : /\ LinesPerRegion(longer, set) = H[m] /\ H[0] = 0
               /\ \A k \in 0 .. m : H[k] \in Nat
               /\ \A k \in 1 .. m : H[k] = H[k - 1] + Len(Loads(longer[k], set))
  BY LinesPerRegionSteps
<1> HIDE DEF n, m, d
<1> DEFINE T == {k \in 0 .. n : Below(g[k], G[k + d]) /\ h[k] <= H[k + d]}
<1>9. 0 \in T
  <2>1. G[d] \in Queues /\ H[d] \in Nat /\ 0 + d = d
    BY <1>1, <1>3, <1>6, <1>8
  <2>2. Below(<<>>, G[d])
    BY <2>1 DEF Below, Queues
  <2>3. QED
    BY <1>1, <1>5, <1>7, <2>1, <2>2
<1>10. ASSUME NEW k \in 1 .. n, k - 1 \in T PROVE k \in T
  <2> DEFINE e == k + d
  <2>1. e \in 1 .. m /\ e - 1 \in 0 .. m /\ e - 1 = k - 1 + d /\ k - 1 \in 0 .. n /\ k \in 0 .. n
    BY <1>1, <1>2
  <2> HIDE DEF e
  <2>2. longer[e] = urs[k]
    BY <1>1 DEF e
  <2>3. Below(g[k - 1], G[e - 1]) /\ h[k - 1] <= H[e - 1]
    BY <1>10, <2>1
  <2>4. g[k] = AddedUp(g[k - 1], Loads(urs[k], set)) /\ G[e] = AddedUp(G[e - 1], Loads(urs[k], set))
    BY <1>5, <1>6, <2>1, <2>2
  <2>5. g[k - 1] \in Queues /\ G[e - 1] \in Queues /\ Loads(urs[k], set) \in Queues
    BY <1>4, <1>5, <1>6, <2>1
  <2>6. Below(g[k], G[e])
    BY <2>3, <2>4, <2>5, AddedUpBelow DEF Queues
  <2>7. h[k] = h[k - 1] + Len(Loads(urs[k], set)) /\ H[e] = H[e - 1] + Len(Loads(urs[k], set))
    BY <1>7, <1>8, <2>1, <2>2
  <2>8. h[k - 1] \in Nat /\ H[e - 1] \in Nat /\ Len(Loads(urs[k], set)) \in Nat
    BY <1>7, <1>8, <2>1, <2>5 DEF Queues
  <2>9. h[k] <= H[e]
    BY <2>3, <2>7, <2>8
  <2>10. QED
    BY <2>1, <2>6, <2>9 DEF e
<1> HIDE DEF T
<1>11. n \in T
  BY <1>1, <1>9, <1>10, UpwardTo
<1>12. Below(g[n], G[m]) /\ h[n] <= H[m]
  BY <1>3, <1>11 DEF T
<1>13. n \in 0 .. n /\ m \in 0 .. m
  BY <1>1
<1>14. QED
  BY <1>5, <1>6, <1>7, <1>8, <1>12, <1>13

-----------------------------------------------------------------------------
(* Evictions of one block. *)

Lessened(queue, cap) == [r \in DOMAIN queue |-> IF r <= cap THEN queue[r] - 1 ELSE queue[r]]

(* A queue with some loads less. *)
LEMMA LessenedType ==
    ASSUME NEW queue \in Queues, NEW cap \in Nat
    PROVE  /\ DOMAIN Lessened(queue, cap) = 1 .. Len(queue)
           /\ IsFiniteSet(DOMAIN Lessened(queue, cap))
           /\ \A r \in 1 .. Len(queue) :
                  /\ Lessened(queue, cap)[r] \in Int
                  /\ Lessened(queue, cap)[r] = IF r <= cap THEN queue[r] - 1 ELSE queue[r]
           /\ Evicted(queue, cap) = Decreasing(Lessened(queue, cap))
<1>1. DOMAIN queue = 1 .. Len(queue) /\ IsFiniteSet(1 .. Len(queue))
  BY FS_Interval DEF Queues
<1>2. \A r \in 1 .. Len(queue) : queue[r] \in Nat
  BY DEF Queues
<1>3. Evicted(queue, cap) = Decreasing(Lessened(queue, cap))
  BY Zenon DEF Evicted, Lessened
<1>4. QED
  BY <1>1, <1>2, <1>3 DEF Lessened

(* Evicting keeps the order of queues. *)
LEMMA EvictedBelow ==
    ASSUME NEW p \in Queues, NEW P \in Queues, Below(p, P), NEW cap \in Nat
    PROVE  /\ Evicted(p, cap) \in Queues /\ Evicted(P, cap) \in Queues
           /\ Below(Evicted(p, cap), Evicted(P, cap))
<1> DEFINE f == Lessened(p, cap)
           F == Lessened(P, cap)
<1>1. /\ DOMAIN f = 1 .. Len(p) /\ IsFiniteSet(DOMAIN f)
      /\ \A r \in 1 .. Len(p) : f[r] \in Int /\ f[r] = IF r <= cap THEN p[r] - 1 ELSE p[r]
      /\ Evicted(p, cap) = Decreasing(f)
  BY LessenedType
<1>2. /\ DOMAIN F = 1 .. Len(P) /\ IsFiniteSet(DOMAIN F)
      /\ \A r \in 1 .. Len(P) : F[r] \in Int /\ F[r] = IF r <= cap THEN P[r] - 1 ELSE P[r]
      /\ Evicted(P, cap) = Decreasing(F)
  BY LessenedType
<1> HIDE DEF f, F
<1>3. Decreasing(f) \in Queues /\ Decreasing(F) \in Queues
  BY <1>1, <1>2, DecreasingCounts DEF Queues
<1>4. \A x \in DOMAIN f : f[x] >= 1 => x \in DOMAIN F /\ f[x] <= F[x]
  <2> TAKE x \in DOMAIN f
  <2>1. x \in 1 .. Len(p) /\ x \in 1 .. Len(P) /\ p[x] <= P[x] /\ p[x] \in Nat /\ P[x] \in Nat
    BY <1>1 DEF Below, Queues
  <2>2. QED
    BY <1>1, <1>2, <2>1
<1>5. Below(Decreasing(f), Decreasing(F))
  BY <1>1, <1>2, <1>4, DecreasingBelow
<1>6. QED
  BY <1>1, <1>2, <1>3, <1>5

(* A queue is not above itself. *)
LEMMA BelowItself ==
    ASSUME NEW p \in Queues
    PROVE  Below(p, p)
BY DEF Below, Queues

-----------------------------------------------------------------------------
Rounds == [number : Nat, queue : Queues]
Round(before, n, cap) ==
    IF Len(before.queue) < cap THEN before
    ELSE [number |-> n, queue |-> Evicted(before.queue, cap)]

IsEvictions(g, queue, cap, count) ==
    g = [n \in 0 .. count |->
            IF n = 0 THEN [number |-> 0, queue |-> queue]
            ELSE LET before == g[n - 1]
                 IN IF Len(before.queue) < cap THEN before
                    ELSE [number |-> n, queue |-> Evicted(before.queue, cap)]]

(* The evictions of a block, one round after the other. *)
LEMMA EvictionsSteps ==
    ASSUME NEW queue \in Queues, NEW cap \in Nat, NEW count \in Nat
    PROVE  \E g : /\ Evictions(queue, cap, count) = g[count]
                  /\ g[0] = [number |-> 0, queue |-> queue]
                  /\ \A n \in 0 .. count : g[n] \in Rounds /\ g[n].number <= n
                  /\ \A n \in 1 .. count : g[n] = Round(g[n - 1], n, cap)
<1> DEFINE start == [number |-> 0, queue |-> queue]
           F == [n \in 1 .. count |-> [v \in Rounds |-> Round(v, n, cap)]]
           after == CHOOSE g : IsEvictions(g, queue, cap, count)
           T == {n \in 0 .. count : after[n] \in Rounds /\ after[n].number <= n}
<1>1. Evictions(queue, cap, count) = after[count]
  BY Zenon DEF Evictions, IsEvictions
<1>2. start \in Rounds /\ start.number <= 0
  BY DEF Rounds
<1>3. \A n \in 1 .. count : \A v \in Rounds :
          Round(v, n, cap) \in Rounds /\ (v.number <= n - 1 => Round(v, n, cap).number <= n)
  <2> TAKE n \in 1 .. count
  <2> TAKE v \in Rounds
  <2>1. v.queue \in Queues /\ v.number \in Nat
    BY DEF Rounds
  <2>2. Evicted(v.queue, cap) \in Queues
    BY <2>1, EvictedBelow, BelowItself
  <2>3. QED
    BY <2>1, <2>2 DEF Round, Rounds
<1>4. \E g : IsEvictions(g, queue, cap, count)
  <2>1. F \in [1 .. count -> [Rounds -> Rounds]]
    BY <1>3
  <2> HIDE DEF F, start
  <2>2. \E g : Recursive(g, count, Rounds, start, F)
    BY <1>2, <2>1, Recursion, Zenon
  <2> PICK g : Recursive(g, count, Rounds, start, F)
    BY <2>2
  <2>3. /\ g = [n \in 0 .. count |-> g[n]] /\ g[0] = start
        /\ \A n \in 1 .. count : g[n - 1] \in Rounds /\ g[n] = F[n][g[n - 1]]
    BY DEF Recursive
  <2>4. \A n \in 1 .. count : g[n] = Round(g[n - 1], n, cap)
    BY <2>3 DEF F
  <2>5. \A n \in 0 .. count : g[n] = IF n = 0 THEN start ELSE Round(g[n - 1], n, cap)
    BY <2>3, <2>4, UpToOrZero
  <2>6. g = [n \in 0 .. count |-> IF n = 0 THEN start ELSE Round(g[n - 1], n, cap)]
    BY <2>3, <2>5
  <2>7. IsEvictions(g, queue, cap, count)
    BY <2>6, Zenon DEF IsEvictions, Round, start
  <2>8. QED
    BY <2>7
<1>5. IsEvictions(after, queue, cap, count)
  BY <1>4
<1> HIDE DEF after
<1>6. after[0] = start /\ \A n \in 1 .. count : after[n] = Round(after[n - 1], n, cap)
  <2>1. after = [n \in 0 .. count |-> IF n = 0 THEN start ELSE Round(after[n - 1], n, cap)]
    BY <1>5, Zenon DEF IsEvictions, Round
  <2> HIDE DEF start
  <2>2. \A n \in 0 .. count : after[n] = IF n = 0 THEN start ELSE Round(after[n - 1], n, cap)
    BY <2>1
  <2>3. QED
    BY <2>2, UpToOrZero
<1> HIDE DEF start
<1>7. \A n \in 0 .. count : n \in T
  <2>1. 0 \in T
    BY <1>2, <1>6
  <2>2. \A n \in 1 .. count : n - 1 \in T => n \in T
    BY <1>3, <1>6, UpToOrZero
  <2> HIDE DEF T
  <2>3. QED
    BY <2>1, <2>2, Upward
<1>8. QED
  BY <1>1, <1>6, <1>7 DEF start

(* With a queue that is not shorter there are not fewer evictions; and as  *)
(* long as they fit, the queues stay one below the other.                  *)
LEMMA EvictionsBelow ==
    ASSUME NEW p \in Queues, NEW P \in Queues, NEW cap \in Nat, NEW count \in Nat,
           Below(p, P) \/ Len(p) < cap
    PROVE  LET e == Evictions(p, cap, count)
               E == Evictions(P, cap, count)
           IN /\ e \in Rounds /\ E \in Rounds
              /\ e.number <= count /\ E.number <= count /\ e.number <= E.number
              /\ Below(e.queue, E.queue) \/ Len(e.queue) < cap
<1>1. PICK g : /\ Evictions(p, cap, count) = g[count]
               /\ g[0] = [number |-> 0, queue |-> p]
               /\ \A n \in 0 .. count : g[n] \in Rounds /\ g[n].number <= n
               /\ \A n \in 1 .. count : g[n] = Round(g[n - 1], n, cap)
  BY EvictionsSteps
<1>2. PICK G : /\ Evictions(P, cap, count) = G[count]
               /\ G[0] = [number |-> 0, queue |-> P]
               /\ \A n \in 0 .. count : G[n] \in Rounds /\ G[n].number <= n
               /\ \A n \in 1 .. count : G[n] = Round(G[n - 1], n, cap)
  BY EvictionsSteps
<1> DEFINE Ok(a, A) == \/ a.number = A.number /\ Below(a.queue, A.queue)
                       \/ a.number <= A.number /\ Len(a.queue) < cap
           T == {n \in 0 .. count : Ok(g[n], G[n])}
<1>3. 0 \in T
  BY <1>1, <1>2
<1>4. ASSUME NEW n \in 1 .. count, n - 1 \in T PROVE n \in T
  <2> DEFINE a == g[n - 1]
             A == G[n - 1]
  <2>1. n - 1 \in 0 .. count /\ n \in 0 .. count
    OBVIOUS
  <2>2. a \in Rounds /\ a.number <= n - 1 /\ A \in Rounds /\ A.number <= n - 1 /\ Ok(a, A)
    BY <1>1, <1>2, <1>4, <2>1
  <2>3. g[n] = Round(a, n, cap) /\ G[n] = Round(A, n, cap)
    BY <1>1, <1>2
  <2> HIDE DEF a, A
  <2>4. /\ a.queue \in Queues /\ A.queue \in Queues /\ a.number \in Nat /\ A.number \in Nat
        /\ Len(a.queue) \in Nat /\ Len(A.queue) \in Nat
    BY <2>2 DEF Rounds, Queues
  <2>5. CASE Len(a.queue) < cap
    <3>1. Round(a, n, cap) = a
      BY <2>5 DEF Round
    <3>2. CASE Len(A.queue) < cap
      <4>1. Round(A, n, cap) = A
        BY <3>2 DEF Round
      <4>2. QED
        BY <2>1, <2>2, <2>3, <3>1, <4>1
    <3>3. CASE ~ Len(A.queue) < cap
      <4>1. Round(A, n, cap).number = n
        BY <3>3 DEF Round
      <4>2. a.number <= n
        BY <2>2, <2>4
      <4>3. QED
        BY <2>1, <2>3, <2>5, <3>1, <4>1, <4>2
    <3>4. QED
      BY <3>2, <3>3
  <2>6. CASE ~ Len(a.queue) < cap
    <3>1. Below(a.queue, A.queue)
      BY <2>2, <2>6
    <3>2. ~ Len(A.queue) < cap
      BY <2>4, <2>6, <3>1 DEF Below
    <3>3. /\ Round(a, n, cap) = [number |-> n, queue |-> Evicted(a.queue, cap)]
          /\ Round(A, n, cap) = [number |-> n, queue |-> Evicted(A.queue, cap)]
      BY <2>6, <3>2 DEF Round
    <3>4. Below(Evicted(a.queue, cap), Evicted(A.queue, cap))
      BY <2>4, <3>1, EvictedBelow
    <3>5. QED
      BY <2>1, <2>3, <3>3, <3>4
  <2>7. QED
    BY <2>5, <2>6
<1> HIDE DEF T
<1>5. count \in T
  BY <1>3, <1>4, UpwardTo
<1> DEFINE e == g[count]
           E == G[count]
<1>6. e \in Rounds /\ e.number <= count /\ E \in Rounds /\ E.number <= count
  <2>1. count \in 0 .. count
    OBVIOUS
  <2>2. QED
    BY <1>1, <1>2, <2>1
<1>7. Ok(e, E)
  BY <1>5 DEF T
<1>8. e = Evictions(p, cap, count) /\ E = Evictions(P, cap, count)
  BY <1>1, <1>2
<1> HIDE DEF e, E
<1>9. e.number <= E.number
  BY <1>6, <1>7 DEF Rounds
<1>10. QED
  BY <1>6, <1>7, <1>8, <1>9

-----------------------------------------------------------------------------
(* The evictions that are spread over regions. *)
LEMMA DivGrows ==
    ASSUME NEW a \in Nat, NEW b \in Nat, a <= b, NEW c \in Nat \ {0}
    PROVE  a \div c \in Nat /\ b \div c \in Nat /\ a \div c <= b \div c
OBVIOUS

-----------------------------------------------------------------------------
(* Evictions of the persistent blocks. *)

Accs == [queue : Queues, spread : Nat, outs : Nat]

(* One count of what is evicted is below another, for blocks with room for *)
(* at least cap other lines.                                               *)
AccBelow(acc, Acc) ==
    /\ acc \in Accs /\ Acc \in Accs
    /\ acc.spread <= Acc.spread /\ acc.outs <= Acc.outs

QueueBelow(acc, Acc, cap) == Below(acc.queue, Acc.queue) \/ Len(acc.queue) < cap

(* What the counts of a block add, without the queue. *)
LEMMA CountsGrow ==
    ASSUME NEW count \in Nat, NEW w \in Nat, NEW W \in Nat, w <= W, W <= count,
           NEW s \in Nat, NEW S \in Nat, s <= S
    PROVE  /\ w + Smaller(count - w, s) \in Nat
           /\ w + Smaller(count - w, s) <= W + Smaller(count - W, S)
           /\ count - W >= S => count - w >= s
BY DEF Smaller

(* A greater queue and more lines per region evict a block at least as often.*)
LEMMA OneBlockBelow ==
    ASSUME NEW acc, NEW Acc, AccBelow(acc, Acc),
           NEW b, b.cap \in Nat \ {0}, b.count \in Nat, QueueBelow(acc, Acc, b.cap)
    PROVE  /\ AccBelow(OneBlock(acc, b), OneBlock(Acc, b))
           /\ QueueBelow(OneBlock(acc, b), OneBlock(Acc, b), b.cap)
<1> DEFINE e == Evictions(acc.queue, b.cap, b.count)
           E == Evictions(Acc.queue, b.cap, b.count)
           s == acc.spread \div b.cap
           S == Acc.spread \div b.cap
           new == OneBlock(acc, b)
           New == OneBlock(Acc, b)
<1>1. /\ acc.queue \in Queues /\ acc.spread \in Nat /\ acc.outs \in Nat
      /\ Acc.queue \in Queues /\ Acc.spread \in Nat /\ Acc.outs \in Nat
      /\ acc.spread <= Acc.spread /\ acc.outs <= Acc.outs
  BY DEF AccBelow, Accs
<1>2. /\ e \in Rounds /\ E \in Rounds
      /\ e.number <= b.count /\ E.number <= b.count /\ e.number <= E.number
      /\ Below(e.queue, E.queue) \/ Len(e.queue) < b.cap
  BY <1>1, EvictionsBelow DEF QueueBelow
<1>3. s \in Nat /\ S \in Nat /\ s <= S
  BY <1>1, DivGrows
<1>4. /\ new = [queue |-> e.queue, spread |-> IF b.count - e.number >= s THEN 0 ELSE acc.spread,
                outs |-> acc.outs + e.number + Smaller(b.count - e.number, s)]
      /\ New = [queue |-> E.queue, spread |-> IF b.count - E.number >= S THEN 0 ELSE Acc.spread,
                outs |-> Acc.outs + E.number + Smaller(b.count - E.number, S)]
  BY DEF OneBlock
<1> HIDE DEF e, E, s, S, new, New
<1>5. /\ e.number \in Nat /\ E.number \in Nat /\ e.queue \in Queues /\ E.queue \in Queues
  BY <1>2 DEF Rounds
<1>6. /\ e.number + Smaller(b.count - e.number, s) \in Nat
      /\ e.number + Smaller(b.count - e.number, s) <= E.number + Smaller(b.count - E.number, S)
      /\ b.count - E.number >= S => b.count - e.number >= s
  BY <1>2, <1>3, <1>5, CountsGrow
<1>7. E.number + Smaller(b.count - E.number, S) \in Nat
  <2> DEFINE w == E.number
             count == b.count
  <2>1. w \in Nat /\ count \in Nat /\ w <= count
    BY <1>2, <1>5
  <2> HIDE DEF w, count
  <2>2. w <= w /\ S <= S
    BY <1>3, <2>1
  <2>3. w + Smaller(count - w, S) \in Nat
    BY <1>3, <2>1, <2>2, CountsGrow
  <2>4. QED
    BY <2>3 DEF w, count
<1>8. Smaller(b.count - e.number, s) \in Int /\ Smaller(b.count - E.number, S) \in Int
  BY <1>3, <1>5 DEF Smaller
<1>9. /\ new.outs = acc.outs + (e.number + Smaller(b.count - e.number, s))
      /\ New.outs = Acc.outs + (E.number + Smaller(b.count - E.number, S))
  BY <1>1, <1>4, <1>5, <1>8
<1>10. new.outs \in Nat /\ New.outs \in Nat /\ new.outs <= New.outs
  BY <1>1, <1>6, <1>7, <1>9
<1>11. new.spread \in Nat /\ New.spread \in Nat /\ new.spread <= New.spread
  BY <1>1, <1>4, <1>6
<1>12. new \in Accs /\ New \in Accs /\ new.queue = e.queue /\ New.queue = E.queue
  BY <1>4, <1>5, <1>10, <1>11 DEF Accs
<1>13. QED
  BY <1>2, <1>10, <1>11, <1>12 DEF AccBelow, QueueBelow, new, New

(* Of finitely many, one with the greatest value. *)
LEMMA GreatestValue ==
    ASSUME NEW S, IsFiniteSet(S), S # {}, NEW f, \A i \in S : f[i] \in Int
    PROVE  \E i \in S : \A j \in S : f[j] <= f[i]
<1> DEFINE values == {f[i] : i \in S}
<1>1. IsFiniteSet(values) /\ values \subseteq Int /\ values # {}
  BY FiniteImage
<1>2. PICK v \in values : \A k \in values : k <= v
  <2> HIDE DEF values
  <2>1. QED
    BY <1>1, GreatestNumber
<1>3. QED
  BY <1>2

KeyIsInt(b) == b.cap \in Int /\ b.age \in Int /\ b.count \in Int

(* The last block in the order of blocks: the greatest capacity. *)
LEMMA LargestExists ==
    ASSUME NEW blocks, NEW S, IsFiniteSet(S), S # {}, \A i \in S : KeyIsInt(blocks[i])
    PROVE  /\ Largest(blocks, S) \in S
           /\ \A j \in S : blocks[j].cap <= blocks[Largest(blocks, S)].cap
<1> DEFINE caps == [i \in S |-> blocks[i].cap]
           ages == [i \in S |-> blocks[i].age]
           counts == [i \in S |-> blocks[i].count]
<1>1. PICK c \in S : \A j \in S : caps[j] <= caps[c]
  BY GreatestValue DEF KeyIsInt
<1> DEFINE top == {i \in S : caps[i] = caps[c]}
<1>2. IsFiniteSet(top) /\ top # {} /\ \A i \in top : ages[i] \in Int
  BY FS_Subset DEF KeyIsInt
<1>3. PICK a \in top : \A j \in top : ages[j] <= ages[a]
  <2> HIDE DEF top, ages
  <2>1. QED
    BY <1>2, GreatestValue
<1> DEFINE old == {i \in top : ages[i] = ages[a]}
<1>4. IsFiniteSet(old) /\ old # {} /\ \A i \in old : counts[i] \in Int
  BY <1>2, FS_Subset DEF KeyIsInt
<1>5. PICK n \in old : \A j \in old : counts[j] <= counts[n]
  <2> HIDE DEF old, counts
  <2>1. QED
    BY <1>4, GreatestValue
<1>6. \A j \in S : NotLess(blocks[n], blocks[j])
  <2> TAKE j \in S
  <2>1. KeyIsInt(blocks[j]) /\ KeyIsInt(blocks[n])
    OBVIOUS
  <2>2. blocks[j].cap <= blocks[n].cap
    BY <1>1, <1>5
  <2>3. blocks[j].cap = blocks[n].cap => blocks[j].age <= blocks[n].age
    BY <1>3, <1>5
  <2>4. blocks[j].cap = blocks[n].cap /\ blocks[j].age = blocks[n].age => blocks[j].count <= blocks[n].count
    BY <1>5
  <2>5. QED
    BY <2>1, <2>2, <2>3, <2>4 DEF NotLess, KeyIsInt
<1> DEFINE l == Largest(blocks, S)
<1>7. l \in S /\ \A j \in S : NotLess(blocks[l], blocks[j])
  BY <1>6 DEF Largest
<1> HIDE DEF l
<1>8. \A j \in S : blocks[j].cap <= blocks[l].cap
  BY <1>7 DEF NotLess, KeyIsInt
<1>9. QED
  BY <1>7, <1>8 DEF l

-----------------------------------------------------------------------------
OutsStart(urs, set) ==
    [queue |-> LoadQueue(urs, set), spread |-> LinesPerRegion(urs, set), outs |-> 0]

IsOuts(g, blocks, start) ==
    g = [s \in SUBSET DOMAIN blocks |->
            IF s = {} THEN start
            ELSE LET x == Largest(blocks, s) IN OneBlock(g[s \ {x}], blocks[x])]

PersistentBlocks == {b \in Blocks : b.cap \in Nat \ {0} /\ b.count \in Nat}

(* What is counted after a block. *)
LEMMA OneBlockType ==
    ASSUME NEW acc \in Accs, NEW b \in PersistentBlocks
    PROVE  OneBlock(acc, b) \in Accs
<1>1. AccBelow(acc, acc) /\ QueueBelow(acc, acc, b.cap)
  BY BelowItself DEF AccBelow, QueueBelow, Accs
<1>2. QED
  BY <1>1, OneBlockBelow DEF AccBelow, PersistentBlocks

(* What is counted, block by block. *)
LEMMA OutsSteps ==
    ASSUME NEW blocks \in Seq(PersistentBlocks), NEW start \in Accs
    PROVE  \E g : \A s \in SUBSET DOMAIN blocks :
               /\ g[s] \in Accs
               /\ s = {} => g[s] = start
               /\ s # {} => g[s] = OneBlock(g[s \ {Largest(blocks, s)}], blocks[Largest(blocks, s)])
<1> DEFINE S == DOMAIN blocks
           pick == [s \in SUBSET S |-> Largest(blocks, s)]
           F == [i \in S |-> [acc \in Accs |-> OneBlock(acc, blocks[i])]]
<1>1. IsFiniteSet(S) /\ \A i \in S : blocks[i] \in PersistentBlocks
  BY FS_Interval
<1>2. \A s \in SUBSET S : s # {} => pick[s] \in s
  <2> TAKE s \in SUBSET S
  <2>1. IsFiniteSet(s) /\ \A i \in s : KeyIsInt(blocks[i])
    BY <1>1, FS_Subset DEF PersistentBlocks, Blocks, KeyIsInt
  <2>2. QED
    BY <2>1, LargestExists
<1>3. F \in [S -> [Accs -> Accs]]
  BY <1>1, OneBlockType
<1> HIDE DEF S, F, pick
<1>4. PICK g : SetRecursive(g, S, Accs, start, pick, F)
  BY <1>1, <1>2, <1>3, SetRecursion, Zenon
<1>5. ASSUME NEW s \in SUBSET S
      PROVE  /\ g[s] \in Accs /\ (s = {} => g[s] = start)
             /\ s # {} => g[s] = OneBlock(g[s \ {Largest(blocks, s)}], blocks[Largest(blocks, s)])
  <2>1. g[s] \in Accs /\ (s = {} => g[s] = start)
    BY <1>4 DEF SetRecursive
  <2>2. ASSUME s # {}
        PROVE  g[s] = OneBlock(g[s \ {Largest(blocks, s)}], blocks[Largest(blocks, s)])
    <3>1. g[s] = F[pick[s]][g[s \ {pick[s]}]]
      BY <1>4, <2>2 DEF SetRecursive
    <3>2. pick[s] \in S /\ s \ {pick[s]} \in SUBSET S
      BY <1>2, <2>2
    <3>3. g[s \ {pick[s]}] \in Accs
      BY <1>4, <3>2 DEF SetRecursive
    <3>4. F[pick[s]][g[s \ {pick[s]}]] = OneBlock(g[s \ {pick[s]}], blocks[pick[s]])
      BY <3>2, <3>3 DEF F
    <3>5. pick[s] = Largest(blocks, s)
      BY DEF pick
    <3>6. QED
      BY <3>1, <3>4, <3>5
  <2>3. QED
    BY <2>1, <2>2
<1>6. QED
  BY <1>5 DEF S

(* g[s] is the count after the blocks at the places in s. *)
CountsBlocks(g, blocks, urs, set) ==
    /\ Outs(blocks, urs, set) = g[DOMAIN blocks].outs
    /\ \A s \in SUBSET DOMAIN blocks :
           /\ g[s] \in Accs
           /\ s = {} => g[s] = OutsStart(urs, set)
           /\ s # {} => g[s] = OneBlock(g[s \ {Largest(blocks, s)}], blocks[Largest(blocks, s)])

(* The evictions of all blocks, as a recursive function. *)
LEMMA OutsAre ==
    ASSUME NEW blocks \in Seq(PersistentBlocks), NEW urs, NEW set,
           OutsStart(urs, set) \in Accs
    PROVE  \E g : CountsBlocks(g, blocks, urs, set)
<1> DEFINE start == OutsStart(urs, set)
           D == DOMAIN blocks
           iter == CHOOSE g : IsOuts(g, blocks, start)
           T == {s \in SUBSET D : iter[s] \in Accs}
<1>1. Outs(blocks, urs, set) = iter[D].outs
  BY Zenon DEF Outs, MapThenFoldSet, IsOuts, OutsStart
<1>2. \E g : IsOuts(g, blocks, start)
  <2> HIDE DEF start
  <2>1. PICK h : \A s \in SUBSET D :
               /\ h[s] \in Accs
               /\ s = {} => h[s] = start
               /\ s # {} => h[s] = OneBlock(h[s \ {Largest(blocks, s)}], blocks[Largest(blocks, s)])
    BY OutsSteps DEF start
  <2> DEFINE g == [s \in SUBSET D |-> h[s]]
  <2>2. \A s \in SUBSET D :
            g[s] = IF s = {} THEN start
                   ELSE LET x == Largest(blocks, s) IN OneBlock(g[s \ {x}], blocks[x])
    <3> TAKE s \in SUBSET D
    <3>1. s \ {Largest(blocks, s)} \in SUBSET D
      OBVIOUS
    <3>2. QED
      BY <2>1, <3>1
  <2>3. g = [s \in SUBSET D |-> g[s]]
    OBVIOUS
  <2> HIDE DEF g
  <2>4. IsOuts(g, blocks, start)
    BY <2>2, <2>3 DEF IsOuts
  <2>5. QED
    BY <2>4
<1>3. IsOuts(iter, blocks, start)
  BY <1>2
<1> HIDE DEF iter
<1>4. \A s \in SUBSET D :
          iter[s] = IF s = {} THEN start
                    ELSE OneBlock(iter[s \ {Largest(blocks, s)}], blocks[Largest(blocks, s)])
  BY <1>3 DEF IsOuts
<1> HIDE DEF start
<1>5. IsFiniteSet(D) /\ \A i \in D : blocks[i] \in PersistentBlocks
  BY FS_Interval
<1> HIDE DEF D
<1>6. \A s \in SUBSET D : s \in T
  <2>1. {} \in T
    BY <1>4 DEF start
  <2>2. ASSUME NEW s \in SUBSET D, s # {} PROVE \E x \in s : s \ {x} \in T => s \in T
    <3>1. IsFiniteSet(s) /\ \A i \in s : KeyIsInt(blocks[i])
      BY <1>5, FS_Subset DEF PersistentBlocks, Blocks, KeyIsInt
    <3>2. Largest(blocks, s) \in s
      BY <2>2, <3>1, LargestExists
    <3>3. iter[s] = OneBlock(iter[s \ {Largest(blocks, s)}], blocks[Largest(blocks, s)])
      BY <1>4, <2>2
    <3>4. blocks[Largest(blocks, s)] \in PersistentBlocks
      BY <1>5, <3>2
    <3>5. s \ {Largest(blocks, s)} \in T => s \in T
      BY <3>3, <3>4, OneBlockType
    <3>6. QED
      BY <3>2, <3>5
  <2> HIDE DEF T
  <2>3. QED
    BY <1>5, <2>1, <2>2, SetUpward
<1>7. \A s \in SUBSET D :
          /\ iter[s] \in Accs
          /\ s = {} => iter[s] = OutsStart(urs, set)
          /\ s # {} => iter[s] = OneBlock(iter[s \ {Largest(blocks, s)}], blocks[Largest(blocks, s)])
  BY <1>4, <1>6 DEF start
<1>8. CountsBlocks(iter, blocks, urs, set)
  BY <1>1, <1>7 DEF D, CountsBlocks
<1>9. QED
  BY <1>8

(* A longer stretch of the other core's path evicts persistent blocks at   *)
(* least as often.                                                         *)
LEMMA OutsGrow ==
    ASSUME NEW blocks \in Seq(PersistentBlocks), NEW set,
           NEW urs \in Seq(Seq(Blocks)), NEW longer \in Seq(Seq(Blocks)), IsEnd(urs, longer)
    PROVE  /\ Outs(blocks, urs, set) \in Nat /\ Outs(blocks, longer, set) \in Nat
           /\ Outs(blocks, urs, set) <= Outs(blocks, longer, set)
<1> DEFINE D == DOMAIN blocks
           a == OutsStart(urs, set)
           A == OutsStart(longer, set)
           last(s) == blocks[Largest(blocks, s)]
           rest(s) == s \ {Largest(blocks, s)}
<1>1. /\ LoadQueue(urs, set) \in Queues /\ LoadQueue(longer, set) \in Queues
      /\ Below(LoadQueue(urs, set), LoadQueue(longer, set))
      /\ LinesPerRegion(urs, set) \in Nat /\ LinesPerRegion(longer, set) \in Nat
      /\ LinesPerRegion(urs, set) <= LinesPerRegion(longer, set)
  BY LoadQueueGrows
<1>2. a \in Accs /\ A \in Accs /\ AccBelow(a, A) /\ Below(a.queue, A.queue)
  BY <1>1 DEF OutsStart, Accs, AccBelow
<1>3. PICK g : /\ Outs(blocks, urs, set) = g[D].outs
               /\ \A s \in SUBSET D :
                      /\ g[s] \in Accs
                      /\ s = {} => g[s] = a
                      /\ s # {} => g[s] = OneBlock(g[rest(s)], last(s))
  <2>1. \E g : CountsBlocks(g, blocks, urs, set)
    BY <1>2, OutsAre
  <2>2. QED
    BY <2>1, Zenon DEF CountsBlocks
<1>4. PICK G : /\ Outs(blocks, longer, set) = G[D].outs
               /\ \A s \in SUBSET D :
                      /\ G[s] \in Accs
                      /\ s = {} => G[s] = A
                      /\ s # {} => G[s] = OneBlock(G[rest(s)], last(s))
  <2>1. \E G : CountsBlocks(G, blocks, longer, set)
    BY <1>2, OutsAre
  <2>2. QED
    BY <2>1, Zenon DEF CountsBlocks
<1>5. IsFiniteSet(D) /\ \A i \in D : blocks[i] \in PersistentBlocks
  BY FS_Interval
<1> HIDE DEF D, a, A
<1>6. ASSUME NEW s \in SUBSET D, s # {}
      PROVE  /\ Largest(blocks, s) \in s /\ last(s) \in PersistentBlocks
             /\ \A j \in s : blocks[j].cap <= last(s).cap
             /\ rest(s) \in SUBSET D
  <2>1. IsFiniteSet(s) /\ \A i \in s : KeyIsInt(blocks[i])
    BY <1>5, FS_Subset DEF PersistentBlocks, Blocks, KeyIsInt
  <2>2. Largest(blocks, s) \in s /\ \A j \in s : blocks[j].cap <= last(s).cap
    BY <1>6, <2>1, LargestExists
  <2>3. QED
    BY <1>5, <2>2
<1> DEFINE Ok(s) == /\ AccBelow(g[s], G[s])
                    /\ s = {} => Below(g[s].queue, G[s].queue)
                    /\ s # {} => QueueBelow(g[s], G[s], last(s).cap)
           T == {s \in SUBSET D : Ok(s)}
<1> HIDE DEF last, rest
<1>7. {} \in T
  BY <1>2, <1>3, <1>4
<1>8. ASSUME NEW s \in SUBSET D, s # {} PROVE \E x \in s : s \ {x} \in T => s \in T
  <2>1. /\ Largest(blocks, s) \in s /\ last(s) \in PersistentBlocks
        /\ \A j \in s : blocks[j].cap <= last(s).cap
        /\ rest(s) \in SUBSET D
    BY <1>6, <1>8
  <2>2. ASSUME rest(s) \in T PROVE s \in T
    <3>1. AccBelow(g[rest(s)], G[rest(s)])
      BY <2>2
    <3>2. QueueBelow(g[rest(s)], G[rest(s)], last(s).cap)
      <4>1. CASE rest(s) = {}
        BY <2>2, <4>1 DEF QueueBelow
      <4>2. CASE rest(s) # {}
        <5>1. Largest(blocks, rest(s)) \in rest(s) /\ last(rest(s)) \in PersistentBlocks
          BY <1>6, <2>1, <4>2
        <5>2. last(rest(s)).cap <= last(s).cap
          <6>1. Largest(blocks, rest(s)) \in s
            BY <5>1 DEF rest
          <6>2. QED
            BY <2>1, <6>1 DEF last
        <5>3. QueueBelow(g[rest(s)], G[rest(s)], last(rest(s)).cap)
          BY <2>2, <4>2
        <5>4. last(s).cap \in Nat /\ last(rest(s)).cap \in Nat /\ Len(g[rest(s)].queue) \in Nat
          BY <1>3, <2>1, <5>1 DEF PersistentBlocks, Accs, Queues
        <5>5. QED
          BY <5>2, <5>3, <5>4 DEF QueueBelow
      <4>3. QED
        BY <4>1, <4>2
    <3>3. /\ AccBelow(OneBlock(g[rest(s)], last(s)), OneBlock(G[rest(s)], last(s)))
          /\ QueueBelow(OneBlock(g[rest(s)], last(s)), OneBlock(G[rest(s)], last(s)), last(s).cap)
      BY <2>1, <3>1, <3>2, OneBlockBelow DEF PersistentBlocks
    <3>4. g[s] = OneBlock(g[rest(s)], last(s)) /\ G[s] = OneBlock(G[rest(s)], last(s))
      BY <1>3, <1>4, <1>8
    <3>5. QED
      BY <1>8, <3>3, <3>4
  <2> HIDE DEF T
  <2>3. QED
    BY <2>1, <2>2 DEF rest
<1> HIDE DEF T
<1>9. D \in T
  <2>1. \A s \in SUBSET D : s \in T
    BY <1>5, <1>7, <1>8, SetUpward
  <2>2. QED
    BY <2>1
<1>10. AccBelow(g[D], G[D])
  BY <1>9 DEF T
<1>11. QED
  BY <1>3, <1>4, <1>10 DEF AccBelow, Accs

-----------------------------------------------------------------------------
(* Sums over the lines of a region. *)
IsSum(g, cr, urs) ==
    g = [s \in SUBSET LinesUsed(cr.persistent) |->
            IF s = {} THEN 0
            ELSE LET x == CHOOSE x \in s : TRUE IN LineOuts(cr, x, urs) + g[s \ {x}]]

(* Conflict regions. *)
ConflictRegionType == [notPersistent : {s \in SUBSET Blocks : IsFiniteSet(s)},
                    persistent : Seq(PersistentBlocks)]

(* The evictions of the persistent blocks of a region are a number. *)
LEMMA PersistentOutsAre ==
    ASSUME NEW cr \in ConflictRegionType, NEW urs,
           \A line \in LinesUsed(cr.persistent) : LineOuts(cr, line, urs) \in Nat
    PROVE  \E g : /\ PersistentOuts(cr, urs) = g[LinesUsed(cr.persistent)]
                  /\ g[{}] = 0
                  /\ \A s \in SUBSET LinesUsed(cr.persistent) :
                         /\ g[s] \in Nat
                         /\ s # {} => \E x \in s :
                                /\ x = CHOOSE x1 \in s : TRUE
                                /\ g[s] = LineOuts(cr, x, urs) + g[s \ {x}]
<1> DEFINE L == LinesUsed(cr.persistent)
           pick == [s \in SUBSET L |-> CHOOSE x \in s : TRUE]
           F == [x \in L |-> [v \in Nat |-> LineOuts(cr, x, urs) + v]]
           iter == CHOOSE g : IsSum(g, cr, urs)
           T == {s \in SUBSET L : iter[s] \in Nat}
<1>1. PersistentOuts(cr, urs) = iter[L]
  BY Zenon DEF PersistentOuts, MapThenSumSet, MapThenFoldSet, IsSum
<1>2. IsFiniteSet(L)
  <2>1. cr.persistent \in Seq(PersistentBlocks)
    BY DEF ConflictRegionType
  <2>2. IsFiniteSet(Range(cr.persistent))
    BY <2>1, FiniteRange
  <2> DEFINE f == [b \in Range(cr.persistent) |-> b.line]
  <2>3. IsFiniteSet({f[b] : b \in Range(cr.persistent)})
    BY <2>2, FiniteImage
  <2>4. {f[b] : b \in Range(cr.persistent)} = L
    BY DEF LinesUsed
  <2>5. QED
    BY <2>3, <2>4
<1>3. F \in [L -> [Nat -> Nat]]
  OBVIOUS
<1>4. \A s \in SUBSET L : s # {} => pick[s] \in s
  OBVIOUS
<1>5. \E g : IsSum(g, cr, urs)
  <2>1. \E h : SetRecursive(h, L, Nat, 0, pick, F)
    <3> HIDE DEF L, F, pick
    <3>1. 0 \in Nat
      OBVIOUS
    <3>2. QED
      BY <1>2, <1>3, <1>4, <3>1, SetRecursion, Zenon
  <2> PICK g : SetRecursive(g, L, Nat, 0, pick, F)
    BY <2>1
  <2>2. /\ g = [s \in SUBSET L |-> g[s]] /\ \A s \in SUBSET L : g[s] \in Nat
        /\ \A s \in SUBSET L :
               g[s] = IF s = {} THEN 0 ELSE F[pick[s]][g[s \ {pick[s]}]]
    <3> HIDE DEF L, F, pick
    <3>1. QED
      BY DEF SetRecursive
  <2>3. \A s \in SUBSET L :
            g[s] = IF s = {} THEN 0
                   ELSE LET x == CHOOSE x \in s : TRUE IN LineOuts(cr, x, urs) + g[s \ {x}]
    <3> TAKE s \in SUBSET L
    <3>1. CASE s = {}
      BY <2>2, <3>1
    <3>2. CASE s # {}
      <4>1. pick[s] = (CHOOSE x \in s : TRUE) /\ pick[s] \in L /\ s \ {pick[s]} \in SUBSET L
        BY <3>2
      <4> HIDE DEF pick
      <4>2. F[pick[s]][g[s \ {pick[s]}]] = LineOuts(cr, pick[s], urs) + g[s \ {pick[s]}]
        BY <2>2, <4>1
      <4>3. QED
        BY <2>2, <3>2, <4>1, <4>2
    <3>3. QED
      BY <3>1, <3>2
  <2>4. IsSum(g, cr, urs)
    BY <2>2, <2>3 DEF IsSum
  <2>5. QED
    BY <2>4
<1>6. IsSum(iter, cr, urs)
  BY <1>5
<1> HIDE DEF iter
<1>7. iter[{}] = 0 /\ \A s \in SUBSET L : s # {} =>
          \E x \in s : x = (CHOOSE x1 \in s : TRUE) /\ iter[s] = LineOuts(cr, x, urs) + iter[s \ {x}]
  <2>1. \A s \in SUBSET L :
            iter[s] = IF s = {} THEN 0
                      ELSE LET x == CHOOSE x \in s : TRUE IN LineOuts(cr, x, urs) + iter[s \ {x}]
    BY <1>6 DEF IsSum
  <2>2. QED
    BY <2>1
<1> HIDE DEF L
<1>8. \A s \in SUBSET L : s \in T
  <2>1. {} \in T
    BY <1>7
  <2>2. ASSUME NEW s \in SUBSET L, s # {} PROVE \E x \in s : s \ {x} \in T => s \in T
    <3>1. PICK x \in s : iter[s] = LineOuts(cr, x, urs) + iter[s \ {x}]
      BY <1>7, <2>2
    <3>2. LineOuts(cr, x, urs) \in Nat
      BY <3>1 DEF L
    <3>3. s \ {x} \in T => s \in T
      BY <3>1, <3>2
    <3>4. QED
      BY <3>3
  <2> HIDE DEF T
  <2>3. QED
    BY <1>2, <2>1, <2>2, SetUpward
<1>9. QED
  BY <1>1, <1>7, <1>8 DEF L

-----------------------------------------------------------------------------
(* Lines that go out of the set. *)

(* Who started earlier evicts persistent blocks at least as often. *)
LEMMA PersistentOutsGrow ==
    ASSUME NEW cr \in ConflictRegionType,
           NEW urs \in Seq(Seq(Blocks)), NEW longer \in Seq(Seq(Blocks)), IsEnd(urs, longer)
    PROVE  /\ PersistentOuts(cr, urs) \in Nat /\ PersistentOuts(cr, longer) \in Nat
           /\ PersistentOuts(cr, urs) <= PersistentOuts(cr, longer)
<1> DEFINE L == LinesUsed(cr.persistent)
<1>1. cr.persistent \in Seq(PersistentBlocks)
  BY DEF ConflictRegionType
<1>2. \A line : /\ LineOuts(cr, line, urs) \in Nat /\ LineOuts(cr, line, longer) \in Nat
                /\ LineOuts(cr, line, urs) <= LineOuts(cr, line, longer)
  <2> TAKE line
  <2> DEFINE keep == {i \in DOMAIN cr.persistent : cr.persistent[i].line = line}
             blocks == Those(cr.persistent, keep)
  <2>1. blocks \in Seq(PersistentBlocks)
    <3> HIDE DEF keep
    <3>1. QED
      BY <1>1, ThoseType
  <2>2. /\ LineOuts(cr, line, urs) = Outs(blocks, urs, SetOf[line])
        /\ LineOuts(cr, line, longer) = Outs(blocks, longer, SetOf[line])
    BY DEF LineOuts
  <2> HIDE DEF blocks
  <2>3. QED
    BY <2>1, <2>2, OutsGrow
<1>3. IsFiniteSet(L)
  <2>1. IsFiniteSet(Range(cr.persistent))
    BY <1>1, FiniteRange
  <2> DEFINE f == [b \in Range(cr.persistent) |-> b.line]
  <2>2. IsFiniteSet({f[b] : b \in Range(cr.persistent)})
    BY <2>1, FiniteImage
  <2>3. {f[b] : b \in Range(cr.persistent)} = L
    BY DEF LinesUsed
  <2>4. QED
    BY <2>2, <2>3
<1>4. PICK g : /\ PersistentOuts(cr, urs) = g[L]
               /\ g[{}] = 0
               /\ \A s \in SUBSET L :
                      /\ g[s] \in Nat
                      /\ s # {} => \E x \in s :
                             /\ x = CHOOSE x1 \in s : TRUE
                             /\ g[s] = LineOuts(cr, x, urs) + g[s \ {x}]
  BY <1>2, PersistentOutsAre
<1>5. PICK G : /\ PersistentOuts(cr, longer) = G[L]
               /\ G[{}] = 0
               /\ \A s \in SUBSET L :
                      /\ G[s] \in Nat
                      /\ s # {} => \E x \in s :
                             /\ x = CHOOSE x1 \in s : TRUE
                             /\ G[s] = LineOuts(cr, x, longer) + G[s \ {x}]
  BY <1>2, PersistentOutsAre
<1> HIDE DEF L
<1> DEFINE T == {s \in SUBSET L : g[s] <= G[s]}
<1>6. {} \in T
  BY <1>4, <1>5
<1>7. ASSUME NEW s \in SUBSET L, s # {} PROVE \E x \in s : s \ {x} \in T => s \in T
  <2> DEFINE x == CHOOSE x1 \in s : TRUE
  <2>1. x \in s /\ s \ {x} \in SUBSET L
    BY <1>7
  <2>2. g[s] = LineOuts(cr, x, urs) + g[s \ {x}]
    BY <1>4, <1>7
  <2>3. G[s] = LineOuts(cr, x, longer) + G[s \ {x}]
    BY <1>5, <1>7
  <2> HIDE DEF x
  <2>4. g[s \ {x}] \in Nat /\ G[s \ {x}] \in Nat
    BY <1>4, <1>5, <2>1
  <2>5. s \ {x} \in T => s \in T
    BY <1>2, <2>2, <2>3, <2>4
  <2>6. QED
    BY <2>1, <2>5
<1> HIDE DEF T
<1>8. L \in T
  <2>1. \A s \in SUBSET L : s \in T
    BY <1>3, <1>6, <1>7, SetUpward
  <2>2. QED
    BY <2>1
<1>9. g[L] <= G[L] /\ g[L] \in Nat /\ G[L] \in Nat
  BY <1>4, <1>5, <1>8 DEF T
<1>10. QED
  BY <1>4, <1>5, <1>9

-----------------------------------------------------------------------------
(* Lines that go out if they are not out before. *)
Endangered(cr, urs) ==
    {b.line : b \in {b \in cr.notPersistent :
        b.age + Cardinality(LinesLoaded(urs, SetOf[b.line]) \ {b.line}) > L2assoc}}

(* More lines are in danger if more regions are passed through. *)
LEMMA EndangeredGrow ==
    ASSUME NEW cr \in ConflictRegionType,
           NEW urs \in Seq(Seq(Blocks)), NEW longer \in Seq(Seq(Blocks)), IsEnd(urs, longer)
    PROVE  /\ Endangered(cr, urs) \subseteq Endangered(cr, longer)
           /\ Endangered(cr, longer) \subseteq {b.line : b \in cr.notPersistent}
           /\ IsFiniteSet({b.line : b \in cr.notPersistent})
<1>1. cr.notPersistent \subseteq Blocks /\ IsFiniteSet(cr.notPersistent)
  BY DEF ConflictRegionType
<1>2. ASSUME NEW b \in cr.notPersistent,
             b.age + Cardinality(LinesLoaded(urs, SetOf[b.line]) \ {b.line}) > L2assoc
      PROVE  b.age + Cardinality(LinesLoaded(longer, SetOf[b.line]) \ {b.line}) > L2assoc
  <2> DEFINE s == LinesLoaded(urs, SetOf[b.line]) \ {b.line}
             t == LinesLoaded(longer, SetOf[b.line]) \ {b.line}
  <2>1. s \subseteq t
    BY LinesLoadedGrow
  <2>2. IsFiniteSet(t)
    <3>1. IsFiniteSet(LinesLoaded(longer, SetOf[b.line]))
      BY LinesLoadedFinite
    <3>2. QED
      BY <3>1, FS_Subset
  <2>3. Cardinality(s) <= Cardinality(t) /\ Cardinality(s) \in Nat /\ Cardinality(t) \in Nat
    BY <2>1, <2>2, FS_Subset, FS_CardinalityType
  <2>4. b.age \in Int /\ L2assoc \in Nat
    BY <1>1, BlockType, AssociativityAssumption
  <2> HIDE DEF s, t
  <2>5. QED
    BY <1>2, <2>3, <2>4 DEF s, t
<1>3. Endangered(cr, urs) \subseteq Endangered(cr, longer)
  BY <1>2 DEF Endangered
<1>4. Endangered(cr, longer) \subseteq {b.line : b \in cr.notPersistent}
  BY DEF Endangered
<1>5. IsFiniteSet({b.line : b \in cr.notPersistent})
  <2> DEFINE f == [b \in cr.notPersistent |-> b.line]
  <2>1. IsFiniteSet({f[b] : b \in cr.notPersistent})
    BY <1>1, FiniteImage
  <2>2. {f[b] : b \in cr.notPersistent} = {b.line : b \in cr.notPersistent}
    OBVIOUS
  <2>3. QED
    BY <2>1, <2>2
<1>6. QED
  BY <1>3, <1>4, <1>5

InBalance(L, o, O, e, E, n, N) ==
    /\ n \subseteq N /\ N \subseteq L /\ IsFiniteSet(N)
    /\ Cardinality(e \ o) \in Nat /\ Cardinality(N \ n) \in Nat
    /\ Cardinality(E \ O) \in Nat /\ Cardinality(O \ o) \in Nat
    /\ Cardinality(e \ o) + Cardinality(N \ n) <= Cardinality(E \ O) + Cardinality(O \ o)

(* What is gained by having pushed lines out earlier is at most the number *)
(* of these lines.                                                         *)
LEMMA SetsBalance ==
    ASSUME NEW L, IsFiniteSet(L), NEW o, NEW O, o \subseteq O, IsFiniteSet(O),
           NEW e, NEW E, e \subseteq E, E \subseteq L,
           NEW n, n = (o \cap L) \cup (e \ o), NEW N, N = (O \cap L) \cup (E \ O)
    PROVE  InBalance(L, o, O, e, E, n, N)
<1> DEFINE a == e \ o
           b == N \ n
           c == E \ O
           d == O \ o
<1>1. n \subseteq N /\ N \subseteq L
  OBVIOUS
<1>2. a \cap b = {} /\ a \cup b \subseteq c \cup d
  OBVIOUS
<1>3. a \subseteq L /\ b \subseteq L /\ c \subseteq L /\ N \subseteq L /\ d \subseteq O
  OBVIOUS
<1>4. IsFiniteSet(a) /\ IsFiniteSet(b) /\ IsFiniteSet(c) /\ IsFiniteSet(d) /\ IsFiniteSet(N)
  <2> HIDE DEF a, b, c, d
  <2>1. QED
    BY <1>3, FS_Subset
<1> HIDE DEF a, b, c, d
<1>5. /\ Cardinality(a) \in Nat /\ Cardinality(b) \in Nat
      /\ Cardinality(c) \in Nat /\ Cardinality(d) \in Nat
  BY <1>4, FS_CardinalityType
<1>6. Cardinality(a \cup b) = Cardinality(a) + Cardinality(b)
  <2>1. Cardinality(a \cup b) = Cardinality(a) + Cardinality(b) - Cardinality(a \cap b)
    BY <1>4, FS_Union
  <2>2. Cardinality(a \cap b) = 0
    BY <1>2, FS_EmptySet
  <2>3. QED
    BY <1>5, <2>1, <2>2
<1>7. IsFiniteSet(c \cup d) /\ Cardinality(c \cup d) <= Cardinality(c) + Cardinality(d)
  <2>1. IsFiniteSet(c \cup d)
        /\ Cardinality(c \cup d) = Cardinality(c) + Cardinality(d) - Cardinality(c \cap d)
    BY <1>4, FS_Union
  <2>2. Cardinality(c \cap d) \in Nat
    BY <1>4, FS_Intersection, FS_CardinalityType
  <2>3. QED
    BY <1>5, <2>1, <2>2
<1>8. Cardinality(a \cup b) <= Cardinality(c \cup d)
  BY <1>2, <1>7, FS_Subset
<1>9. Cardinality(c \cup d) \in Nat /\ Cardinality(a \cup b) \in Nat
  BY <1>4, <1>5, <1>6, <1>7, FS_CardinalityType
<1>10. Cardinality(a) + Cardinality(b) <= Cardinality(c) + Cardinality(d)
  BY <1>5, <1>6, <1>7, <1>8, <1>9
<1>11. QED
  BY <1>1, <1>4, <1>5, <1>10 DEF a, b, c, d, InBalance

(* An earlier start, and more lines out: what is counted here and what is  *)
(* only out there make up for it.                                          *)
LEMMA MatchGrows ==
    ASSUME NEW cr \in ConflictRegionType,
           NEW urs \in Seq(Seq(Blocks)), NEW longer \in Seq(Seq(Blocks)), IsEnd(urs, longer),
           NEW gone, NEW more, gone \subseteq more, IsFiniteSet(more)
    PROVE  /\ OutAfter(cr, gone, urs) \subseteq OutAfter(cr, more, longer)
           /\ OutAfter(cr, more, longer) \subseteq {b.line : b \in cr.notPersistent}
           /\ IsFiniteSet(OutAfter(cr, more, longer))
           /\ RegionOuts(cr, gone, urs) \in Nat /\ RegionOuts(cr, more, longer) \in Nat
           /\ Cardinality(more \ gone) \in Nat
           /\ Cardinality(OutAfter(cr, more, longer) \ OutAfter(cr, gone, urs)) \in Nat
           /\ RegionOuts(cr, gone, urs)
                  + Cardinality(OutAfter(cr, more, longer) \ OutAfter(cr, gone, urs))
              <= RegionOuts(cr, more, longer) + Cardinality(more \ gone)
<1> DEFINE L == {b.line : b \in cr.notPersistent}
           e == Endangered(cr, urs)
           E == Endangered(cr, longer)
           n == OutAfter(cr, gone, urs)
           N == OutAfter(cr, more, longer)
           p == PersistentOuts(cr, urs)
           P == PersistentOuts(cr, longer)
<1>1. e \subseteq E /\ E \subseteq L /\ IsFiniteSet(L)
  BY EndangeredGrow
<1>2. PushedOut(cr, gone, urs) = e \ gone /\ PushedOut(cr, more, longer) = E \ more
  <2>1. \A o, us : PushedOut(cr, o, us) = Endangered(cr, us) \ o
    BY DEF PushedOut, Endangered
  <2>2. QED
    BY <2>1
<1>3. n = (gone \cap L) \cup (e \ gone) /\ N = (more \cap L) \cup (E \ more)
  BY <1>2 DEF OutAfter
<1>4. /\ RegionOuts(cr, gone, urs) = Cardinality(e \ gone) + p
      /\ RegionOuts(cr, more, longer) = Cardinality(E \ more) + P
  BY <1>2 DEF RegionOuts
<1>5. p \in Nat /\ P \in Nat /\ p <= P
  BY PersistentOutsGrow
<1> HIDE DEF L, e, E, n, N, p, P
<1>6. /\ n \subseteq N /\ N \subseteq L /\ IsFiniteSet(N)
      /\ Cardinality(e \ gone) \in Nat /\ Cardinality(N \ n) \in Nat
      /\ Cardinality(E \ more) \in Nat /\ Cardinality(more \ gone) \in Nat
      /\ Cardinality(e \ gone) + Cardinality(N \ n) <= Cardinality(E \ more) + Cardinality(more \ gone)
  <2>1. InBalance(L, gone, more, e, E, n, N)
    BY <1>1, <1>3, SetsBalance
  <2>2. QED
    BY <2>1 DEF InBalance
<1>7. /\ RegionOuts(cr, gone, urs) \in Nat /\ RegionOuts(cr, more, longer) \in Nat
      /\ RegionOuts(cr, gone, urs) + Cardinality(N \ n)
             <= RegionOuts(cr, more, longer) + Cardinality(more \ gone)
  BY <1>4, <1>5, <1>6
<1>8. QED
  BY <1>6, <1>7 DEF L, n, N

-----------------------------------------------------------------------------
(* The table after a region. *)

OutSets == {D \in SUBSET SUBSET DOMAIN SetOf : IsFiniteSet(D) /\ \A o \in D : IsFiniteSet(o)}
Tables(route) == UNION {[D -> [DOMAIN route -> Nat]] : D \in OutSets}

(* What a table is. *)
LEMMA TableType ==
    ASSUME NEW route, NEW dp
    PROVE  dp \in Tables(route) <=>
               /\ DOMAIN dp \in OutSets /\ dp = [o \in DOMAIN dp |-> dp[o]]
               /\ \A o \in DOMAIN dp : dp[o] \in [DOMAIN route -> Nat]
<1>1. ASSUME dp \in Tables(route)
      PROVE  /\ DOMAIN dp \in OutSets /\ dp = [o \in DOMAIN dp |-> dp[o]]
             /\ \A o \in DOMAIN dp : dp[o] \in [DOMAIN route -> Nat]
  <2>1. PICK D \in OutSets : dp \in [D -> [DOMAIN route -> Nat]]
    BY <1>1 DEF Tables
  <2>2. DOMAIN dp = D
    BY <2>1
  <2>3. QED
    BY <2>1, <2>2
<1>2. ASSUME DOMAIN dp \in OutSets, dp = [o \in DOMAIN dp |-> dp[o]],
             \A o \in DOMAIN dp : dp[o] \in [DOMAIN route -> Nat]
      PROVE  dp \in Tables(route)
  <2>1. dp \in [DOMAIN dp -> [DOMAIN route -> Nat]]
    BY <1>2
  <2>2. QED
    BY <1>2, <2>1 DEF Tables
<1>3. QED
  BY <1>1, <1>2

GoneAfter(cr, route, m) == OutAfter(cr, m.out, Passed(route, m.from, m.upto))
Total(dp, cr, route, m) ==
    dp[m.out][m.from] + RegionOuts(cr, m.out, Passed(route, m.from, m.upto))
Reached(dp, cr, route) ==
    {[out |-> GoneAfter(cr, route, m), upto |-> m.upto, total |-> Total(dp, cr, route, m)] :
        m \in Matches(dp, route)}
TotalsAt(dp, cr, route, o, k) ==
    {s.total : s \in {s \in Reached(dp, cr, route) : s.out = o /\ s.upto = k}}

(* The table after a region. *)
LEMMA DpStepIs ==
    ASSUME NEW dp, NEW cr, NEW route
    PROVE  DpStep(dp, cr, route) =
               [o \in {s.out : s \in Reached(dp, cr, route)} |->
                   [k \in DOMAIN route |-> Max({0} \cup TotalsAt(dp, cr, route, o, k))]]
BY DEF DpStep, Reached, GoneAfter, Total, TotalsAt

(* There are finitely many matches to look at, *)
LEMMA MatchesFinite ==
    ASSUME NEW route \in Seq(Seq(Blocks)), NEW dp \in Tables(route)
    PROVE  IsFiniteSet(Matches(dp, route))
<1> DEFINE A == DOMAIN dp
           B == DOMAIN route
           C == (A \X B) \X B
           f == [p \in C |-> [out |-> p[1][1], from |-> p[1][2], upto |-> p[2]]]
           all == {f[p] : p \in C}
<1>1. IsFiniteSet(A)
  BY TableType DEF OutSets
<1>2. IsFiniteSet(B)
  BY FS_Interval
<1>3. IsFiniteSet(A \X B)
  <2> HIDE DEF A, B
  <2>1. QED
    BY <1>1, <1>2, FS_Product
<1>4. IsFiniteSet(C)
  <2> HIDE DEF B
  <2>1. QED
    BY <1>2, <1>3, FS_Product
<1>5. IsFiniteSet(all)
  <2> HIDE DEF C, f
  <2>1. QED
    BY <1>4, FiniteImage
<1>6. Matches(dp, route) \subseteq all
  <2> SUFFICES ASSUME NEW m \in Matches(dp, route) PROVE m \in all
    OBVIOUS
  <2>1. m \in [out : A, from : B, upto : B]
    BY DEF Matches
  <2> DEFINE p == <<<<m.out, m.from>>, m.upto>>
  <2>2. p \in C
    BY <2>1
  <2>3. f[p] = m
    BY <2>1, <2>2
  <2> HIDE DEF f, p, C
  <2>4. QED
    BY <2>2, <2>3
<1>7. QED
  BY <1>5, <1>6, FS_Subset

(* each of one row, and from a place to a later one, *)
LEMMA MatchType ==
    ASSUME NEW route \in Seq(Seq(Blocks)), NEW dp \in Tables(route), NEW m \in Matches(dp, route)
    PROVE  /\ m.out \in DOMAIN dp /\ m.from \in DOMAIN route /\ m.upto \in DOMAIN route
           /\ m.from <= m.upto /\ IsFiniteSet(m.out) /\ dp[m.out][m.from] \in Nat
<1>1. /\ m.out \in DOMAIN dp /\ m.from \in DOMAIN route /\ m.upto \in DOMAIN route
      /\ m.from <= m.upto
  BY DEF Matches
<1>2. QED
  BY <1>1, TableType DEF OutSets

(* and each reaches a set of lines and a number. *)
LEMMA ReachedType ==
    ASSUME NEW route \in Seq(Seq(Blocks)), NEW dp \in Tables(route), NEW cr \in ConflictRegionType
    PROVE  /\ IsFiniteSet(Reached(dp, cr, route))
           /\ \A s \in Reached(dp, cr, route) :
                  /\ s.out \subseteq DOMAIN SetOf /\ IsFiniteSet(s.out) /\ s.total \in Nat
<1> DEFINE M == Matches(dp, route)
           f == [m \in M |->
                    [out |-> GoneAfter(cr, route, m), upto |-> m.upto, total |-> Total(dp, cr, route, m)]]
<1>1. {f[m] : m \in M} = Reached(dp, cr, route)
  BY DEF Reached
<1>2. IsFiniteSet({f[m] : m \in M})
  <2>1. IsFiniteSet(M)
    BY MatchesFinite
  <2> HIDE DEF M, f
  <2>2. QED
    BY <2>1, FiniteImage
<1>3. ASSUME NEW m \in M
      PROVE  /\ GoneAfter(cr, route, m) \subseteq DOMAIN SetOf /\ IsFiniteSet(GoneAfter(cr, route, m))
             /\ Total(dp, cr, route, m) \in Nat
  <2> DEFINE urs == Passed(route, m.from, m.upto)
  <2>1. /\ m.out \in DOMAIN dp /\ m.from \in DOMAIN route /\ m.upto \in DOMAIN route
        /\ m.from <= m.upto /\ IsFiniteSet(m.out) /\ dp[m.out][m.from] \in Nat
    BY MatchType
  <2>2. urs \in Seq(Seq(Blocks))
    BY <2>1, PassedIs
  <2>3. IsEnd(urs, urs)
    <3> HIDE DEF urs
    <3>1. QED
      BY <2>2 DEF IsEnd
  <2> HIDE DEF urs
  <2>4. /\ OutAfter(cr, m.out, urs) \subseteq {b.line : b \in cr.notPersistent}
        /\ IsFiniteSet(OutAfter(cr, m.out, urs)) /\ RegionOuts(cr, m.out, urs) \in Nat
    BY <2>1, <2>2, <2>3, MatchGrows
  <2>5. {b.line : b \in cr.notPersistent} \subseteq DOMAIN SetOf
    BY BlockType DEF ConflictRegionType
  <2>6. QED
    BY <2>1, <2>4, <2>5 DEF urs, GoneAfter, Total
<1>4. \A s \in Reached(dp, cr, route) :
          s.out \subseteq DOMAIN SetOf /\ IsFiniteSet(s.out) /\ s.total \in Nat
  <2> TAKE s \in Reached(dp, cr, route)
  <2>1. PICK m \in M : s = [out |-> GoneAfter(cr, route, m), upto |-> m.upto,
                          total |-> Total(dp, cr, route, m)]
    BY DEF Reached
  <2>2. s.out = GoneAfter(cr, route, m) /\ s.total = Total(dp, cr, route, m)
    BY <2>1
  <2>3. QED
    BY <1>3, <2>2
<1>5. QED
  BY <1>1, <1>2, <1>4

(* The greatest of some numbers and 0. *)
LEMMA MaxOfNumbers ==
    ASSUME NEW S, IsFiniteSet(S), S \subseteq Nat
    PROVE  /\ Max({0} \cup S) \in Nat
           /\ \A x \in S : x <= Max({0} \cup S)
<1> DEFINE T == {0} \cup S
<1>1. IsFiniteSet(T) /\ T \subseteq Int /\ T # {} /\ T \subseteq Nat
  BY FS_AddElement
<1> HIDE DEF T
<1>2. \E m \in T : \A k \in T : k <= m
  BY <1>1, GreatestNumber
<1>3. Max(T) \in T /\ \A k \in T : Max(T) >= k
  BY <1>1, <1>2 DEF Max
<1>4. \A k \in T : k <= Max(T)
  BY <1>1, <1>3
<1>5. QED
  BY <1>1, <1>3, <1>4 DEF T

(* After a region there is a table again. *)
LEMMA DpStepType ==
    ASSUME NEW route \in Seq(Seq(Blocks)), NEW dp \in Tables(route), NEW cr \in ConflictRegionType
    PROVE  /\ DpStep(dp, cr, route) \in Tables(route)
           /\ \A m \in Matches(dp, route) :
                  /\ GoneAfter(cr, route, m) \in DOMAIN DpStep(dp, cr, route)
                  /\ Total(dp, cr, route, m) <= DpStep(dp, cr, route)[GoneAfter(cr, route, m)][m.upto]
<1> DEFINE R == Reached(dp, cr, route)
           D == {s.out : s \in R}
           V(o, k) == TotalsAt(dp, cr, route, o, k)
           new == DpStep(dp, cr, route)
<1>1. new = [o \in D |-> [k \in DOMAIN route |-> Max({0} \cup V(o, k))]]
  BY DpStepIs
<1>2. /\ IsFiniteSet(R)
      /\ \A s \in R : s.out \subseteq DOMAIN SetOf /\ IsFiniteSet(s.out) /\ s.total \in Nat
  BY ReachedType
<1>3. \A o, k : IsFiniteSet(V(o, k)) /\ V(o, k) \subseteq Nat
  <2> TAKE o, k
  <2> DEFINE r == {s \in R : s.out = o /\ s.upto = k}
             f == [s \in r |-> s.total]
  <2>1. {f[s] : s \in r} = V(o, k)
    BY DEF TotalsAt
  <2>2. IsFiniteSet(r)
    BY <1>2, FS_Subset
  <2>3. IsFiniteSet({f[s] : s \in r})
    <3> HIDE DEF r, f
    <3>1. QED
      BY <2>2, FiniteImage
  <2>4. \A s \in r : f[s] \in Nat
    BY <1>2
  <2>5. QED
    BY <2>1, <2>3, <2>4
<1>4. D \in OutSets
  <2> DEFINE f == [s \in R |-> s.out]
  <2>1. IsFiniteSet({f[s] : s \in R})
    <3> HIDE DEF R, f
    <3>1. QED
      BY <1>2, FiniteImage
  <2>2. {f[s] : s \in R} = D
    OBVIOUS
  <2>3. QED
    BY <1>2, <2>1, <2>2 DEF OutSets
<1>5. ASSUME NEW m \in Matches(dp, route)
      PROVE  GoneAfter(cr, route, m) \in D /\ Total(dp, cr, route, m) \in V(GoneAfter(cr, route, m), m.upto)
  <2> DEFINE s == [out |-> GoneAfter(cr, route, m), upto |-> m.upto, total |-> Total(dp, cr, route, m)]
  <2>1. s \in R
    BY DEF Reached
  <2>2. s.out = GoneAfter(cr, route, m) /\ s.upto = m.upto /\ s.total = Total(dp, cr, route, m)
    OBVIOUS
  <2> HIDE DEF s
  <2>3. QED
    BY <2>1, <2>2 DEF TotalsAt
<1> HIDE DEF V, D, new
<1>6. \A o, k : Max({0} \cup V(o, k)) \in Nat /\ \A x \in V(o, k) : x <= Max({0} \cup V(o, k))
  BY <1>3, MaxOfNumbers
<1>7. new \in Tables(route)
  <2>1. DOMAIN new = D /\ new = [o \in DOMAIN new |-> new[o]]
    BY <1>1
  <2>2. \A o \in DOMAIN new : new[o] \in [DOMAIN route -> Nat]
    BY <1>1, <1>6
  <2>3. QED
    BY <1>4, <2>1, <2>2, TableType
<1>8. ASSUME NEW m \in Matches(dp, route)
      PROVE  /\ GoneAfter(cr, route, m) \in DOMAIN new
             /\ Total(dp, cr, route, m) <= new[GoneAfter(cr, route, m)][m.upto]
  <2> DEFINE o == GoneAfter(cr, route, m)
  <2>1. o \in D /\ Total(dp, cr, route, m) \in V(o, m.upto) /\ m.upto \in DOMAIN route
    BY <1>5, MatchType
  <2> HIDE DEF o
  <2>2. new[o][m.upto] = Max({0} \cup V(o, m.upto)) /\ o \in DOMAIN new
    BY <1>1, <2>1
  <2>3. Total(dp, cr, route, m) <= new[o][m.upto]
    BY <1>6, <2>1, <2>2
  <2>4. QED
    BY <2>2, <2>3 DEF o
<1>9. QED
  BY <1>7, <1>8 DEF new

-----------------------------------------------------------------------------
(* Matches and the tables. *)

(* The table counts a match that is at least as good: lines that are out   *)
(* are out there too, and those out there only are made up for.            *)
Counted(dp, gone, start, sum) ==
    \E more \in DOMAIN dp :
        /\ gone \subseteq more
        /\ sum + Cardinality(more \ gone) <= dp[more][start]

(* A start that is as good as another and that the program does not leave  *)
(* out.                                                                    *)
LEMMA WorthStartingExists ==
    ASSUME NEW row, NEW start \in Nat \ {0}
    PROVE  \E j \in 1 .. start : row[j] = row[start] /\ (j = 1 \/ row[j] # row[j - 1])
<1> DEFINE T == {k \in 1 .. start : row[k] = row[start]
                                   /\ \A i \in k .. start : row[i] = row[start]}
<1>1. T \subseteq Nat /\ start \in T
  OBVIOUS
<1>2. PICK j \in T : \A k \in T : j <= k
  <2> HIDE DEF T
  <2>1. QED
    BY <1>1, LeastNumber
<1>3. ASSUME j # 1, row[j] = row[j - 1] PROVE FALSE
  <2>1. j - 1 \in 1 .. start
    BY <1>3
  <2>2. \A i \in j - 1 .. start : i = j - 1 \/ i \in j .. start
    OBVIOUS
  <2>3. j - 1 \in T
    BY <1>3, <2>1, <2>2
  <2>4. QED
    BY <1>2, <2>3
<1>4. QED
  BY <1>3

(* Numbers: lines that are out there only are made up for. *)
LEMMA MadeUpFor ==
    ASSUME NEW c \in Nat, NEW r \in Nat, NEW R \in Nat, NEW lost \in Nat, NEW lost1 \in Nat,
           NEW d \in Nat, NEW d1 \in Nat, c + lost <= d, r + lost1 <= R + lost, d + R <= d1
    PROVE  (c + r) + lost1 <= d1
OBVIOUS

(* One region on, the table counts a match that is at least as good. *)
LEMMA CountedStep ==
    ASSUME NEW route \in Seq(Seq(Blocks)), NEW dp \in Tables(route), NEW cr \in ConflictRegionType,
           NEW start \in DOMAIN route, NEW stop \in DOMAIN route, start <= stop,
           NEW gone, NEW sum \in Nat, Counted(dp, gone, start, sum)
    PROVE  LET urs == Passed(route, start, stop)
           IN /\ RegionOuts(cr, gone, urs) \in Nat
              /\ Counted(DpStep(dp, cr, route), OutAfter(cr, gone, urs), stop,
                         sum + RegionOuts(cr, gone, urs))
<1> DEFINE urs == Passed(route, start, stop)
           new == DpStep(dp, cr, route)
<1>1. PICK more \in DOMAIN dp :
          gone \subseteq more /\ sum + Cardinality(more \ gone) <= dp[more][start]
  BY DEF Counted
<1>2. IsFiniteSet(more) /\ dp[more] \in [DOMAIN route -> Nat]
  BY TableType DEF OutSets
<1>3. PICK j \in 1 .. start : /\ dp[more][j] = dp[more][start]
                             /\ (j = 1 \/ dp[more][j] # dp[more][j - 1])
  <2>1. start \in Nat \ {0}
    OBVIOUS
  <2>2. QED
    BY <2>1, WorthStartingExists
<1>4. j \in DOMAIN route /\ j <= start /\ j <= stop
  OBVIOUS
<1> DEFINE m == [out |-> more, from |-> j, upto |-> stop]
           longer == Passed(route, j, stop)
<1>5. m \in Matches(dp, route)
  BY <1>3, <1>4 DEF Matches, WorthStarting
<1>6. /\ OutAfter(cr, more, longer) \in DOMAIN new /\ new \in Tables(route)
      /\ dp[more][j] + RegionOuts(cr, more, longer) <= new[OutAfter(cr, more, longer)][stop]
  <2>1. /\ new \in Tables(route) /\ GoneAfter(cr, route, m) \in DOMAIN new
        /\ Total(dp, cr, route, m) <= new[GoneAfter(cr, route, m)][m.upto]
    <3> HIDE DEF m
    <3>1. QED
      BY <1>5, DpStepType
  <2>2. GoneAfter(cr, route, m) = OutAfter(cr, more, longer) /\ m.upto = stop
    BY DEF GoneAfter
  <2>3. Total(dp, cr, route, m) = dp[more][j] + RegionOuts(cr, more, longer)
    BY DEF Total
  <2> HIDE DEF m, new
  <2>4. QED
    BY <2>1, <2>2, <2>3
<1>7. urs \in Seq(Seq(Blocks)) /\ longer \in Seq(Seq(Blocks)) /\ IsEnd(urs, longer)
  BY <1>4, PassedType
<1> HIDE DEF m, longer, urs, new
<1> DEFINE n == OutAfter(cr, gone, urs)
           N == OutAfter(cr, more, longer)
           r == RegionOuts(cr, gone, urs)
           R == RegionOuts(cr, more, longer)
<1>8. /\ n \subseteq N /\ r \in Nat /\ R \in Nat
      /\ Cardinality(more \ gone) \in Nat /\ Cardinality(N \ n) \in Nat
      /\ r + Cardinality(N \ n) <= R + Cardinality(more \ gone)
  BY <1>1, <1>2, <1>7, MatchGrows
<1>9. dp[more][start] \in Nat /\ dp[more][j] = dp[more][start] /\ new[N][stop] \in Nat
  BY <1>2, <1>3, <1>6, TableType
<1> HIDE DEF n, N, r, R
<1>10. (sum + r) + Cardinality(N \ n) <= new[N][stop]
  <2>1. sum + Cardinality(more \ gone) <= dp[more][start]
    BY <1>1
  <2>2. dp[more][start] + R <= new[N][stop]
    BY <1>6, <1>9 DEF N, R
  <2> DEFINE lost == Cardinality(more \ gone)
             lost1 == Cardinality(N \ n)
             d == dp[more][start]
             d1 == new[N][stop]
  <2>3. /\ sum \in Nat /\ r \in Nat /\ R \in Nat /\ lost \in Nat /\ lost1 \in Nat
        /\ d \in Nat /\ d1 \in Nat
        /\ sum + lost <= d /\ r + lost1 <= R + lost /\ d + R <= d1
    BY <1>8, <1>9, <2>1, <2>2
  <2> HIDE DEF lost, lost1, d, d1
  <2>4. (sum + r) + lost1 <= d1
    BY ONLY <2>3, MadeUpFor
  <2>5. QED
    BY <2>4 DEF lost1, d1
<1>11. Counted(new, n, stop, sum + r)
  BY <1>6, <1>8, <1>10 DEF Counted, N
<1>12. QED
  BY <1>8, <1>11 DEF n, r, urs, new

(* A region more never takes anything away. *)
LEMMA TableGrows ==
    ASSUME NEW route \in Seq(Seq(Blocks)), NEW dp \in Tables(route), NEW cr \in ConflictRegionType,
           NEW k \in DOMAIN route, NEW v \in Nat, NEW o \in DOMAIN dp, v <= dp[o][k]
    PROVE  \E o1 \in DOMAIN DpStep(dp, cr, route) : v <= DpStep(dp, cr, route)[o1][k]
<1> DEFINE urs == Passed(route, k, k)
           new == DpStep(dp, cr, route)
           r == RegionOuts(cr, o, urs)
<1>1. k <= k /\ dp[o][k] \in Nat
  BY TableType
<1>2. Counted(dp, o, k, v)
  <2>1. Cardinality(o \ o) = 0
    BY FS_EmptySet
  <2>2. o \subseteq o /\ v + Cardinality(o \ o) <= dp[o][k]
    BY <1>1, <2>1
  <2>3. QED
    BY <2>2, Zenon DEF Counted
<1>3. r \in Nat /\ Counted(new, OutAfter(cr, o, urs), k, v + r)
  BY <1>1, <1>2, CountedStep
<1> HIDE DEF r, urs, new
<1>4. PICK o1 \in DOMAIN new : /\ OutAfter(cr, o, urs) \subseteq o1
                               /\ (v + r) + Cardinality(o1 \ OutAfter(cr, o, urs)) <= new[o1][k]
  BY <1>3 DEF Counted
<1>5. new \in Tables(route)
  BY DpStepType DEF new
<1>6. new[o1][k] \in Nat /\ IsFiniteSet(o1)
  BY <1>5, TableType DEF OutSets
<1>7. Cardinality(o1 \ OutAfter(cr, o, urs)) \in Nat
  BY <1>6, FS_Difference, FS_CardinalityType
<1>8. v <= new[o1][k]
  BY <1>3, <1>4, <1>6, <1>7
<1>9. QED
  BY <1>8 DEF new

-----------------------------------------------------------------------------
(* The tables of DpMaxOutNumber, one after the other. *)
NoTable(route) == [o \in {{}} |-> [k \in DOMAIN route |-> 0]]

IsDp(dp, regions, route) ==
    dp = [r \in 0 .. Len(regions) |->
             IF r = 0 THEN NoTable(route) ELSE DpStep(dp[r - 1], regions[r], route)]

Dp(regions, route) == CHOOSE dp : IsDp(dp, regions, route)

(* The first table. *)
LEMMA NoTableType ==
    ASSUME NEW route
    PROVE  NoTable(route) \in Tables(route)
<1>1. IsFiniteSet({{}}) /\ IsFiniteSet({})
  BY FS_EmptySet, FS_Singleton
<1>2. {{}} \in OutSets
  BY <1>1 DEF OutSets
<1>3. DOMAIN NoTable(route) = {{}} /\ NoTable(route) = [o \in DOMAIN NoTable(route) |-> NoTable(route)[o]]
  BY DEF NoTable
<1>4. \A o \in {{}} : NoTable(route)[o] \in [DOMAIN route -> Nat]
  BY DEF NoTable
<1>5. /\ DOMAIN NoTable(route) \in OutSets
      /\ \A o \in DOMAIN NoTable(route) : NoTable(route)[o] \in [DOMAIN route -> Nat]
  BY <1>2, <1>3, <1>4
<1>6. QED
  BY <1>3, <1>5, TableType, Zenon

(* The tables, one after the other. *)
LEMMA DpIs ==
    ASSUME NEW regions \in Seq(ConflictRegionType), NEW route \in Seq(Seq(Blocks))
    PROVE  /\ Dp(regions, route)[0] = NoTable(route)
           /\ \A r \in 0 .. Len(regions) : Dp(regions, route)[r] \in Tables(route)
           /\ \A r \in 1 .. Len(regions) :
                  Dp(regions, route)[r] = DpStep(Dp(regions, route)[r - 1], regions[r], route)
<1> DEFINE n == Len(regions)
           S == Tables(route)
           base == NoTable(route)
           F == [r \in 1 .. n |-> [v \in S |-> DpStep(v, regions[r], route)]]
           dp == Dp(regions, route)
           T == {r \in 0 .. n : dp[r] \in S}
<1>1. n \in Nat /\ \A r \in 1 .. n : regions[r] \in ConflictRegionType
  OBVIOUS
<1>2. base \in S
  BY NoTableType
<1>3. \A r \in 1 .. n : \A v \in S : DpStep(v, regions[r], route) \in S
  BY <1>1, DpStepType
<1> HIDE DEF n, S, base
<1>4. \E g : IsDp(g, regions, route)
  <2>1. F \in [1 .. n -> [S -> S]]
    BY <1>3
  <2> HIDE DEF F
  <2>2. \E g : Recursive(g, n, S, base, F)
    BY <1>1, <1>2, <2>1, Recursion, Zenon
  <2> PICK g : Recursive(g, n, S, base, F)
    BY <2>2
  <2>3. /\ g = [r \in 0 .. n |-> g[r]] /\ g[0] = base
        /\ \A r \in 1 .. n : g[r - 1] \in S /\ g[r] = F[r][g[r - 1]]
    BY DEF Recursive
  <2>4. \A r \in 1 .. n : g[r] = DpStep(g[r - 1], regions[r], route)
    BY <2>3 DEF F
  <2>5. \A r \in 0 .. n : g[r] = IF r = 0 THEN base ELSE DpStep(g[r - 1], regions[r], route)
    BY <1>1, <2>3, <2>4, UpToOrZero
  <2>6. IsDp(g, regions, route)
    BY <2>3, <2>5 DEF IsDp, n, base
  <2>7. QED
    BY <2>6
<1>5. IsDp(dp, regions, route)
  BY <1>4 DEF Dp
<1> HIDE DEF dp
<1>6. dp[0] = base /\ \A r \in 1 .. n : dp[r] = DpStep(dp[r - 1], regions[r], route)
  <2>1. \A r \in 0 .. n : dp[r] = IF r = 0 THEN base ELSE DpStep(dp[r - 1], regions[r], route)
    BY <1>5, Zenon DEF IsDp, n, base
  <2>2. QED
    BY <1>1, <2>1, UpToOrZero
<1>7. \A r \in 0 .. n : r \in T
  <2>1. 0 \in T
    BY <1>1, <1>2, <1>6
  <2>2. \A r \in 1 .. n : r - 1 \in T => r \in T
    BY <1>1, <1>3, <1>6, UpToOrZero
  <2> HIDE DEF T
  <2>3. QED
    BY <1>1, <2>1, <2>2, Upward
<1>8. QED
  BY <1>6, <1>7 DEF n, S, base, dp

(* The number returned is the greatest of the last table. *)
LEMMA DpMaxIs ==
    ASSUME NEW regions, NEW route
    PROVE  DpMaxOutNumber(regions, route) =
               Max(UNION {Range(Dp(regions, route)[Len(regions)][o]) : o \in DOMAIN Dp(regions, route)[Len(regions)]})
BY Zenon DEF DpMaxOutNumber, Dp, IsDp, NoTable

(* What a table counts anywhere is within the number returned. *)
LEMMA DpMaxBounds ==
    ASSUME NEW regions \in Seq(ConflictRegionType), NEW route \in Seq(Seq(Blocks)),
           NEW r \in 0 .. Len(regions), NEW o \in DOMAIN Dp(regions, route)[r],
           NEW k \in DOMAIN route, NEW v \in Nat, v <= Dp(regions, route)[r][o][k]
    PROVE  v <= DpMaxOutNumber(regions, route)
<1> DEFINE n == Len(regions)
           dp == Dp(regions, route)
           T == {i \in 0 .. n - r : \E o1 \in DOMAIN dp[r + i] : v <= dp[r + i][o1][k]}
           all == UNION {Range(dp[n][o1]) : o1 \in DOMAIN dp[n]}
<1>1. /\ n \in Nat /\ n - r \in Nat /\ r \in Nat
      /\ \A i \in 1 .. n : regions[i] \in ConflictRegionType
  OBVIOUS
<1>2. /\ \A i \in 0 .. n : dp[i] \in Tables(route)
      /\ \A i \in 1 .. n : dp[i] = DpStep(dp[i - 1], regions[i], route)
  BY DpIs
<1>3. DpMaxOutNumber(regions, route) = Max(all)
  BY DpMaxIs
<1>4. v <= dp[r][o][k] /\ o \in DOMAIN dp[r]
  OBVIOUS
<1> HIDE DEF dp, n
<1>5. 0 \in T
  <2>1. r + 0 = r /\ 0 \in 0 .. n - r
    BY <1>1
  <2>2. QED
    BY <1>4, <2>1
<1>6. ASSUME NEW i \in 1 .. n - r, i - 1 \in T PROVE i \in T
  <2> DEFINE e == r + i
  <2>1. e \in 1 .. n /\ e - 1 = r + (i - 1) /\ e - 1 \in 0 .. n /\ i \in 0 .. n - r
    BY <1>1
  <2> HIDE DEF e
  <2>2. PICK o1 \in DOMAIN dp[e - 1] : v <= dp[e - 1][o1][k]
    BY <1>6, <2>1
  <2>3. dp[e - 1] \in Tables(route) /\ regions[e] \in ConflictRegionType
        /\ dp[e] = DpStep(dp[e - 1], regions[e], route)
    BY <1>1, <1>2, <2>1
  <2>4. \E o2 \in DOMAIN dp[e] : v <= dp[e][o2][k]
    BY <2>2, <2>3, TableGrows
  <2>5. QED
    BY <2>1, <2>4 DEF e
<1>7. PICK last \in DOMAIN dp[n] : v <= dp[n][last][k]
  <2>1. n - r \in T
    <3> HIDE DEF T
    <3>1. QED
      BY <1>1, <1>5, <1>6, UpwardTo
  <2>2. r + (n - r) = n
    BY <1>1
  <2>3. QED
    BY <2>1, <2>2
<1>8. /\ IsFiniteSet(DOMAIN dp[n]) /\ \A o1 \in DOMAIN dp[n] : dp[n][o1] \in [DOMAIN route -> Nat]
  <2>1. n \in 0 .. n
    BY <1>1
  <2>2. dp[n] \in Tables(route)
    BY <1>2, <2>1
  <2>3. QED
    BY <2>2, TableType DEF OutSets
<1>9. IsFiniteSet(all) /\ all \subseteq Int /\ dp[n][last][k] \in all
  <2> DEFINE f == [o1 \in DOMAIN dp[n] |-> Range(dp[n][o1])]
             parts == {f[o1] : o1 \in DOMAIN dp[n]}
  <2>1. IsFiniteSet(parts)
    <3> HIDE DEF f
    <3>1. QED
      BY <1>8, FiniteImage
  <2>2. \A o1 \in DOMAIN dp[n] : IsFiniteSet(Range(dp[n][o1])) /\ Range(dp[n][o1]) \subseteq Nat
    <3> TAKE o1 \in DOMAIN dp[n]
    <3>1. dp[n][o1] \in [DOMAIN route -> Nat]
      BY <1>8
    <3> DEFINE row == dp[n][o1]
    <3> HIDE DEF row
    <3>2. IsFiniteSet(DOMAIN route)
      BY FS_Interval
    <3>3. IsFiniteSet({row[x] : x \in DOMAIN route})
      BY <3>2, FiniteImage
    <3>4. row \in [DOMAIN route -> Nat]
      BY <3>1 DEF row
    <3>5. IsFiniteSet(Range(row)) /\ Range(row) \subseteq Nat
      BY <3>3, <3>4 DEF Range
    <3>6. QED
      BY <3>5 DEF row
  <2>3. all = UNION parts /\ \A part \in parts : IsFiniteSet(part)
    BY <2>2
  <2>4. IsFiniteSet(all)
    <3> HIDE DEF all, parts
    <3>1. QED
      BY <2>1, <2>3, FS_UNION
  <2>5. dp[n][last][k] \in Range(dp[n][last])
    <3>1. dp[n][last] \in [DOMAIN route -> Nat]
      BY <1>8
    <3>2. QED
      BY <3>1 DEF Range
  <2>6. QED
    BY <2>2, <2>4, <2>5
<1> HIDE DEF all
<1>10. \E m \in all : \A x \in all : x <= m
  BY <1>9, GreatestNumber
<1>11. Max(all) \in all /\ \A x \in all : Max(all) >= x
  BY <1>9, <1>10 DEF Max
<1>12. v <= Max(all)
  <2>1. Max(all) >= dp[n][last][k] /\ Max(all) \in Int /\ dp[n][last][k] \in Int
    BY <1>9, <1>11
  <2>2. QED
    BY <1>7, <2>1
<1>13. QED
  BY <1>3, <1>12

CtxMI(t) == [mi : Instructions(t), sites : Seq(DOMAIN t.callees)]

-----------------------------------------------------------------------------
(* The instructions of a task. *)

(* An instruction with its call sites. *)
LEMMA CtxType ==
    ASSUME NEW t, NEW mi \in Instructions(t), NEW sites \in Seq(DOMAIN t.callees)
    PROVE  Ctx(mi, sites) \in CtxMI(t)
BY DEF Ctx, CtxMI

(* A sequence without its last element, and that element. *)
LEMMA FrontLast ==
    ASSUME NEW S, NEW c \in Seq(S), c # <<>>
    PROVE  Front(c) \in Seq(S) /\ Last(c) \in S
<1>1. Len(c) \in Nat \ {0} /\ c = [i \in 1 .. Len(c) |-> c[i]]
  OBVIOUS
<1>2. Front(c) = [i \in 1 .. Len(c) - 1 |-> c[i]]
  BY <1>1 DEF Front
<1>3. \A i \in 1 .. Len(c) - 1 : c[i] \in S
  BY <1>1
<1>4. Len(c) - 1 \in Nat
  BY <1>1
<1>5. QED
  BY <1>1, <1>2, <1>3, <1>4, IsASeq DEF Last

(* The first instruction of a block. *)
LEMMA FirstType ==
    ASSUME NEW t, IsTask(t), NEW b \in DOMAIN t.blocks
    PROVE  First(t, b) \in Instructions(t)
<1>1. t.blocks[b] \in Seq(Nat) \ {<<>>}
  BY DEF IsTask
<1>2. 1 \in DOMAIN t.blocks[b]
  BY <1>1
<1>3. QED
  BY <1>2 DEF First, Instructions, Range

(* The block of an instruction. *)
LEMMA BlockOfType ==
    ASSUME NEW t, NEW mi \in Instructions(t)
    PROVE  BlockOf(t, mi) \in DOMAIN t.blocks /\ mi \in Range(t.blocks[BlockOf(t, mi)])
<1>1. \E b \in DOMAIN t.blocks : mi \in Range(t.blocks[b])
  BY DEF Instructions
<1>2. QED
  BY <1>1 DEF BlockOf

(* The next instruction of the same block. *)
LEMMA AfterType ==
    ASSUME NEW t, IsTask(t), NEW mi \in Instructions(t), mi # Last(t.blocks[BlockOf(t, mi)])
    PROVE  After(t, mi) \in Instructions(t)
<1> DEFINE b == BlockOf(t, mi)
           code == t.blocks[b]
           i == CHOOSE i \in DOMAIN code : code[i] = mi
<1>1. b \in DOMAIN t.blocks /\ mi \in Range(code)
  BY BlockOfType
<1>2. code \in Seq(Nat)
  BY <1>1 DEF IsTask
<1>3. i \in DOMAIN code /\ code[i] = mi
  BY <1>1 DEF Range
<1>4. code[Len(code)] # mi
  BY DEF Last
<1> HIDE DEF i
<1>5. 1 + i \in DOMAIN code
  <2> HIDE DEF code
  <2>1. QED
    BY <1>2, <1>3, <1>4
<1>6. After(t, mi) = code[1 + i]
  BY DEF After, i
<1>7. QED
  BY <1>1, <1>5, <1>6 DEF Instructions, Range

(* The instruction a task starts with. *)
LEMMA StartType ==
    ASSUME NEW t, IsTask(t)
    PROVE  Start(t) \in CtxMI(t)
<1>1. 1 \in DOMAIN t.blocks
  BY DEF IsTask
<1>2. <<>> \in Seq(DOMAIN t.callees)
  BY EmptySeq
<1>3. QED
  BY <1>1, <1>2, FirstType, CtxType DEF Start

(* What comes after an instruction of a task are instructions of the task. *)
LEMMA SuccType ==
    ASSUME NEW t, IsTask(t), NEW cm \in CtxMI(t)
    PROVE  Succ(t, cm) \in Seq(CtxMI(t))
<1> DEFINE S == CtxMI(t)
           mi == cm.mi
           sites == cm.sites
           b == BlockOf(t, mi)
           calls == DOMAIN t.callees
           into == [i \in DOMAIN t.callees[mi] |->
                       Ctx(First(t, t.callees[mi][i]), Append(sites, mi))]
           to == [i \in DOMAIN t.next[b] |-> Ctx(First(t, t.next[b][i]), sites)]
           back == <<Ctx(After(t, Last(sites)), Front(sites))>>
           on == <<Ctx(After(t, mi), sites)>>
<1>1. mi \in Instructions(t) /\ sites \in Seq(calls) /\ b \in DOMAIN t.blocks
  BY BlockOfType DEF CtxMI
<1>2. CASE mi \in calls
  <2>1. mi \notin t.returns /\ t.callees[mi] \in Seq(DOMAIN t.blocks)
    BY <1>2 DEF IsTask
  <2>2. Append(sites, mi) \in Seq(calls)
    BY <1>1, <1>2, AppendProperties
  <2>3. \A i \in 1 .. Len(t.callees[mi]) :
            Ctx(First(t, t.callees[mi][i]), Append(sites, mi)) \in S
    BY <2>1, <2>2, FirstType, CtxType
  <2>4. into \in Seq(S)
    BY <2>1, <2>3, IsASeq
  <2>5. Succ(t, cm) = into
    BY <1>2, <2>1 DEF Succ
  <2>6. QED
    BY <2>4, <2>5
<1>3. CASE mi \in t.returns
  <2>1. mi \notin calls
    BY <1>3 DEF IsTask
  <2>2. CASE sites = <<>>
    <3>1. Succ(t, cm) = <<>>
      BY <1>3, <2>1, <2>2 DEF Succ
    <3>2. QED
      BY <3>1, EmptySeq
  <2>3. CASE sites # <<>>
    <3>1. Front(sites) \in Seq(calls) /\ Last(sites) \in calls
      BY <1>1, <2>3, FrontLast
    <3>2. After(t, Last(sites)) \in Instructions(t)
      BY <3>1, AfterType DEF IsTask
    <3>3. back \in Seq(S)
      BY <3>1, <3>2, CtxType
    <3>4. Succ(t, cm) = back
      BY <1>3, <2>1, <2>3 DEF Succ
    <3>5. QED
      BY <3>3, <3>4
  <2>4. QED
    BY <2>2, <2>3
<1>4. CASE mi \notin calls \cup t.returns /\ mi = Last(t.blocks[b])
  <2>1. t.next[b] \in Seq(DOMAIN t.blocks)
    BY <1>1 DEF IsTask
  <2>2. \A i \in 1 .. Len(t.next[b]) : Ctx(First(t, t.next[b][i]), sites) \in S
    BY <1>1, <2>1, FirstType, CtxType
  <2>3. to \in Seq(S)
    BY <2>1, <2>2, IsASeq
  <2>4. Succ(t, cm) = to
    BY <1>4 DEF Succ
  <2>5. QED
    BY <2>3, <2>4
<1>5. CASE mi \notin calls \cup t.returns /\ mi # Last(t.blocks[b])
  <2>1. After(t, mi) \in Instructions(t)
    BY <1>1, <1>5, AfterType
  <2>2. on \in Seq(S)
    BY <1>1, <2>1, CtxType
  <2>3. Succ(t, cm) = on
    BY <1>5 DEF Succ
  <2>4. QED
    BY <2>2, <2>3
<1>6. QED
  BY <1>2, <1>3, <1>4, <1>5

-----------------------------------------------------------------------------
(* Unvisited keeps the instructions that are not visited, and no other. *)

IsFound(found, cms, visited, n) ==
    found = [i \in 0 .. n |->
                IF i = 0 THEN <<>>
                ELSE IF cms[i] \in visited THEN found[i - 1]
                ELSE Append(found[i - 1], cms[i])]

(* The list that Unvisited makes exists. *)
LEMMA FoundExists ==
    ASSUME NEW cms, NEW visited, NEW n \in Nat
    PROVE  \E found : IsFound(found, cms, visited, n)
<1> DEFINE Next1(v, i) == IF cms[i] \in visited THEN v ELSE Append(v, cms[i])
           Is(g, m) == IsFound(g, cms, visited, m)
           T == {m \in Nat : ~ \E g : Is(g, m)}
<1>1. ASSUME NEW g, NEW m PROVE
         Is(g, m) <=> g = [i \in 0 .. m |-> IF i = 0 THEN <<>> ELSE Next1(g[i - 1], i)]
  BY DEF IsFound
<1> HIDE DEF Next1, Is
<1>2. SUFFICES ASSUME T # {} PROVE FALSE
  BY DEF Is
<1>3. PICK m \in T : \A k \in T : m <= k
  <2>1. T \subseteq Nat
    OBVIOUS
  <2>2. QED
    BY <1>2, <2>1, LeastNumber
<1>4. CASE m = 0
  <2> DEFINE g == [i \in 0 .. 0 |-> <<>>]
  <2>1. g = [i \in 0 .. 0 |-> IF i = 0 THEN <<>> ELSE Next1(g[i - 1], i)]
    OBVIOUS
  <2>2. QED
    BY <1>1, <1>4, <2>1
<1>5. CASE m # 0
  <2>1. m - 1 \in Nat /\ m - 1 \notin T
    BY <1>3, <1>5
  <2>2. PICK g : Is(g, m - 1)
    BY <2>1
  <2>3. g = [i \in 0 .. m - 1 |-> IF i = 0 THEN <<>> ELSE Next1(g[i - 1], i)]
    BY <1>1, <2>2
  <2> DEFINE h == [i \in 0 .. m |-> IF i = m THEN Next1(g[m - 1], m) ELSE g[i]]
  <2>4. ASSUME NEW i \in 0 .. m
        PROVE  h[i] = IF i = 0 THEN <<>> ELSE Next1(h[i - 1], i)
    <3>1. CASE i = 0
      BY <1>5, <2>3, <3>1
    <3>2. CASE i # 0
      <4>1. i - 1 \in 0 .. m /\ i - 1 # m
        BY <3>2
      <4>2. h[i - 1] = g[i - 1]
        BY <4>1
      <4>3. h[i] = Next1(g[i - 1], i)
        BY <2>3, <3>2
      <4>4. QED
        BY <3>2, <4>2, <4>3
    <3>3. QED
      BY <3>1, <3>2
  <2>5. h = [i \in 0 .. m |-> IF i = 0 THEN <<>> ELSE Next1(h[i - 1], i)]
    BY <2>4
  <2>6. Is(h, m)
    BY <1>1, <2>5
  <2>7. QED
    BY <1>3, <2>6
<1>6. QED
  BY <1>4, <1>5

(* The instructions up to the i-th that are not visited are listed. *)
Lists(list, cms, visited, S, i) ==
    /\ list \in Seq(S)
    /\ \A k \in DOMAIN list : list[k] \notin visited
    /\ \A j \in 1 .. i : cms[j] \notin visited => \E k \in DOMAIN list : list[k] = cms[j]

(* One more instruction is looked at. *)
LEMMA ListsStep ==
    ASSUME NEW S, NEW cms \in Seq(S), NEW visited, NEW i \in 1 .. Len(cms), NEW list,
           Lists(list, cms, visited, S, i - 1)
    PROVE  Lists(IF cms[i] \in visited THEN list ELSE Append(list, cms[i]),
                 cms, visited, S, i)
<1>1. \A j \in 1 .. i : j = i \/ j \in 1 .. i - 1
  OBVIOUS
<1>2. CASE cms[i] \in visited
  BY <1>1, <1>2 DEF Lists
<1>3. CASE cms[i] \notin visited
  <2> DEFINE longer == Append(list, cms[i])
  <2>1. cms[i] \in S /\ list \in Seq(S)
    BY DEF Lists
  <2>2. /\ longer \in Seq(S) /\ DOMAIN longer = 1 .. Len(list) + 1
        /\ \A k \in DOMAIN list : k \in DOMAIN longer /\ longer[k] = list[k]
        /\ longer[Len(list) + 1] = cms[i] /\ Len(list) + 1 \in DOMAIN longer
        /\ \A k \in DOMAIN longer : k \in DOMAIN list \/ k = Len(list) + 1
    BY <2>1
  <2> HIDE DEF longer
  <2>3. \A k \in DOMAIN longer : longer[k] \notin visited
    BY <1>3, <2>2 DEF Lists
  <2>4. ASSUME NEW j \in 1 .. i, cms[j] \notin visited
        PROVE  \E k \in DOMAIN longer : longer[k] = cms[j]
    BY <1>1, <2>2, <2>4 DEF Lists
  <2>5. Lists(longer, cms, visited, S, i)
    BY <2>2, <2>3, <2>4 DEF Lists
  <2>6. QED
    BY <1>3, <2>5 DEF longer
<1>4. QED
  BY <1>2, <1>3

(* Unvisited lists the elements that are not visited. *)
LEMMA UnvisitedLists ==
    ASSUME NEW S, NEW cms \in Seq(S), NEW visited
    PROVE  Lists(Unvisited(cms, visited), cms, visited, S, Len(cms))
<1> DEFINE n == Len(cms)
           found == CHOOSE g : IsFound(g, cms, visited, n)
           T == {i \in 0 .. n : ~Lists(found[i], cms, visited, S, i)}
<1>1. Unvisited(cms, visited) = found[n]
  BY Zenon DEF Unvisited, IsFound
<1>2. n \in Nat
  OBVIOUS
<1>3. IsFound(found, cms, visited, n)
  <2> HIDE DEF n
  <2>1. \E g : IsFound(g, cms, visited, n)
    BY <1>2, FoundExists
  <2>2. QED
    BY <2>1
<1> HIDE DEF found
<1>4. ASSUME NEW i \in 0 .. n
      PROVE  found[i] = IF i = 0 THEN <<>>
                        ELSE IF cms[i] \in visited THEN found[i - 1]
                        ELSE Append(found[i - 1], cms[i])
  BY <1>3 DEF IsFound
<1>5. SUFFICES ASSUME T # {} PROVE FALSE
  BY <1>1, <1>2
<1>6. PICK m \in T : \A k \in T : m <= k
  <2>1. T \subseteq Nat
    BY <1>2
  <2>2. QED
    BY <1>5, <2>1, LeastNumber
<1>7. m # 0
  <2>1. found[0] = <<>>
    BY <1>2, <1>4
  <2>2. Lists(<<>>, cms, visited, S, 0)
    BY EmptySeq DEF Lists
  <2>3. QED
    BY <2>1, <2>2
<1>8. m \in 1 .. n /\ m - 1 \in 0 .. n /\ m - 1 \notin T
  BY <1>2, <1>6, <1>7
<1>9. Lists(found[m - 1], cms, visited, S, m - 1)
  BY <1>8
<1>10. Lists(found[m], cms, visited, S, m)
  BY <1>4, <1>7, <1>8, <1>9, ListsStep
<1>11. QED
  BY <1>10

-----------------------------------------------------------------------------
(* The invariant of the search. *)

Visits(t) == [entry : CtxMI(t), expanded : BOOLEAN]

TarjanTypes ==
    /\ task \in Tasks
    /\ dfncnt \in Nat
    /\ DOMAIN low = DOMAIN dfn
    /\ \A m \in DOMAIN dfn : dfn[m] \in Nat \ {0} /\ low[m] \in Nat \ {0}
    /\ in_stack \subseteq DOMAIN dfn
    /\ ur_stack \in Seq(CtxMI(task))
    /\ stack \in Seq(Visits(task))

(* What is visited has a region or waits for one. *)
VisitedIsKept == DOMAIN dfn = DOMAIN mi_ur \cup Range(ur_stack)

(* What comes after it is visited or will be. *)
SuccessorsFound ==
    \A m \in DOMAIN dfn : \A s \in Range(Succ(task, m)) :
        s \in DOMAIN dfn \/ \E i \in DOMAIN stack : stack[i] = ToDo(s)

(* What comes after the instruction of a visit to be finished is visited   *)
(* or will be before.                                                      *)
SuccessorsBefore ==
    \A i \in DOMAIN stack : \A s \in Range(Succ(task, stack[i].entry)) :
        stack[i].expanded /\ s \notin DOMAIN dfn => \E h \in 1 .. i - 1 : stack[h] = ToDo(s)

(* The instruction of a visit to be finished is on ur_stack, *)
Open ==
    \A i \in DOMAIN stack : stack[i].expanded =>
        \E k \in DOMAIN ur_stack : ur_stack[k] = stack[i].entry

(* those of the visits to be finished before come before it there, and no  *)
(* visit to come before is one of the same instruction.                    *)
Nested ==
    \A j \in DOMAIN stack : \A i \in 1 .. j - 1 : stack[j].expanded =>
        IF stack[i].expanded
        THEN \A k \in DOMAIN ur_stack : ur_stack[k] = stack[j].entry =>
                 \E l \in 1 .. k - 1 : ur_stack[l] = stack[i].entry
        ELSE stack[i].entry # stack[j].entry

(* The visit of the first instruction is the last to be finished. *)
StartIsLast ==
    LET n == Len(stack)
        start == Start(task)
    IN /\ stack = <<>> => ur_stack = <<>> /\ start \in DOMAIN dfn
       /\ stack # <<>> => stack[n].entry = start
       /\ stack # <<>> /\ ~stack[n].expanded =>
              n = 1 /\ dfn = <<>> /\ dfncnt = 0 /\ ur_stack = <<>>
       /\ stack # <<>> /\ stack[n].expanded =>
              /\ dfn[start] = 1 /\ low[start] = 1
              /\ \A k \in DOMAIN ur_stack : ur_stack[k] = start <=> k = Len(ur_stack)

TarjanInv ==
    /\ TarjanTypes
    /\ VisitedIsKept
    /\ SuccessorsFound
    /\ SuccessorsBefore
    /\ Open
    /\ Nested
    /\ StartIsLast
    /\ Collected => stack = <<>>

(* When a visit is finished, what comes after its instruction has been     *)
(* visited: the branch of tarjan_it for an instruction that has not is     *)
(* never taken.                                                            *)
FinishedAfterSuccessors ==
    stack # <<>> /\ stack[1].expanded =>
        Range(Succ(task, stack[1].entry)) \subseteq DOMAIN dfn

(* When collectUrInfo looks the regions up, the first instruction has one, *)
(* and so has every instruction that comes after one that has.             *)
EveryInstructionHasRegion ==
    Collected =>
        /\ Start(task) \in DOMAIN mi_ur
        /\ \A m \in DOMAIN mi_ur : Range(Succ(task, m)) \subseteq DOMAIN mi_ur

-----------------------------------------------------------------------------
(* It holds at first. *)
LEMMA TarjanInit == URInit => TarjanInv
<1> SUFFICES ASSUME URInit PROVE TarjanInv
  OBVIOUS
<1>1. task \in Tasks /\ IsTask(task)
  BY TasksAssumption DEF URInit
<1>2. ToDo(Start(task)) \in Visits(task)
  BY <1>1, StartType DEF ToDo, Visits
<1>3. stack = <<ToDo(Start(task))>> /\ ur_stack = <<>> /\ dfn = <<>> /\ low = <<>>
  BY DEF URInit
<1>4. /\ stack \in Seq(Visits(task)) /\ stack # <<>>
      /\ Len(stack) = 1 /\ stack[1] = ToDo(Start(task))
  BY <1>2, <1>3
<1>5. DOMAIN dfn = {} /\ DOMAIN low = {} /\ DOMAIN mi_ur = {} /\ DOMAIN ur_stack = {}
  BY <1>3 DEF URInit
<1>6. TarjanTypes
  BY <1>1, <1>3, <1>4, <1>5, EmptySeq DEF TarjanTypes, URInit
<1>7. VisitedIsKept /\ SuccessorsFound /\ SuccessorsBefore /\ Open
  BY <1>4, <1>5 DEF VisitedIsKept, SuccessorsFound, SuccessorsBefore, Open, Range, ToDo
<1>8. Nested
  BY <1>4 DEF Nested
<1>9. StartIsLast
  BY <1>3, <1>4 DEF StartIsLast, ToDo, URInit
<1>10. ~Collected
  BY DEF URInit, Collected
<1>11. QED
  BY <1>6, <1>7, <1>8, <1>9, <1>10 DEF TarjanInv

(* What Visit does to the two stacks. *)
LEMMA VisitStacks ==
    ASSUME TarjanInv, Visit
    PROVE  \E found :
        LET cm == stack[1].entry
            F == Len(found)
        IN /\ IsTask(task) /\ cm \in CtxMI(task) /\ ~stack[1].expanded
           /\ stack # <<>> /\ Len(stack) \in Nat \ {0}
           /\ Lists(found, Succ(task, cm), DOMAIN dfn \cup {cm}, CtxMI(task), Len(Succ(task, cm)))
           /\ stack' \in Seq(Visits(task)) /\ Len(stack') = F + Len(stack) /\ F \in Nat
           /\ \A i \in 1 .. F : stack'[i] = ToDo(found[i])
           /\ stack'[F + 1] = ToFinish(cm)
           /\ \A i \in 2 .. Len(stack) : stack'[F + i] = stack[i]
           /\ ur_stack' \in Seq(CtxMI(task)) /\ Len(ur_stack') = Len(ur_stack) + 1
           /\ Len(ur_stack) \in Nat
           /\ ur_stack'[1] = cm
           /\ \A k \in 1 .. Len(ur_stack) : ur_stack'[k + 1] = ur_stack[k]
<1> DEFINE S == CtxMI(task)
           V == Visits(task)
           cm == stack[1].entry
           succ == Succ(task, cm)
           found == Unvisited(succ, DOMAIN dfn \cup {cm})
           F == Len(found)
           todo == [i \in DOMAIN found |-> ToDo(found[i])]
           one == <<ToFinish(cm)>>
           rest == Tail(stack)
<1>1. /\ IsTask(task) /\ stack \in Seq(V) /\ ur_stack \in Seq(S)
  BY TasksAssumption DEF TarjanInv, TarjanTypes
<1>2. stack # <<>> /\ Head(stack) = stack[1] /\ Len(stack) \in Nat \ {0} /\ stack[1] \in V
  BY <1>1 DEF Visit
<1>3. cm \in S
  BY <1>2 DEF Visits
<1>4. succ \in Seq(S)
  BY <1>1, <1>3, SuccType
<1>5. Lists(found, succ, DOMAIN dfn \cup {cm}, S, Len(succ))
  BY <1>4, UnvisitedLists
<1>6. found \in Seq(S)
  BY <1>5 DEF Lists
<1> HIDE DEF found, succ
<1>7. F \in Nat /\ DOMAIN found = 1 .. F /\ \A i \in 1 .. F : found[i] \in S
  <2> HIDE DEF S
  <2>1. QED
    BY <1>6
<1>8. \A i \in 1 .. F : ToDo(found[i]) \in V
  BY <1>7 DEF ToDo, Visits
<1>9. todo \in Seq(V) /\ Len(todo) = F
  <2> HIDE DEF V, F, found
  <2>1. todo = [i \in 1 .. F |-> ToDo(found[i])]
    BY <1>7
  <2>2. QED
    BY <1>7, <1>8, <2>1, IsASeq
<1>10. one \in Seq(V) /\ Len(one) = 1 /\ one[1] = ToFinish(cm)
  BY <1>3 DEF ToFinish, Visits
<1>11. rest \in Seq(V) /\ Len(rest) = Len(stack) - 1
       /\ \A i \in 1 .. Len(stack) - 1 : rest[i] = stack[i + 1]
  BY <1>1, <1>2, HeadTailProperties
<1>12. stack' = todo \o one \o rest /\ ur_stack' = <<cm>> \o ur_stack
       /\ ~stack[1].expanded
  BY <1>2 DEF Visit, found, succ
<1>13. \A i \in 1 .. F : todo[i] = ToDo(found[i])
  BY <1>7
<1> HIDE DEF todo, one, rest, F, V, S
<1> DEFINE front == todo \o one
<1>14. /\ front \in Seq(V) /\ Len(front) = F + 1
       /\ \A i \in 1 .. F + 1 : front[i] = IF i <= F THEN todo[i] ELSE one[i - F]
  <2>1. /\ front \in Seq(V) /\ Len(front) = Len(todo) + Len(one)
        /\ \A i \in 1 .. Len(todo) + Len(one) :
               front[i] = IF i <= Len(todo) THEN todo[i] ELSE one[i - Len(todo)]
    BY <1>9, <1>10, ConcatProperties
  <2> HIDE DEF front
  <2>2. QED
    BY <1>9, <1>10, <2>1
<1>15. (\A i \in 1 .. F : front[i] = ToDo(found[i])) /\ front[F + 1] = ToFinish(cm)
  <2> HIDE DEF front
  <2>1. ASSUME NEW i \in 1 .. F PROVE front[i] = ToDo(found[i])
    <3>1. i \in 1 .. F + 1 /\ i <= F
      BY <1>7
    <3>2. QED
      BY <1>13, <1>14, <3>1
  <2>2. F + 1 \in 1 .. F + 1 /\ ~ F + 1 <= F /\ F + 1 - F = 1
    BY <1>7
  <2>3. front[F + 1] = one[1]
    BY <1>7, <1>14, <2>2
  <2>4. QED
    BY <1>10, <2>1, <2>3
<1> HIDE DEF front
<1>16. /\ stack' \in Seq(V) /\ Len(stack') = F + Len(stack)
       /\ \A i \in 1 .. F + Len(stack) :
              stack'[i] = IF i <= F + 1 THEN front[i] ELSE rest[i - (F + 1)]
  <2>1. stack' = front \o rest
    BY <1>12 DEF front
  <2>2. /\ stack' \in Seq(V) /\ Len(stack') = Len(front) + Len(rest)
        /\ \A i \in 1 .. Len(front) + Len(rest) :
               stack'[i] = IF i <= Len(front) THEN front[i] ELSE rest[i - Len(front)]
    BY <1>11, <1>14, <2>1, ConcatProperties
  <2>3. Len(front) + Len(rest) = F + Len(stack)
    BY <1>2, <1>7, <1>11, <1>14
  <2>4. QED
    BY <1>14, <2>2, <2>3
<1>17. /\ \A i \in 1 .. F : stack'[i] = ToDo(found[i])
       /\ stack'[F + 1] = ToFinish(cm)
  BY <1>2, <1>7, <1>15, <1>16
<1>18. ASSUME NEW i \in 2 .. Len(stack)
       PROVE  stack'[F + i] = stack[i]
  <2>1. /\ F + i \in 1 .. F + Len(stack) /\ ~ F + i <= F + 1
        /\ F + i - (F + 1) = i - 1 /\ i - 1 \in 1 .. Len(stack) - 1
    BY <1>2, <1>7
  <2>2. stack'[F + i] = IF F + i <= F + 1 THEN front[F + i] ELSE rest[F + i - (F + 1)]
    BY <1>2, <1>7, <1>16, <2>1
  <2>3. i - 1 + 1 = i
    OBVIOUS
  <2>4. rest[i - 1] = stack[i]
    BY <1>11, <2>1, <2>3
  <2>5. QED
    BY <2>1, <2>2, <2>4
<1>19. /\ ur_stack' \in Seq(S) /\ Len(ur_stack') = Len(ur_stack) + 1 /\ Len(ur_stack) \in Nat
       /\ ur_stack'[1] = cm
       /\ \A k \in 1 .. Len(ur_stack) : ur_stack'[k + 1] = ur_stack[k]
  <2>1. <<cm>> \in Seq(S) /\ Len(<<cm>>) = 1
    BY <1>3
  <2>2. QED
    BY <1>1, <1>12, <2>1, ConcatProperties
<1>20. QED
  <2> HIDE DEF cm
  <2> WITNESS found
  <2>1. QED
    BY <1>1, <1>2, <1>3, <1>5, <1>7, <1>12, <1>16, <1>17, <1>18, <1>19 DEF succ, S, V, F, cm

(* An instruction is visited: the first one when dfncnt is 0, and then     *)
(* only others.                                                            *)
LEMMA VisitKeepsInv == TarjanInv /\ Visit => TarjanInv'
<1> SUFFICES ASSUME TarjanInv, Visit PROVE TarjanInv'
  OBVIOUS
<1> DEFINE cm == stack[1].entry
           n == Len(stack)
           succ == Succ(task, cm)
           H == Len(ur_stack)
<1>1. PICK found :
        /\ IsTask(task) /\ cm \in CtxMI(task) /\ ~stack[1].expanded
        /\ stack # <<>> /\ n \in Nat \ {0}
        /\ Lists(found, succ, DOMAIN dfn \cup {cm}, CtxMI(task), Len(succ))
        /\ stack' \in Seq(Visits(task)) /\ Len(stack') = Len(found) + n /\ Len(found) \in Nat
        /\ \A i \in 1 .. Len(found) : stack'[i] = ToDo(found[i])
        /\ stack'[Len(found) + 1] = ToFinish(cm)
        /\ \A i \in 2 .. n : stack'[Len(found) + i] = stack[i]
        /\ ur_stack' \in Seq(CtxMI(task)) /\ Len(ur_stack') = H + 1
        /\ H \in Nat
        /\ ur_stack'[1] = cm
        /\ \A k \in 1 .. H : ur_stack'[k + 1] = ur_stack[k]
  BY VisitStacks
<1> DEFINE F == Len(found)
<1>2. /\ DOMAIN stack = 1 .. n /\ DOMAIN stack' = 1 .. F + n
      /\ DOMAIN ur_stack = 1 .. H /\ DOMAIN ur_stack' = 1 .. H + 1
      /\ found \in Seq(CtxMI(task)) /\ DOMAIN found = 1 .. F
  BY <1>1 DEF TarjanInv, TarjanTypes, Lists
<1>3. Head(stack) = stack[1]
  BY <1>1
<1>4. /\ dfncnt' = dfncnt + 1
      /\ dfn' = With(dfn, {cm}, dfncnt + 1) /\ low' = With(low, {cm}, dfncnt + 1)
      /\ in_stack' = in_stack \cup {cm}
      /\ UNCHANGED <<task, mi_ur, ur_mi>>
  BY <1>3 DEF Visit, graph
<1>5. succ \in Seq(CtxMI(task))
  BY <1>1, SuccType
<1>6. /\ \A i \in 1 .. F : found[i] # cm /\ found[i] \notin DOMAIN dfn
      /\ \A x \in Range(succ) : x \in DOMAIN dfn \/ x = cm \/ \E i \in 1 .. F : found[i] = x
  <2> HIDE DEF succ, cm, F
  <2>1. \A i \in 1 .. F : found[i] \notin DOMAIN dfn \cup {cm}
    BY <1>1, <1>2 DEF Lists
  <2>2. DOMAIN succ = 1 .. Len(succ)
    BY <1>5
  <2>3. ASSUME NEW x \in Range(succ), x \notin DOMAIN dfn \cup {cm}
        PROVE  \E i \in 1 .. F : found[i] = x
    <3>1. PICK j \in 1 .. Len(succ) : succ[j] = x
      BY <2>2 DEF Range
    <3>2. \E i \in DOMAIN found : found[i] = succ[j]
      BY <1>1, <2>3, <3>1 DEF Lists
    <3>3. QED
      BY <1>2, <3>1, <3>2
  <2>4. QED
    BY <2>1, <2>3
<1> HIDE DEF cm, n, succ, H, F
<1>7. DOMAIN dfn' = DOMAIN dfn \cup {cm} /\ DOMAIN low' = DOMAIN low \cup {cm}
  BY <1>4 DEF With
<1>8. /\ dfn'[cm] = dfncnt + 1 /\ low'[cm] = dfncnt + 1
      /\ \A m \in DOMAIN dfn : m # cm => dfn'[m] = dfn[m]
      /\ \A m \in DOMAIN low : m # cm => low'[m] = low[m]
  BY <1>4 DEF With
<1>9. TarjanTypes'
  <2>1. dfncnt + 1 \in Nat \ {0}
    BY DEF TarjanInv, TarjanTypes
  <2>2. \A m \in DOMAIN dfn' : dfn'[m] \in Nat \ {0} /\ low'[m] \in Nat \ {0}
    BY <1>7, <1>8, <2>1 DEF TarjanInv, TarjanTypes
  <2>3. QED
    BY <1>1, <1>4, <1>7, <2>1, <2>2 DEF TarjanInv, TarjanTypes
<1>10. Range(ur_stack') = Range(ur_stack) \cup {cm}
  <2>1. ASSUME NEW m \in Range(ur_stack')
        PROVE  m \in Range(ur_stack) \cup {cm}
    <3>1. PICK k \in 1 .. H + 1 : ur_stack'[k] = m
      BY <1>2 DEF Range
    <3>2. k = 1 \/ (k - 1 \in 1 .. H /\ k - 1 + 1 = k)
      BY <1>1 DEF H
    <3>3. CASE k = 1
      BY <1>1, <3>1, <3>3 DEF cm
    <3>4. CASE k # 1
      <4>1. ur_stack'[k] = ur_stack[k - 1] /\ k - 1 \in DOMAIN ur_stack
        BY <1>1, <1>2, <3>2, <3>4 DEF H
      <4>2. QED
        BY <3>1, <4>1 DEF Range
    <3>5. QED
      BY <3>3, <3>4
  <2>2. ASSUME NEW m \in Range(ur_stack)
        PROVE  m \in Range(ur_stack')
    <3>1. PICK k \in 1 .. H : ur_stack[k] = m
      BY <1>2 DEF Range
    <3>2. k + 1 \in 1 .. H + 1
      BY <1>1 DEF H
    <3>3. ur_stack'[k + 1] = m
      BY <1>1, <3>1 DEF H
    <3>4. QED
      BY <1>2, <3>2, <3>3 DEF Range
  <2>3. cm \in Range(ur_stack')
    <3>1. 1 \in 1 .. H + 1
      BY <1>1 DEF H
    <3>2. QED
      BY <1>1, <1>2, <3>1 DEF Range, cm
  <2>4. QED
    BY <2>1, <2>2, <2>3
<1>11. VisitedIsKept'
  BY <1>4, <1>7, <1>10 DEF TarjanInv, VisitedIsKept
<1>12. ASSUME NEW i \in DOMAIN stack'
       PROVE  \/ i \in 1 .. F /\ stack'[i] = ToDo(found[i])
              \/ i = F + 1 /\ stack'[i] = ToFinish(cm)
              \/ i - F \in 2 .. n /\ stack'[i] = stack[i - F]
  <2>1. F \in Nat /\ n \in Nat /\ i \in 1 .. F + n
    BY <1>1, <1>2 DEF F, n
  <2>2. i \in 1 .. F \/ i = F + 1 \/ i - F \in 2 .. n
    BY <2>1
  <2>3. F + (i - F) = i
    BY <2>1
  <2>4. QED
    BY <1>1, <2>1, <2>2, <2>3 DEF F, n, cm
<1>13. /\ \A i \in 1 .. F : i \in DOMAIN stack' /\ stack'[i] = ToDo(found[i])
       /\ F + 1 \in DOMAIN stack' /\ stack'[F + 1] = ToFinish(cm)
       /\ \A i \in 2 .. n : F + i \in DOMAIN stack' /\ stack'[F + i] = stack[i]
  BY <1>1, <1>2 DEF F, n, cm
<1>14. /\ \A c : ToDo(c).entry = c /\ ~ToDo(c).expanded
       /\ \A c : ToFinish(c).entry = c /\ ToFinish(c).expanded
  BY DEF ToDo, ToFinish
<1>15. SuccessorsFound'
  <2> SUFFICES ASSUME NEW m \in DOMAIN dfn', NEW x \in Range(Succ(task, m)), x \notin DOMAIN dfn'
               PROVE  \E i \in DOMAIN stack' : stack'[i] = ToDo(x)
    BY <1>4 DEF SuccessorsFound
  <2>1. x \notin DOMAIN dfn /\ x # cm
    BY <1>7
  <2>2. CASE m = cm
    BY <1>6, <1>13, <2>1, <2>2 DEF succ
  <2>3. CASE m # cm
    <3>1. m \in DOMAIN dfn
      BY <1>7, <2>3
    <3>2. PICK i \in DOMAIN stack : stack[i] = ToDo(x)
      BY <2>1, <3>1 DEF TarjanInv, SuccessorsFound
    <3>3. i # 1
      BY <1>14, <2>1, <3>2 DEF cm
    <3>4. i \in 2 .. n
      BY <1>1, <1>2, <3>3 DEF n
    <3>5. QED
      BY <1>13, <3>2, <3>4
  <2>4. QED
    BY <2>2, <2>3
(* The instructions of visits to be finished are others. *)
<1>16. ASSUME NEW q \in 2 .. n, stack[q].expanded
       PROVE  stack[q].entry # cm /\ stack[q].entry \in DOMAIN dfn
  <2>1. q \in DOMAIN stack /\ 1 \in 1 .. q - 1
    BY <1>1, <1>2 DEF n
  <2>2. stack[q].entry # cm
    BY <1>1, <1>16, <2>1 DEF TarjanInv, Nested, cm
  <2>3. stack[q].entry \in Range(ur_stack)
    BY <1>16, <2>1 DEF TarjanInv, Open, Range
  <2>4. QED
    BY <2>2, <2>3 DEF TarjanInv, VisitedIsKept
<1>17. /\ \A k \in DOMAIN ur_stack : k + 1 \in DOMAIN ur_stack' /\ ur_stack'[k + 1] = ur_stack[k]
       /\ \A k \in DOMAIN ur_stack' : k # 1 => k - 1 \in DOMAIN ur_stack /\ ur_stack'[k] = ur_stack[k - 1]
       /\ 1 \in DOMAIN ur_stack' /\ ur_stack'[1] = cm
  <2>1. \A k \in 1 .. H : k + 1 \in 1 .. H + 1
    BY <1>1 DEF H
  <2>2. \A k \in 1 .. H + 1 : k # 1 => k - 1 \in 1 .. H /\ k - 1 + 1 = k
    BY <1>1 DEF H
  <2>3. 1 \in 1 .. H + 1
    BY <1>1 DEF H
  <2>4. QED
    BY <1>1, <1>2, <2>1, <2>2, <2>3 DEF H, cm
<1>18. Open'
  <2> SUFFICES ASSUME NEW i \in DOMAIN stack', stack'[i].expanded
               PROVE  \E k \in DOMAIN ur_stack' : ur_stack'[k] = stack'[i].entry
    BY DEF Open
  <2>1. CASE i = F + 1
    BY <1>13, <1>14, <1>17, <2>1
  <2>2. CASE i # F + 1
    <3>1. i - F \in 2 .. n /\ stack'[i] = stack[i - F]
      BY <1>12, <1>14, <2>2
    <3>2. i - F \in DOMAIN stack
      BY <1>1, <1>2, <3>1 DEF n
    <3>3. PICK k \in DOMAIN ur_stack : ur_stack[k] = stack[i - F].entry
      BY <3>1, <3>2 DEF TarjanInv, Open
    <3>4. QED
      BY <1>17, <3>1, <3>3
  <2>3. QED
    BY <2>1, <2>2
<1>19. Nested'
  <2> SUFFICES ASSUME NEW j \in DOMAIN stack', NEW i \in 1 .. j - 1, stack'[j].expanded
               PROVE  IF stack'[i].expanded
                      THEN \A k \in DOMAIN ur_stack' : ur_stack'[k] = stack'[j].entry =>
                               \E l \in 1 .. k - 1 : ur_stack'[l] = stack'[i].entry
                      ELSE stack'[i].entry # stack'[j].entry
    BY DEF Nested
  <2>1. F \in Nat /\ n \in Nat /\ i \in DOMAIN stack' /\ i \in Nat /\ j \in Nat /\ i < j
    BY <1>1, <1>2 DEF F, n
  <2>2. CASE j = F + 1
    <3>1. i \in 1 .. F
      BY <2>1, <2>2
    <3>2. stack'[i] = ToDo(found[i]) /\ stack'[j] = ToFinish(cm)
      BY <1>13, <2>2, <3>1
    <3>3. QED
      BY <1>6, <1>14, <3>1, <3>2
  <2>3. CASE j # F + 1
    <3> DEFINE q == j - F
    <3>1. q \in 2 .. n /\ stack'[j] = stack[q]
      BY <1>12, <1>14, <2>3
    <3>2. stack[q].entry # cm /\ stack[q].entry \in DOMAIN dfn
      BY <1>16, <3>1
    <3>3. CASE i \in 1 .. F
      BY <1>6, <1>13, <1>14, <3>1, <3>2, <3>3
    <3> HIDE DEF q
    <3>4. CASE i = F + 1
      <4>1. stack'[i] = ToFinish(cm)
        BY <1>13, <3>4
      <4>2. ASSUME NEW k \in DOMAIN ur_stack', ur_stack'[k] = stack'[j].entry
            PROVE  \E l \in 1 .. k - 1 : ur_stack'[l] = cm
        <5>1. k # 1
          BY <1>17, <3>1, <3>2, <4>2
        <5>2. 1 \in 1 .. k - 1
          <6>1. k \in Nat /\ k >= 1
            BY <1>1, <1>2 DEF H
          <6>2. QED
            BY <5>1, <6>1
        <5>3. QED
          BY <1>17, <5>2
      <4>3. QED
        BY <1>14, <4>1, <4>2
    <3>5. CASE i \notin 1 .. F /\ i # F + 1
      <4> DEFINE p == i - F
      <4>1. p \in 2 .. n /\ stack'[i] = stack[p]
        BY <1>12, <2>1, <3>5
      <4>2. p \in 1 .. q - 1 /\ q \in DOMAIN stack
        <5>1. DOMAIN stack = 1 .. n /\ n \in Nat
          BY <1>1 DEF n
        <5>2. p < q /\ q \in 2 .. n /\ p \in 2 .. n
          BY <2>1, <3>1, <4>1 DEF q
        <5>3. QED
          BY <5>1, <5>2
      <4> HIDE DEF p
      <4>3. CASE stack[p].expanded
        <5>1. ASSUME NEW k \in DOMAIN ur_stack', ur_stack'[k] = stack[q].entry
              PROVE  \E l \in 1 .. k - 1 : ur_stack'[l] = stack[p].entry
          <6>0. ur_stack'[k] # cm
            BY <3>2, <5>1
          <6>1. k # 1
            BY <1>17, <6>0
          <6>2. k - 1 \in DOMAIN ur_stack /\ ur_stack[k - 1] = stack[q].entry
            <7>1. k - 1 \in DOMAIN ur_stack /\ ur_stack'[k] = ur_stack[k - 1]
              BY <1>17, <6>1
            <7>2. QED
              BY <5>1, <7>1
          <6>3. PICK l \in 1 .. k - 1 - 1 : ur_stack[l] = stack[p].entry
            BY <3>1, <4>2, <4>3, <6>2 DEF TarjanInv, Nested
          <6>4. l \in DOMAIN ur_stack /\ l + 1 \in 1 .. k - 1
            <7>1. k \in Nat /\ k - 1 <= H /\ H \in Nat
              BY <1>1, <1>2, <6>2 DEF H
            <7>2. QED
              BY <1>2, <7>1
          <6>5. QED
            BY <1>17, <6>3, <6>4
        <5>2. stack'[i].expanded /\ stack'[i].entry = stack[p].entry /\ stack'[j].entry = stack[q].entry
          BY <3>1, <4>1, <4>3
        <5>3. QED
          BY <5>1, <5>2
      <4>4. CASE ~stack[p].expanded
        <5>1. stack[p].entry # stack[q].entry
          BY <3>1, <4>2, <4>4 DEF TarjanInv, Nested
        <5>2. QED
          BY <3>1, <4>1, <4>4, <5>1
      <4>5. QED
        BY <4>3, <4>4
    <3>6. QED
      BY <3>3, <3>4, <3>5
  <2>4. QED
    BY <2>2, <2>3
<1>20. StartIsLast'
  <2> DEFINE start == Start(task)
             m == Len(stack')
  <2>1. /\ F \in Nat /\ n \in Nat \ {0} /\ m = F + n /\ m \in DOMAIN stack'
        /\ n \in DOMAIN stack /\ stack' # <<>>
    BY <1>1, <1>2 DEF F, n
  <2>2. stack[n].entry = start
    BY <1>1 DEF TarjanInv, StartIsLast, n
  <2>3. CASE n = 1
    <3>1. /\ start = cm /\ ~stack[n].expanded
      BY <1>1, <2>2, <2>3 DEF cm
    <3>2. dfncnt = 0 /\ ur_stack = <<>>
      BY <1>1, <3>1 DEF TarjanInv, StartIsLast, n
    <3>3. H = 0
      BY <3>2 DEF H
    <3>4. DOMAIN ur_stack' = {1} /\ Len(ur_stack') = 1
      BY <1>1, <1>2, <3>3 DEF H
    <3>5. stack'[m] = ToFinish(cm)
      BY <1>13, <2>1, <2>3
    <3>6. dfn'[cm] = 1 /\ low'[cm] = 1
      BY <1>8, <3>2
    <3>7. QED
      BY <1>4, <1>14, <1>17, <2>1, <3>1, <3>4, <3>5, <3>6 DEF StartIsLast
  <2>4. CASE n # 1
    <3>1. n \in 2 .. n /\ stack'[m] = stack[n]
      BY <1>13, <2>1, <2>4
    <3>2. stack[n].expanded
      BY <1>1, <2>4 DEF TarjanInv, StartIsLast, n
    <3>3. start # cm /\ start \in DOMAIN dfn
      BY <1>16, <2>2, <3>1, <3>2
    <3>4. /\ dfn[start] = 1 /\ low[start] = 1
          /\ \A k \in DOMAIN ur_stack : ur_stack[k] = start <=> k = H
      BY <1>1, <3>2 DEF TarjanInv, StartIsLast, n, H
    <3>5. dfn'[start] = 1 /\ low'[start] = 1
      BY <1>8, <3>3, <3>4 DEF TarjanInv, TarjanTypes
    <3>6. H # 0
      <4>1. PICK k \in DOMAIN ur_stack : ur_stack[k] = stack[n].entry
        BY <2>1, <3>2 DEF TarjanInv, Open
      <4>2. QED
        BY <1>1, <1>2 DEF H
    <3>7. ASSUME NEW k \in DOMAIN ur_stack'
          PROVE  ur_stack'[k] = start <=> k = H + 1
      <4>1. CASE k = 1
        BY <1>1, <1>17, <3>3, <3>6, <4>1 DEF H
      <4>2. CASE k # 1
        <5>1. k - 1 \in DOMAIN ur_stack /\ ur_stack'[k] = ur_stack[k - 1]
          BY <1>17, <4>2
        <5>2. k - 1 = H <=> k = H + 1
          BY <1>1, <1>2, <5>1 DEF H
        <5>3. QED
          BY <3>4, <5>1, <5>2
      <4>3. QED
        BY <4>1, <4>2
    <3>8. Len(ur_stack') = H + 1 /\ task' = task
      BY <1>1, <1>4 DEF H
    <3>9. QED
      BY <2>1, <2>2, <3>1, <3>2, <3>5, <3>7, <3>8 DEF StartIsLast
  <2>5. QED
    BY <2>3, <2>4
<1>21. ~Collected'
  BY <1>1, <1>4 DEF TarjanInv, Collected
<1>22. SuccessorsBefore'
  <2> SUFFICES ASSUME NEW i \in DOMAIN stack', NEW x \in Range(Succ(task, stack'[i].entry)),
                      stack'[i].expanded, x \notin DOMAIN dfn'
               PROVE  \E h \in 1 .. i - 1 : stack'[h] = ToDo(x)
    BY <1>4 DEF SuccessorsBefore
  <2>1. x \notin DOMAIN dfn /\ x # cm
    BY <1>7
  <2>2. F \in Nat /\ n \in Nat /\ i \in Nat
    BY <1>1, <1>2 DEF F, n
  <2>3. CASE i = F + 1
    <3>1. PICK h \in 1 .. F : found[h] = x
      BY <1>6, <1>13, <1>14, <2>1, <2>3 DEF succ
    <3>2. h \in 1 .. i - 1
      BY <2>2, <2>3
    <3>3. QED
      BY <1>13, <3>1, <3>2
  <2>4. CASE i # F + 1
    <3> DEFINE q == i - F
    <3>1. q \in 2 .. n /\ stack'[i] = stack[q]
      BY <1>12, <1>14, <2>4
    <3>2. q \in DOMAIN stack
      BY <1>1, <1>2, <3>1 DEF n
    <3>3. PICK h \in 1 .. q - 1 : stack[h] = ToDo(x)
      BY <2>1, <3>1, <3>2 DEF TarjanInv, SuccessorsBefore
    <3>4. h # 1
      BY <1>14, <2>1, <3>3 DEF cm
    <3>5. h \in 2 .. n /\ F + h \in 1 .. i - 1
      BY <2>2, <3>1, <3>4
    <3>6. QED
      BY <1>13, <3>3, <3>5
  <2>5. QED
    BY <2>3, <2>4
<1>23. QED
  BY <1>9, <1>11, <1>15, <1>18, <1>19, <1>20, <1>21, <1>22 DEF TarjanInv

-----------------------------------------------------------------------------
(* A visit is finished. *)

(* Min is the least of some numbers. *)
LEMMA MinOfNumbers ==
    ASSUME NEW T, T \subseteq Nat, T # {}
    PROVE  Min(T) \in T /\ \A k \in T : Min(T) <= k
<1>1. \E m \in T : \A k \in T : m <= k
  BY LeastNumber
<1>2. QED
  BY <1>1 DEF Min

(* The lowest numbers stay numbers, and that of the first instruction 1. *)
LEMMA FinishLow ==
    ASSUME TarjanInv, Finish
    PROVE  LET cm == stack[1].entry IN
           /\ stack # <<>> /\ stack[1].expanded
           /\ cm \in DOMAIN dfn /\ \E k \in DOMAIN ur_stack : ur_stack[k] = cm
           /\ Lowest(cm) \in Nat \ {0} /\ Lowest(cm) <= low[cm]
           /\ DOMAIN low' = DOMAIN low
           /\ \A m \in DOMAIN low : low'[m] \in Nat \ {0} /\ (low[m] = 1 => low'[m] = 1)
<1> DEFINE cm == stack[1].entry
           T == {low[cm]} \cup {dfn[s] : s \in Range(Succ(task, cm)) \cap in_stack}
           lowest == Lowest(cm)
           told == Head(call_stack)
           low1 == [low EXCEPT ![cm] = lowest]
<1>1. stack # <<>> /\ Head(stack) = stack[1] /\ 1 \in DOMAIN stack
  BY DEF Finish, TarjanInv, TarjanTypes
<1>2. stack[1].expanded /\ low' = [low1 EXCEPT ![told] = Min({@, lowest})]
  BY <1>1 DEF Finish
<1>3. \E k \in DOMAIN ur_stack : ur_stack[k] = cm
  BY <1>1, <1>2 DEF TarjanInv, Open
<1>4. cm \in DOMAIN dfn
  BY <1>3 DEF TarjanInv, VisitedIsKept, Range
<1>5. T \subseteq Nat \ {0} /\ low[cm] \in T
  BY <1>4 DEF TarjanInv, TarjanTypes
<1>6. lowest \in Nat \ {0} /\ lowest <= low[cm]
  <2>1. lowest = Min(T)
    BY DEF Lowest
  <2> HIDE DEF T
  <2>2. QED
    BY <1>5, <2>1, MinOfNumbers
<1> HIDE DEF lowest, cm, T, told
<1>7. DOMAIN low1 = DOMAIN low /\ DOMAIN low' = DOMAIN low
  BY <1>2
<1>8. ASSUME NEW m \in DOMAIN low
      PROVE  low1[m] \in Nat \ {0} /\ (low[m] = 1 => low1[m] = 1)
  <2>1. low[m] \in Nat \ {0}
    BY DEF TarjanInv, TarjanTypes
  <2>2. low1[m] = IF m = cm THEN lowest ELSE low[m]
    OBVIOUS
  <2>3. QED
    BY <1>6, <2>1, <2>2
<1> HIDE DEF low1
<1>9. ASSUME NEW m \in DOMAIN low
      PROVE  low'[m] \in Nat \ {0} /\ (low[m] = 1 => low'[m] = 1)
  <2>1. low'[m] = IF m = told THEN Min({low1[m], lowest}) ELSE low1[m]
    BY <1>2, <1>7
  <2>2. {low1[m], lowest} \subseteq Nat
    BY <1>6, <1>8
  <2>3. Min({low1[m], lowest}) \in {low1[m], lowest} /\ Min({low1[m], lowest}) <= low1[m]
    BY <2>2, MinOfNumbers
  <2>4. QED
    BY <1>6, <1>8, <2>1, <2>3
<1>10. QED
  BY <1>1, <1>2, <1>3, <1>4, <1>6, <1>7, <1>9 DEF lowest, cm

(* What comes off ur_stack is the region: d instructions up to the first   *)
(* place of the finished one, or none.                                     *)
LEMMA FinishStacks ==
    ASSUME TarjanInv, Finish
    PROVE  \E d \in 0 .. Len(ur_stack) :
        LET cm == stack[1].entry
            n == Len(stack)
        IN /\ IF dfn[cm] = Lowest(cm)
              THEN d # 0 /\ ur_stack[d] = cm
              ELSE d = 0
           /\ \A k \in 1 .. d : ur_stack[k] = cm => k = d
           /\ ur_stack' \in Seq(CtxMI(task)) /\ Len(ur_stack') = Len(ur_stack) - d
           /\ \A k \in 1 .. Len(ur_stack) - d : ur_stack'[k] = ur_stack[d + k]
           /\ Range(ur_stack) \cup DOMAIN mi_ur = Range(ur_stack') \cup DOMAIN mi_ur'
           /\ stack' \in Seq(Visits(task)) /\ Len(stack') = n - 1
           /\ n \in Nat \ {0} /\ Len(ur_stack) \in Nat
           /\ \A i \in 1 .. n - 1 : stack'[i] = stack[i + 1]
           /\ in_stack' \subseteq in_stack
           /\ UNCHANGED <<task, dfn, dfncnt, ur_mi>>
<1> DEFINE cm == stack[1].entry
           n == Len(stack)
           H == Len(ur_stack)
           places == {i \in DOMAIN ur_stack : ur_stack[i] = cm}
           d == Min(places)
           off == SubSeq(ur_stack, 1, d)
           own == Range(off)
           rest == SubSeq(ur_stack, d + 1, H)
<1>1. /\ stack # <<>> /\ Head(stack) = stack[1] /\ stack[1].expanded
      /\ \E k \in DOMAIN ur_stack : ur_stack[k] = cm
      /\ ur_stack \in Seq(CtxMI(task)) /\ stack \in Seq(Visits(task))
      /\ DOMAIN ur_stack = 1 .. H /\ H \in Nat /\ n \in Nat \ {0}
  BY FinishLow DEF TarjanInv, TarjanTypes
<1>2. /\ stack' = Tail(stack)
      /\ IF dfn[cm] = Lowest(cm)
         THEN /\ mi_ur' = With(mi_ur, own, ur_id')
              /\ ur_stack' = rest
              /\ in_stack' = in_stack \ own
         ELSE UNCHANGED <<mi_ur, ur_stack, in_stack>>
      /\ UNCHANGED <<task, dfn, dfncnt, ur_mi>>
  BY <1>1 DEF Finish, graph
<1>3. /\ stack' \in Seq(Visits(task)) /\ Len(stack') = n - 1
      /\ \A i \in 1 .. n - 1 : stack'[i] = stack[i + 1]
  BY <1>1, <1>2, HeadTailProperties
<1>4. d \in 1 .. H /\ ur_stack[d] = cm /\ \A k \in 1 .. H : ur_stack[k] = cm => d <= k
  <2>1. places \subseteq Nat /\ places # {}
    BY <1>1
  <2>2. d \in places /\ \A k \in places : d <= k
    <3> HIDE DEF places
    <3>1. QED
      BY <2>1, MinOfNumbers
  <2>3. QED
    BY <1>1, <2>2
<1> HIDE DEF cm, d
<1>5. /\ rest \in Seq(CtxMI(task)) /\ Len(rest) = H - d
      /\ \A k \in 1 .. H - d : rest[k] = ur_stack[d + k]
  <2>1. /\ d \in Int /\ H \in Int /\ d + 1 \in Int
        /\ \A k \in d + 1 .. H : ur_stack[k] \in CtxMI(task)
    BY <1>1, <1>4
  <2> HIDE DEF H
  <2>2. /\ rest \in Seq(CtxMI(task))
        /\ Len(rest) = IF d + 1 <= H THEN H - (d + 1) + 1 ELSE 0
        /\ \A i \in 1 .. H - (d + 1) + 1 : rest[i] = ur_stack[d + 1 + i - 1]
    BY <2>1, SubSeqProperties
  <2> HIDE DEF rest
  <2>3. H - (d + 1) + 1 = H - d /\ (~ d + 1 <= H => H - d = 0)
    <3>1. H \in Nat /\ d \in Nat /\ d <= H
      BY <1>1, <1>4 DEF H
    <3>2. QED
      BY <3>1
  <2>4. \A i \in 1 .. H - d : d + 1 + i - 1 = d + i
    BY <2>1
  <2>5. QED
    BY <2>1, <2>2, <2>3, <2>4
<1>6. Range(ur_stack) = own \cup Range(rest)
  <2> HIDE DEF rest, H
  <2>1. own = {ur_stack[k] : k \in 1 .. d}
    <3>1. /\ 1 \in Int /\ d \in Int /\ d >= 1
          /\ \A k \in 1 .. d : ur_stack[k] \in CtxMI(task)
      BY <1>1, <1>4 DEF H
    <3>2. /\ off \in Seq(CtxMI(task)) /\ Len(off) = IF 1 <= d THEN d - 1 + 1 ELSE 0
          /\ \A i \in 1 .. d - 1 + 1 : off[i] = ur_stack[1 + i - 1]
      BY <3>1, SubSeqProperties
    <3> HIDE DEF off
    <3>3. d - 1 + 1 = d /\ \A i \in 1 .. d : 1 + i - 1 = i
      BY <3>1
    <3>4. DOMAIN off = 1 .. d /\ \A i \in 1 .. d : off[i] = ur_stack[i]
      BY <3>1, <3>2, <3>3
    <3>5. QED
      BY <3>4 DEF Range
  <2>2. Range(rest) = {ur_stack[k] : k \in d + 1 .. H}
    <3>1. DOMAIN rest = 1 .. H - d /\ d \in Nat /\ H \in Nat
      BY <1>1, <1>4, <1>5 DEF H
    <3>2. ASSUME NEW k \in d + 1 .. H
          PROVE  k - d \in 1 .. H - d /\ rest[k - d] = ur_stack[k]
      <4>1. k - d \in 1 .. H - d /\ d + (k - d) = k
        BY <3>1
      <4>2. QED
        BY <1>5, <4>1
    <3>3. ASSUME NEW i \in 1 .. H - d
          PROVE  d + i \in d + 1 .. H /\ rest[i] = ur_stack[d + i]
      BY <1>5, <3>1
    <3>4. \A k \in d + 1 .. H : \E i \in 1 .. H - d : rest[i] = ur_stack[k]
      BY <3>2
    <3>5. \A i \in 1 .. H - d : \E k \in d + 1 .. H : rest[i] = ur_stack[k]
      BY <3>3
    <3>6. Range(rest) = {rest[i] : i \in 1 .. H - d}
      BY <3>1 DEF Range
    <3>7. QED
      BY <3>4, <3>5, <3>6
  <2>3. 1 .. H = (1 .. d) \cup (d + 1 .. H)
    BY <1>1, <1>4
  <2>4. QED
    BY <1>1, <2>1, <2>2, <2>3 DEF Range
<1> HIDE DEF rest, own, H, n
<1>7. CASE dfn[cm] = Lowest(cm)
  <2>1. DOMAIN mi_ur' = DOMAIN mi_ur \cup own
    BY <1>2, <1>7 DEF With
  <2>2. d \in 0 .. H /\ d # 0 /\ \A k \in 1 .. d : ur_stack[k] = cm => k = d
    BY <1>1, <1>4 DEF H
  <2>3. Range(ur_stack) \cup DOMAIN mi_ur = Range(ur_stack') \cup DOMAIN mi_ur'
    BY <1>2, <1>6, <1>7, <2>1
  <2>4. /\ ur_stack' \in Seq(CtxMI(task)) /\ Len(ur_stack') = H - d
        /\ \A k \in 1 .. H - d : ur_stack'[k] = ur_stack[d + k]
        /\ in_stack' \subseteq in_stack
    BY <1>2, <1>5, <1>7
  <2>5. d \in 0 .. Len(ur_stack)
    BY <2>2 DEF H
  <2> WITNESS d \in 0 .. Len(ur_stack)
  <2>6. QED
    BY <1>1, <1>2, <1>3, <1>4, <1>7, <2>2, <2>3, <2>4 DEF H, n, cm
<1>8. CASE dfn[cm] # Lowest(cm)
  <2>1. 0 \in 0 .. H /\ H - 0 = H /\ \A k \in 1 .. H : 0 + k = k
    BY <1>1 DEF H
  <2>2. 0 \in 0 .. Len(ur_stack)
    BY <2>1 DEF H
  <2> WITNESS 0 \in 0 .. Len(ur_stack)
  <2>3. QED
    BY <1>1, <1>2, <1>3, <1>8, <2>1 DEF H, n, cm
<1>9. QED
  BY <1>7, <1>8

(* Finishing a visit keeps the invariant. *)
LEMMA FinishKeepsInv == TarjanInv /\ Finish => TarjanInv'
<1> SUFFICES ASSUME TarjanInv, Finish PROVE TarjanInv'
  OBVIOUS
<1> DEFINE cm == stack[1].entry
           n == Len(stack)
           H == Len(ur_stack)
           start == Start(task)
<1>1. /\ stack # <<>> /\ stack[1].expanded
      /\ cm \in DOMAIN dfn /\ \E k \in DOMAIN ur_stack : ur_stack[k] = cm
      /\ Lowest(cm) \in Nat \ {0} /\ Lowest(cm) <= low[cm]
      /\ DOMAIN low' = DOMAIN low
      /\ \A m \in DOMAIN low : low'[m] \in Nat \ {0} /\ (low[m] = 1 => low'[m] = 1)
  BY FinishLow
<1>2. PICK d \in 0 .. H :
        /\ IF dfn[cm] = Lowest(cm)
           THEN d # 0 /\ ur_stack[d] = cm
           ELSE d = 0
        /\ \A k \in 1 .. d : ur_stack[k] = cm => k = d
        /\ ur_stack' \in Seq(CtxMI(task)) /\ Len(ur_stack') = H - d
        /\ \A k \in 1 .. H - d : ur_stack'[k] = ur_stack[d + k]
        /\ Range(ur_stack) \cup DOMAIN mi_ur = Range(ur_stack') \cup DOMAIN mi_ur'
        /\ stack' \in Seq(Visits(task)) /\ Len(stack') = n - 1
        /\ n \in Nat \ {0} /\ H \in Nat
        /\ \A i \in 1 .. n - 1 : stack'[i] = stack[i + 1]
        /\ in_stack' \subseteq in_stack
        /\ UNCHANGED <<task, dfn, dfncnt, ur_mi>>
  BY FinishStacks
<1>3. /\ DOMAIN stack = 1 .. n /\ DOMAIN stack' = 1 .. n - 1
      /\ DOMAIN ur_stack = 1 .. H /\ DOMAIN ur_stack' = 1 .. H - d
  BY <1>2 DEF TarjanInv, TarjanTypes
<1> HIDE DEF cm, n, H, start
<1>4. TarjanTypes'
  BY <1>1, <1>2 DEF TarjanInv, TarjanTypes
<1>5. VisitedIsKept'
  BY <1>2 DEF TarjanInv, VisitedIsKept
<1>6. \A i \in DOMAIN stack' : i + 1 \in 2 .. n /\ i + 1 \in DOMAIN stack /\ stack'[i] = stack[i + 1]
  BY <1>2, <1>3 DEF n
<1>7. \A i \in DOMAIN stack : i # 1 => i - 1 \in DOMAIN stack' /\ stack'[i - 1] = stack[i]
  <2>1. \A i \in 1 .. n : i # 1 => i - 1 \in 1 .. n - 1 /\ i - 1 + 1 = i
    BY <1>2 DEF n
  <2>2. QED
    BY <1>2, <1>3, <2>1 DEF n
<1>8. SuccessorsFound'
  <2> SUFFICES ASSUME NEW m \in DOMAIN dfn, NEW x \in Range(Succ(task, m)), x \notin DOMAIN dfn
               PROVE  \E i \in DOMAIN stack' : stack'[i] = ToDo(x)
    BY <1>2 DEF SuccessorsFound
  <2>1. PICK i \in DOMAIN stack : stack[i] = ToDo(x)
    BY DEF TarjanInv, SuccessorsFound
  <2>2. i # 1
    BY <1>1, <2>1 DEF ToDo
  <2>3. QED
    BY <1>7, <2>1, <2>2
(* What comes off comes before the instructions of the other visits. *)
<1>9. ASSUME NEW j \in 2 .. n, stack[j].expanded, NEW k \in DOMAIN ur_stack,
             ur_stack[k] = stack[j].entry
      PROVE  k > d
  <2>1. j \in DOMAIN stack /\ 1 \in 1 .. j - 1 /\ k \in Nat \ {0} /\ d \in Nat
    BY <1>2, <1>3 DEF n, H
  <2>2. PICK l \in 1 .. k - 1 : ur_stack[l] = cm
    BY <1>1, <1>9, <2>1 DEF TarjanInv, Nested, cm
  <2>3. SUFFICES ASSUME k <= d PROVE FALSE
    BY <2>1
  <2>4. l \in 1 .. d /\ l # d
    BY <2>1, <2>3
  <2>5. QED
    BY <1>2, <2>2, <2>4 DEF cm
<1>10. /\ \A k \in DOMAIN ur_stack : k > d =>
              k - d \in DOMAIN ur_stack' /\ ur_stack'[k - d] = ur_stack[k]
       /\ \A k \in DOMAIN ur_stack' : d + k \in DOMAIN ur_stack /\ ur_stack'[k] = ur_stack[d + k]
  <2>1. d \in Nat /\ H \in Nat /\ d <= H
    BY <1>2 DEF H
  <2>2. \A k \in 1 .. H : k > d => k - d \in 1 .. H - d /\ d + (k - d) = k
    BY <2>1
  <2>3. \A k \in 1 .. H - d : d + k \in 1 .. H
    BY <2>1
  <2>4. QED
    BY <1>2, <1>3, <2>2, <2>3 DEF H
<1>11. Open'
  <2> SUFFICES ASSUME NEW i \in DOMAIN stack', stack'[i].expanded
               PROVE  \E k \in DOMAIN ur_stack' : ur_stack'[k] = stack'[i].entry
    BY DEF Open
  <2>1. PICK k \in DOMAIN ur_stack : ur_stack[k] = stack[i + 1].entry
    BY <1>6 DEF TarjanInv, Open
  <2>2. k > d
    BY <1>6, <1>9, <2>1
  <2>3. QED
    BY <1>6, <1>10, <2>1, <2>2
<1>12. Nested'
  <2> SUFFICES ASSUME NEW j \in DOMAIN stack', NEW i \in 1 .. j - 1, stack'[j].expanded
               PROVE  IF stack'[i].expanded
                      THEN \A k \in DOMAIN ur_stack' : ur_stack'[k] = stack'[j].entry =>
                               \E l \in 1 .. k - 1 : ur_stack'[l] = stack'[i].entry
                      ELSE stack'[i].entry # stack'[j].entry
    BY DEF Nested
  <2> DEFINE q == j + 1
             p == i + 1
  <2>1. i \in DOMAIN stack' /\ p \in 1 .. q - 1
    BY <1>2, <1>3 DEF n
  <2>2. /\ p \in 2 .. n /\ stack'[i] = stack[p]
        /\ q \in 2 .. n /\ q \in DOMAIN stack /\ stack'[j] = stack[q]
    BY <1>6, <2>1
  <2> HIDE DEF p, q
  <2>3. CASE ~stack[p].expanded
    BY <2>1, <2>2, <2>3 DEF TarjanInv, Nested
  <2>4. CASE stack[p].expanded
    <3>1. ASSUME NEW k \in DOMAIN ur_stack', ur_stack'[k] = stack[q].entry
          PROVE  \E l \in 1 .. k - 1 : ur_stack'[l] = stack[p].entry
      <4>1. d + k \in DOMAIN ur_stack /\ ur_stack[d + k] = stack[q].entry
        BY <1>10, <3>1
      <4>2. PICK l \in 1 .. (d + k) - 1 : ur_stack[l] = stack[p].entry
        <5>1. \A m \in DOMAIN ur_stack : ur_stack[m] = stack[q].entry =>
                  \E l \in 1 .. m - 1 : ur_stack[l] = stack[p].entry
          BY <2>1, <2>2, <2>4 DEF TarjanInv, Nested
        <5>2. QED
          BY <4>1, <5>1
      <4>3. l \in DOMAIN ur_stack /\ d \in Nat /\ k \in Nat
        <5>1. d \in Nat /\ k \in Nat /\ H \in Nat /\ d + k <= H
          BY <1>2, <1>3, <4>1 DEF H
        <5>2. QED
          BY <1>3, <5>1
      <4>4. l > d
        BY <1>9, <2>2, <2>4, <4>2, <4>3
      <4>5. l - d \in 1 .. k - 1
        BY <4>3, <4>4
      <4>6. QED
        BY <1>10, <4>2, <4>3, <4>4, <4>5
    <3>2. QED
      BY <2>2, <2>4, <3>1
  <2>5. QED
    BY <2>3, <2>4
<1>13. stack[n].entry = start /\ n \in DOMAIN stack /\ (stack' = <<>> <=> n = 1)
  <2>1. stack[n].entry = start
    BY <1>1 DEF TarjanInv, StartIsLast, n, start
  <2>2. n \in DOMAIN stack
    BY <1>2, <1>3 DEF n
  <2>3. stack' = <<>> <=> Len(stack') = 0
    BY <1>2
  <2>4. QED
    BY <1>2, <2>1, <2>2, <2>3 DEF n
<1>14. /\ stack[n].expanded
       /\ dfn[start] = 1 /\ low[start] = 1 /\ start \in DOMAIN dfn
       /\ \A k \in DOMAIN ur_stack : ur_stack[k] = start <=> k = H
  <2>1. stack[n].expanded
    BY <1>1 DEF TarjanInv, StartIsLast, n
  <2>2. start \in Range(ur_stack)
    BY <1>13, <2>1 DEF TarjanInv, Open, Range
  <2>3. start \in DOMAIN dfn
    BY <2>2 DEF TarjanInv, VisitedIsKept
  <2>4. QED
    BY <1>1, <2>1, <2>3 DEF TarjanInv, StartIsLast, n, start, H
<1>15. StartIsLast'
  <2>1. task' = task /\ dfn' = dfn
    BY <1>2
  <2>2. CASE n = 1
    <3>1. cm = start
      BY <1>13, <2>2 DEF cm
    <3>2. Lowest(cm) = 1
      BY <1>1, <1>14, <3>1
    <3>3. d # 0 /\ ur_stack[d] = start
      BY <1>2, <1>14, <3>1, <3>2 DEF cm
    <3>4. d \in DOMAIN ur_stack
      BY <1>2, <1>3, <3>3 DEF H
    <3>5. d = H
      BY <1>14, <3>3, <3>4
    <3>6. ur_stack' = <<>>
      <4>1. ur_stack' \in Seq(CtxMI(task)) /\ Len(ur_stack') = 0
        <5>1. H \in Nat /\ H - d = 0
          BY <1>2, <3>5 DEF H
        <5>2. QED
          BY <1>2, <5>1 DEF H
      <4>2. QED
        BY <4>1, EmptySeq
    <3>7. stack' = <<>> /\ start \in DOMAIN dfn' /\ start = Start(task')
      BY <1>13, <1>14, <2>1, <2>2 DEF start
    <3>8. QED
      BY <3>6, <3>7 DEF StartIsLast
  <2>3. CASE n # 1
    <3>1. n \in 2 .. n /\ n - 1 \in DOMAIN stack' /\ stack'[n - 1] = stack[n] /\ Len(stack') = n - 1
      <4>1. n - 1 \in DOMAIN stack' /\ stack'[n - 1] = stack[n]
        BY <1>7, <1>13, <2>3
      <4>2. n \in Nat \ {0} /\ Len(stack') = n - 1
        BY <1>2
      <4>3. QED
        BY <2>3, <4>1, <4>2
    <3>2. low'[start] = 1
      BY <1>1, <1>14 DEF TarjanInv, TarjanTypes
    <3>3. ASSUME NEW k \in DOMAIN ur_stack'
          PROVE  ur_stack'[k] = start <=> k = Len(ur_stack')
      <4>1. d + k \in DOMAIN ur_stack /\ ur_stack'[k] = ur_stack[d + k]
        BY <1>10
      <4>2. d + k = H <=> k = H - d
        <5>1. H \in Nat /\ k \in Nat
          BY <1>2, <1>3
        <5> HIDE DEF H
        <5>2. d \in Nat
          BY <5>1
        <5>3. QED
          BY <5>1, <5>2
      <4>3. QED
        BY <1>2, <1>14, <4>1, <4>2 DEF H
    <3>4. QED
      BY <1>13, <1>14, <2>1, <2>3, <3>1, <3>2, <3>3 DEF StartIsLast, start
  <2>4. QED
    BY <2>2, <2>3
<1>16. ~Collected'
  BY <1>1, <1>2 DEF TarjanInv, Collected
<1>17. SuccessorsBefore'
  <2> SUFFICES ASSUME NEW i \in DOMAIN stack', NEW x \in Range(Succ(task, stack'[i].entry)),
                      stack'[i].expanded, x \notin DOMAIN dfn
               PROVE  \E h \in 1 .. i - 1 : stack'[h] = ToDo(x)
    BY <1>2 DEF SuccessorsBefore
  <2>1. PICK h \in 1 .. (i + 1) - 1 : stack[h] = ToDo(x)
    BY <1>6 DEF TarjanInv, SuccessorsBefore
  <2>2. h # 1
    BY <1>1, <2>1 DEF ToDo
  <2>3. i \in Nat /\ h \in DOMAIN stack /\ h - 1 \in 1 .. i - 1
    BY <1>2, <1>3, <2>2 DEF n
  <2>4. QED
    BY <1>7, <2>1, <2>2, <2>3
<1>18. QED
  BY <1>4, <1>5, <1>8, <1>11, <1>12, <1>15, <1>16, <1>17 DEF TarjanInv

-----------------------------------------------------------------------------
(* Nothing else touches the search. *)
LEMMA RestKeepsInv ==
    ASSUME TarjanInv, UNCHANGED <<task, tarjan>>, Collected' => stack = <<>>
    PROVE  TarjanInv'
BY DEF TarjanInv, TarjanTypes, VisitedIsKept, SuccessorsFound, SuccessorsBefore, Open,
       Nested, StartIsLast, tarjan, Collected

(* The invariant holds always. *)
LEMMA TarjanInvariant == URSpec => []TarjanInv
<1>1. URInit => TarjanInv
  BY TarjanInit
<1>2. TarjanInv /\ [URNext]_urVars => TarjanInv'
  <2> SUFFICES ASSUME TarjanInv, [URNext]_urVars PROVE TarjanInv'
    OBVIOUS
  <2>1. CASE Visit
    BY <2>1, VisitKeepsInv
  <2>2. CASE Finish
    BY <2>2, FinishKeepsInv
  <2>3. CASE CollectUrInfo
    BY <2>3, RestKeepsInv DEF CollectUrInfo
  <2>4. CASE EnterRegion
    BY <2>4, RestKeepsInv DEF EnterRegion, graph, TarjanInv, Collected
  <2>5. CASE LeaveRegion
    BY <2>5, RestKeepsInv DEF LeaveRegion, graph, TarjanInv, Collected
  <2>6. CASE UNCHANGED urVars
    BY <2>6, RestKeepsInv DEF urVars, graph, TarjanInv, Collected
  <2>7. QED
    BY <2>1, <2>2, <2>3, <2>4, <2>5, <2>6 DEF URNext
<1>3. QED
  BY <1>1, <1>2, PTL DEF URSpec

(* Whatever the task, tarjan_it takes lowest numbers only from successors  *)
(* that have one.                                                          *)
THEOREM SuccessorsAreVisited == URSpec => []FinishedAfterSuccessors
<1>1. TarjanInv => FinishedAfterSuccessors
  BY DEF TarjanInv, TarjanTypes, SuccessorsBefore, FinishedAfterSuccessors
<1>2. QED
  BY <1>1, TarjanInvariant, PTL

(* Whatever the task, also where loops are entered by several edges and    *)
(* instructions visited twice: when tarjan_it ends, no instruction that    *)
(* the task can come to is without a region.  So collectUrInfo, which      *)
(* looks the successors up with operator[] while it goes through the same  *)
(* map, adds no entry to it.                                               *)
THEOREM EveryInstructionGetsRegion == URSpec => []EveryInstructionHasRegion
<1>1. TarjanInv => EveryInstructionHasRegion
  <2> SUFFICES ASSUME TarjanInv, Collected PROVE EveryInstructionHasRegion
    BY DEF EveryInstructionHasRegion
  <2>1. stack = <<>> /\ ur_stack = <<>> /\ Start(task) \in DOMAIN dfn
    BY DEF TarjanInv, StartIsLast
  <2>2. Range(ur_stack) = {} /\ DOMAIN stack = {}
    BY <2>1 DEF Range
  <2>3. DOMAIN dfn = DOMAIN mi_ur
    BY <2>2 DEF TarjanInv, VisitedIsKept
  <2>4. \A m \in DOMAIN dfn : Range(Succ(task, m)) \subseteq DOMAIN dfn
    BY <2>2 DEF TarjanInv, SuccessorsFound
  <2>5. QED
    BY <2>1, <2>3, <2>4 DEF EveryInstructionHasRegion
<1>2. QED
  BY <1>1, TarjanInvariant, PTL

-----------------------------------------------------------------------------
(* Loops and counts of an instruction. *)

(* The sequence has the element x. *)
Has(s, x) == \E i \in DOMAIN s : s[i] = x

(* A sequence with one element more, at any place. *)
LEMMA PlaceType ==
    ASSUME NEW S, NEW s \in Seq(S), NEW x \in S, NEW n \in 0 .. Len(s)
    PROVE  /\ SubSeq(s, 1, n) \o <<x>> \o SubSeq(s, n + 1, Len(s)) \in Seq(S)
           /\ Has(SubSeq(s, 1, n) \o <<x>> \o SubSeq(s, n + 1, Len(s)), x)
           /\ \A y \in S : Has(s, y) =>
                  Has(SubSeq(s, 1, n) \o <<x>> \o SubSeq(s, n + 1, Len(s)), y)
<1> DEFINE p == SubSeq(s, 1, n)
           q == SubSeq(s, n + 1, Len(s))
<1>1. Len(s) \in Nat /\ n \in Int /\ n + 1 \in Int /\ \A i \in 1 .. Len(s) : s[i] \in S
  OBVIOUS
<1>2. p \in Seq(S) /\ Len(p) = n /\ \A i \in 1 .. n : p[i] = s[i]
  <2>1. \A i \in 1 .. n : s[i] \in S
    BY <1>1
  <2>2. QED
    BY <1>1, <2>1, SubSeqProperties
<1>3. /\ q \in Seq(S) /\ Len(q) = Len(s) - n
      /\ \A i \in 1 .. Len(s) - n : q[i] = s[n + i]
  <2>1. \A i \in n + 1 .. Len(s) : s[i] \in S
    BY <1>1
  <2>2. /\ q \in Seq(S)
        /\ Len(q) = IF n + 1 <= Len(s) THEN Len(s) - (n + 1) + 1 ELSE 0
        /\ \A i \in 1 .. Len(s) - (n + 1) + 1 : q[i] = s[n + 1 + i - 1]
    BY <1>1, <2>1, SubSeqProperties
  <2> HIDE DEF q
  <2>3. Len(s) - (n + 1) + 1 = Len(s) - n
    BY <1>1
  <2>4. Len(q) = Len(s) - n
    BY <1>1, <2>2
  <2>5. ASSUME NEW i \in 1 .. Len(s) - n PROVE q[i] = s[n + i]
    <3>1. n + 1 + i - 1 = n + i
      BY <1>1
    <3>2. q[i] = s[n + 1 + i - 1]
      BY <2>2, <2>3
    <3>3. QED
      BY <3>1, <3>2
  <2>6. QED
    BY <2>2, <2>4, <2>5
<1> HIDE DEF p, q
<1> DEFINE front == p \o <<x>>
           longer == front \o q
<1>4. <<x>> \in Seq(S) /\ Len(<<x>>) = 1 /\ <<x>>[1] = x
  OBVIOUS
<1>5. /\ front \in Seq(S) /\ Len(front) = n + 1
      /\ \A i \in 1 .. n + 1 : front[i] = IF i <= n THEN p[i] ELSE x
  <2>1. /\ front \in Seq(S) /\ Len(front) = Len(p) + Len(<<x>>)
        /\ \A i \in 1 .. Len(p) + Len(<<x>>) :
               front[i] = IF i <= Len(p) THEN p[i] ELSE <<x>>[i - Len(p)]
    BY <1>2, <1>4, ConcatProperties
  <2> HIDE DEF front
  <2>2. \A i \in 1 .. n + 1 : i <= n \/ i - n = 1
    BY <1>1
  <2>3. QED
    BY <1>1, <1>2, <1>4, <2>1, <2>2
<1> HIDE DEF front
<1>6. /\ longer \in Seq(S) /\ Len(longer) = Len(s) + 1
      /\ \A i \in 1 .. Len(s) + 1 : longer[i] = IF i <= n + 1 THEN front[i] ELSE q[i - (n + 1)]
  <2>1. /\ longer \in Seq(S) /\ Len(longer) = Len(front) + Len(q)
        /\ \A i \in 1 .. Len(front) + Len(q) :
               longer[i] = IF i <= Len(front) THEN front[i] ELSE q[i - Len(front)]
    BY <1>3, <1>5, ConcatProperties
  <2> HIDE DEF longer
  <2>2. Len(front) + Len(q) = Len(s) + 1
    BY <1>1, <1>3, <1>5
  <2>3. QED
    BY <1>5, <2>1, <2>2
<1> HIDE DEF longer
<1>7. Has(longer, x)
  <2>1. n + 1 \in 1 .. Len(s) + 1 /\ n + 1 \in 1 .. n + 1 /\ ~ n + 1 <= n /\ n + 1 <= n + 1
    BY <1>1
  <2>2. longer[n + 1] = x
    BY <1>1, <1>5, <1>6, <2>1
  <2>3. n + 1 \in DOMAIN longer
    BY <1>6, <2>1
  <2>4. QED
    BY <2>2, <2>3 DEF Has
<1>8. ASSUME NEW y \in S, Has(s, y) PROVE Has(longer, y)
  <2>1. PICK i \in 1 .. Len(s) : s[i] = y
    BY <1>8 DEF Has
  <2>2. CASE i <= n
    <3>1. i \in 1 .. Len(s) + 1 /\ i \in 1 .. n + 1 /\ i \in 1 .. n /\ i <= n + 1
      BY <1>1, <2>2
    <3>2. longer[i] = y
      BY <1>1, <1>2, <1>5, <1>6, <2>1, <2>2, <3>1
    <3>3. QED
      BY <1>6, <3>1, <3>2 DEF Has
  <2>3. CASE ~ i <= n
    <3>1. /\ i + 1 \in 1 .. Len(s) + 1 /\ ~ i + 1 <= n + 1 /\ i + 1 - (n + 1) = i - n
          /\ i - n \in 1 .. Len(s) - n /\ n + (i - n) = i
      BY <1>1, <2>3
    <3>2. longer[i + 1] = q[i - n]
      BY <1>1, <1>6, <3>1
    <3>3. q[i - n] = y
      BY <1>1, <1>3, <2>1, <3>1
    <3>4. QED
      BY <1>6, <3>1, <3>2, <3>3 DEF Has
  <2>4. QED
    BY <2>2, <2>3
<1>9. QED
  BY <1>6, <1>7, <1>8 DEF longer, front, p, q

(* The place of a new element. *)
LEMMA PlaceOf ==
    ASSUME NEW S, NEW s \in Seq(S), NEW I \in SUBSET DOMAIN s
    PROVE  Cardinality(I) \in 0 .. Len(s)
<1>1. IsFiniteSet(DOMAIN s) /\ Cardinality(DOMAIN s) = Len(s) /\ Len(s) \in Nat
  <2> DEFINE n == Len(s)
  <2>1. n \in Nat /\ DOMAIN s = 1 .. n
    OBVIOUS
  <2> HIDE DEF n
  <2>2. IsFiniteSet(1 .. n) /\ Cardinality(1 .. n) = n
    BY <2>1, FS_Interval
  <2>3. QED
    BY <2>1, <2>2 DEF n
<1>2. Cardinality(I) \in Nat /\ Cardinality(I) <= Cardinality(DOMAIN s)
  BY <1>1, FS_Subset, FS_CardinalityType
<1>3. QED
  BY <1>1, <1>2

IsInOrder(g, cms) ==
    g = [s \in SUBSET cms |->
            IF s = {} THEN <<>>
            ELSE LET x == CHOOSE x1 \in s : TRUE IN Inserted(x, g[s \ {x}], Before)]

(* The instructions of a finite set in an order. *)
LEMMA InOrderType ==
    ASSUME NEW cms, IsFiniteSet(cms)
    PROVE  InOrder(cms) \in Seq(cms) /\ \A m \in cms : Has(InOrder(cms), m)
<1> DEFINE D == cms
           V == Seq(cms)
           pick == [s \in SUBSET D |-> CHOOSE x1 \in s : TRUE]
           F == [x \in D |-> [v \in V |-> Inserted(x, v, Before)]]
           iter == CHOOSE g : IsInOrder(g, cms)
           T == {s \in SUBSET D : iter[s] \in V /\ \A m \in s : Has(iter[s], m)}
<1>1. InOrder(cms) = iter[D]
  BY Zenon DEF InOrder, Sorted, FoldSet, MapThenFoldSet, IsInOrder
<1>2. IsFiniteSet(D)
  OBVIOUS
<1>3. <<>> \in V
  BY EmptySeq
<1>4. ASSUME NEW s \in SUBSET D, s # {} PROVE pick[s] \in s
  BY <1>4
<1>5. ASSUME NEW x \in D, NEW v \in V
      PROVE  /\ Inserted(x, v, Before) \in V /\ Has(Inserted(x, v, Before), x)
             /\ \A m \in D : Has(v, m) => Has(Inserted(x, v, Before), m)
  <2> DEFINE n == Cardinality({i \in DOMAIN v : Before(v[i], x)})
  <2>1. n \in 0 .. Len(v)
    BY PlaceOf
  <2> HIDE DEF n
  <2> DEFINE longer == SubSeq(v, 1, n) \o <<x>> \o SubSeq(v, n + 1, Len(v))
  <2>2. longer \in V /\ Has(longer, x) /\ \A m \in D : Has(v, m) => Has(longer, m)
    BY <2>1, PlaceType
  <2>3. Inserted(x, v, Before) = longer
    BY Zenon DEF Inserted, n
  <2> HIDE DEF longer, D, V
  <2>4. QED
    BY <2>2, <2>3, Zenon
<1>6. F \in [D -> [V -> V]]
  BY <1>5, Zenon
<1>7. \E g : IsInOrder(g, cms)
  <2>1. \E g : SetRecursive(g, D, V, <<>>, pick, F)
    <3> HIDE DEF D, V, F, pick
    <3>1. \A s \in SUBSET D : s # {} => pick[s] \in s
      BY <1>4
    <3>2. QED
      BY <1>2, <1>3, <1>6, <3>1, SetRecursion, Zenon
  <2> PICK g : SetRecursive(g, D, V, <<>>, pick, F)
    BY <2>1
  <2>2. /\ g = [s \in SUBSET D |-> g[s]] /\ \A s \in SUBSET D : g[s] \in V
        /\ \A s \in SUBSET D :
               g[s] = IF s = {} THEN <<>> ELSE F[pick[s]][g[s \ {pick[s]}]]
    <3> HIDE DEF D, V, F, pick
    <3>1. QED
      BY DEF SetRecursive
  <2>3. \A s \in SUBSET D : g[s] =
            IF s = {} THEN <<>>
            ELSE LET x == CHOOSE x1 \in s : TRUE IN Inserted(x, g[s \ {x}], Before)
    <3> TAKE s \in SUBSET D
    <3>1. CASE s = {}
      <4> HIDE DEF D, V, F, pick
      <4>1. QED
        BY <2>2, <3>1
    <3>2. CASE s # {}
      <4> DEFINE y == pick[s]
                 w == g[s \ {y}]
      <4>1. y \in s /\ y = CHOOSE x1 \in s : TRUE
        BY <1>4, <3>2
      <4> HIDE DEF pick
      <4>2. y \in D /\ s \ {y} \in SUBSET D
        BY <4>1
      <4> HIDE DEF D, V
      <4>3. w \in V /\ g[s] = F[y][w]
        <5> HIDE DEF F
        <5>1. QED
          BY <2>2, <3>2, <4>2
      <4>4. F[y][w] = Inserted(y, w, Before)
        <5> HIDE DEF y, w
        <5>1. QED
          BY <4>2, <4>3, Zenon
      <4>5. g[s] = Inserted(y, w, Before)
        BY <4>3, <4>4, Zenon
      <4> HIDE DEF y, w
      <4>6. QED
        BY <3>2, <4>1, <4>5, Zenon DEF w
    <3>3. QED
      BY <3>1, <3>2, Zenon
  <2>4. IsInOrder(g, cms)
    BY <2>2, <2>3, Zenon DEF IsInOrder
  <2>5. QED
    BY <2>4
<1>8. IsInOrder(iter, cms)
  BY <1>7, Zenon
<1> HIDE DEF iter
<1>9. \A s \in SUBSET D : iter[s] =
          IF s = {} THEN <<>>
            ELSE LET x == CHOOSE x1 \in s : TRUE IN Inserted(x, iter[s \ {x}], Before)
  BY <1>8, Zenon DEF IsInOrder
<1>10. \A s \in SUBSET D : s \in T
  <2>1. {} \in T
    <3> HIDE DEF D, V, F, pick
    <3>1. QED
      BY <1>3, <1>9
  <2>2. ASSUME NEW s \in SUBSET D, s # {} PROVE \E x \in s : s \ {x} \in T => s \in T
    <3> DEFINE y == pick[s]
               w == iter[s \ {y}]
    <3>1. y \in s /\ y = CHOOSE x1 \in s : TRUE
      BY <1>4, <2>2
    <3> HIDE DEF pick
    <3>2. y \in D /\ s \ {y} \in SUBSET D
      BY <3>1
    <3>3. iter[s] = Inserted(y, w, Before)
      <4> HIDE DEF D, V, F, y
      <4>1. QED
        BY <1>9, <2>2, <3>1, Zenon DEF w
    <3>4. w \in V => /\ iter[s] \in V /\ Has(iter[s], y)
                      /\ \A m \in D : Has(w, m) => Has(iter[s], m)
      <4> DEFINE z == Inserted(y, w, Before)
      <4>1. w \in V => /\ z \in V /\ Has(z, y)
                       /\ \A m \in D : Has(w, m) => Has(z, m)
        <5> HIDE DEF D, V, w
        <5>1. QED
          BY <1>5, <3>2, Zenon
      <4>2. iter[s] = z
        BY <3>3, Zenon
      <4> HIDE DEF z, D, V, w
      <4>3. QED
        BY <4>1, <4>2, Zenon
    <3> HIDE DEF D, V, y
    <3>5. s \ {y} \in T => s \in T
      BY <3>2, <3>4
    <3>6. QED
      BY <3>1, <3>5
  <2> HIDE DEF T, D
  <2>3. QED
    BY <1>2, <2>1, <2>2, SetUpward, Zenon
<1>11. QED
  <2>1. D \in T
    BY <1>10, Zenon
  <2>2. QED
    BY <1>1, <2>1, Zenon

IsInnerFirst(g, t, loops) ==
    g = [s \in SUBSET loops |->
            IF s = {} THEN <<>>
            ELSE LET x == CHOOSE x1 \in s : TRUE IN Inserted(x, g[s \ {x}], LAMBDA l, k : Inside(t, l, k))]

(* The loops of a finite set, the inner ones first. *)
LEMMA InnerFirstType ==
    ASSUME NEW t, NEW loops, IsFiniteSet(loops)
    PROVE  InnerFirst(t, loops) \in Seq(loops)
<1> DEFINE D == loops
           V == Seq(loops)
           pick == [s \in SUBSET D |-> CHOOSE x1 \in s : TRUE]
           F == [x \in D |-> [v \in V |-> Inserted(x, v, LAMBDA l, k : Inside(t, l, k))]]
           iter == CHOOSE g : IsInnerFirst(g, t, loops)
           T == {s \in SUBSET D : iter[s] \in V}
<1>1. InnerFirst(t, loops) = iter[D]
  BY Zenon DEF InnerFirst, Sorted, FoldSet, MapThenFoldSet, IsInnerFirst
<1>2. IsFiniteSet(D)
  OBVIOUS
<1>3. <<>> \in V
  BY EmptySeq
<1>4. ASSUME NEW s \in SUBSET D, s # {} PROVE pick[s] \in s
  BY <1>4
<1>5. ASSUME NEW x \in D, NEW v \in V PROVE Inserted(x, v, LAMBDA l, k : Inside(t, l, k)) \in V
  <2> DEFINE n == Cardinality({i \in DOMAIN v : Inside(t, v[i], x)})
  <2>1. n \in 0 .. Len(v)
    BY PlaceOf
  <2> HIDE DEF n
  <2>2. SubSeq(v, 1, n) \o <<x>> \o SubSeq(v, n + 1, Len(v)) \in V
    BY <2>1, PlaceType
  <2>3. QED
    BY <2>2, Zenon DEF Inserted, n
<1>6. F \in [D -> [V -> V]]
  BY <1>5, Zenon
<1>7. \E g : IsInnerFirst(g, t, loops)
  <2>1. \E g : SetRecursive(g, D, V, <<>>, pick, F)
    <3> HIDE DEF D, V, F, pick
    <3>1. \A s \in SUBSET D : s # {} => pick[s] \in s
      BY <1>4
    <3>2. QED
      BY <1>2, <1>3, <1>6, <3>1, SetRecursion, Zenon
  <2> PICK g : SetRecursive(g, D, V, <<>>, pick, F)
    BY <2>1
  <2>2. /\ g = [s \in SUBSET D |-> g[s]] /\ \A s \in SUBSET D : g[s] \in V
        /\ \A s \in SUBSET D :
               g[s] = IF s = {} THEN <<>> ELSE F[pick[s]][g[s \ {pick[s]}]]
    <3> HIDE DEF D, V, F, pick
    <3>1. QED
      BY DEF SetRecursive
  <2>3. \A s \in SUBSET D : g[s] =
            IF s = {} THEN <<>>
            ELSE LET x == CHOOSE x1 \in s : TRUE IN Inserted(x, g[s \ {x}], LAMBDA l, k : Inside(t, l, k))
    <3> TAKE s \in SUBSET D
    <3>1. CASE s = {}
      <4> HIDE DEF D, V, F, pick
      <4>1. QED
        BY <2>2, <3>1
    <3>2. CASE s # {}
      <4> DEFINE y == pick[s]
                 w == g[s \ {y}]
      <4>1. y \in s /\ y = CHOOSE x1 \in s : TRUE
        BY <1>4, <3>2
      <4> HIDE DEF pick
      <4>2. y \in D /\ s \ {y} \in SUBSET D
        BY <4>1
      <4> HIDE DEF D, V
      <4>3. w \in V /\ g[s] = F[y][w]
        <5> HIDE DEF F
        <5>1. QED
          BY <2>2, <3>2, <4>2
      <4>4. F[y][w] = Inserted(y, w, LAMBDA l, k : Inside(t, l, k))
        <5> HIDE DEF y, w
        <5>1. QED
          BY <4>2, <4>3, Zenon
      <4>5. g[s] = Inserted(y, w, LAMBDA l, k : Inside(t, l, k))
        BY <4>3, <4>4, Zenon
      <4> HIDE DEF y, w
      <4>6. QED
        BY <3>2, <4>1, <4>5, Zenon DEF w
    <3>3. QED
      BY <3>1, <3>2, Zenon
  <2>4. IsInnerFirst(g, t, loops)
    BY <2>2, <2>3, Zenon DEF IsInnerFirst
  <2>5. QED
    BY <2>4
<1>8. IsInnerFirst(iter, t, loops)
  BY <1>7, Zenon
<1> HIDE DEF iter
<1>9. \A s \in SUBSET D : iter[s] =
          IF s = {} THEN <<>>
            ELSE LET x == CHOOSE x1 \in s : TRUE IN Inserted(x, iter[s \ {x}], LAMBDA l, k : Inside(t, l, k))
  BY <1>8, Zenon DEF IsInnerFirst
<1>10. \A s \in SUBSET D : s \in T
  <2>1. {} \in T
    <3> HIDE DEF D, V, F, pick
    <3>1. QED
      BY <1>3, <1>9
  <2>2. ASSUME NEW s \in SUBSET D, s # {} PROVE \E x \in s : s \ {x} \in T => s \in T
    <3> DEFINE y == pick[s]
               w == iter[s \ {y}]
    <3>1. y \in s /\ y = CHOOSE x1 \in s : TRUE
      BY <1>4, <2>2
    <3> HIDE DEF pick
    <3>2. y \in D /\ s \ {y} \in SUBSET D
      BY <3>1
    <3>3. iter[s] = Inserted(y, w, LAMBDA l, k : Inside(t, l, k))
      <4> HIDE DEF D, V, F, y
      <4>1. QED
        BY <1>9, <2>2, <3>1, Zenon DEF w
    <3>4. w \in V => iter[s] \in V
      BY <1>5, <3>2, <3>3, Zenon
    <3> HIDE DEF D, V, y
    <3>5. s \ {y} \in T => s \in T
      BY <3>2, <3>4
    <3>6. QED
      BY <3>1, <3>5
  <2> HIDE DEF T, D
  <2>3. QED
    BY <1>2, <2>1, <2>2, SetUpward, Zenon
<1>11. QED
  BY <1>1, <1>10, Zenon

(* The loops around an instruction. *)
LEMMA LocalLoopsType ==
    ASSUME NEW t, IsFiniteSet(DOMAIN t.loops), NEW mi
    PROVE  LocalLoops(t, mi) \in Seq(DOMAIN t.loops)
<1> DEFINE near == {l \in DOMAIN t.loops : Near(t, l, BlockOf(t, mi))}
           found == {l \in near : ~\E s \in near : IsSubLoop(t, s, l)}
           around == {l \in DOMAIN t.loops : l = Min(found) \/ Inside(t, Min(found), l)}
<1>1. around \subseteq DOMAIN t.loops
  OBVIOUS
<1>2. IsFiniteSet(around)
  BY <1>1, FS_Subset
<1>3. LocalLoops(t, mi) = <<>> \/ LocalLoops(t, mi) = InnerFirst(t, around)
  BY Zenon DEF LocalLoops
<1> HIDE DEF around
<1>4. InnerFirst(t, around) \in Seq(around)
  BY <1>2, InnerFirstType
<1>5. InnerFirst(t, around) \in Seq(DOMAIN t.loops) /\ <<>> \in Seq(DOMAIN t.loops)
  BY <1>1, <1>4, EmptySeq
<1>6. QED
  BY <1>3, <1>5

IsLoopStack(g, t, seq) ==
    g = [s \in SUBSET DOMAIN seq |->
            IF s = {} THEN <<>>
            ELSE LET x == Max(s) IN LocalLoops(t, seq[x]) \o g[s \ {x}]]

(* The loops around an instruction and around the calls that lead to it. *)
LEMMA LoopStackType ==
    ASSUME NEW t, IsFiniteSet(DOMAIN t.loops), NEW seq, NEW U, seq \in Seq(U),
           NEW cm, seq = Append(cm.sites, cm.mi)
    PROVE  LoopStack(t, cm) \in Seq(DOMAIN t.loops)
<1> DEFINE D == DOMAIN seq
           V == Seq(DOMAIN t.loops)
           pick == [s \in SUBSET D |-> Max(s)]
           F == [x \in D |-> [v \in V |-> LocalLoops(t, seq[x]) \o v]]
           iter == CHOOSE g : IsLoopStack(g, t, seq)
           T == {s \in SUBSET D : iter[s] \in V}
<1>1. LoopStack(t, cm) = iter[D]
  BY Zenon DEF LoopStack, FoldLeft, MapThenFoldSet, IsLoopStack
<1>2. IsFiniteSet(D)
  <2>1. Len(seq) \in Nat
    BY LenProperties
  <2>2. IsFiniteSet(1 .. Len(seq))
    BY <2>1, FS_Interval
  <2>3. QED
    BY <2>2, LenProperties
<1>3. <<>> \in V
  BY EmptySeq
<1>4. ASSUME NEW s \in SUBSET D, s # {} PROVE pick[s] \in s
  <2>1. s \subseteq Nat /\ IsFiniteSet(s)
    BY <1>2, FS_Subset
  <2>2. \E m \in s : \A k \in s : k <= m
    BY <1>4, <2>1, GreatestNumber
  <2>3. Max(s) \in s
    BY <2>1, <2>2 DEF Max
  <2>4. QED
    BY <2>3
<1>5. ASSUME NEW x \in D, NEW v \in V PROVE LocalLoops(t, seq[x]) \o v \in V
  BY LocalLoopsType, ConcatProperties
<1>6. F \in [D -> [V -> V]]
  BY <1>5, Zenon
<1>7. \E g : IsLoopStack(g, t, seq)
  <2>1. \E g : SetRecursive(g, D, V, <<>>, pick, F)
    <3> HIDE DEF D, V, F, pick
    <3>1. \A s \in SUBSET D : s # {} => pick[s] \in s
      BY <1>4
    <3>2. QED
      BY <1>2, <1>3, <1>6, <3>1, SetRecursion, Zenon
  <2> PICK g : SetRecursive(g, D, V, <<>>, pick, F)
    BY <2>1
  <2>2. /\ g = [s \in SUBSET D |-> g[s]] /\ \A s \in SUBSET D : g[s] \in V
        /\ \A s \in SUBSET D :
               g[s] = IF s = {} THEN <<>> ELSE F[pick[s]][g[s \ {pick[s]}]]
    <3> HIDE DEF D, V, F, pick
    <3>1. QED
      BY DEF SetRecursive
  <2>3. \A s \in SUBSET D : g[s] =
            IF s = {} THEN <<>>
            ELSE LET x == Max(s) IN LocalLoops(t, seq[x]) \o g[s \ {x}]
    <3> TAKE s \in SUBSET D
    <3>1. CASE s = {}
      <4> HIDE DEF D, V, F, pick
      <4>1. QED
        BY <2>2, <3>1
    <3>2. CASE s # {}
      <4> DEFINE y == pick[s]
                 w == g[s \ {y}]
      <4>1. y \in s /\ y = Max(s)
        BY <1>4, <3>2
      <4> HIDE DEF pick
      <4>2. y \in D /\ s \ {y} \in SUBSET D
        BY <4>1
      <4> HIDE DEF D, V
      <4>3. w \in V /\ g[s] = F[y][w]
        <5> HIDE DEF F
        <5>1. QED
          BY <2>2, <3>2, <4>2
      <4>4. F[y][w] = LocalLoops(t, seq[y]) \o w
        <5> HIDE DEF y, w
        <5>1. QED
          BY <4>2, <4>3, Zenon
      <4>5. g[s] = LocalLoops(t, seq[y]) \o w
        BY <4>3, <4>4, Zenon
      <4> HIDE DEF y, w
      <4>6. QED
        BY <3>2, <4>1, <4>5, Zenon DEF w
    <3>3. QED
      BY <3>1, <3>2, Zenon
  <2>4. IsLoopStack(g, t, seq)
    BY <2>2, <2>3, Zenon DEF IsLoopStack
  <2>5. QED
    BY <2>4
<1>8. IsLoopStack(iter, t, seq)
  BY <1>7, Zenon
<1> HIDE DEF iter
<1>9. \A s \in SUBSET D : iter[s] =
          IF s = {} THEN <<>>
            ELSE LET x == Max(s) IN LocalLoops(t, seq[x]) \o iter[s \ {x}]
  BY <1>8, Zenon DEF IsLoopStack
<1>10. \A s \in SUBSET D : s \in T
  <2>1. {} \in T
    <3> HIDE DEF D, V, F, pick
    <3>1. QED
      BY <1>3, <1>9
  <2>2. ASSUME NEW s \in SUBSET D, s # {} PROVE \E x \in s : s \ {x} \in T => s \in T
    <3> DEFINE y == pick[s]
               w == iter[s \ {y}]
    <3>1. y \in s /\ y = Max(s)
      BY <1>4, <2>2
    <3> HIDE DEF pick
    <3>2. y \in D /\ s \ {y} \in SUBSET D
      BY <3>1
    <3>3. iter[s] = LocalLoops(t, seq[y]) \o w
      <4> HIDE DEF D, V, F, y
      <4>1. QED
        BY <1>9, <2>2, <3>1, Zenon DEF w
    <3>4. w \in V => iter[s] \in V
      BY <1>5, <3>2, <3>3, Zenon
    <3> HIDE DEF D, V, y
    <3>5. s \ {y} \in T => s \in T
      BY <3>2, <3>4
    <3>6. QED
      BY <3>1, <3>5
  <2> HIDE DEF T, D
  <2>3. QED
    BY <1>2, <2>1, <2>2, SetUpward, Zenon
<1>11. QED
  BY <1>1, <1>10, Zenon

IsLocalBound(g, t, mi) ==
    g = [s \in SUBSET LoopsAround(t, mi) |->
            IF s = {} THEN 1
            ELSE LET x == CHOOSE x1 \in s : TRUE IN g[s \ {x}] * t.loops[x].bound]

(* How often the loops around an instruction execute it. *)
LEMMA LocalBoundType ==
    ASSUME NEW t, IsFiniteSet(DOMAIN t.loops), \A l \in DOMAIN t.loops : t.loops[l].bound \in Nat, NEW mi
    PROVE  LocalBound(t, mi) \in Nat
<1> DEFINE D == LoopsAround(t, mi)
           V == Nat
           pick == [s \in SUBSET D |-> CHOOSE x1 \in s : TRUE]
           F == [x \in D |-> [v \in V |-> v * t.loops[x].bound]]
           iter == CHOOSE g : IsLocalBound(g, t, mi)
           T == {s \in SUBSET D : iter[s] \in V}
<1>1. LocalBound(t, mi) = iter[D]
  BY Zenon DEF LocalBound, FoldSet, MapThenFoldSet, IsLocalBound
<1>2. IsFiniteSet(D)
  BY FS_Subset DEF LoopsAround
<1>3. 1 \in V
  OBVIOUS
<1>4. ASSUME NEW s \in SUBSET D, s # {} PROVE pick[s] \in s
  BY <1>4
<1>5. ASSUME NEW x \in D, NEW v \in V PROVE v * t.loops[x].bound \in V
  <2> DEFINE b == t.loops[x].bound
  <2>1. b \in Nat /\ v \in Nat
    BY DEF LoopsAround
  <2> HIDE DEF b
  <2>2. v * b \in Nat
    BY <2>1
  <2>3. QED
    BY <2>2 DEF b
<1>6. F \in [D -> [V -> V]]
  BY <1>5, Zenon
<1>7. \E g : IsLocalBound(g, t, mi)
  <2>1. \E g : SetRecursive(g, D, V, 1, pick, F)
    <3> HIDE DEF D, V, F, pick
    <3>1. \A s \in SUBSET D : s # {} => pick[s] \in s
      BY <1>4
    <3>2. QED
      BY <1>2, <1>3, <1>6, <3>1, SetRecursion, Zenon
  <2> PICK g : SetRecursive(g, D, V, 1, pick, F)
    BY <2>1
  <2>2. /\ g = [s \in SUBSET D |-> g[s]] /\ \A s \in SUBSET D : g[s] \in V
        /\ \A s \in SUBSET D :
               g[s] = IF s = {} THEN 1 ELSE F[pick[s]][g[s \ {pick[s]}]]
    <3> HIDE DEF D, V, F, pick
    <3>1. QED
      BY DEF SetRecursive
  <2>3. \A s \in SUBSET D : g[s] =
            IF s = {} THEN 1
            ELSE LET x == CHOOSE x1 \in s : TRUE IN g[s \ {x}] * t.loops[x].bound
    <3> TAKE s \in SUBSET D
    <3>1. CASE s = {}
      <4> HIDE DEF D, V, F, pick
      <4>1. QED
        BY <2>2, <3>1
    <3>2. CASE s # {}
      <4> DEFINE y == pick[s]
                 w == g[s \ {y}]
      <4>1. y \in s /\ y = CHOOSE x1 \in s : TRUE
        BY <1>4, <3>2
      <4> HIDE DEF pick
      <4>2. y \in D /\ s \ {y} \in SUBSET D
        BY <4>1
      <4> HIDE DEF D, V
      <4>3. w \in V /\ g[s] = F[y][w]
        <5> HIDE DEF F
        <5>1. QED
          BY <2>2, <3>2, <4>2
      <4>4. F[y][w] = w * t.loops[y].bound
        <5> HIDE DEF y, w
        <5>1. QED
          BY <4>2, <4>3, Zenon
      <4>5. g[s] = w * t.loops[y].bound
        BY <4>3, <4>4, Zenon
      <4> HIDE DEF y, w
      <4>6. QED
        BY <3>2, <4>1, <4>5, Zenon DEF w
    <3>3. QED
      BY <3>1, <3>2, Zenon
  <2>4. IsLocalBound(g, t, mi)
    BY <2>2, <2>3, Zenon DEF IsLocalBound
  <2>5. QED
    BY <2>4
<1>8. IsLocalBound(iter, t, mi)
  BY <1>7, Zenon
<1> HIDE DEF iter
<1>9. \A s \in SUBSET D : iter[s] =
          IF s = {} THEN 1
            ELSE LET x == CHOOSE x1 \in s : TRUE IN iter[s \ {x}] * t.loops[x].bound
  BY <1>8, Zenon DEF IsLocalBound
<1>10. \A s \in SUBSET D : s \in T
  <2>1. {} \in T
    <3> HIDE DEF D, V, F, pick
    <3>1. QED
      BY <1>3, <1>9
  <2>2. ASSUME NEW s \in SUBSET D, s # {} PROVE \E x \in s : s \ {x} \in T => s \in T
    <3> DEFINE y == pick[s]
               w == iter[s \ {y}]
    <3>1. y \in s /\ y = CHOOSE x1 \in s : TRUE
      BY <1>4, <2>2
    <3> HIDE DEF pick
    <3>2. y \in D /\ s \ {y} \in SUBSET D
      BY <3>1
    <3>3. iter[s] = w * t.loops[y].bound
      <4> HIDE DEF D, V, F, y
      <4>1. QED
        BY <1>9, <2>2, <3>1, Zenon DEF w
    <3>4. w \in V => iter[s] \in V
      BY <1>5, <3>2, <3>3, Zenon
    <3> HIDE DEF D, V, y
    <3>5. s \ {y} \in T => s \in T
      BY <3>2, <3>4
    <3>6. QED
      BY <3>1, <3>5
  <2> HIDE DEF T, D
  <2>3. QED
    BY <1>2, <2>1, <2>2, SetUpward, Zenon
<1>11. QED
  BY <1>1, <1>10, Zenon

ProductOfBounds(t, seq) == FoldLeft(LAMBDA n, mi : n * LocalBound(t, mi), 1, seq)

IsProductOfBounds(g, t, seq) ==
    g = [s \in SUBSET DOMAIN seq |->
            IF s = {} THEN 1
            ELSE LET x == Max(s) IN g[s \ {x}] * LocalBound(t, seq[x])]

(* The product of the bounds around calls. *)
LEMMA ProductOfBoundsType ==
    ASSUME NEW t, IsFiniteSet(DOMAIN t.loops), \A l \in DOMAIN t.loops : t.loops[l].bound \in Nat,
           NEW seq, NEW U, seq \in Seq(U)
    PROVE  ProductOfBounds(t, seq) \in Nat
<1> DEFINE D == DOMAIN seq
           V == Nat
           pick == [s \in SUBSET D |-> Max(s)]
           F == [x \in D |-> [v \in V |-> v * LocalBound(t, seq[x])]]
           iter == CHOOSE g : IsProductOfBounds(g, t, seq)
           T == {s \in SUBSET D : iter[s] \in V}
<1>1. ProductOfBounds(t, seq) = iter[D]
  BY Zenon DEF ProductOfBounds, FoldLeft, MapThenFoldSet, IsProductOfBounds
<1>2. IsFiniteSet(D)
  <2>1. Len(seq) \in Nat
    BY LenProperties
  <2>2. IsFiniteSet(1 .. Len(seq))
    BY <2>1, FS_Interval
  <2>3. QED
    BY <2>2, LenProperties
<1>3. 1 \in V
  OBVIOUS
<1>4. ASSUME NEW s \in SUBSET D, s # {} PROVE pick[s] \in s
  <2>1. s \subseteq Nat /\ IsFiniteSet(s)
    BY <1>2, FS_Subset
  <2>2. \E m \in s : \A k \in s : k <= m
    BY <1>4, <2>1, GreatestNumber
  <2>3. Max(s) \in s
    BY <2>1, <2>2 DEF Max
  <2>4. QED
    BY <2>3
<1>5. ASSUME NEW x \in D, NEW v \in V PROVE v * LocalBound(t, seq[x]) \in V
  <2> DEFINE b == LocalBound(t, seq[x])
  <2>1. b \in Nat /\ v \in Nat
    BY LocalBoundType
  <2> HIDE DEF b
  <2>2. v * b \in Nat
    BY <2>1
  <2>3. QED
    BY <2>2 DEF b
<1>6. F \in [D -> [V -> V]]
  BY <1>5, Zenon
<1>7. \E g : IsProductOfBounds(g, t, seq)
  <2>1. \E g : SetRecursive(g, D, V, 1, pick, F)
    <3> HIDE DEF D, V, F, pick
    <3>1. \A s \in SUBSET D : s # {} => pick[s] \in s
      BY <1>4
    <3>2. QED
      BY <1>2, <1>3, <1>6, <3>1, SetRecursion, Zenon
  <2> PICK g : SetRecursive(g, D, V, 1, pick, F)
    BY <2>1
  <2>2. /\ g = [s \in SUBSET D |-> g[s]] /\ \A s \in SUBSET D : g[s] \in V
        /\ \A s \in SUBSET D :
               g[s] = IF s = {} THEN 1 ELSE F[pick[s]][g[s \ {pick[s]}]]
    <3> HIDE DEF D, V, F, pick
    <3>1. QED
      BY DEF SetRecursive
  <2>3. \A s \in SUBSET D : g[s] =
            IF s = {} THEN 1
            ELSE LET x == Max(s) IN g[s \ {x}] * LocalBound(t, seq[x])
    <3> TAKE s \in SUBSET D
    <3>1. CASE s = {}
      <4> HIDE DEF D, V, F, pick
      <4>1. QED
        BY <2>2, <3>1
    <3>2. CASE s # {}
      <4> DEFINE y == pick[s]
                 w == g[s \ {y}]
      <4>1. y \in s /\ y = Max(s)
        BY <1>4, <3>2
      <4> HIDE DEF pick
      <4>2. y \in D /\ s \ {y} \in SUBSET D
        BY <4>1
      <4> HIDE DEF D, V
      <4>3. w \in V /\ g[s] = F[y][w]
        <5> HIDE DEF F
        <5>1. QED
          BY <2>2, <3>2, <4>2
      <4>4. F[y][w] = w * LocalBound(t, seq[y])
        <5> HIDE DEF y, w
        <5>1. QED
          BY <4>2, <4>3, Zenon
      <4>5. g[s] = w * LocalBound(t, seq[y])
        BY <4>3, <4>4, Zenon
      <4> HIDE DEF y, w
      <4>6. QED
        BY <3>2, <4>1, <4>5, Zenon DEF w
    <3>3. QED
      BY <3>1, <3>2, Zenon
  <2>4. IsProductOfBounds(g, t, seq)
    BY <2>2, <2>3, Zenon DEF IsProductOfBounds
  <2>5. QED
    BY <2>4
<1>8. IsProductOfBounds(iter, t, seq)
  BY <1>7, Zenon
<1> HIDE DEF iter
<1>9. \A s \in SUBSET D : iter[s] =
          IF s = {} THEN 1
            ELSE LET x == Max(s) IN iter[s \ {x}] * LocalBound(t, seq[x])
  BY <1>8, Zenon DEF IsProductOfBounds
<1>10. \A s \in SUBSET D : s \in T
  <2>1. {} \in T
    <3> HIDE DEF D, V, F, pick
    <3>1. QED
      BY <1>3, <1>9
  <2>2. ASSUME NEW s \in SUBSET D, s # {} PROVE \E x \in s : s \ {x} \in T => s \in T
    <3> DEFINE y == pick[s]
               w == iter[s \ {y}]
    <3>1. y \in s /\ y = Max(s)
      BY <1>4, <2>2
    <3> HIDE DEF pick
    <3>2. y \in D /\ s \ {y} \in SUBSET D
      BY <3>1
    <3>3. iter[s] = w * LocalBound(t, seq[y])
      <4> HIDE DEF D, V, F, y
      <4>1. QED
        BY <1>9, <2>2, <3>1, Zenon DEF w
    <3>4. w \in V => iter[s] \in V
      BY <1>5, <3>2, <3>3, Zenon
    <3> HIDE DEF D, V, y
    <3>5. s \ {y} \in T => s \in T
      BY <3>2, <3>4
    <3>6. QED
      BY <3>1, <3>5
  <2> HIDE DEF T, D
  <2>3. QED
    BY <1>2, <2>1, <2>2, SetUpward, Zenon
<1>11. QED
  BY <1>1, <1>10, Zenon

(* How often an instruction is executed. *)
LEMMA CountType ==
    ASSUME NEW t, IsFiniteSet(DOMAIN t.loops), \A l \in DOMAIN t.loops : t.loops[l].bound \in Nat,
           NEW U, NEW cm, Append(cm.sites, cm.mi) \in Seq(U)
    PROVE  Count(t, cm) \in Nat \ {0}
<1> DEFINE seq == Append(cm.sites, cm.mi)
           n == ProductOfBounds(t, seq)
<1>1. n \in Nat
  <2>1. seq \in Seq(U)
    OBVIOUS
  <2> HIDE DEF seq
  <2>2. QED
    BY <2>1, ProductOfBoundsType
<1>2. Count(t, cm) = Max({1, n})
  BY Zenon DEF Count, ProductOfBounds
<1> HIDE DEF n
<1>3. Max({1, n}) \in Nat \ {0}
  <2>1. \E m \in {1, n} : \A k \in {1, n} : m >= k
    BY <1>1
  <2>2. Max({1, n}) \in {1, n} /\ Max({1, n}) >= 1
    BY <2>1 DEF Max
  <2>3. QED
    BY <1>1, <2>2
<1>4. QED
  BY <1>2, <1>3

SumOfCounts(list) == FoldLeft(LAMBDA n, b : n + b.count, 0, list)

IsSumOfCounts(g, list) ==
    g = [s \in SUBSET DOMAIN list |->
            IF s = {} THEN 0
            ELSE LET x == Max(s) IN g[s \ {x}] + list[x].count]

(* The counts of a list of blocks. *)
LEMMA SumOfCountsType ==
    ASSUME NEW list \in Seq(Blocks)
    PROVE  SumOfCounts(list) \in Int
<1> DEFINE D == DOMAIN list
           V == Int
           pick == [s \in SUBSET D |-> Max(s)]
           F == [x \in D |-> [v \in V |-> v + list[x].count]]
           iter == CHOOSE g : IsSumOfCounts(g, list)
           T == {s \in SUBSET D : iter[s] \in V}
<1>1. SumOfCounts(list) = iter[D]
  BY Zenon DEF SumOfCounts, FoldLeft, MapThenFoldSet, IsSumOfCounts
<1>2. IsFiniteSet(D)
  <2>1. Len(list) \in Nat
    BY LenProperties
  <2>2. IsFiniteSet(1 .. Len(list))
    BY <2>1, FS_Interval
  <2>3. QED
    BY <2>2, LenProperties
<1>3. 0 \in V
  OBVIOUS
<1>4. ASSUME NEW s \in SUBSET D, s # {} PROVE pick[s] \in s
  <2>1. s \subseteq Nat /\ IsFiniteSet(s)
    BY <1>2, FS_Subset
  <2>2. \E m \in s : \A k \in s : k <= m
    BY <1>4, <2>1, GreatestNumber
  <2>3. Max(s) \in s
    BY <2>1, <2>2 DEF Max
  <2>4. QED
    BY <2>3
<1>5. ASSUME NEW x \in D, NEW v \in V PROVE v + list[x].count \in V
  <2>1. list[x] \in Blocks
    OBVIOUS
  <2>2. list[x].count \in Int
    BY <2>1, BlockType
  <2>3. QED
    BY <2>2
<1>6. F \in [D -> [V -> V]]
  BY <1>5, Zenon
<1>7. \E g : IsSumOfCounts(g, list)
  <2>1. \E g : SetRecursive(g, D, V, 0, pick, F)
    <3> HIDE DEF D, V, F, pick
    <3>1. \A s \in SUBSET D : s # {} => pick[s] \in s
      BY <1>4
    <3>2. QED
      BY <1>2, <1>3, <1>6, <3>1, SetRecursion, Zenon
  <2> PICK g : SetRecursive(g, D, V, 0, pick, F)
    BY <2>1
  <2>2. /\ g = [s \in SUBSET D |-> g[s]] /\ \A s \in SUBSET D : g[s] \in V
        /\ \A s \in SUBSET D :
               g[s] = IF s = {} THEN 0 ELSE F[pick[s]][g[s \ {pick[s]}]]
    <3> HIDE DEF D, V, F, pick
    <3>1. QED
      BY DEF SetRecursive
  <2>3. \A s \in SUBSET D : g[s] =
            IF s = {} THEN 0
            ELSE LET x == Max(s) IN g[s \ {x}] + list[x].count
    <3> TAKE s \in SUBSET D
    <3>1. CASE s = {}
      <4> HIDE DEF D, V, F, pick
      <4>1. QED
        BY <2>2, <3>1
    <3>2. CASE s # {}
      <4> DEFINE y == pick[s]
                 w == g[s \ {y}]
      <4>1. y \in s /\ y = Max(s)
        BY <1>4, <3>2
      <4> HIDE DEF pick
      <4>2. y \in D /\ s \ {y} \in SUBSET D
        BY <4>1
      <4> HIDE DEF D, V
      <4>3. w \in V /\ g[s] = F[y][w]
        <5> HIDE DEF F
        <5>1. QED
          BY <2>2, <3>2, <4>2
      <4>4. F[y][w] = w + list[y].count
        <5> HIDE DEF y, w
        <5>1. QED
          BY <4>2, <4>3, Zenon
      <4>5. g[s] = w + list[y].count
        BY <4>3, <4>4, Zenon
      <4> HIDE DEF y, w
      <4>6. QED
        BY <3>2, <4>1, <4>5, Zenon DEF w
    <3>3. QED
      BY <3>1, <3>2, Zenon
  <2>4. IsSumOfCounts(g, list)
    BY <2>2, <2>3, Zenon DEF IsSumOfCounts
  <2>5. QED
    BY <2>4
<1>8. IsSumOfCounts(iter, list)
  BY <1>7, Zenon
<1> HIDE DEF iter
<1>9. \A s \in SUBSET D : iter[s] =
          IF s = {} THEN 0
            ELSE LET x == Max(s) IN iter[s \ {x}] + list[x].count
  BY <1>8, Zenon DEF IsSumOfCounts
<1>10. \A s \in SUBSET D : s \in T
  <2>1. {} \in T
    <3> HIDE DEF D, V, F, pick
    <3>1. QED
      BY <1>3, <1>9
  <2>2. ASSUME NEW s \in SUBSET D, s # {} PROVE \E x \in s : s \ {x} \in T => s \in T
    <3> DEFINE y == pick[s]
               w == iter[s \ {y}]
    <3>1. y \in s /\ y = Max(s)
      BY <1>4, <2>2
    <3> HIDE DEF pick
    <3>2. y \in D /\ s \ {y} \in SUBSET D
      BY <3>1
    <3>3. iter[s] = w + list[y].count
      <4> HIDE DEF D, V, F, y
      <4>1. QED
        BY <1>9, <2>2, <3>1, Zenon DEF w
    <3>4. w \in V => iter[s] \in V
      BY <1>5, <3>2, <3>3, Zenon
    <3> HIDE DEF D, V, y
    <3>5. s \ {y} \in T => s \in T
      BY <3>2, <3>4
    <3>6. QED
      BY <3>1, <3>5
  <2> HIDE DEF T, D
  <2>3. QED
    BY <1>2, <2>1, <2>2, SetUpward, Zenon
<1>11. QED
  BY <1>1, <1>10, Zenon

-----------------------------------------------------------------------------
(* The blocks of a path. *)

(* What the proofs use of a task. *)
LEMMA TaskType ==
    ASSUME NEW t, IsTask(t)
    PROVE  IsFiniteSet(DOMAIN t.loops) /\ \A l \in DOMAIN t.loops : t.loops[l].bound \in Nat
BY DEF IsTask

(* The call sites and the instruction are instructions of the task. *)
LEMMA SitesType ==
    ASSUME NEW t, IsTask(t), NEW cm \in CtxMI(t)
    PROVE  Append(cm.sites, cm.mi) \in Seq(Instructions(t)) /\ cm.mi \in Instructions(t)
<1>1. cm.mi \in Instructions(t) /\ cm.sites \in Seq(DOMAIN t.callees)
  BY DEF CtxMI
<1>2. DOMAIN t.callees \subseteq Instructions(t)
  BY DEF IsTask
<1>3. cm.sites \in Seq(Instructions(t))
  BY <1>1, <1>2
<1>4. QED
  BY <1>1, <1>3, AppendProperties

(* A sequence backwards. *)
LEMMA ReverseType ==
    ASSUME NEW S, NEW s \in Seq(S)
    PROVE  Reverse(s) \in Seq(S)
<1> DEFINE n == Len(s)
<1>1. n \in Nat /\ \A i \in 1 .. n : s[(n - i) + 1] \in S
  OBVIOUS
<1>2. Reverse(s) = [i \in 1 .. n |-> s[(n - i) + 1]]
  BY DEF Reverse
<1> HIDE DEF n
<1>3. QED
  BY <1>1, <1>2

(* The loops in which a line persists are loops in which it does. *)
LEMMA PersistsInType ==
    ASSUME NEW t, IsTask(t), NEW cm \in CtxMI(t)
    PROVE  /\ PersistsIn(t, cm) \in Seq(DOMAIN t.loops)
           /\ \A i \in DOMAIN PersistsIn(t, cm) : cm.mi \in DOMAIN t.loops[PersistsIn(t, cm)[i]].ps
<1> DEFINE loops == Reverse(LoopStack(t, cm))
           keep == {i \in DOMAIN loops : cm.mi \in DOMAIN t.loops[loops[i]].ps}
           seq == Append(cm.sites, cm.mi)
<1>1. LoopStack(t, cm) \in Seq(DOMAIN t.loops)
  <2>1. seq \in Seq(Instructions(t))
    BY SitesType
  <2>2. seq = Append(cm.sites, cm.mi)
    OBVIOUS
  <2> HIDE DEF seq
  <2>3. QED
    BY <2>1, <2>2, TaskType, LoopStackType
<1>2. loops \in Seq(DOMAIN t.loops)
  BY <1>1, ReverseType
<1>3. PersistsIn(t, cm) = Those(loops, keep)
  BY Zenon DEF PersistsIn
<1>4. \A i \in keep : cm.mi \in DOMAIN t.loops[loops[i]].ps
  OBVIOUS
<1> HIDE DEF loops, keep
<1>5. /\ Those(loops, keep) \in Seq(DOMAIN t.loops)
      /\ \A k \in DOMAIN Those(loops, keep) :
             \E i \in DOMAIN loops : i \in keep /\ Those(loops, keep)[k] = loops[i]
  BY <1>2, ThoseType
<1>6. QED
  BY <1>3, <1>4, <1>5

(* A line that persists has room for another line. *)
LEMMA CapType ==
    ASSUME NEW c \in Nat
    PROVE  Cap(c) \in Nat /\ (c <= L2assoc => Cap(c) > 0)
<1> DEFINE n == L2assoc - c + 1
           max == IF n >= 0 THEN n ELSE 0
<1>1. n \in Int /\ (c <= L2assoc => n > 0)
  BY AssociativityAssumption
<1>2. Cap(c) = Max({n, 0})
  BY DEF Cap
<1> HIDE DEF n
<1>3. max \in {n, 0} /\ max \in Int /\ \A k \in {n, 0} : max >= k
  BY <1>1
<1>4. Max({n, 0}) \in {n, 0} /\ \A k \in {n, 0} : Max({n, 0}) >= k
  BY <1>3 DEF Max
<1>5. QED
  BY <1>1, <1>2, <1>4

(* A block. *)
LEMMA MakesBlock ==
    ASSUME NEW mi \in DOMAIN SetOf, NEW count \in Int, NEW age \in Int, NEW cap \in Int,
           NEW cl \in Classes, cl = "CL2_PS" => cap > 0 /\ count >= 0
    PROVE  Block(mi, count, age, cap, cl) \in Blocks
BY DEF Block, Blocks, Classes

(* The blocks of a line that persists in loops. *)
LEMMA PSTripleType ==
    ASSUME NEW t, IsTask(t), FitsCache(t), NEW cm \in CtxMI(t)
    PROVE  PSTriple(t, cm) \in Seq(Blocks)
<1> DEFINE scopes == PersistsIn(t, cm)
           keep == {i \in DOMAIN scopes : t.loops[scopes[i]].bound > 1}
           repeated == Those(scopes, keep)
           block(l) == Block(cm.mi, t.loops[l].bound - 1, -1, Cap(t.loops[l].ps[cm.mi].conflicts),
                             IF t.loops[l].ps[cm.mi].level = 1 THEN "CL_PS" ELSE "CL2_PS")
<1>1. /\ scopes \in Seq(DOMAIN t.loops)
      /\ \A i \in DOMAIN scopes : cm.mi \in DOMAIN t.loops[scopes[i]].ps
  BY PersistsInType
<1>2. PSTriple(t, cm) = [i \in DOMAIN repeated |-> block(repeated[i])]
  BY Zenon DEF PSTriple
<1>3. \A i \in keep : i \in DOMAIN scopes /\ t.loops[scopes[i]].bound > 1
  OBVIOUS
<1> HIDE DEF scopes, keep
<1>4. /\ repeated \in Seq(DOMAIN t.loops)
      /\ \A k \in DOMAIN repeated : \E i \in DOMAIN scopes : i \in keep /\ repeated[k] = scopes[i]
  BY <1>1, ThoseType
<1> HIDE DEF repeated
<1>5. ASSUME NEW k \in DOMAIN repeated PROVE block(repeated[k]) \in Blocks
  <2> DEFINE l == repeated[k]
  <2>1. l \in DOMAIN t.loops /\ cm.mi \in DOMAIN t.loops[l].ps /\ t.loops[l].bound > 1
    BY <1>1, <1>3, <1>4
  <2> HIDE DEF l
  <2>2. t.loops[l].bound - 1 \in Nat
    BY <2>1, TaskType
  <2> DEFINE ps == t.loops[l].ps[cm.mi]
             cap == Cap(ps.conflicts)
             count == t.loops[l].bound - 1
             cl == IF ps.level = 1 THEN "CL_PS" ELSE "CL2_PS"
  <2>3. ps.level \in {1, 2} /\ ps.conflicts \in Nat /\ (ps.level = 2 => ps.conflicts <= L2assoc)
    BY <2>1 DEF FitsCache
  <2>4. cap \in Nat /\ (ps.level = 2 => cap > 0)
    BY <2>3, CapType
  <2>5. cm.mi \in DOMAIN SetOf
    BY SitesType DEF FitsCache
  <2>6. cap \in Int /\ count \in Int /\ count >= 0 /\ -1 \in Int
        /\ cl \in {"CL_PS", "CL2_PS"} /\ (cl = "CL2_PS" => cap > 0)
    BY <2>2, <2>3, <2>4
  <2> HIDE DEF cap, count, cl, ps
  <2>7. Block(cm.mi, count, -1, cap, cl) \in Blocks
    BY <2>5, <2>6 DEF Block, Blocks, Classes
  <2>8. QED
    BY <2>7 DEF cap, count, cl, ps, l
<1> HIDE DEF block
<1>6. Len(repeated) \in Nat /\ DOMAIN repeated = 1 .. Len(repeated)
  BY <1>4
<1>7. QED
  BY <1>2, <1>5, <1>6

(* What insert_Triple adds. *)
Added(t, ur, cm) ==
    LET a == Class(t, cm)
        x == Count(t, cm)
        list == PSTriple(t, cm)
        rest == x - SumOfCounts(list)
        isps == PersistsIn(t, cm) # <<>> /\ Len(ur) > 1
        plain(count) == Block(cm.mi, count, a.age, -1, a.cl)
    IN CASE a.cl = "CL_HIT" -> <<plain(x)>>
         [] a.cl # "CL_HIT" /\ isps /\ rest # 0 -> <<plain(rest)>> \o list
         [] a.cl # "CL_HIT" /\ isps /\ rest = 0 -> <<plain(x)>>
         [] a.cl = "CL2_MISS" /\ ~isps -> <<plain(x)>>
         [] a.cl = "CL2_HIT" /\ ~isps /\ x > 1 ->
                <<Block(cm.mi, x, a.age, Cap(a.age + 1), "CL2_PS")>>
         [] a.cl = "CL2_HIT" /\ ~isps /\ x = 1 -> <<plain(1)>>
         [] a.cl = "CL_BOT" /\ ~isps -> <<Block(cm.mi, x, a.age, -1, "CL_HIT")>>

(* What is added are blocks, *)
LEMMA AddedType ==
    ASSUME NEW t, IsTask(t), FitsCache(t), NEW cm \in CtxMI(t), NEW ur
    PROVE  Added(t, ur, cm) \in Seq(Blocks)
<1> DEFINE a == Class(t, cm)
           x == Count(t, cm)
           list == PSTriple(t, cm)
           rest == x - SumOfCounts(list)
           isps == PersistsIn(t, cm) # <<>> /\ Len(ur) > 1
           plain(count) == Block(cm.mi, count, a.age, -1, a.cl)
<1>1. list \in Seq(Blocks)
  BY PSTripleType
<1>2. x \in Nat \ {0}
  BY SitesType, TaskType, CountType
<1>3. rest \in Int
  <2>1. SumOfCounts(list) \in Int
    BY <1>1, SumOfCountsType
  <2>2. QED
    BY <1>2, <2>1
<1>4. /\ a.cl \in {"CL_HIT", "CL2_HIT", "CL2_MISS", "CL_BOT"} /\ a.age \in Nat
      /\ a.cl = "CL2_HIT" => a.age < L2assoc
  BY DEF Class, FitsCache
<1>5. cm.mi \in DOMAIN SetOf
  BY SitesType DEF FitsCache
<1>6. a.cl \in Classes /\ a.cl # "CL2_PS" /\ a.age \in Int /\ -1 \in Int
  <2> DEFINE cl == a.cl
             age == a.age
  <2>1. cl \in {"CL_HIT", "CL2_HIT", "CL2_MISS", "CL_BOT"} /\ age \in Nat
    BY <1>4
  <2> HIDE DEF cl, age
  <2>2. cl \in Classes /\ cl # "CL2_PS" /\ age \in Int /\ -1 \in Int
    BY <2>1 DEF Classes
  <2>3. QED
    BY <2>2 DEF cl, age
<1>7. \A count \in Int : plain(count) \in Blocks
  BY <1>5, <1>6, MakesBlock
<1>8. ASSUME NEW b \in Blocks PROVE <<b>> \in Seq(Blocks)
  OBVIOUS
<1>9. a.cl = "CL2_HIT" => Block(cm.mi, x, a.age, Cap(a.age + 1), "CL2_PS") \in Blocks
  <2> SUFFICES ASSUME a.cl = "CL2_HIT" PROVE Block(cm.mi, x, a.age, Cap(a.age + 1), "CL2_PS") \in Blocks
    OBVIOUS
  <2> DEFINE c == a.age + 1
  <2>1. c \in Nat /\ c <= L2assoc
    BY <1>4, AssociativityAssumption
  <2> HIDE DEF c
  <2>2. Cap(c) \in Nat \ {0}
    BY <2>1, CapType
  <2> DEFINE cap == Cap(c)
  <2> HIDE DEF x, a
  <2>3. cap \in Int /\ cap > 0 /\ x \in Int /\ x >= 0
    BY <1>2, <2>2
  <2> HIDE DEF cap
  <2>4. Block(cm.mi, x, a.age, cap, "CL2_PS") \in Blocks
    BY <1>5, <1>6, <2>3 DEF Block, Blocks, Classes
  <2>5. QED
    BY <2>4 DEF cap, c
<1>10. Block(cm.mi, x, a.age, -1, "CL_HIT") \in Blocks
  <2> HIDE DEF x, a
  <2>1. x \in Int
    BY <1>2
  <2>2. QED
    BY <1>5, <1>6, <2>1 DEF Block, Blocks, Classes
<1>11. plain(x) \in Blocks /\ plain(rest) \in Blocks /\ plain(1) \in Blocks
  <2> HIDE DEF plain, rest, x
  <2>1. QED
    BY <1>2, <1>3, <1>7
<1> DEFINE big == Block(cm.mi, x, a.age, Cap(a.age + 1), "CL2_PS")
           bottom == Block(cm.mi, x, a.age, -1, "CL_HIT")
<1>12. Added(t, ur, cm) =
    CASE a.cl = "CL_HIT" -> <<plain(x)>>
      [] a.cl # "CL_HIT" /\ isps /\ rest # 0 -> <<plain(rest)>> \o list
      [] a.cl # "CL_HIT" /\ isps /\ rest = 0 -> <<plain(x)>>
      [] a.cl = "CL2_MISS" /\ ~isps -> <<plain(x)>>
      [] a.cl = "CL2_HIT" /\ ~isps /\ x > 1 -> <<big>>
      [] a.cl = "CL2_HIT" /\ ~isps /\ x = 1 -> <<plain(1)>>
      [] a.cl = "CL_BOT" /\ ~isps -> <<bottom>>
  BY Zenon DEF Added
<1> HIDE DEF a, x, list, rest, isps, plain, big, bottom
<1>13. x > 1 \/ x = 1
  BY <1>2
<1>14. /\ <<plain(x)>> \in Seq(Blocks) /\ <<plain(1)>> \in Seq(Blocks)
       /\ <<plain(rest)>> \o list \in Seq(Blocks) /\ <<bottom>> \in Seq(Blocks)
       /\ a.cl = "CL2_HIT" => <<big>> \in Seq(Blocks)
  <2>1. <<plain(rest)>> \o list \in Seq(Blocks)
    BY <1>1, <1>8, <1>11, ConcatProperties
  <2>2. QED
    BY <1>8, <1>9, <1>10, <1>11, <2>1 DEF big, bottom
<1>15. QED
  BY <1>4, <1>12, <1>13, <1>14

(* and so are the blocks of a region with them. *)
LEMMA InsertTripleType ==
    ASSUME NEW t, IsTask(t), FitsCache(t), NEW cm \in CtxMI(t), NEW ur \in Seq(Blocks)
    PROVE  InsertTriple(t, ur, cm) \in Seq(Blocks)
<1>1. InsertTriple(t, ur, cm) = ur \o Added(t, ur, cm)
  BY Zenon DEF InsertTriple, Added, SumOfCounts
<1>2. QED
  BY <1>1, AddedType, ConcatProperties

IsTriples(g, t, seq) ==
    g = [s \in SUBSET DOMAIN seq |->
            IF s = {} THEN <<>>
            ELSE LET x == Max(s) IN InsertTriple(t, g[s \ {x}], seq[x])]

(* The blocks of a region. *)
LEMMA TriplesType ==
    ASSUME NEW t, IsTask(t), FitsCache(t), NEW seq \in Seq(CtxMI(t))
    PROVE  Triples(t, seq) \in Seq(Blocks)
<1> DEFINE D == DOMAIN seq
           V == Seq(Blocks)
           pick == [s \in SUBSET D |-> Max(s)]
           F == [x \in D |-> [v \in V |-> InsertTriple(t, v, seq[x])]]
           iter == CHOOSE g : IsTriples(g, t, seq)
           T == {s \in SUBSET D : iter[s] \in V}
<1>1. Triples(t, seq) = iter[D]
  BY Zenon DEF Triples, FoldLeft, MapThenFoldSet, IsTriples
<1>2. IsFiniteSet(D)
  <2>1. Len(seq) \in Nat
    BY LenProperties
  <2>2. IsFiniteSet(1 .. Len(seq))
    BY <2>1, FS_Interval
  <2>3. QED
    BY <2>2, LenProperties
<1>3. <<>> \in V
  BY EmptySeq
<1>4. ASSUME NEW s \in SUBSET D, s # {} PROVE pick[s] \in s
  <2>1. s \subseteq Nat /\ IsFiniteSet(s)
    BY <1>2, FS_Subset
  <2>2. \E m \in s : \A k \in s : k <= m
    BY <1>4, <2>1, GreatestNumber
  <2>3. Max(s) \in s
    BY <2>1, <2>2 DEF Max
  <2>4. QED
    BY <2>3
<1>5. ASSUME NEW x \in D, NEW v \in V PROVE InsertTriple(t, v, seq[x]) \in V
  BY InsertTripleType
<1>6. F \in [D -> [V -> V]]
  BY <1>5, Zenon
<1>7. \E g : IsTriples(g, t, seq)
  <2>1. \E g : SetRecursive(g, D, V, <<>>, pick, F)
    <3> HIDE DEF D, V, F, pick
    <3>1. \A s \in SUBSET D : s # {} => pick[s] \in s
      BY <1>4
    <3>2. QED
      BY <1>2, <1>3, <1>6, <3>1, SetRecursion, Zenon
  <2> PICK g : SetRecursive(g, D, V, <<>>, pick, F)
    BY <2>1
  <2>2. /\ g = [s \in SUBSET D |-> g[s]] /\ \A s \in SUBSET D : g[s] \in V
        /\ \A s \in SUBSET D :
               g[s] = IF s = {} THEN <<>> ELSE F[pick[s]][g[s \ {pick[s]}]]
    <3> HIDE DEF D, V, F, pick
    <3>1. QED
      BY DEF SetRecursive
  <2>3. \A s \in SUBSET D : g[s] =
            IF s = {} THEN <<>>
            ELSE LET x == Max(s) IN InsertTriple(t, g[s \ {x}], seq[x])
    <3> TAKE s \in SUBSET D
    <3>1. CASE s = {}
      <4> HIDE DEF D, V, F, pick
      <4>1. QED
        BY <2>2, <3>1
    <3>2. CASE s # {}
      <4> DEFINE y == pick[s]
                 w == g[s \ {y}]
      <4>1. y \in s /\ y = Max(s)
        BY <1>4, <3>2
      <4> HIDE DEF pick
      <4>2. y \in D /\ s \ {y} \in SUBSET D
        BY <4>1
      <4> HIDE DEF D, V
      <4>3. w \in V /\ g[s] = F[y][w]
        <5> HIDE DEF F
        <5>1. QED
          BY <2>2, <3>2, <4>2
      <4>4. F[y][w] = InsertTriple(t, w, seq[y])
        <5> HIDE DEF y, w
        <5>1. QED
          BY <4>2, <4>3, Zenon
      <4>5. g[s] = InsertTriple(t, w, seq[y])
        BY <4>3, <4>4, Zenon
      <4> HIDE DEF y, w
      <4>6. QED
        BY <3>2, <4>1, <4>5, Zenon DEF w
    <3>3. QED
      BY <3>1, <3>2, Zenon
  <2>4. IsTriples(g, t, seq)
    BY <2>2, <2>3, Zenon DEF IsTriples
  <2>5. QED
    BY <2>4
<1>8. IsTriples(iter, t, seq)
  BY <1>7, Zenon
<1> HIDE DEF iter
<1>9. \A s \in SUBSET D : iter[s] =
          IF s = {} THEN <<>>
            ELSE LET x == Max(s) IN InsertTriple(t, iter[s \ {x}], seq[x])
  BY <1>8, Zenon DEF IsTriples
<1>10. \A s \in SUBSET D : s \in T
  <2>1. {} \in T
    <3> HIDE DEF D, V, F, pick
    <3>1. QED
      BY <1>3, <1>9
  <2>2. ASSUME NEW s \in SUBSET D, s # {} PROVE \E x \in s : s \ {x} \in T => s \in T
    <3> DEFINE y == pick[s]
               w == iter[s \ {y}]
    <3>1. y \in s /\ y = Max(s)
      BY <1>4, <2>2
    <3> HIDE DEF pick
    <3>2. y \in D /\ s \ {y} \in SUBSET D
      BY <3>1
    <3>3. iter[s] = InsertTriple(t, w, seq[y])
      <4> HIDE DEF D, V, F, y
      <4>1. QED
        BY <1>9, <2>2, <3>1, Zenon DEF w
    <3>4. w \in V => iter[s] \in V
      BY <1>5, <3>2, <3>3, Zenon
    <3> HIDE DEF D, V, y
    <3>5. s \ {y} \in T => s \in T
      BY <3>2, <3>4
    <3>6. QED
      BY <3>1, <3>5
  <2> HIDE DEF T, D
  <2>3. QED
    BY <1>2, <2>1, <2>2, SetUpward, Zenon
<1>11. QED
  BY <1>1, <1>10, Zenon

(* The elements of two sequences, one after the other. *)
LEMMA HasEither ==
    ASSUME NEW S, NEW a \in Seq(S), NEW b \in Seq(S)
    PROVE  /\ a \o b \in Seq(S)
           /\ \A x \in S : Has(a, x) \/ Has(b, x) => Has(a \o b, x)
<1> DEFINE c == a \o b
           n == Len(a)
           m == Len(b)
<1>1. n \in Nat /\ m \in Nat /\ DOMAIN a = 1 .. n /\ DOMAIN b = 1 .. m
  OBVIOUS
<1>2. /\ c \in Seq(S) /\ Len(c) = n + m
      /\ \A i \in 1 .. n + m : c[i] = IF i <= n THEN a[i] ELSE b[i - n]
  BY ConcatProperties
<1> HIDE DEF n, m, c
<1>3. DOMAIN c = 1 .. n + m
  BY <1>2
<1>4. ASSUME NEW i \in 1 .. n PROVE i \in DOMAIN c /\ c[i] = a[i]
  BY <1>1, <1>2, <1>3
<1>5. ASSUME NEW i \in 1 .. m PROVE n + i \in DOMAIN c /\ c[n + i] = b[i]
  <2>1. n + i \in 1 .. n + m /\ ~ n + i <= n /\ n + i - n = i
    BY <1>1
  <2>2. c[n + i] = b[n + i - n]
    BY <1>1, <1>2, <2>1
  <2>3. QED
    BY <1>3, <2>1, <2>2
<1>6. ASSUME NEW x, Has(a, x) \/ Has(b, x) PROVE Has(c, x)
  BY <1>1, <1>4, <1>5, <1>6 DEF Has
<1>7. QED
  BY <1>2, <1>6 DEF c

(* All elements of a sequence of sequences. *)
IsFlat(g, seqs) ==
    g = [i \in 1 .. Len(seqs) |-> IF i = 1 THEN seqs[i] ELSE g[i - 1] \o seqs[i]]

(* All elements of a sequence of sequences. *)
LEMMA FlattenSeqType ==
    ASSUME NEW S, NEW seqs \in Seq(Seq(S))
    PROVE  /\ FlattenSeq(seqs) \in Seq(S)
           /\ \A i \in DOMAIN seqs : \A x \in S : Has(seqs[i], x) => Has(FlattenSeq(seqs), x)
<1> DEFINE n == Len(seqs)
           F == [i \in 1 .. n |-> [v \in Seq(S) |-> IF i = 1 THEN seqs[i] ELSE v \o seqs[i]]]
           flat == CHOOSE g : IsFlat(g, seqs)
           All(v, i) == \A j \in 1 .. i : \A x \in S : Has(seqs[j], x) => Has(v, x)
           T == {i \in 0 .. n : i = 0 \/ (flat[i] \in Seq(S) /\ All(flat[i], i))}
<1>1. n = 0 => FlattenSeq(seqs) = seqs
  BY DEF FlattenSeq
<1>2. n # 0 => FlattenSeq(seqs) = flat[n]
  BY Zenon DEF FlattenSeq, IsFlat
<1>3. n \in Nat /\ DOMAIN seqs = 1 .. n /\ \A i \in 1 .. n : seqs[i] \in Seq(S)
  OBVIOUS
<1>4. <<>> \in Seq(S) /\ \A i \in 1 .. n : \A v \in Seq(S) : v \o seqs[i] \in Seq(S)
  BY <1>3, EmptySeq, ConcatProperties
<1>5. n = 0 => seqs = <<>>
  OBVIOUS
<1>6. F \in [1 .. n -> [Seq(S) -> Seq(S)]]
  BY <1>3, <1>4
<1>7. \E g : IsFlat(g, seqs)
  <2>1. \E g : Recursive(g, n, Seq(S), <<>>, F)
    <3> HIDE DEF F, n
    <3>1. QED
      BY <1>3, <1>4, <1>6, Recursion, Zenon
  <2> PICK g : Recursive(g, n, Seq(S), <<>>, F)
    BY <2>1
  <2>2. \A i \in 1 .. n : g[i - 1] \in Seq(S) /\ g[i] = F[i][g[i - 1]]
    BY DEF Recursive
  <2> HIDE DEF n
  <2>3. \A i \in 1 .. n : g[i] = IF i = 1 THEN seqs[i] ELSE g[i - 1] \o seqs[i]
    BY <2>2 DEF F
  <2> DEFINE h == [i \in 1 .. n |-> g[i]]
  <2>4. \A i \in 1 .. n : h[i] = IF i = 1 THEN seqs[i] ELSE h[i - 1] \o seqs[i]
    <3> TAKE i \in 1 .. n
    <3>1. CASE i = 1
      BY <2>3, <3>1
    <3>2. CASE i # 1
      <4>1. i - 1 \in 1 .. n
        BY <1>3, <3>2
      <4>2. h[i] = g[i] /\ h[i - 1] = g[i - 1]
        BY <4>1
      <4>3. QED
        BY <2>3, <3>2, <4>2
    <3>3. QED
      BY <3>1, <3>2
  <2>5. h = [i \in 1 .. n |-> h[i]]
    OBVIOUS
  <2> HIDE DEF h
  <2>6. h = [i \in 1 .. n |-> IF i = 1 THEN seqs[i] ELSE h[i - 1] \o seqs[i]]
    BY <2>4, <2>5, Zenon
  <2>7. IsFlat(h, seqs)
    BY <2>6, Zenon DEF IsFlat, n
  <2>8. QED
    BY <2>7
<1>8. IsFlat(flat, seqs)
  BY <1>7
<1> HIDE DEF flat
<1>9. \A i \in 1 .. n : flat[i] = IF i = 1 THEN seqs[i] ELSE flat[i - 1] \o seqs[i]
  BY <1>8, Zenon DEF IsFlat
<1> HIDE DEF n
<1>10. 0 \in T
  BY <1>3
<1>11. ASSUME NEW i \in 1 .. n, i - 1 \in T PROVE i \in T
  <2>1. i \in 0 .. n
    BY <1>3
  <2>2. flat[i] \in Seq(S) /\ All(flat[i], i)
    <3>1. CASE i = 1
      <4>1. flat[i] = seqs[i] /\ seqs[i] \in Seq(S) /\ \A j \in 1 .. i : j = i
        BY <1>3, <1>9, <3>1
      <4>2. QED
        BY <4>1
    <3>2. CASE i # 1
      <4>1. flat[i - 1] \in Seq(S) /\ i - 1 # 0 /\ All(flat[i - 1], i - 1)
        <5> HIDE DEF All
        <5>1. QED
          BY <1>11, <3>2
      <4>2. flat[i] = flat[i - 1] \o seqs[i] /\ seqs[i] \in Seq(S)
        BY <1>3, <1>9, <3>2
      <4>3. /\ flat[i] \in Seq(S)
            /\ \A x \in S : Has(flat[i - 1], x) \/ Has(seqs[i], x) => Has(flat[i], x)
        BY <4>1, <4>2, HasEither
      <4>4. \A j \in 1 .. i : j \in 1 .. i - 1 \/ j = i
        OBVIOUS
      <4>5. QED
        BY <4>1, <4>3, <4>4
    <3>3. QED
      BY <3>1, <3>2
  <2> HIDE DEF All
  <2>3. QED
    BY <2>1, <2>2
<1>12. n \in T
  <2> HIDE DEF T
  <2>1. QED
    BY <1>3, <1>10, <1>11, UpwardTo
<1>13. QED
  BY <1>1, <1>2, <1>3, <1>4, <1>5, <1>12

-----------------------------------------------------------------------------
(* The conflict regions of a path. *)

(* The blocks of a path. *)
BlocksOf(ceop) == UNION {Range(ceop[i]) : i \in DOMAIN ceop}

(* They are finitely many. *)
LEMMA BlocksOfType ==
    ASSUME NEW ceop \in Seq(Seq(Blocks))
    PROVE  IsFiniteSet(BlocksOf(ceop)) /\ BlocksOf(ceop) \subseteq Blocks
<1> DEFINE D == DOMAIN ceop
           f == [i \in D |-> Range(ceop[i])]
<1>1. IsFiniteSet(D) /\ \A i \in D : ceop[i] \in Seq(Blocks)
  <2>1. Len(ceop) \in Nat /\ D = 1 .. Len(ceop)
    BY LenProperties
  <2>2. IsFiniteSet(1 .. Len(ceop))
    BY <2>1, FS_Interval
  <2>3. QED
    BY <2>1, <2>2
<1>2. \A i \in D : IsFiniteSet(f[i]) /\ f[i] \subseteq Blocks
  BY <1>1, FiniteRange
<1>3. BlocksOf(ceop) = UNION {f[i] : i \in D}
  BY DEF BlocksOf
<1> HIDE DEF f, D
<1>4. IsFiniteSet({f[i] : i \in D})
  BY <1>1, FiniteImage
<1>5. \A part \in {f[i] : i \in D} : IsFiniteSet(part) /\ part \subseteq Blocks
  BY <1>2
<1>6. IsFiniteSet(UNION {f[i] : i \in D})
  BY <1>4, <1>5, FS_UNION
<1>7. QED
  BY <1>3, <1>5, <1>6

(* What begins in a region are blocks of the path. *)
LEMMA LeftNodesType ==
    ASSUME NEW ceop \in Seq(Seq(Blocks)), NEW i
    PROVE  LeftNodes(ceop, i) \subseteq BlocksOf(ceop)
<1>1. \A p \in Placed(ceop) : p[1] \in DOMAIN ceop /\ p[2] \in Range(ceop[p[1]])
  BY DEF Placed, Exposed
<1>2. \A p \in Placed(ceop) : p[2] \in BlocksOf(ceop)
  BY <1>1 DEF BlocksOf
<1>3. QED
  BY <1>2 DEF LeftNodes

IsOpen(g, ceop) ==
    g = [i \in 0 .. Len(ceop) |->
            IF i = 0 THEN {}
            ELSE (g[i - 1] \ RightNodes(ceop, i)) \cup LeftNodes(ceop, i)]

(* What is exposed in a region are blocks of the path. *)
LEMMA NotPersistentType ==
    ASSUME NEW ceop \in Seq(Seq(Blocks)), NEW k \in 0 .. Len(ceop)
    PROVE  NotPersistent(ceop)[k] \subseteq BlocksOf(ceop)
<1> DEFINE n == Len(ceop)
           S == SUBSET BlocksOf(ceop)
           F == [i \in 1 .. n |->
                    [v \in S |-> (v \ RightNodes(ceop, i)) \cup LeftNodes(ceop, i)]]
           open == CHOOSE g : IsOpen(g, ceop)
           T == {i \in 0 .. n : open[i] \in S}
<1>1. NotPersistent(ceop) = open
  BY Zenon DEF NotPersistent, IsOpen
<1>2. n \in Nat
  OBVIOUS
<1>3. {} \in S
  OBVIOUS
<1>4. ASSUME NEW i \in 1 .. n, NEW v \in S
      PROVE  (v \ RightNodes(ceop, i)) \cup LeftNodes(ceop, i) \in S
  <2>1. LeftNodes(ceop, i) \in S
    BY LeftNodesType
  <2>2. QED
    BY <2>1
<1>5. F \in [1 .. n -> [S -> S]]
  BY <1>4, Zenon
<1>6. \E g : IsOpen(g, ceop)
  <2>1. \E g : Recursive(g, n, S, {}, F)
    <3> HIDE DEF F, n, S
    <3>1. QED
      BY <1>2, <1>3, <1>5, Recursion, Zenon
  <2> PICK g : Recursive(g, n, S, {}, F)
    BY <2>1
  <2>2. /\ g = [i \in 0 .. n |-> g[i]] /\ g[0] = {}
        /\ \A i \in 1 .. n : g[i - 1] \in S /\ g[i] = F[i][g[i - 1]]
    <3> HIDE DEF n, S, F
    <3>1. QED
      BY DEF Recursive
  <2>3. \A i \in 1 .. n : g[i] = (g[i - 1] \ RightNodes(ceop, i)) \cup LeftNodes(ceop, i)
    <3> TAKE i \in 1 .. n
    <3> DEFINE w == g[i - 1]
    <3>1. w \in S /\ g[i] = F[i][w]
      BY <2>2
    <3> HIDE DEF w, n, S
    <3>2. F[i][w] = (w \ RightNodes(ceop, i)) \cup LeftNodes(ceop, i)
      BY <3>1
    <3>3. QED
      BY <3>1, <3>2 DEF w
  <2> HIDE DEF n, F, S
  <2>4. \A i \in 0 .. n : g[i] =
            IF i = 0 THEN {} ELSE (g[i - 1] \ RightNodes(ceop, i)) \cup LeftNodes(ceop, i)
    BY <1>2, <2>2, <2>3, UpToOrZero
  <2>5. g = [i \in 0 .. n |->
                IF i = 0 THEN {}
                ELSE (g[i - 1] \ RightNodes(ceop, i)) \cup LeftNodes(ceop, i)]
    BY <2>2, <2>4, Zenon
  <2>6. IsOpen(g, ceop)
    BY <2>5, Zenon DEF IsOpen, n
  <2>7. QED
    BY <2>6
<1>7. IsOpen(open, ceop)
  BY <1>6, Zenon
<1> HIDE DEF open
<1>8. \A i \in 0 .. n : open[i] =
          IF i = 0 THEN {} ELSE (open[i - 1] \ RightNodes(ceop, i)) \cup LeftNodes(ceop, i)
  BY <1>7, Zenon DEF IsOpen
<1>9. \A i \in 0 .. n : i \in T
  <2> HIDE DEF n, S
  <2>1. 0 \in T
    BY <1>2, <1>3, <1>8, UpToOrZero
  <2>2. ASSUME NEW i \in 1 .. n, i - 1 \in T PROVE i \in T
    <3>1. i \in 0 .. n /\ i # 0
      BY <1>2
    <3>2. open[i - 1] \in S
      BY <2>2
    <3>3. open[i] \in S
      BY <1>4, <1>8, <3>1, <3>2
    <3>4. QED
      BY <3>1, <3>3
  <2> HIDE DEF T
  <2>3. QED
    BY <1>2, <2>1, <2>2, Upward
<1>10. QED
  BY <1>1, <1>9

(* The persistent blocks of a region. *)
LEMMA PersistentType ==
    ASSUME NEW ur \in Seq(Blocks), NEW ceop, NEW i, ceop[i] = ur
    PROVE  Persistent(ceop, i) \in Seq(PersistentBlocks)
<1> DEFINE keep == {j \in DOMAIN ur : ur[j].cl = "CL2_PS"}
           seq == Those(ur, keep)
<1>1. Persistent(ceop, i) = seq
  BY DEF Persistent
<1>2. \A j \in keep : j \in DOMAIN ur /\ ur[j] \in PersistentBlocks
  <2> SUFFICES ASSUME NEW j \in DOMAIN ur, ur[j].cl = "CL2_PS"
               PROVE  ur[j] \in PersistentBlocks
    OBVIOUS
  <2> DEFINE b == ur[j]
  <2>1. b \in Blocks /\ b.cl = "CL2_PS"
    OBVIOUS
  <2> HIDE DEF b
  <2>2. b \in PersistentBlocks
    BY <2>1 DEF PersistentBlocks, Blocks
  <2>3. QED
    BY <2>2 DEF b
<1> HIDE DEF keep
<1>3. /\ seq \in Seq(Blocks)
      /\ \A k \in DOMAIN seq : \E j \in DOMAIN ur : j \in keep /\ seq[k] = ur[j]
  BY ThoseType
<1> HIDE DEF seq
<1>4. \A k \in DOMAIN seq : seq[k] \in PersistentBlocks
  BY <1>2, <1>3
<1>5. Len(seq) \in Nat /\ seq = [k \in 1 .. Len(seq) |-> seq[k]] /\ DOMAIN seq = 1 .. Len(seq)
  BY <1>3
<1>6. QED
  BY <1>1, <1>4, <1>5

(* CRs makes conflict regions. *)
LEMMA CRsType ==
    ASSUME NEW ceop \in Seq(Seq(Blocks))
    PROVE  CRs(ceop) \in Seq(ConflictRegionType)
<1> DEFINE cr(i) == [notPersistent |-> NotPersistent(ceop)[i], persistent |-> Persistent(ceop, i)]
           seq == [i \in DOMAIN ceop |-> cr(i)]
           keep == {i \in DOMAIN ceop : IsConflictRegion(ceop, i)}
<1>1. CRs(ceop) = Those(seq, keep)
  BY Zenon DEF CRs
<1>2. ASSUME NEW i \in DOMAIN ceop PROVE cr(i) \in ConflictRegionType
  <2>1. i \in 0 .. Len(ceop) /\ ceop[i] \in Seq(Blocks)
    OBVIOUS
  <2>2. NotPersistent(ceop)[i] \subseteq Blocks /\ IsFiniteSet(NotPersistent(ceop)[i])
    BY <2>1, NotPersistentType, BlocksOfType, FS_Subset
  <2>3. Persistent(ceop, i) \in Seq(PersistentBlocks)
    BY <2>1, PersistentType
  <2>4. QED
    BY <2>2, <2>3 DEF ConflictRegionType
<1> HIDE DEF cr, keep
<1>3. Len(ceop) \in Nat /\ DOMAIN ceop = 1 .. Len(ceop)
  OBVIOUS
<1>4. seq \in Seq(ConflictRegionType)
  BY <1>2, <1>3
<1>5. QED
  BY <1>1, <1>4, ThoseType

-----------------------------------------------------------------------------
(* Regions and paths of a task. *)

(* What collectUrInfo and ceopDfs_it make: regions of instructions of the  *)
(* task, edges to regions, and paths of regions.                           *)
PathTypes ==
    /\ IsFiniteSet(DOMAIN mi_ur) /\ DOMAIN mi_ur \subseteq CtxMI(task)
    /\ \A u \in DOMAIN ur_mi : ur_mi[u] \in Seq(CtxMI(task)) /\ ur_graph[u] \in Seq(DOMAIN ur_mi)
    /\ paths \in Seq([entry : DOMAIN ur_mi, expanded : BOOLEAN])
    /\ tmpPath \in Seq(DOMAIN ur_mi)
    /\ tmpCEOPs \subseteq Seq(DOMAIN ur_mi)

(* Sequences over a greater set. *)
LEMMA SeqOfMore ==
    ASSUME NEW S, NEW R, S \subseteq R
    PROVE  Seq(S) \subseteq Seq(R)
<1> SUFFICES ASSUME NEW s \in Seq(S) PROVE s \in Seq(R)
  OBVIOUS
<1>1. Len(s) \in Nat /\ s = [i \in 1 .. Len(s) |-> s[i]] /\ \A i \in 1 .. Len(s) : s[i] \in S
  OBVIOUS
<1>2. QED
  BY <1>1

(* No region and no path at first. *)
LEMMA PathInit == URInit => PathTypes
<1> SUFFICES ASSUME URInit PROVE PathTypes
  OBVIOUS
<1>1. DOMAIN mi_ur = {} /\ DOMAIN ur_mi = {}
  BY DEF URInit
<1>2. IsFiniteSet({})
  BY FS_EmptySet
<1>3. paths = <<>> /\ tmpPath = <<>> /\ tmpCEOPs = {}
  BY DEF URInit
<1>4. QED
  BY <1>1, <1>2, <1>3, EmptySeq DEF PathTypes

(* When tarjan_it has ended, what comes after an instruction has a region. *)
LEMMA AllHaveRegions ==
    ASSUME TarjanInv, stack = <<>>
    PROVE  /\ Start(task) \in DOMAIN mi_ur
           /\ \A m \in DOMAIN mi_ur : Range(Succ(task, m)) \subseteq DOMAIN mi_ur
<1>1. ur_stack = <<>> /\ Start(task) \in DOMAIN dfn
  BY DEF TarjanInv, StartIsLast
<1>2. Range(ur_stack) = {} /\ DOMAIN stack = {}
  BY <1>1 DEF Range
<1>3. DOMAIN dfn = DOMAIN mi_ur
  BY <1>2 DEF TarjanInv, VisitedIsKept
<1>4. \A m \in DOMAIN dfn : Range(Succ(task, m)) \subseteq DOMAIN dfn
  BY <1>2 DEF TarjanInv, SuccessorsFound
<1>5. QED
  BY <1>1, <1>3, <1>4

(* tarjan_it gives regions to finitely many instructions. *)
LEMMA FinishKeepsPaths ==
    ASSUME TarjanInv, PathTypes, Finish
    PROVE  PathTypes'
<1>1. /\ DOMAIN mi_ur' \subseteq Range(ur_stack) \cup DOMAIN mi_ur
      /\ UNCHANGED task
  BY FinishStacks
<1>2. IsFiniteSet(Range(ur_stack)) /\ Range(ur_stack) \subseteq CtxMI(task)
  <2>1. ur_stack \in Seq(CtxMI(task))
    BY DEF TarjanInv, TarjanTypes
  <2>2. QED
    BY <2>1, FiniteRange
<1>3. IsFiniteSet(Range(ur_stack) \cup DOMAIN mi_ur)
  BY <1>2, FS_Union DEF PathTypes
<1>4. IsFiniteSet(DOMAIN mi_ur') /\ DOMAIN mi_ur' \subseteq CtxMI(task)'
  <2>1. IsFiniteSet(DOMAIN mi_ur')
    BY <1>1, <1>3, FS_Subset
  <2>2. QED
    BY <1>1, <1>2, <2>1 DEF PathTypes
<1>5. UNCHANGED <<ur_mi, ur_graph, paths, tmpPath, tmpCEOPs>>
  BY DEF Finish, graph, search
<1>6. QED
  BY <1>1, <1>4, <1>5 DEF PathTypes

(* The region of an instruction is a region of the graph, and an edge      *)
(* leads to the regions of what comes after it.                            *)
SuccessorsLead ==
    Collected =>
        /\ Start(task) \in DOMAIN mi_ur
        /\ \A m \in DOMAIN mi_ur :
               /\ mi_ur[m] \in DOMAIN ur_mi
               /\ \A s \in Range(Succ(task, m)) :
                      /\ s \in DOMAIN mi_ur
                      /\ mi_ur[s] = mi_ur[m] \/ mi_ur[s] \in Range(ur_graph[mi_ur[m]])

(* collectUrInfo. *)
LEMMA CollectKeepsPaths ==
    ASSUME TarjanInv, PathTypes, CollectUrInfo
    PROVE  PathTypes' /\ SuccessorsLead'
<1> DEFINE cms(u) == InOrder({m \in DOMAIN mi_ur : mi_ur[m] = u})
           list(u) == [i \in DOMAIN cms(u) |->
                          LET succ == Succ(task, cms(u)[i])
                          IN [s \in DOMAIN succ |-> mi_ur[succ[s]]]]
           after(u) == FlattenSeq(list(u))
           regions == {mi_ur[m] : m \in DOMAIN mi_ur}
           C == DOMAIN mi_ur
           step(m) == [s \in DOMAIN Succ(task, m) |-> mi_ur[Succ(task, m)[s]]]
<1>1. /\ stack = <<>> /\ ur_mi = <<>>
      /\ ur_mi' = [u \in regions |-> cms(u)]
      /\ ur_graph' = [u \in regions |-> Unvisited(after(u), {u})]
      /\ paths' = <<ToDo(mi_ur[Start(task)])>>
      /\ UNCHANGED <<task, mi_ur, tmpPath, tmpCEOPs>>
  BY DEF CollectUrInfo, tarjan
<1>2. Start(task) \in C /\ \A m \in C : Range(Succ(task, m)) \subseteq C
  BY <1>1, AllHaveRegions
<1>3. IsFiniteSet(C) /\ C \subseteq CtxMI(task)
  BY DEF PathTypes
<1>4. ASSUME NEW u PROVE cms(u) \in Seq(C) /\ \A m \in C : mi_ur[m] = u => Has(cms(u), m)
  <2> DEFINE own == {m \in DOMAIN mi_ur : mi_ur[m] = u}
  <2>1. own \subseteq C
    OBVIOUS
  <2> HIDE DEF own, C
  <2>2. IsFiniteSet(own)
    BY <1>3, <2>1, FS_Subset
  <2>3. InOrder(own) \in Seq(own) /\ \A m \in own : Has(InOrder(own), m)
    BY <2>2, InOrderType
  <2>4. Seq(own) \subseteq Seq(C)
    BY <2>1, SeqOfMore
  <2>5. \A m \in C : mi_ur[m] = u => m \in own
    BY DEF own, C
  <2>6. QED
    BY <2>3, <2>4, <2>5 DEF own
<1>5. ASSUME NEW m \in C
      PROVE  /\ step(m) \in Seq(regions)
             /\ \A s \in Range(Succ(task, m)) : mi_ur[s] \in regions /\ Has(step(m), mi_ur[s])
  <2> DEFINE succ == Succ(task, m)
  <2>1. succ \in Seq(CtxMI(task))
    BY <1>3, SuccType, TasksAssumption DEF TarjanInv, TarjanTypes
  <2>2. \A s \in DOMAIN succ : succ[s] \in C
    BY <1>2 DEF Range
  <2>3. Len(succ) \in Nat /\ DOMAIN succ = 1 .. Len(succ)
    BY <2>1
  <2>4. \A s \in DOMAIN succ : mi_ur[succ[s]] \in regions
    BY <2>2
  <2> HIDE DEF succ, regions
  <2>5. [s \in DOMAIN succ |-> mi_ur[succ[s]]] \in Seq(regions)
    BY <2>3, <2>4
  <2>6. ASSUME NEW s \in Range(succ) PROVE mi_ur[s] \in regions /\ Has(step(m), mi_ur[s])
    <3>1. PICK k \in DOMAIN succ : succ[k] = s
      BY DEF Range
    <3>2. k \in DOMAIN step(m) /\ step(m)[k] = mi_ur[s]
      BY <3>1 DEF succ
    <3> HIDE DEF step
    <3>3. QED
      BY <2>4, <3>1, <3>2 DEF Has
  <2>7. QED
    BY <2>5, <2>6 DEF succ
<1>6. ASSUME NEW u
      PROVE  /\ list(u) \in Seq(Seq(regions))
             /\ \A m \in C : mi_ur[m] = u => \E i \in DOMAIN list(u) : list(u)[i] = step(m)
  <2> DEFINE seq == cms(u)
  <2>1. Len(seq) \in Nat /\ DOMAIN seq = 1 .. Len(seq) /\ \A i \in DOMAIN seq : seq[i] \in C
    <3>1. seq \in Seq(C)
      BY <1>4
    <3> HIDE DEF seq, C
    <3>2. QED
      BY <3>1
  <2>2. list(u) = [i \in DOMAIN seq |-> step(seq[i])]
    OBVIOUS
  <2>3. \A m \in C : mi_ur[m] = u => \E i \in DOMAIN seq : seq[i] = m
    BY <1>4 DEF Has
  <2> HIDE DEF seq, list, step, regions, C
  <2>4. list(u) \in Seq(Seq(regions))
    BY <1>5, <2>1, <2>2
  <2>5. \A m \in C : mi_ur[m] = u => \E i \in DOMAIN list(u) : list(u)[i] = step(m)
    BY <2>2, <2>3
  <2>6. QED
    BY <2>4, <2>5
<1> HIDE DEF list, cms, regions, step
<1>7. ASSUME NEW u
      PROVE  /\ after(u) \in Seq(regions)
             /\ \A m \in C : mi_ur[m] = u =>
                    \A r \in regions : Has(step(m), r) => Has(after(u), r)
  <2>1. /\ after(u) \in Seq(regions)
        /\ \A i \in DOMAIN list(u) : \A r \in regions : Has(list(u)[i], r) => Has(after(u), r)
    BY <1>6, FlattenSeqType
  <2> HIDE DEF after
  <2>2. QED
    BY <1>6, <2>1
<1> HIDE DEF after
<1>8. ASSUME NEW u
      PROVE  /\ Unvisited(after(u), {u}) \in Seq(regions)
             /\ \A r \in regions : r # u /\ Has(after(u), r) => Has(Unvisited(after(u), {u}), r)
  <2>1. after(u) \in Seq(regions)
    BY <1>7
  <2>2. Lists(Unvisited(after(u), {u}), after(u), {u}, regions, Len(after(u)))
    BY <2>1, UnvisitedLists
  <2>3. DOMAIN after(u) = 1 .. Len(after(u))
    BY <2>1
  <2>4. QED
    BY <2>2, <2>3 DEF Lists, Has
<1>9. DOMAIN ur_mi' = regions
  BY <1>1
<1>10. \A u \in regions : ur_mi'[u] \in Seq(CtxMI(task)) /\ ur_graph'[u] \in Seq(regions)
  <2>1. Seq(C) \subseteq Seq(CtxMI(task))
    BY <1>3, SeqOfMore
  <2>2. QED
    BY <1>1, <1>4, <1>8, <2>1
<1>11. mi_ur[Start(task)] \in regions
  BY <1>2 DEF regions
<1>12. paths' \in Seq([entry : regions, expanded : BOOLEAN])
  BY <1>1, <1>11 DEF ToDo
<1>13. tmpPath' \in Seq(regions) /\ tmpCEOPs' \subseteq Seq(regions)
  <2>1. DOMAIN ur_mi = {}
    BY <1>1
  <2>2. Seq({}) \subseteq Seq(regions)
    BY SeqOfMore
  <2>3. QED
    BY <1>1, <2>1, <2>2 DEF PathTypes
<1>14. IsFiniteSet(DOMAIN mi_ur') /\ DOMAIN mi_ur' \subseteq CtxMI(task')
  BY <1>1, <1>3
<1>15. PathTypes'
  BY <1>1, <1>9, <1>10, <1>12, <1>13, <1>14 DEF PathTypes
<1>16. ASSUME NEW m \in C
       PROVE  /\ mi_ur[m] \in regions
              /\ \A s \in Range(Succ(task, m)) :
                     /\ s \in C
                     /\ mi_ur[s] = mi_ur[m] \/ mi_ur[s] \in Range(ur_graph'[mi_ur[m]])
  <2> DEFINE u == mi_ur[m]
  <2>1. u \in regions
    BY DEF regions
  <2>2. ur_graph'[u] = Unvisited(after(u), {u})
    BY <1>1, <2>1
  <2>3. ASSUME NEW s \in Range(Succ(task, m)), mi_ur[s] # u
        PROVE  mi_ur[s] \in Range(ur_graph'[u])
    <3>1. mi_ur[s] \in regions /\ Has(step(m), mi_ur[s])
      BY <1>5
    <3>2. Has(after(u), mi_ur[s])
      BY <1>7, <3>1
    <3>3. Has(ur_graph'[u], mi_ur[s])
      BY <1>8, <2>2, <2>3, <3>1, <3>2
    <3>4. QED
      BY <3>3 DEF Has, Range
  <2>4. QED
    BY <1>2, <2>1, <2>3
<1>17. SuccessorsLead'
  BY <1>1, <1>2, <1>9, <1>16 DEF SuccessorsLead
<1>18. QED
  BY <1>15, <1>17

(* ceopDfs_it. *)
LEMMA EnterKeepsPaths ==
    ASSUME PathTypes, EnterRegion
    PROVE  PathTypes'
<1> DEFINE R == DOMAIN ur_mi
           V == [entry : R, expanded : BOOLEAN]
           u == Head(paths).entry
           path == Append(tmpPath, u)
           vs == ur_graph[u]
           todo == [i \in DOMAIN vs |-> ToDo(vs[i])]
<1>1. /\ paths # <<>>
      /\ IF vs = <<>>
         THEN /\ tmpCEOPs' = tmpCEOPs \cup {path}
              /\ paths' = Tail(paths)
              /\ UNCHANGED tmpPath
         ELSE /\ tmpPath' = path
              /\ paths' = todo \o <<ToFinish(u)>> \o Tail(paths)
              /\ UNCHANGED tmpCEOPs
      /\ UNCHANGED <<task, mi_ur, ur_mi, ur_graph>>
  BY DEF EnterRegion, tarjan, graph
<1>2. paths \in Seq(V) /\ tmpPath \in Seq(R) /\ tmpCEOPs \subseteq Seq(R)
  BY DEF PathTypes
<1>3. Head(paths) \in V /\ Tail(paths) \in Seq(V)
  <2> HIDE DEF V
  <2>1. QED
    BY <1>1, <1>2
<1>4. u \in R
  BY <1>3
<1>5. vs \in Seq(R)
  BY <1>4 DEF PathTypes
<1> HIDE DEF u, vs, R
<1>6. path \in Seq(R)
  BY <1>2, <1>4
<1>7. todo \in Seq(V)
  <2>1. Len(vs) \in Nat /\ DOMAIN vs = 1 .. Len(vs) /\ \A i \in DOMAIN vs : vs[i] \in R
    BY <1>5
  <2>2. \A i \in DOMAIN vs : ToDo(vs[i]) \in V
    BY <2>1 DEF ToDo
  <2> HIDE DEF V
  <2>3. QED
    BY <2>1, <2>2
<1>8. <<ToFinish(u)>> \in Seq(V)
  <2>1. ToFinish(u) \in V
    BY <1>4 DEF ToFinish
  <2> HIDE DEF V
  <2>2. QED
    BY <2>1
<1> HIDE DEF V, todo, path
<1>9. todo \o <<ToFinish(u)>> \o Tail(paths) \in Seq(V)
  BY <1>3, <1>7, <1>8
<1>10. paths' \in Seq(V) /\ tmpPath' \in Seq(R) /\ tmpCEOPs' \subseteq Seq(R)
  BY <1>1, <1>2, <1>3, <1>6, <1>9
<1>11. QED
  BY <1>1, <1>10 DEF PathTypes, V, R

(* A path without its last region. *)
LEMMA LeaveKeepsPaths ==
    ASSUME PathTypes, LeaveRegion
    PROVE  PathTypes'
<1> DEFINE R == DOMAIN ur_mi
           V == [entry : R, expanded : BOOLEAN]
<1>1. /\ paths # <<>> /\ paths' = Tail(paths) /\ tmpPath' = Front(tmpPath)
      /\ UNCHANGED <<task, mi_ur, ur_mi, ur_graph, tmpCEOPs>>
  BY DEF LeaveRegion, tarjan, graph
<1>2. paths \in Seq(V) /\ tmpPath \in Seq(R)
  BY DEF PathTypes
<1> HIDE DEF R, V
<1>3. paths' \in Seq(V)
  BY <1>1, <1>2
<1>4. tmpPath' \in Seq(R)
  <2>1. CASE tmpPath = <<>>
    <3>1. Front(tmpPath) = <<>>
      BY <2>1 DEF Front
    <3>2. QED
      BY <1>1, <3>1, EmptySeq
  <2>2. CASE tmpPath # <<>>
    BY <1>1, <1>2, <2>2, FrontLast
  <2>3. QED
    BY <2>1, <2>2
<1>5. QED
  BY <1>1, <1>3, <1>4 DEF PathTypes, R, V

(* The graph and its paths are what they should be, always. *)
LEMMA PathInvariant == URSpec => [](TarjanInv /\ PathTypes)
<1>1. URInit => PathTypes
  BY PathInit
<1>2. TarjanInv /\ PathTypes /\ [URNext]_urVars => PathTypes'
  <2> SUFFICES ASSUME TarjanInv, PathTypes, [URNext]_urVars PROVE PathTypes'
    OBVIOUS
  <2>1. CASE Visit
    BY <2>1 DEF Visit, PathTypes, graph, search
  <2>2. CASE Finish
    BY <2>2, FinishKeepsPaths
  <2>3. CASE CollectUrInfo
    BY <2>3, CollectKeepsPaths
  <2>4. CASE EnterRegion
    BY <2>4, EnterKeepsPaths
  <2>5. CASE LeaveRegion
    BY <2>5, LeaveKeepsPaths
  <2>6. CASE UNCHANGED urVars
    BY <2>6 DEF PathTypes, urVars, tarjan, graph, search
  <2>7. QED
    BY <2>1, <2>2, <2>3, <2>4, <2>5, <2>6 DEF URNext
<1>3. QED
  BY <1>1, <1>2, TarjanInvariant, PTL DEF URSpec

(* The blocks of a path that OurM makes. *)
LEMMA CeopType ==
    ASSUME TarjanInv, PathTypes, NEW path \in tmpCEOPs
    PROVE  Ceop(path) \in Seq(Seq(Blocks))
<1>1. IsTask(task) /\ FitsCache(task)
  BY TasksAssumption, AccessesAssumption DEF TarjanInv, TarjanTypes
<1>2. path \in Seq(DOMAIN ur_mi)
  BY DEF PathTypes
<1>3. Len(path) \in Nat /\ DOMAIN path = 1 .. Len(path) /\ \A i \in DOMAIN path : path[i] \in DOMAIN ur_mi
  BY <1>2
<1>4. ASSUME NEW i \in DOMAIN path PROVE Triples(task, ur_mi[path[i]]) \in Seq(Blocks)
  <2>1. ur_mi[path[i]] \in Seq(CtxMI(task))
    BY <1>3 DEF PathTypes
  <2>2. QED
    BY <1>1, <2>1, TriplesType
<1>5. QED
  BY <1>3, <1>4 DEF Ceop

-----------------------------------------------------------------------------
(* The match of the two paths. *)

(* The tables of the dynamic program after the regions the task has left   *)
(* count the match so far, or one that is at least as good.                *)
MatchTypes ==
    /\ crs \in Seq(ConflictRegionType)
    /\ Idle => Resting
    /\ Resting => counted = 0 /\ out = {}
    /\ ~Resting =>
           /\ other \in CoRunnerPaths
           /\ region \in DOMAIN crs
           /\ from \in DOMAIN other /\ upto \in DOMAIN other /\ from <= upto
           /\ counted \in Nat
           /\ bound = DpMaxOutNumber(crs, other)

MatchIsCounted == ~Resting => Counted(Dp(crs, other)[region - 1], out, from, counted)

MatchInv == MatchTypes /\ MatchIsCounted

(* A path of the other core has a region. *)
LEMMA PathType ==
    ASSUME NEW o \in CoRunnerPaths
    PROVE  o \in Seq(Seq(Blocks)) /\ o # <<>> /\ Len(o) \in Nat \ {0} /\ DOMAIN o = 1 .. Len(o)
<1>1. o \in Seq(Seq(Blocks)) /\ o # <<>>
  BY CoRunnerPathsAssumption
<1>2. QED
  BY <1>1

(* A path is taken: its conflict regions. *)
LEMMA TakeKeepsMatch ==
    ASSUME TarjanInv, PathTypes, MatchInv, TakeCeop
    PROVE  MatchInv'
<1> PICK path \in tmpCEOPs : TakePath(Ceop(path))
  BY DEF TakeCeop
<1>1. Ceop(path) \in Seq(Seq(Blocks))
  BY CeopType
<1>2. /\ crs' = CRs(Ceop(path)) /\ crs' # <<>> /\ Idle
      /\ UNCHANGED <<bound, other, region, from, upto, out, counted>>
  BY DEF TakePath
<1>3. crs' \in Seq(ConflictRegionType)
  BY <1>1, <1>2, CRsType
<1>4. QED
  BY <1>2, <1>3 DEF MatchInv, MatchTypes, MatchIsCounted, Idle, Resting

(* The two cores start: nothing is counted, as in the first table. *)
LEMMA CoRunStartsMatch ==
    ASSUME MatchInv, NEW o \in CoRunnerPaths, CoRun(o)
    PROVE  MatchInv'
<1>1. /\ ~Idle /\ Resting /\ bound' = DpMaxOutNumber(crs, o) /\ other' = o /\ region' = 1
      /\ from' \in DOMAIN o /\ upto' = from' /\ UNCHANGED <<crs, out, counted>>
  BY DEF CoRun
<1>2. o \in Seq(Seq(Blocks)) /\ o # <<>> /\ Len(o) \in Nat \ {0} /\ DOMAIN o = 1 .. Len(o)
  BY PathType
<1>3. crs \in Seq(ConflictRegionType) /\ counted = 0 /\ out = {} /\ crs # <<>>
  BY <1>1 DEF MatchInv, MatchTypes, Idle
<1>4. 1 \in DOMAIN crs /\ from' \in Nat
  BY <1>1, <1>2, <1>3
<1>5. MatchTypes'
  BY <1>1, <1>2, <1>3, <1>4 DEF MatchTypes, Idle, Resting
<1>6. Dp(crs, o)[0] = NoTable(o)
  BY <1>2, <1>3, DpIs
<1>7. Counted(NoTable(o), {}, from', 0)
  <2>1. {} \in DOMAIN NoTable(o) /\ NoTable(o)[{}][from'] = 0
    BY <1>1 DEF NoTable
  <2>2. 0 + Cardinality({} \ {}) = 0
    BY FS_EmptySet
  <2>3. QED
    BY <2>1, <2>2 DEF Counted
<1>8. region' - 1 = 0
  BY <1>1
<1>9. MatchIsCounted'
  BY <1>1, <1>3, <1>6, <1>7, <1>8 DEF MatchIsCounted
<1>10. QED
  BY <1>5, <1>9 DEF MatchInv

(* What the match is when the task leaves its region. *)
LEMMA MatchGoesOn ==
    ASSUME MatchInv, ~Resting
    PROVE  LET urs == Passed(other, from, upto)
               outs == RegionOuts(Current, out, urs)
           IN /\ outs \in Nat
              /\ Counted(Dp(crs, other)[region], OutAfter(Current, out, urs), upto, counted + outs)
<1> DEFINE dp == Dp(crs, other)[region - 1]
           urs == Passed(other, from, upto)
           outs == RegionOuts(Current, out, urs)
<1>1. /\ crs \in Seq(ConflictRegionType) /\ other \in CoRunnerPaths /\ region \in DOMAIN crs
      /\ from \in DOMAIN other /\ upto \in DOMAIN other /\ from <= upto /\ counted \in Nat
      /\ Counted(dp, out, from, counted)
  BY DEF MatchInv, MatchTypes, MatchIsCounted
<1>2. other \in Seq(Seq(Blocks))
  BY <1>1, PathType
<1>3. region \in 1 .. Len(crs) /\ region - 1 \in 0 .. Len(crs) /\ Current \in ConflictRegionType
  BY <1>1 DEF Current
<1>4. dp \in Tables(other) /\ Dp(crs, other)[region] = DpStep(dp, Current, other)
  BY <1>1, <1>2, <1>3, DpIs DEF Current
<1> HIDE DEF dp
<1>5. /\ outs \in Nat
      /\ Counted(DpStep(dp, Current, other), OutAfter(Current, out, urs), upto, counted + outs)
  BY <1>1, <1>2, <1>3, <1>4, CountedStep
<1>6. QED
  BY <1>4, <1>5

(* The task passes on: one table further. *)
LEMMA TaskKeepsMatch ==
    ASSUME MatchInv, TaskPassesOn
    PROVE  MatchInv'
<1> DEFINE urs == Passed(other, from, upto)
           outs == RegionOuts(Current, out, urs)
<1>1. /\ ~Resting /\ region < Len(crs) /\ region' = region + 1 /\ from' = upto
      /\ counted' = counted + outs /\ out' = OutAfter(Current, out, urs)
      /\ UNCHANGED <<crs, bound, other, upto>>
  BY DEF TaskPassesOn, matched
<1>2. /\ outs \in Nat
      /\ Counted(Dp(crs, other)[region], OutAfter(Current, out, urs), upto, counted + outs)
  BY <1>1, MatchGoesOn
<1> HIDE DEF outs, urs
<1>3. /\ crs \in Seq(ConflictRegionType) /\ other \in CoRunnerPaths /\ region \in DOMAIN crs
      /\ upto \in DOMAIN other /\ counted \in Nat /\ bound = DpMaxOutNumber(crs, other)
      /\ Idle => Resting
  BY <1>1 DEF MatchInv, MatchTypes
<1>4. region' \in DOMAIN crs /\ region' - 1 = region /\ counted' \in Nat
  BY <1>1, <1>2, <1>3
<1>5. upto <= upto
  <2>1. Len(other) \in Nat /\ DOMAIN other = 1 .. Len(other)
    BY <1>3, PathType
  <2>2. QED
    BY <1>3, <2>1
<1>6. MatchTypes'
  BY <1>1, <1>3, <1>4, <1>5 DEF MatchTypes, Idle, Resting
<1>7. MatchIsCounted'
  BY <1>1, <1>2, <1>4 DEF MatchIsCounted
<1>8. QED
  BY <1>6, <1>7 DEF MatchInv

(* The other core passes on: the start of the match stays. *)
LEMMA OtherKeepsMatch ==
    ASSUME MatchInv, OtherPassesOn
    PROVE  MatchInv'
<1>1. /\ ~Resting /\ upto < Len(other) /\ upto' = upto + 1
      /\ UNCHANGED <<crs, bound, other, region, from, out, counted>>
  BY DEF OtherPassesOn, matched
<1>2. other \in CoRunnerPaths /\ upto \in DOMAIN other /\ from \in DOMAIN other /\ from <= upto
  BY <1>1 DEF MatchInv, MatchTypes
<1>3. Len(other) \in Nat /\ DOMAIN other = 1 .. Len(other)
  BY <1>2, PathType
<1>4. upto' \in DOMAIN other /\ from <= upto'
  BY <1>1, <1>2, <1>3
<1>5. QED
  BY <1>1, <1>2, <1>4 DEF MatchInv, MatchTypes, MatchIsCounted, Idle, Resting

(* Loads and executions leave the match alone. *)
LEMMA RestKeepsMatch ==
    ASSUME MatchInv, UNCHANGED <<crs, bound, other, region, from, upto, out, counted>>
    PROVE  MatchInv'
BY DEF MatchInv, MatchTypes, MatchIsCounted, Idle, Resting

(* The invariant of the match holds always. *)
LEMMA MatchInvariant == Spec => []MatchInv
<1>1. Init => MatchInv /\ URInit
  <2> SUFFICES ASSUME Init PROVE MatchInv /\ URInit
    OBVIOUS
  <2>1. crs = <<>> /\ other = <<>> /\ counted = 0 /\ out = {}
    BY DEF Init, CoRunnerInit
  <2>2. QED
    BY <2>1, EmptySeq DEF Init, MatchInv, MatchTypes, MatchIsCounted, Idle, Resting
<1>2. [Next]_vars => [URNext]_urVars
  <2>1. RunNext => UNCHANGED urVars
    BY DEF RunNext, Begin, Step, GoTo
  <2>2. QED
    BY <2>1 DEF Next, TakeCeop, vars
<1>3. TarjanInv /\ PathTypes /\ MatchInv /\ [Next]_vars => MatchInv'
  <2> SUFFICES ASSUME TarjanInv, PathTypes, MatchInv, [Next]_vars PROVE MatchInv'
    OBVIOUS
  <2>1. CASE UNCHANGED coVars
    BY <2>1, RestKeepsMatch DEF coVars, matched
  <2>2. CASE TakeCeop
    BY <2>2, TakeKeepsMatch
  <2>3. ASSUME NEW o \in CoRunnerPaths, CoRun(o) PROVE MatchInv'
    BY <2>3, CoRunStartsMatch
  <2>4. ASSUME NEW j, Load(j) PROVE MatchInv'
    BY <2>4, RestKeepsMatch DEF Load, matched
  <2>5. ASSUME NEW i, Execute(i) PROVE MatchInv'
    BY <2>5, RestKeepsMatch DEF Execute, matched
  <2>6. CASE OtherPassesOn
    BY <2>6, OtherKeepsMatch
  <2>7. CASE TaskPassesOn
    BY <2>7, TaskKeepsMatch
  <2>8. QED
    BY <2>1, <2>2, <2>3, <2>4, <2>5, <2>6, <2>7 DEF Next, CoRunnerNext, vars
<1>4. QED
  BY <1>1, <1>2, <1>3, PathInvariant, PTL DEF Spec, URSpec

(* Whatever the task, its paths, the paths of the other core and the cache, *)
(* no way to match the two paths has more evictions than DpMaxOutNumber    *)
(* returns.                                                                *)
THEOREM BoundCoversMatchings == Spec => []MatchingsWithinBound
<1>1. MatchInv => MatchingsWithinBound
  <2> SUFFICES ASSUME MatchInv, ~Resting
               PROVE  counted + RegionOuts(Current, out, Here) <= bound
    BY DEF MatchingsWithinBound
  <2> DEFINE outs == RegionOuts(Current, out, Here)
             after == OutAfter(Current, out, Here)
             dp == Dp(crs, other)[region]
  <2>1. outs \in Nat /\ Counted(dp, after, upto, counted + outs)
    BY MatchGoesOn DEF Here
  <2>2. /\ crs \in Seq(ConflictRegionType) /\ other \in CoRunnerPaths /\ region \in DOMAIN crs
        /\ upto \in DOMAIN other /\ counted \in Nat /\ bound = DpMaxOutNumber(crs, other)
    BY DEF MatchInv, MatchTypes
  <2>3. other \in Seq(Seq(Blocks)) /\ region \in 0 .. Len(crs)
    BY <2>2, PathType
  <2> HIDE DEF outs, after
  <2>4. PICK more \in DOMAIN dp : (counted + outs) + Cardinality(more \ after) <= dp[more][upto]
    BY <2>1 DEF Counted
  <2>5. dp \in Tables(other)
    BY <2>2, <2>3, DpIs
  <2> HIDE DEF dp
  <2>6. dp[more][upto] \in Nat /\ IsFiniteSet(more)
    BY <2>2, <2>5, TableType DEF OutSets
  <2>7. Cardinality(more \ after) \in Nat
    BY <2>6, FS_Difference, FS_CardinalityType
  <2>8. counted + outs \in Nat /\ counted + outs <= dp[more][upto]
    BY <2>1, <2>2, <2>4, <2>6, <2>7
  <2>9. counted + outs <= DpMaxOutNumber(crs, other)
    BY <2>2, <2>3, <2>8, DpMaxBounds DEF dp
  <2>10. QED
    BY <2>2, <2>9 DEF outs
<1>2. QED
  BY <1>1, MatchInvariant, PTL

-----------------------------------------------------------------------------
(* What loads can serve, and what misses take of it. *)

(* Supply(f, k): the loads that k misses can take from lines with f loads, *)
(* no two of one line.  Demand(cap, J): the loads that the misses in J     *)
(* take.                                                                   *)
Supplied(f, k) == {p \in (DOMAIN f) \X (1 .. k) : f[p[1]] >= p[2]}
Supply(f, k) == Cardinality(Supplied(f, k))
Demanded(cap, J) == UNION {{x} \X (1 .. cap[x]) : x \in J}
Demand(cap, J) == Cardinality(Demanded(cap, J))

(* One part of a finite set mapped into another one. *)
LEMMA NotMore ==
    ASSUME NEW S, NEW T, IsFiniteSet(T), NEW h \in [S -> T],
           \A x, y \in S : h[x] = h[y] => x = y
    PROVE  IsFiniteSet(S) /\ Cardinality(S) <= Cardinality(T)
<1>1. h \in Injection(S, T)
  BY DEF Injection, IsInjective
<1>2. QED
  BY <1>1, FS_Injection

(* Two sets with nothing in common. *)
LEMMA Disjoint ==
    ASSUME NEW S, NEW T, IsFiniteSet(S), IsFiniteSet(T), S \cap T = {}
    PROVE  /\ IsFiniteSet(S \cup T)
           /\ Cardinality(S \cup T) = Cardinality(S) + Cardinality(T)
           /\ Cardinality(S) \in Nat /\ Cardinality(T) \in Nat
<1>1. Cardinality(S) \in Nat /\ Cardinality(T) \in Nat /\ Cardinality(S \cap T) = 0
  BY FS_CardinalityType, FS_EmptySet
<1>2. /\ IsFiniteSet(S \cup T)
      /\ Cardinality(S \cup T) = Cardinality(S) + Cardinality(T) - Cardinality(S \cap T)
  BY FS_Union, Zenon
<1>3. QED
  BY <1>1, <1>2

(* A finite supply. *)
LEMMA SupplyType ==
    ASSUME NEW f, IsFiniteSet(DOMAIN f), NEW k \in Nat
    PROVE  IsFiniteSet(Supplied(f, k)) /\ Supply(f, k) \in Nat
<1>1. IsFiniteSet((DOMAIN f) \X (1 .. k))
  <2>1. IsFiniteSet(1 .. k)
    BY FS_Interval
  <2>2. QED
    BY <2>1, FS_Product
<1>2. Supplied(f, k) \subseteq (DOMAIN f) \X (1 .. k)
  BY DEF Supplied
<1>3. QED
  BY <1>1, <1>2, FS_Subset, FS_CardinalityType DEF Supply

(* More loads of more lines, for more misses. *)
LEMMA SupplyGrows ==
    ASSUME NEW f, IsFiniteSet(DOMAIN f), \A x \in DOMAIN f : f[x] \in Int,
           NEW g, IsFiniteSet(DOMAIN g), \A x \in DOMAIN g : g[x] \in Int,
           \A x \in DOMAIN f : f[x] >= 1 => x \in DOMAIN g /\ f[x] <= g[x],
           NEW k \in Nat, NEW m \in Nat, k <= m
    PROVE  Supply(f, k) <= Supply(g, m)
<1>1. ASSUME NEW x \in DOMAIN f, NEW w \in 1 .. k, f[x] >= w
      PROVE  x \in DOMAIN g /\ w \in 1 .. m /\ g[x] >= w
  <2>1. f[x] >= 1
    BY <1>1
  <2>2. x \in DOMAIN g /\ f[x] <= g[x] /\ g[x] \in Int
    BY <2>1
  <2>3. QED
    BY <1>1, <2>2
<1>2. Supplied(f, k) \subseteq Supplied(g, m)
  BY <1>1 DEF Supplied
<1>3. IsFiniteSet(Supplied(g, m))
  BY SupplyType
<1>4. QED
  BY <1>2, <1>3, FS_Subset DEF Supply

(* One miss more can take one more load of each line that has it. *)
LEMMA SupplyStep ==
    ASSUME NEW f, IsFiniteSet(DOMAIN f)
    PROVE  /\ Supply(f, 0) = 0
           /\ \A k \in Nat \ {0} :
                  Supply(f, k) = Supply(f, k - 1) + Cardinality(AtLeast(f, k))
<1>1. Supply(f, 0) = 0
  <2>1. Supplied(f, 0) = {}
    BY DEF Supplied
  <2>2. QED
    BY <2>1, FS_EmptySet DEF Supply
<1>2. ASSUME NEW k \in Nat \ {0}
      PROVE  Supply(f, k) = Supply(f, k - 1) + Cardinality(AtLeast(f, k))
  <2> DEFINE Top == AtLeast(f, k) \X {k}
  <2>1. Supplied(f, k) = Supplied(f, k - 1) \cup Top
    <3>1. \A w : w \in 1 .. k <=> w \in 1 .. k - 1 \/ w = k
      OBVIOUS
    <3>2. QED
      BY <3>1 DEF Supplied, AtLeast
  <2>2. Supplied(f, k - 1) \cap Top = {}
    BY DEF Supplied
  <2>3. IsFiniteSet(Supplied(f, k - 1))
    BY SupplyType
  <2>4. IsFiniteSet(AtLeast(f, k)) /\ Cardinality(AtLeast(f, k)) \in Nat
    BY AtLeastFinite
  <2>5. IsFiniteSet(Top) /\ Cardinality(Top) = Cardinality(AtLeast(f, k)) * 1
    <3>1. IsFiniteSet({k}) /\ Cardinality({k}) = 1
      BY FS_Singleton
    <3>2. QED
      BY <2>4, <3>1, FS_Product
  <2> HIDE DEF Top
  <2>6. Cardinality(Supplied(f, k)) = Cardinality(Supplied(f, k - 1)) + Cardinality(Top)
    BY <2>1, <2>2, <2>3, <2>5, Disjoint
  <2>7. QED
    BY <2>4, <2>5, <2>6 DEF Supply
<1>3. QED
  BY <1>1, <1>2

(* It depends only on how many lines have how many loads. *)
LEMMA SameSupply ==
    ASSUME NEW f, IsFiniteSet(DOMAIN f), NEW g, IsFiniteSet(DOMAIN g), NEW k \in Nat,
           \A w \in Nat \ {0} : Cardinality(AtLeast(f, w)) = Cardinality(AtLeast(g, w))
    PROVE  Supply(f, k) = Supply(g, k)
<1> DEFINE T == {i \in 0 .. k : Supply(f, i) = Supply(g, i)}
<1>1. 0 \in T
  BY SupplyStep
<1>2. ASSUME NEW i \in 1 .. k, i - 1 \in T PROVE i \in T
  <2>1. i \in Nat \ {0} /\ i \in 0 .. k
    OBVIOUS
  <2>2. QED
    BY <1>2, <2>1, SupplyStep
<1> HIDE DEF T
<1>3. k \in T
  BY <1>1, <1>2, UpwardTo
<1>4. QED
  BY <1>3 DEF T

(* A queue supplies what the lines do whose loads it holds. *)
LEMMA SupplyOfDecreasing ==
    ASSUME NEW f, IsFiniteSet(DOMAIN f), \A x \in DOMAIN f : f[x] \in Int, NEW k \in Nat
    PROVE  Supply(Decreasing(f), k) = Supply(f, k)
<1> DEFINE q == Decreasing(f)
           C(w) == Cardinality(AtLeast(f, w))
<1>1. /\ q \in Seq(Nat \ {0}) /\ Len(q) = C(1)
      /\ \A r \in 1 .. Len(q) : \A w \in Nat \ {0} : q[r] >= w <=> C(w) >= r
  BY DecreasingCounts
<1>2. \A w : C(w) \in Nat /\ IsFiniteSet(AtLeast(f, w))
  BY AtLeastFinite
<1>3. \A w \in Nat \ {0} : C(w) <= C(1)
  <2> TAKE w \in Nat \ {0}
  <2>1. AtLeast(f, w) \subseteq AtLeast(f, 1)
    BY DEF AtLeast
  <2>2. QED
    BY <1>2, <2>1, FS_Subset
<1> HIDE DEF q, C
<1>4. DOMAIN q = 1 .. Len(q) /\ Len(q) \in Nat
  BY <1>1
<1>5. ASSUME NEW w \in Nat \ {0} PROVE Cardinality(AtLeast(q, w)) = C(w)
  <2>1. C(w) \in Nat /\ C(w) <= Len(q)
    BY <1>1, <1>2, <1>3
  <2>2. AtLeast(q, w) = 1 .. C(w)
    BY <1>1, <1>4, <2>1 DEF AtLeast
  <2>3. QED
    BY <2>1, <2>2, FS_Interval
<1>6. IsFiniteSet(DOMAIN q)
  BY <1>4, FS_Interval
<1>7. \A w \in Nat \ {0} : Cardinality(AtLeast(q, w)) = Cardinality(AtLeast(f, w))
  BY <1>5 DEF C
<1>8. QED
  BY <1>6, <1>7, SameSupply DEF q

(* A finite demand. *)
LEMMA DemandType ==
    ASSUME NEW J, IsFiniteSet(J), NEW cap, \A x \in J : cap[x] \in Nat
    PROVE  IsFiniteSet(Demanded(cap, J)) /\ Demand(cap, J) \in Nat
<1> DEFINE f == [x \in J |-> {x} \X (1 .. cap[x])]
           parts == {f[x] : x \in J}
<1>1. IsFiniteSet(parts)
  <2> HIDE DEF f
  <2>1. QED
    BY FiniteImage
<1>2. ASSUME NEW x \in J PROVE IsFiniteSet(f[x])
  <2>1. IsFiniteSet(1 .. cap[x])
    BY FS_Interval
  <2>2. IsFiniteSet({x})
    BY FS_Singleton
  <2>3. IsFiniteSet({x} \X (1 .. cap[x]))
    BY <2>1, <2>2, FS_Product
  <2>4. QED
    BY <2>3
<1>3. \A part \in parts : IsFiniteSet(part)
  BY <1>2
<1>4. Demanded(cap, J) = UNION parts
  BY DEF Demanded
<1> HIDE DEF parts
<1>5. IsFiniteSet(Demanded(cap, J))
  BY <1>1, <1>3, <1>4, FS_UNION
<1>6. QED
  BY <1>5, FS_CardinalityType DEF Demand

(* Different misses take different loads. *)
LEMMA DemandAdds ==
    ASSUME NEW I, NEW J, IsFiniteSet(I), IsFiniteSet(J), I \cap J = {},
           NEW cap, \A x \in I \cup J : cap[x] \in Nat
    PROVE  Demand(cap, I \cup J) = Demand(cap, I) + Demand(cap, J)
<1>1. Demanded(cap, I \cup J) = Demanded(cap, I) \cup Demanded(cap, J)
  BY DEF Demanded
<1>2. Demanded(cap, I) \cap Demanded(cap, J) = {}
  BY DEF Demanded
<1>3. QED
  BY <1>1, <1>2, DemandType, Disjoint DEF Demand

(* No miss takes no loads, and one miss those of its lines. *)
LEMMA DemandOfNone ==
    ASSUME NEW cap
    PROVE  Demand(cap, {}) = 0
<1>1. Demanded(cap, {}) = {} /\ Cardinality({}) = 0
  BY FS_EmptySet DEF Demanded
<1>2. QED
  BY <1>1 DEF Demand

LEMMA DemandOfOne ==
    ASSUME NEW x, NEW cap, cap[x] \in Nat
    PROVE  Demand(cap, {x}) = cap[x]
<1>1. Demanded(cap, {x}) = {x} \X (1 .. cap[x])
  BY DEF Demanded
<1>2. Cardinality(1 .. cap[x]) = cap[x] /\ IsFiniteSet(1 .. cap[x])
  BY FS_Interval
<1>3. IsFiniteSet({x}) /\ Cardinality({x}) = 1
  BY FS_Singleton
<1>4. Cardinality({x} \X (1 .. cap[x])) = 1 * cap[x]
  BY <1>2, <1>3, FS_Product
<1>5. 1 * cap[x] = cap[x]
  OBVIOUS
<1>6. Demand(cap, {x}) = Cardinality({x} \X (1 .. cap[x]))
  BY <1>1 DEF Demand
<1>7. QED
  BY <1>4, <1>5, <1>6

(* A queue has finitely many ranks. *)
LEMMA QueueFinite ==
    ASSUME NEW q \in Queues
    PROVE  IsFiniteSet(DOMAIN q)
<1>1. DOMAIN q = 1 .. Len(q) /\ Len(q) \in Nat
  BY DEF Queues
<1>2. QED
  BY <1>1, FS_Interval

(* A miss more, and a load more of each line it takes. *)
LEMMA SupplyOfMiss ==
    ASSUME NEW f, IsFiniteSet(DOMAIN f), \A x \in DOMAIN f : f[x] \in Nat,
           NEW S, S \subseteq DOMAIN f,
           NEW g, DOMAIN g = DOMAIN f,
           \A x \in DOMAIN f : g[x] = f[x] + (IF x \in S THEN 1 ELSE 0),
           NEW k \in Nat
    PROVE  Supply(f, k) + Cardinality(S) <= Supply(g, k + 1)
<1> DEFINE A == Supplied(f, k)
           B == Supplied(g, k + 1)
           Bottom == S \X {1}
           h == [p \in A |-> <<p[1], IF p[1] \in S THEN p[2] + 1 ELSE p[2]>>]
<1>1. ASSUME NEW p \in A PROVE h[p] \in B \ Bottom
  <2>1. p[1] \in DOMAIN f /\ p[2] \in 1 .. k /\ f[p[1]] >= p[2]
    BY DEF Supplied
  <2>2. CASE p[1] \in S
    <3>1. h[p] = <<p[1], p[2] + 1>> /\ g[p[1]] = f[p[1]] + 1
      BY <2>1, <2>2
    <3>2. p[2] + 1 \in 1 .. k + 1 /\ p[2] + 1 # 1 /\ g[p[1]] >= p[2] + 1
      BY <2>1, <3>1
    <3>3. h[p] \in B /\ h[p] \notin Bottom
      BY <2>1, <3>1, <3>2 DEF Supplied
    <3>4. QED
      BY <3>3
  <2>3. CASE p[1] \notin S
    <3>1. h[p] = <<p[1], p[2]>> /\ g[p[1]] = f[p[1]]
      BY <2>1, <2>3
    <3>2. p[2] \in 1 .. k + 1 /\ g[p[1]] >= p[2]
      BY <2>1, <3>1
    <3>3. h[p] \in B /\ h[p] \notin Bottom
      BY <2>1, <2>3, <3>1, <3>2 DEF Supplied
    <3>4. QED
      BY <3>3
  <2>4. QED
    BY <2>2, <2>3
<1>2. ASSUME NEW p \in A, NEW q \in A, h[p] = h[q] PROVE p = q
  <2>1. /\ p = <<p[1], p[2]>> /\ q = <<q[1], q[2]>>
        /\ p[2] \in Int /\ q[2] \in Int
    BY DEF Supplied
  <2>2. p[1] = q[1]
    BY <1>2
  <2>3. (IF p[1] \in S THEN p[2] + 1 ELSE p[2]) = (IF q[1] \in S THEN q[2] + 1 ELSE q[2])
    BY <1>2
  <2>4. p[2] = q[2]
    BY <2>1, <2>2, <2>3
  <2>5. QED
    BY <2>1, <2>2, <2>4
<1>3. IsFiniteSet(A) /\ IsFiniteSet(B)
  BY SupplyType
<1>4. IsFiniteSet(S) /\ Cardinality(S) \in Nat
  BY FS_Subset, FS_CardinalityType
<1>5. IsFiniteSet(Bottom) /\ Cardinality(Bottom) = Cardinality(S)
  <2>1. IsFiniteSet({1}) /\ Cardinality({1}) = 1
    BY FS_Singleton
  <2>2. IsFiniteSet(Bottom) /\ Cardinality(Bottom) = Cardinality(S) * 1
    BY <1>4, <2>1, FS_Product
  <2>3. QED
    BY <1>4, <2>2
<1>6. Bottom \subseteq B
  <2>1. \A x \in S : g[x] >= 1
    OBVIOUS
  <2>2. QED
    BY <2>1 DEF Supplied
<1>7. h \in [A -> B \ Bottom]
  BY <1>1
<1> HIDE DEF A, B, Bottom, h
<1>8. IsFiniteSet(B \ Bottom)
  BY <1>3, FS_Difference
<1>9. Cardinality(A) <= Cardinality(B \ Bottom)
  BY <1>2, <1>7, <1>8, NotMore
<1>10. Cardinality(B) = Cardinality(Bottom) + Cardinality(B \ Bottom)
  <2>1. B = Bottom \cup (B \ Bottom) /\ Bottom \cap (B \ Bottom) = {}
    BY <1>6
  <2>2. QED
    BY <1>5, <1>8, <2>1, Disjoint
<1>11. Cardinality(A) \in Nat /\ Cardinality(B \ Bottom) \in Nat
  BY <1>3, <1>8, FS_CardinalityType
<1>12. QED
  BY <1>4, <1>5, <1>9, <1>10, <1>11 DEF Supply, A, B

(* The queue of two regions supplies what they supply one after the other. *)
LEMMA SupplyOfSum ==
    ASSUME NEW p \in Queues, NEW q \in Queues, NEW j \in Nat, NEW k \in Nat
    PROVE  Supply(p, j) + Supply(q, k) <= Supply(AddedUp(p, q), j + k)
<1> DEFINE a == AddedUp(p, q)
           m(r) == IF At(p, r) <= j THEN At(p, r) ELSE j
           A == Supplied(p, j)
           B == Supplied(q, k)
           C == Supplied(a, j + k)
           h == [x \in B |-> <<x[1], x[2] + m(x[1])>>]
<1>1. /\ a \in Seq(Nat \ {0})
      /\ Len(a) = (IF Len(p) <= Len(q) THEN Len(q) ELSE Len(p))
      /\ \A r \in 1 .. Len(a) : a[r] = At(p, r) + At(q, r)
  BY AddedUpType DEF Queues
<1>2. /\ Len(p) \in Nat /\ DOMAIN p = 1 .. Len(p) /\ Len(q) \in Nat /\ DOMAIN q = 1 .. Len(q)
      /\ \A r \in DOMAIN p : p[r] \in Nat \ {0}
      /\ \A r \in DOMAIN q : q[r] \in Nat \ {0}
  BY DEF Queues
<1> HIDE DEF a
<1>3. DOMAIN a = 1 .. Len(a) /\ DOMAIN p \subseteq DOMAIN a /\ DOMAIN q \subseteq DOMAIN a
  BY <1>1, <1>2
<1>4. \A r : At(p, r) \in Nat /\ At(q, r) \in Nat
  BY <1>2 DEF At
<1>5. IsFiniteSet(DOMAIN a) /\ IsFiniteSet(DOMAIN p) /\ IsFiniteSet(DOMAIN q)
  BY <1>1, <1>2, <1>3, FS_Interval
<1>6. IsFiniteSet(A) /\ IsFiniteSet(B) /\ IsFiniteSet(C)
  BY <1>5, SupplyType
<1>7. A \subseteq C
  <2>1. ASSUME NEW r \in DOMAIN p, NEW w \in 1 .. j, p[r] >= w
        PROVE  r \in DOMAIN a /\ w \in 1 .. j + k /\ a[r] >= w
    <3>1. r \in DOMAIN a /\ a[r] = p[r] + At(q, r)
      BY <1>1, <1>3 DEF At
    <3>2. QED
      BY <1>2, <1>4, <2>1, <3>1
  <2>2. QED
    BY <2>1 DEF Supplied
<1>8. ASSUME NEW x \in B PROVE h[x] \in C \ A
  <2>1. x[1] \in DOMAIN q /\ x[2] \in 1 .. k /\ q[x[1]] >= x[2]
    BY DEF Supplied
  <2> DEFINE r == x[1]
             w == x[2]
  <2>2. m(r) \in Nat /\ m(r) <= j /\ m(r) <= At(p, r) /\ (m(r) = j \/ m(r) = At(p, r))
    BY <1>4
  <2>3. r \in DOMAIN a /\ a[r] = At(p, r) + q[r]
    BY <1>1, <1>3, <2>1 DEF At
  <2>4. h[x] = <<r, w + m(r)>>
    OBVIOUS
  <2>5. q[r] \in Nat /\ At(p, r) \in Nat
    BY <1>2, <1>4, <2>1
  <2> HIDE DEF m, h, r, w
  <2>6. w \in 1 .. k /\ q[r] >= w
    BY <2>1 DEF r, w
  <2>7. w + m(r) \in 1 .. j + k /\ a[r] >= w + m(r)
    BY <2>2, <2>3, <2>5, <2>6
  <2>8. h[x] \in C
    BY <2>3, <2>4, <2>7 DEF Supplied
  <2>9. ASSUME h[x] \in A PROVE FALSE
    <3>1. r \in DOMAIN p /\ w + m(r) \in 1 .. j /\ p[r] >= w + m(r)
      BY <2>4, <2>9 DEF Supplied
    <3>2. At(p, r) = p[r]
      BY <3>1 DEF At
    <3>3. QED
      BY <2>2, <2>5, <2>6, <3>1, <3>2
  <2>10. QED
    BY <2>8, <2>9
<1>9. ASSUME NEW x \in B, NEW y \in B, h[x] = h[y] PROVE x = y
  <2>1. /\ x = <<x[1], x[2]>> /\ y = <<y[1], y[2]>>
        /\ x[2] \in Int /\ y[2] \in Int
    BY DEF Supplied
  <2>2. x[1] = y[1] /\ x[2] + m(x[1]) = y[2] + m(y[1])
    BY <1>9
  <2>3. m(x[1]) \in Nat
    BY <1>4
  <2> HIDE DEF m
  <2>4. x[2] = y[2]
    BY <2>1, <2>2, <2>3
  <2>5. QED
    BY <2>1, <2>2, <2>4
<1>10. h \in [B -> C \ A]
  BY <1>8
<1> HIDE DEF A, B, C, h
<1>11. IsFiniteSet(C \ A)
  BY <1>6, FS_Difference
<1>12. Cardinality(B) <= Cardinality(C \ A)
  BY <1>9, <1>10, <1>11, NotMore
<1>13. Cardinality(C) = Cardinality(A) + Cardinality(C \ A)
  <2>1. C = A \cup (C \ A) /\ A \cap (C \ A) = {}
    BY <1>7
  <2>2. QED
    BY <1>6, <1>11, <2>1, Disjoint
<1>14. Cardinality(A) \in Nat /\ Cardinality(B) \in Nat /\ Cardinality(C \ A) \in Nat
  BY <1>6, <1>11, FS_CardinalityType
<1>15. QED
  BY <1>12, <1>13, <1>14 DEF Supply, A, B, C, a

(* The most loaded lines come first. *)
Descending(q) == \A r, s \in DOMAIN q : r <= s => q[r] >= q[s]

(* So they do in a queue of one region ... *)
LEMMA DecreasingDescends ==
    ASSUME NEW f, IsFiniteSet(DOMAIN f), \A x \in DOMAIN f : f[x] \in Int
    PROVE  Descending(Decreasing(f))
<1> DEFINE q == Decreasing(f)
           C(w) == Cardinality(AtLeast(f, w))
<1>1. /\ q \in Seq(Nat \ {0})
      /\ \A r \in 1 .. Len(q) : \A w \in Nat \ {0} : q[r] >= w <=> C(w) >= r
  BY DecreasingCounts
<1>2. \A w : C(w) \in Nat
  BY AtLeastFinite
<1> HIDE DEF q, C
<1>3. ASSUME NEW r \in DOMAIN q, NEW s \in DOMAIN q, r <= s PROVE q[r] >= q[s]
  <2>1. r \in 1 .. Len(q) /\ s \in 1 .. Len(q) /\ q[s] \in Nat \ {0} /\ Len(q) \in Nat
    BY <1>1
  <2>2. C(q[s]) >= s
    BY <1>1, <2>1
  <2>3. C(q[s]) >= r
    BY <1>2, <1>3, <2>1, <2>2
  <2>4. QED
    BY <1>1, <2>1, <2>3
<1>4. QED
  BY <1>3 DEF Descending, q

(* ... and in the queue of several. *)
LEMMA AddedUpDescends ==
    ASSUME NEW p \in Queues, NEW q \in Queues, Descending(p), Descending(q)
    PROVE  Descending(AddedUp(p, q))
<1> DEFINE a == AddedUp(p, q)
<1>1. /\ a \in Seq(Nat \ {0})
      /\ \A r \in 1 .. Len(a) : a[r] = At(p, r) + At(q, r)
  BY AddedUpType DEF Queues
<1> HIDE DEF a
<1>2. ASSUME NEW s \in Queues, Descending(s), NEW x \in Nat \ {0}, NEW y \in Nat \ {0}, x <= y
      PROVE  At(s, x) >= At(s, y) /\ At(s, x) \in Nat /\ At(s, y) \in Nat
  <2>1. Len(s) \in Nat /\ DOMAIN s = 1 .. Len(s) /\ \A i \in DOMAIN s : s[i] \in Nat
    BY DEF Queues
  <2>2. y \in DOMAIN s => x \in DOMAIN s /\ s[x] >= s[y]
    BY <1>2, <2>1 DEF Descending
  <2>3. At(s, x) \in Nat /\ At(s, y) \in Nat
    BY <2>1 DEF At
  <2>4. CASE y \in DOMAIN s
    BY <2>2, <2>3, <2>4 DEF At
  <2>5. CASE y \notin DOMAIN s
    <3>1. At(s, y) = 0
      BY <2>5 DEF At
    <3>2. QED
      BY <2>3, <3>1
  <2>6. QED
    BY <2>4, <2>5
<1>3. ASSUME NEW x \in DOMAIN a, NEW y \in DOMAIN a, x <= y PROVE a[x] >= a[y]
  <2>1. x \in Nat \ {0} /\ y \in Nat \ {0} /\ x \in 1 .. Len(a) /\ y \in 1 .. Len(a)
    BY <1>1
  <2>2. a[x] = At(p, x) + At(q, x) /\ a[y] = At(p, y) + At(q, y)
    BY <1>1, <2>1
  <2>3. At(p, x) >= At(p, y) /\ At(p, x) \in Nat /\ At(p, y) \in Nat
    BY <1>2, <1>3, <2>1
  <2>4. At(q, x) >= At(q, y) /\ At(q, x) \in Nat /\ At(q, y) \in Nat
    BY <1>2, <1>3, <2>1
  <2>5. QED
    BY <2>2, <2>3, <2>4
<1>4. QED
  BY <1>3 DEF Descending, a

(* An eviction of c lines: k misses can take as much as before, or k + 1   *)
(* misses could take at most c more.                                       *)
LEMMA SupplyEvicted ==
    ASSUME NEW q \in Queues, Descending(q), NEW c \in Nat \ {0}, c <= Len(q), NEW k \in Nat
    PROVE  \/ Supply(q, k) <= Supply(Evicted(q, c), k)
           \/ Supply(q, k + 1) <= Supply(Evicted(q, c), k) + c
<1> DEFINE f == Lessened(q, c)
<1>1. /\ DOMAIN f = 1 .. Len(q) /\ IsFiniteSet(DOMAIN f)
      /\ \A r \in 1 .. Len(q) : f[r] \in Int /\ f[r] = IF r <= c THEN q[r] - 1 ELSE q[r]
      /\ Evicted(q, c) = Decreasing(f)
  BY LessenedType
<1>2. /\ Len(q) \in Nat /\ DOMAIN q = 1 .. Len(q) /\ c \in DOMAIN q
      /\ \A r \in DOMAIN q : q[r] \in Nat \ {0}
  BY DEF Queues
<1> HIDE DEF f
<1>3. Supply(Evicted(q, c), k) = Supply(f, k)
  BY <1>1, SupplyOfDecreasing
<1>4. IsFiniteSet(Supplied(f, k)) /\ IsFiniteSet(Supplied(q, k + 1))
  <2>1. IsFiniteSet(DOMAIN q)
    BY <1>2, FS_Interval
  <2>2. k + 1 \in Nat
    OBVIOUS
  <2>3. QED
    BY <1>1, <2>1, <2>2, SupplyType
<1>5. CASE q[c] >= k + 1
  <2>1. ASSUME NEW r \in DOMAIN q, NEW w \in 1 .. k, q[r] >= w
        PROVE  r \in DOMAIN f /\ f[r] >= w
    <3>1. r <= c => q[r] >= q[c]
      BY <1>2 DEF Descending
    <3>2. r \in DOMAIN f /\ f[r] = IF r <= c THEN q[r] - 1 ELSE q[r]
      BY <1>1, <1>2
    <3>3. q[r] \in Nat /\ q[c] \in Nat /\ r \in Nat
      BY <1>2
    <3>4. QED
      BY <1>5, <2>1, <3>1, <3>2, <3>3
  <2>2. Supplied(q, k) \subseteq Supplied(f, k)
    BY <2>1 DEF Supplied
  <2>3. QED
    BY <1>3, <1>4, <2>2, FS_Subset DEF Supply
<1>6. CASE ~(q[c] >= k + 1)
  <2> DEFINE A == Supplied(q, k + 1)
             Bottom == (1 .. c) \X {1}
             h == [p \in A \ Bottom |-> <<p[1], IF p[1] <= c THEN p[2] - 1 ELSE p[2]>>]
  <2>1. ASSUME NEW p \in A \ Bottom PROVE h[p] \in Supplied(f, k)
    <3> DEFINE r == p[1]
               w == p[2]
    <3>1. p = <<r, w>> /\ r \in DOMAIN q /\ w \in 1 .. k + 1 /\ q[r] >= w
      BY DEF Supplied
    <3>2. r \in 1 .. c => w # 1
      BY <3>1
    <3>3. h[p] = <<r, IF r <= c THEN w - 1 ELSE w>>
      OBVIOUS
    <3> HIDE DEF r, w, h, A, Bottom
    <3>4. r \in 1 .. Len(q) /\ r \in Nat \ {0} /\ q[r] \in Nat /\ q[c] \in Nat /\ r \in DOMAIN f
      BY <1>1, <1>2, <3>1
    <3>5. CASE r <= c
      <4>1. w - 1 \in 1 .. k /\ f[r] >= w - 1
        BY <1>1, <3>1, <3>2, <3>4, <3>5
      <4>2. h[p] = <<r, w - 1>>
        BY <3>3, <3>5
      <4>3. QED
        BY <3>4, <4>1, <4>2 DEF Supplied
    <3>6. CASE ~(r <= c)
      <4>1. q[c] >= q[r]
        BY <1>2, <3>1, <3>4, <3>6 DEF Descending
      <4>2. w \in 1 .. k /\ f[r] >= w
        BY <1>1, <1>6, <3>1, <3>4, <3>6, <4>1
      <4>3. h[p] = <<r, w>>
        BY <3>3, <3>6
      <4>4. QED
        BY <3>4, <4>2, <4>3 DEF Supplied
    <3>7. QED
      BY <3>5, <3>6
  <2>2. ASSUME NEW x \in A \ Bottom, NEW y \in A \ Bottom, h[x] = h[y] PROVE x = y
    <3>1. /\ x = <<x[1], x[2]>> /\ y = <<y[1], y[2]>>
          /\ x[2] \in Int /\ y[2] \in Int
      BY DEF Supplied
    <3>2. x[1] = y[1]
      BY <2>2
    <3>3. (IF x[1] <= c THEN x[2] - 1 ELSE x[2]) = (IF y[1] <= c THEN y[2] - 1 ELSE y[2])
      BY <2>2
    <3>4. x[2] = y[2]
      BY <3>1, <3>2, <3>3
    <3>5. QED
      BY <3>1, <3>2, <3>4
  <2>3. h \in [A \ Bottom -> Supplied(f, k)]
    BY <2>1
  <2>4. IsFiniteSet(Bottom) /\ Cardinality(Bottom) = c
    <3>1. IsFiniteSet({1}) /\ Cardinality({1}) = 1
      BY FS_Singleton
    <3>2. IsFiniteSet(1 .. c) /\ Cardinality(1 .. c) = c
      BY FS_Interval
    <3>3. IsFiniteSet(Bottom) /\ Cardinality(Bottom) = c * 1
      BY <3>1, <3>2, FS_Product
    <3>4. QED
      BY <3>3
  <2> HIDE DEF A, Bottom, h
  <2>5. Cardinality(A \ Bottom) <= Cardinality(Supplied(f, k))
    BY <1>4, <2>2, <2>3, NotMore
  <2>6. IsFiniteSet(A)
    BY <1>4 DEF A
  <2>7. IsFiniteSet(A \ Bottom) /\ IsFiniteSet(A \cap Bottom) /\ Cardinality(A \cap Bottom) <= c
    BY <2>4, <2>6, FS_Difference, FS_Intersection
  <2>8. Cardinality(A) = Cardinality(A \ Bottom) + Cardinality(A \cap Bottom)
    <3>1. A = (A \ Bottom) \cup (A \cap Bottom) /\ (A \ Bottom) \cap (A \cap Bottom) = {}
      OBVIOUS
    <3>2. QED
      BY <2>7, <3>1, Disjoint
  <2>9. /\ Cardinality(A \ Bottom) \in Nat /\ Cardinality(A \cap Bottom) \in Nat
        /\ Cardinality(Supplied(f, k)) \in Nat
    BY <1>4, <2>7, FS_CardinalityType
  <2>10. Cardinality(A) <= Cardinality(Supplied(f, k)) + c
    BY <2>5, <2>7, <2>8, <2>9
  <2>11. QED
    BY <1>3, <2>10 DEF Supply, A
<1>7. QED
  BY <1>5, <1>6

-----------------------------------------------------------------------------
(* Misses that loads serve, or all but one that is spread over two         *)
(* regions.                                                                *)

(* The misses in X, a miss x of cap[x] lines, can all have happened with   *)
(* the loads in f, or queue: no part of them takes more than it can.       *)
Misses(cap, X) == IsFiniteSet(X) /\ \A x \in X : cap[x] \in Nat \ {0}
Served(f, cap, X) == \A J \in SUBSET X : Demand(cap, J) <= Supply(f, Cardinality(J))

(* All of them but one that is spread over regions. *)
Covered(q, spread, cap, X) ==
    \/ Served(q, cap, X)
    \/ \E x \in X : Served(q, cap, X \ {x}) /\ cap[x] <= spread /\ Len(q) <= spread

(* Some of the misses. *)
LEMMA MissesType ==
    ASSUME NEW cap, NEW X, Misses(cap, X), NEW J \in SUBSET X
    PROVE  Misses(cap, J) /\ Cardinality(J) \in Nat /\ Demand(cap, J) \in Nat
<1>1. IsFiniteSet(J)
  BY FS_Subset DEF Misses
<1>2. QED
  BY <1>1, FS_CardinalityType, DemandType DEF Misses


LEMMA ServedNone ==
    ASSUME NEW f, IsFiniteSet(DOMAIN f), NEW cap
    PROVE  Served(f, cap, {})
<1>1. Demand(cap, {}) = 0
  BY DemandOfNone
<1>2. Supply(f, 0) = 0 /\ Cardinality({}) = 0
  BY SupplyStep, FS_EmptySet
<1>3. QED
  BY <1>1, <1>2 DEF Served

(* More loads serve them as well, *)
LEMMA ServedByMore ==
    ASSUME NEW f, IsFiniteSet(DOMAIN f), \A x \in DOMAIN f : f[x] \in Int,
           NEW g, IsFiniteSet(DOMAIN g), \A x \in DOMAIN g : g[x] \in Int,
           \A x \in DOMAIN f : f[x] >= 1 => x \in DOMAIN g /\ f[x] <= g[x],
           NEW cap, NEW X, Misses(cap, X), Served(f, cap, X)
    PROVE  Served(g, cap, X)
<1>1. ASSUME NEW J \in SUBSET X PROVE Demand(cap, J) <= Supply(g, Cardinality(J))
  <2>1. Cardinality(J) \in Nat /\ Demand(cap, J) \in Nat
    BY MissesType
  <2> DEFINE k == Cardinality(J)
  <2>2. Demand(cap, J) <= Supply(f, k)
    BY DEF Served
  <2> HIDE DEF k
  <2>3. k \in Nat
    BY <2>1 DEF k
  <2>4. k <= k
    BY <2>3
  <2>5. Supply(f, k) <= Supply(g, k)
    BY <2>3, <2>4, SupplyGrows
  <2>6. Supply(f, k) \in Nat /\ Supply(g, k) \in Nat
    BY <2>3, SupplyType
  <2>7. QED
    BY <2>1, <2>2, <2>5, <2>6 DEF k
<1>2. QED
  BY <1>1 DEF Served

(* and so does the queue of the loads. *)
LEMMA ServedByQueue ==
    ASSUME NEW f, IsFiniteSet(DOMAIN f), \A x \in DOMAIN f : f[x] \in Int,
           NEW cap, NEW X, Misses(cap, X), Served(f, cap, X)
    PROVE  Served(Decreasing(f), cap, X)
<1>1. \A J \in SUBSET X : Cardinality(J) \in Nat
  BY MissesType
<1>2. QED
  BY <1>1, SupplyOfDecreasing DEF Served

(* A miss x of lines each of which is loaded once more. *)
LEMMA ServedMiss ==
    ASSUME NEW f, IsFiniteSet(DOMAIN f), \A l \in DOMAIN f : f[l] \in Nat,
           NEW S, S \subseteq DOMAIN f,
           NEW g, DOMAIN g = DOMAIN f,
           \A l \in DOMAIN f : g[l] = f[l] + (IF l \in S THEN 1 ELSE 0),
           NEW cap, NEW X, NEW x, Misses(cap, X \cup {x}), x \notin X,
           cap[x] <= Cardinality(S), Served(f, cap, X)
    PROVE  Served(g, cap, X \cup {x})
<1>1. \A l \in DOMAIN f : f[l] \in Int /\ g[l] \in Int /\ f[l] <= g[l]
  OBVIOUS
<1>2. Misses(cap, X) /\ IsFiniteSet(S) /\ Cardinality(S) \in Nat /\ cap[x] \in Nat
  BY MissesType, FS_Subset, FS_CardinalityType DEF Misses
<1>3. Served(g, cap, X)
  BY <1>1, <1>2, ServedByMore
<1>4. ASSUME NEW J \in SUBSET (X \cup {x}), x \in J
      PROVE  Demand(cap, J) <= Supply(g, Cardinality(J))
  <2> DEFINE I == J \ {x}
             k == Cardinality(I)
  <2>1. I \in SUBSET X /\ J = I \cup {x} /\ I \cap {x} = {}
    BY <1>4
  <2> HIDE DEF I
  <2>2. Misses(cap, I) /\ k \in Nat /\ Demand(cap, I) \in Nat
    BY <1>2, <2>1, MissesType
  <2>3. Cardinality(J) = k + 1
    BY <2>1, <2>2, FS_AddElement DEF Misses
  <2>4. Demand(cap, J) = Demand(cap, I) + cap[x]
    <3>1. Demand(cap, {x}) = cap[x]
      BY <1>2, DemandOfOne
    <3>2. IsFiniteSet({x}) /\ IsFiniteSet(I) /\ \A y \in I \cup {x} : cap[y] \in Nat
      BY <1>2, <2>2, FS_Singleton DEF Misses
    <3>3. Demand(cap, I \cup {x}) = Demand(cap, I) + Demand(cap, {x})
      BY <2>1, <3>2, DemandAdds
    <3>4. QED
      BY <2>1, <3>1, <3>3
  <2>5. Demand(cap, I) <= Supply(f, k)
    BY <2>1 DEF Served
  <2> HIDE DEF k
  <2>6. Supply(f, k) + Cardinality(S) <= Supply(g, k + 1)
    BY <2>2, SupplyOfMiss
  <2>7. Supply(f, k) \in Nat
    BY <2>2, SupplyType
  <2>8. Supply(g, k + 1) \in Nat
    <3>1. k + 1 \in Nat
      BY <2>2
    <3>2. QED
      BY <3>1, SupplyType
  <2>9. QED
    BY <1>2, <2>2, <2>3, <2>4, <2>5, <2>6, <2>7, <2>8
<1>5. ASSUME NEW J \in SUBSET (X \cup {x})
      PROVE  Demand(cap, J) <= Supply(g, Cardinality(J))
  <2>1. CASE x \in J
    BY <1>4, <2>1
  <2>2. CASE x \notin J
    <3>1. J \in SUBSET X
      BY <2>2
    <3>2. QED
      BY <1>3, <3>1 DEF Served
  <2>3. QED
    BY <2>1, <2>2
<1>6. QED
  BY <1>5 DEF Served

(* The misses of two regions are served by the queue of both. *)
LEMMA ServedTogether ==
    ASSUME NEW p \in Queues, NEW q \in Queues, NEW cap, NEW X, NEW Y,
           Misses(cap, X), Misses(cap, Y), X \cap Y = {},
           Served(p, cap, X), Served(q, cap, Y)
    PROVE  Served(AddedUp(p, q), cap, X \cup Y)
<1>1. ASSUME NEW J \in SUBSET (X \cup Y)
      PROVE  Demand(cap, J) <= Supply(AddedUp(p, q), Cardinality(J))
  <2> DEFINE A == J \cap X
             B == J \cap Y
             i == Cardinality(A)
             j == Cardinality(B)
  <2>1. A \in SUBSET X /\ B \in SUBSET Y /\ J = A \cup B /\ A \cap B = {}
    OBVIOUS
  <2> HIDE DEF A, B
  <2>2. /\ Misses(cap, A) /\ i \in Nat /\ Demand(cap, A) \in Nat
        /\ Misses(cap, B) /\ j \in Nat /\ Demand(cap, B) \in Nat
    BY <2>1, MissesType
  <2>3. Cardinality(J) = i + j
    BY <2>1, <2>2, Disjoint DEF Misses
  <2>4. Demand(cap, J) = Demand(cap, A) + Demand(cap, B)
    <3>1. IsFiniteSet(A) /\ IsFiniteSet(B) /\ \A y \in A \cup B : cap[y] \in Nat
      BY <2>2 DEF Misses
    <3>2. QED
      BY <2>1, <3>1, DemandAdds
  <2>5. Demand(cap, A) <= Supply(p, i) /\ Demand(cap, B) <= Supply(q, j)
    BY <2>1 DEF Served
  <2> HIDE DEF i, j
  <2>6. Supply(p, i) + Supply(q, j) <= Supply(AddedUp(p, q), i + j)
    BY <2>2, SupplyOfSum
  <2>7. Supply(p, i) \in Nat /\ Supply(q, j) \in Nat /\ Supply(AddedUp(p, q), i + j) \in Nat
    <3>1. AddedUp(p, q) \in Queues /\ i + j \in Nat
      BY <2>2, AddedUpType DEF Queues
    <3>2. \A s \in Queues : IsFiniteSet(DOMAIN s)
      BY QueueFinite
    <3>3. QED
      BY <2>2, <3>1, <3>2, SupplyType
  <2>8. QED
    BY <2>2, <2>3, <2>4, <2>5, <2>6, <2>7
<1>2. QED
  BY <1>1 DEF Served

(* A miss takes no more lines than the queue has. *)
LEMMA ServedOne ==
    ASSUME NEW q \in Queues, NEW cap, NEW X, Misses(cap, X), Served(q, cap, X), NEW x \in X
    PROVE  cap[x] <= Len(q)
<1>1. cap[x] \in Nat /\ Demand(cap, {x}) = cap[x]
  BY DemandOfOne DEF Misses
<1>2. Cardinality({x}) = 1
  BY FS_Singleton
<1>3. Demand(cap, {x}) <= Supply(q, 1)
  BY <1>2 DEF Served
<1>4. Len(q) \in Nat /\ DOMAIN q = 1 .. Len(q) /\ IsFiniteSet(DOMAIN q)
  BY QueueFinite DEF Queues
<1>5. Supply(q, 1) = Cardinality(AtLeast(q, 1))
  <2>1. Supply(q, 0) = 0 /\ Supply(q, 1) = Supply(q, 1 - 1) + Cardinality(AtLeast(q, 1))
    BY <1>4, SupplyStep
  <2>2. Cardinality(AtLeast(q, 1)) \in Nat
    BY <1>4, AtLeastFinite
  <2>3. QED
    BY <2>1, <2>2
<1>6. Cardinality(AtLeast(q, 1)) <= Len(q)
  <2>1. AtLeast(q, 1) \subseteq 1 .. Len(q)
    BY <1>4 DEF AtLeast
  <2>2. IsFiniteSet(1 .. Len(q)) /\ Cardinality(1 .. Len(q)) = Len(q)
    <3> DEFINE n == Len(q)
    <3> HIDE DEF n
    <3>1. n \in Nat
      BY <1>4 DEF n
    <3>2. IsFiniteSet(1 .. n) /\ Cardinality(1 .. n) = n
      BY <3>1, FS_Interval
    <3>3. QED
      BY <3>2 DEF n
  <2>3. QED
    BY <2>1, <2>2, FS_Subset
<1>7. Cardinality(AtLeast(q, 1)) \in Nat
  BY <1>4, AtLeastFinite
<1>8. QED
  BY <1>1, <1>3, <1>4, <1>5, <1>6, <1>7

(* An eviction leaves a queue that is not longer. *)
LEMMA EvictedType ==
    ASSUME NEW q \in Queues, NEW c \in Nat
    PROVE  Evicted(q, c) \in Queues /\ Descending(Evicted(q, c)) /\ Len(Evicted(q, c)) <= Len(q)
<1> DEFINE f == Lessened(q, c)
<1>1. /\ DOMAIN f = 1 .. Len(q) /\ IsFiniteSet(DOMAIN f)
      /\ \A x \in DOMAIN f : f[x] \in Int
      /\ Evicted(q, c) = Decreasing(f)
  BY LessenedType
<1>2. Len(q) \in Nat
  BY DEF Queues
<1> HIDE DEF f
<1>3. /\ Decreasing(f) \in Seq(Nat \ {0}) /\ Len(Decreasing(f)) = Cardinality(AtLeast(f, 1))
      /\ Descending(Decreasing(f))
  BY <1>1, DecreasingCounts, DecreasingDescends
<1>4. Cardinality(AtLeast(f, 1)) <= Len(q)
  <2> DEFINE n == Len(q)
  <2> HIDE DEF n
  <2>1. n \in Nat /\ DOMAIN f = 1 .. n
    BY <1>1, <1>2 DEF n
  <2>2. IsFiniteSet(1 .. n) /\ Cardinality(1 .. n) = n
    BY <2>1, FS_Interval
  <2>3. AtLeast(f, 1) \subseteq 1 .. n
    BY <2>1 DEF AtLeast
  <2>4. QED
    BY <2>2, <2>3, FS_Subset DEF n
<1>5. QED
  BY <1>1, <1>3, <1>4 DEF Queues

(* After an eviction of c lines, the misses but one are served that take   *)
(* at least c lines each.                                                  *)
LEMMA ServedEvicted ==
    ASSUME NEW q \in Queues, Descending(q), NEW c \in Nat \ {0}, c <= Len(q),
           NEW cap, NEW X, Misses(cap, X), Served(q, cap, X), NEW x \in X, c <= cap[x]
    PROVE  Served(Evicted(q, c), cap, X \ {x})
<1>1. ASSUME NEW J \in SUBSET (X \ {x})
      PROVE  Demand(cap, J) <= Supply(Evicted(q, c), Cardinality(J))
  <2> DEFINE k == Cardinality(J)
             I == J \cup {x}
  <2>1. J \in SUBSET X /\ I \in SUBSET X /\ x \notin J
    OBVIOUS
  <2>2. Misses(cap, J) /\ k \in Nat /\ Demand(cap, J) \in Nat
    BY <2>1, MissesType
  <2>3. Cardinality(I) = k + 1
    BY <2>1, <2>2, FS_AddElement DEF Misses
  <2>4. Demand(cap, I) = Demand(cap, J) + cap[x] /\ cap[x] \in Nat
    <3>1. cap[x] \in Nat
      BY DEF Misses
    <3>2. Demand(cap, {x}) = cap[x]
      BY <3>1, DemandOfOne
    <3>3. IsFiniteSet({x}) /\ IsFiniteSet(J) /\ J \cap {x} = {} /\ \A y \in J \cup {x} : cap[y] \in Nat
      BY <2>1, <2>2, <3>1, FS_Singleton DEF Misses
    <3>4. Demand(cap, J \cup {x}) = Demand(cap, J) + Demand(cap, {x})
      BY <3>3, DemandAdds
    <3>5. QED
      BY <3>1, <3>2, <3>4
  <2>5. Demand(cap, J) <= Supply(q, k) /\ Demand(cap, I) <= Supply(q, k + 1)
    BY <2>1, <2>3 DEF Served
  <2> HIDE DEF k, I
  <2>6. \/ Supply(q, k) <= Supply(Evicted(q, c), k)
        \/ Supply(q, k + 1) <= Supply(Evicted(q, c), k) + c
    BY <2>2, SupplyEvicted
  <2>7. Supply(q, k) \in Nat /\ Supply(q, k + 1) \in Nat /\ Supply(Evicted(q, c), k) \in Nat
    <3>1. k + 1 \in Nat
      BY <2>2
    <3>2. IsFiniteSet(DOMAIN q) /\ IsFiniteSet(DOMAIN Evicted(q, c))
      BY EvictedType, QueueFinite
    <3>3. QED
      BY <2>2, <3>1, <3>2, SupplyType
  <2>8. QED
    BY <2>2, <2>4, <2>5, <2>6, <2>7 DEF k
<1>2. QED
  BY <1>1 DEF Served

(* No misses are always covered. *)
LEMMA CoveredNone ==
    ASSUME NEW q \in Queues, NEW spread, NEW cap
    PROVE  Covered(q, spread, cap, {})
BY QueueFinite, ServedNone DEF Covered

(* The same if one of them is spread over regions.  It may be the one left *)
(* out; another one, served until then, is the one that is spread then.    *)
LEMMA CoveredEvicted ==
    ASSUME NEW q \in Queues, Descending(q), NEW c \in Nat \ {0}, c <= Len(q),
           NEW cap, NEW X, Misses(cap, X), \A y \in X : c <= cap[y],
           NEW spread \in Nat, Covered(q, spread, cap, X), NEW x \in X
    PROVE  Covered(Evicted(q, c), spread, cap, X \ {x})
<1>1. /\ Evicted(q, c) \in Queues /\ Len(Evicted(q, c)) <= Len(q)
      /\ Len(q) \in Nat /\ Len(Evicted(q, c)) \in Nat
  BY EvictedType DEF Queues
<1>2. CASE Served(q, cap, X)
  BY <1>2, ServedEvicted DEF Covered
<1>3. ASSUME NEW z \in X, Served(q, cap, X \ {z}), cap[z] <= spread, Len(q) <= spread
      PROVE  Covered(Evicted(q, c), spread, cap, X \ {x})
  <2>1. Len(Evicted(q, c)) <= spread
    BY <1>1, <1>3
  <2>2. Misses(cap, X \ {z})
    BY MissesType
  <2>3. CASE z # x
    <3>1. Served(Evicted(q, c), cap, (X \ {z}) \ {x})
      BY <1>3, <2>2, <2>3, ServedEvicted
    <3>2. (X \ {z}) \ {x} = (X \ {x}) \ {z} /\ z \in X \ {x}
      BY <2>3
    <3>3. QED
      BY <1>3, <2>1, <3>1, <3>2 DEF Covered
  <2>4. CASE z = x /\ X \ {x} = {}
    BY <1>1, <2>4, CoveredNone
  <2>5. CASE z = x /\ X \ {x} # {}
    <3>1. PICK y \in X \ {x} : TRUE
      BY <2>5
    <3>2. Served(Evicted(q, c), cap, (X \ {x}) \ {y})
      BY <1>3, <2>2, <2>5, <3>1, ServedEvicted
    <3>3. cap[y] <= Len(q)
      BY <1>3, <2>2, <2>5, <3>1, ServedOne
    <3>4. cap[y] \in Nat
      BY <3>1 DEF Misses
    <3>5. cap[y] <= spread
      BY <1>1, <1>3, <3>3, <3>4
    <3>6. QED
      BY <2>1, <3>1, <3>2, <3>5 DEF Covered
  <2>6. QED
    BY <2>3, <2>4, <2>5
<1>4. QED
  BY <1>2, <1>3 DEF Covered

(* When the queue is too short for another eviction, at most a miss that   *)
(* is spread over regions is left.                                         *)
LEMMA CoveredAtEnd ==
    ASSUME NEW q \in Queues, NEW c \in Nat \ {0}, Len(q) < c,
           NEW cap, NEW X, Misses(cap, X), \A y \in X : c <= cap[y],
           NEW spread \in Nat, Covered(q, spread, cap, X)
    PROVE  X = {} \/ (Cardinality(X) = 1 /\ c <= spread)
<1>1. ASSUME NEW Y \in SUBSET X, Served(q, cap, Y) PROVE Y = {}
  <2>1. SUFFICES ASSUME NEW y \in Y PROVE FALSE
    OBVIOUS
  <2>2. Misses(cap, Y) /\ cap[y] \in Nat /\ c <= cap[y] /\ Len(q) \in Nat
    BY MissesType DEF Misses, Queues
  <2>3. cap[y] <= Len(q)
    BY <1>1, <2>2, ServedOne
  <2>4. QED
    BY <2>2, <2>3
<1>2. CASE Served(q, cap, X)
  BY <1>1, <1>2
<1>3. ASSUME NEW z \in X, Served(q, cap, X \ {z}), cap[z] <= spread
      PROVE  Cardinality(X) = 1 /\ c <= spread
  <2>1. X \ {z} = {}
    BY <1>1, <1>3
  <2>2. X = {z}
    BY <2>1
  <2>3. cap[z] \in Nat /\ c <= cap[z]
    BY DEF Misses
  <2>4. Cardinality({z}) = 1
    BY FS_Singleton
  <2>5. QED
    BY <1>3, <2>2, <2>3, <2>4
<1>4. QED
  BY <1>2, <1>3 DEF Covered

(* Up to the n-th eviction for a block of cap c, the misses in X are       *)
(* counted or still covered; those of the block, Y, are counted first.     *)
RoundCovers(a, n, c, spread, cap, X, Y) ==
    /\ Descending(a.queue)
    /\ a.number = n \/ Len(a.queue) < c
    /\ \E Z \in SUBSET X :
           /\ Covered(a.queue, spread, cap, Z)
           /\ Cardinality(X) <= a.number + Cardinality(Z)
           /\ a.number = n => Z \cap Y = {} \/ Cardinality(Z \cap Y) + n <= Cardinality(Y)

(* One eviction more. *)
LEMMA RoundStillCovers ==
    ASSUME NEW a \in Rounds, NEW n \in Nat \ {0}, a.number <= n - 1,
           NEW c \in Nat \ {0}, NEW spread \in Nat,
           NEW cap, NEW X, Misses(cap, X), \A y \in X : c <= cap[y], NEW Y \in SUBSET X,
           RoundCovers(a, n - 1, c, spread, cap, X, Y)
    PROVE  RoundCovers(Round(a, n, c), n, c, spread, cap, X, Y)
<1> DEFINE q == a.queue
           e == Evicted(q, c)
<1>1. q \in Queues /\ a.number \in Nat /\ Len(q) \in Nat
  BY DEF Rounds, Queues
<1>2. PICK Z \in SUBSET X :
          /\ Covered(q, spread, cap, Z)
          /\ Cardinality(X) <= a.number + Cardinality(Z)
          /\ a.number = n - 1 => Z \cap Y = {} \/ Cardinality(Z \cap Y) + (n - 1) <= Cardinality(Y)
  BY DEF RoundCovers
<1>3. Descending(q) /\ (a.number = n - 1 \/ Len(q) < c)
  BY DEF RoundCovers
<1>4. CASE Len(q) < c
  <2>1. Round(a, n, c) = a
    BY <1>4 DEF Round
  <2>2. a.number # n
    BY <1>1
  <2>3. \E V \in SUBSET X :
           /\ Covered(a.queue, spread, cap, V)
           /\ Cardinality(X) <= a.number + Cardinality(V)
           /\ a.number = n => V \cap Y = {} \/ Cardinality(V \cap Y) + n <= Cardinality(Y)
    BY <1>2, <2>2
  <2>4. RoundCovers(a, n, c, spread, cap, X, Y)
    BY <1>3, <1>4, <2>3, Zenon DEF RoundCovers
  <2>5. QED
    BY <2>1, <2>4
<1>5. CASE ~(Len(q) < c)
  <2>1. /\ Round(a, n, c) = [number |-> n, queue |-> e]
        /\ c <= Len(q) /\ a.number = n - 1
    BY <1>1, <1>3, <1>5 DEF Round
  <2>2. e \in Queues /\ Descending(e)
    BY <1>1, EvictedType
  <2>3. /\ Misses(cap, Z) /\ IsFiniteSet(Z) /\ Cardinality(Z) \in Nat
        /\ Cardinality(X) \in Nat /\ Cardinality(Y) \in Nat
        /\ IsFiniteSet(Z \cap Y) /\ Cardinality(Z \cap Y) \in Nat
        /\ \A y \in Z : c <= cap[y]
    BY MissesType, FS_Subset DEF Misses
  <2> HIDE DEF q, e
  <2> DEFINE Goal == \E V \in SUBSET X :
                 /\ Covered(e, spread, cap, V)
                 /\ Cardinality(X) <= n + Cardinality(V)
                 /\ V \cap Y = {} \/ Cardinality(V \cap Y) + n <= Cardinality(Y)
  <2>4. ASSUME Z = {} PROVE Goal
    <3>1. Covered(e, spread, cap, {})
      BY <2>2, CoveredNone
    <3>2. Cardinality({}) = 0
      BY FS_EmptySet
    <3>3. Cardinality(X) <= n + Cardinality({})
      BY <1>2, <2>1, <2>3, <2>4, <3>2
    <3>4. QED
      BY <3>1, <3>3
  <2>5. ASSUME Z # {}, Z \cap Y = {} PROVE Goal
    <3>1. PICK x \in Z : TRUE
      BY <2>5
    <3>2. Covered(e, spread, cap, Z \ {x})
      BY <1>1, <1>2, <1>3, <2>1, <2>3, CoveredEvicted DEF e, q
    <3>3. Cardinality(Z \ {x}) = Cardinality(Z) - 1
      BY <2>3, FS_RemoveElement
    <3>4. Cardinality(X) <= n + Cardinality(Z \ {x})
      BY <1>2, <2>1, <2>3, <3>3
    <3>5. (Z \ {x}) \cap Y = {} /\ Z \ {x} \in SUBSET X
      BY <2>5
    <3>6. QED
      BY <3>2, <3>4, <3>5
  <2>6. ASSUME Z \cap Y # {} PROVE Goal
    <3>1. PICK x \in Z \cap Y : TRUE
      BY <2>6
    <3>2. Covered(e, spread, cap, Z \ {x})
      BY <1>1, <1>2, <1>3, <2>1, <2>3, CoveredEvicted DEF e, q
    <3>3. Cardinality(Z \ {x}) = Cardinality(Z) - 1
      BY <2>3, FS_RemoveElement
    <3>4. Cardinality(X) <= n + Cardinality(Z \ {x})
      BY <1>2, <2>1, <2>3, <3>3
    <3>5. (Z \ {x}) \cap Y = (Z \cap Y) \ {x} /\ Z \ {x} \in SUBSET X
      OBVIOUS
    <3>6. Cardinality((Z \cap Y) \ {x}) = Cardinality(Z \cap Y) - 1
      BY <2>3, FS_RemoveElement
    <3>7. Cardinality((Z \ {x}) \cap Y) + n <= Cardinality(Y)
      <4>1. Cardinality(Z \cap Y) + (n - 1) <= Cardinality(Y)
        BY <1>2, <2>1, <2>6
      <4>2. Cardinality((Z \ {x}) \cap Y) = Cardinality(Z \cap Y) - 1
        BY <3>5, <3>6
      <4>3. QED
        BY <2>3, <4>1, <4>2
    <3>8. QED
      BY <3>2, <3>4, <3>5, <3>7
  <2>7. Goal
    BY <2>4, <2>5, <2>6
  <2> DEFINE new == [number |-> n, queue |-> e]
  <2>8. new.number = n /\ new.queue = e
    OBVIOUS
  <2> HIDE DEF new
  <2>9. RoundCovers(new, n, c, spread, cap, X, Y)
    BY <2>2, <2>7, <2>8 DEF RoundCovers
  <2>10. QED
    BY <2>1, <2>9 DEF new
<1>6. QED
  BY <1>4, <1>5

(* All evictions of a block. *)
LEMMA RoundsCover ==
    ASSUME NEW q \in Queues, Descending(q), NEW c \in Nat \ {0}, NEW count \in Nat,
           NEW spread \in Nat,
           NEW cap, NEW X, Misses(cap, X), \A y \in X : c <= cap[y], NEW Y \in SUBSET X,
           Covered(q, spread, cap, X)
    PROVE  /\ Evictions(q, c, count) \in Rounds /\ Evictions(q, c, count).number <= count
           /\ RoundCovers(Evictions(q, c, count), count, c, spread, cap, X, Y)
<1>1. PICK g : /\ Evictions(q, c, count) = g[count]
               /\ g[0] = [number |-> 0, queue |-> q]
               /\ \A n \in 0 .. count : g[n] \in Rounds /\ g[n].number <= n
               /\ \A n \in 1 .. count : g[n] = Round(g[n - 1], n, c)
  BY EvictionsSteps, Zenon
<1> DEFINE T == {n \in 0 .. count : RoundCovers(g[n], n, c, spread, cap, X, Y)}
<1>2. 0 \in T
  <2>1. g[0].number = 0 /\ g[0].queue = q
    BY <1>1
  <2>2. Cardinality(X) \in Nat /\ Cardinality(Y) \in Nat /\ X \cap Y = Y
    BY MissesType DEF Misses
  <2>3. RoundCovers(g[0], 0, c, spread, cap, X, Y)
    <3>1. Cardinality(X) <= g[0].number + Cardinality(X)
      BY <2>1, <2>2
    <3>2. Cardinality(X \cap Y) + 0 <= Cardinality(Y)
      BY <2>2
    <3>3. Covered(g[0].queue, spread, cap, X) /\ Descending(g[0].queue) /\ X \in SUBSET X
      BY <2>1
    <3>4. QED
      BY <2>1, <3>1, <3>2, <3>3, Zenon DEF RoundCovers
  <2>4. QED
    BY <2>3
<1>3. ASSUME NEW n \in 1 .. count, n - 1 \in T PROVE n \in T
  <2>1. n - 1 \in 0 .. count /\ n \in 0 .. count /\ n \in Nat \ {0}
    OBVIOUS
  <2>2. g[n - 1] \in Rounds /\ g[n - 1].number <= n - 1 /\ g[n] = Round(g[n - 1], n, c)
    BY <1>1, <2>1
  <2>3. RoundCovers(g[n - 1], n - 1, c, spread, cap, X, Y)
    BY <1>3
  <2>4. RoundCovers(g[n], n, c, spread, cap, X, Y)
    BY <2>1, <2>2, <2>3, RoundStillCovers
  <2>5. QED
    BY <2>1, <2>4
<1> HIDE DEF T
<1>4. count \in T
  BY <1>2, <1>3, UpwardTo
<1>5. count \in 0 .. count
  OBVIOUS
<1>6. QED
  BY <1>1, <1>4, <1>5 DEF T

(* How many misses of c lines fit into a lines. *)
LEMMA DivAtLeast ==
    ASSUME NEW a \in Nat, NEW c \in Nat \ {0}
    PROVE  /\ a \div c \in Nat
           /\ c <= a => a \div c >= 1
           /\ ~(c <= a) => a \div c = 0
OBVIOUS

(* A block: the misses X are counted or still covered, and none of its own *)
(* is left.                                                                *)
BlockCovers(new, old, cap, X, Y) ==
    \E Z \in SUBSET X :
        /\ Covered(new.queue, new.spread, cap, Z)
        /\ old.outs + Cardinality(X) <= new.outs + Cardinality(Z)
        /\ Z \cap Y = {}

(* What is counted for a block, its evictions spread over regions          *)
(* included.                                                               *)
LEMMA OneBlockCovers ==
    ASSUME NEW acc \in Accs, Descending(acc.queue), NEW b \in PersistentBlocks,
           NEW cap, NEW X, Misses(cap, X), \A y \in X : b.cap <= cap[y],
           NEW Y \in SUBSET X, Cardinality(Y) <= b.count,
           Covered(acc.queue, acc.spread, cap, X)
    PROVE  /\ Descending(OneBlock(acc, b).queue)
           /\ BlockCovers(OneBlock(acc, b), acc, cap, X, Y)
<1> DEFINE e == Evictions(acc.queue, b.cap, b.count)
           n == e.number
           c == b.cap
           count == b.count
           s == acc.spread \div c
           new == OneBlock(acc, b)
<1>1. /\ acc.queue \in Queues /\ acc.spread \in Nat /\ acc.outs \in Nat
      /\ c \in Nat \ {0} /\ count \in Nat
  BY DEF Accs, PersistentBlocks
<1>2. e \in Rounds /\ n <= count /\ RoundCovers(e, count, c, acc.spread, cap, X, Y)
  BY <1>1, RoundsCover
<1>3. new = [queue |-> e.queue, spread |-> IF count - n >= s THEN 0 ELSE acc.spread,
             outs |-> acc.outs + n + Smaller(count - n, s)]
  BY DEF OneBlock
<1>4. s \in Nat /\ (c <= acc.spread => s >= 1) /\ (~(c <= acc.spread) => s = 0)
  BY <1>1, DivAtLeast
<1>5. n \in Nat /\ e.queue \in Queues /\ Len(e.queue) \in Nat
  BY <1>2 DEF Rounds, Queues
<1>6. Descending(e.queue) /\ (n = count \/ Len(e.queue) < c)
  BY <1>2 DEF RoundCovers
<1>7. PICK Z \in SUBSET X :
          /\ Covered(e.queue, acc.spread, cap, Z)
          /\ Cardinality(X) <= n + Cardinality(Z)
          /\ n = count => Z \cap Y = {} \/ Cardinality(Z \cap Y) + count <= Cardinality(Y)
  BY <1>2 DEF RoundCovers
<1>8. /\ Misses(cap, Z) /\ Cardinality(Z) \in Nat /\ Cardinality(X) \in Nat
      /\ \A y \in Z : c <= cap[y]
      /\ IsFiniteSet(Z \cap Y) /\ Cardinality(Z \cap Y) \in Nat /\ Cardinality(Y) \in Nat
  <2>1. Z \cap Y \in SUBSET X
    OBVIOUS
  <2>2. QED
    BY <2>1, MissesType DEF Misses
<1>9. Cardinality(Y) <= count
  OBVIOUS
<1>10. new.queue = e.queue
  BY <1>3
<1>11. new.spread = (IF count - n >= s THEN 0 ELSE acc.spread)
  BY <1>3
<1>12. new.outs = acc.outs + n + Smaller(count - n, s)
  BY <1>3
<1> HIDE DEF e, n, c, count, s, new
<1>13. CASE n = count
  <2>1. Z \cap Y = {}
    <3>1. SUFFICES ASSUME Cardinality(Z \cap Y) + count <= Cardinality(Y) PROVE Z \cap Y = {}
      BY <1>7, <1>13
    <3>2. Cardinality(Z \cap Y) = 0
      BY <1>1, <1>8, <1>9, <3>1
    <3>3. QED
      BY <1>8, <3>2, FS_EmptySet
  <2>2. Smaller(count - n, s) = 0
    BY <1>1, <1>4, <1>13 DEF Smaller
  <2>3. acc.outs + Cardinality(X) <= new.outs + Cardinality(Z)
    BY <1>1, <1>5, <1>7, <1>8, <1>12, <2>2
  <2>4. Covered(new.queue, new.spread, cap, Z)
    <3>1. CASE c <= acc.spread
      <4>1. new.spread = acc.spread
        BY <1>1, <1>4, <1>11, <1>13, <3>1
      <4>2. QED
        BY <1>7, <1>10, <4>1
    <3>2. CASE ~(c <= acc.spread)
      <4>1. ASSUME NEW z \in Z, cap[z] <= acc.spread PROVE FALSE
        <5>1. c <= cap[z] /\ cap[z] \in Nat
          BY <1>8 DEF Misses
        <5>2. QED
          BY <1>1, <3>2, <4>1, <5>1
      <4>2. Served(e.queue, cap, Z)
        BY <1>7, <4>1 DEF Covered
      <4>3. QED
        BY <1>10, <4>2 DEF Covered
    <3>3. QED
      BY <3>1, <3>2
  <2>5. BlockCovers(new, acc, cap, X, Y)
    BY <2>1, <2>3, <2>4 DEF BlockCovers
  <2>6. QED
    BY <1>6, <1>10, <2>5 DEF new
<1>14. CASE n # count
  <2>1. Len(e.queue) < c
    BY <1>6, <1>14
  <2>2. Z = {} \/ (Cardinality(Z) = 1 /\ c <= acc.spread)
    BY <1>1, <1>5, <1>7, <1>8, <2>1, CoveredAtEnd
  <2>3. Cardinality({}) = 0
    BY FS_EmptySet
  <2>4. count - n >= 1
    BY <1>1, <1>2, <1>5, <1>14 DEF n, count
  <2>5. Cardinality(Z) <= Smaller(count - n, s) /\ Smaller(count - n, s) \in Int
    <3>1. count - n \in Nat
      BY <1>1, <1>5, <2>4
    <3>2. CASE Z = {}
      BY <1>4, <2>3, <3>1, <3>2 DEF Smaller
    <3>3. CASE Cardinality(Z) = 1 /\ c <= acc.spread
      BY <1>4, <2>4, <3>1, <3>3 DEF Smaller
    <3>4. QED
      BY <2>2, <3>2, <3>3
  <2>6. acc.outs + Cardinality(X) <= new.outs + Cardinality({})
    BY <1>1, <1>5, <1>7, <1>8, <1>12, <2>3, <2>5
  <2>7. Covered(new.queue, new.spread, cap, {})
    BY <1>5, <1>10, CoveredNone
  <2>8. BlockCovers(new, acc, cap, X, Y)
    BY <2>6, <2>7 DEF BlockCovers
  <2>9. QED
    BY <1>6, <1>10, <2>8 DEF new
<1>15. QED
  BY <1>13, <1>14

(* The blocks in s have the smallest capacities. *)
Smallest(blocks, s) ==
    \A i \in s, j \in DOMAIN blocks \ s : blocks[i].cap <= blocks[j].cap

(* After the blocks in s: the misses in X are counted or covered, and none *)
(* of those blocks is left.                                                *)
BlocksCover(acc, blocks, s, cap, X, block) ==
    /\ Descending(acc.queue)
    /\ \E Z \in SUBSET X :
           /\ Covered(acc.queue, acc.spread, cap, Z)
           /\ Cardinality(X) <= acc.outs + Cardinality(Z)
           /\ \A x \in Z : block[x] \notin s

(* One block more. *)
LEMMA BlocksStillCover ==
    ASSUME NEW blocks \in Seq(PersistentBlocks), NEW cap, NEW X, Misses(cap, X),
           NEW block,
           \A x \in X : block[x] \in DOMAIN blocks /\ cap[x] = blocks[block[x]].cap,
           \A i \in DOMAIN blocks : Cardinality({x \in X : block[x] = i}) <= blocks[i].count,
           NEW s \in SUBSET DOMAIN blocks, NEW i \in s, Smallest(blocks, s),
           \A j \in s : blocks[j].cap <= blocks[i].cap,
           NEW acc \in Accs, BlocksCover(acc, blocks, s \ {i}, cap, X, block)
    PROVE  BlocksCover(OneBlock(acc, blocks[i]), blocks, s, cap, X, block)
<1> DEFINE b == blocks[i]
           new == OneBlock(acc, b)
<1>1. b \in PersistentBlocks /\ i \in DOMAIN blocks
  OBVIOUS
<1>2. PICK Z \in SUBSET X :
          /\ Covered(acc.queue, acc.spread, cap, Z)
          /\ Cardinality(X) <= acc.outs + Cardinality(Z)
          /\ \A x \in Z : block[x] \notin s \ {i}
  BY DEF BlocksCover
<1>3. Misses(cap, Z) /\ Cardinality(Z) \in Nat /\ Cardinality(X) \in Nat
  BY MissesType
<1>4. \A y \in Z : b.cap <= cap[y]
  <2> TAKE y \in Z
  <2>1. block[y] \in DOMAIN blocks /\ cap[y] = blocks[block[y]].cap /\ block[y] \notin s \ {i}
    BY <1>2
  <2>2. CASE block[y] = i
    <3>1. b.cap \in Nat
      BY <1>1 DEF PersistentBlocks
    <3>2. QED
      BY <2>1, <2>2, <3>1
  <2>3. CASE block[y] # i
    <3>1. block[y] \in DOMAIN blocks \ s
      BY <2>1, <2>3
    <3>2. QED
      BY <2>1, <3>1 DEF Smallest
  <2>4. QED
    BY <2>2, <2>3
<1> DEFINE Y == {x \in Z : block[x] = i}
<1>5. Cardinality(Y) <= b.count
  <2> DEFINE W == {x \in X : block[x] = i}
  <2>1. Y \subseteq W /\ IsFiniteSet(W) /\ W \subseteq X
    BY FS_Subset DEF Misses
  <2>2. Cardinality(W) <= b.count
    BY <1>1
  <2> HIDE DEF Y, W
  <2>3. Cardinality(Y) <= Cardinality(W) /\ Cardinality(Y) \in Nat /\ Cardinality(W) \in Nat
    BY <2>1, FS_Subset, FS_CardinalityType
  <2>4. b.count \in Nat
    BY <1>1 DEF PersistentBlocks
  <2> HIDE DEF b
  <2>5. QED
    BY <2>2, <2>3, <2>4
<1>6. Descending(acc.queue) /\ Y \in SUBSET Z
  BY DEF BlocksCover
<1> HIDE DEF Y, b
<1>7. Descending(new.queue) /\ BlockCovers(new, acc, cap, Z, Y)
  BY <1>1, <1>2, <1>3, <1>4, <1>5, <1>6, OneBlockCovers
<1>8. new \in Accs
  BY <1>1, OneBlockType
<1> HIDE DEF new
<1>9. PICK V \in SUBSET Z :
          /\ Covered(new.queue, new.spread, cap, V)
          /\ acc.outs + Cardinality(Z) <= new.outs + Cardinality(V)
          /\ V \cap Y = {}
  BY <1>7 DEF BlockCovers
<1>10. Cardinality(V) \in Nat
  BY <1>3, MissesType
<1>11. Cardinality(X) <= new.outs + Cardinality(V)
  <2>1. acc.outs \in Nat /\ new.outs \in Nat
    BY <1>8 DEF Accs
  <2>2. QED
    BY <1>2, <1>3, <1>9, <1>10, <2>1
<1>12. \A x \in V : block[x] \notin s
  BY <1>2, <1>9 DEF Y
<1>13. V \in SUBSET X
  OBVIOUS
<1>14. BlocksCover(new, blocks, s, cap, X, block)
  BY <1>7, <1>9, <1>11, <1>12, <1>13 DEF BlocksCover
<1>15. QED
  BY <1>14 DEF new, b

(* Misses that are covered by the loads of the other core's regions are    *)
(* counted out.                                                            *)
LEMMA OutsCover ==
    ASSUME NEW blocks \in Seq(PersistentBlocks), NEW urs, NEW set,
           OutsStart(urs, set) \in Accs, Descending(LoadQueue(urs, set)),
           NEW cap, NEW X, Misses(cap, X),
           NEW block,
           \A x \in X : block[x] \in DOMAIN blocks /\ cap[x] = blocks[block[x]].cap,
           \A i \in DOMAIN blocks : Cardinality({x \in X : block[x] = i}) <= blocks[i].count,
           Covered(LoadQueue(urs, set), LinesPerRegion(urs, set), cap, X)
    PROVE  Outs(blocks, urs, set) \in Nat /\ Cardinality(X) <= Outs(blocks, urs, set)
<1> DEFINE S == DOMAIN blocks
<1>1. PICK g : CountsBlocks(g, blocks, urs, set)
  BY OutsAre
<1> DEFINE T == {s \in SUBSET S :
                    Smallest(blocks, s) => BlocksCover(g[s], blocks, s, cap, X, block)}
<1>2. IsFiniteSet(S) /\ \A i \in S : KeyIsInt(blocks[i])
  <2>1. S = 1 .. Len(blocks) /\ Len(blocks) \in Nat
    OBVIOUS
  <2>2. IsFiniteSet(1 .. Len(blocks))
    BY <2>1, FS_Interval
  <2>3. \A i \in S : blocks[i] \in PersistentBlocks
    OBVIOUS
  <2>4. QED
    BY <2>1, <2>2, <2>3 DEF PersistentBlocks, Blocks, KeyIsInt
<1>3. {} \in T
  <2>1. g[{}] = OutsStart(urs, set)
    BY <1>1 DEF CountsBlocks
  <2>2. /\ g[{}].queue = LoadQueue(urs, set) /\ g[{}].spread = LinesPerRegion(urs, set)
        /\ g[{}].outs = 0
    BY <2>1 DEF OutsStart
  <2>3. Cardinality(X) \in Nat
    BY MissesType
  <2>4. Cardinality(X) <= g[{}].outs + Cardinality(X)
    BY <2>2, <2>3
  <2>5. BlocksCover(g[{}], blocks, {}, cap, X, block)
    <3>1. Covered(g[{}].queue, g[{}].spread, cap, X) /\ Descending(g[{}].queue)
      BY <2>2
    <3>2. X \in SUBSET X /\ \A x \in X : block[x] \notin {}
      OBVIOUS
    <3>3. QED
      BY <2>4, <3>1, <3>2, Zenon DEF BlocksCover
  <2>6. QED
    BY <2>5
<1>4. ASSUME NEW s \in SUBSET S, s # {}
      PROVE  \E x \in s : s \ {x} \in T => s \in T
  <2> DEFINE i == Largest(blocks, s)
  <2>1. IsFiniteSet(s)
    BY <1>2, FS_Subset
  <2>2. i \in s /\ \A j \in s : blocks[j].cap <= blocks[i].cap
    BY <1>2, <1>4, <2>1, LargestExists
  <2>3. g[s] = OneBlock(g[s \ {i}], blocks[i]) /\ g[s \ {i}] \in Accs
    BY <1>1, <1>4 DEF CountsBlocks
  <2> HIDE DEF i
  <2>4. ASSUME s \ {i} \in T, Smallest(blocks, s)
        PROVE  BlocksCover(g[s], blocks, s, cap, X, block)
    <3>1. Smallest(blocks, s \ {i})
      <4>1. ASSUME NEW k \in s \ {i}, NEW j \in S \ (s \ {i}) PROVE blocks[k].cap <= blocks[j].cap
        <5>1. CASE j = i
          BY <2>2, <5>1
        <5>2. CASE j # i
          BY <2>4, <5>2 DEF Smallest
        <5>3. QED
          BY <5>1, <5>2
      <4>2. QED
        BY <4>1 DEF Smallest
    <3>2. BlocksCover(g[s \ {i}], blocks, s \ {i}, cap, X, block)
      BY <2>4, <3>1
    <3>3. QED
      BY <2>2, <2>3, <2>4, <3>2, BlocksStillCover
  <2>5. s \ {i} \in T => s \in T
    BY <2>4
  <2>6. QED
    BY <2>2, <2>5
<1> HIDE DEF T
<1>5. \A s \in SUBSET S : s \in T
  BY <1>2, <1>3, <1>4, SetUpward
<1>6. S \in T /\ Smallest(blocks, S)
  BY <1>5 DEF Smallest
<1>7. BlocksCover(g[S], blocks, S, cap, X, block)
  BY <1>6 DEF T
<1>8. PICK Z \in SUBSET X :
          /\ Cardinality(X) <= g[S].outs + Cardinality(Z)
          /\ \A x \in Z : block[x] \notin S
  BY <1>7 DEF BlocksCover
<1>9. Z = {}
  BY <1>8
<1>10. Cardinality(Z) = 0
  BY <1>9, FS_EmptySet
<1>11. Outs(blocks, urs, set) = g[S].outs /\ g[S] \in Accs
  BY <1>1 DEF CountsBlocks
<1>12. g[S].outs \in Nat
  BY <1>11 DEF Accs
<1>13. QED
  BY <1>8, <1>10, <1>11, <1>12

-----------------------------------------------------------------------------
(* The loads of one region, and of several. *)

LoadsByLine(ur, set) == [l \in LinesLoaded(<<ur>>, set) |-> LoadsOf(ur, l)]

(* The queue of one region. *)
LEMMA LoadsByLineType ==
    ASSUME NEW ur \in Seq(Blocks), NEW set
    PROVE  /\ IsFiniteSet(DOMAIN LoadsByLine(ur, set))
           /\ \A l \in DOMAIN LoadsByLine(ur, set) : LoadsByLine(ur, set)[l] \in Int
           /\ Loads(ur, set) = Decreasing(LoadsByLine(ur, set))
           /\ Loads(ur, set) \in Queues /\ Descending(Loads(ur, set))
           /\ Len(Loads(ur, set)) = Cardinality(AtLeast(LoadsByLine(ur, set), 1))
<1>1. <<ur>> \in Seq(Seq(Blocks))
  OBVIOUS
<1>2. /\ IsFiniteSet(DOMAIN LoadsByLine(ur, set))
      /\ \A l \in DOMAIN LoadsByLine(ur, set) : LoadsByLine(ur, set)[l] \in Int
  BY <1>1, LinesLoadedFinite, LoadsOfType DEF LoadsByLine
<1>3. Loads(ur, set) = Decreasing(LoadsByLine(ur, set))
  BY Zenon DEF Loads, LoadsByLine
<1>4. QED
  BY <1>2, <1>3, DecreasingCounts, DecreasingDescends DEF Queues

(* The queue of several regions, as counting starts with it. *)
LEMMA OutsStartType ==
    ASSUME NEW urs \in Seq(Seq(Blocks)), NEW set
    PROVE  OutsStart(urs, set) \in Accs /\ Descending(LoadQueue(urs, set))
<1>1. PICK g : /\ LoadQueue(urs, set) = g[Len(urs)] /\ g[0] = <<>>
               /\ \A k \in 0 .. Len(urs) : g[k] \in Queues
               /\ \A k \in 1 .. Len(urs) : g[k] = AddedUp(g[k - 1], Loads(urs[k], set))
  BY LoadQueueSteps, Zenon
<1>2. LinesPerRegion(urs, set) \in Nat
  <2>1. PICK h : /\ LinesPerRegion(urs, set) = h[Len(urs)]
                 /\ \A k \in 0 .. Len(urs) : h[k] \in Nat
    BY LinesPerRegionSteps, Zenon
  <2>2. Len(urs) \in 0 .. Len(urs)
    OBVIOUS
  <2>3. QED
    BY <2>1, <2>2
<1> DEFINE n == Len(urs)
           T == {k \in 0 .. n : Descending(g[k])}
<1>3. n \in Nat /\ n \in 0 .. n /\ 0 \in 0 .. n
  OBVIOUS
<1>4. 0 \in T
  BY <1>1, <1>3 DEF Descending
<1>5. ASSUME NEW k \in 1 .. n, k - 1 \in T PROVE k \in T
  <2>1. k \in 0 .. n /\ k - 1 \in 0 .. n /\ urs[k] \in Seq(Blocks)
    OBVIOUS
  <2>2. /\ g[k] = AddedUp(g[k - 1], Loads(urs[k], set)) /\ g[k - 1] \in Queues
        /\ Descending(g[k - 1])
    BY <1>1, <1>5, <2>1
  <2>3. Loads(urs[k], set) \in Queues /\ Descending(Loads(urs[k], set))
    BY <2>1, LoadsByLineType
  <2>4. Descending(g[k])
    BY <2>2, <2>3, AddedUpDescends
  <2>5. QED
    BY <2>1, <2>4
<1> HIDE DEF T
<1>6. n \in T
  BY <1>3, <1>4, <1>5, UpwardTo
<1>7. Descending(LoadQueue(urs, set)) /\ LoadQueue(urs, set) \in Queues
  BY <1>1, <1>3, <1>6 DEF T
<1>8. QED
  BY <1>2, <1>7 DEF OutsStart, Accs

(* One region more: its loads are added to what was counted before. *)
LEMMA OneRegionMore ==
    ASSUME NEW urs \in Seq(Seq(Blocks)), NEW longer \in Seq(Seq(Blocks)),
           Len(longer) = Len(urs) + 1, \A k \in 1 .. Len(urs) : longer[k] = urs[k], NEW set
    PROVE  LET loads == Loads(longer[Len(longer)], set)
           IN /\ LoadQueue(longer, set) = AddedUp(LoadQueue(urs, set), loads)
              /\ LinesPerRegion(longer, set) = LinesPerRegion(urs, set) + Len(loads)
<1> DEFINE n == Len(urs)
           loads == Loads(longer[n + 1], set)
<1>1. n \in Nat /\ n \in 0 .. n /\ 0 \in 0 .. n /\ n + 1 \in 1 .. n + 1 /\ n + 1 - 1 = n
  OBVIOUS
<1>2. PICK g : /\ LoadQueue(urs, set) = g[Len(urs)] /\ g[0] = <<>>
               /\ \A k \in 0 .. Len(urs) : g[k] \in Queues
               /\ \A k \in 1 .. Len(urs) : g[k] = AddedUp(g[k - 1], Loads(urs[k], set))
  BY LoadQueueSteps, Zenon
<1>3. PICK G : /\ LoadQueue(longer, set) = G[Len(longer)] /\ G[0] = <<>>
               /\ \A k \in 0 .. Len(longer) : G[k] \in Queues
               /\ \A k \in 1 .. Len(longer) : G[k] = AddedUp(G[k - 1], Loads(longer[k], set))
  BY LoadQueueSteps, Zenon
<1>4. PICK h : /\ LinesPerRegion(urs, set) = h[Len(urs)] /\ h[0] = 0
               /\ \A k \in 0 .. Len(urs) : h[k] \in Nat
               /\ \A k \in 1 .. Len(urs) : h[k] = h[k - 1] + Len(Loads(urs[k], set))
  BY LinesPerRegionSteps, Zenon
<1>5. PICK H : /\ LinesPerRegion(longer, set) = H[Len(longer)] /\ H[0] = 0
               /\ \A k \in 0 .. Len(longer) : H[k] \in Nat
               /\ \A k \in 1 .. Len(longer) : H[k] = H[k - 1] + Len(Loads(longer[k], set))
  BY LinesPerRegionSteps, Zenon
<1>6. /\ \A k \in 1 .. n : longer[k] = urs[k] /\ k \in 1 .. n + 1
      /\ Len(longer) = n + 1 /\ Len(urs) = n
  OBVIOUS
<1> HIDE DEF n
<1> DEFINE T == {k \in 0 .. n : g[k] = G[k] /\ h[k] = H[k]}
<1>7. 0 \in T
  BY <1>1, <1>2, <1>3, <1>4, <1>5
<1>8. ASSUME NEW k \in 1 .. n, k - 1 \in T PROVE k \in T
  <2>1. k \in 0 .. n /\ g[k - 1] = G[k - 1] /\ h[k - 1] = H[k - 1]
    BY <1>1, <1>8
  <2>2. g[k] = G[k]
    BY <1>2, <1>3, <1>6, <2>1, Zenon
  <2>3. h[k] = H[k]
    BY <1>4, <1>5, <1>6, <2>1, Zenon
  <2>4. QED
    BY <2>1, <2>2, <2>3
<1> HIDE DEF T
<1>9. n \in T
  BY <1>1, <1>7, <1>8, UpwardTo
<1>10. g[n] = G[n] /\ h[n] = H[n]
  BY <1>9 DEF T
<1>11. G[n + 1] = AddedUp(G[n], loads) /\ H[n + 1] = H[n] + Len(loads)
  BY <1>1, <1>3, <1>5, <1>6
<1>12. LoadQueue(longer, set) = AddedUp(LoadQueue(urs, set), loads)
  BY <1>2, <1>3, <1>6, <1>10, <1>11, Zenon
<1>13. LinesPerRegion(longer, set) = LinesPerRegion(urs, set) + Len(loads)
  BY <1>4, <1>5, <1>6, <1>10, <1>11, Zenon
<1>14. Len(longer) = n + 1
  BY <1>6
<1>15. QED
  BY <1>12, <1>13, <1>14

(* No regions have no loads; *)
LEMMA NoRegionsYet ==
    ASSUME NEW set
    PROVE  LoadQueue(<<>>, set) = <<>> /\ LinesPerRegion(<<>>, set) = 0
<1>1. <<>> \in Seq(Seq(Blocks)) /\ Len(<<>>) = 0
  OBVIOUS
<1>2. PICK g : LoadQueue(<<>>, set) = g[0] /\ g[0] = <<>>
  BY <1>1, LoadQueueSteps, Zenon
<1>3. PICK h : LinesPerRegion(<<>>, set) = h[0] /\ h[0] = 0
  BY <1>1, LinesPerRegionSteps, Zenon
<1>4. QED
  BY <1>2, <1>3

(* and the queue of some is not longer than they have lines. *)
LEMMA QueueWithinLines ==
    ASSUME NEW urs \in Seq(Seq(Blocks)), NEW set
    PROVE  /\ LoadQueue(urs, set) \in Queues /\ LinesPerRegion(urs, set) \in Nat
           /\ Len(LoadQueue(urs, set)) <= LinesPerRegion(urs, set)
<1> DEFINE n == Len(urs)
<1>1. PICK g : /\ LoadQueue(urs, set) = g[n] /\ g[0] = <<>>
               /\ \A k \in 0 .. n : g[k] \in Queues
               /\ \A k \in 1 .. n : g[k] = AddedUp(g[k - 1], Loads(urs[k], set))
  BY LoadQueueSteps, Zenon
<1>2. PICK h : /\ LinesPerRegion(urs, set) = h[n] /\ h[0] = 0
               /\ \A k \in 0 .. n : h[k] \in Nat
               /\ \A k \in 1 .. n : h[k] = h[k - 1] + Len(Loads(urs[k], set))
  BY LinesPerRegionSteps, Zenon
<1>3. n \in Nat /\ n \in 0 .. n /\ 0 \in 0 .. n /\ \A k \in 1 .. n : urs[k] \in Seq(Blocks)
  OBVIOUS
<1> HIDE DEF n
<1> DEFINE T == {k \in 0 .. n : Len(g[k]) <= h[k]}
<1>4. 0 \in T
  BY <1>1, <1>2, <1>3
<1>5. ASSUME NEW k \in 1 .. n, k - 1 \in T PROVE k \in T
  <2> DEFINE p == g[k - 1]
             q == Loads(urs[k], set)
             a == g[k]
             v == h[k - 1]
             w == h[k]
  <2>1. k \in 0 .. n /\ k - 1 \in 0 .. n
    BY <1>3
  <2>2. p \in Queues /\ q \in Queues /\ a = AddedUp(p, q) /\ v \in Nat /\ w = v + Len(q) /\ Len(p) <= v
    BY <1>1, <1>2, <1>3, <1>5, <2>1, LoadsByLineType
  <2> HIDE DEF p, q, a, v, w
  <2>3. Len(a) = (IF Len(p) <= Len(q) THEN Len(q) ELSE Len(p)) /\ Len(p) \in Nat /\ Len(q) \in Nat
    BY <2>2, AddedUpType DEF Queues
  <2>4. Len(a) <= w
    BY <2>2, <2>3
  <2>5. QED
    BY <2>1, <2>4 DEF a, w
<1> HIDE DEF T
<1>6. n \in T
  BY <1>3, <1>4, <1>5, UpwardTo
<1>7. QED
  BY <1>1, <1>2, <1>3, <1>6 DEF T

(* Those finds the places it keeps, one for one. *)
PlacesFound(p, s, keep) ==
    /\ \A i \in DOMAIN s \cap keep : p[i] \in DOMAIN Those(s, keep) /\ Those(s, keep)[p[i]] = s[i]
    /\ \A i, j \in DOMAIN s \cap keep : p[i] = p[j] => i = j

LEMMA ThosePlaces ==
    ASSUME NEW S, NEW s \in Seq(S), NEW keep
    PROVE  \E p : PlacesFound(p, s, keep)
<1> DEFINE n == Len(s)
<1>1. PICK g : ListsThose(g, s, keep)
  BY ThoseSteps
<1>2. /\ Those(s, keep) = g[n] /\ g[0] = <<>>
      /\ \A i \in 1 .. n : g[i] = IF i \in keep THEN Append(g[i - 1], s[i]) ELSE g[i - 1]
  BY <1>1 DEF ListsThose
<1>3. n \in Nat /\ DOMAIN s = 1 .. n /\ \A i \in 1 .. n : s[i] \in S
  OBVIOUS
<1> DEFINE p == [i \in 0 .. n |-> Len(g[i])]
           Found(i) == /\ g[i] \in Seq(S)
                       /\ \A j \in 0 .. i : p[j] <= Len(g[i]) /\ p[j] \in Nat
                       /\ \A j \in 1 .. i : j \in keep => p[j] >= 1 /\ g[i][p[j]] = s[j]
                       /\ \A j, k \in 1 .. i : j < k /\ k \in keep => p[j] < p[k]
           T == {i \in 0 .. n : Found(i)}
<1>4. 0 \in T
  <2>1. g[0] \in Seq(S) /\ Len(g[0]) = 0 /\ p[0] = 0
    BY <1>2, <1>3, EmptySeq
  <2>2. 0 \in 0 .. n /\ 0 .. 0 = {0} /\ 1 .. 0 = {}
    BY <1>3
  <2> HIDE DEF p, n
  <2>3. QED
    BY <2>1, <2>2
<1>5. ASSUME NEW i \in 1 .. n, i - 1 \in T PROVE i \in T
  <2>1. /\ i \in Nat \ {0} /\ i \in 0 .. n /\ i - 1 \in 0 .. n
        /\ \A j \in 0 .. i : j \in 0 .. i - 1 \/ j = i
        /\ \A j \in 1 .. i : j \in 1 .. i - 1 \/ j = i
        /\ \A j \in 1 .. i - 1 : j < i /\ j \in 0 .. i - 1
        /\ s[i] \in S
    BY <1>3
  <2>2. Found(i - 1) /\ p[i] = Len(g[i]) /\ p[i - 1] = Len(g[i - 1])
    BY <1>5, <2>1
  <2>3. g[i - 1] \in Seq(S) /\ Len(g[i - 1]) \in Nat
    BY <2>2
  <2>4. CASE i \notin keep
    <3>1. g[i] = g[i - 1]
      BY <1>2, <2>4
    <3> HIDE DEF p, n
    <3>2. Found(i)
      BY <2>1, <2>2, <2>3, <2>4, <3>1
    <3>3. QED
      BY <2>1, <3>2
  <2>5. CASE i \in keep
    <3> DEFINE u == g[i - 1]
               v == g[i]
    <3>1. v = Append(u, s[i])
      BY <1>2, <2>5
    <3>2. /\ v \in Seq(S) /\ Len(v) = Len(u) + 1 /\ v[Len(u) + 1] = s[i]
          /\ \A r \in 1 .. Len(u) : v[r] = u[r]
      <4> HIDE DEF u, v
      <4>1. u \in Seq(S)
        BY <2>3 DEF u
      <4>2. QED
        BY <2>1, <3>1, <4>1
    <3>3. /\ \A j \in 0 .. i - 1 : p[j] <= Len(u) /\ p[j] \in Nat
          /\ \A j \in 1 .. i - 1 : j \in keep => p[j] >= 1 /\ u[p[j]] = s[j]
          /\ \A j, k \in 1 .. i - 1 : j < k /\ k \in keep => p[j] < p[k]
          /\ p[i] = Len(v) /\ Len(u) \in Nat
      BY <2>2, <2>3
    <3> HIDE DEF p, n, u, v
    <3>4. \A j \in 0 .. i : p[j] <= Len(v) /\ p[j] \in Nat
      BY <2>1, <3>2, <3>3
    <3>5. \A j \in 1 .. i - 1 : j \in keep => p[j] \in 1 .. Len(u)
      BY <2>1, <3>3
    <3>6. \A j \in 1 .. i : j \in keep => p[j] >= 1 /\ v[p[j]] = s[j]
      BY <2>1, <3>2, <3>3, <3>5
    <3>7. \A j, k \in 1 .. i : j < k /\ k \in keep => p[j] < p[k]
      BY <2>1, <3>2, <3>3
    <3>8. Found(i)
      BY <3>2, <3>4, <3>6, <3>7 DEF v
    <3>9. QED
      BY <2>1, <3>8
  <2>6. QED
    BY <2>4, <2>5
<1>6. n \in T
  <2> HIDE DEF T, n
  <2>1. QED
    BY <1>3, <1>4, <1>5, UpwardTo
<1>7. Found(n)
  BY <1>6
<1>8. \A j \in 1 .. n \cap keep :
          /\ p[j] \in DOMAIN Those(s, keep) /\ Those(s, keep)[p[j]] = s[j]
  <2> HIDE DEF p, n
  <2> TAKE j \in 1 .. n \cap keep
  <2>1. j \in 1 .. n /\ j \in 0 .. n /\ j \in keep
    BY <1>3
  <2>2. p[j] \in Nat /\ p[j] <= Len(g[n]) /\ p[j] >= 1 /\ g[n][p[j]] = s[j] /\ g[n] \in Seq(S)
    BY <1>7, <2>1
  <2>3. QED
    BY <1>2, <2>2
<1>9. \A j, k \in 1 .. n \cap keep : p[j] = p[k] => j = k
  <2> SUFFICES ASSUME NEW j \in 1 .. n \cap keep, NEW k \in 1 .. n \cap keep,
                      p[j] = p[k], j # k
               PROVE  FALSE
    OBVIOUS
  <2> HIDE DEF p, n
  <2>1. /\ j \in 1 .. n /\ k \in 1 .. n /\ j \in 0 .. n /\ k \in 0 .. n
        /\ j \in keep /\ k \in keep /\ (j < k \/ k < j)
    BY <1>3
  <2>2. p[j] \in Nat /\ p[k] \in Nat /\ (j < k => p[j] < p[k]) /\ (k < j => p[k] < p[j])
    BY <1>7, <2>1
  <2>3. QED
    BY <2>1, <2>2
<1> HIDE DEF p
<1>10. QED
  BY <1>3, <1>8, <1>9, Zenon DEF PlacesFound

-----------------------------------------------------------------------------
(* Executions and loads of the two cores in a region. *)

(* The executions of persistent blocks: the run x[2] of block x[1], which  *)
(* misses after as many lines as the set had room for.                     *)
Room(blocks) == [x \in (DOMAIN blocks) \X Nat |-> blocks[x[1]].cap]

PastRuns(blocks, line, remaining) ==
    {x \in (DOMAIN blocks) \X Nat :
        blocks[x[1]].line = line /\ remaining[x[1]] < x[2] /\ x[2] <= blocks[x[1]].count}

(* Of the loads of a region, f have served misses, those in rest are still *)
(* to come, and the lines in S have been loaded since.                     *)
Serves(f, ur, rest, set, S) ==
    /\ DOMAIN f = LinesLoaded(<<ur>>, set)
    /\ S \subseteq AtLeast(LoadsByLine(ur, set), 1)
    /\ \A l \in DOMAIN f :
           /\ f[l] \in Nat
           /\ f[l] + rest[l] + (IF l \in S THEN 1 ELSE 0) <= LoadsOf(ur, l)

ServedHere(cap, X, ur, rest, set, S) ==
    \E f : Serves(f, ur, rest, set, S) /\ Served(f, cap, X)

(* Loads left of a region: of no line more than it has. *)
LoadsLeft(ur, rest) ==
    /\ DOMAIN rest = LinesReaching(ur)
    /\ \A l \in LinesReaching(ur) : rest[l] \in Nat /\ rest[l] <= LoadsOf(ur, l)

(* The lines a region loads into a set. *)
LEMMA LinesOfRegion ==
    ASSUME NEW ur, NEW set
    PROVE  LinesLoaded(<<ur>>, set) = {l \in LinesReaching(ur) : SetOf[l] = set}
<1>1. UNION {Range(u) : u \in Range(<<ur>>)} = Range(ur)
  <2>1. Range(<<ur>>) = {ur}
    BY DEF Range
  <2>2. QED
    BY <2>1
<1>2. LinesLoaded(<<ur>>, set) = {b.line : b \in {b \in Range(ur) : ReachesL2(b) /\ SetOf[b.line] = set}}
  BY <1>1 DEF LinesLoaded
<1>3. QED
  BY <1>2 DEF LinesReaching

(* There are finitely many executions, no more of a block than its count. *)
LEMMA PastRunsType ==
    ASSUME NEW blocks \in Seq(PersistentBlocks), NEW line,
           NEW remaining, \A i \in DOMAIN blocks : remaining[i] \in Nat,
           NEW X \in SUBSET PastRuns(blocks, line, remaining)
    PROVE  /\ Misses(Room(blocks), X)
           /\ \A x \in X : /\ x[1] \in DOMAIN blocks /\ blocks[x[1]].line = line
                           /\ Room(blocks)[x] = blocks[x[1]].cap
           /\ \A i \in DOMAIN blocks : Cardinality({x \in X : x[1] = i}) <= blocks[i].count
<1> DEFINE runs == PastRuns(blocks, line, remaining)
           count == [i \in DOMAIN blocks |-> blocks[i].count]
<1>1. /\ Len(blocks) \in Nat /\ DOMAIN blocks = 1 .. Len(blocks)
      /\ \A i \in DOMAIN blocks : blocks[i].cap \in Nat \ {0} /\ blocks[i].count \in Nat
  BY DEF PersistentBlocks
<1>2. IsFiniteSet(DOMAIN blocks)
  <2> DEFINE n == Len(blocks)
  <2>1. n \in Nat /\ DOMAIN blocks = 1 .. n
    BY <1>1
  <2> HIDE DEF n
  <2>2. IsFiniteSet(1 .. n)
    BY <2>1, FS_Interval
  <2>3. QED
    BY <2>1, <2>2
<1>3. \A x \in runs : /\ x \in (DOMAIN blocks) \X Nat /\ x[1] \in DOMAIN blocks /\ x[2] \in Nat
                      /\ blocks[x[1]].line = line
                      /\ remaining[x[1]] < x[2] /\ x[2] <= blocks[x[1]].count
  BY DEF PastRuns
<1>4. \A x \in runs : x[2] \in 1 .. blocks[x[1]].count
  BY <1>1, <1>3
<1>5. ASSUME NEW i \in DOMAIN blocks
      PROVE  /\ IsFiniteSet({i} \X (1 .. blocks[i].count))
             /\ Cardinality({i} \X (1 .. blocks[i].count)) = blocks[i].count
  <2> DEFINE c == blocks[i].count
  <2>1. c \in Nat
    BY <1>1
  <2> HIDE DEF c
  <2>2. IsFiniteSet(1 .. c) /\ Cardinality(1 .. c) = c
    BY <2>1, FS_Interval
  <2>3. IsFiniteSet({i}) /\ Cardinality({i}) = 1
    BY FS_Singleton
  <2>4. IsFiniteSet({i} \X (1 .. c)) /\ Cardinality({i} \X (1 .. c)) = 1 * c
    BY <2>2, <2>3, FS_Product
  <2>5. 1 * c = c
    BY <2>1
  <2>6. QED
    BY <2>4, <2>5 DEF c
<1>6. IsFiniteSet(X)
  <2>1. IsFiniteSet(Demanded(count, DOMAIN blocks))
    BY <1>1, <1>2, DemandType
  <2>2. runs \subseteq Demanded(count, DOMAIN blocks)
    <3>1. ASSUME NEW x \in runs PROVE x \in Demanded(count, DOMAIN blocks)
      <4> DEFINE i == x[1]
                 part == {i} \X (1 .. count[i])
      <4>1. x = <<x[1], x[2]>> /\ i \in DOMAIN blocks /\ x[2] \in 1 .. count[i]
        BY <1>3, <1>4, <3>1
      <4>2. x \in part
        <5> HIDE DEF count
        <5>1. QED
          BY <4>1
      <4> HIDE DEF i, count
      <4>3. QED
        BY <4>1, <4>2 DEF Demanded
    <3> HIDE DEF runs, count
    <3>2. QED
      BY <3>1
  <2> HIDE DEF runs, count
  <2>3. X \subseteq Demanded(count, DOMAIN blocks)
    BY <2>2 DEF runs
  <2>4. QED
    BY <2>1, <2>3, FS_Subset
<1>7. \A x \in X : Room(blocks)[x] = blocks[x[1]].cap
  BY <1>3 DEF Room
<1>8. ASSUME NEW i \in DOMAIN blocks
      PROVE  Cardinality({x \in X : x[1] = i}) <= blocks[i].count
  <2> DEFINE W == {x \in X : x[1] = i}
             V == {i} \X (1 .. blocks[i].count)
  <2>1. ASSUME NEW x \in W PROVE x \in V
    <3>1. x = <<x[1], x[2]>> /\ x[1] = i /\ x[2] \in 1 .. blocks[x[1]].count
      BY <1>3, <1>4, <2>1
    <3>2. QED
      BY <3>1
  <2>2. IsFiniteSet(V) /\ Cardinality(V) = blocks[i].count
    BY <1>5
  <2> HIDE DEF W, V
  <2>3. Cardinality(W) <= Cardinality(V)
    BY <2>1, <2>2, FS_Subset
  <2>4. QED
    BY <2>2, <2>3 DEF W
<1> HIDE DEF runs
<1>9. QED
  BY <1>1, <1>3, <1>6, <1>7, <1>8 DEF Misses, runs

(* Before any load of the region has served a miss. *)
LEMMA ServedStart ==
    ASSUME NEW ur \in Seq(Blocks), NEW rest, LoadsLeft(ur, rest), NEW set, NEW cap
    PROVE  ServedHere(cap, {}, ur, rest, set, {})
<1> DEFINE f == [l \in LinesLoaded(<<ur>>, set) |-> 0]
<1>1. DOMAIN f = LinesLoaded(<<ur>>, set) /\ \A l \in DOMAIN f : f[l] = 0
  OBVIOUS
<1> HIDE DEF f
<1>2. \A l \in DOMAIN f : rest[l] \in Nat /\ rest[l] <= LoadsOf(ur, l) /\ LoadsOf(ur, l) \in Int
  BY <1>1, LinesOfRegion, LoadsOfType DEF LoadsLeft
<1>3. \A l \in DOMAIN f : f[l] + rest[l] + (IF l \in {} THEN 1 ELSE 0) <= LoadsOf(ur, l)
  BY <1>1, <1>2
<1>4. Serves(f, ur, rest, set, {})
  BY <1>1, <1>3 DEF Serves
<1>5. IsFiniteSet(DOMAIN f)
  BY <1>1, LoadsByLineType DEF LoadsByLine
<1>6. Served(f, cap, {})
  BY <1>5, ServedNone
<1>7. QED
  BY <1>4, <1>6 DEF ServedHere

(* A load of the region. *)
LEMMA ServedLoad ==
    ASSUME NEW ur \in Seq(Blocks), NEW rest, LoadsLeft(ur, rest),
           NEW line \in LinesReaching(ur), rest[line] > 0,
           NEW new, \A l \in LinesReaching(ur) : new[l] = IF l = line THEN rest[line] - 1 ELSE rest[l],
           NEW set
    PROVE  /\ SetOf[line] = set => line \in AtLeast(LoadsByLine(ur, set), 1)
           /\ \A cap, X, S : ServedHere(cap, X, ur, rest, set, S) =>
                  ServedHere(cap, X, ur, new, set, IF set = SetOf[line] THEN S \cup {line} ELSE S)
<1>1. \A l \in LinesReaching(ur) :
          /\ rest[l] \in Nat /\ rest[l] <= LoadsOf(ur, l) /\ LoadsOf(ur, l) \in Int
          /\ new[l] = IF l = line THEN rest[line] - 1 ELSE rest[l]
  BY LoadsOfType DEF LoadsLeft
<1>2. SetOf[line] = set => line \in AtLeast(LoadsByLine(ur, set), 1)
  <2> SUFFICES ASSUME SetOf[line] = set PROVE line \in AtLeast(LoadsByLine(ur, set), 1)
    OBVIOUS
  <2>1. line \in LinesLoaded(<<ur>>, set)
    BY LinesOfRegion
  <2>2. LoadsOf(ur, line) >= 1
    BY <1>1
  <2>3. QED
    BY <2>1, <2>2 DEF AtLeast, LoadsByLine
<1>3. ASSUME NEW cap, NEW X, NEW S, ServedHere(cap, X, ur, rest, set, S)
      PROVE  ServedHere(cap, X, ur, new, set, IF set = SetOf[line] THEN S \cup {line} ELSE S)
  <2> DEFINE V == IF set = SetOf[line] THEN S \cup {line} ELSE S
  <2> PICK f : Serves(f, ur, rest, set, S) /\ Served(f, cap, X)
    BY <1>3 DEF ServedHere
  <2>1. V \subseteq AtLeast(LoadsByLine(ur, set), 1)
    BY <1>2 DEF Serves
  <2>2. ASSUME NEW l \in DOMAIN f
        PROVE  f[l] + new[l] + (IF l \in V THEN 1 ELSE 0) <= LoadsOf(ur, l)
    <3>1. f[l] \in Nat /\ f[l] + rest[l] + (IF l \in S THEN 1 ELSE 0) <= LoadsOf(ur, l)
      BY <2>2 DEF Serves
    <3>2. l \in LinesReaching(ur)
      BY <2>2, LinesOfRegion DEF Serves
    <3>3. /\ rest[l] \in Nat /\ LoadsOf(ur, l) \in Int
          /\ new[l] = IF l = line THEN rest[l] - 1 ELSE rest[l]
      BY <1>1, <3>2
    <3>4. l # line => (l \in V <=> l \in S)
      OBVIOUS
    <3> HIDE DEF V
    <3>5. CASE l = line
      BY <3>1, <3>3, <3>5
    <3>6. CASE l # line
      BY <3>1, <3>3, <3>4, <3>6
    <3>7. QED
      BY <3>5, <3>6
  <2> HIDE DEF V
  <2>3. Serves(f, ur, new, set, V)
    BY <2>1, <2>2 DEF Serves
  <2>4. QED
    BY <2>3 DEF ServedHere, V
<1>4. QED
  BY <1>2, <1>3

(* A hit takes no loads, a miss those of as many lines as it takes. *)
LEMMA ServedUse ==
    ASSUME NEW ur \in Seq(Blocks), NEW rest, LoadsLeft(ur, rest),
           NEW set, NEW cap, NEW X, NEW S, ServedHere(cap, X, ur, rest, set, S)
    PROVE  /\ ServedHere(cap, X, ur, rest, set, {})
           /\ \A x : /\ x \notin X /\ Misses(cap, X \cup {x}) /\ cap[x] <= Cardinality(S)
                     => ServedHere(cap, X \cup {x}, ur, rest, set, {})
<1> PICK f : Serves(f, ur, rest, set, S) /\ Served(f, cap, X)
  BY DEF ServedHere
<1>1. /\ DOMAIN f = LinesLoaded(<<ur>>, set) /\ S \subseteq AtLeast(LoadsByLine(ur, set), 1)
      /\ \A l \in DOMAIN f :
           /\ f[l] \in Nat
           /\ f[l] + rest[l] + (IF l \in S THEN 1 ELSE 0) <= LoadsOf(ur, l)
  BY DEF Serves
<1>2. \A l \in DOMAIN f : rest[l] \in Nat /\ LoadsOf(ur, l) \in Int
  BY <1>1, LinesOfRegion, LoadsOfType DEF LoadsLeft
<1>3. Serves(f, ur, rest, set, {})
  <2>1. ASSUME NEW l \in DOMAIN f
        PROVE  f[l] + rest[l] + (IF l \in {} THEN 1 ELSE 0) <= LoadsOf(ur, l)
    BY <1>1, <1>2
  <2>2. QED
    BY <1>1, <2>1 DEF Serves
<1>4. ASSUME NEW x, x \notin X, Misses(cap, X \cup {x}), cap[x] <= Cardinality(S)
      PROVE  ServedHere(cap, X \cup {x}, ur, rest, set, {})
  <2> DEFINE g == [l \in DOMAIN f |-> f[l] + (IF l \in S THEN 1 ELSE 0)]
  <2>1. DOMAIN g = DOMAIN f /\ \A l \in DOMAIN f : g[l] = f[l] + (IF l \in S THEN 1 ELSE 0)
    OBVIOUS
  <2> HIDE DEF g
  <2>2. IsFiniteSet(DOMAIN f) /\ S \subseteq DOMAIN f
    BY <1>1, LoadsByLineType DEF LoadsByLine, AtLeast
  <2>3. Served(g, cap, X \cup {x})
    BY <1>1, <1>4, <2>1, <2>2, ServedMiss
  <2>4. \A l \in DOMAIN g : g[l] \in Nat /\ g[l] + rest[l] + (IF l \in {} THEN 1 ELSE 0) <= LoadsOf(ur, l)
    BY <1>1, <1>2, <2>1
  <2>5. Serves(g, ur, rest, set, {})
    BY <1>1, <2>1, <2>4 DEF Serves
  <2>6. QED
    BY <2>3, <2>5 DEF ServedHere
<1>5. QED
  BY <1>3, <1>4 DEF ServedHere

(* What served the misses of a region are loads of it. *)
LEMMA ServedByAll ==
    ASSUME NEW ur \in Seq(Blocks), NEW rest, LoadsLeft(ur, rest),
           NEW set, NEW cap, NEW X, NEW S, ServedHere(cap, X, ur, rest, set, S), Misses(cap, X)
    PROVE  /\ Served(Loads(ur, set), cap, X)
           /\ S \subseteq AtLeast(LoadsByLine(ur, set), 1)
<1> PICK f : Serves(f, ur, rest, set, S) /\ Served(f, cap, X)
  BY DEF ServedHere
<1> DEFINE g == LoadsByLine(ur, set)
<1>1. /\ DOMAIN f = LinesLoaded(<<ur>>, set) /\ S \subseteq AtLeast(g, 1)
      /\ \A l \in DOMAIN f :
           /\ f[l] \in Nat
           /\ f[l] + rest[l] + (IF l \in S THEN 1 ELSE 0) <= LoadsOf(ur, l)
  BY DEF Serves
<1>2. \A l \in DOMAIN f : rest[l] \in Nat /\ LoadsOf(ur, l) \in Int
  BY <1>1, LinesOfRegion, LoadsOfType DEF LoadsLeft
<1>3. IsFiniteSet(DOMAIN g) /\ \A l \in DOMAIN g : g[l] \in Int
  BY LoadsByLineType
<1>4. DOMAIN g = DOMAIN f /\ \A l \in DOMAIN f : f[l] <= LoadsOf(ur, l) /\ f[l] \in Int
  BY <1>1, <1>2 DEF LoadsByLine
<1>5. \A l \in DOMAIN g : g[l] = LoadsOf(ur, l)
  BY DEF LoadsByLine
<1> HIDE DEF g
<1>6. Served(g, cap, X)
  BY <1>3, <1>4, <1>5, ServedByMore
<1>7. Served(Loads(ur, set), cap, X)
  BY <1>3, <1>6, LoadsByLineType, ServedByQueue DEF g
<1>8. QED
  BY <1>1, <1>7 DEF g

(* Of the n misses of a line, executions that have been, those in X took   *)
(* loads of one region that the other core has been through before, those  *)
(* in Y loads of the one it is in, those in Z loads of several.            *)
Parts(n, past, X, Y, Z) ==
    /\ X \in SUBSET past /\ Y \in SUBSET past /\ Z \in SUBSET past
    /\ X \cap Y = {} /\ (X \cup Y) \cap Z = {} /\ Cardinality(X \cup Y \cup Z) = n

Across(cap, Z, lines) == \A z \in Z : cap[z] <= lines
LinesHere(urs, ur, set) == LinesPerRegion(urs, set) + Len(Loads(ur, set))

(* The other core has been through urs and is in ur.  Of a miss in Z it    *)
(* can be said in which region the line was used before: there are no more *)
(* of them than regions in urs if the line has been used in ur ...         *)
UsedSince(n, past, cap, urs, ur, rest, set, S) ==
    \E X, Y, Z :
        /\ Parts(n, past, X, Y, Z) /\ Served(LoadQueue(urs, set), cap, X)
        /\ Across(cap, Z, LinesHere(urs, ur, set)) /\ Cardinality(Z) <= Len(urs)
        /\ ServedHere(cap, Y, ur, rest, set, S)

(* ... and one less if it has not.                                         *)
UsedBefore(n, past, cap, urs, ur, set, S) ==
    \E X, Z, E :
        /\ Parts(n, past, X, {}, Z) /\ Served(LoadQueue(urs, set), cap, X)
        /\ Across(cap, Z, LinesHere(urs, ur, set)) /\ Cardinality(Z) < Len(urs)
        /\ IsFiniteSet(E) /\ Cardinality(E) <= LinesPerRegion(urs, set)
        /\ S \subseteq E \cup AtLeast(LoadsByLine(ur, set), 1)

MissesKept(n, past, cap, urs, ur, rest, set, S) ==
    \/ UsedSince(n, past, cap, urs, ur, rest, set, S)
    \/ UsedBefore(n, past, cap, urs, ur, set, S)

(* The task comes to a region: no misses. *)
LEMMA NoMissesYet ==
    ASSUME NEW past, NEW cap, NEW ur \in Seq(Blocks), NEW rest, LoadsLeft(ur, rest), NEW set
    PROVE  MissesKept(0, past, cap, <<>>, ur, rest, set, {})
<1>1. ServedHere(cap, {}, ur, rest, set, {})
  BY ServedStart
<1>2. Cardinality({}) = 0 /\ Len(<<>>) = 0 /\ DOMAIN <<>> = {} /\ IsFiniteSet({})
  BY FS_EmptySet
<1>3. Served(LoadQueue(<<>>, set), cap, {})
  BY <1>2, NoRegionsYet, ServedNone
<1>4. Parts(0, past, {}, {}, {})
  BY <1>2 DEF Parts
<1>5. Across(cap, {}, LinesHere(<<>>, ur, set))
  BY DEF Across
<1>6. Cardinality({}) <= Len(<<>>)
  BY <1>2
<1>7. UsedSince(0, past, cap, <<>>, ur, rest, set, {})
  BY <1>1, <1>3, <1>4, <1>5, <1>6, Zenon DEF UsedSince
<1>8. QED
  BY <1>7 DEF MissesKept

(* Loads of the other core. *)
LEMMA LoadKeepsMisses ==
    ASSUME NEW n, NEW past, NEW cap, NEW urs,
           NEW ur \in Seq(Blocks), NEW rest, LoadsLeft(ur, rest),
           NEW loaded \in LinesReaching(ur), rest[loaded] > 0,
           NEW new, \A l \in LinesReaching(ur) : new[l] = IF l = loaded THEN rest[loaded] - 1 ELSE rest[l],
           NEW set, NEW S, NEW V, V = IF set = SetOf[loaded] THEN S \cup {loaded} ELSE S,
           MissesKept(n, past, cap, urs, ur, rest, set, S)
    PROVE  MissesKept(n, past, cap, urs, ur, new, set, V)
<1>1. /\ SetOf[loaded] = set => loaded \in AtLeast(LoadsByLine(ur, set), 1)
      /\ \A c, X, s : ServedHere(c, X, ur, rest, set, s) =>
             ServedHere(c, X, ur, new, set, IF set = SetOf[loaded] THEN s \cup {loaded} ELSE s)
  BY ServedLoad
<1>2. \A X : ServedHere(cap, X, ur, rest, set, S) => ServedHere(cap, X, ur, new, set, V)
  BY <1>1
<1>3. \A E : S \subseteq E \cup AtLeast(LoadsByLine(ur, set), 1)
                 => V \subseteq E \cup AtLeast(LoadsByLine(ur, set), 1)
  BY <1>1
<1>4. ASSUME UsedSince(n, past, cap, urs, ur, rest, set, S)
      PROVE  UsedSince(n, past, cap, urs, ur, new, set, V)
  BY <1>2, <1>4, Zenon DEF UsedSince
<1>5. ASSUME UsedBefore(n, past, cap, urs, ur, set, S)
      PROVE  UsedBefore(n, past, cap, urs, ur, set, V)
  BY <1>3, <1>5, Zenon DEF UsedBefore
<1>6. QED
  BY <1>4, <1>5 DEF MissesKept

(* Executions are not forgotten. *)
LEMMA RunsKeepMisses ==
    ASSUME NEW past, NEW now, past \subseteq now, NEW n, NEW cap, NEW urs, NEW ur, NEW rest,
           NEW set, NEW S, MissesKept(n, past, cap, urs, ur, rest, set, S)
    PROVE  MissesKept(n, now, cap, urs, ur, rest, set, S)
<1>1. \A X, Y, Z : Parts(n, past, X, Y, Z) => Parts(n, now, X, Y, Z)
  <2>1. \A X : X \in SUBSET past => X \in SUBSET now
    OBVIOUS
  <2>2. QED
    BY <2>1, Zenon DEF Parts
<1>2. ASSUME UsedSince(n, past, cap, urs, ur, rest, set, S)
      PROVE  UsedSince(n, now, cap, urs, ur, rest, set, S)
  BY <1>1, <1>2, Zenon DEF UsedSince
<1>3. ASSUME UsedBefore(n, past, cap, urs, ur, set, S)
      PROVE  UsedBefore(n, now, cap, urs, ur, set, S)
  BY <1>1, <1>3, Zenon DEF UsedBefore
<1>4. QED
  BY <1>2, <1>3 DEF MissesKept

(* The other core passes on: as far as a line has been used in the region  *)
(* it comes from, that was before.                                         *)
LEMMA PassingKeepsMisses ==
    ASSUME NEW past, NEW cap, \A X \in SUBSET past : Misses(cap, X),
           NEW urs \in Seq(Seq(Blocks)), NEW longer \in Seq(Seq(Blocks)),
           Len(longer) = Len(urs) + 1, \A k \in 1 .. Len(urs) : longer[k] = urs[k],
           NEW ur \in Seq(Blocks), longer[Len(longer)] = ur, NEW rest, LoadsLeft(ur, rest),
           NEW next \in Seq(Blocks), NEW new, NEW n, NEW set, NEW S,
           MissesKept(n, past, cap, urs, ur, rest, set, S)
    PROVE  MissesKept(n, past, cap, longer, next, new, set, S)
<1> DEFINE p == LoadQueue(urs, set)
           q == Loads(ur, set)
           Q == LoadQueue(longer, set)
           a == LinesPerRegion(urs, set)
           b == LinesPerRegion(longer, set)
           U == AtLeast(LoadsByLine(ur, set), 1)
           W == AtLeast(LoadsByLine(next, set), 1)
<1>1. /\ p \in Queues /\ q \in Queues /\ Q = AddedUp(p, q) /\ a \in Nat /\ b = a + Len(q)
      /\ Len(q) \in Nat /\ Len(Loads(next, set)) \in Nat /\ IsFiniteSet(DOMAIN q)
  <2>1. Q = AddedUp(p, q) /\ b = a + Len(q)
    BY OneRegionMore
  <2>2. p \in Queues /\ a \in Nat
    BY QueueWithinLines
  <2>3. q \in Queues /\ Loads(next, set) \in Queues
    BY LoadsByLineType
  <2>4. Len(q) \in Nat /\ Len(Loads(next, set)) \in Nat /\ IsFiniteSet(DOMAIN q)
    BY <2>3, QueueFinite DEF Queues
  <2>5. QED
    BY <2>1, <2>2, <2>3, <2>4
<1>2. IsFiniteSet(U) /\ Cardinality(U) = Len(q)
  <2>1. IsFiniteSet(DOMAIN LoadsByLine(ur, set)) /\ Cardinality(U) = Len(q)
    BY LoadsByLineType
  <2>2. U \subseteq DOMAIN LoadsByLine(ur, set)
    BY DEF AtLeast
  <2>3. QED
    BY <2>1, <2>2, FS_Subset
<1>3. LinesHere(urs, ur, set) = b
  BY <1>1 DEF LinesHere
<1>4. LinesHere(longer, next, set) = b + Len(Loads(next, set))
  BY DEF LinesHere
<1>5. \A X, Y \in SUBSET past :
          X \cap Y = {} /\ Served(p, cap, X) /\ Served(q, cap, Y) => Served(Q, cap, X \cup Y)
  <2> SUFFICES ASSUME NEW X \in SUBSET past, NEW Y \in SUBSET past, X \cap Y = {},
                      Served(p, cap, X), Served(q, cap, Y)
               PROVE  Served(Q, cap, X \cup Y)
    OBVIOUS
  <2>1. Misses(cap, X) /\ Misses(cap, Y)
    OBVIOUS
  <2> HIDE DEF p, q, Q
  <2>2. Served(AddedUp(p, q), cap, X \cup Y)
    BY <1>1, <2>1, ServedTogether
  <2>3. QED
    BY <1>1, <2>2
<1>6. \A Y \in SUBSET past : ServedHere(cap, Y, ur, rest, set, S) =>
          Served(q, cap, Y) /\ S \subseteq U
  BY ServedByAll
<1>7. \A Z \in SUBSET past : Across(cap, Z, b) => Across(cap, Z, LinesHere(longer, next, set))
  <2> SUFFICES ASSUME NEW Z \in SUBSET past, Across(cap, Z, b), NEW z \in Z
               PROVE  cap[z] <= LinesHere(longer, next, set)
    BY DEF Across
  <2>1. cap[z] <= b /\ cap[z] \in Nat
    BY DEF Across, Misses
  <2> DEFINE c == cap[z]
             e == LinesHere(longer, next, set)
             f == Len(Loads(next, set))
             g == Len(q)
  <2>2. c <= b /\ c \in Nat /\ e = b + f /\ f \in Nat /\ a \in Nat /\ g \in Nat /\ b = a + g
    BY <1>1, <1>4, <2>1
  <2> HIDE DEF a, b, c, e, f, g
  <2>3. c <= e
    BY <2>2
  <2>4. QED
    BY <2>3 DEF c, e
<1>8. Len(urs) \in Nat /\ Len(longer) = Len(urs) + 1
  OBVIOUS
<1>9. \A Z \in SUBSET past : Cardinality(Z) \in Nat
  BY FS_CardinalityType DEF Misses
<1> HIDE DEF p, q, Q, a, b, U, W
<1>10. ASSUME UsedSince(n, past, cap, urs, ur, rest, set, S)
       PROVE  UsedBefore(n, past, cap, longer, next, set, S)
  <2> PICK X, Y, Z :
          /\ Parts(n, past, X, Y, Z) /\ Served(p, cap, X)
          /\ Across(cap, Z, b) /\ Cardinality(Z) <= Len(urs)
          /\ ServedHere(cap, Y, ur, rest, set, S)
    BY <1>3, <1>10, Zenon DEF UsedSince, p
  <2>1. X \in SUBSET past /\ Y \in SUBSET past /\ Z \in SUBSET past /\ X \cap Y = {}
    BY DEF Parts
  <2>2. Parts(n, past, X \cup Y, {}, Z)
    <3>1. X \cup Y \cup {} = X \cup Y /\ (X \cup Y) \cap {} = {} /\ X \cup Y \in SUBSET past
          /\ {} \in SUBSET past
      BY <2>1
    <3>2. (X \cup Y) \cap Z = {} /\ Cardinality(X \cup Y \cup Z) = n
      BY DEF Parts
    <3>3. QED
      BY <2>1, <3>1, <3>2, Zenon DEF Parts
  <2>3. Served(Q, cap, X \cup Y) /\ S \subseteq U
    <3>1. Served(q, cap, Y) /\ S \subseteq U
      BY <1>6, <2>1
    <3>2. QED
      BY <1>5, <2>1, <3>1
  <2>4. Across(cap, Z, LinesHere(longer, next, set)) /\ Cardinality(Z) < Len(longer)
    <3>1. Across(cap, Z, LinesHere(longer, next, set))
      BY <1>7, <2>1
    <3> DEFINE c == Cardinality(Z)
               k == Len(urs)
    <3>2. c \in Nat /\ k \in Nat /\ c <= k /\ Len(longer) = k + 1
      BY <1>8, <1>9, <2>1
    <3> HIDE DEF c, k
    <3>3. c < Len(longer)
      BY <3>2
    <3>4. QED
      BY <3>1, <3>3 DEF c
  <2>5. Cardinality(U) <= b
    BY <1>1, <1>2
  <2>6. S \subseteq U \cup W
    BY <2>3
  <2>7. QED
    BY <1>2, <2>2, <2>3, <2>4, <2>5, <2>6, Zenon DEF UsedBefore, Q, W, b
<1>11. ASSUME UsedBefore(n, past, cap, urs, ur, set, S)
       PROVE  UsedBefore(n, past, cap, longer, next, set, S)
  <2> PICK X, Z, E :
          /\ Parts(n, past, X, {}, Z) /\ Served(p, cap, X)
          /\ Across(cap, Z, b) /\ Cardinality(Z) < Len(urs)
          /\ IsFiniteSet(E) /\ Cardinality(E) <= a
          /\ S \subseteq E \cup U
    BY <1>3, <1>11, Zenon DEF UsedBefore, p, a, U
  <2>1. X \in SUBSET past /\ {} \in SUBSET past /\ Z \in SUBSET past /\ X \cap {} = {}
    BY DEF Parts
  <2>2. Served(Q, cap, X)
    <3>1. Served(q, cap, {}) /\ X \cup {} = X
      BY <1>1, ServedNone
    <3>2. QED
      BY <1>5, <2>1, <3>1
  <2>3. Across(cap, Z, LinesHere(longer, next, set)) /\ Cardinality(Z) < Len(longer)
    <3>1. Across(cap, Z, LinesHere(longer, next, set))
      BY <1>7, <2>1
    <3> DEFINE c == Cardinality(Z)
               k == Len(urs)
    <3>2. c \in Nat /\ k \in Nat /\ c <= k /\ Len(longer) = k + 1
      BY <1>8, <1>9, <2>1
    <3> HIDE DEF c, k
    <3>3. c < Len(longer)
      BY <3>2
    <3>4. QED
      BY <3>1, <3>3 DEF c
  <2>4. IsFiniteSet(E \cup U) /\ Cardinality(E \cup U) <= b
    <3> DEFINE e == Cardinality(E)
               u == Cardinality(U)
               w == Cardinality(E \cap U)
               v == Cardinality(E \cup U)
    <3>1. IsFiniteSet(E \cup U) /\ IsFiniteSet(E \cap U) /\ v = e + u - w
      BY <1>2, FS_Union, FS_Intersection
    <3>2. e \in Nat /\ u \in Nat /\ w \in Nat
      BY <1>2, <3>1, FS_CardinalityType
    <3>3. e <= a /\ u = Len(q)
      BY <1>2
    <3> HIDE DEF e, u, v, w
    <3>4. v <= b
      BY <1>1, <3>1, <3>2, <3>3
    <3>5. QED
      BY <3>1, <3>4 DEF v
  <2>5. S \subseteq (E \cup U) \cup W
    OBVIOUS
  <2>6. QED
    BY <2>2, <2>3, <2>4, <2>5, Zenon DEF UsedBefore, Q, W, b
<1>12. QED
  BY <1>10, <1>11 DEF MissesKept

(* An execution of a block, the next one of its runs. *)
LEMMA RunIsPast ==
    ASSUME NEW blocks \in Seq(PersistentBlocks),
           NEW remaining, NEW i \in DOMAIN blocks, remaining[i] \in Nat \ {0},
           remaining[i] <= blocks[i].count,
           NEW fewer, \A k \in DOMAIN blocks : fewer[k] = IF k = i THEN remaining[i] - 1 ELSE remaining[k]
    PROVE  /\ \A line : PastRuns(blocks, line, remaining) \subseteq PastRuns(blocks, line, fewer)
           /\ <<i, remaining[i]>> \in PastRuns(blocks, blocks[i].line, fewer)
           /\ <<i, remaining[i]>> \notin PastRuns(blocks, blocks[i].line, remaining)
           /\ Room(blocks)[<<i, remaining[i]>>] = blocks[i].cap
<1> DEFINE x == <<i, remaining[i]>>
           r == remaining[i]
<1>1. x \in (DOMAIN blocks) \X Nat /\ x[1] = i /\ x[2] = r
  OBVIOUS
<1>2. fewer[i] = r - 1 /\ r \in Nat /\ r - 1 < r /\ ~(r < r) /\ r <= blocks[i].count
  OBVIOUS
<1>3. ASSUME NEW line, NEW y \in PastRuns(blocks, line, remaining)
      PROVE  y \in PastRuns(blocks, line, fewer)
  <2>1. /\ y \in (DOMAIN blocks) \X Nat /\ y[1] \in DOMAIN blocks /\ y[2] \in Nat
        /\ blocks[y[1]].line = line /\ remaining[y[1]] < y[2] /\ y[2] <= blocks[y[1]].count
    BY <1>3 DEF PastRuns
  <2>2. fewer[y[1]] < y[2]
    <3>1. CASE y[1] = i
      <4>1. r < y[2] /\ fewer[y[1]] = r - 1
        BY <1>2, <2>1, <3>1
      <4>2. QED
        BY <1>2, <2>1, <4>1
    <3>2. CASE y[1] # i
      BY <2>1, <3>2
    <3>3. QED
      BY <3>1, <3>2
  <2>3. QED
    BY <2>1, <2>2 DEF PastRuns
<1> HIDE DEF x, r
<1>4. x \in PastRuns(blocks, blocks[i].line, fewer)
  BY <1>1, <1>2 DEF PastRuns
<1>5. x \notin PastRuns(blocks, blocks[i].line, remaining)
  BY <1>1, <1>2 DEF PastRuns, r
<1>6. Room(blocks)[x] = blocks[i].cap
  BY <1>1 DEF Room
<1>7. QED
  BY <1>3, <1>4, <1>5, <1>6 DEF x, r

(* One miss more. *)
LEMMA OneMissMore ==
    ASSUME NEW past, NEW now, past \subseteq now, NEW x \in now, x \notin past,
           \A X \in SUBSET past : IsFiniteSet(X),
           NEW n, NEW X, NEW Y, NEW Z, Parts(n, past, X, Y, Z)
    PROVE  /\ Parts(n, now, X, Y, Z) /\ n \in Nat
           /\ Parts(n + 1, now, X, Y \cup {x}, Z)
           /\ Parts(n + 1, now, X, Y, Z \cup {x})
           /\ Cardinality(Z \cup {x}) = Cardinality(Z) + 1 /\ Cardinality(Z) \in Nat
<1>1. /\ X \in SUBSET past /\ Y \in SUBSET past /\ Z \in SUBSET past
      /\ X \cap Y = {} /\ (X \cup Y) \cap Z = {} /\ Cardinality(X \cup Y \cup Z) = n
  BY DEF Parts
<1> DEFINE W == X \cup Y \cup Z
<1>2. IsFiniteSet(W) /\ IsFiniteSet(Z) /\ x \notin W /\ x \notin X /\ x \notin Y /\ x \notin Z
  <2>1. W \in SUBSET past
    BY <1>1
  <2>2. QED
    BY <1>1, <2>1
<1>3. /\ Cardinality(W \cup {x}) = n + 1 /\ n \in Nat
      /\ Cardinality(Z \cup {x}) = Cardinality(Z) + 1 /\ Cardinality(Z) \in Nat
  <2>1. Cardinality(W) = n
    BY <1>1
  <2> HIDE DEF W
  <2>2. QED
    BY <1>2, <2>1, FS_AddElement, FS_CardinalityType
<1>4. X \cup (Y \cup {x}) \cup Z = W \cup {x} /\ X \cup Y \cup (Z \cup {x}) = W \cup {x}
  OBVIOUS
<1>5. /\ X \in SUBSET now /\ Y \in SUBSET now /\ Z \in SUBSET now
      /\ Y \cup {x} \in SUBSET now /\ Z \cup {x} \in SUBSET now
  BY <1>1
<1>6. /\ X \cap (Y \cup {x}) = {} /\ (X \cup (Y \cup {x})) \cap Z = {}
      /\ (X \cup Y) \cap (Z \cup {x}) = {}
  BY <1>1, <1>2
<1> HIDE DEF W
<1>7. Parts(n, now, X, Y, Z)
  BY <1>1, <1>5, Zenon DEF Parts
<1>8. Parts(n + 1, now, X, Y \cup {x}, Z)
  BY <1>1, <1>3, <1>4, <1>5, <1>6 DEF Parts
<1>9. Parts(n + 1, now, X, Y, Z \cup {x})
  BY <1>1, <1>3, <1>4, <1>5, <1>6 DEF Parts
<1>10. QED
  BY <1>3, <1>7, <1>8, <1>9

(* A persistent line is used: a hit, or one miss more, of loads of this    *)
(* region if it was used here before, else of several.                     *)
LEMMA UseKeepsMisses ==
    ASSUME NEW past, NEW now, past \subseteq now, NEW x \in now, x \notin past,
           NEW cap, \A X \in SUBSET now : Misses(cap, X),
           NEW urs \in Seq(Seq(Blocks)), NEW ur \in Seq(Blocks), NEW rest, LoadsLeft(ur, rest),
           NEW set, NEW S, NEW n, NEW m, m = IF Cardinality(S) >= cap[x] THEN n + 1 ELSE n,
           MissesKept(n, past, cap, urs, ur, rest, set, S)
    PROVE  MissesKept(m, now, cap, urs, ur, rest, set, {})
<1> DEFINE p == LoadQueue(urs, set)
           a == LinesPerRegion(urs, set)
           b == LinesHere(urs, ur, set)
           U == AtLeast(LoadsByLine(ur, set), 1)
           Miss == Cardinality(S) >= cap[x]
<1>1. /\ \A X \in SUBSET past : IsFiniteSet(X) /\ X \in SUBSET now
      /\ \A X \in SUBSET past : x \notin X /\ X \cup {x} \in SUBSET now
  BY DEF Misses
<1>2. cap[x] \in Nat \ {0}
  <2>1. {x} \in SUBSET now
    OBVIOUS
  <2>2. QED
    BY <2>1 DEF Misses
<1>3. Miss \in BOOLEAN /\ (Miss => m = n + 1) /\ (~Miss => m = n)
  OBVIOUS
<1>4. \A X, Y, Z : Parts(n, past, X, Y, Z) =>
          /\ Parts(n, now, X, Y, Z) /\ n \in Nat
          /\ Parts(n + 1, now, X, Y \cup {x}, Z)
          /\ Parts(n + 1, now, X, Y, Z \cup {x})
          /\ Cardinality(Z \cup {x}) = Cardinality(Z) + 1 /\ Cardinality(Z) \in Nat
  BY <1>1, OneMissMore
<1>5. \A Y \in SUBSET past :
          ServedHere(cap, Y, ur, rest, set, S) =>
              /\ ServedHere(cap, Y, ur, rest, set, {})
              /\ cap[x] <= Cardinality(S) => ServedHere(cap, Y \cup {x}, ur, rest, set, {})
  <2> SUFFICES ASSUME NEW Y \in SUBSET past, ServedHere(cap, Y, ur, rest, set, S)
               PROVE  /\ ServedHere(cap, Y, ur, rest, set, {})
                      /\ cap[x] <= Cardinality(S) => ServedHere(cap, Y \cup {x}, ur, rest, set, {})
    OBVIOUS
  <2>1. x \notin Y /\ Misses(cap, Y \cup {x})
    BY <1>1
  <2>2. QED
    BY <2>1, ServedUse
<1>6. ServedHere(cap, {}, ur, rest, set, {})
  BY ServedStart
<1>7. a \in Nat /\ b = a + Len(Loads(ur, set)) /\ Len(Loads(ur, set)) \in Nat
      /\ IsFiniteSet(U) /\ Cardinality(U) = Len(Loads(ur, set))
  <2>1. a \in Nat
    BY QueueWithinLines
  <2>2. /\ Loads(ur, set) \in Queues /\ IsFiniteSet(DOMAIN LoadsByLine(ur, set))
        /\ Cardinality(U) = Len(Loads(ur, set))
    BY LoadsByLineType
  <2>3. Len(Loads(ur, set)) \in Nat
    BY <2>2 DEF Queues
  <2>4. U \subseteq DOMAIN LoadsByLine(ur, set)
    BY DEF AtLeast
  <2>5. IsFiniteSet(U)
    BY <2>2, <2>4, FS_Subset
  <2>6. b = a + Len(Loads(ur, set))
    BY DEF LinesHere
  <2>7. QED
    BY <2>1, <2>2, <2>3, <2>5, <2>6
<1>8. \A E : /\ IsFiniteSet(E) /\ Cardinality(E) <= a /\ S \subseteq E \cup U /\ Miss
             => cap[x] <= b
  <2> SUFFICES ASSUME NEW E, IsFiniteSet(E), Cardinality(E) <= a, S \subseteq E \cup U, Miss
               PROVE  cap[x] <= b
    OBVIOUS
  <2> DEFINE e == Cardinality(E)
             u == Cardinality(U)
             w == Cardinality(E \cap U)
             v == Cardinality(E \cup U)
             s == Cardinality(S)
             c == cap[x]
  <2>1. IsFiniteSet(E \cup U) /\ IsFiniteSet(E \cap U) /\ v = e + u - w
    BY <1>7, FS_Union, FS_Intersection
  <2>2. e \in Nat /\ u \in Nat /\ w \in Nat /\ e <= a /\ b = a + u
    BY <1>7, <2>1, FS_CardinalityType
  <2>3. s <= v /\ s \in Nat /\ v \in Nat
    BY <2>1, FS_Subset, FS_CardinalityType
  <2>4. c <= s /\ c \in Nat
    BY <1>2, <2>3
  <2> HIDE DEF e, u, w, v, s, c, a, b, Miss
  <2>5. c <= b
    BY <1>7, <2>1, <2>2, <2>3, <2>4
  <2>6. QED
    BY <2>5 DEF c
<1>9. Miss => cap[x] <= Cardinality(S)
  <2> DEFINE s == Cardinality(S)
             c == cap[x]
  <2>1. Miss <=> s >= c
    OBVIOUS
  <2> HIDE DEF s, c, Miss
  <2>2. Miss => c <= s
    BY <2>1
  <2>3. QED
    BY <2>2 DEF s, c
<1>10. Len(urs) \in Nat
  OBVIOUS
<1> HIDE DEF p, a, b, U, Miss
<1>11. ASSUME UsedSince(n, past, cap, urs, ur, rest, set, S)
       PROVE  UsedSince(m, now, cap, urs, ur, rest, set, {})
  <2> PICK X, Y, Z :
          /\ Parts(n, past, X, Y, Z) /\ Served(p, cap, X)
          /\ Across(cap, Z, b) /\ Cardinality(Z) <= Len(urs)
          /\ ServedHere(cap, Y, ur, rest, set, S)
    BY <1>11, Zenon DEF UsedSince, p, b
  <2>1. Y \in SUBSET past
    BY DEF Parts
  <2>2. CASE Miss
    <3>1. Parts(m, now, X, Y \cup {x}, Z) /\ ServedHere(cap, Y \cup {x}, ur, rest, set, {})
      BY <1>3, <1>4, <1>5, <1>9, <2>1, <2>2
    <3>2. QED
      BY <3>1, Zenon DEF UsedSince, p, b
  <2>3. CASE ~Miss
    <3>1. Parts(n, now, X, Y, Z) /\ m = n
      BY <1>3, <1>4, <2>3
    <3>2. ServedHere(cap, Y, ur, rest, set, {})
      BY <1>5, <2>1
    <3>3. QED
      BY <3>1, <3>2, Zenon DEF UsedSince, p, b
  <2>4. QED
    BY <1>3, <2>2, <2>3
<1>12. ASSUME UsedBefore(n, past, cap, urs, ur, set, S)
       PROVE  UsedSince(m, now, cap, urs, ur, rest, set, {})
  <2> PICK X, Z, E :
          /\ Parts(n, past, X, {}, Z) /\ Served(p, cap, X)
          /\ Across(cap, Z, b) /\ Cardinality(Z) < Len(urs)
          /\ IsFiniteSet(E) /\ Cardinality(E) <= a
          /\ S \subseteq E \cup U
    BY <1>12, Zenon DEF UsedBefore, p, a, b, U
  <2>1. /\ Parts(n, now, X, {}, Z) /\ Parts(n + 1, now, X, {}, Z \cup {x})
        /\ Cardinality(Z \cup {x}) = Cardinality(Z) + 1 /\ Cardinality(Z) \in Nat
    BY <1>4
  <2>2. Cardinality(Z) <= Len(urs) /\ Cardinality(Z \cup {x}) <= Len(urs)
    BY <1>10, <2>1
  <2>3. CASE Miss
    <3>1. cap[x] <= b
      BY <1>8, <2>3
    <3>2. Across(cap, Z \cup {x}, b)
      BY <3>1 DEF Across
    <3>3. Parts(m, now, X, {}, Z \cup {x})
      BY <1>3, <2>1, <2>3
    <3>4. QED
      BY <1>6, <2>2, <3>2, <3>3, Zenon DEF UsedSince, p, b
  <2>4. CASE ~Miss
    <3>1. Parts(m, now, X, {}, Z)
      BY <1>3, <2>1, <2>4
    <3>2. QED
      BY <1>6, <2>2, <3>1, Zenon DEF UsedSince, p, b
  <2>5. QED
    BY <1>3, <2>3, <2>4
<1>13. QED
  BY <1>11, <1>12 DEF MissesKept

(* Misses that the loads cover are counted for their line. *)
LEMMA CoveredAreCounted ==
    ASSUME NEW cr \in ConflictRegionType, NEW line,
           NEW remaining, \A i \in DOMAIN cr.persistent : remaining[i] \in Nat,
           NEW urs \in Seq(Seq(Blocks)),
           NEW X \in SUBSET PastRuns(cr.persistent, line, remaining),
           Covered(LoadQueue(urs, SetOf[line]), LinesPerRegion(urs, SetOf[line]),
                   Room(cr.persistent), X)
    PROVE  LineOuts(cr, line, urs) \in Nat /\ Cardinality(X) <= LineOuts(cr, line, urs)
<1> DEFINE all == cr.persistent
           keep == {i \in DOMAIN all : all[i].line = line}
           blocks == Those(all, keep)
           set == SetOf[line]
           cap == Room(all)
<1>1. all \in Seq(PersistentBlocks)
  BY DEF ConflictRegionType
<1>2. /\ Misses(cap, X)
      /\ \A x \in X : x[1] \in DOMAIN all /\ all[x[1]].line = line /\ cap[x] = all[x[1]].cap
      /\ \A i \in DOMAIN all : Cardinality({x \in X : x[1] = i}) <= all[i].count
  BY <1>1, PastRunsType
<1>3. blocks \in Seq(PersistentBlocks)
  <2> HIDE DEF all, keep
  <2>1. QED
    BY <1>1, ThoseType
<1>4. PICK p : PlacesFound(p, all, keep)
  BY <1>1, ThosePlaces
<1>5. /\ \A i \in DOMAIN all \cap keep : p[i] \in DOMAIN blocks /\ blocks[p[i]] = all[i]
      /\ \A i, j \in DOMAIN all \cap keep : p[i] = p[j] => i = j
  BY <1>4 DEF PlacesFound
<1>6. \A x \in X : x[1] \in DOMAIN all \cap keep
  BY <1>2
<1>7. LineOuts(cr, line, urs) = Outs(blocks, urs, set)
  BY Zenon DEF LineOuts
<1>8. OutsStart(urs, set) \in Accs /\ Descending(LoadQueue(urs, set))
  BY OutsStartType
<1>9. PICK block : \A x \in X : block[x] = p[x[1]]
  <2> DEFINE f == [x \in X |-> p[x[1]]]
  <2>1. \A x \in X : f[x] = p[x[1]]
    OBVIOUS
  <2> HIDE DEF f
  <2>2. QED
    BY <2>1
<1> HIDE DEF blocks, keep, cap, set, all
<1>10. \A x \in X : block[x] \in DOMAIN blocks /\ cap[x] = blocks[block[x]].cap
  BY <1>2, <1>5, <1>6, <1>9
<1>11. ASSUME NEW k \in DOMAIN blocks
       PROVE  Cardinality({x \in X : block[x] = k}) <= blocks[k].count
  <2> DEFINE W == {x \in X : block[x] = k}
  <2>1. CASE W = {}
    <3>1. Cardinality(W) = 0
      BY <2>1, FS_EmptySet
    <3>2. blocks[k].count \in Nat
      BY <1>3 DEF PersistentBlocks
    <3> HIDE DEF W
    <3>3. Cardinality(W) <= blocks[k].count
      BY <3>1, <3>2
    <3>4. QED
      BY <3>3 DEF W
  <2>2. CASE W # {}
    <3>1. PICK y \in X : block[y] = k
      BY <2>2
    <3> DEFINE i == y[1]
               V == {x \in X : x[1] = i}
    <3>2. i \in DOMAIN all \cap keep /\ p[i] = k /\ blocks[k] = all[i]
      BY <1>5, <1>6, <1>9, <3>1
    <3>3. W = V
      <4>1. \A x \in X : block[x] = k <=> x[1] = i
        BY <1>5, <1>6, <1>9, <3>2
      <4>2. QED
        BY <4>1
    <3>4. Cardinality(V) <= all[i].count
      BY <1>2, <3>2
    <3>5. QED
      BY <3>2, <3>3, <3>4
  <2>3. QED
    BY <2>1, <2>2
<1>12. Covered(LoadQueue(urs, set), LinesPerRegion(urs, set), cap, X)
  BY DEF set, cap, all
<1>13. Outs(blocks, urs, set) \in Nat /\ Cardinality(X) <= Outs(blocks, urs, set)
  <2>1. \A k \in DOMAIN blocks : Cardinality({x \in X : block[x] = k}) <= blocks[k].count
    BY <1>11
  <2>2. Misses(cap, X)
    BY <1>2
  <2>3. QED
    BY <1>3, <1>8, <1>10, <1>12, <2>1, <2>2, OutsCover
<1>14. QED
  BY <1>7, <1>13 DEF set, blocks, keep, all

(* So are all misses but those of loads of several regions, and one of     *)
(* those is.                                                               *)
LEMMA MissesCounted ==
    ASSUME NEW cr \in ConflictRegionType, NEW line,
           NEW remaining, \A i \in DOMAIN cr.persistent : remaining[i] \in Nat,
           NEW urs \in Seq(Seq(Blocks)), NEW longer \in Seq(Seq(Blocks)),
           Len(longer) = Len(urs) + 1, \A k \in 1 .. Len(urs) : longer[k] = urs[k],
           NEW ur \in Seq(Blocks), longer[Len(longer)] = ur, NEW rest, LoadsLeft(ur, rest),
           NEW n, NEW S,
           MissesKept(n, PastRuns(cr.persistent, line, remaining), Room(cr.persistent),
                      urs, ur, rest, SetOf[line], S)
    PROVE  n <= LineOuts(cr, line, longer) + (IF Len(urs) > 1 THEN Len(urs) - 1 ELSE 0)
<1> DEFINE past == PastRuns(cr.persistent, line, remaining)
           cap == Room(cr.persistent)
           set == SetOf[line]
           p == LoadQueue(urs, set)
           q == Loads(ur, set)
           Q == LoadQueue(longer, set)
           b == LinesPerRegion(longer, set)
           outs == LineOuts(cr, line, longer)
           k == Len(urs)
<1>1. cr.persistent \in Seq(PersistentBlocks)
  BY DEF ConflictRegionType
<1>2. \A X \in SUBSET past : Misses(cap, X)
  BY <1>1, PastRunsType
<1>3. \A X \in SUBSET past : Covered(Q, b, cap, X) => outs \in Nat /\ Cardinality(X) <= outs
  BY CoveredAreCounted
<1>4. /\ p \in Queues /\ q \in Queues /\ Q = AddedUp(p, q) /\ b = LinesHere(urs, ur, set)
      /\ Len(Q) <= b /\ k \in Nat
  <2>1. Q = AddedUp(p, q) /\ b = LinesHere(urs, ur, set)
    BY OneRegionMore DEF LinesHere
  <2>2. p \in Queues /\ Len(Q) <= b
    BY QueueWithinLines
  <2>3. q \in Queues
    BY LoadsByLineType
  <2>4. QED
    BY <2>1, <2>2, <2>3
<1>5. \A X, Y \in SUBSET past :
          X \cap Y = {} /\ Served(p, cap, X) /\ Served(q, cap, Y) => Served(Q, cap, X \cup Y)
  <2> SUFFICES ASSUME NEW X \in SUBSET past, NEW Y \in SUBSET past, X \cap Y = {},
                      Served(p, cap, X), Served(q, cap, Y)
               PROVE  Served(Q, cap, X \cup Y)
    OBVIOUS
  <2>1. Misses(cap, X) /\ Misses(cap, Y)
    BY <1>2
  <2> HIDE DEF p, q, Q
  <2>2. Served(AddedUp(p, q), cap, X \cup Y)
    BY <1>4, <2>1, ServedTogether
  <2>3. QED
    BY <1>4, <2>2
<1>6. \A Y \in SUBSET past : ServedHere(cap, Y, ur, rest, set, S) => Served(q, cap, Y)
  BY <1>2, ServedByAll
<1>7. Served(q, cap, {})
  BY <1>4, QueueFinite, ServedNone
<1>8. MissesKept(n, past, cap, urs, ur, rest, set, S)
  OBVIOUS
<1> HIDE DEF past, cap, set, p, q, Q, b, outs, k
<1>9. PICK X, Y, Z :
          /\ Parts(n, past, X, Y, Z) /\ Served(p, cap, X) /\ Served(q, cap, Y)
          /\ Across(cap, Z, b) /\ Cardinality(Z) <= k
  <2>1. ASSUME UsedSince(n, past, cap, urs, ur, rest, set, S)
        PROVE  \E X, Y, Z : /\ Parts(n, past, X, Y, Z) /\ Served(p, cap, X) /\ Served(q, cap, Y)
                            /\ Across(cap, Z, b) /\ Cardinality(Z) <= k
    <3>1. PICK X, Y, Z :
              /\ Parts(n, past, X, Y, Z) /\ Served(p, cap, X)
              /\ Across(cap, Z, b) /\ Cardinality(Z) <= k
              /\ ServedHere(cap, Y, ur, rest, set, S)
      BY <1>4, <2>1, Zenon DEF UsedSince, p, k
    <3>2. Y \in SUBSET past
      BY <3>1 DEF Parts
    <3>3. QED
      BY <1>6, <3>1, <3>2, Zenon
  <2>2. ASSUME UsedBefore(n, past, cap, urs, ur, set, S)
        PROVE  \E X, Y, Z : /\ Parts(n, past, X, Y, Z) /\ Served(p, cap, X) /\ Served(q, cap, Y)
                            /\ Across(cap, Z, b) /\ Cardinality(Z) <= k
    <3>1. PICK X, Z : /\ Parts(n, past, X, {}, Z) /\ Served(p, cap, X)
                      /\ Across(cap, Z, b) /\ Cardinality(Z) < k
      BY <1>4, <2>2, Zenon DEF UsedBefore, p, k
    <3>2. IsFiniteSet(Z)
      BY <1>2, <3>1 DEF Parts, Misses
    <3>3. Cardinality(Z) <= k
      BY <1>4, <3>1, <3>2, FS_CardinalityType
    <3>4. QED
      BY <1>7, <3>1, <3>3, Zenon
  <2>3. QED
    BY <1>8, <2>1, <2>2 DEF MissesKept
<1>10. /\ X \in SUBSET past /\ Y \in SUBSET past /\ Z \in SUBSET past
       /\ X \cap Y = {} /\ (X \cup Y) \cap Z = {} /\ Cardinality(X \cup Y \cup Z) = n
  BY <1>9 DEF Parts
<1> DEFINE W == X \cup Y
           w == Cardinality(W)
           c == Cardinality(Z)
<1>11. W \in SUBSET past /\ W \cap Z = {} /\ Cardinality(W \cup Z) = n /\ Served(Q, cap, W)
  BY <1>5, <1>9, <1>10
<1> HIDE DEF W
<1>12. IsFiniteSet(W) /\ IsFiniteSet(Z)
  BY <1>2, <1>10, <1>11 DEF Misses
<1>13. n = w + c /\ w \in Nat /\ c \in Nat
  BY <1>11, <1>12, Disjoint
<1>14. c <= k
  BY <1>9
<1>15. CASE Z = {}
  <2>1. outs \in Nat /\ w <= outs
    BY <1>3, <1>11 DEF Covered
  <2>2. c = 0
    BY <1>15, FS_EmptySet
  <2> HIDE DEF w, c
  <2>3. n <= outs + (IF k > 1 THEN k - 1 ELSE 0)
    BY <1>4, <1>13, <2>1, <2>2
  <2>4. QED
    BY <2>3 DEF outs, k
<1>16. CASE Z # {}
  <2>1. PICK z \in Z : TRUE
    BY <1>16
  <2>2. z \notin W /\ W \cup {z} \in SUBSET past /\ cap[z] <= b
    BY <1>9, <1>10, <1>11, <2>1 DEF Across
  <2>3. (W \cup {z}) \ {z} = W
    BY <2>2
  <2>4. Covered(Q, b, cap, W \cup {z})
    BY <1>4, <1>11, <2>2, <2>3 DEF Covered
  <2>5. outs \in Nat /\ Cardinality(W \cup {z}) <= outs
    BY <1>3, <2>2, <2>4
  <2>6. Cardinality(W \cup {z}) = w + 1
    BY <1>12, <2>2, FS_AddElement
  <2>7. c # 0
    BY <1>12, <1>16, FS_EmptySet
  <2> HIDE DEF w, c
  <2>8. n <= outs + (IF k > 1 THEN k - 1 ELSE 0)
    BY <1>4, <1>13, <1>14, <2>5, <2>6, <2>7
  <2>9. QED
    BY <2>8 DEF outs, k
<1>17. QED
  BY <1>15, <1>16

-----------------------------------------------------------------------------
(* The misses of the two cores. *)

(* The regions the other core has been through since the task came here.   *)
RegionsBefore == IF upto = from THEN <<>> ELSE Passed(other, from, upto - 1)

(* The misses of a line since the task came to its region. *)
MissesServed(line) ==
    LET blocks == Current.persistent
    IN MissesKept(evicted[line], PastRuns(blocks, line, left), Room(blocks),
                  RegionsBefore, other[upto], pending, SetOf[line], seen[line])

RunTypes ==
    LET blocks == Current.persistent IN
    /\ DOMAIN left = DOMAIN blocks
    /\ \A i \in DOMAIN blocks : left[i] \in Nat /\ left[i] <= blocks[i].count
    /\ LoadsLeft(other[upto], pending)
    /\ DOMAIN seen = LinesUsed(blocks) /\ DOMAIN evicted = LinesUsed(blocks)

MissInv == ~Resting => RunTypes /\ \A line \in DOMAIN evicted : MissesServed(line)

(* What the invariant of the match says of the two cores. *)
LEMMA HereTypes ==
    ASSUME MatchInv, ~Resting
    PROVE  /\ Current \in ConflictRegionType /\ Current.persistent \in Seq(PersistentBlocks)
           /\ other \in CoRunnerPaths /\ other \in Seq(Seq(Blocks))
           /\ Len(other) \in Nat /\ DOMAIN other = 1 .. Len(other)
           /\ region \in 1 .. Len(crs) /\ Len(crs) \in Nat /\ crs \in Seq(ConflictRegionType)
           /\ from \in Nat /\ upto \in Nat /\ from <= upto
           /\ from \in DOMAIN other /\ upto \in DOMAIN other
           /\ other[from] \in Seq(Blocks) /\ other[upto] \in Seq(Blocks)
<1>1. /\ crs \in Seq(ConflictRegionType) /\ other \in CoRunnerPaths /\ region \in DOMAIN crs
      /\ from \in DOMAIN other /\ upto \in DOMAIN other /\ from <= upto
  BY DEF MatchInv, MatchTypes
<1>2. other \in Seq(Seq(Blocks)) /\ Len(other) \in Nat \ {0} /\ DOMAIN other = 1 .. Len(other)
  BY <1>1, PathType
<1>3. other[from] \in Seq(Blocks) /\ other[upto] \in Seq(Blocks)
  BY <1>1, <1>2, ElementOf
<1>4. Current \in ConflictRegionType
  BY <1>1, ElementOf DEF Current
<1>5. Current.persistent \in Seq(PersistentBlocks)
  BY <1>4 DEF ConflictRegionType
<1>6. from \in Nat /\ upto \in Nat
  BY <1>1, <1>2
<1>7. region \in 1 .. Len(crs) /\ Len(crs) \in Nat
  BY <1>1
<1>8. QED
  BY <1>1, <1>2, <1>3, <1>4, <1>5, <1>6, <1>7

(* The regions it has been through, and the one it is in. *)
LEMMA RegionsAre ==
    ASSUME MatchInv, ~Resting
    PROVE  /\ RegionsBefore \in Seq(Seq(Blocks)) /\ Here \in Seq(Seq(Blocks))
           /\ Len(RegionsBefore) = upto - from /\ Len(Here) = Len(RegionsBefore) + 1
           /\ \A k \in 1 .. Len(RegionsBefore) : Here[k] = RegionsBefore[k]
           /\ Here[Len(Here)] = other[upto]
<1>1. /\ other \in Seq(Seq(Blocks)) /\ DOMAIN other = 1 .. Len(other) /\ Len(other) \in Nat
      /\ from \in Nat /\ upto \in Nat /\ from <= upto /\ from \in DOMAIN other /\ upto \in DOMAIN other
  BY HereTypes
<1>2. /\ Here \in Seq(Seq(Blocks)) /\ Len(Here) = upto - from + 1
      /\ \A i \in 1 .. upto - from + 1 : Here[i] = other[from + i - 1]
  BY <1>1, PassedIs DEF Here
<1>3. Here[upto - from + 1] = other[upto]
  <2>1. upto - from + 1 \in 1 .. upto - from + 1 /\ from + (upto - from + 1) - 1 = upto
    BY <1>1
  <2>2. QED
    BY <1>2, <2>1
<1>4. /\ RegionsBefore \in Seq(Seq(Blocks)) /\ Len(RegionsBefore) = upto - from
      /\ \A i \in 1 .. upto - from : RegionsBefore[i] = other[from + i - 1]
  <2>1. CASE upto = from
    <3>1. RegionsBefore = <<>> /\ <<>> \in Seq(Seq(Blocks)) /\ Len(<<>>) = 0
      BY <2>1 DEF RegionsBefore
    <3>2. upto - from = 0
      BY <1>1, <2>1
    <3>3. QED
      BY <3>1, <3>2
  <2>2. CASE upto # from
    <3> DEFINE stop == upto - 1
    <3>1. stop \in DOMAIN other /\ from <= stop /\ stop - from + 1 = upto - from
      BY <1>1, <2>2
    <3>2. RegionsBefore = Passed(other, from, stop)
      BY <2>2 DEF RegionsBefore
    <3> HIDE DEF stop
    <3>3. /\ RegionsBefore \in Seq(Seq(Blocks)) /\ Len(RegionsBefore) = stop - from + 1
          /\ \A i \in 1 .. stop - from + 1 : RegionsBefore[i] = other[from + i - 1]
      BY <1>1, <3>1, <3>2, PassedIs
    <3>4. QED
      BY <3>1, <3>3
  <2>3. QED
    BY <2>1, <2>2
<1>5. \A i \in 1 .. upto - from : i \in 1 .. upto - from + 1
  BY <1>1
<1>6. QED
  BY <1>1, <1>2, <1>3, <1>4, <1>5

(* A region of the other core that it comes to: nothing is loaded yet. *)
LEMMA LoadsOfRegionLeft ==
    ASSUME NEW o \in CoRunnerPaths, NEW k \in DOMAIN o
    PROVE  LoadsLeft(o[k], LoadsIn(o[k]))
<1>1. o \in Seq(Seq(Blocks)) /\ o[k] \in Seq(Blocks)
  <2>1. o \in Seq(Seq(Blocks))
    BY PathType
  <2>2. QED
    BY <2>1, ElementOf
<1>2. o[k] \in Range(o)
  BY DEF Range
<1>3. \A l \in LinesReaching(o[k]) : LoadsOf(o[k], l) >= 1
  BY <1>2, CoRunnerPathsAssumption
<1>4. \A l : LoadsOf(o[k], l) \in Int
  BY <1>1, LoadsOfType
<1>5. \A l \in LinesReaching(o[k]) : LoadsOf(o[k], l) \in Nat /\ LoadsOf(o[k], l) <= LoadsOf(o[k], l)
  BY <1>3, <1>4
<1>6. QED
  BY <1>5 DEF LoadsLeft, LoadsIn

(* A region of the task that it comes to: nothing is executed yet. *)
LEMMA RunsLeft ==
    ASSUME NEW blocks \in Seq(PersistentBlocks)
    PROVE  /\ DOMAIN Counts(blocks) = DOMAIN blocks
           /\ \A i \in DOMAIN blocks : Counts(blocks)[i] \in Nat /\ Counts(blocks)[i] <= blocks[i].count
<1>1. \A i \in DOMAIN blocks : blocks[i].count \in Nat
  BY DEF PersistentBlocks
<1>2. \A c \in Nat : c <= c
  OBVIOUS
<1>3. QED
  BY <1>1, <1>2 DEF Counts

(* The two cores start. *)
LEMMA CoRunStartsMisses ==
    ASSUME MatchInv, NEW o \in CoRunnerPaths, CoRun(o), MatchInv'
    PROVE  MissInv'
<1>1. /\ ~Idle /\ Resting /\ other' = o /\ region' = 1 /\ from' \in DOMAIN o /\ upto' = from'
      /\ left' = Counts(crs[1].persistent) /\ pending' = LoadsIn(o[upto'])
      /\ seen' = Unseen(crs[1]) /\ evicted' = NoMisses(crs[1]) /\ crs' = crs
  BY DEF CoRun
<1>2. ~Resting'
  BY <1>1, PathType DEF Resting
<1>3. Current' = crs[1] /\ RegionsBefore' = <<>>
  BY <1>1 DEF Current, RegionsBefore
<1>4. crs[1].persistent \in Seq(PersistentBlocks) /\ o[upto'] \in Seq(Blocks)
  <2>1. crs \in Seq(ConflictRegionType) /\ crs # <<>>
    BY <1>1 DEF MatchInv, MatchTypes, Idle
  <2>2. 1 \in DOMAIN crs
    BY <2>1
  <2>3. crs[1] \in ConflictRegionType
    BY <2>1, <2>2, ElementOf
  <2> DEFINE cr == crs[1]
  <2> HIDE DEF cr
  <2>4. cr.persistent \in Seq(PersistentBlocks)
    BY <2>3 DEF ConflictRegionType, cr
  <2>5. o \in Seq(Seq(Blocks))
    BY PathType
  <2>6. o[upto'] \in Seq(Blocks)
    BY <1>1, <2>5, ElementOf
  <2>7. QED
    BY <2>4, <2>6 DEF cr
<1> DEFINE blocks == crs[1].persistent
<1>5. LoadsLeft(o[upto'], pending')
  BY <1>1, LoadsOfRegionLeft
<1>6. RunTypes'
  <2>1. DOMAIN left' = DOMAIN blocks
        /\ \A i \in DOMAIN blocks : left'[i] \in Nat /\ left'[i] <= blocks[i].count
    BY <1>1, <1>4, RunsLeft
  <2>2. DOMAIN seen' = LinesUsed(blocks) /\ DOMAIN evicted' = LinesUsed(blocks)
    BY <1>1 DEF Unseen, NoMisses
  <2>3. QED
    BY <1>1, <1>3, <1>5, <2>1, <2>2 DEF RunTypes
<1>7. ASSUME NEW line \in LinesUsed(blocks) PROVE MissesServed(line)'
  <2>1. evicted'[line] = 0 /\ seen'[line] = {}
    BY <1>1 DEF Unseen, NoMisses
  <2>2. MissesKept(0, PastRuns(blocks, line, left'), Room(blocks),
                   <<>>, o[upto'], pending', SetOf[line], {})
    BY <1>4, <1>5, NoMissesYet
  <2>3. QED
    BY <1>1, <1>3, <2>1, <2>2 DEF MissesServed
<1>8. DOMAIN evicted' = LinesUsed(blocks)
  BY <1>1 DEF NoMisses
<1>9. QED
  BY <1>6, <1>7, <1>8 DEF MissInv

(* The other core loads a line. *)
LEMMA LoadKeepsInv ==
    ASSUME MatchInv, MissInv, NEW loaded \in DOMAIN pending, Load(loaded)
    PROVE  MissInv'
<1>1. /\ pending[loaded] > 0 /\ pending' = [pending EXCEPT ![loaded] = @ - 1]
      /\ seen' = [line \in DOMAIN seen |->
                    IF SetOf[line] = SetOf[loaded] THEN seen[line] \cup {loaded} ELSE seen[line]]
      /\ UNCHANGED <<crs, bound, other, region, from, upto, out, counted, left, evicted>>
  BY DEF Load, matched
<1>2. CASE Resting
  BY <1>1, <1>2 DEF MissInv, Resting
<1>3. CASE ~Resting
  <2> DEFINE ur == other[upto]
             blocks == Current.persistent
  <2>1. ur \in Seq(Blocks)
    BY <1>3, HereTypes
  <2>2. RunTypes /\ \A line \in DOMAIN evicted : MissesServed(line)
    BY <1>3 DEF MissInv
  <2>3. LoadsLeft(ur, pending) /\ DOMAIN pending = LinesReaching(ur)
    BY <2>2 DEF RunTypes, LoadsLeft
  <2>4. /\ DOMAIN pending' = LinesReaching(ur)
        /\ \A l \in LinesReaching(ur) : pending'[l] = IF l = loaded THEN pending[loaded] - 1 ELSE pending[l]
    BY <1>1, <2>3
  <2>5. LoadsLeft(ur, pending')
    <3>1. ASSUME NEW l \in LinesReaching(ur) PROVE pending'[l] \in Nat /\ pending'[l] <= LoadsOf(ur, l)
      <4>1. pending[l] \in Nat /\ pending[l] <= LoadsOf(ur, l) /\ LoadsOf(ur, l) \in Int
        BY <2>1, <2>3, LoadsOfType DEF LoadsLeft
      <4>2. QED
        BY <1>1, <2>4, <4>1
    <3>2. QED
      BY <2>4, <3>1 DEF LoadsLeft
  <2>6. /\ Current' = Current /\ other' = other /\ upto' = upto /\ RegionsBefore' = RegionsBefore
        /\ left' = left /\ evicted' = evicted
    BY <1>1 DEF Current, RegionsBefore
  <2>7. DOMAIN seen' = DOMAIN seen
    BY <1>1
  <2>8. RunTypes'
    BY <2>2, <2>5, <2>6, <2>7 DEF RunTypes
  <2>9. ASSUME NEW line \in DOMAIN evicted PROVE MissesServed(line)'
    <3> DEFINE S == seen[line]
               V == seen'[line]
               set == SetOf[line]
               past == PastRuns(blocks, line, left)
               cap == Room(blocks)
               n == evicted[line]
               urs == RegionsBefore
    <3>1. V = IF set = SetOf[loaded] THEN S \cup {loaded} ELSE S
      BY <1>1, <2>2 DEF RunTypes
    <3>2. MissesKept(n, past, cap, urs, ur, pending, set, S)
      BY <2>2 DEF MissesServed
    <3>3. loaded \in LinesReaching(ur) /\ pending[loaded] > 0
      BY <1>1, <2>3
    <3> HIDE DEF ur, S, V, set, past, cap, n, urs
    <3>4. MissesKept(n, past, cap, urs, ur, pending', set, V)
      BY <2>1, <2>3, <2>4, <3>1, <3>2, <3>3, LoadKeepsMisses
    <3>5. QED
      BY <2>6, <3>4 DEF MissesServed, ur, V, set, past, cap, n, urs
  <2>10. QED
    BY <2>6, <2>8, <2>9 DEF MissInv
<1>4. QED
  BY <1>2, <1>3

(* The task executes a persistent block. *)
LEMMA ExecuteKeepsInv ==
    ASSUME MatchInv, MissInv, NEW i \in DOMAIN left, Execute(i)
    PROVE  MissInv'
<1> DEFINE blocks == Current.persistent
           b == blocks[i]
           misses == Cardinality(seen[b.line]) >= b.cap
<1>1. /\ left[i] > 0 /\ left' = [left EXCEPT ![i] = @ - 1]
      /\ seen' = [seen EXCEPT ![b.line] = {}]
      /\ evicted' = IF misses THEN [evicted EXCEPT ![b.line] = @ + 1] ELSE evicted
      /\ UNCHANGED <<crs, bound, other, region, from, upto, out, counted, pending>>
  BY DEF Execute, matched
<1>2. CASE Resting
  BY <1>1, <1>2 DEF MissInv, Resting
<1>3. CASE ~Resting
  <2> DEFINE ur == other[upto]
             urs == RegionsBefore
  <2>1. ur \in Seq(Blocks) /\ blocks \in Seq(PersistentBlocks) /\ urs \in Seq(Seq(Blocks))
    BY <1>3, HereTypes, RegionsAre
  <2>2. RunTypes /\ \A line \in DOMAIN evicted : MissesServed(line)
    BY <1>3 DEF MissInv
  <2>3. /\ DOMAIN left = DOMAIN blocks /\ i \in DOMAIN blocks
        /\ \A k \in DOMAIN blocks : left[k] \in Nat /\ left[k] <= blocks[k].count
        /\ LoadsLeft(ur, pending)
        /\ DOMAIN seen = LinesUsed(blocks) /\ DOMAIN evicted = LinesUsed(blocks)
    BY <2>2 DEF RunTypes
  <2>4. b.line \in LinesUsed(blocks)
    BY <2>3 DEF LinesUsed, Range
  <2>5. DOMAIN left' = DOMAIN blocks
        /\ \A k \in DOMAIN blocks : left'[k] = IF k = i THEN left[i] - 1 ELSE left[k]
    BY <1>1, <2>3
  <2>6. \A k \in DOMAIN blocks : left'[k] \in Nat /\ left'[k] <= blocks[k].count
    <3> TAKE k \in DOMAIN blocks
    <3>1. blocks[k].count \in Nat
      BY <2>1 DEF PersistentBlocks
    <3>2. left[k] \in Nat /\ left[k] <= blocks[k].count /\ (k = i => left[k] > 0)
      BY <1>1, <2>3
    <3>3. left'[k] = IF k = i THEN left[k] - 1 ELSE left[k]
      BY <2>5
    <3> HIDE DEF blocks
    <3>4. QED
      BY <3>1, <3>2, <3>3
  <2>7. /\ Current' = Current /\ other' = other /\ upto' = upto /\ pending' = pending
        /\ RegionsBefore' = urs
    BY <1>1 DEF Current, RegionsBefore
  <2>8. DOMAIN seen' = LinesUsed(blocks) /\ DOMAIN evicted' = LinesUsed(blocks)
    BY <1>1, <2>3
  <2>9. RunTypes'
    BY <2>3, <2>5, <2>6, <2>7, <2>8 DEF RunTypes
  <2> DEFINE x == <<i, left[i]>>
  <2>10. /\ \A line : PastRuns(blocks, line, left) \subseteq PastRuns(blocks, line, left')
         /\ x \in PastRuns(blocks, b.line, left') /\ x \notin PastRuns(blocks, b.line, left)
         /\ Room(blocks)[x] = b.cap
    <3>1. left[i] \in Nat \ {0} /\ left[i] <= blocks[i].count
      BY <1>1, <2>3
    <3>2. PICK rest : rest = left'
      OBVIOUS
    <3>3. \A k \in DOMAIN blocks : rest[k] = IF k = i THEN left[i] - 1 ELSE left[k]
      BY <2>5, <3>2
    <3> HIDE DEF blocks
    <3>4. blocks \in Seq(PersistentBlocks) /\ i \in DOMAIN blocks
      BY <2>1, <2>3
    <3>5. /\ \A line : PastRuns(blocks, line, left) \subseteq PastRuns(blocks, line, rest)
          /\ <<i, left[i]>> \in PastRuns(blocks, blocks[i].line, rest)
          /\ <<i, left[i]>> \notin PastRuns(blocks, blocks[i].line, left)
          /\ Room(blocks)[<<i, left[i]>>] = blocks[i].cap
      BY <3>1, <3>3, <3>4, RunIsPast
    <3>6. QED
      BY <3>2, <3>5
  <2>11. ASSUME NEW line \in LinesUsed(blocks) PROVE MissesServed(line)'
    <3> DEFINE n == evicted[line]
               m == evicted'[line]
               S == seen[line]
               set == SetOf[line]
               past == PastRuns(blocks, line, left)
               now == PastRuns(blocks, line, left')
               cap == Room(blocks)
    <3>1. MissesKept(n, past, cap, urs, ur, pending, set, S)
      BY <2>2, <2>3 DEF MissesServed
    <3>2. past \subseteq now
      BY <2>10
    <3>3. CASE line # b.line
      <4>1. seen'[line] = S /\ m = n
        BY <1>1, <2>3, <3>3
      <4>2. MissesKept(n, now, cap, urs, ur, pending, set, S)
        BY <3>1, <3>2, RunsKeepMisses
      <4>3. QED
        BY <2>7, <4>1, <4>2 DEF MissesServed
    <3>4. CASE line = b.line
      <4>1. seen'[line] = {} /\ m = IF Cardinality(S) >= cap[x] THEN n + 1 ELSE n
        BY <1>1, <2>3, <2>10, <3>4
      <4>2. x \in now /\ x \notin past
        BY <2>10, <3>4
      <4>3. \A X \in SUBSET now : Misses(cap, X)
        BY <2>1, <2>6, PastRunsType
      <4> HIDE DEF blocks, n, m, S, x, ur, urs, set, past, now, cap
      <4>4. MissesKept(m, now, cap, urs, ur, pending, set, {})
        BY <2>1, <2>3, <3>1, <3>2, <4>1, <4>2, <4>3, UseKeepsMisses
      <4>5. QED
        BY <2>7, <4>1, <4>4 DEF MissesServed, blocks, m, ur, set, now, cap
    <3>5. QED
      BY <3>3, <3>4
  <2>12. QED
    BY <2>8, <2>9, <2>11 DEF MissInv
<1>4. QED
  BY <1>2, <1>3

(* The other core passes on. *)
LEMMA OtherKeepsInv ==
    ASSUME MatchInv, MissInv, OtherPassesOn
    PROVE  MissInv'
<1>1. /\ ~Resting /\ upto < Len(other) /\ upto' = upto + 1
      /\ pending' = LoadsIn(other[upto'])
      /\ UNCHANGED <<crs, bound, other, region, from, out, counted, left, seen, evicted>>
  BY DEF OtherPassesOn, matched
<1> DEFINE blocks == Current.persistent
           ur == other[upto]
           next == other[upto']
           urs == RegionsBefore
           longer == Here
<1>2. /\ other \in CoRunnerPaths /\ DOMAIN other = 1 .. Len(other) /\ Len(other) \in Nat
      /\ from \in Nat /\ upto \in Nat /\ from <= upto /\ upto \in DOMAIN other
      /\ other \in Seq(Seq(Blocks)) /\ blocks \in Seq(PersistentBlocks) /\ ur \in Seq(Blocks)
  BY <1>1, HereTypes
<1>3. upto' \in DOMAIN other /\ upto' # from /\ upto' - 1 = upto
  BY <1>1, <1>2
<1>4. RunTypes /\ \A line \in DOMAIN evicted : MissesServed(line)
  BY <1>1 DEF MissInv
<1>5. LoadsLeft(next, pending') /\ next \in Seq(Blocks)
  BY <1>1, <1>2, <1>3, ElementOf, LoadsOfRegionLeft
<1>6. /\ Current' = Current /\ other' = other /\ from' = from
      /\ left' = left /\ seen' = seen /\ evicted' = evicted
  BY <1>1 DEF Current
<1>7. RegionsBefore' = longer
  BY <1>3, <1>6 DEF RegionsBefore, Here
<1>8. RunTypes'
  BY <1>4, <1>5, <1>6 DEF RunTypes
<1>9. /\ urs \in Seq(Seq(Blocks)) /\ longer \in Seq(Seq(Blocks))
      /\ Len(longer) = Len(urs) + 1 /\ \A k \in 1 .. Len(urs) : longer[k] = urs[k]
      /\ longer[Len(longer)] = ur
  BY <1>1, RegionsAre
<1>10. LoadsLeft(ur, pending) /\ \A i \in DOMAIN blocks : left[i] \in Nat
  BY <1>4 DEF RunTypes
<1>11. ASSUME NEW line \in DOMAIN evicted PROVE MissesServed(line)'
  <2> DEFINE past == PastRuns(blocks, line, left)
             cap == Room(blocks)
             n == evicted[line]
             S == seen[line]
             set == SetOf[line]
  <2>1. MissesKept(n, past, cap, urs, ur, pending, set, S)
    BY <1>4 DEF MissesServed
  <2>2. \A X \in SUBSET past : Misses(cap, X)
    BY <1>2, <1>10, PastRunsType
  <2> HIDE DEF blocks, ur, next, urs, longer, past, cap, n, S, set
  <2>3. MissesKept(n, past, cap, longer, next, pending', set, S)
    BY <1>2, <1>5, <1>9, <1>10, <2>1, <2>2, PassingKeepsMisses
  <2>4. QED
    BY <1>6, <1>7, <2>3 DEF MissesServed, blocks, next, past, cap, n, S, set
<1>12. QED
  BY <1>6, <1>8, <1>11 DEF MissInv

(* The task passes on. *)
LEMMA TaskKeepsInv ==
    ASSUME MatchInv, MissInv, TaskPassesOn
    PROVE  MissInv'
<1> DEFINE next == crs[region + 1]
           blocks == next.persistent
<1>1. /\ ~Resting /\ region < Len(crs) /\ region' = region + 1 /\ from' = upto
      /\ left' = Counts(blocks) /\ seen' = Unseen(next) /\ evicted' = NoMisses(next)
      /\ UNCHANGED <<crs, bound, other, upto, pending>>
  BY DEF TaskPassesOn, matched
<1>2. /\ region \in 1 .. Len(crs) /\ Len(crs) \in Nat /\ crs \in Seq(ConflictRegionType)
      /\ other[upto] \in Seq(Blocks)
  BY <1>1, HereTypes
<1>3. Current' = next /\ other' = other /\ upto' = upto /\ pending' = pending /\ RegionsBefore' = <<>>
  BY <1>1 DEF Current, RegionsBefore
<1>4. blocks \in Seq(PersistentBlocks)
  <2>1. region + 1 \in DOMAIN crs
    BY <1>1, <1>2
  <2>2. next \in ConflictRegionType
    BY <1>2, <2>1, ElementOf
  <2> HIDE DEF next
  <2>3. QED
    BY <2>2 DEF ConflictRegionType
<1>5. LoadsLeft(other[upto], pending)
  BY <1>1 DEF MissInv, RunTypes
<1> HIDE DEF next
<1>6. RunTypes'
  <2>1. DOMAIN left' = DOMAIN blocks
        /\ \A i \in DOMAIN blocks : left'[i] \in Nat /\ left'[i] <= blocks[i].count
    BY <1>1, <1>4, RunsLeft
  <2>2. DOMAIN seen' = LinesUsed(blocks) /\ DOMAIN evicted' = LinesUsed(blocks)
    BY <1>1 DEF Unseen, NoMisses
  <2>3. QED
    BY <1>3, <1>5, <2>1, <2>2 DEF RunTypes
<1>7. ASSUME NEW line \in LinesUsed(blocks) PROVE MissesServed(line)'
  <2>1. evicted'[line] = 0 /\ seen'[line] = {}
    BY <1>1 DEF Unseen, NoMisses
  <2>2. MissesKept(0, PastRuns(blocks, line, left'), Room(blocks),
                   <<>>, other[upto], pending, SetOf[line], {})
    BY <1>2, <1>5, NoMissesYet
  <2>3. QED
    BY <1>3, <2>1, <2>2 DEF MissesServed
<1>8. DOMAIN evicted' = LinesUsed(blocks)
  BY <1>1 DEF NoMisses
<1>9. QED
  BY <1>6, <1>7, <1>8 DEF MissInv

(* The invariant of the misses holds always. *)
LEMMA MissInvariant == Spec => [](MatchInv /\ MissInv)
<1>1. Init => MissInv
  BY DEF Init, CoRunnerInit, MissInv, Resting
<1>2. ASSUME MatchInv, MatchInv', MissInv, [Next]_vars PROVE MissInv'
  <2>1. CASE UNCHANGED coVars
    BY <1>2, <2>1 DEF coVars, matched, MissInv, RunTypes, MissesServed, RegionsBefore, Current, Resting
  <2>2. CASE TakeCeop
    <3>1. PICK path \in tmpCEOPs : TakePath(Ceop(path))
      BY <2>2 DEF TakeCeop
    <3>2. Idle /\ other' = other
      BY <3>1 DEF TakePath
    <3>3. Resting'
      BY <1>2, <3>2 DEF MatchInv, MatchTypes, Resting
    <3>4. QED
      BY <3>3 DEF MissInv
  <2>3. ASSUME NEW o \in CoRunnerPaths, CoRun(o) PROVE MissInv'
    BY <1>2, <2>3, CoRunStartsMisses
  <2>4. ASSUME NEW loaded \in DOMAIN pending, Load(loaded) PROVE MissInv'
    BY <1>2, <2>4, LoadKeepsInv
  <2>5. ASSUME NEW i \in DOMAIN left, Execute(i) PROVE MissInv'
    BY <1>2, <2>5, ExecuteKeepsInv
  <2>6. CASE OtherPassesOn
    BY <1>2, <2>6, OtherKeepsInv
  <2>7. CASE TaskPassesOn
    BY <1>2, <2>7, TaskKeepsInv
  <2>8. QED
    BY <1>2, <2>1, <2>2, <2>3, <2>4, <2>5, <2>6, <2>7 DEF Next, CoRunnerNext, vars
<1>3. QED
  BY <1>1, <1>2, MatchInvariant, PTL DEF Spec

(* Whatever the order of the loads of the other core and of the task's     *)
(* executions, and however many regions the other core passes through: a   *)
(* persistent line of a conflict region misses as often as                 *)
(* OutNumber_PersistentBlock_add_with_continue counts at most, and once    *)
(* more for each passage of the other core after the first one.            *)
THEOREM EvictionsAreCounted == Spec => []EvictionsWithinOuts
<1>1. MatchInv /\ MissInv => EvictionsWithinOuts
  <2> SUFFICES ASSUME MatchInv, MissInv, ~Resting, NEW line \in DOMAIN evicted
               PROVE  evicted[line] <= LineOuts(Current, line, Here) + PassedAgain
    BY DEF EvictionsWithinOuts
  <2> DEFINE cr == Current
             urs == RegionsBefore
             ur == other[upto]
             n == evicted[line]
             S == seen[line]
  <2>1. cr \in ConflictRegionType /\ ur \in Seq(Blocks) /\ from \in Nat /\ upto \in Nat /\ from <= upto
    BY HereTypes
  <2>2. /\ urs \in Seq(Seq(Blocks)) /\ Here \in Seq(Seq(Blocks)) /\ Len(urs) = upto - from
        /\ Len(Here) = Len(urs) + 1 /\ \A k \in 1 .. Len(urs) : Here[k] = urs[k]
        /\ Here[Len(Here)] = ur
    BY RegionsAre
  <2>3. /\ \A i \in DOMAIN cr.persistent : left[i] \in Nat
        /\ LoadsLeft(ur, pending) /\ MissesServed(line)
    BY DEF MissInv, RunTypes
  <2>4. MissesKept(n, PastRuns(cr.persistent, line, left), Room(cr.persistent),
                   urs, ur, pending, SetOf[line], S)
    BY <2>3 DEF MissesServed
  <2>5. PassedAgain = IF Len(urs) > 1 THEN Len(urs) - 1 ELSE 0
    <3>1. Len(urs) = upto - from
      BY <2>2
    <3> HIDE DEF urs
    <3>2. QED
      BY <2>1, <3>1 DEF PassedAgain
  <2> HIDE DEF cr, urs, ur, n, S, Here
  <2>6. n <= LineOuts(cr, line, Here) + (IF Len(urs) > 1 THEN Len(urs) - 1 ELSE 0)
    BY <2>1, <2>2, <2>3, <2>4, MissesCounted
  <2>7. QED
    BY <2>5, <2>6 DEF cr, n
<1>2. QED
  BY <1>1, MissInvariant, PTL

-----------------------------------------------------------------------------
(* The search for paths. *)

(* What can be gone through from region u on. *)
Walks(regions, after, u) ==
    {w \in Seq(regions) :
        /\ w # <<>> /\ w[1] = u
        /\ \A k \in 1 .. Len(w) - 1 : w[k + 1] \in Range(after[w[k]])}

(* The walk is a path listed, or the first regions of one. *)
IsListed(walk, ceops) ==
    \E p \in ceops : Len(walk) <= Len(p) /\ \A k \in 1 .. Len(walk) : walk[k] = p[k]

(* The region to be entered after the path is on the walk, or the walk     *)
(* ends before.                                                            *)
WillList(walk, visit, path) ==
    /\ ~visit.expanded
    /\ \A k \in 1 .. Len(walk) : /\ k <= Len(path) => walk[k] = path[k]
                                 /\ k = Len(path) + 1 => walk[k] = visit.entry

(* before[i] is the path when visit i comes. *)
PathsBefore(before, visits, path) ==
    /\ before[1] = path
    /\ \A i \in 1 .. Len(visits) :
           before[i + 1] = IF visits[i].expanded THEN Front(before[i]) ELSE before[i]

WalksKept(walks, before, visits, ceops) ==
    \A walk \in walks : \/ IsListed(walk, ceops)
                        \/ \E i \in 1 .. Len(visits) : WillList(walk, visits[i], before[i])

(* Every walk is listed or will be. *)
Listing(visits, path, ceops, walks) ==
    \E before : PathsBefore(before, visits, path) /\ WalksKept(walks, before, visits, ceops)

Entries(regions) == [entry : regions, expanded : BOOLEAN]

(* The search starts. *)
LEMMA ListingStarts ==
    ASSUME NEW regions, NEW u, NEW after, NEW ceops
    PROVE  Listing(<<ToDo(u)>>, <<>>, ceops, Walks(regions, after, u))
<1> DEFINE visits == <<ToDo(u)>>
           before == [i \in 1 .. 2 |-> <<>>]
<1>1. Len(visits) = 1 /\ visits[1].entry = u /\ ~visits[1].expanded
  BY DEF ToDo
<1> HIDE DEF visits
<1>2. PathsBefore(before, visits, <<>>)
  BY <1>1 DEF PathsBefore
<1>3. ASSUME NEW walk \in Walks(regions, after, u)
      PROVE  WillList(walk, visits[1], before[1])
  BY <1>1, <1>3 DEF WillList, Walks
<1>4. WalksKept(Walks(regions, after, u), before, visits, ceops)
  BY <1>1, <1>3 DEF WalksKept
<1>5. QED
  BY <1>2, <1>4 DEF Listing, visits

(* The rest of a sequence. *)
LEMMA TailIs ==
    ASSUME NEW S, NEW s \in Seq(S), s # <<>>
    PROVE  /\ Len(s) \in Nat \ {0} /\ DOMAIN s = 1 .. Len(s)
           /\ Tail(s) \in Seq(S) /\ Len(Tail(s)) = Len(s) - 1
           /\ \A i \in 1 .. Len(s) - 1 : Tail(s)[i] = s[i + 1]
           /\ Head(s) = s[1] /\ s[1] \in S
<1>1. Len(s) \in Nat \ {0} /\ DOMAIN s = 1 .. Len(s)
  OBVIOUS
<1>2. Tail(s) \in Seq(S) /\ Len(Tail(s)) = Len(s) - 1
  OBVIOUS
<1>3. \A i \in 1 .. Len(s) - 1 : Tail(s)[i] = s[i + 1]
  OBVIOUS
<1>4. Head(s) = s[1] /\ 1 \in DOMAIN s
  OBVIOUS
<1>5. s[1] \in S
  BY <1>4, ElementOf
<1>6. QED
  BY <1>1, <1>2, <1>3, <1>4, <1>5

(* The next visit is over, and the walks it would list are listed. *)
LEMMA VisitIsOver ==
    ASSUME NEW R, NEW walks, NEW visits \in Seq(R), visits # <<>>,
           NEW path, NEW ceops, NEW more, ceops \subseteq more,
           Listing(visits, path, ceops, walks),
           \A walk \in walks : WillList(walk, visits[1], path) => IsListed(walk, more)
    PROVE  Listing(Tail(visits), IF visits[1].expanded THEN Front(path) ELSE path, more, walks)
<1> DEFINE n == Len(visits)
           rest == Tail(visits)
           next == IF visits[1].expanded THEN Front(path) ELSE path
<1> PICK before : PathsBefore(before, visits, path) /\ WalksKept(walks, before, visits, ceops)
  BY DEF Listing
<1> DEFINE after == [i \in 1 .. n |-> before[i + 1]]
<1>1. n \in Nat \ {0} /\ Len(rest) = n - 1 /\ \A i \in 1 .. n - 1 : rest[i] = visits[i + 1]
  BY TailIs
<1>2. /\ before[1] = path
      /\ \A i \in 1 .. n :
             before[i + 1] = IF visits[i].expanded THEN Front(before[i]) ELSE before[i]
  BY DEF PathsBefore
<1> HIDE DEF n, rest
<1>3. after[1] = next
  <2>1. 1 \in 1 .. n
    BY <1>1
  <2>2. QED
    BY <1>2, <2>1
<1>4. ASSUME NEW i \in 1 .. n - 1
      PROVE  after[i + 1] = IF rest[i].expanded THEN Front(after[i]) ELSE after[i]
  <2>1. i \in 1 .. n /\ i + 1 \in 1 .. n
    BY <1>1
  <2>2. after[i] = before[i + 1] /\ after[i + 1] = before[i + 1 + 1] /\ rest[i] = visits[i + 1]
    BY <1>1, <2>1
  <2>3. QED
    BY <1>2, <2>1, <2>2
<1>5. PathsBefore(after, rest, next)
  BY <1>1, <1>3, <1>4 DEF PathsBefore
<1>6. WalksKept(walks, after, rest, more)
  <2> SUFFICES ASSUME NEW walk \in walks, ~IsListed(walk, more)
               PROVE  \E i \in 1 .. Len(rest) : WillList(walk, rest[i], after[i])
    BY DEF WalksKept
  <2>1. ~IsListed(walk, ceops)
    BY DEF IsListed
  <2>2. PICK i \in 1 .. n : WillList(walk, visits[i], before[i])
    BY <2>1 DEF WalksKept, n
  <2>3. i # 1
    BY <1>2, <2>2
  <2>4. i - 1 \in 1 .. n - 1 /\ i - 1 \in 1 .. n /\ i - 1 + 1 = i
    BY <1>1, <2>3
  <2>5. rest[i - 1] = visits[i] /\ after[i - 1] = before[i]
    BY <1>1, <2>4
  <2>6. QED
    BY <1>1, <2>2, <2>4, <2>5
<1>7. QED
  BY <1>5, <1>6 DEF Listing, rest

(* A path with one region more. *)
LEMMA FoundIs ==
    ASSUME NEW R, NEW path \in Seq(R), NEW v \in R
    PROVE  LET found == Append(path, v)
           IN /\ Len(path) \in Nat /\ Len(found) = Len(path) + 1
              /\ found \in Seq(R) /\ found # <<>> /\ found[Len(path) + 1] = v
              /\ \A k \in 1 .. Len(path) : found[k] = path[k]
              /\ Front(found) = path
<1> DEFINE found == Append(path, v)
           n == Len(path)
<1>1. n \in Nat /\ path = [k \in 1 .. n |-> path[k]]
  OBVIOUS
<1>2. found \in Seq(R) /\ Len(found) = n + 1 /\ found[n + 1] = v
  OBVIOUS
<1>3. \A k \in 1 .. n : found[k] = path[k]
  OBVIOUS
<1> HIDE DEF found, n
<1>4. found # <<>> /\ Len(found) - 1 = n
  BY <1>1, <1>2
<1>5. Front(found) = [k \in 1 .. n |-> found[k]]
  BY <1>1, <1>2, <1>4 DEF Front
<1>6. Front(found) = path
  BY <1>1, <1>3, <1>5
<1>7. QED
  BY <1>1, <1>2, <1>3, <1>4, <1>6 DEF found, n

(* A walk that goes through the region after the path, and what comes then.*)
LEMMA WalkThrough ==
    ASSUME NEW R, NEW after, NEW u, NEW walk \in Walks(R, after, u),
           NEW visit \in Entries(R), NEW path \in Seq(R), WillList(walk, visit, path)
    PROVE  LET found == Append(path, visit.entry)
               n == Len(found)
           IN /\ Len(walk) \in Nat /\ n \in Nat
              /\ \A k \in 1 .. Len(walk) : k <= n => walk[k] = found[k]
              /\ n < Len(walk) => n + 1 \in 1 .. Len(walk) /\ walk[n + 1] \in Range(after[visit.entry])
<1> DEFINE v == visit.entry
           found == Append(path, v)
           m == Len(path)
<1>1. v \in R
  BY DEF Entries
<1>2. /\ m \in Nat /\ Len(found) = m + 1 /\ found[m + 1] = v
      /\ \A k \in 1 .. m : found[k] = path[k]
  BY <1>1, FoundIs
<1>3. /\ Len(walk) \in Nat
      /\ \A k \in 1 .. Len(walk) - 1 : walk[k + 1] \in Range(after[walk[k]])
      /\ \A k \in 1 .. Len(walk) : (k <= m => walk[k] = path[k]) /\ (k = m + 1 => walk[k] = v)
  BY DEF Walks, WillList
<1> HIDE DEF found, m, v
<1>4. ASSUME NEW k \in 1 .. Len(walk), k <= m + 1 PROVE walk[k] = found[k]
  <2>1. k \in 1 .. m \/ k = m + 1
    BY <1>2, <1>3, <1>4
  <2>2. QED
    BY <1>2, <1>3, <2>1
<1>5. ASSUME m + 1 < Len(walk)
      PROVE  m + 1 + 1 \in 1 .. Len(walk) /\ walk[m + 1 + 1] \in Range(after[v])
  <2>1. m + 1 \in 1 .. Len(walk) - 1 /\ m + 1 \in 1 .. Len(walk) /\ m + 1 + 1 \in 1 .. Len(walk)
    BY <1>2, <1>3, <1>5
  <2>2. QED
    BY <1>3, <2>1
<1>6. QED
  BY <1>2, <1>3, <1>4, <1>5 DEF found, v

(* The visits after a region with others after it is entered: at i <= k    *)
(* those others, then the end of the region, then what was to come.        *)
LEMMA VisitsAre ==
    ASSUME NEW R, NEW vs \in Seq(R), NEW v \in R, NEW visits \in Seq(Entries(R)), visits # <<>>
    PROVE  LET more == [i \in DOMAIN vs |-> ToDo(vs[i])] \o <<ToFinish(v)>> \o Tail(visits)
               k == Len(vs)
               n == Len(visits)
           IN /\ DOMAIN more = 1 .. k + n /\ Len(more) = k + n
              /\ \A i \in 1 .. k : more[i] = ToDo(vs[i])
              /\ more[k + 1] = ToFinish(v)
              /\ \A i \in 2 .. n : more[k + i] = visits[i]
<1> DEFINE k == Len(vs)
           n == Len(visits)
           E == Entries(R)
           rest == Tail(visits)
           todo == [i \in DOMAIN vs |-> ToDo(vs[i])]
           last == <<ToFinish(v)>>
<1>1. /\ n \in Nat \ {0} /\ rest \in Seq(E) /\ Len(rest) = n - 1
      /\ \A i \in 1 .. n - 1 : rest[i] = visits[i + 1]
  BY TailIs
<1>2. k \in Nat /\ DOMAIN vs = 1 .. k /\ \A i \in 1 .. k : vs[i] \in R
  OBVIOUS
<1>3. todo \in Seq(E) /\ Len(todo) = k /\ \A i \in 1 .. k : todo[i] = ToDo(vs[i])
  <2>1. \A i \in 1 .. k : ToDo(vs[i]) \in E
    BY <1>2 DEF ToDo, Entries
  <2> HIDE DEF k, E
  <2>2. QED
    BY <1>2, <2>1
<1>4. last \in Seq(E) /\ Len(last) = 1 /\ last[1] = ToFinish(v)
  <2>1. ToFinish(v) \in E
    BY DEF ToFinish, Entries
  <2> HIDE DEF E
  <2>2. QED
    BY <2>1
<1> HIDE DEF k, n, E, rest, todo, last
<1> DEFINE front == todo \o last
           more == front \o rest
<1>5. /\ front \in Seq(E) /\ Len(front) = k + 1
      /\ \A i \in 1 .. k : front[i] = todo[i]
      /\ front[k + 1] = ToFinish(v)
  <2>1. /\ front \in Seq(E) /\ Len(front) = Len(todo) + Len(last)
        /\ \A i \in 1 .. Len(todo) + Len(last) :
               front[i] = IF i <= Len(todo) THEN todo[i] ELSE last[i - Len(todo)]
    BY <1>3, <1>4, ConcatProperties
  <2> HIDE DEF front
  <2>2. \A i \in 1 .. k + 1 : front[i] = IF i <= k THEN todo[i] ELSE last[i - k]
    BY <1>3, <1>4, <2>1
  <2>3. ASSUME NEW i \in 1 .. k PROVE front[i] = todo[i]
    BY <1>2, <2>2
  <2>4. k + 1 \in 1 .. k + 1 /\ ~ k + 1 <= k /\ k + 1 - k = 1
    BY <1>2
  <2>5. front[k + 1] = last[1]
    BY <1>2, <2>2, <2>4
  <2>6. QED
    BY <1>3, <1>4, <2>1, <2>3, <2>5
<1> HIDE DEF front
<1>6. k + 1 \in Nat /\ k + 1 + (n - 1) = k + n
  BY <1>1, <1>2
<1>7. /\ Len(more) = k + n /\ DOMAIN more = 1 .. k + n
      /\ \A i \in 1 .. k + 1 : more[i] = front[i]
      /\ \A i \in 1 .. n - 1 : more[k + 1 + i] = rest[i]
  <2>1. /\ more \in Seq(E) /\ Len(more) = Len(front) + Len(rest)
        /\ \A i \in 1 .. Len(front) + Len(rest) :
               more[i] = IF i <= Len(front) THEN front[i] ELSE rest[i - Len(front)]
    BY <1>1, <1>5, ConcatProperties
  <2> HIDE DEF more
  <2>2. Len(more) = k + n /\ DOMAIN more = 1 .. k + n
    BY <1>1, <1>5, <1>6, <2>1
  <2>3. \A i \in 1 .. k + n : more[i] = IF i <= k + 1 THEN front[i] ELSE rest[i - (k + 1)]
    BY <1>1, <1>5, <1>6, <2>1
  <2>4. ASSUME NEW i \in 1 .. k + 1 PROVE more[i] = front[i]
    BY <1>1, <1>2, <2>3
  <2>5. ASSUME NEW i \in 1 .. n - 1 PROVE more[k + 1 + i] = rest[i]
    <3>1. k + 1 + i \in 1 .. k + n /\ ~ k + 1 + i <= k + 1 /\ k + 1 + i - (k + 1) = i
      BY <1>1, <1>2
    <3>2. more[k + 1 + i] = rest[k + 1 + i - (k + 1)]
      BY <1>1, <1>2, <2>3, <3>1
    <3>3. QED
      BY <3>1, <3>2
  <2>6. QED
    BY <2>2, <2>4, <2>5
<1>8. ASSUME NEW i \in 2 .. n PROVE more[k + i] = visits[i]
  <2>1. i - 1 \in 1 .. n - 1 /\ k + 1 + (i - 1) = k + i /\ i - 1 + 1 = i
    BY <1>1, <1>2
  <2>2. more[k + 1 + (i - 1)] = rest[i - 1] /\ rest[i - 1] = visits[i - 1 + 1]
    BY <1>1, <1>7, <2>1
  <2>3. QED
    BY <2>1, <2>2
<1>9. \A i \in 1 .. k : i \in 1 .. k + 1
  BY <1>2
<1>10. k + 1 \in 1 .. k + 1
  BY <1>2
<1>11. (\A i \in 1 .. k : more[i] = ToDo(vs[i])) /\ more[k + 1] = ToFinish(v)
  BY <1>3, <1>5, <1>7, <1>9, <1>10
<1>12. QED
  BY <1>7, <1>8, <1>11 DEF more, front, todo, last, rest, k, n

(* A region with others after it is entered: they come next, and the path  *)
(* is what it was when the visits that were there come.                    *)
LEMMA RegionIsEntered ==
    ASSUME NEW R, NEW after, NEW u, NEW visits \in Seq(Entries(R)), visits # <<>>,
           NEW path \in Seq(R), NEW ceops, NEW v \in R, NEW vs \in Seq(R), vs # <<>>,
           ~visits[1].expanded, visits[1].entry = v, after[v] = vs,
           Listing(visits, path, ceops, Walks(R, after, u))
    PROVE  Listing([i \in DOMAIN vs |-> ToDo(vs[i])] \o <<ToFinish(v)>> \o Tail(visits),
                   Append(path, v), ceops, Walks(R, after, u))
<1> DEFINE n == Len(visits)
           k == Len(vs)
           found == Append(path, v)
           more == [i \in DOMAIN vs |-> ToDo(vs[i])] \o <<ToFinish(v)>> \o Tail(visits)
           W == Walks(R, after, u)
<1> PICK before : PathsBefore(before, visits, path) /\ WalksKept(W, before, visits, ceops)
  BY DEF Listing
<1> DEFINE d == [i \in 1 .. k + n + 1 |-> IF i <= k + 1 THEN found ELSE before[i - k]]
<1>1. n \in Nat \ {0} /\ k \in Nat \ {0} /\ visits[1] \in Entries(R) /\ DOMAIN vs = 1 .. k
  BY TailIs
<1>2. /\ Len(more) = k + n
      /\ \A i \in 1 .. k : more[i] = ToDo(vs[i])
      /\ more[k + 1] = ToFinish(v)
      /\ \A i \in 2 .. n : more[k + i] = visits[i]
  <2> DEFINE todo == [i \in DOMAIN vs |-> ToDo(vs[i])] \o <<ToFinish(v)>> \o Tail(visits)
  <2>1. /\ DOMAIN todo = 1 .. Len(vs) + Len(visits) /\ Len(todo) = Len(vs) + Len(visits)
        /\ \A i \in 1 .. Len(vs) : todo[i] = ToDo(vs[i])
        /\ todo[Len(vs) + 1] = ToFinish(v)
        /\ \A i \in 2 .. Len(visits) : todo[Len(vs) + i] = visits[i]
    BY VisitsAre
  <2>2. QED
    BY <2>1, Zenon
<1>3. Len(found) \in Nat /\ Front(found) = path
  BY FoundIs
<1>4. /\ before[1] = path
      /\ \A i \in 1 .. n :
             before[i + 1] = IF visits[i].expanded THEN Front(before[i]) ELSE before[i]
  BY DEF PathsBefore
<1>5. ASSUME NEW walk \in W, WillList(walk, visits[1], path)
      PROVE  /\ Len(walk) \in Nat
             /\ \A i \in 1 .. Len(walk) : i <= Len(found) => walk[i] = found[i]
             /\ Len(found) < Len(walk) => /\ Len(found) + 1 \in 1 .. Len(walk)
                                          /\ walk[Len(found) + 1] \in Range(vs)
  <2>1. walk \in Walks(R, after, u)
    BY <1>5
  <2> HIDE DEF found
  <2>2. /\ Len(walk) \in Nat
        /\ \A i \in 1 .. Len(walk) : i <= Len(found) => walk[i] = found[i]
        /\ Len(found) < Len(walk) => /\ Len(found) + 1 \in 1 .. Len(walk)
                                     /\ walk[Len(found) + 1] \in Range(after[v])
    <3> DEFINE e == visits[1].entry
    <3>1. e = v
      OBVIOUS
    <3>2. LET f == Append(path, e)
          IN /\ Len(walk) \in Nat /\ Len(f) \in Nat
             /\ \A i \in 1 .. Len(walk) : i <= Len(f) => walk[i] = f[i]
             /\ Len(f) < Len(walk) => Len(f) + 1 \in 1 .. Len(walk) /\ walk[Len(f) + 1] \in Range(after[e])
      BY <1>1, <1>5, <2>1, WalkThrough, Zenon
    <3> HIDE DEF e
    <3>3. QED
      BY <3>1, <3>2 DEF found
  <2>3. QED
    BY <2>2
<1> HIDE DEF n, k, found, more, W
<1>6. ASSUME NEW i \in 1 .. k + 1 PROVE d[i] = found
  BY <1>1
<1>7. ASSUME NEW i \in 2 .. n + 1 PROVE d[k + i] = before[i]
  <2>1. k + i \in 1 .. k + n + 1 /\ ~ k + i <= k + 1 /\ k + i - k = i
    BY <1>1
  <2>2. d[k + i] = before[k + i - k]
    BY <1>1, <2>1
  <2>3. QED
    BY <2>1, <2>2
<1> HIDE DEF d
<1>8. PathsBefore(d, more, found)
  <2>1. d[1] = found
    BY <1>1, <1>6
  <2>2. ASSUME NEW i \in 1 .. k + n
        PROVE  d[i + 1] = IF more[i].expanded THEN Front(d[i]) ELSE d[i]
    <3>1. CASE i \in 1 .. k
      <4>1. i \in 1 .. k + 1 /\ i + 1 \in 1 .. k + 1
        BY <1>1, <3>1
      <4>2. more[i] = ToDo(vs[i])
        BY <1>2, <3>1
      <4>3. ~more[i].expanded
        BY <4>2 DEF ToDo
      <4>4. QED
        BY <1>6, <4>1, <4>3
    <3>2. CASE i = k + 1
      <4>1. i \in 1 .. k + 1 /\ i + 1 = k + 2 /\ 2 \in 2 .. n + 1 /\ 1 \in 1 .. n /\ 1 + 1 = 2
        BY <1>1, <3>2
      <4>2. d[k + 2] = path
        BY <1>4, <1>7, <4>1
      <4>3. QED
        BY <1>2, <1>3, <1>6, <3>2, <4>1, <4>2 DEF ToFinish
    <3>3. CASE i \notin 1 .. k + 1
      <4> DEFINE j == i - k
      <4>1. j \in 2 .. n /\ j + 1 \in 2 .. n + 1 /\ j \in 2 .. n + 1 /\ j \in 1 .. n
            /\ i = k + j /\ i + 1 = k + (j + 1)
        BY <1>1, <3>3
      <4> HIDE DEF j
      <4>2. QED
        BY <1>2, <1>4, <1>7, <4>1
    <3>4. QED
      BY <1>1, <3>1, <3>2, <3>3
  <2>3. QED
    BY <1>2, <2>1, <2>2 DEF PathsBefore
<1>9. WalksKept(W, d, more, ceops)
  <2> SUFFICES ASSUME NEW walk \in W, ~IsListed(walk, ceops)
               PROVE  \E i \in 1 .. k + n : WillList(walk, more[i], d[i])
    BY <1>2 DEF WalksKept
  <2>1. PICK i \in 1 .. n : WillList(walk, visits[i], before[i])
    BY DEF WalksKept, n
  <2>2. CASE i # 1
    <3>1. i \in 2 .. n /\ i \in 2 .. n + 1 /\ k + i \in 1 .. k + n
      BY <1>1, <2>2
    <3>2. QED
      BY <1>2, <1>7, <2>1, <3>1
  <2>3. CASE i = 1
    <3>1. /\ Len(walk) \in Nat
          /\ \A j \in 1 .. Len(walk) : j <= Len(found) => walk[j] = found[j]
          /\ Len(found) < Len(walk) => /\ Len(found) + 1 \in 1 .. Len(walk)
                                       /\ walk[Len(found) + 1] \in Range(vs)
      BY <1>4, <1>5, <2>1, <2>3
    <3>2. \E j \in 1 .. k : Len(found) < Len(walk) => walk[Len(found) + 1] = vs[j]
      <4>1. 1 \in 1 .. k
        BY <1>1
      <4>2. QED
        BY <1>1, <3>1, <4>1 DEF Range
    <3>3. PICK j \in 1 .. k : Len(found) < Len(walk) => walk[Len(found) + 1] = vs[j]
      BY <3>2
    <3>4. j \in 1 .. k + 1 /\ j \in 1 .. k + n
      BY <1>1
    <3>5. more[j] = ToDo(vs[j]) /\ d[j] = found
      BY <1>2, <1>6, <3>4
    <3>6. WillList(walk, ToDo(vs[j]), found)
      BY <1>3, <3>1, <3>3 DEF WillList, ToDo
    <3>7. QED
      BY <3>4, <3>5, <3>6
  <2>4. QED
    BY <2>2, <2>3
<1>10. QED
  BY <1>8, <1>9 DEF Listing, more, found, W

-----------------------------------------------------------------------------
(* The paths of a task. *)

TaskWalks == Walks(DOMAIN ur_mi, ur_graph, mi_ur[Start(task)])

(* What can be gone through is a path listed, or will be. *)
WalksAreListed == Collected => Listing(paths, tmpPath, tmpCEOPs, TaskWalks)

(* It is so from when collectUrInfo ends to when ceopDfs_it does. *)
LEMMA SearchKeepsWalks ==
    ASSUME TarjanInv, PathTypes, WalksAreListed, [URNext]_urVars
    PROVE  WalksAreListed'
<1>1. CASE Visit \/ Finish
  <2>1. ~Collected /\ UNCHANGED ur_mi
    BY <1>1 DEF Visit, Finish, TarjanInv, graph
  <2>2. QED
    BY <2>1 DEF WalksAreListed, Collected
<1>2. CASE CollectUrInfo
  <2>1. ur_mi = <<>> /\ paths' = <<ToDo(mi_ur[Start(task)])>> /\ UNCHANGED <<task, mi_ur, tmpPath>>
    BY <1>2 DEF CollectUrInfo, tarjan
  <2>2. DOMAIN ur_mi = {}
    BY <2>1
  <2>3. tmpPath = <<>>
    BY <2>2 DEF PathTypes
  <2>4. QED
    BY <2>1, <2>3, ListingStarts DEF WalksAreListed, TaskWalks
<1>3. CASE EnterRegion \/ LeaveRegion
  <2> DEFINE regions == DOMAIN ur_mi
             v == paths[1].entry
             vs == ur_graph[v]
             u == mi_ur[Start(task)]
  <2>1. paths # <<>> /\ UNCHANGED <<task, mi_ur, ur_mi, ur_graph>>
    BY <1>3 DEF EnterRegion, LeaveRegion, tarjan, graph
  <2>2. /\ paths \in Seq(Entries(regions)) /\ tmpPath \in Seq(regions)
        /\ Head(paths) = paths[1] /\ paths[1] \in Entries(regions) /\ v \in regions
    <3>1. paths \in Seq(Entries(regions)) /\ tmpPath \in Seq(regions)
      BY DEF PathTypes, Entries
    <3>2. Head(paths) = paths[1] /\ paths[1] \in Entries(regions)
      BY <2>1, <3>1, TailIs
    <3>3. QED
      BY <3>1, <3>2 DEF Entries
  <2>3. vs \in Seq(regions)
    BY <2>2 DEF PathTypes
  <2>4. Collected
    BY <2>2 DEF Collected
  <2>5. Listing(paths, tmpPath, tmpCEOPs, Walks(regions, ur_graph, u))
    BY <2>4 DEF WalksAreListed, TaskWalks
  <2>6. TaskWalks' = Walks(regions, ur_graph, u)
    BY <2>1 DEF TaskWalks
  <2> HIDE DEF regions, u
  <2>7. CASE LeaveRegion
    <3>1. paths[1].expanded /\ paths' = Tail(paths) /\ tmpPath' = Front(tmpPath) /\ UNCHANGED tmpCEOPs
      BY <2>2, <2>7 DEF LeaveRegion
    <3>2. \A walk : ~WillList(walk, paths[1], tmpPath)
      BY <3>1 DEF WillList
    <3> DEFINE next == IF paths[1].expanded THEN Front(tmpPath) ELSE tmpPath
    <3>3. Listing(Tail(paths), next, tmpCEOPs, Walks(regions, ur_graph, u))
      BY <2>1, <2>2, <2>5, <3>2, VisitIsOver
    <3>4. next = Front(tmpPath)
      BY <3>1
    <3> HIDE DEF next
    <3>5. QED
      BY <2>6, <3>1, <3>3, <3>4 DEF WalksAreListed
  <2>8. CASE EnterRegion /\ vs = <<>>
    <3>1. /\ ~paths[1].expanded /\ paths' = Tail(paths) /\ UNCHANGED tmpPath
          /\ tmpCEOPs' = tmpCEOPs \cup {Append(tmpPath, v)}
      BY <2>2, <2>8 DEF EnterRegion
    <3> DEFINE found == Append(tmpPath, v)
               more == tmpCEOPs \cup {found}
               next == IF paths[1].expanded THEN Front(tmpPath) ELSE tmpPath
    <3>2. ASSUME NEW walk \in Walks(regions, ur_graph, u), WillList(walk, paths[1], tmpPath)
          PROVE  IsListed(walk, more)
      <4>1. /\ Len(walk) \in Nat /\ Len(found) \in Nat
            /\ \A k \in 1 .. Len(walk) : k <= Len(found) => walk[k] = found[k]
            /\ Len(found) < Len(walk) =>
                   Len(found) + 1 \in 1 .. Len(walk) /\ walk[Len(found) + 1] \in Range(vs)
        BY <2>2, <3>2, WalkThrough, Zenon
      <4>2. Range(vs) = {}
        BY <2>8 DEF Range
      <4> HIDE DEF found
      <4>3. Len(walk) <= Len(found)
        BY <4>1, <4>2
      <4>4. QED
        BY <4>1, <4>3 DEF IsListed
    <3> HIDE DEF found
    <3>3. Listing(Tail(paths), next, more, Walks(regions, ur_graph, u))
      BY <2>1, <2>2, <2>5, <3>2, VisitIsOver
    <3>4. next = tmpPath
      BY <3>1
    <3> HIDE DEF next
    <3>5. QED
      BY <2>6, <3>1, <3>3, <3>4 DEF WalksAreListed, found
  <2>9. CASE EnterRegion /\ vs # <<>>
    <3> DEFINE more == [i \in DOMAIN vs |-> ToDo(vs[i])] \o <<ToFinish(v)>> \o Tail(paths)
    <3>1. /\ ~paths[1].expanded /\ tmpPath' = Append(tmpPath, v) /\ UNCHANGED tmpCEOPs
          /\ paths' = more
      BY <2>2, <2>9 DEF EnterRegion
    <3>2. Listing(more, Append(tmpPath, v), tmpCEOPs, Walks(regions, ur_graph, u))
      <4>1. paths[1].entry = v /\ ur_graph[v] = vs
        OBVIOUS
      <4> HIDE DEF v, vs
      <4>2. QED
        BY <2>1, <2>2, <2>3, <2>5, <2>9, <3>1, <4>1, RegionIsEntered
    <3> HIDE DEF more
    <3>3. QED
      BY <2>6, <3>1, <3>2 DEF WalksAreListed
  <2>10. QED
    BY <1>3, <2>7, <2>8, <2>9
<1>4. CASE UNCHANGED urVars
  BY <1>4 DEF WalksAreListed, TaskWalks, Collected, urVars, tarjan, graph, search
<1>5. QED
  BY <1>1, <1>2, <1>3, <1>4 DEF URNext

(* The invariant of regions and paths. *)
SearchInv == TarjanInv /\ PathTypes /\ SuccessorsLead /\ WalksAreListed

(* It holds always. *)
LEMMA SearchInvariant == URSpec => []SearchInv
<1>1. URInit => SuccessorsLead /\ WalksAreListed
  BY DEF URInit, SuccessorsLead, WalksAreListed, Collected
<1>2. TarjanInv /\ PathTypes /\ SuccessorsLead /\ [URNext]_urVars => SuccessorsLead'
  <2> SUFFICES ASSUME TarjanInv, PathTypes, SuccessorsLead, [URNext]_urVars PROVE SuccessorsLead'
    OBVIOUS
  <2>1. CASE CollectUrInfo
    BY <2>1, CollectKeepsPaths
  <2>2. CASE Visit \/ Finish
    BY <2>2 DEF Visit, Finish, TarjanInv, graph, SuccessorsLead, Collected
  <2>3. CASE EnterRegion \/ LeaveRegion \/ UNCHANGED urVars
    <3>1. UNCHANGED <<task, mi_ur, ur_mi, ur_graph>>
      BY <2>3 DEF EnterRegion, LeaveRegion, urVars, tarjan, graph
    <3>2. QED
      BY <3>1 DEF SuccessorsLead, Collected
  <2>4. QED
    BY <2>1, <2>2, <2>3 DEF URNext
<1>3. TarjanInv /\ PathTypes /\ WalksAreListed /\ [URNext]_urVars => WalksAreListed'
  BY SearchKeepsWalks
<1>4. QED
  BY <1>1, <1>2, <1>3, PathInvariant, PTL DEF URSpec, SearchInv

-----------------------------------------------------------------------------
(* A run of the task. *)

(* A run starts when all paths are listed, and has gone through regions    *)
(* that can be gone through, up to the one of the next instruction.        *)
RunIsWalk ==
    IF AtRest THEN passed = <<>> /\ at = None
    ELSE /\ Analysed
         /\ at \in DOMAIN mi_ur
         /\ passed \in TaskWalks /\ passed[Len(passed)] = mi_ur[at]

(* A walk with one region more. *)
LEMMA WalkGoesOn ==
    ASSUME NEW regions, NEW after, NEW u, NEW walk \in Walks(regions, after, u),
           NEW v \in regions, v \in Range(after[walk[Len(walk)]])
    PROVE  /\ Append(walk, v) \in Walks(regions, after, u)
           /\ Append(walk, v)[Len(Append(walk, v))] = v
<1> DEFINE longer == Append(walk, v)
           n == Len(walk)
<1>1. /\ walk \in Seq(regions) /\ walk # <<>> /\ walk[1] = u
      /\ \A k \in 1 .. n - 1 : walk[k + 1] \in Range(after[walk[k]])
  BY DEF Walks
<1>2. n \in Nat \ {0}
  BY <1>1
<1>3. /\ longer \in Seq(regions) /\ Len(longer) = n + 1 /\ longer # <<>> /\ longer[n + 1] = v
      /\ \A k \in 1 .. n : longer[k] = walk[k]
  BY <1>1, FoundIs
<1> HIDE DEF longer, n
<1>4. longer[1] = u
  <2>1. 1 \in 1 .. n
    BY <1>2
  <2>2. QED
    BY <1>1, <1>3, <2>1
<1>5. ASSUME NEW k \in 1 .. n PROVE longer[k + 1] \in Range(after[longer[k]])
  <2>1. CASE k = n
    BY <1>3, <2>1 DEF n
  <2>2. CASE k # n
    <3>1. k \in 1 .. n - 1 /\ k + 1 \in 1 .. n
      BY <1>2, <2>2
    <3>2. QED
      BY <1>1, <1>3, <3>1
  <2>3. QED
    BY <2>1, <2>2
<1>6. Len(longer) - 1 = n
  BY <1>2, <1>3
<1>7. QED
  BY <1>3, <1>4, <1>5, <1>6 DEF Walks, longer

(* One instruction of the run. *)
LEMMA RunKeepsWalk ==
    ASSUME SearchInv, RunIsWalk, RunNext
    PROVE  RunIsWalk'
<1>1. UNCHANGED <<task, mi_ur, ur_mi, ur_graph, paths>>
  BY DEF RunNext, Begin, Step, GoTo, urVars, tarjan, graph, search
<1>2. TaskWalks' = TaskWalks /\ Analysed' = Analysed
  BY <1>1 DEF TaskWalks, Analysed, Collected
<1>3. ASSUME NEW cm, NEW newTrips, GoTo(cm, newTrips)
      PROVE  /\ ~AtRest' /\ at' = cm
             /\ passed' = IF passed # <<>> /\ passed[Len(passed)] = mi_ur[cm] THEN passed
                          ELSE Append(passed, mi_ur[cm])
  <2>1. passed = <<>> \/ passed \in Seq(DOMAIN ur_mi)
    BY DEF RunIsWalk, AtRest, TaskWalks, Walks
  <2>2. Append(passed, mi_ur[cm]) # <<>>
    <3>1. CASE passed = <<>>
      <4>1. Append(<<>>, mi_ur[cm]) # <<>>
        OBVIOUS
      <4>2. QED
        BY <3>1, <4>1
    <3>2. CASE passed \in Seq(DOMAIN ur_mi)
      <4>1. Append(passed, mi_ur[cm]) = [i \in 1 .. Len(passed) + 1 |->
                IF i = Len(passed) + 1 THEN mi_ur[cm] ELSE passed[i]]
        BY DEF Append
      <4>2. Len(passed) \in Nat
        BY <3>2
      <4>3. QED
        BY <4>1, <4>2
    <3>3. QED
      BY <2>1, <3>1, <3>2
  <2>3. QED
    BY <1>3, <2>2 DEF GoTo, AtRest, Last
<1>4. CASE Begin
  <2> DEFINE cm == Start(task)
             u == mi_ur[cm]
  <2>1. Analysed /\ passed = <<>> /\ GoTo(cm, <<>>)
    BY <1>4 DEF Begin, RunIsWalk
  <2>2. cm \in DOMAIN mi_ur /\ u \in DOMAIN ur_mi
    BY <2>1 DEF SearchInv, SuccessorsLead, Analysed
  <2> HIDE DEF cm
  <2>3. ~AtRest' /\ at' = cm /\ passed' = <<u>>
    BY <1>3, <2>1
  <2>4. <<u>> \in Walks(DOMAIN ur_mi, ur_graph, u)
    BY <2>2 DEF Walks
  <2>5. passed' \in TaskWalks /\ passed'[Len(passed')] = mi_ur[at']
    BY <2>3, <2>4 DEF TaskWalks, cm
  <2>6. QED
    BY <1>1, <1>2, <2>1, <2>2, <2>3, <2>5 DEF RunIsWalk
<1>5. CASE at # None /\ Step
  <2> PICK cm \in Range(Succ(task, at)) : \E newTrips : GoTo(cm, newTrips)
    BY <1>5 DEF Step
  <2>1. PICK newTrips : GoTo(cm, newTrips)
    OBVIOUS
  <2>2. /\ Analysed /\ at \in DOMAIN mi_ur
        /\ passed \in TaskWalks /\ passed[Len(passed)] = mi_ur[at]
    BY <1>5 DEF RunIsWalk
  <2>3. /\ cm \in DOMAIN mi_ur /\ mi_ur[cm] \in DOMAIN ur_mi
        /\ mi_ur[cm] = mi_ur[at] \/ mi_ur[cm] \in Range(ur_graph[mi_ur[at]])
    BY <2>2 DEF SearchInv, SuccessorsLead, Analysed
  <2>4. passed' \in TaskWalks /\ passed'[Len(passed')] = mi_ur[cm]
    <3>1. CASE mi_ur[cm] = mi_ur[at]
      <4>1. passed # <<>>
        BY <2>2 DEF TaskWalks, Walks
      <4>2. QED
        BY <1>3, <2>1, <2>2, <3>1, <4>1
    <3>2. CASE mi_ur[cm] # mi_ur[at]
      <4>1. passed' = Append(passed, mi_ur[cm])
        BY <1>3, <2>1, <2>2, <3>2
      <4>2. QED
        BY <2>2, <2>3, <3>2, <4>1, WalkGoesOn DEF TaskWalks
    <3>3. QED
      BY <3>1, <3>2
  <2>5. ~AtRest' /\ at' = cm
    BY <1>3, <2>1
  <2>6. QED
    BY <1>1, <1>2, <2>2, <2>3, <2>4, <2>5 DEF RunIsWalk
<1>6. QED
  BY <1>4, <1>5 DEF RunNext

(* A path listed is what the run has gone through, or begins with it. *)
LEMMA WalkIsPrefix ==
    ASSUME NEW S, NEW walk \in Seq(S), NEW ceops \in SUBSET Seq(S), IsListed(walk, ceops)
    PROVE  \E path \in ceops : IsPrefix(walk, path)
<1>1. PICK path \in ceops : /\ Len(walk) <= Len(path)
                            /\ \A k \in 1 .. Len(walk) : walk[k] = path[k]
  BY DEF IsListed
<1>2. path \in Seq(S)
  OBVIOUS
<1>3. SubSeq(walk, 1, Len(walk)) = SubSeq(path, 1, Len(walk))
  BY <1>1, <1>2
<1>4. QED
  BY <1>1, <1>3 DEF IsPrefix

(* Whatever the task, its graph and its loops, and also where a loop is    *)
(* entered by several edges: once ceopDfs_it has ended, a run of the task  *)
(* goes through the regions of one of the paths it has listed, or through  *)
(* the first of them.                                                      *)
THEOREM RunsFollowCeops == Spec => []RunsAreListed
<1>1. Init => URInit /\ RunIsWalk
  BY DEF Init, RunInit, RunIsWalk, AtRest
<1>2. [Next]_vars => [URNext]_urVars
  <2>1. RunNext => UNCHANGED urVars
    BY DEF RunNext, Begin, Step, GoTo
  <2>2. QED
    BY <2>1 DEF Next, TakeCeop, vars
<1>3. SearchInv /\ RunIsWalk /\ [Next]_vars => RunIsWalk'
  <2> SUFFICES ASSUME SearchInv, RunIsWalk, [Next]_vars PROVE RunIsWalk'
    OBVIOUS
  <2>1. CASE URNext /\ UNCHANGED runVars
    <3>1. CASE AtRest
      BY <2>1, <3>1 DEF runVars, RunIsWalk, AtRest
    <3>2. CASE ~AtRest
      <4>1. Analysed /\ stack = <<>>
        BY <3>2 DEF RunIsWalk, SearchInv, TarjanInv, Analysed
      <4>2. QED
        BY <2>1, <4>1 DEF URNext, Visit, Finish, CollectUrInfo, EnterRegion, LeaveRegion,
                          Analysed, Collected
    <3>3. QED
      BY <3>1, <3>2
  <2>2. CASE RunNext
    BY <2>2, RunKeepsWalk
  <2>3. CASE UNCHANGED <<urVars, runVars>>
    BY <2>3 DEF urVars, tarjan, graph, search, runVars, RunIsWalk, AtRest, Analysed, Collected, TaskWalks
  <2>4. QED
    BY <2>1, <2>2, <2>3 DEF Next, TakeCeop, vars
<1>4. SearchInv /\ RunIsWalk => RunsAreListed
  <2> SUFFICES ASSUME SearchInv, RunIsWalk, ~AtRest PROVE \E path \in tmpCEOPs : IsPrefix(passed, path)
    BY DEF RunsAreListed
  <2>1. Collected /\ paths = <<>> /\ passed \in TaskWalks
    BY DEF RunIsWalk, Analysed
  <2>2. Listing(paths, tmpPath, tmpCEOPs, TaskWalks)
    BY <2>1 DEF SearchInv, WalksAreListed
  <2>3. IsListed(passed, tmpCEOPs)
    BY <2>1, <2>2 DEF Listing, WalksKept
  <2>4. passed \in Seq(DOMAIN ur_mi) /\ tmpCEOPs \in SUBSET Seq(DOMAIN ur_mi)
    BY <2>1 DEF TaskWalks, Walks, SearchInv, PathTypes
  <2>5. QED
    BY <2>3, <2>4, WalkIsPrefix
<1>5. QED
  BY <1>1, <1>2, <1>3, <1>4, SearchInvariant, PTL DEF Spec, URSpec
=============================================================================
