------------------------ MODULE AbstractCacheProofs ------------------------
(***************************************************************************)
(* For every associativity, number of sets, line size and set of tags: the *)
(* abstract cache describes every set of the cache, also after accesses    *)
(* whose set is not known.  The proof is one about addresses: the sets     *)
(* that getCacheSetInterval names hold all lines of the interval.          *)
(***************************************************************************)
EXTENDS AbstractCache, LruCacheProofs

-----------------------------------------------------------------------------
(* Division.                                                               *)

LEMMA Division ==
    ASSUME NEW x \in Nat, NEW n \in Nat \ {0}
    PROVE  /\ x \div n \in Nat /\ x % n \in 0 .. n - 1
           /\ x = n * (x \div n) + (x % n)
BY SMT

LEMMA Quotient ==
    ASSUME NEW n \in Nat \ {0}, NEW q \in Nat, NEW r \in 0 .. n - 1, NEW x, x = n * q + r
    PROVE  x \div n = q /\ x % n = r
BY SMT

LEMMA Products ==
    ASSUME NEW n \in Int, NEW x \in Int, NEW y \in Int
    PROVE  /\ n * (x + y) = n * x + n * y /\ n * (x - y) = n * x - n * y
           /\ n * x = x * n /\ n * 1 = n /\ n * x \in Int
           /\ n >= 0 /\ x >= y => n * x >= n * y
BY SMT

LEMMA QuotientGrows ==
    ASSUME NEW x \in Nat, NEW y \in Nat, x <= y, NEW n \in Nat \ {0}
    PROVE  x \div n <= y \div n
<1> DEFINE p == x \div n
           q == y \div n
<1>1. /\ p \in Nat /\ x % n \in 0 .. n - 1 /\ x = n * p + (x % n)
      /\ q \in Nat /\ y % n \in 0 .. n - 1 /\ y = n * q + (y % n)
  BY Division
<1> HIDE DEF p, q
<1>2. ASSUME p >= q + 1 PROVE FALSE
  <2>1. n * p >= n * (q + 1)
    BY <1>1, <1>2
  <2>2. n * (q + 1) = n * q + n
    BY <1>1
  <2>3. QED
    BY <1>1, <2>1, <2>2
<1>3. p <= q
  BY <1>1, <1>2
<1>4. QED
  BY <1>3 DEF p, q

LEMMA QuotientBound ==
    ASSUME NEW x \in Nat, NEW n \in Nat \ {0}, NEW m \in Nat, x < m * n
    PROVE  x \div n < m
<1> DEFINE p == x \div n
<1>1. p \in Nat /\ x % n \in 0 .. n - 1 /\ x = n * p + (x % n)
  BY Division
<1> HIDE DEF p
<1>2. ASSUME p >= m PROVE FALSE
  <2>1. n * p >= n * m /\ n * m = m * n
    BY <1>1, <1>2
  <2>2. QED
    BY <1>1, <2>1
<1>3. p < m
  BY <1>1, <1>2
<1>4. QED
  BY <1>3 DEF p

-----------------------------------------------------------------------------
(* Addresses.                                                              *)

IsInterval(i) == i \in [lo : Words, hi : Words] /\ i.lo <= i.hi

NTags == Cardinality(Tags)
NLines == NTags * NSets

LEMMA Geometry ==
    /\ NTags \in Nat /\ NLines \in Nat /\ AddressSpace = NLines * LineWords
    /\ NSets \in Nat \ {0} /\ LineWords \in Nat \ {0}
    /\ Tags = 0 .. NTags - 1 /\ AddressSpace \in Nat
<1>1. NTags \in Nat
  BY TagsAssumption, FS_CardinalityType DEF NTags
<1>2. NSets \in Nat \ {0} /\ LineWords \in Nat \ {0}
  BY GeometryAssumption
<1>3. NLines \in Nat
  BY <1>1, <1>2 DEF NLines
<1>4. AddressSpace = NLines * LineWords /\ Tags = 0 .. NTags - 1
  BY GeometryAssumption DEF NLines, NTags
<1>5. QED
  BY <1>1, <1>2, <1>3, <1>4

LEMMA LinesOfWords ==
    ASSUME NEW w \in Words
    PROVE  LineOf(w) \in 0 .. NLines - 1
<1>1. w \in Nat /\ w < NLines * LineWords /\ LineWords \in Nat \ {0} /\ NLines \in Nat
  BY Geometry DEF Words
<1>2. w \div LineWords \in Nat /\ w \div LineWords < NLines
  BY <1>1, Division, QuotientBound
<1>3. QED
  BY <1>1, <1>2 DEF LineOf

LEMMA PlaceOfLine ==
    ASSUME NEW line \in 0 .. NLines - 1
    PROVE  /\ SetOf(line) \in Sets /\ TagOf(line) \in Tags
           /\ line = NSets * TagOf(line) + SetOf(line)
<1>1. line \in Nat /\ line < NTags * NSets /\ NSets \in Nat \ {0} /\ NTags \in Nat
  BY Geometry DEF NLines
<1>2. line \div NSets \in Nat /\ line \div NSets < NTags /\ line % NSets \in 0 .. NSets - 1
      /\ line = NSets * (line \div NSets) + (line % NSets)
  BY <1>1, Division, QuotientBound
<1>3. QED
  BY <1>1, <1>2, Geometry DEF SetOf, TagOf, Sets

LEMMA LinesOfInterval ==
    ASSUME NEW i, IsInterval(i)
    PROVE  /\ LineOf(i.lo) \in 0 .. NLines - 1 /\ LineOf(i.hi) \in 0 .. NLines - 1
           /\ LineOf(i.lo) <= LineOf(i.hi)
           /\ TagRange(i) \subseteq Tags
           /\ \A line \in LinesIn(i) : line \in 0 .. NLines - 1 /\ TagOf(line) \in TagRange(i)
<1>1. i.lo \in Words /\ i.hi \in Words /\ i.lo \in Nat /\ i.hi \in Nat /\ i.lo <= i.hi
  BY Geometry DEF IsInterval, Words
<1>2. LineOf(i.lo) \in 0 .. NLines - 1 /\ LineOf(i.hi) \in 0 .. NLines - 1
  BY <1>1, LinesOfWords
<1>3. LineOf(i.lo) <= LineOf(i.hi)
  BY <1>1, Geometry, QuotientGrows DEF LineOf
<1> DEFINE a == LineOf(i.lo)
           b == LineOf(i.hi)
<1>4. a \in Nat /\ b \in Nat /\ a <= b /\ NLines \in Nat
  BY <1>2, <1>3, Geometry
<1>5. TagOf(a) \in Tags /\ TagOf(b) \in Tags
  BY <1>2, PlaceOfLine
<1>6. TagRange(i) = TagOf(a) .. TagOf(b)
  BY DEF TagRange
<1>7. LinesIn(i) = a .. b
  BY DEF LinesIn
<1> HIDE DEF a, b
<1>8. TagOf(a) .. TagOf(b) \subseteq Tags
  BY <1>5, Geometry
<1>9. ASSUME NEW line \in a .. b
      PROVE  line \in 0 .. NLines - 1 /\ TagOf(line) \in TagOf(a) .. TagOf(b)
  <2>1. line \in 0 .. NLines - 1 /\ line \in Nat
    BY <1>2, <1>4 DEF a, b
  <2>2. TagOf(a) <= TagOf(line) /\ TagOf(line) <= TagOf(b)
    BY <1>4, <2>1, Geometry, QuotientGrows DEF TagOf
  <2>3. TagOf(line) \in Tags
    BY <2>1, PlaceOfLine
  <2>4. QED
    BY <1>5, <2>1, <2>2, <2>3, Geometry
<1>10. QED
  BY <1>2, <1>3, <1>6, <1>7, <1>8, <1>9

(* Fewer lines in a row than there are sets lie in the sets from that of   *)
(* the first to that of the last, with the wrap around between them.       *)
LEMMA SetsOfRun ==
    ASSUME NEW a \in Nat, NEW b \in Nat, b - a < NSets, NEW line \in a .. b
    PROVE  SetOf(line) \in SetsBetween(SetOf(a), SetOf(b))
<1> DEFINE p == a \div NSets
           q == b \div NSets
           u == line \div NSets
           r == a % NSets
           s == b % NSets
           v == line % NSets
<1>1. line \in Nat /\ a <= line /\ line <= b /\ NSets \in Nat \ {0}
  BY Geometry
<1>2. /\ p \in Nat /\ r \in 0 .. NSets - 1 /\ a = NSets * p + r
      /\ q \in Nat /\ s \in 0 .. NSets - 1 /\ b = NSets * q + s
      /\ u \in Nat /\ v \in 0 .. NSets - 1 /\ line = NSets * u + v
  BY <1>1, Division
<1>3. p <= u /\ u <= q
  BY <1>1, QuotientGrows
<1>4. SetOf(a) = r /\ SetOf(b) = s /\ SetOf(line) = v
  BY DEF SetOf
<1> HIDE DEF p, q, u, r, s, v
<1>5. q = p \/ q = p + 1
  <2>1. ASSUME q >= p + 2 PROVE FALSE
    <3>1. NSets * q >= NSets * (p + 2) /\ NSets * (p + 2) = NSets * p + NSets + NSets
      BY <1>1, <1>2, <2>1
    <3>2. QED
      BY <1>1, <1>2, <3>1
  <2>2. QED
    BY <1>2, <1>3, <2>1
<1>6. CASE q = p
  <2>1. u = p
    BY <1>2, <1>3, <1>6
  <2>2. r <= v /\ v <= s
    BY <1>1, <1>2, <1>6, <2>1
  <2>3. QED
    BY <1>2, <1>4, <2>2 DEF SetsBetween
<1>7. CASE q = p + 1
  <2>1. NSets * q = NSets * p + NSets
    BY <1>1, <1>2, <1>7
  <2>2. s < r
    BY <1>1, <1>2, <2>1
  <2>3. r <= v \/ v <= s
    <3>1. u = p \/ u = q
      BY <1>2, <1>3, <1>7
    <3>2. QED
      BY <1>1, <1>2, <3>1
  <2>4. SetsBetween(r, s) = (r .. NSets - 1) \cup (0 .. s)
    BY <1>2, <2>2 DEF SetsBetween
  <2>5. QED
    BY <1>1, <1>2, <1>4, <2>3, <2>4
<1>8. QED
  BY <1>5, <1>6, <1>7

(* An array that ends in the set it starts in, a way further on, is as     *)
(* long as a way.  One that is shorter, because it starts late in a line,  *)
(* is looked for in one set only: the finding of the run cache_long_array. *)
ArrayFits(i) ==
    LineOf(i.hi) - LineOf(i.lo) = NSets => i.hi + 1 - i.lo >= NSets * LineWords

LEMMA WordsAfter ==
    ASSUME NEW i, IsInterval(i)
    PROVE  \/ i.lo = 0 /\ i.hi = AddressSpace - 1 /\ (i.hi + 1 - i.lo) % AddressSpace = 0
           \/ (i.hi + 1 - i.lo) % AddressSpace = i.hi + 1 - i.lo
<1> DEFINE n == i.hi + 1 - i.lo
<1>1. /\ i.lo \in Nat /\ i.hi \in Nat /\ i.lo <= i.hi /\ i.hi <= AddressSpace - 1
      /\ AddressSpace \in Nat \ {0}
  BY Geometry DEF IsInterval, Words
<1>2. n \in 1 .. AddressSpace
  BY <1>1
<1>3. CASE n = AddressSpace
  <2>1. i.lo = 0 /\ i.hi = AddressSpace - 1
    BY <1>1, <1>3
  <2>2. AddressSpace = AddressSpace * 1 + 0 /\ 0 \in 0 .. AddressSpace - 1
    BY <1>1
  <2>3. AddressSpace % AddressSpace = 0
    BY <1>1, <2>2, Quotient
  <2>4. QED
    BY <1>3, <2>1, <2>3
<1>4. CASE n # AddressSpace
  <2>1. n \in 0 .. AddressSpace - 1 /\ n = AddressSpace * 0 + n
    BY <1>1, <1>2, <1>4
  <2>2. n % AddressSpace = n
    BY <1>1, <2>1, Quotient
  <2>3. QED
    BY <2>2
<1>5. QED
  BY <1>3, <1>4

(* The last line is in the last set.                                       *)
LEMMA LastLine ==
    ASSUME AddressSpace > 0
    PROVE  LineOf(AddressSpace - 1) = NLines - 1 /\ SetOf(NLines - 1) = NSets - 1
<1>1. /\ NLines \in Nat /\ NTags \in Nat /\ LineWords \in Nat \ {0} /\ NSets \in Nat \ {0}
      /\ AddressSpace = NLines * LineWords /\ NLines = NTags * NSets
  BY Geometry DEF NLines
<1>2. NLines # 0 /\ NTags # 0
  BY <1>1
<1>3. /\ AddressSpace - 1 = LineWords * (NLines - 1) + (LineWords - 1)
      /\ NLines - 1 = NSets * (NTags - 1) + (NSets - 1)
  <2>1. /\ LineWords * (NLines - 1) = LineWords * NLines - LineWords * 1
        /\ LineWords * NLines = NLines * LineWords /\ LineWords * 1 = LineWords
        /\ LineWords * NLines \in Int
    BY <1>1, Products
  <2>2. /\ NSets * (NTags - 1) = NSets * NTags - NSets * 1
        /\ NSets * NTags = NTags * NSets /\ NSets * 1 = NSets /\ NSets * NTags \in Int
    BY <1>1, Products
  <2> DEFINE lw == LineWords * (NLines - 1)
             ns == NSets * (NTags - 1)
  <2>3. lw = AddressSpace - LineWords /\ ns = NLines - NSets
    BY <1>1, <2>1, <2>2
  <2>4. AddressSpace \in Int
    BY Geometry
  <2> HIDE DEF lw, ns
  <2>5. AddressSpace - 1 = lw + (LineWords - 1) /\ NLines - 1 = ns + (NSets - 1)
    BY <1>1, <2>3, <2>4
  <2>6. QED
    BY <2>5 DEF lw, ns
<1>4. NLines - 1 \in Nat /\ NTags - 1 \in Nat
  BY <1>1, <1>2
<1>5. LineWords - 1 \in 0 .. LineWords - 1 /\ NSets - 1 \in 0 .. NSets - 1
  BY <1>1
<1>6. (AddressSpace - 1) \div LineWords = NLines - 1
  <2>1. \A q \in Nat, r \in 0 .. LineWords - 1 :
           AddressSpace - 1 = LineWords * q + r => (AddressSpace - 1) \div LineWords = q
    BY <1>1, Quotient
  <2>2. QED
    BY <1>3, <1>4, <1>5, <2>1, Zenon
<1>7. (NLines - 1) % NSets = NSets - 1
  <2>1. \A q \in Nat, r \in 0 .. NSets - 1 :
           NLines - 1 = NSets * q + r => (NLines - 1) % NSets = r
    BY <1>1, Quotient
  <2>2. QED
    BY <1>3, <1>4, <1>5, <2>1, Zenon
<1>8. QED
  BY <1>6, <1>7 DEF LineOf, SetOf

(* A shorter interval has fewer lines than there are sets.                 *)
LEMMA FewLines ==
    ASSUME NEW i, IsInterval(i), ArrayFits(i), i.hi + 1 - i.lo < NSets * LineWords
    PROVE  LineOf(i.hi) - LineOf(i.lo) < NSets
<1> DEFINE a == LineOf(i.lo)
           b == LineOf(i.hi)
<1>1. /\ i.lo \in Nat /\ i.hi \in Nat /\ i.lo <= i.hi
      /\ LineWords \in Nat \ {0} /\ NSets \in Nat \ {0}
  BY Geometry DEF IsInterval, Words
<1>2. /\ a \in Nat /\ i.lo % LineWords \in 0 .. LineWords - 1
      /\ i.lo = LineWords * a + (i.lo % LineWords)
      /\ b \in Nat /\ i.hi % LineWords \in 0 .. LineWords - 1
      /\ i.hi = LineWords * b + (i.hi % LineWords)
  BY <1>1, Division DEF LineOf
<1>3. b - a # NSets
  BY <1>1, <1>2 DEF ArrayFits
<1> HIDE DEF a, b
<1>4. ASSUME b - a >= NSets + 1 PROVE FALSE
  <2>1. LineWords * (b - a) >= LineWords * (NSets + 1)
    BY <1>1, <1>2, <1>4, Products
  <2>2. /\ LineWords * (b - a) = LineWords * b - LineWords * a
        /\ LineWords * (NSets + 1) = LineWords * NSets + LineWords * 1
        /\ LineWords * NSets = NSets * LineWords /\ LineWords * 1 = LineWords
        /\ LineWords * b \in Int /\ LineWords * a \in Int /\ NSets * LineWords \in Int
    BY <1>1, <1>2, Products
  <2> DEFINE la == LineWords * a
             lb == LineWords * b
             way == NSets * LineWords
  <2>3. lb - la >= way + LineWords /\ la \in Int /\ lb \in Int /\ way \in Int
    BY <1>1, <2>1, <2>2
  <2>4. /\ i.lo = la + (i.lo % LineWords) /\ i.hi = lb + (i.hi % LineWords)
        /\ i.hi + 1 - i.lo < way
    BY <1>2
  <2> HIDE DEF la, lb, way
  <2>5. QED
    BY <1>1, <1>2, <2>3, <2>4
<1>5. b - a < NSets
  BY <1>1, <1>2, <1>3, <1>4
<1>6. QED
  BY <1>5 DEF a, b

(* The sets from the first to the last that getCacheSetInterval returns    *)
(* hold all lines of the interval.                                         *)
LEMMA SetsCovered ==
    ASSUME NEW i, IsInterval(i), ArrayFits(i), NEW line \in LinesIn(i)
    PROVE  /\ SetOf(line) \in Sets
           /\ SetOf(line) \in SetsBetween(SetInterval(i).lower, SetInterval(i).upper)
<1>1. /\ LineOf(i.lo) \in Nat /\ LineOf(i.hi) \in Nat /\ SetOf(line) \in Sets
      /\ line \in LineOf(i.lo) .. LineOf(i.hi)
  BY LinesOfInterval, PlaceOfLine DEF LinesIn
<1>2. Sets = SetsBetween(0, NSets - 1)
  BY Geometry DEF Sets, SetsBetween
<1>3. CASE (i.hi + 1 - i.lo) % AddressSpace >= NSets * LineWords
  <2>1. SetInterval(i) = [lower |-> 0, upper |-> NSets - 1]
    BY <1>3 DEF SetInterval
  <2>2. QED
    BY <1>1, <1>2, <2>1
<1>4. CASE ~ ((i.hi + 1 - i.lo) % AddressSpace >= NSets * LineWords)
  <2>1. SetInterval(i) = [lower |-> SetOf(LineOf(i.lo)), upper |-> SetOf(LineOf(i.hi))]
    BY <1>4 DEF SetInterval
  <2>2. CASE i.lo = 0 /\ i.hi = AddressSpace - 1
    <3>1. AddressSpace > 0
      BY Geometry DEF IsInterval, Words
    <3>2. SetOf(LineOf(i.hi)) = NSets - 1
      BY <2>2, <3>1, LastLine
    <3>3. SetOf(LineOf(i.lo)) = 0
      <4>1. 0 = LineWords * 0 + 0 /\ 0 = NSets * 0 + 0
        BY Geometry
      <4>2. 0 \div LineWords = 0 /\ 0 % NSets = 0
        BY <4>1, Geometry, Quotient
      <4>3. QED
        BY <2>2, <4>2 DEF LineOf, SetOf
    <3>4. QED
      BY <1>1, <1>2, <2>1, <3>2, <3>3
  <2>3. CASE (i.hi + 1 - i.lo) % AddressSpace = i.hi + 1 - i.lo
    <3>1. i.hi + 1 - i.lo < NSets * LineWords
      <4>1. i.hi \in Nat /\ i.lo \in Nat /\ NSets * LineWords \in Nat
        BY Geometry DEF IsInterval, Words
      <4>2. QED
        BY <1>4, <2>3, <4>1
    <3>2. LineOf(i.hi) - LineOf(i.lo) < NSets
      BY <3>1, FewLines
    <3>3. SetOf(line) \in SetsBetween(SetOf(LineOf(i.lo)), SetOf(LineOf(i.hi)))
      BY <1>1, <3>2, SetsOfRun
    <3>4. QED
      BY <1>1, <2>1, <3>3
  <2>4. QED
    BY <2>2, <2>3, WordsAfter
<1>5. QED
  BY <1>3, <1>4

(* An update changes the set of each line that the access may go to.       *)
LEMMA UpdateReaches ==
    ASSUME NEW i, IsInterval(i), ArrayFits(i), NEW line \in LinesIn(i)
    PROVE  SetOf(line) \in UpdatedSets(i)
<1>1. CASE IsPreciseUpdate(i)
  <2>1. line = LineOf(i.lo)
    BY <1>1, LinesOfInterval DEF IsPreciseUpdate, LinesIn
  <2>2. QED
    BY <1>1, <2>1 DEF UpdatedSets
<1>2. CASE ~ IsPreciseUpdate(i)
  BY <1>2, SetsCovered DEF UpdatedSets
<1>3. QED
  BY <1>1, <1>2

-----------------------------------------------------------------------------
(* The invariant.                                                          *)

IInv ==
    /\ conc \in [Sets -> LruStates]
    /\ abs \in [Sets -> CacheSetDomain]
    /\ \A s \in Sets : Describes(abs[s], conc[s])

(* The hypothesis of the theorems: no array of the program ends in the set *)
(* it starts in, a way further on, without being as long as a way.         *)
ArraysFit == \A i \in Intervals : ArrayFits(i)

LEMMA InitIInv == Init => IInv
<1> SUFFICES ASSUME Init PROVE IInv
  OBVIOUS
<1> USE AssocAssumption
    DEF Ages, LruStates, CacheSetDomain, MayDomain, Describes, MustDescribes,
        MayDescribes, MustTop
<1>1. CASE /\ conc \in [Sets -> LruStates]
           /\ abs = [s \in Sets |-> UnknownCache]
  <2>1. UnknownCache \in CacheSetDomain
    BY DEF UnknownCache, MayTop
  <2>2. \A d \in LruStates : Describes(UnknownCache, d)
    BY DEF UnknownCache, MayTop
  <2>3. QED
    BY <1>1, <2>1, <2>2 DEF IInv
<1>2. CASE /\ conc = [s \in Sets |-> [t \in Tags |-> Assoc]]
           /\ abs = [s \in Sets |-> EmptyCache]
  <2>1. EmptyCache \in CacheSetDomain
    BY DEF EmptyCache, MayEmpty
  <2>2. [t \in Tags |-> Assoc] \in LruStates
    BY DEF Cached
  <2>3. Describes(EmptyCache, [t \in Tags |-> Assoc])
    BY DEF EmptyCache, MayEmpty
  <2>4. QED
    BY <1>2, <2>1, <2>2, <2>3 DEF IInv
<1>3. QED
  BY <1>1, <1>2 DEF Init

(* An access ages one set of the cache, and the update covers it: exactly  *)
(* where the line is known, as one of the lines that may be meant where it *)
(* is not.                                                                 *)
LEMMA AccessIInv ==
    ASSUME IInv, NEW i, IsInterval(i), ArrayFits(i), NEW line \in LinesIn(i),
           Access(i, line)
    PROVE  IInv'
<1> DEFINE at == SetOf(line)
           tag == TagOf(line)
<1>1. /\ line \in 0 .. NLines - 1 /\ tag \in TagRange(i) /\ TagRange(i) \in SUBSET Tags
      /\ at \in Sets /\ tag \in Tags
  BY LinesOfInterval, PlaceOfLine
<1>2. at \in UpdatedSets(i)
  BY UpdateReaches
<1>3. IsPreciseUpdate(i) => UpdatedSets(i) = {at} /\ TagOf(LineOf(i.lo)) = tag
  <2>1. IsPreciseUpdate(i) => line = LineOf(i.lo)
    BY LinesOfInterval DEF IsPreciseUpdate, LinesIn
  <2>2. QED
    BY <2>1 DEF UpdatedSets
<1> HIDE DEF at, tag
<1>4. /\ conc' = [conc EXCEPT ![at] = Touch(@, tag)]
      /\ abs' = UpdateCache(abs, i, "UNKNOWN")
  BY DEF Access, at, tag
<1>5. /\ conc \in [Sets -> LruStates] /\ abs \in [Sets -> CacheSetDomain]
      /\ \A s \in Sets : Describes(abs[s], conc[s])
  BY DEF IInv
<1>6. conc' \in [Sets -> LruStates]
  BY <1>1, <1>4, <1>5, TouchLru
<1>7. ~ AssumesHit("UNKNOWN")
  BY DEF AssumesHit
<1>8. ASSUME NEW s \in Sets
      PROVE  abs'[s] \in CacheSetDomain /\ Describes(abs'[s], conc'[s])
  <2>1. conc[s] \in LruStates /\ abs[s] \in CacheSetDomain /\ Describes(abs[s], conc[s])
    BY <1>5
  <2>2. conc'[s] = IF s = at THEN Touch(conc[s], tag) ELSE conc[s]
    BY <1>4, <1>5
  <2>3. abs'[s] = IF s \notin UpdatedSets(i) THEN abs[s]
                  ELSE IF IsPreciseUpdate(i)
                  THEN Update(abs[s], TagOf(LineOf(i.lo)), "UNKNOWN")
                  ELSE PotentialUpdate(abs[s], TagRange(i))
    BY <1>4 DEF UpdateCache
  <2>4. CASE s \notin UpdatedSets(i)
    BY <1>2, <2>1, <2>2, <2>3, <2>4
  <2>5. CASE s \in UpdatedSets(i) /\ IsPreciseUpdate(i)
    <3>1. s = at /\ abs'[s] = Update(abs[s], tag, "UNKNOWN")
      BY <1>3, <2>3, <2>5
    <3>2. conc'[s] = Touch(conc[s], tag)
      BY <2>2, <3>1
    <3>3. QED
      BY <1>1, <1>7, <2>1, <3>1, <3>2, UpdateSound
  <2>6. CASE s \in UpdatedSets(i) /\ ~ IsPreciseUpdate(i)
    <3>1. abs'[s] = PotentialUpdate(abs[s], TagRange(i))
      BY <2>3, <2>6
    <3>2. conc'[s] = conc[s] \/ conc'[s] = Touch(conc[s], tag)
      BY <2>2
    <3>3. /\ PotentialUpdate(abs[s], TagRange(i)) \in CacheSetDomain
          /\ Describes(PotentialUpdate(abs[s], TagRange(i)), conc[s])
          /\ Describes(PotentialUpdate(abs[s], TagRange(i)), Touch(conc[s], tag))
      BY <1>1, <2>1, PotentialUpdateSound
    <3>4. QED
      BY <3>1, <3>2, <3>3
  <2>7. QED
    BY <2>4, <2>5, <2>6
<1>9. abs' \in [Sets -> CacheSetDomain]
  <2>1. abs' = [s \in Sets |-> abs'[s]]
    BY <1>4 DEF UpdateCache
  <2>2. QED
    BY <1>8, <2>1
<1>10. QED
  BY <1>6, <1>8, <1>9 DEF IInv

(* One word is an interval within a line.                                  *)
LEMMA PreciseFits ==
    ASSUME NEW w \in Words
    PROVE  /\ IsInterval(Precise(w)) /\ ArrayFits(Precise(w))
           /\ LineOf(w) \in LinesIn(Precise(w))
<1>1. w \in Nat
  BY Geometry DEF Words
<1>2. Precise(w).lo = w /\ Precise(w).hi = w
  BY DEF Precise
<1>3. IsInterval(Precise(w))
  BY <1>1, <1>2 DEF IsInterval, Precise
<1>4. LineOf(w) \in Nat
  BY <1>1, LinesOfWords, Geometry
<1>5. LineOf(w) - LineOf(w) # NSets
  BY <1>4, Geometry
<1>6. QED
  BY <1>2, <1>3, <1>4, <1>5 DEF ArrayFits, LinesIn

LEMMA ProgramIntervals ==
    ASSUME NEW i \in Intervals
    PROVE  IsInterval(i)
BY IntervalsAssumption DEF IsInterval, Words

LEMMA NextIInv ==
    ASSUME ArraysFit
    PROVE  IInv /\ [Next]_vars => IInv'
<1> SUFFICES ASSUME IInv, [Next]_vars PROVE IInv'
  OBVIOUS
<1>1. ASSUME NEW w \in Words, Access(Precise(w), LineOf(w))
      PROVE  IInv'
  BY <1>1, PreciseFits, AccessIInv
<1>2. ASSUME NEW i \in Intervals, NEW line \in LinesIn(i), Access(i, line)
      PROVE  IInv'
  BY <1>2, ProgramIntervals, AccessIInv DEF ArraysFit
<1>3. CASE UNCHANGED vars
  BY <1>3 DEF vars, IInv
<1>4. QED
  BY <1>1, <1>2, <1>3 DEF Next

LEMMA SpecIInv ==
    ASSUME ArraysFit
    PROVE  Spec => []IInv
BY InitIInv, NextIInv, PTL DEF Spec

-----------------------------------------------------------------------------
(* Every set of the cache is described by its abstract set, also after an  *)
(* access whose set was not known: what the updates of                     *)
(* AbstractCacheImpl::update do to all sets from first to last.            *)
THEOREM SpecEverySetIsDescribed ==
    ASSUME ArraysFit
    PROVE  Spec => []EverySetIsDescribed
<1>1. IInv => EverySetIsDescribed
  BY DEF IInv, EverySetIsDescribed, Describes, MustDescribes, MayDescribes
<1>2. QED
  BY <1>1, SpecIInv, PTL

LEMMA TwoElements ==
    ASSUME NEW x, NEW y, x # y
    PROVE  Cardinality({x, y}) = 2
<1>1. IsFiniteSet({x}) /\ Cardinality({x}) = 1
  BY FS_Singleton
<1>2. {x, y} = {x} \cup {y} /\ y \notin {x}
  OBVIOUS
<1>3. Cardinality({x} \cup {y}) = Cardinality({x}) + 1
  BY <1>1, <1>2, FS_AddElement
<1>4. QED
  BY <1>1, <1>2, <1>3

(* The answers for the lines of an interval, joined.                       *)
LEMMA OneAnswer ==
    ASSUME NEW i, IsInterval(i), NEW line \in LinesIn(i), NEW answer \in {"HIT", "MISS"},
           ClassifyCache(abs, i) = answer
    PROVE  Classify(abs[SetOf(line)], TagOf(line)) = answer
<1> DEFINE lines == LinesIn(i)
           C(l) == Classify(abs[SetOf(l)], TagOf(l))
           answers == {C(l) : l \in lines}
<1>1. IsFiniteSet(lines)
  <2>1. LineOf(i.lo) \in Int /\ LineOf(i.hi) \in Int
    BY LinesOfInterval, Geometry
  <2>2. QED
    BY <2>1, FS_Interval DEF LinesIn
<1>2. ClassifyCache(abs, i) = IF i = UnknownAddress \/ Cardinality(answers) > 1 THEN "UNKNOWN"
                              ELSE CHOOSE a \in answers : TRUE
  BY Zenon DEF ClassifyCache
<1>3. /\ ~ Cardinality(answers) > 1
      /\ answer = CHOOSE a \in answers : TRUE
  BY <1>2
<1>4. C(line) \in answers /\ answer \in answers
  BY <1>3
<1>5. IsFiniteSet(answers)
  <2> DEFINE f == [l \in lines |-> C(l)]
  <2>1. f \in Surjection(lines, answers)
    BY Zenon DEF Surjection
  <2>2. QED
    BY <1>1, <2>1, FS_Surjection
<1> HIDE DEF answers
<1>6. ASSUME C(line) # answer PROVE FALSE
  <2>1. {C(line), answer} \subseteq answers
    BY <1>4
  <2>2. Cardinality({C(line), answer}) <= Cardinality(answers)
    BY <1>5, <2>1, FS_Subset
  <2>3. Cardinality({C(line), answer}) = 2
    BY <1>6, TwoElements
  <2>4. Cardinality(answers) \in Nat
    BY <1>5, FS_CardinalityType
  <2>5. QED
    BY <1>3, <2>2, <2>3, <2>4
<1>7. QED
  BY <1>6

(* A hit that is classified of an interval is a hit of every line of it,   *)
(* and so is a miss.                                                       *)
THEOREM SpecIntervalClassificationSound ==
    ASSUME ArraysFit
    PROVE  Spec => []IntervalClassificationSound
<1>1. IInv => IntervalClassificationSound
  <2> SUFFICES ASSUME IInv, NEW i \in Intervals, NEW line \in LinesIn(i)
               PROVE  LET cached == Cached(conc[SetOf(line)], TagOf(line))
                      IN  /\ ClassifyCache(abs, i) = "HIT" => cached
                          /\ ClassifyCache(abs, i) = "MISS" => ~ cached
    BY DEF IntervalClassificationSound
  <2>1. IsInterval(i)
    BY ProgramIntervals
  <2>2. SetOf(line) \in Sets /\ TagOf(line) \in Tags
    BY <2>1, LinesOfInterval, PlaceOfLine
  <2> DEFINE c == conc[SetOf(line)]
             x == abs[SetOf(line)]
             tag == TagOf(line)
  <2>3. c \in LruStates /\ x \in CacheSetDomain /\ Describes(x, c) /\ tag \in Tags
    BY <2>2 DEF IInv
  <2>4. /\ ClassifyCache(abs, i) = "HIT" => Classify(x, tag) = "HIT"
        /\ ClassifyCache(abs, i) = "MISS" => Classify(x, tag) = "MISS"
    BY <2>1, OneAnswer
  <2> HIDE DEF c, x, tag
  <2>5. /\ Classify(x, tag) = "HIT" => Cached(c, tag)
        /\ Classify(x, tag) = "MISS" => ~ Cached(c, tag)
    BY <2>3, ClassifySound
  <2>6. QED
    BY <2>4, <2>5 DEF c, x, tag
<1>2. QED
  BY <1>1, SpecIInv, PTL

(* Where the sets of an array do not wrap around, all of them are asked    *)
(* for the scopes it persists in (getPersistentScopes).                    *)
THEOREM SpecPersistentInEverySet ==
    ASSUME ArraysFit
    PROVE  Spec => []PersistentInEverySet
<1>1. PersistentInEverySet
  <2> SUFFICES ASSUME NEW i \in Intervals, SetInterval(i).lower <= SetInterval(i).upper,
                      ArrayIsPersistent(i), NEW line \in LinesIn(i)
               PROVE  SetOf(line) \notin gaveUp
    BY DEF PersistentInEverySet, SetsSpanned
  <2>1. SetOf(line) \in SetsBetween(SetInterval(i).lower, SetInterval(i).upper)
    BY ProgramIntervals, SetsCovered DEF ArraysFit
  <2>2. SetOf(line) \in ConsultedSets(i)
    BY <2>1 DEF SetsBetween, ConsultedSets
  <2>3. QED
    BY <2>2 DEF ArrayIsPersistent
<1>2. QED
  BY <1>1, PTL

(* The next line is in another set, where there is one.                    *)
LEMMA NextSet ==
    ASSUME NEW a \in Nat, NSets > 1
    PROVE  SetOf(a) # SetOf(a + 1)
<1> DEFINE p == a \div NSets
           r == a % NSets
<1>1. NSets \in Nat \ {0} /\ p \in Nat /\ r \in 0 .. NSets - 1 /\ a = NSets * p + r
  BY Geometry, Division
<1> HIDE DEF p, r
<1>2. CASE r < NSets - 1
  <2>1. r + 1 \in 0 .. NSets - 1 /\ a + 1 = NSets * p + (r + 1)
    BY <1>1, <1>2
  <2>2. (a + 1) % NSets = r + 1
    <3>1. \A q \in Nat, v \in 0 .. NSets - 1 :
             a + 1 = NSets * q + v => (a + 1) % NSets = v
      BY <1>1, Quotient
    <3>2. p \in Nat
      BY <1>1
    <3>3. QED
      BY <2>1, <3>1, <3>2, Zenon
  <2>3. QED
    BY <1>1, <2>2 DEF SetOf, r
<1>3. CASE r = NSets - 1
  <2>1. 0 \in 0 .. NSets - 1 /\ a + 1 = NSets * (p + 1) + 0
    <3>1. NSets * (p + 1) = NSets * p + NSets * 1 /\ NSets * 1 = NSets
      BY <1>1, Products
    <3>2. QED
      BY <1>1, <1>3, <3>1
  <2>2. (a + 1) % NSets = 0
    <3>1. \A q \in Nat, v \in 0 .. NSets - 1 :
             a + 1 = NSets * q + v => (a + 1) % NSets = v
      BY <1>1, Quotient
    <3>2. p + 1 \in Nat
      BY <1>1
    <3>3. QED
      BY <2>1, <3>1, <3>2, Zenon
  <2>3. QED
    BY <1>1, <1>3, <2>2 DEF SetOf, r
<1>4. QED
  BY <1>1, <1>2, <1>3

(* "Could have performed precise update" never fails: an interval of more  *)
(* than one line goes to more than one set.                                *)
THEOREM SpecImpreciseUpdateSpansSets ==
    ASSUME ArraysFit
    PROVE  Spec => ImpreciseUpdateSpansSets
<1>1. ASSUME NEW i \in Intervals, ~ IsPreciseUpdate(i), NSets # 1,
             SetInterval(i).lower = SetInterval(i).upper
      PROVE  FALSE
  <2>1. IsInterval(i) /\ ArrayFits(i)
    BY ProgramIntervals DEF ArraysFit
  <2> DEFINE a == LineOf(i.lo)
             b == LineOf(i.hi)
  <2>2. a \in Nat /\ b \in Nat /\ a < b /\ NSets \in Nat /\ NSets > 1
    BY <1>1, <2>1, LinesOfInterval, Geometry DEF IsPreciseUpdate
  <2>3. a + 1 \in LinesIn(i) /\ a \in LinesIn(i)
    BY <2>2 DEF LinesIn
  <2>4. PICK s : s = SetInterval(i).lower
    OBVIOUS
  <2>5. SetOf(a) \in SetsBetween(s, s) /\ SetOf(a + 1) \in SetsBetween(s, s)
    BY <1>1, <2>1, <2>3, <2>4, SetsCovered
  <2>6. s \in Nat
    <3>1. SetOf(a) \in Sets
      BY <2>1, LinesOfInterval, PlaceOfLine
    <3>2. SetInterval(i).lower \in {0, SetOf(a)}
      BY DEF SetInterval
    <3>3. QED
      BY <2>4, <3>1, <3>2, Geometry DEF Sets
  <2>7. SetsBetween(s, s) = {s}
    BY <2>6 DEF SetsBetween
  <2>8. SetOf(a) = SetOf(a + 1)
    BY <2>5, <2>7
  <2> HIDE DEF a, b
  <2>9. SetOf(a) # SetOf(a + 1)
    BY <2>2, NextSet
  <2>10. QED
    BY <2>8, <2>9
<1>2. [][Next]_vars => ImpreciseUpdateSpansSets
  <2>1. [Next]_vars =>
          [\A i \in Intervals :
              ~ IsPreciseUpdate(i) /\ (\E line \in LinesIn(i) : Access(i, line)) =>
                  \/ NSets = 1
                  \/ SetInterval(i).lower # SetInterval(i).upper]_vars
    BY <1>1
  <2>2. QED
    BY <2>1, PTL DEF ImpreciseUpdateSpansSets
<1>3. QED
  BY <1>2, PTL DEF Spec
=============================================================================
