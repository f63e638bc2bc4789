-------------------------- MODULE MCAbstractCache --------------------------
(* Instances of AbstractCache for TLC.                                     *)
EXTENDS AbstractCache

Interval(base, size) == [lo |-> base, hi |-> base + size - 1]

MCTwoTags == 0 .. 1
MCThreeTags == 0 .. 2

(* Four sets of two words a line, two tags: 16 words.  Arrays within a     *)
(* line, over two and three sets, over sets that wrap around, of a whole   *)
(* way, aligned and not, longer than a way, and the unknown address.       *)
MCArrays ==
    {Interval(2, 2), Interval(1, 2), Interval(2, 6), Interval(6, 4),
     Interval(4, 8), Interval(3, 8), Interval(3, 11), UnknownAddress}

(* Two sets of four words a line.  The array is one word shorter than a    *)
(* way and starts at the end of a line.                                    *)
MCLongArray == {Interval(3, 7)}
=============================================================================
