------------------------------- MODULE Lists -------------------------------
(***************************************************************************)
(* Some elements of a list, and the elements of a set in an order.         *)
(***************************************************************************)
EXTENDS Integers, SequencesExt, FiniteSetsExt

(* The elements of a sequence at the places in keep.                       *)
Those(s, keep) ==
    LET found[i \in 0 .. Len(s)] ==
            IF i = 0 THEN <<>>
            ELSE IF i \in keep THEN Append(found[i - 1], s[i])
            ELSE found[i - 1]
    IN found[Len(s)]

(* An ordered sequence with one element more.                              *)
Inserted(x, s, before(_, _)) ==
    LET n == Cardinality({i \in DOMAIN s : before(s[i], x)})
    IN SubSeq(s, 1, n) \o <<x>> \o SubSeq(s, n + 1, Len(s))

Sorted(S, before(_, _)) == FoldSet(LAMBDA x, s : Inserted(x, s, before), <<>>, S)
=============================================================================
