------------------------------ MODULE Filtering ------------------------------
(* SelectSeq for a set instead of a test, as a function that can be reasoned *)
(* about: what the loops of the code keep of a list.                         *)
EXTENDS Naturals, Sequences

\* The elements of s that are in S, in their order.
Filter(s, S) ==
  LET found[i \in 0 .. Len(s)] ==
        IF i = 0 THEN <<>>
        ELSE IF s[i] \in S THEN Append(found[i - 1], s[i]) ELSE found[i - 1]
  IN found[Len(s)]
=============================================================================
