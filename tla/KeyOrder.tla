------------------------------ MODULE KeyOrder ------------------------------
(* The alphabetical order of keys: sequences of characters, which are      *)
(* numbers; a key comes before the longer ones that begin with it.         *)
EXTENDS Integers, Sequences

Before(a, b) ==
  \E n \in 0 .. Len(b) - 1 :
    /\ n <= Len(a)
    /\ SubSeq(a, 1, n) = SubSeq(b, 1, n)
    /\ n = Len(a) \/ a[n + 1] < b[n + 1]

First(keys) == CHOOSE k \in keys : \A other \in keys \ {k} : Before(k, other)
=============================================================================
