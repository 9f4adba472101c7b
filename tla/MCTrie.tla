------------------------------- MODULE MCTrie -------------------------------
(***************************************************************************)
(* Five characters: NUL, two digits without case, and a letter in both     *)
(* cases.  Nodes hold three characters, so a fourth branch makes a table.  *)
(***************************************************************************)
EXTENDS Trie

MCUpper == [c \in Chars |-> IF c = 4 THEN 3 ELSE c]
MCLower == [c \in Chars |-> IF c = 3 THEN 4 ELSE c]

Request(key, value, flags) == [key |-> key, value |-> value, flags |-> flags]

(* No three of the keys are each a prefix of the next, whatever their case. *)
MCRequests ==
  {Request(key, 1, {"c"}) : key \in {<<3, 1, 1, 3>>, <<3, 0>>, <<0>>, <<1>>, <<2, 2>>}}
  \cup {Request(<<4, 1>>, 1, {"c", "i"})}
  \cup {Request(<<3, 1, 1, 3>>, 2, {"c", "o"}), Request(<<4, 1, 1, 3>>, 2, {"o", "i"})}

MCPrefixed == {<< >>, <<3, 1, 1>>}

(* A key, one that ends within the next, and that one.                     *)
ChainedRequests == {Request(key, 1, {"c"}) : key \in {<<1>>, <<1, 0, 2>>, <<1, 0>>, <<2>>}}
=============================================================================
