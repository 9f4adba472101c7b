---------------------------- MODULE AbstractMap ----------------------------
(***************************************************************************)
(* What trie.h promises: a map from keys to values, and iterators each of  *)
(* which yields the keys with a prefix once, in order, over a map that     *)
(* does not change under it.                                               *)
(***************************************************************************)
EXTENDS KeyOrder, SequencesExt

CONSTANTS
  Requests, Prefixed, Iters,
  Fold                   (* a function: each character, its case forgotten  *)

VARIABLES
  map,                   (* the value of each key                           *)
  todo                   (* the keys that each iterator has yet to yield    *)

Folded(key) == [i \in DOMAIN key |-> Fold[key[i]]]

(* The keys that a request means: its own, or with "i" any that differs from *)
(* it in case only.                                                        *)
StandsFor(r, k) == IF "i" \in r.flags THEN Folded(k) = Folded(r.key) ELSE k = r.key

With(m, k, value) == [x \in DOMAIN m \cup {k} |-> IF x = k THEN value ELSE m[x]]

(* How a request takes the map from old to new: "o" may replace a value,   *)
(* "c" may add a key; otherwise it is refused.                             *)
Sets(old, new, r) ==
  LET meant == {k \in DOMAIN old : StandsFor(r, k)}
  IN  \/ /\ meant # {} /\ "o" \in r.flags
         /\ \E k \in meant : new = With(old, k, r.value)
      \/ /\ meant = {} /\ "c" \in r.flags
         /\ \E k \in DOMAIN new : StandsFor(r, k) /\ new = With(old, k, r.value)
      \/ /\ IF meant # {} THEN "o" \notin r.flags ELSE "c" \notin r.flags
         /\ new = old

Closed == [open |-> FALSE, keys |-> {}]

Frozen == LET all == todo IN \E i \in Iters : all[i].open

Set ==
  /\ ~ Frozen
  /\ LET old == map
         new == map'
     IN  \E r \in Requests : Sets(old, new, r)
  /\ UNCHANGED todo

Destroy ==
  /\ ~ Frozen
  /\ map' = << >>
  /\ UNCHANGED todo

Open(i, prefix) ==
  /\ todo' = [todo EXCEPT ![i] =
       [open |-> TRUE, keys |-> {k \in DOMAIN map : IsPrefix(prefix, k)}]]
  /\ UNCHANGED map

Yield(i) ==
  /\ todo[i].keys # {}
  /\ todo' = [todo EXCEPT ![i].keys = @ \ {First(@)}]
  /\ UNCHANGED map

Close(i) ==
  /\ todo' = [todo EXCEPT ![i] = Closed]
  /\ UNCHANGED map

Init ==
  /\ map = << >>
  /\ todo = [i \in Iters |-> Closed]

Next ==
  \/ Set
  \/ \E i \in Iters : Yield(i) \/ Close(i) \/ \E prefix \in Prefixed : Open(i, prefix)
  \/ Destroy

Spec == Init /\ [][Next]_<<map, todo>>
=============================================================================
