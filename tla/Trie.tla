------------------------------- MODULE Trie -------------------------------
(***************************************************************************)
(* trie.c: a radix tree from keys to values.  A node leads on by a string  *)
(* of at most PREALLOC characters to one node ("linear"), by a character   *)
(* each to at most PREALLOC nodes, or through a table with an entry for    *)
(* every character.  nodes is the heap, its index a pointer; memory that   *)
(* is moved by realloc keeps its index, as no pointer outlives a write.    *)
(* The contents of key_return_buf are overwritten by each lookup and leave *)
(* the state through return values only; they are left out, its length is  *)
(* not.  skit_trie_remove is a stub that changes nothing.                  *)
(***************************************************************************)
EXTENDS KeyOrder, FiniteSets, SequencesExt

CONSTANTS
  MaxChar,               (* characters are 0 .. MaxChar, 255 in the code    *)
  Upper, Lower,          (* skit_char_ascii_to_upper, _lower: functions     *)
  PREALLOC,              (* SKIT__TRIE_NODE_PREALLOC, 12 in the code        *)
  Requests,              (* the keys, values and flags that it sets         *)
  Prefixed, Iters,       (* the prefixes that it iterates, its iterators    *)
  MaxLength              (* how many keys the program stores                *)

NULL == 0
NoLoaf == -1             (* sLLENGTH of skit_loaf_null()                    *)

Chars == 0 .. MaxChar

ASSUME TrieAssumption ==
  /\ MaxChar \in Nat /\ PREALLOC \in Nat /\ PREALLOC >= 2 /\ PREALLOC <= MaxChar
  /\ Upper \in [Chars -> Chars] /\ Lower \in [Chars -> Chars]
  /\ IsFiniteSet(Iters)
  /\ \A r \in Requests :
       r.key \in Seq(Chars) /\ r.value \in Nat \ {NULL} /\ r.flags \subseteq {"c", "o", "i"}

VARIABLES
  nodes,                 (* the heap of nodes                               *)
  root,                  (* trie->root                                      *)
  length,                (* trie->length                                    *)
  longest,               (* sLLENGTH(trie->key_return_buf)                  *)
  iterator_count,        (* trie->iterator_count                            *)
  opened,                (* the iterators that are allocated                *)
  iters                  (* their contents                                  *)

vars == <<nodes, root, length, longest, iterator_count, opened, iters>>

Alive == longest # NoLoaf

Least(S) == CHOOSE x \in S : \A y \in S : x <= y

(***************************************************************************)
(* Lookup                                                                  *)
(***************************************************************************)
NodeCtor == [have_value |-> FALSE, value |-> NULL, nodes_len |-> 0,
             chars_len |-> 0, chars |-> << >>, nodes |-> << >>]

(* skit_trie_coords: pos characters of the key were matched, the last      *)
(* n_chars_into_node of them within node.                                  *)
Stop(n, pos, n_chars) ==
  [node |-> n, pos |-> pos, n_chars_into_node |-> n_chars, lookup_stopped |-> TRUE]

Continue(n, pos) ==
  [node |-> n, pos |-> pos, n_chars_into_node |-> 0, lookup_stopped |-> FALSE]

ExactMatch(coords, key) ==
  coords.pos = Len(key) /\ coords.node # NULL /\ nodes[coords.node].have_value

PrefixMatch(coords, key) ==
  coords.lookup_stopped /\ coords.pos = Len(key) /\ ~ nodes[coords.node].have_value

NoMatch(coords, key) ==
  coords.node = NULL \/ (coords.lookup_stopped /\ coords.pos < Len(key))

IsLinear(node) == node.nodes_len = 1 /\ node.chars_len > 1

(* Where a node that is not linear leads by character c.                   *)
Child(node, c) ==
  IF node.chars_len > PREALLOC THEN node.nodes[c]
  ELSE LET found == {i \in 1 .. node.chars_len : node.chars[i] = c}
       IN  IF found = {} THEN NULL ELSE node.nodes[Least(found)]

Same(c, d, mode) == IF mode = "sensitive" THEN c = d ELSE Lower[c] = Lower[d]

Cased(c, mode) ==
  CASE mode = "upper" -> Upper[c] [] mode = "lower" -> Lower[c] [] OTHER -> c

(* How far key agrees with a node's string.                                *)
Agreeing(node, key, pos, mode) ==
  LET agrees(i) == pos + i <= Len(key) /\ Same(key[pos + i], node.chars[i], mode)
  IN  CHOOSE n \in 0 .. node.chars_len :
        /\ \A i \in 1 .. n : agrees(i)
        /\ n = node.chars_len \/ ~ agrees(n + 1)

skit_trie_next_node(n, key, pos, mode) ==
  LET node  == nodes[n]
      i     == Agreeing(node, key, pos, mode)
      child == Child(node, Cased(key[pos + 1], mode))
  IN  CASE node.nodes_len = 1 ->
             IF i = node.chars_len THEN Continue(node.nodes[1], pos + i) ELSE Stop(n, pos + i, i)
        [] node.nodes_len = 0 \/ (node.nodes_len > 1 /\ pos >= Len(key)) -> Stop(n, pos, 0)
        [] OTHER -> IF child = NULL THEN Stop(n, pos, 0) ELSE Continue(child, pos + 1)

BetterNever(a, b, key) == a

(* The case-insensitive lookup tries both cases wherever a path branches   *)
(* and prefers an exact match, then the one that got further.              *)
Better(a, b, key) ==
  IF ~ a.lookup_stopped \/ ExactMatch(a, key) \/ a.pos > b.pos THEN a ELSE b

skit_trie_find(key, icase) ==
  LET find[n \in DOMAIN nodes, pos \in 0 .. Len(key)] ==
        LET try(mode) ==
              LET next == skit_trie_next_node(n, key, pos, mode)
              IN  IF next.lookup_stopped \/ ExactMatch(next, key) THEN next
                  ELSE find[next.node, next.pos]
        IN  IF icase THEN Better(try("upper"), try("lower"), key) ELSE try("sensitive")
  IN  IF root = NULL THEN Stop(NULL, 0, 0) ELSE find[root, 0]

(* The value that skit_trie_get hands out.                                 *)
skit_trie_get(key, flags) ==
  LET coords == skit_trie_find(key, "i" \in flags)
  IN  IF ExactMatch(coords, key) THEN nodes[coords.node].value ELSE NULL

(***************************************************************************)
(* Splitting nodes: operators from a heap to a heap                        *)
(***************************************************************************)
SetValue(h, n, value) == [h EXCEPT ![n].value = value, ![n].have_value = TRUE]

Linear(str, n) ==
  [NodeCtor EXCEPT !.chars_len = Len(str), !.chars = str, !.nodes_len = 1, !.nodes = <<n>>]

(* skit_trie_node_insert_non0_str: node n and as many new ones as it takes *)
(* lead by str to tail, PREALLOC characters at a time.                     *)
Strung(h, n, tail, str) ==
  LET pieces   == (Len(str) + PREALLOC - 1) \div PREALLOC
      piece(i) == SubSeq(str, (i - 1) * PREALLOC + 1, Least({i * PREALLOC, Len(str)}))
      after(i) == IF i = pieces THEN tail ELSE Len(h) + i
  IN  [j \in 1 .. Len(h) + pieces - 1 |->
         IF j = n THEN Linear(piece(1), after(1))
         ELSE IF j <= Len(h) THEN h[j]
         ELSE LET i == j - Len(h) + 1 IN Linear(piece(i), after(i))]

(* skit_trie_node_append_str: a node that leads by str to one with value.  *)
Tailed(h, n, str, value) ==
  IF str = << >> THEN SetValue(h, n, value)
  ELSE Strung(Append(h, SetValue(<<NodeCtor>>, 1, value)[1]), n, Len(h) + 1, str)

(* skit_trie_finish_tail on a new node: what comes after the character at  *)
(* which the key branches off.                                             *)
FinishTail(h, coords, key, value) ==
  Tailed(Append(h, NodeCtor), Len(h) + 1, SubSeq(key, coords.pos + 2, Len(key)), value)

BranchesOff(coords, key) == key[coords.pos + 1]

skit_trie_split_table_node_uncounted(h, coords, key, value) ==
  [FinishTail(h, coords, key, value) EXCEPT
     ![coords.node].nodes[BranchesOff(coords, key)] = Len(h) + 1]

skit_trie_split_table_node(h, coords, key, value) ==
  [FinishTail(h, coords, key, value) EXCEPT
     ![coords.node].nodes[BranchesOff(coords, key)] = Len(h) + 1,
     ![coords.node].nodes_len = @ + 1]

skit_trie_split_multi_to_table(h, coords, key, value) ==
  [FinishTail(h, coords, key, value) EXCEPT
     ![coords.node].nodes = [c \in Chars |-> IF c = BranchesOff(coords, key) THEN Len(h) + 1
                                             ELSE Child(h[coords.node], c)],
     ![coords.node].chars_len = 255,
     ![coords.node].nodes_len = @ + 1]

skit_trie_split_multi_node(h, coords, key, value) ==
  [FinishTail(h, coords, key, value) EXCEPT
     ![coords.node].nodes = Append(@, Len(h) + 1),
     ![coords.node].chars = Append(@, BranchesOff(coords, key)),
     ![coords.node].chars_len = @ + 1,
     ![coords.node].nodes_len = @ + 1]

(* No common prefix: the string's first character and the key's become two *)
(* branches.                                                               *)
SplitFirst(h, coords, key, value) ==
  LET node == h[coords.node]
      h0   == Strung(Append(h, NodeCtor), Len(h) + 1, node.nodes[1], Tail(node.chars))
  IN  [FinishTail(h0, coords, key, value) EXCEPT
         ![coords.node].nodes = <<Len(h) + 1, Len(h0) + 1>>,
         ![coords.node].chars = <<node.chars[1], BranchesOff(coords, key)>>,
         ![coords.node].chars_len = 2,
         ![coords.node].nodes_len = 2]

(* A common prefix: the node keeps it, and a new node takes the rest.      *)
Parted(h, coords) ==
  LET node == h[coords.node]
      into == coords.n_chars_into_node
  IN  Append([h EXCEPT ![coords.node].nodes = <<Len(h) + 1>>,
                       ![coords.node].chars = SubSeq(node.chars, 1, into),
                       ![coords.node].chars_len = into],
             Linear(SubSeq(node.chars, into + 1, node.chars_len), node.nodes[1]))

SplitWhole(h, coords, key, value) ==
  LET node == h[coords.node]
  IN  CASE coords.pos = Len(key) -> SetValue(h, coords.node, value)
        [] coords.pos < Len(key) /\ IsLinear(node) -> SplitFirst(h, coords, key, value)
        [] coords.pos < Len(key) /\ ~ IsLinear(node) /\ node.nodes_len < PREALLOC ->
             skit_trie_split_multi_node(h, coords, key, value)
        [] coords.pos < Len(key) /\ node.nodes_len = PREALLOC ->
             skit_trie_split_multi_to_table(h, coords, key, value)
        [] OTHER -> skit_trie_split_table_node(h, coords, key, value)

skit_trie_split_node(h, coords, key, value) ==
  IF coords.n_chars_into_node = 0 THEN SplitWhole(h, coords, key, value)
  ELSE SplitWhole(Parted(h, coords),
                  [coords EXCEPT !.node = Len(h) + 1, !.n_chars_into_node = 0], key, value)

(***************************************************************************)
(* The operations that change the trie.  Each refuses, with an exception   *)
(* and no change, to work while an iterator is open.                       *)
(***************************************************************************)
MayWrite == Alive /\ iterator_count = 0

CreateRoot(key, value, flags) ==
  /\ root = NULL
  /\ "c" \in flags
  /\ nodes' = Tailed(<<NodeCtor>>, 1, key, value)
  /\ root' = 1
  /\ length' = length + 1

OverwriteAlways(coords, key, value, flags) ==
  /\ root # NULL
  /\ ExactMatch(coords, key)
  /\ nodes' = [nodes EXCEPT ![coords.node].value = value]
  /\ UNCHANGED <<root, length>>

Overwrite(coords, key, value, flags) ==
  /\ root # NULL
  /\ ExactMatch(coords, key)
  /\ "o" \in flags
  /\ nodes' = [nodes EXCEPT ![coords.node].value = value]
  /\ UNCHANGED <<root, length>>

Create(coords, key, value, flags) ==
  /\ root # NULL
  /\ ~ ExactMatch(coords, key)
  /\ PrefixMatch(coords, key) \/ NoMatch(coords, key)
  /\ "c" \in flags
  /\ nodes' = skit_trie_split_node(nodes, coords, key, value)
  /\ length' = length + 1
  /\ UNCHANGED root

(* The exceptions after the buffer was resized: the key is there and "o"   *)
(* is not given, or it is not and "c" is not given.                        *)
Refuse(coords, key, flags) ==
  /\ IF ExactMatch(coords, key) THEN "o" \notin flags ELSE "c" \notin flags
  /\ UNCHANGED <<nodes, root, length>>

skit_trie_set(key, value, flags) ==
  /\ MayWrite
  /\ flags \cap {"c", "o"} # {}
  /\ longest' = IF Len(key) > longest THEN Len(key) ELSE longest
  /\ UNCHANGED <<iterator_count, opened, iters>>
  /\ LET coords == skit_trie_find(key, "i" \in flags)
     IN  \/ CreateRoot(key, value, flags)
         \/ Overwrite(coords, key, value, flags)
         \/ Create(coords, key, value, flags)
         \/ Refuse(coords, key, flags)

skit_trie_dtor ==
  /\ MayWrite
  /\ nodes' = << >>
  /\ root' = NULL
  /\ longest' = NoLoaf
  /\ UNCHANGED <<length, iterator_count, opened, iters>>

skit_trie_ctor ==
  /\ ~ Alive
  /\ length' = 0
  /\ root' = NULL
  /\ longest' = 0
  /\ iterator_count' = 0
  /\ UNCHANGED <<nodes, opened, iters>>

(***************************************************************************)
(* Iterators.  The frames are a stack of nodes with the next character to  *)
(* visit in each; current_frame is the index of the last one, here the     *)
(* number of frames, and prev_frame what it was before.  room is the       *)
(* number of frames that were allocated, key the part of key_buffer that   *)
(* was written, size its allocated length.                                 *)
(***************************************************************************)
NoIter == [frames |-> << >>, prev |-> 0, room |-> 0, key |-> << >>, size |-> 0]

Top(it) == it.frames[Len(it.frames)]

skit_trie_iter_push_unmarked(it, n, pos) ==
  [it EXCEPT !.frames = Append(@, [node |-> n, pos |-> pos, current_char |-> 0])]

skit_trie_iter_push(it, n, pos) ==
  [it EXCEPT !.frames = Append(@, [node |-> n, pos |-> pos, current_char |-> 0]),
             !.prev = Len(it.frames)]

skit_trie_iter_pop(it) == [it EXCEPT !.frames = Front(@), !.prev = Len(it.frames)]

(* To a child, with the string that leads there written to key_buffer.     *)
Descend(it, n, str) ==
  LET pos == Top(it).pos
  IN  skit_trie_iter_push([it EXCEPT !.key = SubSeq(@, 1, pos) \o str], n, pos + Len(str))

At(it, c) == [it EXCEPT !.frames[Len(it.frames)].current_char = c]

HasJustEntered(it) == it.prev < Len(it.frames)

NextChar(node, c) == Least({d \in Chars : d > c /\ Child(node, d) # NULL} \cup {MaxChar + 1})

Iterator ==
  [prev : Nat, room : Nat, key : Seq(Chars), size : Nat,
   frames : Seq([node : DOMAIN nodes, pos : Nat, current_char : 0 .. MaxChar + 1])]

(* What skit_trie_iter_next does before it calls itself again.             *)
Walk(it) ==
  LET node  == nodes[Top(it).node]
      c     == Top(it).current_char
      child == Child(node, c)
      later == At(it, NextChar(node, c))
  IN  IF c > MaxChar THEN skit_trie_iter_pop(it)
      ELSE IF IsLinear(node) THEN Descend(At(it, MaxChar + 1), node.nodes[1], node.chars)
      ELSE IF child = NULL THEN later
      ELSE Descend(later, child, <<c>>)

HasValueToYield(it) == it.prev < Len(it.frames) /\ nodes[Top(it).node].have_value

(* skit_trie_iter_next: on to the next node that is entered and has a      *)
(* value, or to no frame at all.                                           *)
Advanced(iter) ==
  LET run[it \in Iterator] ==
        IF it.frames = << >> THEN it
        ELSE IF HasValueToYield(it) THEN [it EXCEPT !.prev = Len(it.frames)]
        ELSE run[Walk(it)]
  IN  run[iter]

RoomShort(coords) == longest - coords.pos

(* The frames that an iterator allocates: one for every character that can  *)
(* come after the prefix, and one to start with.                           *)
Room(coords) == longest - coords.pos + 1

(* Where an iterator over a prefix starts: at the node where the lookup    *)
(* stopped, or below it if that was within its string.                     *)
Started(prefix) ==
  LET coords == skit_trie_find(prefix, FALSE)
      node   == nodes[coords.node]
      into   == coords.n_chars_into_node
      rest   == SubSeq(node.chars, into + 1, node.chars_len)
      new    == [NoIter EXCEPT !.size = longest]
      framed == [new EXCEPT !.room = Room(coords), !.key = SubSeq(prefix, 1, coords.pos)]
  IN  IF NoMatch(coords, prefix) THEN new
      ELSE IF into = 0 THEN skit_trie_iter_push(framed, coords.node, coords.pos)
      ELSE skit_trie_iter_push([framed EXCEPT !.key = @ \o rest],
                               node.nodes[1], coords.pos + Len(rest))

skit_trie_iter_new_uncounted(i, prefix) ==
  /\ Alive
  /\ i \notin opened
  /\ opened' = opened \cup {i}
  /\ iters' = [iters EXCEPT ![i] = Started(prefix)]
  /\ UNCHANGED <<nodes, root, length, longest, iterator_count>>

skit_trie_iter_new(i, prefix) ==
  /\ Alive
  /\ i \notin opened
  /\ opened' = opened \cup {i}
  /\ iters' = [iters EXCEPT ![i] = Started(prefix)]
  /\ iterator_count' = iterator_count + 1
  /\ UNCHANGED <<nodes, root, length, longest>>

skit_trie_iter_next(i) ==
  /\ i \in opened
  /\ iters' = [iters EXCEPT ![i] = Advanced(@)]
  /\ UNCHANGED <<nodes, root, length, longest, iterator_count, opened>>

skit_trie_iter_free(i) ==
  /\ i \in opened
  /\ opened' = opened \ {i}
  /\ iters' = [iters EXCEPT ![i] = NoIter]
  /\ iterator_count' = iterator_count - 1
  /\ UNCHANGED <<nodes, root, length, longest>>

Init ==
  /\ nodes = << >>
  /\ root = NULL
  /\ length = 0
  /\ longest = 0
  /\ iterator_count = 0
  /\ opened = {}
  /\ iters = [i \in Iters |-> NoIter]

(* The program stores no more than MaxLength keys.                         *)
Next ==
  \/ \E r \in Requests :
       skit_trie_set(r.key, r.value, r.flags) /\ length' <= MaxLength
  \/ \E i \in Iters, prefix \in Prefixed : skit_trie_iter_new(i, prefix)
  \/ \E i \in Iters : skit_trie_iter_next(i) \/ skit_trie_iter_free(i)
  \/ skit_trie_dtor
  \/ skit_trie_ctor

Spec == Init /\ [][Next]_vars

(***************************************************************************)
(* Properties                                                              *)
(***************************************************************************)
TypeOK ==
  /\ nodes \in Seq([have_value : BOOLEAN, value : Nat, nodes_len : 0 .. MaxChar + 1,
                    chars_len : 0 .. PREALLOC \cup {255}, chars : Seq(Chars),
                    nodes : {nodes[n].nodes : n \in DOMAIN nodes}])
  /\ \A n \in DOMAIN nodes :
       nodes[n].nodes \in IF nodes[n].chars_len = 255 THEN [Chars -> DOMAIN nodes \cup {NULL}]
                         ELSE Seq(DOMAIN nodes)
  /\ root \in {NULL, 1} /\ (root = 1 <=> nodes # << >>)
  /\ length \in Nat /\ longest \in Nat \cup {NoLoaf}
  /\ opened \subseteq Iters /\ iterator_count = Cardinality(opened)
  /\ iters \in [Iters -> Iterator]

(* The strings by which a node leads to others.                            *)
Links(node) ==
  IF node.nodes_len = 1 THEN {<<node.chars, node.nodes[1]>>}
  ELSE {<< <<c>>, Child(node, c)>> : c \in {d \in Chars : Child(node, d) # NULL}}

(* The keys and values below each node.                                    *)
Stored ==
  LET below[n \in DOMAIN nodes] ==
        (IF nodes[n].have_value THEN {<< << >>, nodes[n].value>>} ELSE {})
        \cup UNION {{<<link[1] \o kv[1], kv[2]>> : kv \in below[link[2]]} : link \in Links(nodes[n])}
  IN  IF root = NULL THEN {} ELSE below[root]

Contents ==
  LET stored == Stored
  IN  [k \in {kv[1] : kv \in stored} |-> (CHOOSE kv \in stored : kv[1] = k)[2]]

Folded(key) == [i \in DOMAIN key |-> Lower[key[i]]]

(* skit_trie_get returns the value of the key, NULL when it is not there,  *)
(* and with "i" the value of a key that differs in case only, if any does: *)
(* over linear nodes, branches and tables, and with the backtracking.      *)
GetFindsTheValue ==
  LET map == Contents
  IN  \A key \in {r.key : r \in Requests} :
        LET alike == {k \in DOMAIN map : Folded(k) = Folded(key)}
        IN  /\ skit_trie_get(key, {}) = IF key \in DOMAIN map THEN map[key] ELSE NULL
            /\ skit_trie_get(key, {"i"}) \in IF alike = {} THEN {NULL} ELSE {map[k] : k \in alike}

(* What the assertions of the splitting operations and the two different   *)
(* tests for a table node (by chars_len in lookups, by nodes_len in        *)
(* iteration and destruction) rely on; each node has one parent, as the    *)
(* destructor frees it once.  skit_trie_len counts the keys, and each key  *)
(* is stored once.                                                         *)
RadixShape ==
  /\ TypeOK
  /\ Alive => length = Cardinality(Stored) /\ length = Cardinality(DOMAIN Contents)
  /\ \A n \in DOMAIN nodes :
       LET node == nodes[n]
       IN  \/ IsLinear(node)
           \/ /\ node.nodes_len <= PREALLOC
              /\ node.nodes_len = node.chars_len
              /\ Len(node.nodes) = node.nodes_len
              /\ Cardinality(ToSet(node.chars)) = node.nodes_len
           \/ /\ node.nodes_len > PREALLOC
              /\ node.chars_len = 255
              /\ node.nodes_len = Cardinality({c \in Chars : node.nodes[c] # NULL})
  /\ \A n \in DOMAIN nodes :
       LET parents == {m \in DOMAIN nodes : \E link \in Links(nodes[m]) : link[2] = n}
       IN  Cardinality(parents) = IF n = root THEN 0 ELSE 1

(* skit_trie_iter_new allocates a frame for every character that can come  *)
(* after the prefix, and a buffer for the longest key: no iterator pushes  *)
(* or writes beyond them.                                                  *)
IteratorsFit ==
  \A i \in Iters : Len(iters[i].frames) <= iters[i].room /\ Len(iters[i].key) <= iters[i].size

(* What an iterator has yet to yield: the keys below the node it started   *)
(* at, after the one it stands at.                                         *)
Remaining(it) ==
  LET start == SubSeq(it.key, 1, it.frames[1].pos)
      key   == SubSeq(it.key, 1, Top(it).pos)
      below == {k \in DOMAIN Contents : IsPrefix(start, k)}
  IN  IF it.frames = << >> THEN {}
      ELSE IF it.prev < Len(it.frames) THEN below
      ELSE {k \in below : Before(key, k)}

Map == INSTANCE AbstractMap WITH
         Fold <- Lower,
         map  <- Contents,
         todo <- [i \in Iters |-> [open |-> i \in opened, keys |-> Remaining(iters[i])]]

(* No operation writes to the trie while an iterator holds pointers into    *)
(* its nodes: the count that skit_trie_set and skit_trie_dtor look at is 0  *)
(* only when no iterator is open.                                          *)
WritesWait == [][opened # {} => UNCHANGED <<nodes, root, length, longest>>]_vars

(* skit_trie_set does to the map what its flags allow and nothing else: it *)
(* replaces the value of the key that is meant, adds it, or changes        *)
(* nothing, however the lookup stopped and the nodes were split.           *)
SetObeysFlags ==
  [][LET old == Contents
         new == Contents'
     IN  \A r \in Requests :
           skit_trie_set(r.key, r.value, r.flags) => Map!Sets(old, new, r)]_vars

(* Every trie is a map that stands still while an iterator is open, and    *)
(* every iterator goes once over the keys of its prefix, in order, however *)
(* the keys share nodes and in whatever order they came.                   *)
ImplementsMap == Map!Spec
=============================================================================
