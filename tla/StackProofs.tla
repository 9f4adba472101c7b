---------------------------- MODULE StackProofs ----------------------------
(***************************************************************************)
(* The linked stacks and the free stack, for any finite set of nodes and   *)
(* any values: what the loops of StackList compute, the inductive          *)
(* invariants Shape and FreeShape, that the two specifications implement   *)
(* AbstractStacks and AbstractFreestack, and what a walk visits.           *)
(*                                                                         *)
(* A loop of StackList is a recursive function of the number of its turns, *)
(* so each lemma about one is an induction; the induction principle is     *)
(* about a set of numbers, which the provers can instantiate.              *)
(***************************************************************************)
EXTENDS Stack, SequenceTheorems, FiniteSetTheorems, WellFoundedInduction, TLAPS

(* A set of numbers has a least element, so a set that holds 0 and the     *)
(* successors of its elements holds every number.                          *)
LEMMA Least ==
  ASSUME NEW T, T \subseteq Nat, T # {}
  PROVE  \E x \in T : \A y \in T : x <= y
<1> DEFINE R == {ss \in Nat \X Nat : ss[1] < ss[2]}
<1>1. IsWellFoundedOn(R, Nat)
  BY NatLessThanWellFounded DEF OpToRel
<1>2. \E x \in T : \A y \in T : ~ (<<y, x>> \in R)
  <2> HIDE DEF R
  <2> QED
    BY <1>1, WFMin
<1>3. ASSUME NEW x \in T, NEW y \in T, ~ (<<y, x>> \in R)
      PROVE  x <= y
  <2>1. <<y, x>> \in Nat \X Nat
    OBVIOUS
  <2>2. ~ (<<y, x>>[1] < <<y, x>>[2])
    BY <1>3, <2>1
  <2> QED
    BY <2>2
<1> HIDE DEF R
<1> QED
  BY <1>2, <1>3

LEMMA Induction ==
  ASSUME NEW T, 0 \in T, \A n \in Nat : n \in T => n + 1 \in T
  PROVE  \A n \in Nat : n \in T
<1> SUFFICES ASSUME NEW m \in Nat, m \notin T
             PROVE  FALSE
  OBVIOUS
<1>1. PICK x \in Nat \ T : \A y \in Nat \ T : x <= y
  BY Least
<1> QED
  BY <1>1

Lesser(a, b) == IF a < b THEN a ELSE b

-----------------------------------------------------------------------------
(* The i-th node of a list; NULL follows the last one.                     *)
At(seq, i) == IF i \in 1 .. Len(seq) THEN seq[i] ELSE NULL

(* seq is the list of nodes that next links from front on.                 *)
IsChain(mem, front, seq) ==
  /\ seq \in Seq(Nodes)
  /\ \A i, j \in 1 .. Len(seq) : seq[i] = seq[j] => i = j
  /\ front = At(seq, 1)
  /\ \A i \in 1 .. Len(seq) : mem[seq[i]].next = At(seq, i + 1)

(* And it is what the struct says.                                         *)
IsStack(mem, stack, seq) ==
  /\ IsChain(mem, stack.front, seq)
  /\ stack = [front |-> At(seq, 1), back |-> At(seq, Len(seq)), length |-> Len(seq)]

Size == Cardinality(Nodes)

(* A list has no more nodes than there are, so that many turns of a loop   *)
(* reach its end.                                                          *)
LEMMA ChainFits ==
  ASSUME NEW seq \in Seq(Nodes), \A i, j \in 1 .. Len(seq) : seq[i] = seq[j] => i = j
  PROVE  Size \in Nat /\ Len(seq) <= Size
<1>1. IsFiniteSet(1 .. Len(seq)) /\ Cardinality(1 .. Len(seq)) = Len(seq)
  <2>1. Len(seq) \in Nat
    OBVIOUS
  <2>2. \A b \in Nat : IsFiniteSet(1 .. b) /\ Cardinality(1 .. b) = IF 1 > b THEN 0 ELSE b - 1 + 1
    BY FS_Interval
  <2> QED
    BY <2>1, <2>2
<1>2. Size \in Nat
  BY NodesAssumption, FS_CardinalityType DEF Size
<1>3. seq \in [1 .. Len(seq) -> Nodes]
  OBVIOUS
<1>4. SUFFICES ASSUME Size < Len(seq)
               PROVE  FALSE
  BY <1>2
<1>5. \E x, y \in 1 .. Len(seq) : x # y /\ seq[x] = seq[y]
  BY <1>1, <1>3, <1>4, NodesAssumption, FS_PigeonHole DEF Size
<1> QED
  BY <1>5

-----------------------------------------------------------------------------
(* stack_walk                                                              *)

(* The states of the loop of stack_walk, as a function of the turns taken. *)
LEMMA WalkLoop ==
  ASSUME NEW mem, NEW stack, NEW start_node, NEW end_node
  PROVE  \E loop :
           /\ loop[0] = [cur |-> stack.front, reached |-> start_node = NULL, visited |-> << >>]
           /\ \A n \in 1 .. Size : loop[n] = Walked(mem, loop[n - 1], start_node, end_node)
           /\ stack_walk(mem, stack, start_node, end_node) = loop[Size].visited
<1> DEFINE first == [cur |-> stack.front, reached |-> start_node = NULL, visited |-> << >>]
           Loop(f, k) == f = [n \in 0 .. k |-> IF n = 0 THEN first
                                                ELSE Walked(mem, f[n - 1], start_node, end_node)]
           T == {k \in Nat : \E f : Loop(f, k)}
           loop == CHOOSE f : Loop(f, Size)
<1>1. Size \in Nat
  BY NodesAssumption, FS_CardinalityType DEF Size
<1>2. 0 \in T
  <2>1. Loop([n \in 0 .. 0 |-> first], 0)
    OBVIOUS
  <2> QED
    BY <2>1
<1>3. ASSUME NEW k \in Nat, k \in T
      PROVE  k + 1 \in T
  <2>1. PICK f : Loop(f, k)
    BY <1>3
  <2> DEFINE g == [n \in 0 .. k + 1 |-> IF n = k + 1 THEN Walked(mem, f[k], start_node, end_node) ELSE f[n]]
  <2>2. Loop(g, k + 1)
    BY <2>1
  <2> HIDE DEF g
  <2> QED
    BY <2>2
<1>4. Size \in T
  <2> HIDE DEF T
  <2> QED
    BY <1>1, <1>2, <1>3, Induction
<1>5. Loop(loop, Size)
  BY <1>4, Zenon
<1>6. stack_walk(mem, stack, start_node, end_node) = loop[Size].visited
  BY Zenon DEF stack_walk, Size
<1> HIDE DEF loop
<1> QED
  BY <1>1, <1>5, <1>6

LEMMA SubSeqGrows ==
  ASSUME NEW S, NEW seq \in Seq(S), NEW m \in 1 .. Len(seq) + 1, NEW n \in 1 .. Len(seq)
  PROVE  /\ m <= n => SubSeq(seq, m, n) = Append(SubSeq(seq, m, n - 1), seq[n])
         /\ n < m => SubSeq(seq, m, n) = << >> /\ SubSeq(seq, m, n - 1) = << >>
<1>1. Len(seq) \in Nat /\ n \in Nat /\ m \in Nat
  OBVIOUS
<1>2. ASSUME m <= n
      PROVE  SubSeq(seq, m, n) = Append(SubSeq(seq, m, n - 1), seq[n])
  <2>1. m \in 1 .. Len(seq) /\ n \in m .. Len(seq)
    BY <1>1, <1>2
  <2>2. SubSeq(seq, m, n) = SubSeq(seq, m, n - 1) \o <<seq[n]>>
    BY <2>1, SubSeqRecursiveSecond
  <2>3. SubSeq(seq, m, n - 1) \in Seq(S)
    <3>1. \A i \in m .. n - 1 : seq[i] \in S
      BY <1>1
    <3> QED
      BY <3>1, <1>1, SubSeqProperties
  <2> QED
    BY <2>2, <2>3, AppendIsConcat
<1>3. ASSUME n < m
      PROVE  SubSeq(seq, m, n) = << >> /\ SubSeq(seq, m, n - 1) = << >>
  BY <1>1, <1>3, SubSeqEmpty
<1> QED
  BY <1>2, <1>3

(* The range of a walk: from seq[first], or from the beginning, to         *)
(* seq[last], or to the end.                                               *)
IsRange(seq, start_node, end_node, first, last) ==
  /\ first \in 1 .. Len(seq) + 1 /\ last \in 0 .. Len(seq)
  /\ IF start_node = NULL THEN first = 1
     ELSE \A i \in 1 .. Len(seq) : seq[i] = start_node <=> i = first
  /\ \A i \in 1 .. last - 1 : seq[i] # end_node
  /\ last = Len(seq) \/ (last > 0 /\ seq[last] = end_node)

(* What the walk has done after n turns.                                   *)
WalkedTo(seq, start_node, first, last, n) ==
  [ cur     |-> IF n < last THEN seq[n + 1] ELSE NULL,
    reached |-> start_node = NULL \/ first <= Lesser(n, last),
    visited |-> SubSeq(seq, first, Lesser(n, last)) ]

(* One turn of the loop takes what was done after n turns to n + 1.        *)
LEMMA WalkTurn ==
  ASSUME NEW mem, NEW front, NEW seq, IsChain(mem, front, seq),
         NEW start_node, NEW end_node, NEW first, NEW last,
         IsRange(seq, start_node, end_node, first, last), NEW n \in Nat
  PROVE  Walked(mem, WalkedTo(seq, start_node, first, last, n), start_node, end_node)
           = WalkedTo(seq, start_node, first, last, n + 1)
<1> DEFINE s == WalkedTo(seq, start_node, first, last, n)
<1>1. /\ seq \in Seq(Nodes) /\ Len(seq) \in Nat
      /\ first \in 1 .. Len(seq) + 1 /\ last \in 0 .. Len(seq)
  BY DEF IsChain, IsRange
<1>2. CASE n >= last
  <2>1. Lesser(n, last) = last /\ Lesser(n + 1, last) = last
    BY <1>1, <1>2 DEF Lesser
  <2>2. s.cur = NULL
    BY <1>1, <1>2 DEF WalkedTo
  <2>3. WalkedTo(seq, start_node, first, last, n + 1) = s
    <3>1. ~ (n < last) /\ ~ (n + 1 < last)
      BY <1>1, <1>2
    <3> QED
      BY <2>1, <3>1, Zenon DEF WalkedTo
  <2> QED
    BY <2>2, <2>3 DEF Walked
<1>3. CASE n < last
  <2>1. Lesser(n, last) = n /\ Lesser(n + 1, last) = n + 1 /\ n + 1 \in 1 .. Len(seq)
    BY <1>1, <1>3 DEF Lesser
  <2>2. /\ s.cur = seq[n + 1] /\ s.cur # NULL
        /\ s.reached = (start_node = NULL \/ first <= n)
        /\ s.visited = SubSeq(seq, first, n)
    BY <1>1, <1>3, <2>1, NullAssumption DEF WalkedTo
  <2>3. Reached(s, start_node) <=> start_node = NULL \/ first <= n + 1
    <3>1. start_node # NULL => (seq[n + 1] = start_node <=> n + 1 = first)
      BY <2>1 DEF IsRange
    <3>2. first <= n + 1 <=> first <= n \/ n + 1 = first
      BY <1>1
    <3>3. Reached(s, start_node) <=> (start_node = NULL \/ first <= n) \/ seq[n + 1] = start_node
      BY <2>2, Zenon DEF Reached
    <3> QED
      BY <3>1, <3>2, <3>3, Zenon
  <2>4. start_node = NULL => first = 1
    BY DEF IsRange
  <2>5. SubSeq(seq, first, n + 1) = IF Reached(s, start_node) THEN Append(s.visited, s.cur) ELSE s.visited
    <3>1. /\ first <= n + 1 => SubSeq(seq, first, n + 1) = Append(SubSeq(seq, first, n), seq[n + 1])
          /\ n + 1 < first => SubSeq(seq, first, n + 1) = << >> /\ SubSeq(seq, first, n) = << >>
      <4>1. (n + 1) - 1 = n
        OBVIOUS
      <4> QED
        BY <1>1, <2>1, <4>1, SubSeqGrows
    <3> HIDE DEF s
    <3> QED
      BY <1>1, <2>2, <2>3, <2>4, <3>1
  <2>6. (IF s.cur = end_node THEN NULL ELSE mem[s.cur].next) = IF n + 1 < last THEN seq[(n + 1) + 1] ELSE NULL
    <3>1. mem[seq[n + 1]].next = At(seq, (n + 1) + 1)
      BY <2>1 DEF IsChain
    <3>2. n + 1 < last => seq[n + 1] # end_node
      BY <1>1, <2>1 DEF IsRange
    <3>3. n + 1 = last => last = Len(seq) \/ seq[n + 1] = end_node
      BY DEF IsRange
    <3> HIDE DEF s
    <3> QED
      BY <1>1, <1>3, <2>1, <2>2, <3>1, <3>2, <3>3 DEF At
  <2>7. Reached(s, start_node) = (start_node = NULL \/ first <= Lesser(n + 1, last))
    BY <2>1, <2>3, Zenon DEF Reached
  <2>8. Walked(mem, s, start_node, end_node)
          = [ cur     |-> IF s.cur = end_node THEN NULL ELSE mem[s.cur].next,
              reached |-> Reached(s, start_node),
              visited |-> IF Reached(s, start_node) THEN Append(s.visited, s.cur) ELSE s.visited ]
    <3> HIDE DEF s
    <3> QED
      BY <2>2 DEF Walked
  <2> QED
    BY <2>1, <2>5, <2>6, <2>7, <2>8, Zenon DEF WalkedTo
<1> QED
  BY <1>1, <1>2, <1>3

(* A walk visits its range, whatever is in memory besides the list.        *)
LEMMA WalkVisits ==
  ASSUME NEW mem, NEW stack, NEW seq, IsChain(mem, stack.front, seq),
         NEW start_node, NEW end_node, NEW first, NEW last,
         IsRange(seq, start_node, end_node, first, last)
  PROVE  stack_walk(mem, stack, start_node, end_node) = SubSeq(seq, first, last)
<1>1. PICK loop :
        /\ loop[0] = [cur |-> stack.front, reached |-> start_node = NULL, visited |-> << >>]
        /\ \A n \in 1 .. Size : loop[n] = Walked(mem, loop[n - 1], start_node, end_node)
        /\ stack_walk(mem, stack, start_node, end_node) = loop[Size].visited
  BY WalkLoop
<1> DEFINE T == {n \in Nat : n <= Size => loop[n] = WalkedTo(seq, start_node, first, last, n)}
<1>2. /\ Size \in Nat /\ Len(seq) <= Size /\ seq \in Seq(Nodes) /\ Len(seq) \in Nat
      /\ first \in 1 .. Len(seq) + 1 /\ last \in 0 .. Len(seq)
  BY ChainFits DEF IsChain, IsRange
<1>3. 0 \in T
  <2>1. Lesser(0, last) = 0
    BY <1>2 DEF Lesser
  <2>2. SubSeq(seq, first, 0) = << >>
    BY <1>2, SubSeqEmpty
  <2>3. (IF 0 < last THEN seq[0 + 1] ELSE NULL) = stack.front
    BY <1>2 DEF IsChain, IsRange, At
  <2>4. (start_node = NULL \/ first <= 0) = (start_node = NULL)
    BY <1>2
  <2>5. WalkedTo(seq, start_node, first, last, 0) = loop[0]
    BY <1>1, <2>1, <2>2, <2>3, <2>4 DEF WalkedTo
  <2> QED
    BY <2>5
<1>4. ASSUME NEW n \in Nat, n \in T
      PROVE  n + 1 \in T
  <2> SUFFICES ASSUME n + 1 <= Size
               PROVE  loop[n + 1] = WalkedTo(seq, start_node, first, last, n + 1)
    OBVIOUS
  <2>1. loop[n] = WalkedTo(seq, start_node, first, last, n)
    BY <1>2, <1>4
  <2>2. loop[n + 1] = Walked(mem, loop[(n + 1) - 1], start_node, end_node) /\ (n + 1) - 1 = n
    BY <1>1, <1>2
  <2> QED
    BY <2>1, <2>2, WalkTurn
<1>5. Size \in T
  <2> HIDE DEF T
  <2> QED
    BY <1>2, <1>3, <1>4, Induction
<1>6. loop[Size] = WalkedTo(seq, start_node, first, last, Size) /\ Lesser(Size, last) = last
  BY <1>2, <1>5 DEF Lesser
<1>7. WalkedTo(seq, start_node, first, last, Size).visited = SubSeq(seq, first, Lesser(Size, last))
  BY Zenon DEF WalkedTo
<1> HIDE DEF T
<1> QED
  BY <1>1, <1>6, <1>7

(* The nodes of a stack are those of its list.                             *)
LEMMA AllVisited ==
  ASSUME NEW mem, NEW stack, NEW seq, IsChain(mem, stack.front, seq)
  PROVE  NodesOf(mem, stack) = seq
<1>1. seq \in Seq(Nodes) /\ Len(seq) \in Nat
  BY DEF IsChain
<1>2. PICK first, last : first = 1 /\ last = Len(seq) /\ IsRange(seq, NULL, NULL, first, last)
  BY <1>1, NullAssumption DEF IsRange
<1>3. stack_walk(mem, stack, NULL, NULL) = SubSeq(seq, first, last)
  <2>1. IsRange(seq, NULL, NULL, first, last)
    BY <1>2
  <2> QED
    BY <2>1, WalkVisits
<1>4. SubSeq(seq, 1, Len(seq)) = seq
  BY <1>1, SubSeqFull
<1> QED
  BY <1>2, <1>3, <1>4 DEF NodesOf

-----------------------------------------------------------------------------
(* What the operations do to a list, and to nothing else in memory.        *)

Heaps(V) == [Nodes -> [val : V, next : Nodes \cup {NULL}]]

(* h is mem but for the next fields of the nodes in S.                     *)
Keeps(mem, h, S) ==
  \A x \in Nodes : h[x].val = mem[x].val /\ (x \notin S => h[x] = mem[x])

LEMMA ChainStays ==
  ASSUME NEW mem, NEW h, NEW front, NEW seq, IsChain(mem, front, seq),
         \A i \in 1 .. Len(seq) : h[seq[i]] = mem[seq[i]]
  PROVE  IsChain(h, front, seq)
BY DEF IsChain

Link(mem, x, y) == [mem EXCEPT ![x].next = y]
IsLinked(V, mem, x, y, h) == h \in Heaps(V) /\ h[x].next = y /\ Keeps(mem, h, {x})

LEMMA Linked ==
  ASSUME NEW V, NEW mem \in Heaps(V), NEW x \in Nodes, NEW y, y \in Nodes \cup {NULL}
  PROVE  IsLinked(V, mem, x, y, Link(mem, x, y))
<1>1. mem[x] \in [val : V, next : Nodes \cup {NULL}] /\ DOMAIN mem = Nodes
  BY DEF Heaps
<1> DEFINE cell == [mem[x] EXCEPT !.next = y]
<1>2. cell \in [val : V, next : Nodes \cup {NULL}] /\ cell.next = y /\ cell.val = mem[x].val
  BY <1>1
<1>3. Link(mem, x, y) = [mem EXCEPT ![x] = cell]
  BY DEF Link
<1> HIDE DEF cell
<1> QED
  BY <1>1, <1>2, <1>3 DEF Heaps, Keeps, IsLinked

LEMMA NewFront ==
  ASSUME NEW seq \in Seq(Nodes), NEW node \in Nodes
  PROVE  /\ <<node>> \o seq \in Seq(Nodes)
         /\ Len(<<node>> \o seq) = Len(seq) + 1
         /\ (<<node>> \o seq)[1] = node
         /\ \A i \in 1 .. Len(seq) : (<<node>> \o seq)[i + 1] = seq[i]
OBVIOUS

LEMMA Pushed ==
  ASSUME NEW V, NEW mem \in Heaps(V), NEW stack, NEW seq, IsStack(mem, stack, seq),
         NEW node \in Nodes, \A i \in 1 .. Len(seq) : seq[i] # node,
         NEW S, node \in S, NEW r, r = stack_push(mem, stack, node)
  PROVE  /\ r.heap \in Heaps(V) /\ Keeps(mem, r.heap, S)
         /\ IsStack(r.heap, r.stack, <<node>> \o seq)
<1> DEFINE new == <<node>> \o seq
           L == Len(seq)
<1>1. seq \in Seq(Nodes) /\ L \in Nat
  BY DEF IsStack, IsChain
<1>2. /\ new \in Seq(Nodes) /\ Len(new) = L + 1 /\ new[1] = node
      /\ \A i \in 1 .. L : new[i + 1] = seq[i]
  BY <1>1, NewFront
<1>3. /\ r.heap = Link(mem, node, stack.front)
      /\ r.stack = [front |-> node, back |-> IF stack.front = NULL THEN node ELSE stack.back,
                    length |-> stack.length + 1]
  BY Zenon DEF stack_push, Link
<1>4. /\ stack.front = At(seq, 1) /\ stack.back = At(seq, L) /\ stack.length = L
      /\ stack.front \in Nodes \cup {NULL}
  BY <1>1 DEF IsStack, At
<1>5. r.heap \in Heaps(V) /\ r.heap[node].next = stack.front /\ Keeps(mem, r.heap, {node})
  <2>1. stack.front \in Nodes \cup {NULL} /\ r.heap = Link(mem, node, stack.front)
    BY <1>3, <1>4
  <2>2. IsLinked(V, mem, node, stack.front, Link(mem, node, stack.front))
    BY <2>1, Linked
  <2> QED
    BY <2>1, <2>2 DEF IsLinked
<1>6. r.stack = [front |-> At(new, 1), back |-> At(new, Len(new)), length |-> Len(new)]
  <2>1. At(new, 1) = node
    BY <1>1, <1>2 DEF At
  <2>2. At(new, Len(new)) = IF stack.front = NULL THEN node ELSE stack.back
    <3>1. CASE L = 0
      BY <1>1, <1>2, <1>4, <3>1 DEF At
    <3>2. CASE L > 0
      <4>1. new[L + 1] = seq[L] /\ seq[1] # NULL
        BY <1>1, <1>2, <3>2, NullAssumption
      <4> HIDE DEF new
      <4> QED
        BY <1>1, <1>2, <1>4, <3>2, <4>1 DEF At
    <3> QED
      BY <1>1, <3>1, <3>2
  <2> QED
    BY <1>2, <1>3, <1>4, <2>1, <2>2
<1>7. IsChain(r.heap, r.stack.front, new)
  <2>1. \A i, j \in 1 .. Len(new) : new[i] = new[j] => i = j
    <3> TAKE i, j \in 1 .. Len(new)
    <3>1. \A k \in 2 .. L + 1 : k - 1 \in 1 .. L /\ new[k] = seq[k - 1]
      BY <1>1, <1>2
    <3>2. \A k, m \in 1 .. L : seq[k] = seq[m] => k = m
      BY DEF IsStack, IsChain
    <3>3. (i = 1 \/ i \in 2 .. L + 1) /\ (j = 1 \/ j \in 2 .. L + 1)
      BY <1>1, <1>2
    <3>4. new[1] = node /\ \A k \in 2 .. L + 1 : new[k] # node
      BY <1>2, <3>1
    <3>5. \A k, m \in 2 .. L + 1 : new[k] = new[m] => k = m
      <4> TAKE k, m \in 2 .. L + 1
      <4> HAVE new[k] = new[m]
      <4>1. k - 1 = m - 1
        <5>1. seq[k - 1] = seq[m - 1] /\ k - 1 \in 1 .. L /\ m - 1 \in 1 .. L
          BY <3>1
        <5> QED
          BY <5>1, <3>2
      <4> QED
        BY <4>1, <1>1
    <3> HIDE DEF new
    <3> QED
      BY <3>3, <3>4, <3>5
  <2>2. \A i \in 1 .. Len(new) : r.heap[new[i]].next = At(new, i + 1)
    <3> TAKE i \in 1 .. Len(new)
    <3>1. CASE i = 1
      <4>1. At(new, 2) = At(seq, 1)
        <5>1. L > 0 => new[1 + 1] = seq[1]
          BY <1>1, <1>2
        <5> HIDE DEF new
        <5> QED
          BY <1>1, <1>2, <5>1 DEF At
      <4> QED
        BY <1>2, <1>4, <1>5, <3>1, <4>1
    <3>2. CASE i # 1
      <4> DEFINE j == i - 1
      <4>1. j \in 1 .. L /\ i = j + 1
        BY <1>1, <1>2, <3>2
      <4>2. new[i] = seq[j] /\ seq[j] # node /\ seq[j] \in Nodes
        BY <1>1, <1>2, <4>1
      <4>3. r.heap[seq[j]] = mem[seq[j]]
        BY <1>5, <4>2 DEF Keeps
      <4>4. mem[seq[j]].next = At(seq, j + 1)
        BY <4>1 DEF IsStack, IsChain
      <4>5. At(new, i + 1) = At(seq, j + 1)
        <5>1. j + 1 \in 1 .. L => new[(j + 1) + 1] = seq[j + 1]
          BY <1>1, <1>2, <4>1
        <5>2. (i + 1 \in 1 .. L + 1 <=> j + 1 \in 1 .. L) /\ i + 1 = (j + 1) + 1
          BY <1>1, <4>1
        <5> HIDE DEF new, j
        <5> QED
          BY <1>2, <5>1, <5>2 DEF At
      <4> QED
        BY <4>2, <4>3, <4>4, <4>5
    <3> QED
      BY <3>1, <3>2
  <2>3. r.stack.front = At(new, 1)
    BY <1>6
  <2> QED
    BY <1>2, <2>1, <2>2, <2>3 DEF IsChain
<1>8. Keeps(mem, r.heap, S)
  BY <1>5 DEF Keeps
<1> QED
  BY <1>5, <1>6, <1>7, <1>8 DEF IsStack

LEMMA KeepsBoth ==
  ASSUME NEW a, NEW b, NEW c, NEW S, Keeps(a, b, S), Keeps(b, c, S)
  PROVE  Keeps(a, c, S)
BY DEF Keeps

LEMMA Appended ==
  ASSUME NEW V, NEW mem \in Heaps(V), NEW stack, NEW seq, IsStack(mem, stack, seq),
         NEW node \in Nodes, \A i \in 1 .. Len(seq) : seq[i] # node,
         NEW S, node \in S, \A i \in 1 .. Len(seq) : seq[i] \in S,
         NEW r, r = stack_append(mem, stack, node)
  PROVE  /\ r.heap \in Heaps(V) /\ Keeps(mem, r.heap, S)
         /\ IsStack(r.heap, r.stack, Append(seq, node))
<1> DEFINE new == Append(seq, node)
           L == Len(seq)
           ended == Ended(mem, node)
<1>1. seq \in Seq(Nodes) /\ L \in Nat
  BY DEF IsStack, IsChain
<1>2. /\ new \in Seq(Nodes) /\ Len(new) = L + 1 /\ new[L + 1] = node
      /\ \A i \in 1 .. L : new[i] = seq[i]
  BY <1>1, AppendProperties
<1>3. /\ stack.front = At(seq, 1) /\ stack.back = At(seq, L) /\ stack.length = L
      /\ L > 0 => At(seq, L) = seq[L] /\ seq[L] \in Nodes /\ seq[L] # NULL /\ At(seq, 1) = seq[1]
      /\ L = 0 => At(seq, L) = NULL
      /\ stack = [front |-> At(seq, 1), back |-> At(seq, L), length |-> L]
  BY <1>1, NullAssumption DEF IsStack, At
<1>4. ended \in Heaps(V) /\ ended[node].next = NULL /\ Keeps(mem, ended, {node})
  <2>1. ended = Link(mem, node, NULL)
    BY Zenon DEF Ended, Link
  <2>2. IsLinked(V, mem, node, NULL, Link(mem, node, NULL))
    BY Linked
  <2> QED
    BY <2>1, <2>2 DEF IsLinked
<1> HIDE DEF ended
<1>5. IF L = 0
      THEN /\ r.heap = ended
           /\ r.stack = [front |-> node, back |-> node, length |-> L + 1]
      ELSE /\ r.heap = Link(ended, seq[L], node)
           /\ r.stack = [front |-> seq[1], back |-> node, length |-> L + 1]
  <2>1. CASE L = 0
    <3>1. r = [heap |-> ended, stack |-> [front |-> node, back |-> node, length |-> stack.length + 1]]
      BY <1>3, <2>1 DEF stack_append, ended
    <3> QED
      BY <1>3, <2>1, <3>1
  <2>2. CASE L # 0
    <3>1. stack.back = seq[L] /\ stack.back # NULL
      BY <1>1, <1>3, <2>2
    <3>2. r = [heap  |-> Link(ended, seq[L], node),
               stack |-> [front |-> stack.front, back |-> node, length |-> stack.length + 1]]
      BY <3>1, Zenon DEF stack_append, Link, ended
    <3>3. stack.front = seq[1] /\ stack.length = L
      BY <1>1, <1>3, <2>2
    <3> QED
      BY <2>2, <3>2, <3>3
  <2> QED
    BY <2>1, <2>2
<1>6. /\ r.heap \in Heaps(V) /\ r.heap[node].next = NULL
      /\ L > 0 => r.heap[seq[L]].next = node
      /\ \A i \in 1 .. L - 1 : r.heap[seq[i]] = mem[seq[i]]
      /\ Keeps(mem, r.heap, S)
  <2>1. CASE L = 0
    BY <1>1, <1>4, <1>5, <2>1 DEF Keeps
  <2>2. CASE L > 0
    <3>1. IsLinked(V, ended, seq[L], node, r.heap)
      <4>1. seq[L] \in Nodes /\ node \in Nodes \cup {NULL}
        BY <1>3, <2>2
      <4>2. r.heap = Link(ended, seq[L], node)
        BY <1>1, <1>5, <2>2
      <4> QED
        BY <1>4, <4>1, <4>2, Linked
    <3>2. /\ r.heap \in Heaps(V) /\ r.heap[seq[L]].next = node
          /\ Keeps(ended, r.heap, {seq[L]})
      BY <3>1 DEF IsLinked
    <3>3. \A i \in 1 .. L - 1 : seq[i] \in Nodes /\ seq[i] # seq[L] /\ seq[i] # node
      BY <1>1, <2>2 DEF IsStack, IsChain
    <3>4. seq[L] # node /\ seq[L] \in S
      BY <1>1, <2>2
    <3> QED
      BY <1>1, <1>4, <2>2, <3>2, <3>3, <3>4 DEF Keeps
  <2> QED
    BY <1>1, <2>1, <2>2
<1>7. r.stack = [front |-> At(new, 1), back |-> At(new, Len(new)), length |-> Len(new)]
  <2>1. At(new, Len(new)) = node
    BY <1>1, <1>2 DEF At
  <2>2. At(new, 1) = IF L = 0 THEN node ELSE seq[1]
    <3> HIDE DEF new
    <3> QED
      BY <1>1, <1>2 DEF At
  <2> HIDE DEF new
  <2> QED
    BY <1>2, <1>5, <2>1, <2>2
<1>8. IsChain(r.heap, r.stack.front, new)
  <2>1. \A i, j \in 1 .. Len(new) : new[i] = new[j] => i = j
    <3>1. \A k, m \in 1 .. L : seq[k] = seq[m] => k = m
      BY DEF IsStack, IsChain
    <3>2. \A k \in 1 .. L + 1 : k = L + 1 \/ k \in 1 .. L
      BY <1>1
    <3> HIDE DEF new
    <3> QED
      BY <1>1, <1>2, <3>1, <3>2
  <2>2. \A i \in 1 .. Len(new) : r.heap[new[i]].next = At(new, i + 1)
    <3> TAKE i \in 1 .. Len(new)
    <3>1. CASE i = L + 1
      BY <1>1, <1>2, <1>6, <3>1 DEF At
    <3>2. CASE i = L /\ L > 0
      BY <1>1, <1>2, <1>6, <3>2 DEF At
    <3>3. CASE i < L
      <4>1. i \in 1 .. L - 1 /\ i \in 1 .. L /\ i + 1 \in 1 .. L
        BY <1>1, <1>2, <3>3
      <4>2. mem[seq[i]].next = At(seq, i + 1) /\ At(seq, i + 1) = seq[i + 1]
        BY <4>1 DEF IsStack, IsChain, At
      <4>3. At(new, i + 1) = seq[i + 1]
        <5> HIDE DEF new
        <5> QED
          BY <1>1, <1>2, <4>1 DEF At
      <4> QED
        BY <1>2, <1>6, <4>1, <4>2, <4>3
    <3> QED
      BY <1>1, <1>2, <3>1, <3>2, <3>3
  <2>3. r.stack.front = At(new, 1)
    BY <1>7
  <2> QED
    BY <1>2, <2>1, <2>2, <2>3 DEF IsChain
<1> QED
  BY <1>6, <1>7, <1>8 DEF IsStack

LEMMA Popped ==
  ASSUME NEW V, NEW mem \in Heaps(V), NEW stack, NEW seq, IsStack(mem, stack, seq), seq # << >>,
         NEW S, seq[1] \in S, NEW r, r = stack_pop(mem, stack)
  PROVE  /\ r.heap \in Heaps(V) /\ Keeps(mem, r.heap, S)
         /\ IsStack(r.heap, r.stack, Tail(seq))
<1> DEFINE new == Tail(seq)
           L == Len(seq)
<1>1. seq \in Seq(Nodes) /\ L \in Nat /\ L > 0 /\ seq[1] \in Nodes
  BY DEF IsStack, IsChain
<1>2. /\ new \in Seq(Nodes) /\ Len(new) = L - 1
      /\ \A i \in 1 .. L - 1 : new[i] = seq[i + 1]
  BY <1>1, HeadTailProperties
<1>3. /\ stack.front = seq[1] /\ stack.back = seq[L] /\ stack.length = L
      /\ mem[seq[1]].next = At(seq, 2) /\ seq[L] # NULL
      /\ \A i, j \in 1 .. L : seq[i] = seq[j] => i = j
  <2>1. 1 \in 1 .. L /\ L \in 1 .. L /\ 1 + 1 = 2
    BY <1>1
  <2> QED
    BY <1>1, <2>1, NullAssumption DEF IsStack, IsChain, At
<1>4. /\ r.heap = Link(mem, seq[1], NULL)
      /\ r.stack = [front |-> At(seq, 2), back |-> IF At(seq, 2) = NULL THEN NULL ELSE seq[L], length |-> L - 1]
  BY <1>3, Zenon DEF stack_pop, Link
<1>5. r.heap \in Heaps(V) /\ Keeps(mem, r.heap, {seq[1]})
  <2>1. IsLinked(V, mem, seq[1], NULL, Link(mem, seq[1], NULL))
    BY <1>1, Linked
  <2> QED
    BY <1>4, <2>1 DEF IsLinked
<1>6. \A i \in 1 .. L : At(new, i) = At(seq, i + 1)
  <2> TAKE i \in 1 .. L
  <2>1. i + 1 \in 1 .. L <=> i \in 1 .. L - 1
    BY <1>1
  <2> HIDE DEF new
  <2> QED
    BY <1>2, <2>1 DEF At
<1>7. r.stack = [front |-> At(new, 1), back |-> At(new, Len(new)), length |-> Len(new)]
  <2>1. At(new, 1) = At(seq, 2)
    BY <1>1, <1>6
  <2>2. At(new, Len(new)) = IF At(seq, 2) = NULL THEN NULL ELSE seq[L]
    <3>1. At(seq, 2) = NULL <=> L = 1
      <4>1. CASE L = 1
        BY <4>1 DEF At
      <4>2. CASE L > 1
        <5>1. 2 \in 1 .. L /\ seq[2] \in Nodes
          BY <1>1, <4>2
        <5> QED
          BY <4>2, <5>1, NullAssumption DEF At
      <4>3. L = 1 \/ L > 1
        <5>1. \A n \in Nat : n > 0 => n = 1 \/ n > 1
          OBVIOUS
        <5> QED
          BY <1>1, <5>1
      <4> HIDE DEF L
      <4> QED
        BY <4>1, <4>2, <4>3
    <3>2. L > 1 => new[L - 1] = seq[L] /\ L - 1 \in 1 .. L - 1
      BY <1>1, <1>2
    <3> HIDE DEF new
    <3> QED
      BY <1>1, <1>2, <3>1, <3>2 DEF At
  <2> QED
    BY <1>2, <1>4, <2>1, <2>2
<1>8. IsChain(r.heap, r.stack.front, new)
  <2>1. \A i, j \in 1 .. Len(new) : new[i] = new[j] => i = j
    <3> TAKE i, j \in 1 .. Len(new)
    <3>1. i + 1 \in 1 .. L /\ j + 1 \in 1 .. L /\ new[i] = seq[i + 1] /\ new[j] = seq[j + 1]
      BY <1>1, <1>2
    <3>2. seq[i + 1] = seq[j + 1] => i + 1 = j + 1
      BY <1>3, <3>1
    <3> QED
      BY <1>1, <1>2, <3>1, <3>2
  <2>2. \A i \in 1 .. Len(new) : r.heap[new[i]].next = At(new, i + 1)
    <3> TAKE i \in 1 .. Len(new)
    <3>1. i + 1 \in 1 .. L /\ i \in 1 .. L /\ i + 1 # 1 /\ new[i] = seq[i + 1] /\ 1 \in 1 .. L
      BY <1>1, <1>2
    <3>2. seq[i + 1] # seq[1] /\ seq[i + 1] \in Nodes
      BY <1>1, <1>3, <3>1
    <3>3. r.heap[seq[i + 1]] = mem[seq[i + 1]]
      BY <1>5, <3>2 DEF Keeps
    <3>4. mem[seq[i + 1]].next = At(seq, (i + 1) + 1)
      BY <3>1 DEF IsStack, IsChain
    <3> QED
      BY <1>6, <3>1, <3>3, <3>4
  <2>3. r.stack.front = At(new, 1)
    BY <1>7
  <2> QED
    BY <1>2, <2>1, <2>2, <2>3 DEF IsChain
<1>9. Keeps(mem, r.heap, S)
  BY <1>5 DEF Keeps
<1> QED
  BY <1>5, <1>7, <1>8, <1>9 DEF IsStack

-----------------------------------------------------------------------------
(* stack_reverse                                                           *)

(* The states of the loop of stack_reverse.                                *)
LEMMA TurnLoop ==
  ASSUME NEW mem, NEW stack
  PROVE  \E turn :
           /\ turn[0] = [heap |-> mem, front |-> stack.front]
           /\ \A n \in 1 .. Size : turn[n] = Turned(turn[n - 1], stack.front)
           /\ ReverseLoop(mem, stack) = turn[Size]
<1> DEFINE first == [heap |-> mem, front |-> stack.front]
           Loop(f, k) == f = [n \in 0 .. k |-> IF n = 0 THEN first ELSE Turned(f[n - 1], stack.front)]
           T == {k \in Nat : \E f : Loop(f, k)}
           turn == CHOOSE f : Loop(f, Size)
<1>1. Size \in Nat
  BY NodesAssumption, FS_CardinalityType DEF Size
<1>2. 0 \in T
  <2>1. Loop([n \in 0 .. 0 |-> first], 0)
    OBVIOUS
  <2> QED
    BY <2>1
<1>3. ASSUME NEW k \in Nat, k \in T
      PROVE  k + 1 \in T
  <2>1. PICK f : Loop(f, k)
    BY <1>3
  <2> DEFINE g == [n \in 0 .. k + 1 |-> IF n = k + 1 THEN Turned(f[k], stack.front) ELSE f[n]]
  <2>2. Loop(g, k + 1)
    BY <2>1
  <2> HIDE DEF g
  <2> QED
    BY <2>2
<1>4. Size \in T
  <2> HIDE DEF T
  <2> QED
    BY <1>1, <1>2, <1>3, Induction
<1>5. Loop(turn, Size)
  BY <1>4, Zenon
<1>6. ReverseLoop(mem, stack) = turn[Size]
  BY Zenon DEF ReverseLoop, Size
<1> HIDE DEF turn
<1> QED
  BY <1>1, <1>5, <1>6

(* After k turns the first k + 1 nodes are reversed, the one that was the  *)
(* front is the last of these, and the rest follows it.                    *)
TurnedTo(V, mem, seq, S, k, s) ==
  /\ s.front = seq[k + 1]
  /\ s.heap \in Heaps(V) /\ Keeps(mem, s.heap, S)
  /\ s.heap[seq[1]].next = At(seq, k + 2)
  /\ \A i \in 2 .. k + 1 : s.heap[seq[i]].next = seq[i - 1]
  /\ \A i \in k + 2 .. Len(seq) : s.heap[seq[i]].next = At(seq, i + 1)

(* A turn moves one more node to the front.                                *)
LEMMA OneTurn ==
  ASSUME NEW V, NEW mem, NEW seq \in Seq(Nodes), seq # << >>,
         \A i, j \in 1 .. Len(seq) : seq[i] = seq[j] => i = j,
         NEW S, \A i \in 1 .. Len(seq) : seq[i] \in S,
         NEW k \in 0 .. Len(seq) - 1, NEW s, TurnedTo(V, mem, seq, S, k, s)
  PROVE  IF k < Len(seq) - 1 THEN TurnedTo(V, mem, seq, S, k + 1, Turned(s, seq[1]))
         ELSE Turned(s, seq[1]) = s
<1> DEFINE L == Len(seq)
           r == Turned(s, seq[1])
<1>1. L \in Nat /\ L >= 1 /\ k \in Nat /\ k <= L - 1 /\ \A i \in 1 .. L : seq[i] \in Nodes /\ seq[i] # NULL
  BY NullAssumption
<1>2. ASSUME k = L - 1
      PROVE  r = s
  <2>1. At(seq, k + 2) = NULL
    BY <1>1, <1>2 DEF At
  <2> QED
    BY <2>1 DEF Turned, TurnedTo
<1>3. ASSUME k < L - 1
      PROVE  TurnedTo(V, mem, seq, S, k + 1, r)
  <2> DEFINE tmp == seq[k + 2]
             cut == Link(s.heap, seq[1], s.heap[tmp].next)
             turned == Link(cut, tmp, s.front)
  <2>1. /\ 1 \in 1 .. L /\ k + 1 \in 1 .. L /\ k + 2 \in 1 .. L /\ k + 2 # 1
        /\ k + 2 \in k + 2 .. L /\ (k + 2) + 1 = k + 3
    BY <1>1, <1>3
  <2>2. /\ s.heap[seq[1]].next = tmp /\ tmp # NULL /\ tmp \in Nodes /\ seq[1] \in Nodes /\ tmp # seq[1]
        /\ s.front = seq[k + 1] /\ s.front \in Nodes
        /\ s.heap[tmp].next = At(seq, k + 3) /\ At(seq, k + 3) \in Nodes \cup {NULL}
        /\ tmp \in S /\ seq[1] \in S /\ s.heap \in Heaps(V) /\ Keeps(mem, s.heap, S)
    BY <1>1, <2>1 DEF TurnedTo, At
  <2>3. r = [heap |-> turned, front |-> tmp]
    BY <2>2, Zenon DEF Turned, Link
  <2>4. cut \in Heaps(V) /\ cut[seq[1]].next = At(seq, k + 3) /\ Keeps(s.heap, cut, {seq[1]})
    <3>1. IsLinked(V, s.heap, seq[1], At(seq, k + 3), Link(s.heap, seq[1], At(seq, k + 3)))
      BY <2>2, Linked
    <3> QED
      BY <2>2, <3>1 DEF IsLinked
  <2> HIDE DEF cut
  <2>5. turned \in Heaps(V) /\ turned[tmp].next = seq[k + 1] /\ Keeps(cut, turned, {tmp})
    <3>1. s.front \in Nodes \cup {NULL}
      BY <2>2
    <3>2. IsLinked(V, cut, tmp, s.front, Link(cut, tmp, s.front))
      BY <2>2, <2>4, <3>1, Linked
    <3> QED
      BY <2>2, <3>2 DEF IsLinked
  <2> HIDE DEF turned
  <2>6. \A x \in Nodes : x # tmp /\ x # seq[1] => turned[x] = s.heap[x]
    BY <2>4, <2>5 DEF Keeps
  <2>7. turned[seq[1]].next = At(seq, k + 3)
    BY <2>2, <2>4, <2>5 DEF Keeps
  <2>8. Keeps(mem, turned, S)
    BY <2>2, <2>4, <2>5 DEF Keeps
  <2>9. \A i \in 2 .. (k + 1) + 1 : turned[seq[i]].next = seq[i - 1]
    <3> TAKE i \in 2 .. (k + 1) + 1
    <3>1. CASE i = k + 2
      <4>1. i - 1 = k + 1
        BY <1>1, <3>1
      <4> QED
        BY <2>5, <3>1, <4>1
    <3>2. CASE i # k + 2
      <4>1. i \in 2 .. k + 1 /\ i \in 1 .. L /\ i # 1
        BY <1>1, <2>1, <3>2
      <4>2. seq[i] \in Nodes /\ seq[i] # tmp /\ seq[i] # seq[1]
        BY <1>1, <2>1, <3>2, <4>1
      <4> QED
        BY <2>6, <4>1, <4>2 DEF TurnedTo
    <3> QED
      BY <3>1, <3>2
  <2>10. \A i \in (k + 1) + 2 .. L : turned[seq[i]].next = At(seq, i + 1)
    <3> TAKE i \in (k + 1) + 2 .. L
    <3>1. i \in k + 2 .. L /\ i \in 1 .. L /\ i # 1 /\ i # k + 2
      BY <1>1
    <3>2. seq[i] \in Nodes /\ seq[i] # tmp /\ seq[i] # seq[1]
      BY <1>1, <2>1, <3>1
    <3> QED
      BY <2>6, <3>1, <3>2 DEF TurnedTo
  <2>11. (k + 1) + 1 = k + 2 /\ (k + 1) + 2 = k + 3
    BY <1>1
  <2>12. r.heap = turned /\ r.front = seq[(k + 1) + 1]
    BY <2>3, <2>11
  <2> HIDE DEF tmp, r
  <2> QED
    BY <2>5, <2>7, <2>8, <2>9, <2>10, <2>11, <2>12 DEF TurnedTo
<1> QED
  BY <1>1, <1>2, <1>3

LEMMA ReverseProperties ==
  ASSUME NEW S, NEW seq \in Seq(S)
  PROVE  /\ Reverse(seq) \in Seq(S) /\ Len(Reverse(seq)) = Len(seq)
         /\ \A i \in 1 .. Len(seq) : Reverse(seq)[i] = seq[(Len(seq) - i) + 1]
<1>1. Len(seq) \in Nat /\ \A i \in 1 .. Len(seq) : (Len(seq) - i) + 1 \in 1 .. Len(seq)
  OBVIOUS
<1> QED
  BY <1>1 DEF Reverse

(* And all of them reverse the list.                                       *)
LEMMA Reversed ==
  ASSUME NEW V, NEW mem \in Heaps(V), NEW stack, NEW seq, IsStack(mem, stack, seq),
         NEW S, \A i \in 1 .. Len(seq) : seq[i] \in S,
         NEW r, r = stack_reverse(mem, stack)
  PROVE  /\ r.heap \in Heaps(V) /\ Keeps(mem, r.heap, S)
         /\ IsStack(r.heap, r.stack, Reverse(seq))
<1> DEFINE new == Reverse(seq)
           L == Len(seq)
<1>1. /\ seq \in Seq(Nodes) /\ L \in Nat /\ Size \in Nat /\ L <= Size
      /\ \A i, j \in 1 .. L : seq[i] = seq[j] => i = j
  BY ChainFits DEF IsStack, IsChain
<1>2. /\ new \in Seq(Nodes) /\ Len(new) = L
      /\ \A i \in 1 .. L : new[i] = seq[(L - i) + 1]
  BY <1>1, ReverseProperties
<1>3. CASE L = 0
  <2>1. stack.front = NULL
    BY <1>3 DEF IsStack, At
  <2>2. r = [heap |-> mem, stack |-> stack]
    BY <2>1 DEF stack_reverse
  <2>3. new = seq
    BY <1>1, <1>2, <1>3
  <2>4. Keeps(mem, mem, S)
    BY DEF Keeps
  <2>5. r.heap = mem /\ r.stack = stack
    BY <2>2
  <2>6. IsStack(r.heap, r.stack, new)
    BY <2>3, <2>5
  <2> QED
    BY <2>4, <2>5, <2>6
<1>4. CASE L > 0
  <2>1. seq # << >> /\ 1 \in 1 .. L /\ L \in 1 .. L
    BY <1>1, <1>4
  <2>2. stack.front = seq[1] /\ seq[1] # NULL /\ stack.length = L
    BY <1>1, <2>1, NullAssumption DEF IsStack, At
  <2>3. PICK turn :
          /\ turn[0] = [heap |-> mem, front |-> seq[1]]
          /\ \A n \in 1 .. Size : turn[n] = Turned(turn[n - 1], seq[1])
          /\ ReverseLoop(mem, stack) = turn[Size]
    BY <2>2, TurnLoop
  <2> DEFINE T == {n \in Nat : n <= Size => TurnedTo(V, mem, seq, S, Lesser(n, L - 1), turn[n])}
  <2>4. 0 \in T
    <3>1. Lesser(0, L - 1) = 0
      <4>1. \A m \in Nat : m > 0 => ~ (m - 1 < 0) /\ (0 <= m - 1)
        OBVIOUS
      <4>2. \A m \in Nat : m > 0 => Lesser(0, m - 1) = 0
        BY DEF Lesser
      <4> QED
        BY <1>1, <1>4, <4>2
    <3>2. turn[0].front = seq[0 + 1] /\ turn[0].heap = mem
      BY <2>3
    <3>3. Keeps(mem, mem, S)
      BY DEF Keeps
    <3>4. \A i \in 1 .. L : mem[seq[i]].next = At(seq, i + 1)
      BY DEF IsStack, IsChain
    <3>5. /\ mem[seq[1]].next = At(seq, 0 + 2)
          /\ \A i \in 2 .. 0 + 1 : mem[seq[i]].next = seq[i - 1]
          /\ \A i \in 0 + 2 .. L : mem[seq[i]].next = At(seq, i + 1)
      BY <2>1, <3>4
    <3>6. TurnedTo(V, mem, seq, S, 0, turn[0])
      BY <3>2, <3>3, <3>5 DEF TurnedTo
    <3> QED
      BY <3>1, <3>6
  <2>5. ASSUME NEW n \in Nat, n \in T
        PROVE  n + 1 \in T
    <3> SUFFICES ASSUME n + 1 <= Size
                 PROVE  TurnedTo(V, mem, seq, S, Lesser(n + 1, L - 1), turn[n + 1])
      OBVIOUS
    <3> DEFINE k == Lesser(n, L - 1)
    <3>1. TurnedTo(V, mem, seq, S, k, turn[n])
      BY <1>1, <2>5
    <3>2. turn[n + 1] = Turned(turn[n], seq[1])
      <4>1. n + 1 \in 1 .. Size /\ (n + 1) - 1 = n
        BY <1>1
      <4> QED
        BY <2>3, <4>1
    <3>3. /\ k \in 0 .. L - 1
          /\ Lesser(n + 1, L - 1) = IF k < L - 1 THEN k + 1 ELSE k
      BY <1>1, <1>4 DEF Lesser
    <3> HIDE DEF k
    <3>4. IF k < L - 1 THEN TurnedTo(V, mem, seq, S, k + 1, Turned(turn[n], seq[1]))
          ELSE Turned(turn[n], seq[1]) = turn[n]
      BY <1>1, <2>1, <3>1, <3>3, OneTurn
    <3> QED
      BY <3>1, <3>2, <3>3, <3>4
  <2>6. Size \in T
    <3> HIDE DEF T
    <3> QED
      BY <1>1, <2>4, <2>5, Induction
  <2> DEFINE s == turn[Size]
  <2>7. /\ s.front = seq[L] /\ s.heap \in Heaps(V) /\ Keeps(mem, s.heap, S)
        /\ s.heap[seq[1]].next = NULL
        /\ \A i \in 2 .. L : s.heap[seq[i]].next = seq[i - 1]
    <3>1. Lesser(Size, L - 1) = L - 1 /\ (L - 1) + 1 = L /\ (L - 1) + 2 = L + 1
      BY <1>1, <1>4 DEF Lesser
    <3>2. TurnedTo(V, mem, seq, S, L - 1, s)
      BY <1>1, <2>6, <3>1
    <3>3. At(seq, L + 1) = NULL
      BY <1>1 DEF At
    <3> HIDE DEF s
    <3> QED
      BY <3>1, <3>2, <3>3 DEF TurnedTo
  <2>8. r = [heap |-> s.heap, stack |-> [front |-> s.front, back |-> seq[1], length |-> L]]
    BY <2>2, <2>3 DEF stack_reverse
  <2> HIDE DEF s
  <2>9. new[1] = seq[L] /\ new[L] = seq[1]
    <3>1. (L - 1) + 1 = L /\ (L - L) + 1 = 1
      BY <1>1
    <3> QED
      BY <1>2, <2>1, <3>1
  <2> HIDE DEF new
  <2>10. r.stack = [front |-> At(new, 1), back |-> At(new, Len(new)), length |-> Len(new)]
    BY <1>2, <2>1, <2>7, <2>8, <2>9 DEF At
  <2>11. IsChain(r.heap, r.stack.front, new)
    <3>1. \A i, j \in 1 .. Len(new) : new[i] = new[j] => i = j
      <4> TAKE i, j \in 1 .. Len(new)
      <4> HAVE new[i] = new[j]
      <4>1. (L - i) + 1 \in 1 .. L /\ (L - j) + 1 \in 1 .. L
        BY <1>1, <1>2
      <4>2. seq[(L - i) + 1] = seq[(L - j) + 1]
        BY <1>2
      <4>3. (L - i) + 1 = (L - j) + 1
        BY <1>1, <4>1, <4>2
      <4> QED
        BY <1>1, <1>2, <4>3
    <3>2. \A i \in 1 .. Len(new) : r.heap[new[i]].next = At(new, i + 1)
      <4> TAKE i \in 1 .. Len(new)
      <4> DEFINE j == (L - i) + 1
      <4>1. j \in 1 .. L /\ new[i] = seq[j] /\ i \in 1 .. L
        BY <1>1, <1>2
      <4>2. CASE j = 1
        <5>1. i = L
          BY <1>1, <4>1, <4>2
        <5>2. At(new, i + 1) = NULL
          BY <1>1, <1>2, <5>1 DEF At
        <5> QED
          BY <2>7, <2>8, <4>1, <4>2, <5>2
      <4>3. CASE j # 1
        <5>1. j \in 2 .. L /\ i + 1 \in 1 .. L /\ (L - (i + 1)) + 1 = j - 1
          BY <1>1, <4>1, <4>3
        <5>2. At(new, i + 1) = seq[j - 1]
          <6>1. new[i + 1] = seq[(L - (i + 1)) + 1]
            BY <1>2, <5>1
          <6> QED
            BY <1>2, <5>1, <6>1 DEF At
        <5> HIDE DEF j
        <5> QED
          BY <2>7, <2>8, <4>1, <5>1, <5>2
      <4> QED
        BY <4>2, <4>3
    <3>3. r.stack.front = At(new, 1)
      BY <2>10
    <3> QED
      BY <1>2, <3>1, <3>2, <3>3 DEF IsChain
  <2>12. IsStack(r.heap, r.stack, new)
    BY <2>10, <2>11 DEF IsStack
  <2>13. r.heap \in Heaps(V) /\ Keeps(mem, r.heap, S)
    BY <2>7, <2>8
  <2> USE DEF new
  <2> QED
    BY <2>12, <2>13
<1> QED
  BY <1>1, <1>3, <1>4

-----------------------------------------------------------------------------
(* The program's stacks                                                    *)

(* No node is on both lists.                                               *)
Apart(a, b) == \A i \in 1 .. Len(a), j \in 1 .. Len(b) : a[i] # b[j]

(***************************************************************************)
(* The inductive invariant: each struct describes a list of nodes without  *)
(* a repetition, and no node is on the lists of two stacks. EndsAgree does *)
(* not say it: that front, back and length fit what a walk finds holds of  *)
(* a list that runs into another's nodes as well, and a push on that one   *)
(* would then change both.                                                 *)
(***************************************************************************)
Shape ==
  /\ heap \in Heaps(Vals)
  /\ DOMAIN stacks = Names /\ stacks = [s \in Names |-> stacks[s]]
  /\ \A s \in Names : IsStack(heap, stacks[s], Contents(s))
  /\ \A s, t \in Names : s # t => Apart(Contents(s), Contents(t))

LEMMA ContentsKnown ==
  ASSUME NEW s, NEW seq, IsStack(heap, stacks[s], seq)
  PROVE  Contents(s) = seq
BY AllVisited DEF IsStack, Contents

LEMMA ContentsNext ==
  ASSUME NEW s, NEW seq, IsStack(heap', stacks'[s], seq)
  PROVE  Contents(s)' = seq
<1> DEFINE h == heap'
           st == stacks'[s]
<1>1. IsChain(h, st.front, seq)
  BY DEF IsStack
<1> HIDE DEF h, st
<1>2. NodesOf(h, st) = seq
  BY <1>1, AllVisited
<1> USE DEF h, st
<1> QED
  BY <1>2 DEF Contents

(* h is heap but for the cells of the nodes in S.                          *)
Touches(old, h, S) == \A x \in Nodes : x \notin S => h[x] = old[x]

LEMMA StackStays ==
  ASSUME NEW old, NEW h, NEW stack, NEW seq, NEW S, IsStack(old, stack, seq), Touches(old, h, S),
         \A i \in 1 .. Len(seq) : seq[i] \notin S
  PROVE  IsStack(h, stack, seq)
BY DEF IsStack, IsChain, Touches

(* One stack becomes the list new, of nodes that no other has.             *)
Replaced(s, new) ==
  /\ Shape'
  /\ Contents(s)' = new
  /\ \A t \in Names \ {s} : Contents(t)' = Contents(t)

LEMMA OneChanges ==
  ASSUME Shape, NEW s \in Names, NEW r, Becomes(s, r), r.heap \in Heaps(Vals),
         NEW S, Touches(heap, r.heap, S),
         \A t \in Names \ {s} : \A i \in 1 .. Len(Contents(t)) : Contents(t)[i] \notin S,
         NEW new, IsStack(r.heap, r.stack, new), \A i \in 1 .. Len(new) : new[i] \in S
  PROVE  Replaced(s, new)
<1>1. /\ heap' = r.heap /\ stacks'[s] = r.stack /\ DOMAIN stacks' = Names
      /\ \A t \in Names \ {s} : stacks'[t] = stacks[t]
      /\ stacks' = [t \in Names |-> stacks'[t]]
  BY DEF Becomes, Shape
<1>2. Contents(s)' = new /\ IsStack(heap', stacks'[s], new)
  BY <1>1, ContentsNext
<1>3. ASSUME NEW t \in Names \ {s}
      PROVE  Contents(t)' = Contents(t) /\ IsStack(heap', stacks'[t], Contents(t))
  <2>1. IsStack(heap, stacks[t], Contents(t))
    BY DEF Shape
  <2>2. IsStack(r.heap, stacks[t], Contents(t))
    BY <2>1, StackStays
  <2>3. IsStack(heap', stacks'[t], Contents(t))
    BY <1>1, <2>2
  <2> QED
    BY <2>3, ContentsNext
<1>4. \A t \in Names : IsStack(heap', stacks'[t], Contents(t)')
  BY <1>2, <1>3
<1>5. ASSUME NEW t \in Names, NEW u \in Names, t # u
      PROVE  Apart(Contents(t)', Contents(u)')
  <2>1. CASE t = s
    <3>1. Contents(u)' = Contents(u) /\ Contents(t)' = new
      BY <1>2, <1>3, <1>5, <2>1
    <3> QED
      BY <1>5, <2>1, <3>1 DEF Apart
  <2>2. CASE u = s
    <3>1. Contents(t)' = Contents(t) /\ Contents(u)' = new
      BY <1>2, <1>3, <1>5, <2>2
    <3> QED
      BY <1>5, <2>2, <3>1 DEF Apart
  <2>3. CASE t # s /\ u # s
    <3>1. Contents(t)' = Contents(t) /\ Contents(u)' = Contents(u)
      BY <1>3, <2>3
    <3> QED
      BY <1>5, <3>1 DEF Shape
  <2> QED
    BY <2>1, <2>2, <2>3
<1>6. Shape'
  BY <1>1, <1>4, <1>5 DEF Shape
<1> QED
  BY <1>2, <1>3, <1>6 DEF Replaced

LEMMA ContentsFit ==
  ASSUME Shape, NEW s \in Names
  PROVE  /\ Contents(s) \in Seq(Nodes) /\ Len(Contents(s)) \in Nat
         /\ \A i, j \in 1 .. Len(Contents(s)) : Contents(s)[i] = Contents(s)[j] => i = j
         /\ IsStack(heap, stacks[s], Contents(s))
BY DEF Shape, IsStack, IsChain

LEMMA UnlinkedNodes ==
  ASSUME Shape, NEW x
  PROVE  x \in Unlinked
           <=> x \in Nodes /\ \A s \in Names : \A i \in 1 .. Len(Contents(s)) : Contents(s)[i] # x
<1>1. \A s \in Names : Contents(s) \in Seq(Nodes)
  BY ContentsFit
<1>2. \A s \in Names : ToSet(Contents(s)) = {Contents(s)[i] : i \in 1 .. Len(Contents(s))}
  BY <1>1 DEF ToSet
<1> QED
  BY <1>2 DEF Unlinked

LEMMA Held ==
  ASSUME heap \in Heaps(Vals), NEW node \in Nodes, NEW v \in Vals
  PROVE  /\ Holding(node, v) \in Heaps(Vals) /\ Holding(node, v)[node].val = v
         /\ \A x \in Nodes : x # node => Holding(node, v)[x] = heap[x]
<1> DEFINE cell == [heap[node] EXCEPT !.val = v]
<1>1. heap[node] \in [val : Vals, next : Nodes \cup {NULL}] /\ DOMAIN heap = Nodes
  BY DEF Heaps
<1>2. cell \in [val : Vals, next : Nodes \cup {NULL}] /\ cell.val = v
  BY <1>1
<1>3. Holding(node, v) = [heap EXCEPT ![node] = cell]
  BY DEF Holding
<1> HIDE DEF cell
<1> QED
  BY <1>1, <1>2, <1>3 DEF Heaps

(* The list of s becomes new, and the nodes have the values of h.          *)
Step(s, new, h) ==
  /\ Replaced(s, new)
  /\ \A x \in Nodes : heap'[x].val = h[x].val

LEMMA Operated ==
  ASSUME Shape, NEW s \in Names, NEW r, Becomes(s, r), NEW S, NEW h, Touches(heap, h, S),
         r.heap \in Heaps(Vals), Keeps(h, r.heap, S),
         \A t \in Names \ {s} : \A i \in 1 .. Len(Contents(t)) : Contents(t)[i] \notin S,
         NEW new, IsStack(r.heap, r.stack, new), \A i \in 1 .. Len(new) : new[i] \in S
  PROVE  Step(s, new, h)
<1>1. Touches(heap, r.heap, S)
  BY DEF Keeps, Touches
<1>2. Replaced(s, new)
  BY <1>1, OneChanges
<1>3. heap' = r.heap
  BY DEF Becomes
<1>4. \A x \in Nodes : heap'[x].val = h[x].val
  BY <1>3 DEF Keeps
<1> QED
  BY <1>2, <1>4 DEF Step

(* Each operation's effect on its own list, on the others and on the       *)
(* values.                                                                 *)
LEMMA PushStep ==
  ASSUME Shape, NEW s \in Names, NEW node \in Nodes, NEW v \in Vals, Push(s, node, v)
  PROVE  Step(s, <<node>> \o Contents(s), Holding(node, v))
<1> DEFINE h == Holding(node, v)
           r == stack_push(h, stacks[s], node)
           seq == Contents(s)
           new == <<node>> \o seq
           S == {x \in Nodes : x = node \/ \E i \in 1 .. Len(seq) : seq[i] = x}
<1>1. /\ seq \in Seq(Nodes) /\ Len(seq) \in Nat /\ IsStack(heap, stacks[s], seq)
      /\ node \in S /\ \A i \in 1 .. Len(seq) : seq[i] \in S
      /\ \A t \in Names : \A i \in 1 .. Len(Contents(t)) : Contents(t)[i] # node
  BY ContentsFit, UnlinkedNodes DEF Push
<1>2. \A t \in Names \ {s} : \A i \in 1 .. Len(Contents(t)) : Contents(t)[i] \notin S
  BY <1>1 DEF Shape, Apart
<1>3. h \in Heaps(Vals) /\ Touches(heap, h, {node}) /\ Touches(heap, h, S)
  BY <1>1, Held DEF Touches, Shape
<1>4. IsStack(h, stacks[s], seq)
  BY <1>1, <1>3, StackStays
<1>5. PICK rr : rr = r
  OBVIOUS
<1>6. Becomes(s, rr)
  BY <1>5 DEF Push
<1> HIDE DEF r, h, S
<1>7. rr.heap \in Heaps(Vals) /\ Keeps(h, rr.heap, S) /\ IsStack(rr.heap, rr.stack, new)
  BY <1>1, <1>3, <1>4, <1>5, Pushed DEF r
<1>8. \A i \in 1 .. Len(new) : new[i] \in S
  <2>1. Len(new) = Len(seq) + 1 /\ new[1] = node /\ \A i \in 1 .. Len(seq) : new[i + 1] = seq[i]
    BY <1>1, NewFront
  <2> HIDE DEF new, seq
  <2> TAKE i \in 1 .. Len(new)
  <2>2. i = 1 \/ (i - 1 \in 1 .. Len(seq) /\ (i - 1) + 1 = i)
    BY <1>1, <2>1
  <2> QED
    BY <1>1, <2>1, <2>2
<1> HIDE DEF new, seq
<1>9. Step(s, new, h)
  BY <1>2, <1>3, <1>6, <1>7, <1>8, Operated
<1> QED
  BY <1>9 DEF h, new, seq

LEMMA PushBackStep ==
  ASSUME Shape, NEW s \in Names, NEW node \in Nodes, NEW v \in Vals, PushBack(s, node, v)
  PROVE  Step(s, Append(Contents(s), node), Holding(node, v))
<1> DEFINE h == Holding(node, v)
           r == stack_append(h, stacks[s], node)
           seq == Contents(s)
           new == Append(seq, node)
           S == {x \in Nodes : x = node \/ \E i \in 1 .. Len(seq) : seq[i] = x}
<1>1. /\ seq \in Seq(Nodes) /\ Len(seq) \in Nat /\ IsStack(heap, stacks[s], seq)
      /\ node \in S /\ \A i \in 1 .. Len(seq) : seq[i] \in S
      /\ \A t \in Names : \A i \in 1 .. Len(Contents(t)) : Contents(t)[i] # node
  BY ContentsFit, UnlinkedNodes DEF PushBack
<1>2. \A t \in Names \ {s} : \A i \in 1 .. Len(Contents(t)) : Contents(t)[i] \notin S
  BY <1>1 DEF Shape, Apart
<1>3. h \in Heaps(Vals) /\ Touches(heap, h, {node}) /\ Touches(heap, h, S)
  BY <1>1, Held DEF Touches, Shape
<1>4. IsStack(h, stacks[s], seq)
  BY <1>1, <1>3, StackStays
<1>5. PICK rr : rr = r
  OBVIOUS
<1>6. Becomes(s, rr)
  BY <1>5 DEF PushBack
<1> HIDE DEF r, h, S
<1>7. rr.heap \in Heaps(Vals) /\ Keeps(h, rr.heap, S) /\ IsStack(rr.heap, rr.stack, new)
  BY <1>1, <1>3, <1>4, <1>5, Appended DEF r
<1>8. \A i \in 1 .. Len(new) : new[i] \in S
  <2>1. /\ Len(new) = Len(seq) + 1 /\ new[Len(seq) + 1] = node
        /\ \A i \in 1 .. Len(seq) : new[i] = seq[i]
    BY <1>1, AppendProperties
  <2> HIDE DEF new, seq
  <2> QED
    BY <1>1, <2>1
<1> HIDE DEF new, seq
<1>9. Step(s, new, h)
  BY <1>2, <1>3, <1>6, <1>7, <1>8, Operated
<1> QED
  BY <1>9 DEF h, new, seq

LEMMA PopStep ==
  ASSUME Shape, NEW s \in Names, Pop(s)
  PROVE  Contents(s) # << >> /\ Step(s, Tail(Contents(s)), heap)
<1> DEFINE r == stack_pop(heap, stacks[s])
           seq == Contents(s)
           new == Tail(seq)
           S == {x \in Nodes : \E i \in 1 .. Len(seq) : seq[i] = x}
<1>1. /\ seq \in Seq(Nodes) /\ Len(seq) \in Nat /\ IsStack(heap, stacks[s], seq)
      /\ \A i \in 1 .. Len(seq) : seq[i] \in S
      /\ heap \in Heaps(Vals)
  BY ContentsFit DEF Shape
<1>2. \A t \in Names \ {s} : \A i \in 1 .. Len(Contents(t)) : Contents(t)[i] \notin S
  BY <1>1 DEF Shape, Apart
<1>3. Touches(heap, heap, S)
  BY DEF Touches
<1>4. seq # << >> /\ seq[1] \in S
  <2>1. stacks[s].front # NULL
    BY DEF Pop
  <2> HIDE DEF seq, S
  <2>2. seq # << >>
    BY <1>1, <2>1 DEF IsStack, At
  <2> QED
    BY <1>1, <2>2
<1>5. PICK rr : rr = r
  OBVIOUS
<1>6. Becomes(s, rr)
  BY <1>5 DEF Pop
<1> HIDE DEF r, S
<1>7. rr.heap \in Heaps(Vals) /\ Keeps(heap, rr.heap, S) /\ IsStack(rr.heap, rr.stack, new)
  BY <1>1, <1>4, <1>5, Popped DEF r
<1>8. \A i \in 1 .. Len(new) : new[i] \in S
  <2>1. Len(new) = Len(seq) - 1 /\ \A i \in 1 .. Len(seq) - 1 : new[i] = seq[i + 1]
    BY <1>1, <1>4, HeadTailProperties
  <2> HIDE DEF new, seq
  <2> QED
    BY <1>1, <2>1
<1> HIDE DEF new, seq
<1>9. Step(s, new, heap)
  BY <1>2, <1>3, <1>6, <1>7, <1>8, Operated
<1> QED
  BY <1>4, <1>9 DEF new, seq

LEMMA TurnStep ==
  ASSUME Shape, NEW s \in Names, Turn(s)
  PROVE  Step(s, Reverse(Contents(s)), heap)
<1> DEFINE r == stack_reverse(heap, stacks[s])
           seq == Contents(s)
           new == Reverse(seq)
           S == {x \in Nodes : \E i \in 1 .. Len(seq) : seq[i] = x}
<1>1. /\ seq \in Seq(Nodes) /\ Len(seq) \in Nat /\ IsStack(heap, stacks[s], seq)
      /\ \A i \in 1 .. Len(seq) : seq[i] \in S
      /\ heap \in Heaps(Vals)
  BY ContentsFit DEF Shape
<1>2. \A t \in Names \ {s} : \A i \in 1 .. Len(Contents(t)) : Contents(t)[i] \notin S
  BY <1>1 DEF Shape, Apart
<1>3. Touches(heap, heap, S)
  BY DEF Touches
<1>5. PICK rr : rr = r
  OBVIOUS
<1>6. Becomes(s, rr)
  BY <1>5 DEF Turn
<1> HIDE DEF r, S
<1>7. rr.heap \in Heaps(Vals) /\ Keeps(heap, rr.heap, S) /\ IsStack(rr.heap, rr.stack, new)
  BY <1>1, <1>5, Reversed DEF r
<1>8. \A i \in 1 .. Len(new) : new[i] \in S
  <2>1. Len(new) = Len(seq) /\ \A i \in 1 .. Len(seq) : new[i] = seq[(Len(seq) - i) + 1]
    BY <1>1, ReverseProperties
  <2>2. \A i \in 1 .. Len(seq) : (Len(seq) - i) + 1 \in 1 .. Len(seq)
    BY <1>1
  <2> HIDE DEF new, seq
  <2> QED
    BY <1>1, <2>1, <2>2
<1> HIDE DEF new, seq
<1>9. Step(s, new, heap)
  BY <1>2, <1>3, <1>6, <1>7, <1>8, Operated
<1> QED
  BY <1>9 DEF new, seq

(* The loop of a copy, unfolded.                                           *)
LEMMA CopyLoop ==
  ASSUME NEW source, NEW nodes, Len(nodes) \in Nat, NEW end
  PROVE  \E iter :
           /\ iter[0] = [heap |-> heap, stack |-> stack_ctor]
           /\ \A i \in 1 .. Len(nodes) :
                iter[i] = CopyMade(iter[i - 1], Contents(source)[i], nodes[i], end)
           /\ CopyOf(source, nodes, end) = iter[Len(nodes)]
<1> DEFINE from == Contents(source)
           first == [heap |-> heap, stack |-> stack_ctor]
           Loop(f, k) == f = [i \in 0 .. k |-> IF i = 0 THEN first
                                                ELSE CopyMade(f[i - 1], from[i], nodes[i], end)]
           T == {k \in Nat : \E f : Loop(f, k)}
           iter == CHOOSE f : Loop(f, Len(nodes))
<1>1. 0 \in T
  <2>1. Loop([i \in 0 .. 0 |-> first], 0)
    OBVIOUS
  <2> QED
    BY <2>1
<1>2. ASSUME NEW k \in Nat, k \in T
      PROVE  k + 1 \in T
  <2>1. PICK f : Loop(f, k)
    BY <1>2
  <2> DEFINE g == [i \in 0 .. k + 1 |->
                     IF i = k + 1 THEN CopyMade(f[k], from[k + 1], nodes[k + 1], end) ELSE f[i]]
  <2> HIDE DEF from
  <2>2. Loop(g, k + 1)
    BY <2>1
  <2> HIDE DEF g
  <2> QED
    BY <2>2
<1>3. Len(nodes) \in T
  <2> HIDE DEF T
  <2> QED
    BY <1>1, <1>2, Induction
<1>4. Loop(iter, Len(nodes))
  BY <1>3, Zenon
<1>5. CopyOf(source, nodes, end) = iter[Len(nodes)]
  BY Zenon DEF CopyOf
<1> HIDE DEF iter, from
<1>6. /\ iter[0] = first
      /\ \A i \in 1 .. Len(nodes) : iter[i] = CopyMade(iter[i - 1], from[i], nodes[i], end)
  BY <1>4
<1> USE DEF from
<1> QED
  BY <1>5, <1>6

(* The copies as they lie after i of them: in order, or the last in front. *)
Copies(nodes, end, i) == [j \in 1 .. i |-> nodes[IF end = "back" THEN j ELSE (i - j) + 1]]

Injective(nodes) == \A i, j \in 1 .. Len(nodes) : nodes[i] = nodes[j] => i = j

LEMMA CopiesGrow ==
  ASSUME NEW nodes \in Seq(Nodes), NEW i \in 1 .. Len(nodes)
  PROVE  /\ Copies(nodes, "back", i) = Append(Copies(nodes, "back", i - 1), nodes[i])
         /\ Copies(nodes, "front", i) = <<nodes[i]>> \o Copies(nodes, "front", i - 1)
<1>1. /\ Len(nodes) \in Nat /\ i \in Nat /\ i - 1 \in Nat /\ i <= Len(nodes)
      /\ \A j \in 1 .. Len(nodes) : nodes[j] \in Nodes
  OBVIOUS
<1>2. Copies(nodes, "back", i) = Append(Copies(nodes, "back", i - 1), nodes[i])
  <2> DEFINE p == Copies(nodes, "back", i - 1)
  <2>1. p = [j \in 1 .. i - 1 |-> nodes[j]]
    BY DEF Copies
  <2>2. p \in Seq(Nodes) /\ Len(p) = i - 1
    BY <1>1, <2>1
  <2>3. Copies(nodes, "back", i) = [j \in 1 .. i |-> nodes[j]]
    BY DEF Copies
  <2> HIDE DEF p
  <2>4. Append(p, nodes[i]) = [j \in 1 .. i |-> nodes[j]]
    BY <1>1, <2>1, <2>2
  <2> USE DEF p
  <2> QED
    BY <2>3, <2>4
<1>3. Copies(nodes, "front", i) = <<nodes[i]>> \o Copies(nodes, "front", i - 1)
  <2> DEFINE p == Copies(nodes, "front", i - 1)
  <2>1. p = [j \in 1 .. i - 1 |-> nodes[((i - 1) - j) + 1]]
    BY DEF Copies
  <2>2. \A j \in 1 .. i - 1 : ((i - 1) - j) + 1 \in 1 .. Len(nodes) /\ ((i - 1) - j) + 1 = i - j
    BY <1>1
  <2>3. p \in Seq(Nodes) /\ Len(p) = i - 1
    BY <1>1, <2>1, <2>2
  <2>4. Copies(nodes, "front", i) = [j \in 1 .. i |-> nodes[(i - j) + 1]]
    BY DEF Copies
  <2> HIDE DEF p
  <2>5. <<nodes[i]>> \o p = [j \in 1 .. i |-> IF j = 1 THEN nodes[i] ELSE p[j - 1]]
    BY <1>1, <2>3
  <2>6. \A j \in 1 .. i : (IF j = 1 THEN nodes[i] ELSE p[j - 1]) = nodes[(i - j) + 1]
    <3> TAKE j \in 1 .. i
    <3>1. CASE j = 1
      BY <1>1, <3>1
    <3>2. CASE j # 1
      <4>1. j - 1 \in 1 .. i - 1 /\ ((i - 1) - (j - 1)) + 1 = (i - j) + 1
        BY <1>1, <3>2
      <4> QED
        BY <2>1, <3>2, <4>1
    <3> QED
      BY <3>1, <3>2
  <2>7. <<nodes[i]>> \o p = [j \in 1 .. i |-> nodes[(i - j) + 1]]
    BY <2>5, <2>6
  <2> USE DEF p
  <2> QED
    BY <2>4, <2>7
<1> QED
  BY <1>2, <1>3

(* After i copies they are a stack of their own, with the values of the    *)
(* originals, and the rest of the heap is as it was.                       *)
CopiedTo(from, nodes, end, i, s) ==
  /\ s.heap \in Heaps(Vals)
  /\ \A x \in Nodes : (\A j \in 1 .. Len(nodes) : nodes[j] # x) => s.heap[x] = heap[x]
  /\ IsStack(s.heap, s.stack, Copies(nodes, end, i))
  /\ \A j \in 1 .. i : s.heap[nodes[j]].val = heap[from[j]].val

LEMMA OneCopy ==
  ASSUME NEW nodes \in Seq(Nodes), Injective(nodes), NEW from \in Seq(Nodes), Len(from) = Len(nodes),
         \A i, j \in 1 .. Len(nodes) : from[i] # nodes[j],
         NEW end \in {"back", "front"}, NEW i \in 1 .. Len(nodes), NEW s,
         CopiedTo(from, nodes, end, i - 1, s)
  PROVE  CopiedTo(from, nodes, end, i, CopyMade(s, from[i], nodes[i], end))
<1> DEFINE node == nodes[i]
           cell == s.heap[from[i]]
           g == [s.heap EXCEPT ![node] = cell]
           p == Copies(nodes, end, i - 1)
           S == {x \in Nodes : \E j \in 1 .. Len(nodes) : nodes[j] = x}
<1>1. /\ Len(nodes) \in Nat /\ i \in Nat /\ i <= Len(nodes) /\ i >= 1
      /\ node \in Nodes /\ node \in S /\ from[i] \in Nodes /\ from[i] \notin S
      /\ \A j \in 1 .. Len(nodes) : nodes[j] \in S
  OBVIOUS
<1>2. cell = heap[from[i]] /\ cell \in [val : Vals, next : Nodes \cup {NULL}]
  BY <1>1 DEF CopiedTo, Heaps
<1>3. g \in Heaps(Vals) /\ g[node] = cell /\ Touches(s.heap, g, {node})
  <2>1. s.heap \in Heaps(Vals)
    BY DEF CopiedTo
  <2> HIDE DEF cell, node
  <2> QED
    BY <1>1, <1>2, <2>1 DEF Heaps, Touches
<1>4. \A j \in 1 .. Len(p) : p[j] # node /\ p[j] \in S
  <2>1. Len(p) = i - 1
    BY <1>1 DEF Copies
  <2> SUFFICES ASSUME NEW j \in 1 .. i - 1
               PROVE  p[j] # node /\ p[j] \in S
    BY <2>1
  <2>2. j \in Nat /\ i \in Nat /\ 1 <= j /\ j <= i - 1
    BY <1>1
  <2>3. PICK k \in 1 .. Len(nodes) : k # i /\ p[j] = nodes[k]
    <3>1. CASE end = "back"
      <4>1. p[j] = nodes[j]
        BY <3>1 DEF Copies
      <4>2. j \in 1 .. Len(nodes) /\ j # i
        <5> HIDE DEF p, g, S, cell, node
        <5> QED
          BY <1>1, <2>2
      <4> QED
        BY <4>1, <4>2
    <3>2. CASE end = "front"
      <4>1. p[j] = nodes[((i - 1) - j) + 1]
        BY <3>2 DEF Copies
      <4>2. ((i - 1) - j) + 1 \in 1 .. Len(nodes) /\ ((i - 1) - j) + 1 # i
        <5> HIDE DEF p, g, S, cell, node
        <5> QED
          BY <1>1, <2>2
      <4> QED
        BY <4>1, <4>2
    <3> QED
      BY <3>1, <3>2
  <2>4. nodes[k] # nodes[i]
    BY <2>3 DEF Injective
  <2> HIDE DEF p, S
  <2> QED
    BY <1>1, <2>3, <2>4
<1>5. IsStack(g, s.stack, p)
  <2>1. IsStack(s.heap, s.stack, p)
    BY DEF CopiedTo
  <2> HIDE DEF p, g, node, S
  <2> QED
    BY <1>3, <1>4, <2>1, StackStays
<1>6. PICK r : r = Placed(g, s.stack, node, end)
  OBVIOUS
<1>7. r.heap \in Heaps(Vals) /\ Keeps(g, r.heap, S) /\ IsStack(r.heap, r.stack, Copies(nodes, end, i))
  <2> HIDE DEF p, g, S
  <2>1. CASE end = "back"
    <3>1. r = stack_append(g, s.stack, node)
      BY <1>6, <2>1 DEF Placed
    <3>2. /\ r.heap \in Heaps(Vals) /\ Keeps(g, r.heap, S)
          /\ IsStack(r.heap, r.stack, Append(p, node))
      <4> HIDE DEF node
      <4> QED
        BY <1>1, <1>3, <1>4, <1>5, <3>1, Appended
    <3>3. Copies(nodes, end, i) = Append(p, node)
      BY <2>1, CopiesGrow DEF p
    <3> QED
      BY <3>2, <3>3
  <2>2. CASE end = "front"
    <3>1. r = stack_push(g, s.stack, node)
      BY <1>6, <2>2 DEF Placed
    <3>2. /\ r.heap \in Heaps(Vals) /\ Keeps(g, r.heap, S)
          /\ IsStack(r.heap, r.stack, <<node>> \o p)
      <4> HIDE DEF node
      <4> QED
        BY <1>1, <1>3, <1>4, <1>5, <3>1, Pushed
    <3>3. Copies(nodes, end, i) = <<node>> \o p
      BY <2>2, CopiesGrow DEF p
    <3> QED
      BY <3>2, <3>3
  <2> QED
    BY <2>1, <2>2
<1>8. \A x \in Nodes : (\A j \in 1 .. Len(nodes) : nodes[j] # x) => r.heap[x] = heap[x]
  <2> TAKE x \in Nodes
  <2> HAVE \A j \in 1 .. Len(nodes) : nodes[j] # x
  <2>1. x \notin S /\ x # node /\ s.heap[x] = heap[x]
    BY <1>1 DEF CopiedTo
  <2> HIDE DEF g, S, node
  <2> QED
    BY <1>3, <1>7, <2>1 DEF Keeps, Touches
<1>9. \A j \in 1 .. i : r.heap[nodes[j]].val = heap[from[j]].val
  <2> TAKE j \in 1 .. i
  <2>1. nodes[j] \in Nodes /\ r.heap[nodes[j]].val = g[nodes[j]].val
    <3>1. nodes[j] \in Nodes
      BY <1>1
    <3> HIDE DEF g, S
    <3> QED
      BY <1>7, <3>1 DEF Keeps
  <2>2. CASE j = i
    BY <1>2, <1>3, <2>1, <2>2
  <2>3. CASE j # i
    <3>1. nodes[j] # node /\ j \in 1 .. i - 1
      BY <1>1, <2>3 DEF Injective
    <3>2. g[nodes[j]] = s.heap[nodes[j]]
      <4> HIDE DEF g
      <4> QED
        BY <1>3, <2>1, <3>1 DEF Touches
    <3> QED
      BY <2>1, <3>1, <3>2 DEF CopiedTo
  <2> QED
    BY <2>2, <2>3
<1>10. CopyMade(s, from[i], nodes[i], end) = r
  BY <1>6 DEF CopyMade
<1> QED
  BY <1>7, <1>8, <1>9, <1>10 DEF CopiedTo

LEMMA CopyMakes ==
  ASSUME NEW source, NEW from, from = Contents(source), from \in Seq(Nodes),
         NEW nodes \in Seq(Nodes), Injective(nodes), Len(from) = Len(nodes),
         \A i, j \in 1 .. Len(nodes) : from[i] # nodes[j],
         NEW end \in {"back", "front"}, heap \in Heaps(Vals)
  PROVE  CopiedTo(from, nodes, end, Len(nodes), CopyOf(source, nodes, end))
<1> DEFINE L == Len(nodes)
<1>1. L \in Nat
  OBVIOUS
<1>2. PICK iter :
        /\ iter[0] = [heap |-> heap, stack |-> stack_ctor]
        /\ \A i \in 1 .. L : iter[i] = CopyMade(iter[i - 1], from[i], nodes[i], end)
        /\ CopyOf(source, nodes, end) = iter[L]
  BY <1>1, CopyLoop
<1> DEFINE T == {n \in Nat : n <= L => CopiedTo(from, nodes, end, n, iter[n])}
<1>3. 0 \in T
  <2>1. Copies(nodes, end, 0) = << >>
    BY DEF Copies
  <2>2. IsStack(heap, stack_ctor, << >>)
    BY DEF IsStack, IsChain, stack_ctor, At
  <2>3. iter[0].heap = heap /\ iter[0].stack = stack_ctor
    BY <1>2
  <2>4. CopiedTo(from, nodes, end, 0, iter[0])
    BY <2>1, <2>2, <2>3 DEF CopiedTo
  <2> QED
    BY <2>4
<1>4. ASSUME NEW n \in Nat, n \in T
      PROVE  n + 1 \in T
  <2> SUFFICES ASSUME n + 1 <= L
               PROVE  CopiedTo(from, nodes, end, n + 1, iter[n + 1])
    OBVIOUS
  <2>1. n + 1 \in 1 .. L /\ (n + 1) - 1 = n /\ CopiedTo(from, nodes, end, n, iter[n])
    BY <1>1, <1>4
  <2>2. iter[n + 1] = CopyMade(iter[n], from[n + 1], nodes[n + 1], end)
    BY <1>2, <2>1
  <2> QED
    BY <2>1, <2>2, OneCopy
<1>5. L \in T
  <2> HIDE DEF T
  <2> QED
    BY <1>1, <1>3, <1>4, Induction
<1> QED
  BY <1>2, <1>5

(* The sequences of the permutations of a set's subsets are those without  *)
(* a repetition.                                                           *)
LEMMA Permuted ==
  ASSUME NEW S, IsFiniteSet(S), NEW seq
  PROVE  seq \in SetToAllKPermutations(S) <=> seq \in Seq(S) /\ Injective(seq)
<1>1. ASSUME seq \in SetToAllKPermutations(S)
      PROVE  seq \in Seq(S) /\ Injective(seq)
  <2>1. PICK T \in SUBSET S : seq \in SetToSeqs(T)
    BY <1>1 DEF SetToAllKPermutations
  <2>2. PICK n \in Nat : n = Cardinality(T)
    BY FS_Subset, FS_CardinalityType
  <2>3. seq \in [1 .. n -> T] /\ \A i, j \in 1 .. n : i # j => seq[i] # seq[j]
    BY <2>1, <2>2 DEF SetToSeqs
  <2>4. seq \in Seq(S) /\ Len(seq) = n
    BY <2>3
  <2> QED
    BY <2>3, <2>4 DEF Injective
<1>2. ASSUME seq \in Seq(S), Injective(seq)
      PROVE  seq \in SetToAllKPermutations(S)
  <2> DEFINE T == {x \in S : \E i \in 1 .. Len(seq) : seq[i] = x}
  <2>1. Len(seq) \in Nat /\ seq \in [1 .. Len(seq) -> T]
    BY <1>2
  <2>2. IsFiniteSet(1 .. Len(seq)) /\ Cardinality(1 .. Len(seq)) = Len(seq)
    <3>1. \A b \in Nat : IsFiniteSet(1 .. b) /\ Cardinality(1 .. b) = IF 1 > b THEN 0 ELSE b - 1 + 1
      BY FS_Interval
    <3> QED
      BY <2>1, <3>1
  <2>3. seq \in Bijection(1 .. Len(seq), T)
    <3>1. \A x \in T : \E i \in 1 .. Len(seq) : seq[i] = x
      OBVIOUS
    <3> HIDE DEF T
    <3> QED
      BY <1>2, <2>1, <3>1 DEF Injective, Bijection, Injection, Surjection, IsInjective
  <2>4. Cardinality(T) = Len(seq)
    <3> HIDE DEF T
    <3>1. ExistsBijection(1 .. Len(seq), T)
      BY <2>3 DEF ExistsBijection
    <3> QED
      BY <2>2, <3>1, FS_Bijection
  <2>5. T \in SUBSET S
    OBVIOUS
  <2> HIDE DEF T
  <2>6. seq \in SetToSeqs(T)
    BY <1>2, <2>1, <2>4 DEF SetToSeqs, Injective
  <2> QED
    BY <2>5, <2>6 DEF SetToAllKPermutations
<1> QED
  BY <1>1, <1>2

LEMMA CopyStep ==
  ASSUME Shape, NEW s \in Names, NEW t \in Names \ {s}, NEW end \in {"back", "front"},
         stacks[t] = stack_ctor, NEW nodes \in Mallocs(Len(Contents(s))),
         Becomes(t, CopyOf(s, nodes, end))
  PROVE  /\ nodes \in Seq(Unlinked) /\ Injective(nodes) /\ Len(nodes) = Len(Contents(s))
         /\ Contents(t) = << >>
         /\ Replaced(t, Copies(nodes, end, Len(nodes)))
         /\ \A x \in Nodes : (\A j \in 1 .. Len(nodes) : nodes[j] # x) => heap'[x] = heap[x]
         /\ \A j \in 1 .. Len(nodes) : heap'[nodes[j]].val = heap[Contents(s)[j]].val
<1> DEFINE from == Contents(s)
           L == Len(nodes)
           new == Copies(nodes, end, L)
           S == {x \in Nodes : \E j \in 1 .. L : nodes[j] = x}
<1>1. nodes \in Seq(Unlinked) /\ Injective(nodes) /\ L = Len(from)
  <2>1. Unlinked \subseteq Nodes
    BY DEF Unlinked
  <2>2. IsFiniteSet(Unlinked)
    BY <2>1, NodesAssumption, FS_Subset
  <2>3. nodes \in SetToAllKPermutations(Unlinked) /\ L = Len(from)
    BY DEF Mallocs
  <2> QED
    BY <2>2, <2>3, Permuted
<1>2. /\ from \in Seq(Nodes) /\ nodes \in Seq(Nodes) /\ L \in Nat
      /\ \A j \in 1 .. L : nodes[j] \in Unlinked /\ nodes[j] \in Nodes /\ nodes[j] \in S
  <2>1. Unlinked \subseteq Nodes
    BY DEF Unlinked
  <2> QED
    BY <1>1, <2>1, ContentsFit
<1>3. \A u \in Names : \A i \in 1 .. Len(Contents(u)) : \A j \in 1 .. L : Contents(u)[i] # nodes[j]
  BY <1>2, UnlinkedNodes
<1>4. PICK r : r = CopyOf(s, nodes, end)
  OBVIOUS
<1>5. CopiedTo(from, nodes, end, L, r)
  <2>1. \A i, j \in 1 .. L : from[i] # nodes[j]
    BY <1>1, <1>3
  <2>2. heap \in Heaps(Vals)
    BY DEF Shape
  <2> QED
    BY <1>1, <1>2, <1>4, <2>1, <2>2, CopyMakes
<1>6. Contents(t) = << >>
  <2>1. stacks[t].front = NULL /\ IsStack(heap, stacks[t], Contents(t)) /\ Contents(t) \in Seq(Nodes)
    BY ContentsFit DEF stack_ctor
  <2> QED
    BY <2>1, NullAssumption DEF IsStack, At
<1>7. Replaced(t, new)
  <2>1. r.heap \in Heaps(Vals) /\ IsStack(r.heap, r.stack, new)
    BY <1>5 DEF CopiedTo
  <2>2. Touches(heap, r.heap, S)
    BY <1>2, <1>5 DEF CopiedTo, Touches
  <2>3. \A u \in Names \ {t} : \A i \in 1 .. Len(Contents(u)) : Contents(u)[i] \notin S
    BY <1>3
  <2>4. \A i \in 1 .. Len(new) : new[i] \in S
    <3>1. Len(new) = L
      BY <1>2 DEF Copies
    <3> SUFFICES ASSUME NEW i \in 1 .. L
                 PROVE  new[i] \in S
      BY <3>1
    <3>2. i \in 1 .. L /\ (L - i) + 1 \in 1 .. L
      <4> HIDE DEF S, new, from
      <4> QED
        BY <1>2
    <3>3. new[i] = nodes[IF end = "back" THEN i ELSE (L - i) + 1]
      BY DEF Copies
    <3> HIDE DEF S, new
    <3> QED
      BY <1>2, <3>2, <3>3
  <2>5. Becomes(t, r)
    BY <1>4
  <2> HIDE DEF new, S
  <2> QED
    BY <2>1, <2>2, <2>3, <2>4, <2>5, OneChanges
<1>8. heap' = r.heap
  BY <1>4 DEF Becomes
<1>9. /\ \A x \in Nodes : (\A j \in 1 .. L : nodes[j] # x) => heap'[x] = heap[x]
      /\ \A j \in 1 .. L : heap'[nodes[j]].val = heap[from[j]].val
  BY <1>5, <1>8 DEF CopiedTo
<1> QED
  BY <1>1, <1>6, <1>7, <1>9

-----------------------------------------------------------------------------
LEMMA ShapeInit == Init => Shape
<1> SUFFICES ASSUME Init
             PROVE  Shape
  OBVIOUS
<1>1. heap \in Heaps(Vals)
  BY DEF Init, Heaps
<1>2. DOMAIN stacks = Names /\ stacks = [s \in Names |-> stacks[s]]
      /\ \A s \in Names : stacks[s] = stack_ctor
  BY DEF Init
<1>3. IsStack(heap, stack_ctor, << >>)
  BY DEF IsStack, IsChain, stack_ctor, At
<1>4. \A s \in Names : IsStack(heap, stacks[s], << >>)
  BY <1>2, <1>3
<1>5. \A s \in Names : Contents(s) = << >>
  BY <1>4, ContentsKnown
<1> QED
  BY <1>1, <1>2, <1>4, <1>5 DEF Shape, Apart

LEMMA ShapeStep == Shape /\ [Next]_vars => Shape'
<1> SUFFICES ASSUME Shape, [Next]_vars
             PROVE  Shape'
  OBVIOUS
<1>1. ASSUME NEW s \in Names, NEW node \in Nodes, NEW v \in Vals, Push(s, node, v)
      PROVE  Shape'
  BY <1>1, PushStep DEF Step, Replaced
<1>2. ASSUME NEW s \in Names, NEW node \in Nodes, NEW v \in Vals, PushBack(s, node, v)
      PROVE  Shape'
  BY <1>2, PushBackStep DEF Step, Replaced
<1>3. ASSUME NEW s \in Names, Pop(s)
      PROVE  Shape'
  BY <1>3, PopStep DEF Step, Replaced
<1>4. ASSUME NEW s \in Names, Turn(s)
      PROVE  Shape'
  BY <1>4, TurnStep DEF Step, Replaced
<1>5. ASSUME NEW s \in Names, NEW t \in Names \ {s}, stack_dup(s, t)
      PROVE  Shape'
  BY <1>5, CopyStep DEF stack_dup, Replaced
<1>6. ASSUME NEW s \in Names, NEW t \in Names \ {s}, stack_rdup(s, t)
      PROVE  Shape'
  BY <1>6, CopyStep DEF stack_rdup, Replaced
<1>7. CASE UNCHANGED vars
  <2>1. heap' = heap /\ stacks' = stacks
    BY <1>7 DEF vars
  <2>2. \A s \in Names : Contents(s)' = Contents(s)
    BY <2>1 DEF Contents
  <2> QED
    BY <2>1, <2>2 DEF Shape
<1> QED
  BY <1>1, <1>2, <1>3, <1>4, <1>5, <1>6, <1>7 DEF Next

LEMMA ShapeShows == Shape => EndsAgree
<1> SUFFICES ASSUME Shape
             PROVE  EndsAgree
  OBVIOUS
<1>1. ASSUME NEW s \in Names
      PROVE  /\ stacks[s] \in [ front  : Nodes \cup {NULL}, back : Nodes \cup {NULL},
                                length : 0 .. Cardinality(Nodes) ]
             /\ stacks[s].length = Len(Contents(s))
             /\ stacks[s].back = IF Contents(s) = << >> THEN NULL ELSE Last(Contents(s))
             /\ stacks[s].back # NULL => heap[stacks[s].back].next = NULL
  <2> DEFINE seq == Contents(s)
             L == Len(seq)
  <2>1. seq \in Seq(Nodes) /\ L \in Nat /\ IsStack(heap, stacks[s], seq)
        /\ \A i, j \in 1 .. L : seq[i] = seq[j] => i = j
    BY ContentsFit
  <2>2. Size \in Nat /\ L <= Size
    BY <2>1, ChainFits
  <2> HIDE DEF seq
  <2>3. stacks[s] = [front |-> At(seq, 1), back |-> At(seq, L), length |-> L]
        /\ \A i \in 1 .. L : heap[seq[i]].next = At(seq, i + 1)
    BY <2>1 DEF IsStack, IsChain
  <2>4. \A i \in Nat : At(seq, i) \in Nodes \cup {NULL}
    BY <2>1 DEF At
  <2>5. At(seq, L + 1) = NULL
    BY <2>1 DEF At
  <2>6. seq # << >> => L \in 1 .. L /\ At(seq, L) = Last(seq) /\ At(seq, L) = seq[L]
    BY <2>1 DEF At, Last
  <2>7. seq = << >> => At(seq, L) = NULL
    BY DEF At
  <2>8. stacks[s] \in [ front  : Nodes \cup {NULL}, back : Nodes \cup {NULL},
                        length : 0 .. Cardinality(Nodes) ]
    BY <2>1, <2>2, <2>3, <2>4 DEF Size
  <2>9. stacks[s].back # NULL => heap[stacks[s].back].next = NULL
    BY <2>3, <2>5, <2>6, <2>7
  <2>10. stacks[s].back = IF seq = << >> THEN NULL ELSE Last(seq)
    BY <2>3, <2>6, <2>7
  <2> USE DEF seq
  <2> QED
    BY <2>3, <2>8, <2>9, <2>10
<1>2. TypeOK
  BY <1>1 DEF TypeOK, Shape, Heaps
<1> QED
  BY <1>1, <1>2 DEF EndsAgree

LEMMA ShapeAlways == Spec => []Shape
BY ShapeInit, ShapeStep, PTL DEF Spec

(***************************************************************************)
(* In every state of a program of stacks, front, back and length of each   *)
(* struct are the first node, the last node and the number of the nodes    *)
(* that a walk from front visits: what stack_push, stack_append,           *)
(* stack_pop, stack_reverse and the copies keep by hand, and the walk only *)
(* assumes.                                                                *)
(***************************************************************************)
THEOREM StacksFit == Spec => []EndsAgree
BY ShapeAlways, ShapeShows, PTL

-----------------------------------------------------------------------------
(* The state of the abstract stacks.                                       *)
Seqs   == [s \in Names |-> Contents(s)]
Values == [n \in Nodes \ Unlinked |-> heap[n].val]

(* The operators of the instance are those of this module.                 *)
LEMMA Same ==
  /\ Abstract!Free = Unlinked
  /\ \A seq : Abstract!ToSet(seq) = ToSet(seq)
  /\ \A seq : Abstract!Reverse(seq) = Reverse(seq)
  /\ \A S : Abstract!SetToAllKPermutations(S) = SetToAllKPermutations(S)
<1>1. \A seq : Abstract!ToSet(seq) = ToSet(seq)
  BY DEF Abstract!ToSet, ToSet
<1>2. \A seq : Abstract!Reverse(seq) = Reverse(seq)
  BY DEF Abstract!Reverse, Reverse
<1>3. \A S : Abstract!SetToSeqs(S) = SetToSeqs(S)
  <2>1. \A S : Abstract!Cardinality(S) = Cardinality(S)
    BY Zenon DEF Abstract!Cardinality, Cardinality
  <2> QED
    BY <2>1 DEF Abstract!SetToSeqs, SetToSeqs
<1>4. \A S : Abstract!SetToAllKPermutations(S) = SetToAllKPermutations(S)
  BY <1>3 DEF Abstract!SetToAllKPermutations, SetToAllKPermutations
<1>5. Abstract!Free = Unlinked
  BY <1>1 DEF Abstract!Free, Unlinked
<1> QED
  BY <1>1, <1>2, <1>4, <1>5

(* A node of a list other than t's, or one of new.                         *)
Listed(t, new, x) ==
  \/ \E i \in 1 .. Len(new) : new[i] = x
  \/ \E s \in Names \ {t} : \E i \in 1 .. Len(Contents(s)) : Contents(s)[i] = x

LEMMA SetOfList ==
  ASSUME NEW S, NEW seq \in Seq(S), NEW x
  PROVE  x \in ToSet(seq) <=> \E i \in 1 .. Len(seq) : seq[i] = x
BY DEF ToSet

LEMMA MappedNext ==
  ASSUME Shape, NEW t \in Names, NEW new, Replaced(t, new)
  PROVE  /\ Seqs' = [Seqs EXCEPT ![t] = new]
         /\ \A x \in Nodes : x \notin Unlinked' <=> Listed(t, new, x)
<1>1. \A s \in Names : Contents(s)' = IF s = t THEN new ELSE Contents(s)
  BY DEF Replaced
<1>2. \A s \in Names : Contents(s)' \in Seq(Nodes)
  BY DEF Replaced, Shape, IsStack, IsChain
<1>3. \A s \in Names : \A x : x \in ToSet(Contents(s)')
                               <=> \E i \in 1 .. Len(Contents(s)') : Contents(s)'[i] = x
  BY <1>2, SetOfList
<1>4. Unlinked' = Nodes \ UNION {ToSet(Contents(s)') : s \in Names}
  BY DEF Unlinked
<1>5. \A x \in Nodes : x \notin Unlinked'
                        <=> \E s \in Names : \E i \in 1 .. Len(Contents(s)') : Contents(s)'[i] = x
  BY <1>3, <1>4
<1>6. \A x \in Nodes : x \notin Unlinked' <=> Listed(t, new, x)
  BY <1>1, <1>5 DEF Listed
<1>7. Seqs' = [Seqs EXCEPT ![t] = new]
  BY <1>1 DEF Seqs
<1> QED
  BY <1>6, <1>7

(* Each action of the stacks is an action of the abstract ones.            *)
LEMMA InitMaps == Init => Abstract!Init
<1> SUFFICES ASSUME Init
             PROVE  Abstract!Init
  OBVIOUS
<1>1. Shape /\ DOMAIN stacks = Names /\ \A s \in Names : stacks[s] = stack_ctor
  BY ShapeInit DEF Init
<1>2. IsStack(heap, stack_ctor, << >>)
  BY DEF IsStack, IsChain, stack_ctor, At
<1>3. \A s \in Names : IsStack(heap, stacks[s], << >>)
  BY <1>1, <1>2
<1>4. \A s \in Names : Contents(s) = << >>
  BY <1>3, ContentsKnown
<1>5. Nodes \ Unlinked = {}
  BY <1>4 DEF Unlinked, ToSet
<1> QED
  BY <1>4, <1>5 DEF Abstract!Init

(* The two ways of pushing give node the value v.                          *)
LEMMA ValuedNext ==
  ASSUME Shape, NEW s \in Names, NEW node \in Unlinked, NEW v \in Vals, NEW new,
         Step(s, new, Holding(node, v)), \A x \in Nodes : Listed(s, new, x) <=> x = node \/ x \notin Unlinked
  PROVE  Seqs' = [Seqs EXCEPT ![s] = new] /\ Values' = Abstract!Valued(node, v)
<1>1. /\ Seqs' = [Seqs EXCEPT ![s] = new]
      /\ \A x \in Nodes : x \notin Unlinked' <=> Listed(s, new, x)
  BY MappedNext DEF Step
<1>2. node \in Nodes /\ heap \in Heaps(Vals)
  BY DEF Shape, Unlinked
<1>3. \A x \in Nodes : heap'[x].val = IF x = node THEN v ELSE heap[x].val
  <2> DEFINE h == Holding(node, v)
  <2>1. h \in Heaps(Vals) /\ h[node].val = v /\ \A x \in Nodes : x # node => h[x] = heap[x]
    BY <1>2, Held
  <2>2. \A x \in Nodes : heap'[x].val = h[x].val
    BY DEF Step
  <2> HIDE DEF h
  <2> QED
    BY <1>2, <2>1, <2>2
<1>4. Nodes \ Unlinked' = (Nodes \ Unlinked) \cup {node}
  BY <1>1, <1>2
<1>5. Abstract!Valued(node, v)
        = [n \in (Nodes \ Unlinked) \cup {node} |-> IF n = node THEN v ELSE heap[n].val]
  BY DEF Abstract!Valued
<1>6. Values' = [n \in (Nodes \ Unlinked) \cup {node} |-> heap'[n].val]
  BY <1>4 DEF Values
<1> QED
  BY <1>1, <1>2, <1>3, <1>5, <1>6

LEMMA ListedNow ==
  ASSUME Shape, NEW s \in Names, NEW x \in Nodes
  PROVE  x \notin Unlinked <=> Listed(s, Contents(s), x)
BY UnlinkedNodes DEF Listed

LEMMA PushMaps ==
  ASSUME Shape, NEW s \in Names, NEW node \in Nodes, NEW v \in Vals, Push(s, node, v)
  PROVE  Abstract!Push(s, node, v)
<1> DEFINE new == <<node>> \o Contents(s)
<1>1. node \in Unlinked /\ Step(s, new, Holding(node, v))
  BY PushStep DEF Push
<1>2. \A x \in Nodes : Listed(s, new, x) <=> x = node \/ x \notin Unlinked
  <2>1. /\ Contents(s) \in Seq(Nodes) /\ Len(Contents(s)) \in Nat
        /\ Len(new) = Len(Contents(s)) + 1 /\ new[1] = node
        /\ \A i \in 1 .. Len(Contents(s)) : new[i + 1] = Contents(s)[i]
    BY ContentsFit, NewFront
  <2> HIDE DEF new
  <2>2. \A x : (\E i \in 1 .. Len(new) : new[i] = x)
               <=> x = node \/ \E i \in 1 .. Len(Contents(s)) : Contents(s)[i] = x
    <3>1. \A i \in 1 .. Len(new) : i = 1 \/ (i - 1 \in 1 .. Len(Contents(s)) /\ (i - 1) + 1 = i)
      BY <2>1
    <3>2. \A i \in 1 .. Len(new) : new[i] = node \/ \E j \in 1 .. Len(Contents(s)) : Contents(s)[j] = new[i]
      BY <2>1, <3>1
    <3>3. 1 \in 1 .. Len(new) /\ \A i \in 1 .. Len(Contents(s)) : i + 1 \in 1 .. Len(new)
      BY <2>1
    <3> QED
      BY <2>1, <3>2, <3>3
  <2> QED
    BY <2>2, ListedNow DEF Listed
<1>3. Seqs' = [Seqs EXCEPT ![s] = new] /\ Values' = Abstract!Valued(node, v)
  <2> HIDE DEF new
  <2> QED
    BY <1>1, <1>2, ValuedNext
<1>4. new = <<node>> \o Seqs[s]
  BY DEF Seqs
<1> HIDE DEF new
<1> QED
  BY <1>1, <1>3, <1>4, Same DEF Abstract!Push, Seqs, Values

LEMMA PushBackMaps ==
  ASSUME Shape, NEW s \in Names, NEW node \in Nodes, NEW v \in Vals, PushBack(s, node, v)
  PROVE  Abstract!PushBack(s, node, v)
<1> DEFINE new == Append(Contents(s), node)
<1>1. node \in Unlinked /\ Step(s, new, Holding(node, v))
  BY PushBackStep DEF PushBack
<1>2. \A x \in Nodes : Listed(s, new, x) <=> x = node \/ x \notin Unlinked
  <2>1. /\ Contents(s) \in Seq(Nodes) /\ Len(Contents(s)) \in Nat
        /\ Len(new) = Len(Contents(s)) + 1 /\ new[Len(Contents(s)) + 1] = node
        /\ \A i \in 1 .. Len(Contents(s)) : new[i] = Contents(s)[i]
    BY ContentsFit, AppendProperties
  <2> HIDE DEF new
  <2>2. \A x : (\E i \in 1 .. Len(new) : new[i] = x)
               <=> x = node \/ \E i \in 1 .. Len(Contents(s)) : Contents(s)[i] = x
    <3>1. \A i \in 1 .. Len(new) : i = Len(Contents(s)) + 1 \/ i \in 1 .. Len(Contents(s))
      BY <2>1
    <3>2. /\ Len(Contents(s)) + 1 \in 1 .. Len(new)
          /\ \A i \in 1 .. Len(Contents(s)) : i \in 1 .. Len(new)
      BY <2>1
    <3> QED
      BY <2>1, <3>1, <3>2
  <2> QED
    BY <2>2, ListedNow DEF Listed
<1>3. Seqs' = [Seqs EXCEPT ![s] = new] /\ Values' = Abstract!Valued(node, v)
  <2> HIDE DEF new
  <2> QED
    BY <1>1, <1>2, ValuedNext
<1>4. new = Append(Seqs[s], node)
  BY DEF Seqs
<1> HIDE DEF new
<1> QED
  BY <1>1, <1>3, <1>4, Same DEF Abstract!PushBack, Seqs, Values

LEMMA PopMaps ==
  ASSUME Shape, NEW s \in Names, Pop(s)
  PROVE  Abstract!Pop(s)
<1> DEFINE seq == Contents(s)
           new == Tail(seq)
<1>1. seq # << >> /\ Step(s, new, heap)
  BY PopStep
<1>2. /\ seq \in Seq(Nodes) /\ Len(seq) \in Nat /\ Head(seq) = seq[1]
      /\ \A i, j \in 1 .. Len(seq) : seq[i] = seq[j] => i = j
  BY ContentsFit
<1>3. Len(new) = Len(seq) - 1 /\ \A i \in 1 .. Len(seq) - 1 : new[i] = seq[i + 1]
  BY <1>1, <1>2, HeadTailProperties
<1>4. Len(seq) >= 1
  BY <1>1, <1>2
<1>5. /\ Seqs' = [Seqs EXCEPT ![s] = new]
      /\ \A x \in Nodes : x \notin Unlinked' <=> Listed(s, new, x)
  BY <1>1, MappedNext DEF Step
<1> HIDE DEF new
<1>6. \A x : (\E i \in 1 .. Len(new) : new[i] = x) <=> x # seq[1] /\ \E i \in 1 .. Len(seq) : seq[i] = x
  <2> HIDE DEF seq
  <2>1. \A i \in 1 .. Len(new) : i + 1 \in 1 .. Len(seq) /\ i + 1 # 1 /\ new[i] = seq[i + 1]
    BY <1>2, <1>3
  <2>2. \A i \in 1 .. Len(seq) : i # 1 => i - 1 \in 1 .. Len(new) /\ new[i - 1] = seq[i]
    <3> TAKE i \in 1 .. Len(seq)
    <3> HAVE i # 1
    <3>1. i - 1 \in 1 .. Len(seq) - 1 /\ (i - 1) + 1 = i
      BY <1>2
    <3> QED
      BY <1>3, <3>1
  <2>3. 1 \in 1 .. Len(seq)
    BY <1>2, <1>4
  <2>4. \A i \in 1 .. Len(new) : seq[i + 1] # seq[1]
    BY <1>2, <2>1, <2>3
  <2>5. ASSUME NEW x, NEW i \in 1 .. Len(new), new[i] = x
        PROVE  x # seq[1] /\ \E j \in 1 .. Len(seq) : seq[j] = x
    BY <2>1, <2>4, <2>5
  <2>6. ASSUME NEW x, x # seq[1], NEW j \in 1 .. Len(seq), seq[j] = x
        PROVE  \E i \in 1 .. Len(new) : new[i] = x
    BY <2>2, <2>6
  <2> QED
    BY <2>5, <2>6
<1>7. \A x \in Nodes : Listed(s, new, x) <=> x # seq[1] /\ Listed(s, seq, x)
  <2>1. 1 \in 1 .. Len(seq)
    BY <1>2, <1>4
  <2>2. \A t \in Names \ {s} : \A i \in 1 .. Len(Contents(t)) : Contents(t)[i] # seq[1]
    BY <2>1 DEF Shape, Apart
  <2> HIDE DEF seq
  <2> QED
    BY <1>6, <2>2 DEF Listed
<1>8. Nodes \ Unlinked' = (Nodes \ Unlinked) \ {seq[1]}
  <2>1. \A x \in Nodes : x \notin Unlinked <=> Listed(s, seq, x)
    BY ListedNow
  <2> HIDE DEF seq
  <2> QED
    BY <1>5, <1>7, <2>1
<1>9. Values' = [n \in (Nodes \ Unlinked) \ {seq[1]} |-> heap'[n].val]
  BY <1>8 DEF Values
<1>10. \A n \in Nodes : heap'[n].val = heap[n].val
  BY <1>1 DEF Step
<1>11. Values' = [n \in DOMAIN Values \ {Head(Seqs[s])} |-> Values[n]]
  <2>1. DOMAIN Values = Nodes \ Unlinked /\ \A n \in Nodes \ Unlinked : Values[n] = heap[n].val
    BY DEF Values
  <2>2. Head(Seqs[s]) = seq[1]
    BY <1>2 DEF Seqs
  <2> HIDE DEF seq
  <2> QED
    BY <1>9, <1>10, <2>1, <2>2
<1>12. Seqs[s] # << >> /\ new = Tail(Seqs[s])
  BY <1>1 DEF Seqs, new
<1> HIDE DEF seq
<1> QED
  BY <1>5, <1>11, <1>12 DEF Abstract!Pop, Seqs, Values

LEMMA TurnMaps ==
  ASSUME Shape, NEW s \in Names, Turn(s)
  PROVE  Abstract!Turn(s)
<1> DEFINE seq == Contents(s)
           new == Reverse(seq)
<1>1. Step(s, new, heap)
  BY TurnStep
<1>2. seq \in Seq(Nodes) /\ Len(seq) \in Nat
  BY ContentsFit
<1>3. Len(new) = Len(seq) /\ \A i \in 1 .. Len(seq) : new[i] = seq[(Len(seq) - i) + 1]
  BY <1>2, ReverseProperties
<1>4. /\ Seqs' = [Seqs EXCEPT ![s] = new]
      /\ \A x \in Nodes : x \notin Unlinked' <=> Listed(s, new, x)
  BY <1>1, MappedNext DEF Step
<1> HIDE DEF new
<1>5. \A x : (\E i \in 1 .. Len(new) : new[i] = x) <=> \E i \in 1 .. Len(seq) : seq[i] = x
  <2> HIDE DEF seq
  <2>1. \A i \in 1 .. Len(seq) : /\ (Len(seq) - i) + 1 \in 1 .. Len(seq)
                                 /\ (Len(seq) - ((Len(seq) - i) + 1)) + 1 = i
    BY <1>2
  <2> QED
    BY <1>3, <2>1
<1>6. Nodes \ Unlinked' = Nodes \ Unlinked
  <2>1. \A x \in Nodes : x \notin Unlinked <=> Listed(s, seq, x)
    BY ListedNow
  <2> HIDE DEF seq
  <2> QED
    BY <1>4, <1>5, <2>1 DEF Listed
<1>7. \A n \in Nodes : heap'[n].val = heap[n].val
  BY <1>1 DEF Step
<1>8. Values' = Values
  BY <1>6, <1>7 DEF Values
<1>9. new = Abstract!Reverse(Seqs[s])
  BY Same DEF Seqs, new
<1> QED
  BY <1>4, <1>8, <1>9 DEF Abstract!Turn, Seqs, Values

LEMMA CopyMaps ==
  ASSUME Shape, NEW s \in Names, NEW t \in Names \ {s}, NEW end \in {"back", "front"},
         stacks[t] = stack_ctor, NEW nodes \in Mallocs(Len(Contents(s))),
         Becomes(t, CopyOf(s, nodes, end)),
         NEW source, source = IF end = "back" THEN Contents(s) ELSE Reverse(Contents(s))
  PROVE  Seqs[t] = << >> /\ Abstract!Copied(source, t)
<1> DEFINE from == Contents(s)
           L == Len(nodes)
           new == Copies(nodes, end, L)
           k(i) == IF end = "back" THEN i ELSE (L - i) + 1
<1>1. /\ nodes \in Seq(Unlinked) /\ Injective(nodes) /\ L = Len(from)
      /\ Contents(t) = << >>
      /\ Replaced(t, new)
      /\ \A x \in Nodes : (\A j \in 1 .. L : nodes[j] # x) => heap'[x] = heap[x]
      /\ \A j \in 1 .. L : heap'[nodes[j]].val = heap[from[j]].val
  BY CopyStep
<1>2. L \in Nat /\ from \in Seq(Nodes) /\ \A j \in 1 .. L : nodes[j] \in Unlinked
  BY <1>1, ContentsFit
<1>3. \A i \in 1 .. L : k(i) \in 1 .. L /\ k(k(i)) = i
  <2> HIDE DEF new, from
  <2> QED
    BY <1>2
<1>4. new = [i \in 1 .. L |-> nodes[k(i)]]
  BY DEF Copies
<1> HIDE DEF new
<1>5. new \in Seq(Unlinked) /\ Len(new) = L /\ \A i \in 1 .. L : new[i] = nodes[k(i)]
  <2> HIDE DEF k, from
  <2> QED
    BY <1>2, <1>3, <1>4
<1>6. Injective(new)
  <2> HIDE DEF k, from
  <2>1. ASSUME NEW i \in 1 .. L, NEW j \in 1 .. L, new[i] = new[j]
        PROVE  i = j
    <3>1. nodes[k(i)] = nodes[k(j)] /\ k(i) \in 1 .. L /\ k(j) \in 1 .. L
      BY <1>3, <1>5, <2>1
    <3>2. k(i) = k(j)
      BY <1>1, <3>1 DEF Injective
    <3> QED
      BY <1>3, <3>2
  <2> QED
    BY <1>5, <2>1 DEF Injective
<1>7. source \in Seq(Nodes) /\ Len(source) = L /\ \A i \in 1 .. L : source[i] = from[k(i)]
  <2>1. CASE end = "back"
    BY <1>1, <1>2, <2>1
  <2>2. CASE end = "front"
    <3>1. source = Reverse(from) /\ \A i \in 1 .. L : k(i) = (L - i) + 1
      BY <2>2
    <3> HIDE DEF from, k
    <3> QED
      BY <1>1, <1>2, <3>1, ReverseProperties
  <2> QED
    BY <2>1, <2>2
<1>8. new \in Abstract!SetToAllKPermutations(Abstract!Free)
  <2>1. Unlinked \subseteq Nodes
    BY DEF Unlinked
  <2>2. IsFiniteSet(Unlinked)
    BY <2>1, NodesAssumption, FS_Subset
  <2>3. new \in SetToAllKPermutations(Unlinked)
    BY <1>5, <1>6, <2>2, Permuted
  <2> QED
    BY <2>3, Same
<1>9. /\ Seqs' = [Seqs EXCEPT ![t] = new]
      /\ \A x \in Nodes : x \notin Unlinked' <=> Listed(t, new, x)
  BY <1>1, MappedNext
<1>10. \A x \in Nodes : x \notin Unlinked' <=> x \in (Nodes \ Unlinked) \cup ToSet(new)
  <2>1. \A x \in Nodes : x \notin Unlinked <=> Listed(t, << >>, x)
    BY <1>1, ListedNow
  <2>2. \A x : x \in ToSet(new) <=> \E i \in 1 .. Len(new) : new[i] = x
    BY <1>5, SetOfList
  <2>3. \A x \in Nodes : Listed(t, new, x) <=> Listed(t, << >>, x) \/ x \in ToSet(new)
    BY <2>2 DEF Listed
  <2> QED
    BY <1>9, <2>1, <2>3
<1>11. \A x \in Nodes \ Unlinked : heap'[x].val = heap[x].val
  BY <1>1, <1>2
<1>12. \A i \in 1 .. L : heap'[new[i]].val = heap[source[i]].val /\ source[i] \in Nodes \ Unlinked
  <2> TAKE i \in 1 .. L
  <2>1. k(i) \in 1 .. L /\ new[i] = nodes[k(i)] /\ source[i] = from[k(i)]
    BY <1>3, <1>5, <1>7
  <2>2. from[k(i)] \in Nodes \ Unlinked
    <3>1. \A j \in 1 .. L : from[j] \in Nodes /\ from[j] \notin Unlinked
      BY <1>1, <1>2, UnlinkedNodes
    <3> HIDE DEF k, from
    <3> QED
      BY <2>1, <3>1
  <2> HIDE DEF k, from
  <2> QED
    BY <1>1, <2>1, <2>2
<1> DEFINE copied == [n \in (Nodes \ Unlinked) \cup ToSet(new) |->
                       IF n \in Nodes \ Unlinked THEN Values[n]
                       ELSE Values[source[CHOOSE i \in DOMAIN new : new[i] = n]]]
<1>13. Values' = copied
  <2>1. Values' = [n \in Nodes \ Unlinked' |-> heap'[n].val]
    BY DEF Values
  <2>2. ToSet(new) \subseteq Unlinked /\ Unlinked \subseteq Nodes
    <3>1. \A x : x \in ToSet(new) <=> \E i \in 1 .. Len(new) : new[i] = x
      BY <1>5, SetOfList
    <3> QED
      BY <1>5, <3>1 DEF Unlinked
  <2>3. Nodes \ Unlinked' = (Nodes \ Unlinked) \cup ToSet(new)
    BY <1>10, <2>2
  <2>4. ASSUME NEW n \in ToSet(new)
        PROVE  n \notin Nodes \ Unlinked /\ heap'[n].val = Values[source[CHOOSE i \in DOMAIN new : new[i] = n]]
    <3>1. \E i \in 1 .. L : new[i] = n
      BY <1>5, <2>4, SetOfList
    <3>2. DOMAIN new = 1 .. L
      BY <1>5
    <3>3. PICK i \in 1 .. L : i = (CHOOSE j \in DOMAIN new : new[j] = n) /\ new[i] = n
      BY <3>1, <3>2
    <3>4. Values[source[i]] = heap[source[i]].val
      BY <1>12 DEF Values
    <3> QED
      BY <1>12, <2>2, <3>3, <3>4
  <2>5. \A n \in Nodes \ Unlinked : Values[n] = heap[n].val /\ heap'[n].val = heap[n].val
    BY <1>11 DEF Values
  <2>6. \A n \in (Nodes \ Unlinked) \cup ToSet(new) :
          heap'[n].val = IF n \in Nodes \ Unlinked THEN Values[n]
                         ELSE Values[source[CHOOSE i \in DOMAIN new : new[i] = n]]
    BY <2>4, <2>5
  <2> QED
    BY <2>1, <2>3, <2>6
<1>14. Seqs[t] = << >>
  BY <1>1 DEF Seqs
<1>15. Abstract!Copied(source, t)
  <2>1. DOMAIN Values = Nodes \ Unlinked
    BY DEF Values
  <2>2. Values' = [n \in DOMAIN Values \cup Abstract!ToSet(new) |->
                    IF n \in DOMAIN Values THEN Values[n]
                    ELSE Values[source[CHOOSE i \in DOMAIN new : new[i] = n]]]
    BY <1>13, <2>1, Same
  <2>3. Len(new) = Len(source)
    BY <1>5, <1>7
  <2> HIDE DEF copied, k, from
  <2> QED
    BY <1>8, <1>9, <2>2, <2>3 DEF Abstract!Copied, Seqs, Values
<1> QED
  BY <1>14, <1>15

LEMMA StepMaps == Shape /\ [Next]_vars => [Abstract!Next]_<<Seqs, Values>>
<1> SUFFICES ASSUME Shape, [Next]_vars
             PROVE  Abstract!Next \/ UNCHANGED <<Seqs, Values>>
  OBVIOUS
<1>1. ASSUME NEW s \in Names, NEW node \in Nodes, NEW v \in Vals, Push(s, node, v)
      PROVE  Abstract!Next
  BY <1>1, PushMaps DEF Abstract!Next
<1>2. ASSUME NEW s \in Names, NEW node \in Nodes, NEW v \in Vals, PushBack(s, node, v)
      PROVE  Abstract!Next
  BY <1>2, PushBackMaps DEF Abstract!Next
<1>3. ASSUME NEW s \in Names, Pop(s)
      PROVE  Abstract!Next
  BY <1>3, PopMaps DEF Abstract!Next
<1>4. ASSUME NEW s \in Names, Turn(s)
      PROVE  Abstract!Next
  BY <1>4, TurnMaps DEF Abstract!Next
<1>5. ASSUME NEW s \in Names, NEW t \in Names \ {s}, stack_dup(s, t)
      PROVE  Abstract!Next
  <2>1. PICK nodes \in Mallocs(Len(Contents(s))) : Becomes(t, CopyOf(s, nodes, "back"))
    BY <1>5 DEF stack_dup
  <2>2. stacks[t] = stack_ctor
    BY <1>5 DEF stack_dup
  <2>3. Seqs[t] = << >> /\ Abstract!Copied(Contents(s), t)
    BY <2>1, <2>2, CopyMaps
  <2>4. Seqs[s] = Contents(s)
    BY DEF Seqs
  <2>5. Abstract!Copy(s, t)
    BY <2>3, <2>4 DEF Abstract!Copy, Seqs
  <2> QED
    BY <2>5 DEF Abstract!Next
<1>6. ASSUME NEW s \in Names, NEW t \in Names \ {s}, stack_rdup(s, t)
      PROVE  Abstract!Next
  <2>1. PICK nodes \in Mallocs(Len(Contents(s))) : Becomes(t, CopyOf(s, nodes, "front"))
    BY <1>6 DEF stack_rdup
  <2>2. stacks[t] = stack_ctor
    BY <1>6 DEF stack_rdup
  <2>3. Seqs[t] = << >> /\ Abstract!Copied(Reverse(Contents(s)), t)
    BY <2>1, <2>2, CopyMaps
  <2>4. Seqs[s] = Contents(s)
    BY DEF Seqs
  <2>5. Abstract!CopyBackwards(s, t)
    BY <2>3, <2>4, Same DEF Abstract!CopyBackwards, Seqs
  <2> QED
    BY <2>5 DEF Abstract!Next
<1>7. CASE UNCHANGED vars
  <2>1. heap' = heap /\ stacks' = stacks
    BY <1>7 DEF vars
  <2> QED
    BY <2>1 DEF Seqs, Values, Contents, Unlinked
<1> QED
  BY <1>1, <1>2, <1>3, <1>4, <1>5, <1>6, <1>7 DEF Next

(***************************************************************************)
(* The program's stacks implement sequences of nodes: push, append and pop *)
(* work at the ends, reverse turns the whole sequence, a copy has the      *)
(* values of its original in the order of the loop, and no operation on    *)
(* one stack changes another, or the value of a node.                      *)
(***************************************************************************)
THEOREM StacksAreSequences == Spec => ImplementsSequences
<1>1. Shape /\ [Next]_vars
        => [Abstract!Next]_<<[s \in Names |-> Contents(s)], [n \in Nodes \ Unlinked |-> heap[n].val]>>
  BY StepMaps DEF Seqs, Values
<1> QED
  BY InitMaps, <1>1, ShapeAlways, PTL DEF Spec, ImplementsSequences, Abstract!Spec

-----------------------------------------------------------------------------
(* The free stack                                                          *)

VARIABLES used, unused

Free == INSTANCE Fstack

(* The operators of the instance are those of StackList and SequencesExt.  *)
LEMMA SameLists ==
  /\ \A h, s, n : Free!stack_push(h, s, n) = stack_push(h, s, n)
  /\ \A h, s : Free!stack_pop(h, s) = stack_pop(h, s)
  /\ \A h, s, a, b : Free!stack_walk(h, s, a, b) = stack_walk(h, s, a, b)
  /\ \A h, s : Free!NodesOf(h, s) = NodesOf(h, s)
  /\ \A q, a, b : Free!WalkedRange(q, a, b) = WalkedRange(q, a, b)
  /\ Free!stack_ctor = stack_ctor
  /\ \A seq : Free!ToSet(seq) = ToSet(seq)
  /\ \A seq : Free!Reverse(seq) = Reverse(seq)
<1>1. \A h, s, n : Free!stack_push(h, s, n) = stack_push(h, s, n)
  BY Zenon DEF Free!stack_push, stack_push
<1>2. \A h, s : Free!stack_pop(h, s) = stack_pop(h, s)
  BY Zenon DEF Free!stack_pop, stack_pop
<1>3. \A h, s, a, b : Free!stack_walk(h, s, a, b) = stack_walk(h, s, a, b)
  BY Zenon DEF Free!stack_walk, stack_walk, Free!Walked, Walked, Free!Reached, Reached,
               Free!Cardinality, Cardinality
<1>4. \A h, s : Free!NodesOf(h, s) = NodesOf(h, s)
  BY Zenon, <1>3 DEF Free!NodesOf, NodesOf
<1>5. \A q, a, b : Free!WalkedRange(q, a, b) = WalkedRange(q, a, b)
  BY Zenon DEF Free!WalkedRange, WalkedRange
<1>6. Free!stack_ctor = stack_ctor
  BY DEF Free!stack_ctor, stack_ctor
<1>7. \A seq : Free!ToSet(seq) = ToSet(seq)
  BY DEF Free!ToSet, ToSet
<1>8. \A seq : Free!Reverse(seq) = Reverse(seq)
  BY DEF Free!Reverse, Reverse
<1> QED
  BY <1>1, <1>2, <1>3, <1>4, <1>5, <1>6, <1>7, <1>8

-----------------------------------------------------------------------------
UsedList   == NodesOf(heap, used)
UnusedList == NodesOf(heap, unused)

(* The two lists of the free stack, which have no node in common.          *)
FreeShape ==
  /\ heap \in Heaps(Vals)
  /\ IsStack(heap, used, UsedList)
  /\ IsStack(heap, unused, UnusedList)
  /\ Apart(UsedList, UnusedList)

LEMMA ListsKnown ==
  ASSUME NEW h, NEW a, NEW b, NEW q, NEW u, IsStack(h, a, q), IsStack(h, b, u)
  PROVE  NodesOf(h, a) = q /\ NodesOf(h, b) = u
BY AllVisited DEF IsStack

LEMMA BothNext ==
  ASSUME NEW h \in Heaps(Vals), NEW a, NEW b, heap' = h, used' = a, unused' = b,
         NEW q, NEW u, IsStack(h, a, q), IsStack(h, b, u), Apart(q, u)
  PROVE  FreeShape' /\ UsedList' = q /\ UnusedList' = u
<1>1. NodesOf(h, a) = q /\ NodesOf(h, b) = u
  BY ListsKnown
<1>2. UsedList' = q /\ UnusedList' = u
  BY <1>1 DEF UsedList, UnusedList
<1> QED
  BY <1>2 DEF FreeShape

LEMMA FreeLists ==
  ASSUME FreeShape
  PROVE  /\ UsedList \in Seq(Nodes) /\ UnusedList \in Seq(Nodes)
         /\ Len(UsedList) \in Nat /\ Len(UnusedList) \in Nat
         /\ Injective(UsedList) /\ Injective(UnusedList)
         /\ used = [ front  |-> At(UsedList, 1), back |-> At(UsedList, Len(UsedList)),
                     length |-> Len(UsedList) ]
         /\ unused = [ front  |-> At(UnusedList, 1), back |-> At(UnusedList, Len(UnusedList)),
                       length |-> Len(UnusedList) ]
         /\ IsStack(heap, used, UsedList) /\ IsStack(heap, unused, UnusedList)
<1>1. IsStack(heap, used, UsedList) /\ IsStack(heap, unused, UnusedList)
  BY DEF FreeShape
<1>2. UsedList \in Seq(Nodes) /\ UnusedList \in Seq(Nodes)
  BY <1>1 DEF IsStack, IsChain
<1>3. Injective(UsedList) /\ Injective(UnusedList)
  BY <1>1 DEF IsStack, IsChain, Injective
<1> QED
  BY <1>1, <1>2, <1>3 DEF IsStack

LEMMA FreshNodes ==
  ASSUME FreeShape, NEW x
  PROVE  x \in Free!Fresh <=> /\ x \in Nodes
                              /\ \A i \in 1 .. Len(UsedList) : UsedList[i] # x
                              /\ \A i \in 1 .. Len(UnusedList) : UnusedList[i] # x
<1>1. Free!UsedNodes = UsedList /\ Free!UnusedNodes = UnusedList
  BY SameLists DEF Free!UsedNodes, Free!UnusedNodes, UsedList, UnusedList
<1>2. Free!Fresh = Nodes \ (ToSet(UsedList) \cup ToSet(UnusedList))
  BY <1>1, SameLists DEF Free!Fresh
<1>3. /\ \A y : y \in ToSet(UsedList) <=> \E i \in 1 .. Len(UsedList) : UsedList[i] = y
      /\ \A y : y \in ToSet(UnusedList) <=> \E i \in 1 .. Len(UnusedList) : UnusedList[i] = y
  BY FreeLists, SetOfList
<1> QED
  BY <1>2, <1>3

(* A value is given to a node of neither list that it may disturb.         *)
LEMMA Given ==
  ASSUME NEW V, NEW h \in Heaps(V), NEW node \in Nodes, NEW v \in V
  PROVE  \E g \in Heaps(V) : /\ g = [h EXCEPT ![node].val = v] /\ g[node].val = v
                             /\ \A x \in Nodes : x # node => g[x] = h[x]
<1> DEFINE cell == [h[node] EXCEPT !.val = v]
           g == [h EXCEPT ![node] = cell]
<1>1. h[node] \in [val : V, next : Nodes \cup {NULL}] /\ DOMAIN h = Nodes
  BY DEF Heaps
<1>2. cell \in [val : V, next : Nodes \cup {NULL}] /\ cell.val = v
  BY <1>1
<1>3. g = [h EXCEPT ![node].val = v]
  OBVIOUS
<1> HIDE DEF cell
<1>4. g \in Heaps(V) /\ g[node].val = v /\ \A x \in Nodes : x # node => g[x] = h[x]
  BY <1>1, <1>2 DEF Heaps
<1> HIDE DEF g
<1> QED
  BY <1>3, <1>4

(* A node on top of a list; and off the top of it.                         *)
LEMMA PushedOn ==
  ASSUME NEW h \in Heaps(Vals), NEW stack, NEW seq, IsStack(h, stack, seq),
         NEW node \in Nodes, \A i \in 1 .. Len(seq) : seq[i] # node,
         NEW other, NEW rest, IsStack(h, other, rest), \A i \in 1 .. Len(rest) : rest[i] # node
  PROVE  \E r : /\ r = stack_push(h, stack, node)
                /\ r.heap \in Heaps(Vals)
                /\ \A x \in Nodes : r.heap[x].val = h[x].val
                /\ IsStack(r.heap, r.stack, <<node>> \o seq)
                /\ IsStack(r.heap, other, rest)
<1>1. PICK S : S = {node}
  OBVIOUS
<1>2. PICK r : r = stack_push(h, stack, node)
  OBVIOUS
<1>3. node \in S /\ \A i \in 1 .. Len(rest) : rest[i] \notin S
  BY <1>1
<1>4. r.heap \in Heaps(Vals) /\ Keeps(h, r.heap, S) /\ IsStack(r.heap, r.stack, <<node>> \o seq)
  BY <1>2, <1>3, Pushed
<1>5. Touches(h, r.heap, S) /\ \A x \in Nodes : r.heap[x].val = h[x].val
  BY <1>4 DEF Keeps, Touches
<1>6. IsStack(r.heap, other, rest)
  BY <1>3, <1>5, StackStays
<1> QED
  BY <1>2, <1>4, <1>5, <1>6

LEMMA PoppedOff ==
  ASSUME NEW h \in Heaps(Vals), NEW stack, NEW seq, IsStack(h, stack, seq), seq # << >>,
         NEW other, NEW rest, IsStack(h, other, rest), \A i \in 1 .. Len(rest) : rest[i] # seq[1]
  PROVE  \E r : /\ r = stack_pop(h, stack)
                /\ r.heap \in Heaps(Vals)
                /\ \A x \in Nodes : r.heap[x].val = h[x].val
                /\ IsStack(r.heap, r.stack, Tail(seq))
                /\ IsStack(r.heap, other, rest)
<1>1. PICK S : S = {seq[1]}
  OBVIOUS
<1>2. PICK r : r = stack_pop(h, stack)
  OBVIOUS
<1>3. seq[1] \in S /\ \A i \in 1 .. Len(rest) : rest[i] \notin S
  BY <1>1
<1>4. r.heap \in Heaps(Vals) /\ Keeps(h, r.heap, S) /\ IsStack(r.heap, r.stack, Tail(seq))
  BY <1>2, <1>3, Popped
<1>5. Touches(h, r.heap, S) /\ \A x \in Nodes : r.heap[x].val = h[x].val
  BY <1>4 DEF Keeps, Touches
<1>6. IsStack(r.heap, other, rest)
  BY <1>3, <1>5, StackStays
<1> QED
  BY <1>2, <1>4, <1>5, <1>6

(* Lists stay apart when a node of neither joins one, or one's first node  *)
(* joins the other.                                                        *)
LEMMA ApartJoined ==
  ASSUME NEW q \in Seq(Nodes), NEW u \in Seq(Nodes), Apart(q, u), NEW node \in Nodes,
         \A i \in 1 .. Len(q) : q[i] # node
  PROVE  Apart(q, <<node>> \o u) /\ Apart(<<node>> \o u, q)
<1> DEFINE new == <<node>> \o u
<1>1. /\ Len(u) \in Nat /\ Len(q) \in Nat /\ Len(new) = Len(u) + 1 /\ new[1] = node
      /\ \A i \in 1 .. Len(u) : new[i + 1] = u[i]
  BY NewFront
<1> HIDE DEF new
<1>2. \A i \in 1 .. Len(new) : new[i] = node \/ \E j \in 1 .. Len(u) : new[i] = u[j]
  <2> TAKE i \in 1 .. Len(new)
  <2>1. i = 1 \/ (i - 1 \in 1 .. Len(u) /\ (i - 1) + 1 = i)
    BY <1>1
  <2> QED
    BY <1>1, <2>1
<1>3. Apart(q, new) /\ Apart(new, q)
  BY <1>2 DEF Apart
<1> QED
  BY <1>3 DEF new

LEMMA ApartMoved ==
  ASSUME NEW q \in Seq(Nodes), NEW u \in Seq(Nodes), Apart(q, u), q # << >>, Injective(q)
  PROVE  /\ q[1] \in Nodes /\ Tail(q) \in Seq(Nodes) /\ Len(Tail(q)) = Len(q) - 1
         /\ \A i \in 1 .. Len(u) : u[i] # q[1]
         /\ \A i \in 1 .. Len(Tail(q)) : Tail(q)[i] # q[1] /\ Tail(q)[i] = q[i + 1]
         /\ Apart(Tail(q), <<q[1]>> \o u) /\ Apart(<<q[1]>> \o u, Tail(q))
<1>1. PICK new \in Seq(Nodes) : new = Tail(q)
  BY HeadTailProperties
<1>2. /\ Len(q) \in Nat /\ Len(u) \in Nat /\ Len(new) = Len(q) - 1 /\ q[1] \in Nodes
      /\ \A i \in 1 .. Len(new) : new[i] = q[i + 1]
      /\ 1 \in 1 .. Len(q)
  BY <1>1, HeadTailProperties
<1>3. \A i \in 1 .. Len(new) : i + 1 \in 1 .. Len(q) /\ i + 1 # 1
  BY <1>2
<1>4. \A i \in 1 .. Len(new) : new[i] # q[1]
  BY <1>2, <1>3 DEF Injective
<1>5. \A i \in 1 .. Len(u) : u[i] # q[1]
  BY <1>2 DEF Apart
<1>6. Apart(new, u)
  BY <1>2, <1>3 DEF Apart
<1>7. Apart(new, <<q[1]>> \o u) /\ Apart(<<q[1]>> \o u, new)
  BY <1>2, <1>4, <1>6, ApartJoined
<1> QED
  BY <1>1, <1>2, <1>4, <1>5, <1>7

LEMMA FreeInit == Free!Init => FreeShape
<1> SUFFICES ASSUME Free!Init
             PROVE  FreeShape
  OBVIOUS
<1>1. heap \in Heaps(Vals)
  BY DEF Free!Init, Heaps
<1>2. used = stack_ctor /\ unused = stack_ctor
  BY SameLists DEF Free!Init, Free!fstack_ctor
<1>3. IsStack(heap, stack_ctor, << >>)
  BY DEF IsStack, IsChain, stack_ctor, At
<1>4. IsStack(heap, used, << >>) /\ IsStack(heap, unused, << >>)
  BY <1>2, <1>3
<1>5. UsedList = << >> /\ UnusedList = << >>
  BY <1>4, ListsKnown DEF UsedList, UnusedList
<1> QED
  BY <1>1, <1>4, <1>5 DEF FreeShape, Apart

(* What each operation does to the two lists and the values.               *)
Moves(q, u) == FreeShape' /\ UsedList' = q /\ UnusedList' = u

SameVals == \A x \in Nodes : heap'[x].val = heap[x].val

OneVal(node, v) == \A x \in Nodes : heap'[x].val = IF x = node THEN v ELSE heap[x].val

LEMMA GrowStep ==
  ASSUME FreeShape, NEW node \in Nodes, Free!fstack_grow(node)
  PROVE  node \in Free!Fresh /\ Moves(UsedList, <<node>> \o UnusedList) /\ SameVals
<1>1. node \in Free!Fresh
  BY DEF Free!fstack_grow
<1>2. PICK r : /\ r = stack_push(heap, unused, node)
               /\ r.heap \in Heaps(Vals)
               /\ \A x \in Nodes : r.heap[x].val = heap[x].val
               /\ IsStack(r.heap, r.stack, <<node>> \o UnusedList)
               /\ IsStack(r.heap, used, UsedList)
  <2>1. heap \in Heaps(Vals)
    BY DEF FreeShape
  <2> QED
    BY <1>1, <2>1, FreshNodes, FreeLists, PushedOn
<1>3. heap' = r.heap /\ unused' = r.stack /\ used' = used
  BY <1>2, SameLists DEF Free!fstack_grow
<1>4. Apart(UsedList, <<node>> \o UnusedList)
  <2>1. Apart(UsedList, UnusedList)
    BY DEF FreeShape
  <2> QED
    BY <1>1, <2>1, FreshNodes, FreeLists, ApartJoined
<1>5. Moves(UsedList, <<node>> \o UnusedList)
  <2> DEFINE new == <<node>> \o UnusedList
  <2> HIDE DEF new
  <2>1. Moves(UsedList, new)
    BY <1>2, <1>3, <1>4, BothNext DEF Moves, new
  <2> QED
    BY <2>1 DEF new
<1>6. SameVals
  BY <1>2, <1>3 DEF SameVals
<1> QED
  BY <1>1, <1>5, <1>6

(* The user's value and the push on top of used.                           *)
LEMMA UsedStep ==
  ASSUME NEW h \in Heaps(Vals), NEW q, IsStack(h, used, q), NEW b, NEW u, IsStack(h, b, u),
         NEW node \in Nodes, NEW v \in Vals, Free!Used(h, node, v),
         \A i \in 1 .. Len(q) : q[i] # node, \A i \in 1 .. Len(u) : u[i] # node
  PROVE  /\ heap' \in Heaps(Vals)
         /\ IsStack(heap', used', <<node>> \o q) /\ IsStack(heap', b, u)
         /\ \A x \in Nodes : heap'[x].val = IF x = node THEN v ELSE h[x].val
<1>1. PICK g \in Heaps(Vals) : /\ g = [h EXCEPT ![node].val = v] /\ g[node].val = v
                               /\ \A x \in Nodes : x # node => g[x] = h[x]
  BY Given
<1>2. PICK S : S = {node}
  OBVIOUS
<1>3. /\ Touches(h, g, S) /\ \A i \in 1 .. Len(q) : q[i] \notin S
      /\ \A i \in 1 .. Len(u) : u[i] \notin S
  BY <1>1, <1>2 DEF Touches
<1>4. IsStack(g, used, q) /\ IsStack(g, b, u)
  BY <1>3, StackStays
<1>5. PICK r : /\ r = stack_push(g, used, node)
               /\ r.heap \in Heaps(Vals)
               /\ \A x \in Nodes : r.heap[x].val = g[x].val
               /\ IsStack(r.heap, r.stack, <<node>> \o q)
               /\ IsStack(r.heap, b, u)
  BY <1>4, PushedOn
<1>6. heap' = r.heap /\ used' = r.stack
  <2>1. r = Free!stack_push([h EXCEPT ![node].val = v], used, node)
    BY <1>1, <1>5, SameLists
  <2> QED
    BY <2>1 DEF Free!Used
<1>7. \A x \in Nodes : heap'[x].val = IF x = node THEN v ELSE h[x].val
  BY <1>1, <1>5, <1>6
<1>8. heap' \in Heaps(Vals) /\ IsStack(heap', b, u)
  BY <1>5, <1>6
<1>9. IsStack(heap', used', <<node>> \o q)
  <2> DEFINE new == <<node>> \o q
  <2>1. IsStack(r.heap, r.stack, new)
    BY <1>5
  <2> HIDE DEF new
  <2>2. IsStack(heap', used', new)
    BY <1>6, <2>1
  <2> QED
    BY <2>2 DEF new
<1> QED
  BY <1>7, <1>8, <1>9

LEMMA PushFreeStep ==
  ASSUME FreeShape, NEW v \in Vals, Free!fstack_push(v)
  PROVE  /\ UnusedList # << >>
         /\ Moves(<<UnusedList[1]>> \o UsedList, Tail(UnusedList)) /\ OneVal(UnusedList[1], v)
<1> DEFINE U == UnusedList
           Q == UsedList
<1>1. /\ Q \in Seq(Nodes) /\ U \in Seq(Nodes) /\ Injective(U) /\ Apart(Q, U) /\ Apart(U, Q)
      /\ IsStack(heap, used, Q) /\ IsStack(heap, unused, U) /\ heap \in Heaps(Vals)
      /\ unused.length = Len(U) /\ unused.front = At(U, 1)
  BY FreeLists DEF FreeShape, Apart
<1>2. U # << >>
  BY <1>1 DEF Free!fstack_push
<1>3. unused.front = U[1]
  BY <1>1, <1>2 DEF At
<1> HIDE DEF U, Q
<1>4. /\ U[1] \in Nodes /\ Tail(U) \in Seq(Nodes)
      /\ \A i \in 1 .. Len(Q) : Q[i] # U[1]
      /\ \A i \in 1 .. Len(Tail(U)) : Tail(U)[i] # U[1]
      /\ Apart(<<U[1]>> \o Q, Tail(U))
  BY <1>1, <1>2, ApartMoved
<1>5. PICK r : /\ r = stack_pop(heap, unused)
               /\ r.heap \in Heaps(Vals)
               /\ \A x \in Nodes : r.heap[x].val = heap[x].val
               /\ IsStack(r.heap, r.stack, Tail(U))
               /\ IsStack(r.heap, used, Q)
  BY <1>1, <1>2, <1>4, PoppedOff
<1>6. Free!Used(r.heap, U[1], v) /\ unused' = r.stack
  BY <1>3, <1>5, SameLists DEF Free!fstack_push
<1> DEFINE new == <<U[1]>> \o Q
           rest == Tail(U)
           node == U[1]
<1>7. /\ heap' \in Heaps(Vals) /\ IsStack(heap', used', new) /\ IsStack(heap', r.stack, rest)
      /\ \A x \in Nodes : heap'[x].val = IF x = node THEN v ELSE r.heap[x].val
  <2>1. \A i \in 1 .. Len(rest) : rest[i] # U[1]
    BY <1>4
  <2> HIDE DEF rest
  <2>2. IsStack(r.heap, r.stack, rest)
    BY <1>5 DEF rest
  <2> QED
    BY <1>4, <1>5, <1>6, <2>1, <2>2, UsedStep
<1>8. Apart(new, rest)
  BY <1>4
<1> HIDE DEF new, rest
<1>9. Moves(new, rest)
  BY <1>6, <1>7, <1>8, BothNext DEF Moves
<1>10. OneVal(node, v)
  BY <1>5, <1>7 DEF OneVal
<1> QED
  BY <1>2, <1>9, <1>10 DEF U, Q, new, rest

LEMMA ExtendStep ==
  ASSUME FreeShape, NEW v \in Vals, NEW node \in Free!Fresh, Free!Used(heap, node, v), unused' = unused
  PROVE  Moves(<<node>> \o UsedList, UnusedList) /\ OneVal(node, v)
<1> DEFINE U == UnusedList
           Q == UsedList
<1>1. /\ Q \in Seq(Nodes) /\ U \in Seq(Nodes) /\ Apart(Q, U) /\ Apart(U, Q)
      /\ IsStack(heap, used, Q) /\ IsStack(heap, unused, U) /\ heap \in Heaps(Vals)
  BY FreeLists DEF FreeShape, Apart
<1>2. /\ node \in Nodes /\ \A i \in 1 .. Len(Q) : Q[i] # node
      /\ \A i \in 1 .. Len(U) : U[i] # node
  BY FreshNodes
<1> DEFINE new == <<node>> \o Q
<1> HIDE DEF U, Q
<1>3. /\ heap' \in Heaps(Vals) /\ IsStack(heap', used', new) /\ IsStack(heap', unused, U)
      /\ \A x \in Nodes : heap'[x].val = IF x = node THEN v ELSE heap[x].val
  BY <1>1, <1>2, UsedStep
<1>4. Apart(new, U)
  BY <1>1, <1>2, ApartJoined
<1> HIDE DEF new
<1>5. Moves(new, U)
  BY <1>3, <1>4, BothNext DEF Moves
<1>6. OneVal(node, v)
  BY <1>3 DEF OneVal
<1> QED
  BY <1>5, <1>6 DEF U, Q, new

LEMMA PopFreeStep ==
  ASSUME FreeShape, Free!fstack_pop
  PROVE  /\ UsedList # << >>
         /\ Moves(Tail(UsedList), <<UsedList[1]>> \o UnusedList) /\ SameVals
<1> DEFINE U == UnusedList
           Q == UsedList
<1>1. /\ Q \in Seq(Nodes) /\ U \in Seq(Nodes) /\ Injective(Q) /\ Apart(Q, U)
      /\ IsStack(heap, used, Q) /\ IsStack(heap, unused, U) /\ heap \in Heaps(Vals)
      /\ used.front = At(Q, 1)
  BY FreeLists DEF FreeShape
<1>2. Q # << >>
  <2>1. used.front # NULL
    BY DEF Free!fstack_pop
  <2> HIDE DEF Q
  <2> QED
    BY <1>1, <2>1 DEF At
<1>3. used.front = Q[1]
  BY <1>1, <1>2 DEF At
<1> HIDE DEF U, Q
<1>4. /\ Q[1] \in Nodes /\ Tail(Q) \in Seq(Nodes)
      /\ \A i \in 1 .. Len(U) : U[i] # Q[1]
      /\ \A i \in 1 .. Len(Tail(Q)) : Tail(Q)[i] # Q[1]
      /\ Apart(Tail(Q), <<Q[1]>> \o U)
  BY <1>1, <1>2, ApartMoved
<1> DEFINE rest == Tail(Q)
           new == <<Q[1]>> \o U
<1>5. PICK r : /\ r = stack_pop(heap, used)
               /\ r.heap \in Heaps(Vals)
               /\ \A x \in Nodes : r.heap[x].val = heap[x].val
               /\ IsStack(r.heap, r.stack, rest)
               /\ IsStack(r.heap, unused, U)
  BY <1>1, <1>2, <1>4, PoppedOff
<1>6. \A i \in 1 .. Len(rest) : rest[i] # Q[1]
  BY <1>4
<1>7. Apart(rest, new)
  BY <1>4
<1> HIDE DEF rest
<1>8. PICK p : /\ p = stack_push(r.heap, unused, Q[1])
               /\ p.heap \in Heaps(Vals)
               /\ \A x \in Nodes : p.heap[x].val = r.heap[x].val
               /\ IsStack(p.heap, p.stack, new)
               /\ IsStack(p.heap, r.stack, rest)
  BY <1>1, <1>4, <1>5, <1>6, PushedOn
<1>9. heap' = p.heap /\ used' = r.stack /\ unused' = p.stack
  BY <1>3, <1>5, <1>8, SameLists DEF Free!fstack_pop
<1> HIDE DEF new
<1>10. Moves(rest, new)
  BY <1>7, <1>8, <1>9, BothNext DEF Moves
<1>11. SameVals
  BY <1>5, <1>8, <1>9 DEF SameVals
<1> QED
  BY <1>2, <1>10, <1>11 DEF U, Q, rest, new

LEMMA FreeStep == FreeShape /\ [Free!Next]_Free!vars => FreeShape'
<1> SUFFICES ASSUME FreeShape, [Free!Next]_Free!vars
             PROVE  FreeShape'
  OBVIOUS
<1>1. ASSUME NEW node \in Nodes, Free!fstack_grow(node)
      PROVE  FreeShape'
  BY <1>1, GrowStep DEF Moves
<1>2. ASSUME NEW v \in Vals, Free!fstack_push(v)
      PROVE  FreeShape'
  BY <1>2, PushFreeStep DEF Moves
<1>3. ASSUME NEW v \in Vals, Free!fstack_alloc(v)
      PROVE  FreeShape'
  <2>1. CASE \E node \in Free!Fresh : Free!Used(heap, node, v) /\ unused' = unused
    BY <2>1, ExtendStep DEF Moves
  <2>2. CASE Free!fstack_push(v)
    BY <1>2, <2>2
  <2> QED
    BY <1>3, <2>1, <2>2 DEF Free!fstack_alloc
<1>4. CASE Free!fstack_pop
  BY <1>4, PopFreeStep DEF Moves
<1>5. CASE UNCHANGED Free!vars
  BY <1>5 DEF Free!vars, FreeShape, UsedList, UnusedList
<1> QED
  BY <1>1, <1>2, <1>3, <1>4, <1>5 DEF Free!Next

LEMMA FreeAlways == Free!Spec => []FreeShape
BY FreeInit, FreeStep, PTL DEF Free!Spec

-----------------------------------------------------------------------------
Cells      == Reverse(UsedList) \o UnusedList
FreeValues == [n \in Nodes \ Free!Fresh |-> heap[n].val]

(* Cells is what the refinement mapping gives for the abstract cells.      *)
LEMMA MappedLists ==
  /\ Cells = Free!Reverse(Free!UsedNodes) \o Free!UnusedNodes
  /\ Cells' = (Free!Reverse(Free!UsedNodes) \o Free!UnusedNodes)'
<1>1. Free!UsedNodes = UsedList /\ Free!UnusedNodes = UnusedList
  BY SameLists DEF Free!UsedNodes, Free!UnusedNodes, UsedList, UnusedList
<1>2. Free!UsedNodes' = UsedList' /\ Free!UnusedNodes' = UnusedList'
  <2>1. UsedList' = NodesOf(heap', used') /\ UnusedList' = NodesOf(heap', unused')
    BY DEF UsedList, UnusedList
  <2> QED
    BY <2>1, SameLists DEF Free!UsedNodes, Free!UnusedNodes
<1> QED
  BY <1>1, <1>2, SameLists DEF Cells

LEMMA ReverseFront ==
  ASSUME NEW S, NEW seq \in Seq(S), NEW x \in S
  PROVE  Reverse(<<x>> \o seq) = Append(Reverse(seq), x)
<1> DEFINE long == <<x>> \o seq
           back == Reverse(seq)
           L    == Len(seq)
<1>1. /\ L \in Nat /\ long \in Seq(S) /\ Len(long) = L + 1 /\ long[1] = x
      /\ \A i \in 1 .. L : long[i + 1] = seq[i]
  OBVIOUS
<1>2. back \in Seq(S) /\ Len(back) = L /\ \A i \in 1 .. L : back[i] = seq[(L - i) + 1]
  BY ReverseProperties
<1> HIDE DEF long
<1>3. Reverse(long) \in Seq(S) /\ Len(Reverse(long)) = L + 1
      /\ \A i \in 1 .. L + 1 : Reverse(long)[i] = long[((L + 1) - i) + 1]
  BY <1>1, ReverseProperties
<1> HIDE DEF back
<1>4. /\ Append(back, x) \in Seq(S) /\ Len(Append(back, x)) = L + 1
      /\ \A i \in 1 .. L : Append(back, x)[i] = back[i]
      /\ Append(back, x)[L + 1] = x
  BY <1>2, AppendProperties
<1>5. ASSUME NEW i \in 1 .. L + 1
      PROVE  Reverse(long)[i] = Append(back, x)[i]
  <2>1. CASE i = L + 1
    <3>1. ((L + 1) - i) + 1 = 1
      BY <1>1, <2>1
    <3> QED
      BY <1>1, <1>3, <1>4, <2>1, <3>1
  <2>2. CASE i # L + 1
    <3>1. i \in 1 .. L /\ (L - i) + 1 \in 1 .. L /\ ((L + 1) - i) + 1 = ((L - i) + 1) + 1
      BY <1>1, <2>2
    <3>2. Reverse(long)[i] = long[((L - i) + 1) + 1]
      BY <1>3, <3>1
    <3> QED
      BY <1>1, <1>2, <1>4, <3>1, <3>2
  <2> QED
    BY <2>1, <2>2
<1> DEFINE a == Reverse(long)
           b == Append(back, x)
<1>6. a \in Seq(S) /\ b \in Seq(S) /\ Len(a) = Len(b) /\ \A i \in 1 .. Len(a) : a[i] = b[i]
  BY <1>1, <1>3, <1>4, <1>5
<1> HIDE DEF a, b
<1>7. a = b
  BY <1>6, SeqEqual
<1> QED
  BY <1>7 DEF a, b, long, back

LEMMA PartEqual ==
  ASSUME NEW S, NEW seq \in Seq(S), NEW m \in 1 .. Len(seq) + 1, NEW n \in m - 1 .. Len(seq),
         NEW t \in Seq(S), Len(t) = (n - m) + 1,
         \A i \in 1 .. Len(t) : t[i] = seq[(m + i) - 1]
  PROVE  SubSeq(seq, m, n) = t
<1>1. Len(seq) \in Nat /\ m \in Nat /\ n \in Nat
  OBVIOUS
<1>2. PICK p : p = SubSeq(seq, m, n)
  OBVIOUS
<1>3. CASE m <= n
  <2>1. \A i \in m .. n : seq[i] \in S
    BY <1>1
  <2>2. /\ p \in Seq(S) /\ Len(p) = IF m <= n THEN n - m + 1 ELSE 0
        /\ \A i \in 1 .. n - m + 1 : p[i] = seq[m + i - 1]
    BY <1>1, <1>2, <2>1, SubSeqProperties
  <2>3. Len(p) = Len(t) /\ \A i \in 1 .. Len(p) : p[i] = t[i]
    BY <1>1, <1>3, <2>2
  <2>4. p = t
    BY <2>2, <2>3, SeqEqual
  <2> QED
    BY <1>2, <2>4
<1>4. CASE n < m
  <2>1. SubSeq(seq, m, n) = << >>
    BY <1>1, <1>4, SubSeqEmpty
  <2>2. Len(t) = 0
    BY <1>1, <1>4
  <2> QED
    BY <2>1, <2>2
<1> QED
  BY <1>1, <1>3, <1>4

(* c is a with b behind it.                                                *)
IsJoined(S, a, b, c) ==
  /\ c \in Seq(S) /\ Len(c) = Len(a) + Len(b) /\ Len(a) \in Nat /\ Len(b) \in Nat
  /\ \A i \in 1 .. Len(a) : i \in 1 .. Len(c) /\ c[i] = a[i]
  /\ \A i \in 1 .. Len(b) : Len(a) + i \in 1 .. Len(c) /\ c[Len(a) + i] = b[i]
  /\ \A i \in 1 .. Len(c) : i \in 1 .. Len(a) \/ (i - Len(a) \in 1 .. Len(b) /\ Len(a) + (i - Len(a)) = i)

LEMMA Joined ==
  ASSUME NEW S, NEW a \in Seq(S), NEW b \in Seq(S)
  PROVE  IsJoined(S, a, b, a \o b)
<1> DEFINE c == a \o b
<1>1. Len(a) \in Nat /\ Len(b) \in Nat
  OBVIOUS
<1>2. /\ c \in Seq(S) /\ Len(c) = Len(a) + Len(b)
      /\ \A i \in 1 .. Len(a) + Len(b) : c[i] = IF i <= Len(a) THEN a[i] ELSE b[i - Len(a)]
  BY ConcatProperties
<1> HIDE DEF c
<1>3. \A i \in 1 .. Len(a) : i \in 1 .. Len(c) /\ c[i] = a[i]
  BY <1>1, <1>2
<1>4. \A i \in 1 .. Len(b) : Len(a) + i \in 1 .. Len(c) /\ c[Len(a) + i] = b[i]
  <2> TAKE i \in 1 .. Len(b)
  <2>1. Len(a) + i \in 1 .. Len(a) + Len(b) /\ ~ (Len(a) + i <= Len(a)) /\ (Len(a) + i) - Len(a) = i
    BY <1>1
  <2> QED
    BY <1>2, <2>1
<1>5. \A i \in 1 .. Len(c) : i \in 1 .. Len(a) \/ (i - Len(a) \in 1 .. Len(b) /\ Len(a) + (i - Len(a)) = i)
  BY <1>1, <1>2
<1>6. IsJoined(S, a, b, c)
  BY <1>1, <1>2, <1>3, <1>4, <1>5 DEF IsJoined
<1> QED
  BY <1>6 DEF c

(* The cells around the boundary.                                          *)
LEMMA CellsSplit ==
  ASSUME FreeShape
  PROVE  /\ Reverse(UsedList) \in Seq(Nodes) /\ Len(Reverse(UsedList)) = Len(UsedList)
         /\ Cells \in Seq(Nodes) /\ Len(Cells) = Len(UsedList) + Len(UnusedList)
         /\ SubSeq(Cells, 1, Len(UsedList)) = Reverse(UsedList)
         /\ SubSeq(Cells, Len(UsedList) + 1, Len(Cells)) = UnusedList
         /\ \A i \in 1 .. Len(UnusedList) : Cells[Len(UsedList) + i] = UnusedList[i]
         /\ used.length = Len(UsedList)
<1> DEFINE a == Reverse(UsedList)
           b == UnusedList
           c == Cells
<1>1. a \in Seq(Nodes) /\ b \in Seq(Nodes) /\ Len(a) = Len(UsedList) /\ used.length = Len(UsedList)
  BY FreeLists, ReverseProperties
<1>2. IsJoined(Nodes, a, b, c)
  BY <1>1, Joined DEF Cells
<1> HIDE DEF a, b, c
<1>3. /\ c \in Seq(Nodes) /\ Len(c) = Len(a) + Len(b)
      /\ \A i \in 1 .. Len(a) : c[i] = a[i]
      /\ \A i \in 1 .. Len(b) : c[Len(a) + i] = b[i]
  BY <1>2 DEF IsJoined
<1>4. SubSeq(c, 1, Len(a)) = a
  <2>1. /\ Len(a) \in Nat /\ Len(b) \in Nat /\ 1 \in 1 .. Len(c) + 1
        /\ Len(a) \in 1 - 1 .. Len(c) /\ Len(a) = (Len(a) - 1) + 1
        /\ \A i \in 1 .. Len(a) : a[i] = c[(1 + i) - 1]
    BY <1>1, <1>3
  <2> QED
    BY <1>1, <1>3, <2>1, PartEqual
<1>5. SubSeq(c, Len(a) + 1, Len(c)) = b
  <2>1. /\ Len(a) \in Nat /\ Len(b) \in Nat /\ Len(a) + 1 \in 1 .. Len(c) + 1
        /\ Len(c) \in (Len(a) + 1) - 1 .. Len(c) /\ Len(b) = (Len(c) - (Len(a) + 1)) + 1
        /\ \A i \in 1 .. Len(b) : b[i] = c[((Len(a) + 1) + i) - 1]
    BY <1>1, <1>3
  <2> QED
    BY <1>1, <1>3, <2>1, PartEqual
<1> QED
  BY <1>1, <1>3, <1>4, <1>5 DEF a, b, c

LEMMA FreshNext ==
  ASSUME NEW q, NEW u, Moves(q, u), NEW x
  PROVE  x \in Free!Fresh' <=> /\ x \in Nodes
                               /\ \A i \in 1 .. Len(q) : q[i] # x
                               /\ \A i \in 1 .. Len(u) : u[i] # x
<1>1. Free!UsedNodes' = q /\ Free!UnusedNodes' = u
  <2>1. UsedList' = NodesOf(heap', used') /\ UnusedList' = NodesOf(heap', unused')
    BY DEF UsedList, UnusedList
  <2> QED
    BY <2>1, SameLists DEF Free!UsedNodes, Free!UnusedNodes, Moves
<1>2. Free!Fresh' = Nodes \ (ToSet(q) \cup ToSet(u))
  BY <1>1, SameLists DEF Free!Fresh
<1>3. q \in Seq(Nodes) /\ u \in Seq(Nodes)
  BY DEF Moves, FreeShape, IsStack, IsChain
<1>4. /\ \A y : y \in ToSet(q) <=> \E i \in 1 .. Len(q) : q[i] = y
      /\ \A y : y \in ToSet(u) <=> \E i \in 1 .. Len(u) : u[i] = y
  BY <1>3, SetOfList
<1> QED
  BY <1>2, <1>4

LEMMA CellsNext ==
  ASSUME NEW q, NEW u, Moves(q, u)
  PROVE  /\ Cells' = Reverse(q) \o u /\ used'.length = Len(q)
         /\ q \in Seq(Nodes) /\ u \in Seq(Nodes)
<1>1. q \in Seq(Nodes) /\ u \in Seq(Nodes)
  BY DEF Moves, FreeShape, IsStack, IsChain
<1>2. used'.length = Len(q)
  BY DEF Moves, FreeShape, IsStack
<1>3. Cells' = Reverse(q) \o u
  BY DEF Moves, Cells
<1> QED
  BY <1>1, <1>2, <1>3

(* A fresh node that joins one of the lists gets a value of its own.       *)
LEMMA JoinedValues ==
  ASSUME FreeShape, NEW node \in Nodes, NEW v,
         \A x \in Nodes : x \notin Free!Fresh' <=> x = node \/ x \notin Free!Fresh,
         \A x \in Nodes : x # node => heap'[x].val = heap[x].val, heap'[node].val = v
  PROVE  FreeValues' = Free!Abstract!Valued(node, v)
<1>1. Nodes \ Free!Fresh' = (Nodes \ Free!Fresh) \cup {node}
  OBVIOUS
<1>2. FreeValues' = [n \in (Nodes \ Free!Fresh) \cup {node} |-> heap'[n].val]
  BY <1>1 DEF FreeValues
<1>3. Free!Abstract!Valued(node, v)
        = [n \in (Nodes \ Free!Fresh) \cup {node} |-> IF n = node THEN v ELSE heap[n].val]
  BY DEF Free!Abstract!Valued
<1> QED
  BY <1>2, <1>3

LEMMA AbstractFresh == ASSUME FreeShape PROVE Free!Abstract!Fresh = Free!Fresh
<1>1. Free!Abstract!Fresh = Nodes \ ToSet(Cells)
  BY MappedLists DEF Free!Abstract!Fresh, Free!Abstract!ToSet, ToSet
<1>2. /\ \A x : x \in ToSet(Cells) <=> \E i \in 1 .. Len(Cells) : Cells[i] = x
  BY CellsSplit, SetOfList
<1>3. \A x : (\E i \in 1 .. Len(Cells) : Cells[i] = x)
            <=> \/ \E i \in 1 .. Len(UsedList) : UsedList[i] = x
                \/ \E i \in 1 .. Len(UnusedList) : UnusedList[i] = x
  <2> DEFINE a == Reverse(UsedList)
             Q == UsedList
             U == UnusedList
             C == Cells
             L == Len(Q)
  <2>1. /\ Q \in Seq(Nodes) /\ U \in Seq(Nodes) /\ L \in Nat /\ Len(U) \in Nat
        /\ a \in Seq(Nodes) /\ Len(a) = L /\ \A i \in 1 .. L : a[i] = Q[(L - i) + 1]
    BY FreeLists, ReverseProperties
  <2>2. IsJoined(Nodes, a, U, C)
    BY <2>1, Joined DEF Cells
  <2> HIDE DEF a, Q, U, C
  <2>3. /\ \A i \in 1 .. L : i \in 1 .. Len(C) /\ C[i] = a[i]
        /\ \A i \in 1 .. Len(U) : L + i \in 1 .. Len(C) /\ C[L + i] = U[i]
        /\ \A i \in 1 .. Len(C) : i \in 1 .. L \/ (i - L \in 1 .. Len(U) /\ L + (i - L) = i)
    BY <2>1, <2>2 DEF IsJoined
  <2>4. \A i \in 1 .. L : (L - i) + 1 \in 1 .. L /\ (L - ((L - i) + 1)) + 1 = i
    BY <2>1
  <2> HIDE DEF L
  <2>7. ASSUME NEW i \in 1 .. Len(C)
        PROVE  (\E j \in 1 .. L : Q[j] = C[i]) \/ (\E j \in 1 .. Len(U) : U[j] = C[i])
    <3>1. CASE i \in 1 .. L
      <4>1. C[i] = Q[(L - i) + 1] /\ (L - i) + 1 \in 1 .. L
        BY <2>1, <2>3, <2>4, <3>1
      <4> QED
        BY <4>1
    <3>2. CASE i - L \in 1 .. Len(U) /\ L + (i - L) = i
      <4>1. C[L + (i - L)] = U[i - L]
        BY <2>3, <3>2
      <4> QED
        BY <3>2, <4>1
    <3> QED
      BY <2>3, <3>1, <3>2
  <2>8. \A j \in 1 .. L : \E i \in 1 .. Len(C) : C[i] = Q[j]
    <3> TAKE j \in 1 .. L
    <3>1. C[(L - j) + 1] = Q[j]
      BY <2>1, <2>3, <2>4
    <3> QED
      BY <2>3, <2>4, <3>1
  <2>9. \A j \in 1 .. Len(U) : \E i \in 1 .. Len(C) : C[i] = U[j]
    BY <2>3
  <2>10. \A x : (\E i \in 1 .. Len(C) : C[i] = x)
              <=> (\E i \in 1 .. L : Q[i] = x) \/ (\E i \in 1 .. Len(U) : U[i] = x)
    BY <2>7, <2>8, <2>9
  <2> QED
    BY <2>10 DEF Q, U, C, L
<1> QED
  BY <1>1, <1>2, <1>3, FreshNodes

(* Each operation of the free stack is one of the abstract array.          *)
LEMMA GrowMaps ==
  ASSUME FreeShape, NEW node \in Nodes, NEW v \in Vals, Free!fstack_grow(node), v = heap[node].val
  PROVE  Free!Abstract!Grow(node, v)
<1>1. node \in Free!Fresh /\ Moves(UsedList, <<node>> \o UnusedList) /\ SameVals
  BY GrowStep
<1>2. /\ UsedList \in Seq(Nodes) /\ UnusedList \in Seq(Nodes) /\ Reverse(UsedList) \in Seq(Nodes)
      /\ <<node>> \in Seq(Nodes) /\ used.length = Len(UsedList)
  BY FreeLists, CellsSplit
<1>3. Cells' = Reverse(UsedList) \o (<<node>> \o UnusedList) /\ used'.length = Len(UsedList)
  <2> DEFINE new == <<node>> \o UnusedList
  <2>1. Moves(UsedList, new)
    BY <1>1
  <2> HIDE DEF new
  <2>2. Cells' = Reverse(UsedList) \o new /\ used'.length = Len(UsedList)
    BY <2>1, CellsNext
  <2> QED
    BY <2>2 DEF new
<1>4. Cells' = (Reverse(UsedList) \o <<node>>) \o UnusedList
  BY <1>2, <1>3, ConcatAssociative
<1>5. Free!Abstract!InsertAt(Cells, used.length + 1, node) = (Reverse(UsedList) \o <<node>>) \o UnusedList
  <2>1. Len(UsedList) \in Nat /\ (Len(UsedList) + 1) - 1 = Len(UsedList)
    BY FreeLists
  <2>2. Free!Abstract!InsertAt(Cells, used.length + 1, node)
          = (SubSeq(Cells, 1, (Len(UsedList) + 1) - 1) \o <<node>>) \o SubSeq(Cells, Len(UsedList) + 1, Len(Cells))
    BY <1>2 DEF Free!Abstract!InsertAt
  <2>3. SubSeq(Cells, 1, Len(UsedList)) = Reverse(UsedList)
    BY CellsSplit
  <2>4. SubSeq(Cells, Len(UsedList) + 1, Len(Cells)) = UnusedList
    BY CellsSplit
  <2> QED
    BY <2>1, <2>2, <2>3, <2>4
<1>6. \A x \in Nodes : x \notin Free!Fresh' <=> x = node \/ x \notin Free!Fresh
  <2> DEFINE new == <<node>> \o UnusedList
  <2>1. /\ Len(UnusedList) \in Nat /\ Len(new) = Len(UnusedList) + 1 /\ new[1] = node
        /\ \A i \in 1 .. Len(UnusedList) : new[i + 1] = UnusedList[i]
    BY <1>2, NewFront
  <2>2. Moves(UsedList, new)
    BY <1>1
  <2> HIDE DEF new
  <2>3. \A x : (\E i \in 1 .. Len(new) : new[i] = x)
              <=> x = node \/ \E i \in 1 .. Len(UnusedList) : UnusedList[i] = x
    <3>1. \A i \in 1 .. Len(new) : i = 1 \/ (i - 1 \in 1 .. Len(UnusedList) /\ (i - 1) + 1 = i)
      BY <2>1
    <3>2. \A i \in 1 .. Len(new) : new[i] = node \/ \E j \in 1 .. Len(UnusedList) : UnusedList[j] = new[i]
      BY <2>1, <3>1
    <3>3. 1 \in 1 .. Len(new) /\ \A i \in 1 .. Len(UnusedList) : i + 1 \in 1 .. Len(new)
      BY <2>1
    <3> QED
      BY <2>1, <3>2, <3>3
  <2>4. \A x \in Nodes : x \notin Free!Fresh'
                         <=> \/ \E i \in 1 .. Len(UsedList) : UsedList[i] = x
                             \/ \E i \in 1 .. Len(new) : new[i] = x
    BY <2>2, FreshNext
  <2>5. \A x \in Nodes : x \notin Free!Fresh
                         <=> \/ \E i \in 1 .. Len(UsedList) : UsedList[i] = x
                             \/ \E i \in 1 .. Len(UnusedList) : UnusedList[i] = x
    BY FreshNodes
  <2> QED
    BY <2>3, <2>4, <2>5
<1>7. FreeValues' = Free!Abstract!Valued(node, v)
  BY <1>1, <1>6, JoinedValues DEF SameVals
<1>8. node \in Free!Abstract!Fresh
  BY <1>1, AbstractFresh
<1>9. used'.length = used.length
  BY <1>2, <1>3
<1>10. Cells' = Free!Abstract!InsertAt(Cells, used.length + 1, node)
  BY <1>4, <1>5
<1> QED
  BY <1>7, <1>8, <1>9, <1>10, MappedLists DEF Free!Abstract!Grow, FreeValues

LEMMA SplitFront ==
  ASSUME NEW S, NEW q \in Seq(S), q # << >>
  PROVE  q = <<q[1]>> \o Tail(q)
<1> DEFINE rest == Tail(q)
           L    == Len(q)
<1>1. L \in Nat /\ L >= 1 /\ 1 \in 1 .. L /\ L \in 1 .. L
  OBVIOUS
<1>2. SubSeq(q, 1, L) = <<q[1]>> \o SubSeq(q, 1 + 1, L)
  BY <1>1, SubSeqRecursiveFirst
<1>3. SubSeq(q, 1, L) = q
  BY SubSeqFull
<1>4. rest = SubSeq(q, 2, L) /\ 1 + 1 = 2
  BY TailIsSubSeq
<1> HIDE DEF rest
<1>5. q = <<q[1]>> \o rest
  BY <1>2, <1>3, <1>4
<1> QED
  BY <1>5 DEF rest

(* A node that goes from the front of q to the front of u crosses the      *)
(* boundary, and the cells are the same.                                   *)
LEMMA BoundaryMoves ==
  ASSUME NEW q \in Seq(Nodes), NEW u \in Seq(Nodes), q # << >>
  PROVE  /\ Reverse(<<q[1]>> \o u) \o Tail(q) = Reverse(u) \o q
         /\ \A x : (\/ \E i \in 1 .. Len(Tail(q)) : Tail(q)[i] = x
                  \/ \E i \in 1 .. Len(<<q[1]>> \o u) : (<<q[1]>> \o u)[i] = x)
                 <=> (\/ \E i \in 1 .. Len(q) : q[i] = x
                      \/ \E i \in 1 .. Len(u) : u[i] = x)
<1> DEFINE node == q[1]
           rest == Tail(q)
           long == <<node>> \o u
           back == Reverse(u)
           L    == Len(q)
<1>1. /\ L \in Nat /\ L >= 1 /\ Len(u) \in Nat /\ node \in Nodes /\ 1 \in 1 .. L
      /\ back \in Seq(Nodes)
  BY ReverseProperties
<1>2. /\ rest \in Seq(Nodes) /\ Len(rest) = L - 1
      /\ \A i \in 1 .. L - 1 : rest[i] = q[i + 1]
  BY HeadTailProperties
<1>3. /\ Len(long) = Len(u) + 1 /\ long[1] = node
      /\ \A i \in 1 .. Len(u) : long[i + 1] = u[i]
  BY <1>1, NewFront
<1>4. Reverse(long) = back \o <<node>>
  <2>1. Reverse(long) = Append(back, node)
    BY <1>1, ReverseFront
  <2>2. Append(back, node) = back \o <<node>>
    BY <1>1, AppendIsConcat
  <2> QED
    BY <2>1, <2>2
<1>5. q = <<node>> \o rest
  BY <1>1, SplitFront
<1>6. (back \o <<node>>) \o rest = back \o (<<node>> \o rest)
  <2>1. /\ <<node>> \in Seq(Nodes) /\ back \in Seq(Nodes) /\ rest \in Seq(Nodes)
    BY <1>1, <1>2
  <2> HIDE DEF rest, back, node, long, L
  <2> QED
    BY <2>1, ConcatAssociative
<1>7. Reverse(long) \o rest = back \o q
  <2> HIDE DEF rest, back, node, long
  <2> QED
    BY <1>4, <1>5, <1>6
<1> HIDE DEF rest, long
<1>8. \A i \in 1 .. Len(rest) : i + 1 \in 1 .. L /\ rest[i] = q[i + 1]
  BY <1>1, <1>2
<1>9. ASSUME NEW i \in 1 .. L
      PROVE  q[i] = node \/ \E j \in 1 .. Len(rest) : rest[j] = q[i]
  <2>1. CASE i = 1
    BY <2>1
  <2>2. CASE i # 1
    <3>1. i - 1 \in 1 .. L - 1 /\ i - 1 \in 1 .. Len(rest) /\ (i - 1) + 1 = i
      BY <1>1, <1>2, <2>2
    <3>2. rest[i - 1] = q[i]
      BY <1>2, <3>1
    <3> QED
      BY <3>1, <3>2
  <2> QED
    BY <2>1, <2>2
<1>10. ASSUME NEW i \in 1 .. Len(long)
       PROVE  long[i] = node \/ \E j \in 1 .. Len(u) : u[j] = long[i]
  <2>1. CASE i = 1
    BY <1>3, <2>1
  <2>2. CASE i # 1
    <3>1. i - 1 \in 1 .. Len(u) /\ (i - 1) + 1 = i
      BY <1>1, <1>3, <2>2
    <3>2. long[i] = u[i - 1]
      BY <1>3, <3>1
    <3> QED
      BY <3>1, <3>2
  <2> QED
    BY <2>1, <2>2
<1>11. 1 \in 1 .. Len(long) /\ \A i \in 1 .. Len(u) : i + 1 \in 1 .. Len(long) /\ long[i + 1] = u[i]
  BY <1>1, <1>3
<1>12. \A x : (\/ \E i \in 1 .. Len(rest) : rest[i] = x
             \/ \E i \in 1 .. Len(long) : long[i] = x)
            <=> (\/ \E i \in 1 .. L : q[i] = x
                 \/ \E i \in 1 .. Len(u) : u[i] = x)
  <2> TAKE x
  <2>1. ASSUME NEW i \in 1 .. Len(rest), rest[i] = x
        PROVE  \E j \in 1 .. L : q[j] = x
    BY <1>8, <2>1
  <2>2. ASSUME NEW i \in 1 .. Len(long), long[i] = x
        PROVE  (\E j \in 1 .. L : q[j] = x) \/ \E j \in 1 .. Len(u) : u[j] = x
    BY <1>1, <1>10, <2>2
  <2>3. ASSUME NEW i \in 1 .. L, q[i] = x
        PROVE  (\E j \in 1 .. Len(rest) : rest[j] = x) \/ \E j \in 1 .. Len(long) : long[j] = x
    BY <1>3, <1>9, <1>11, <2>3
  <2>4. ASSUME NEW i \in 1 .. Len(u), u[i] = x
        PROVE  \E j \in 1 .. Len(long) : long[j] = x
    BY <1>11, <2>4
  <2> QED
    BY <2>1, <2>2, <2>3, <2>4
<1> USE DEF rest, long
<1> QED
  BY <1>7, <1>12

LEMMA FreshSame ==
  ASSUME FreeShape, NEW q, NEW u, Moves(q, u),
         \A x : (\/ \E i \in 1 .. Len(q) : q[i] = x
               \/ \E i \in 1 .. Len(u) : u[i] = x)
              <=> (\/ \E i \in 1 .. Len(UsedList) : UsedList[i] = x
                   \/ \E i \in 1 .. Len(UnusedList) : UnusedList[i] = x)
  PROVE  Free!Fresh' = Free!Fresh
<1>1. \A x : x \in Free!Fresh' <=> x \in Nodes /\ ~ (\/ \E i \in 1 .. Len(q) : q[i] = x
                                                   \/ \E i \in 1 .. Len(u) : u[i] = x)
  BY FreshNext
<1>2. \A x : x \in Free!Fresh <=> x \in Nodes /\ ~ (\/ \E i \in 1 .. Len(UsedList) : UsedList[i] = x
                                                  \/ \E i \in 1 .. Len(UnusedList) : UnusedList[i] = x)
  BY FreshNodes
<1>3. \A x : x \in Free!Fresh' <=> x \in Free!Fresh
  BY <1>1, <1>2
<1> QED
  BY <1>3

LEMMA PushFreeMaps ==
  ASSUME FreeShape, NEW v \in Vals, Free!fstack_push(v)
  PROVE  Free!Abstract!Push(v)
<1> DEFINE U == UnusedList
           Q == UsedList
           node == U[1]
           new == <<node>> \o Q
           rest == Tail(U)
<1>1. U # << >> /\ Moves(new, rest) /\ OneVal(node, v)
  BY PushFreeStep
<1>2. /\ Q \in Seq(Nodes) /\ U \in Seq(Nodes) /\ Len(Q) \in Nat /\ Len(U) \in Nat /\ Len(U) >= 1
      /\ node \in Nodes /\ 1 \in 1 .. Len(U) /\ Len(new) = Len(Q) + 1
  <2>1. Q \in Seq(Nodes) /\ U \in Seq(Nodes) /\ Len(Q) \in Nat /\ Len(U) \in Nat
    BY FreeLists
  <2> HIDE DEF Q, U
  <2>2. Len(U) >= 1 /\ node \in Nodes
    BY <1>1, <2>1
  <2> QED
    BY <2>1, <2>2, NewFront
<1>3. /\ Cells' = Reverse(new) \o rest /\ used'.length = Len(new)
  <2> HIDE DEF new, rest
  <2> QED
    BY <1>1, CellsNext
<1>4. /\ Cells = Reverse(Q) \o U /\ used.length = Len(Q) /\ Len(Cells) = Len(Q) + Len(U)
      /\ Cells[Len(Q) + 1] = node
  BY <1>2, CellsSplit DEF Cells
<1>5. Reverse(new) \o rest = Reverse(Q) \o U
  <2> HIDE DEF Q, U
  <2> QED
    BY <1>1, <1>2, BoundaryMoves
<1>6. Cells' = Cells /\ used'.length = used.length + 1 /\ used.length < Len(Cells)
      /\ Cells[used.length + 1] = node
  <2> HIDE DEF Q, U, new, rest, node
  <2> QED
    BY <1>2, <1>3, <1>4, <1>5
<1>7. Free!Fresh' = Free!Fresh /\ node \notin Free!Fresh
  <2>1. \A x : (\/ \E i \in 1 .. Len(new) : new[i] = x
              \/ \E i \in 1 .. Len(rest) : rest[i] = x)
             <=> (\/ \E i \in 1 .. Len(Q) : Q[i] = x
                  \/ \E i \in 1 .. Len(U) : U[i] = x)
    <3> HIDE DEF Q, U
    <3>1. \A x : (\/ \E i \in 1 .. Len(rest) : rest[i] = x
                  \/ \E i \in 1 .. Len(new) : new[i] = x)
                 <=> (\/ \E i \in 1 .. Len(U) : U[i] = x
                      \/ \E i \in 1 .. Len(Q) : Q[i] = x)
      BY <1>1, <1>2, BoundaryMoves
    <3> HIDE DEF rest, new
    <3> QED
      BY Zenon, <3>1
  <2>2. node \notin Free!Fresh
    BY <1>2, FreshNodes
  <2> HIDE DEF new, rest
  <2>3. Free!Fresh' = Free!Fresh
    BY <1>1, <2>1, FreshSame
  <2> QED
    BY <2>2, <2>3
<1> HIDE DEF node
<1>8. FreeValues' = Free!Abstract!Valued(node, v)
  BY <1>1, <1>2, <1>7, JoinedValues DEF OneVal
<1> QED
  BY <1>6, <1>8, MappedLists DEF Free!Abstract!Push, FreeValues

LEMMA ExtendMaps ==
  ASSUME FreeShape, NEW v \in Vals, NEW node \in Free!Fresh, Free!Used(heap, node, v), unused' = unused,
         unused.length = 0
  PROVE  Free!Abstract!Extend(node, v)
<1> DEFINE U == UnusedList
           Q == UsedList
           new == <<node>> \o Q
<1>1. Moves(new, U) /\ OneVal(node, v) /\ node \in Nodes
  BY ExtendStep, FreshNodes
<1>2. Q \in Seq(Nodes) /\ U = << >> /\ Len(Q) \in Nat /\ used.length = Len(Q)
  BY FreeLists
<1>3. Len(new) = Len(Q) + 1
  BY <1>1, <1>2, NewFront
<1>4. /\ Cells' = Reverse(new) \o U /\ used'.length = Len(new) /\ new \in Seq(Nodes)
  <2> HIDE DEF new, U
  <2> QED
    BY <1>1, CellsNext
<1>5. Reverse(new) = Append(Reverse(Q), node) /\ Reverse(Q) \in Seq(Nodes) /\ Len(Reverse(Q)) = Len(Q)
  BY <1>1, <1>2, ReverseFront, ReverseProperties
<1>6. Cells = Reverse(Q)
  <2>1. Cells = Reverse(Q) \o << >>
    BY <1>2 DEF Cells
  <2> HIDE DEF Q
  <2> QED
    BY <1>5, <2>1, ConcatEmptySeq
<1>7. Cells' = Append(Cells, node)
  <2>1. Reverse(new) \in Seq(Nodes)
    BY <1>4, ReverseProperties
  <2>2. Cells' = Reverse(new) \o << >>
    BY <1>2, <1>4
  <2>3. Cells' = Reverse(new)
    BY <2>1, <2>2, ConcatEmptySeq
  <2> HIDE DEF new, Q
  <2> QED
    BY <1>5, <1>6, <2>3
<1>8. used.length = Len(Cells) /\ used'.length = used.length + 1
  BY <1>2, <1>3, <1>4, <1>5, <1>6
<1>9. \A x \in Nodes : x \notin Free!Fresh' <=> x = node \/ x \notin Free!Fresh
  <2>1. /\ new[1] = node /\ \A i \in 1 .. Len(Q) : new[i + 1] = Q[i]
    BY <1>1, <1>2, NewFront
  <2> HIDE DEF new, Q, U
  <2>2. \A x : (\E i \in 1 .. Len(new) : new[i] = x) <=> x = node \/ \E i \in 1 .. Len(Q) : Q[i] = x
    <3>1. \A i \in 1 .. Len(new) : i = 1 \/ (i - 1 \in 1 .. Len(Q) /\ (i - 1) + 1 = i)
      BY <1>2, <1>3
    <3>2. \A i \in 1 .. Len(new) : new[i] = node \/ \E j \in 1 .. Len(Q) : Q[j] = new[i]
      BY <2>1, <3>1
    <3>3. 1 \in 1 .. Len(new) /\ \A i \in 1 .. Len(Q) : i + 1 \in 1 .. Len(new)
      BY <1>2, <1>3
    <3> QED
      BY <2>1, <3>2, <3>3
  <2>3. \A x \in Nodes : x \notin Free!Fresh' <=> \E i \in 1 .. Len(new) : new[i] = x
    BY <1>1, <1>2, FreshNext
  <2>4. \A x \in Nodes : x \notin Free!Fresh <=> \E i \in 1 .. Len(Q) : Q[i] = x
    BY <1>2, FreshNodes DEF Q, U
  <2> QED
    BY <2>2, <2>3, <2>4
<1>10. FreeValues' = Free!Abstract!Valued(node, v)
  BY <1>1, <1>9, JoinedValues DEF OneVal
<1>11. node \in Free!Abstract!Fresh
  BY AbstractFresh
<1> HIDE DEF Q, U, new
<1> QED
  BY <1>7, <1>8, <1>10, <1>11, MappedLists DEF Free!Abstract!Extend, FreeValues

LEMMA PopFreeMaps ==
  ASSUME FreeShape, Free!fstack_pop
  PROVE  Free!Abstract!Pop
<1> DEFINE U == UnusedList
           Q == UsedList
           node == Q[1]
           new == <<node>> \o U
           rest == Tail(Q)
<1>1. Q # << >> /\ Moves(rest, new) /\ SameVals
  BY PopFreeStep
<1>2. /\ Q \in Seq(Nodes) /\ U \in Seq(Nodes) /\ Len(Q) \in Nat /\ Len(Q) >= 1
      /\ node \in Nodes /\ rest \in Seq(Nodes) /\ Len(rest) = Len(Q) - 1
  <2>1. Q \in Seq(Nodes) /\ U \in Seq(Nodes) /\ Len(Q) \in Nat
    BY FreeLists
  <2> HIDE DEF Q, U
  <2>2. Len(Q) >= 1 /\ node \in Nodes
    BY <1>1, <2>1
  <2> QED
    BY <1>1, <2>1, <2>2, HeadTailProperties
<1>3. Cells' = Reverse(rest) \o new /\ used'.length = Len(rest)
  <2> HIDE DEF new, rest
  <2> QED
    BY <1>1, CellsNext
<1>4. Cells = Reverse(Q) \o U /\ used.length = Len(Q)
  BY CellsSplit DEF Cells
<1>5. Q = <<node>> \o rest
  <2> HIDE DEF Q, U
  <2> QED
    BY <1>1, <1>2, SplitFront
<1>6. Reverse(rest) \o new = Reverse(Q) \o U
  <2> HIDE DEF U, Q, rest, node
  <2>1. Reverse(rest) \in Seq(Nodes) /\ <<node>> \in Seq(Nodes)
    BY <1>2, ReverseProperties
  <2>2. Reverse(Q) = Append(Reverse(rest), node)
    BY <1>2, <1>5, ReverseFront
  <2>3. Append(Reverse(rest), node) = Reverse(rest) \o <<node>>
    BY <1>2, <2>1, AppendIsConcat
  <2>4. (Reverse(rest) \o <<node>>) \o U = Reverse(rest) \o (<<node>> \o U)
    BY <1>2, <2>1, ConcatAssociative
  <2> QED
    BY <2>2, <2>3, <2>4
<1>7. Cells' = Cells /\ used'.length = used.length - 1 /\ used.length > 0
  <2> HIDE DEF Q, U, new, rest, node
  <2> QED
    BY <1>2, <1>3, <1>4, <1>6
<1>8. Free!Fresh' = Free!Fresh
  <2>1. \A x : (\/ \E i \in 1 .. Len(rest) : rest[i] = x
                \/ \E i \in 1 .. Len(new) : new[i] = x)
               <=> (\/ \E i \in 1 .. Len(Q) : Q[i] = x
                    \/ \E i \in 1 .. Len(U) : U[i] = x)
    <3> HIDE DEF Q, U
    <3> QED
      BY <1>1, <1>2, BoundaryMoves
  <2> HIDE DEF new, rest
  <2> QED
    BY <1>1, <2>1, FreshSame
<1>9. FreeValues' = FreeValues
  BY <1>1, <1>8 DEF SameVals, FreeValues
<1> QED
  BY <1>7, <1>9, MappedLists DEF Free!Abstract!Pop, FreeValues

-----------------------------------------------------------------------------
LEMMA FreeInitMaps == Free!Init => Free!Abstract!Init
<1> SUFFICES ASSUME Free!Init
             PROVE  Free!Abstract!Init
  OBVIOUS
<1>1. FreeShape
  BY FreeInit
<1>2. used = stack_ctor /\ unused = stack_ctor
  BY SameLists DEF Free!Init, Free!fstack_ctor
<1>3. used.length = 0 /\ unused.length = 0
  BY <1>2 DEF stack_ctor
<1>4. Len(UsedList) = 0 /\ Len(UnusedList) = 0
  <2>1. used.length = Len(UsedList) /\ unused.length = Len(UnusedList)
    BY <1>1, FreeLists
  <2> QED
    BY <1>3, <2>1
<1>5. Cells = << >>
  BY <1>1, <1>4, CellsSplit
<1>6. FreeValues = [n \in {} |-> n]
  <2>1. \A x \in Nodes : x \in Free!Fresh
    BY <1>1, <1>4, FreshNodes
  <2>2. Nodes \ Free!Fresh = {}
    BY <2>1
  <2> QED
    BY <2>2 DEF FreeValues
<1> QED
  BY <1>3, <1>5, <1>6, MappedLists DEF Free!Abstract!Init, FreeValues

LEMMA FreeStepMaps ==
  FreeShape /\ [Free!Next]_Free!vars
    => [Free!Abstract!Next]_<<Free!Reverse(Free!UsedNodes) \o Free!UnusedNodes, used.length,
                              [n \in Nodes \ Free!Fresh |-> heap[n].val]>>
<1> SUFFICES ASSUME FreeShape, [Free!Next]_Free!vars
             PROVE  \/ Free!Abstract!Next
                    \/ UNCHANGED <<Free!Reverse(Free!UsedNodes) \o Free!UnusedNodes, used.length,
                                   [n \in Nodes \ Free!Fresh |-> heap[n].val]>>
  OBVIOUS
<1>1. ASSUME NEW node \in Nodes, Free!fstack_grow(node)
      PROVE  Free!Abstract!Next
  <2>1. PICK v \in Vals : v = heap[node].val
    BY DEF FreeShape, Heaps
  <2>2. Free!Abstract!Grow(node, v)
    BY <1>1, <2>1, GrowMaps
  <2> QED
    BY <2>2 DEF Free!Abstract!Next
<1>2. ASSUME NEW v \in Vals, Free!fstack_push(v)
      PROVE  Free!Abstract!Next
  <2>1. Free!Abstract!Push(v)
    BY <1>2, PushFreeMaps
  <2> QED
    BY <2>1 DEF Free!Abstract!Next
<1>3. ASSUME NEW v \in Vals, Free!fstack_alloc(v)
      PROVE  Free!Abstract!Next
  <2>1. ASSUME NEW node \in Free!Fresh, Free!Used(heap, node, v), unused' = unused, unused.length = 0
        PROVE  Free!Abstract!Next
    <3>1. Free!Abstract!Extend(node, v) /\ node \in Nodes
      BY <2>1, ExtendMaps, FreshNodes
    <3> QED
      BY <3>1 DEF Free!Abstract!Next
  <2>2. CASE Free!fstack_push(v)
    BY <1>2, <2>2
  <2> QED
    BY <1>3, <2>1, <2>2 DEF Free!fstack_alloc
<1>4. ASSUME Free!fstack_pop
      PROVE  Free!Abstract!Next
  BY <1>4, PopFreeMaps DEF Free!Abstract!Next
<1>5. CASE UNCHANGED Free!vars
  BY <1>5, SameLists DEF Free!vars, Free!UsedNodes, Free!UnusedNodes, Free!Fresh
<1> QED
  BY <1>1, <1>2, <1>3, <1>4, <1>5 DEF Free!Next

(***************************************************************************)
(* The free stack implements an array with a boundary: a pop or a push     *)
(* moves the boundary by one cell, so a popped cell keeps its value, and   *)
(* is the very one that the next push takes; grow and alloc add a cell,    *)
(* and nothing else adds, loses or reorders one.                           *)
(***************************************************************************)
THEOREM FreeStacksAreArrays == Free!Spec => Free!ImplementsArray
<1>1. Free!Init => Free!Abstract!Init
  BY FreeInitMaps
<1>2. FreeShape /\ [Free!Next]_Free!vars
        => [Free!Abstract!Next]_<<Free!Reverse(Free!UsedNodes) \o Free!UnusedNodes, used.length,
                                  [n \in Nodes \ Free!Fresh |-> heap[n].val]>>
  BY FreeStepMaps
<1> QED
  BY <1>1, <1>2, FreeAlways, PTL DEF Free!Spec, Free!ImplementsArray, Free!Abstract!Spec

-----------------------------------------------------------------------------
(* Where a walk of a list begins, and where it ends.                       *)
Begins(seq, start_node, a) ==
  IF start_node = NULL THEN a = 1 ELSE a \in 1 .. Len(seq) /\ seq[a] = start_node

Finishes(seq, end_node, m) ==
  \/ m \in 1 .. Len(seq) /\ seq[m] = end_node
  \/ m = Len(seq) /\ \A i \in 1 .. Len(seq) : seq[i] # end_node

LEMMA RangeKnown ==
  ASSUME NEW seq \in Seq(Nodes), Injective(seq), NEW start_node, NEW end_node,
         NEW a, Begins(seq, start_node, a), NEW m, Finishes(seq, end_node, m)
  PROVE  WalkedRange(seq, start_node, end_node) = SubSeq(seq, a, m)
<1> DEFINE at(node) == {i \in 1 .. Len(seq) : seq[i] = node}
           place(node, other) == IF at(node) = {} THEN other ELSE CHOOSE i \in at(node) : TRUE
<1>1. ASSUME NEW node, NEW other, NEW i \in 1 .. Len(seq), seq[i] = node
      PROVE  place(node, other) = i
  <2>1. i \in at(node) /\ \A j \in at(node) : j = i
    BY <1>1 DEF Injective
  <2> HIDE DEF at
  <2> QED
    BY <2>1
<1>2. ASSUME NEW node, NEW other, \A i \in 1 .. Len(seq) : seq[i] # node
      PROVE  place(node, other) = other
  <2>1. at(node) = {}
    BY <1>2
  <2> HIDE DEF at
  <2> QED
    BY <2>1
<1>3. WalkedRange(seq, start_node, end_node)
        = SubSeq(seq, IF start_node = NULL THEN 1 ELSE place(start_node, Len(seq) + 1),
                      place(end_node, Len(seq)))
  BY Zenon DEF WalkedRange
<1> HIDE DEF place
<1>4. place(end_node, Len(seq)) = m
  BY <1>1, <1>2 DEF Finishes
<1>5. (IF start_node = NULL THEN 1 ELSE place(start_node, Len(seq) + 1)) = a
  BY <1>1 DEF Begins
<1> QED
  BY <1>3, <1>4, <1>5

(* A walk from the first node.                                             *)
UpTo(seq, last) == SubSeq(seq, 1, last)

FromFront(seq, start_node, end_node, last) == IsRange(seq, start_node, end_node, 1, last)

LEMMA WalkFromFront ==
  ASSUME NEW h, NEW stack, NEW seq, IsChain(h, stack.front, seq), NEW start_node, NEW end_node, NEW last,
         FromFront(seq, start_node, end_node, last)
  PROVE  stack_walk(h, stack, start_node, end_node) = UpTo(seq, last)
<1>1. PICK first : first = 1
  OBVIOUS
<1>2. IsRange(seq, start_node, end_node, first, last)
  BY <1>1 DEF FromFront
<1>3. stack_walk(h, stack, start_node, end_node) = SubSeq(seq, first, last)
  BY <1>2, WalkVisits
<1> QED
  BY <1>1, <1>3 DEF UpTo

(* The order of the free stack's walk.                                     *)
Order == Reverse(UnusedList) \o UsedList

(* The order of a walk has each node of the free stack once.               *)
LEMMA OrderKnown ==
  ASSUME FreeShape
  PROVE  /\ Order \in Seq(Nodes) /\ Len(Order) = Len(UnusedList) + Len(UsedList) /\ Injective(Order)
         /\ \A i \in 1 .. Len(UnusedList) : Order[i] = UnusedList[(Len(UnusedList) - i) + 1]
         /\ \A i \in 1 .. Len(UsedList) : Order[Len(UnusedList) + i] = UsedList[i]
<1> DEFINE a == Reverse(UnusedList)
           U == UnusedList
           Q == UsedList
           N == Len(U)
           W == Order
<1>1. /\ Q \in Seq(Nodes) /\ U \in Seq(Nodes) /\ N \in Nat /\ Len(Q) \in Nat /\ Injective(U) /\ Injective(Q)
      /\ a \in Seq(Nodes) /\ Len(a) = N /\ \A i \in 1 .. N : a[i] = U[(N - i) + 1]
  BY FreeLists, ReverseProperties
<1>2. IsJoined(Nodes, a, Q, W)
  BY <1>1, Joined DEF Order
<1>3. Apart(Q, U)
  BY DEF FreeShape
<1> HIDE DEF a, Q, U, W
<1>4. /\ W \in Seq(Nodes) /\ Len(W) = N + Len(Q)
      /\ \A i \in 1 .. N : i \in 1 .. Len(W) /\ W[i] = a[i]
      /\ \A i \in 1 .. Len(Q) : N + i \in 1 .. Len(W) /\ W[N + i] = Q[i]
      /\ \A i \in 1 .. Len(W) : i \in 1 .. N \/ (i - N \in 1 .. Len(Q) /\ N + (i - N) = i)
  BY <1>1, <1>2 DEF IsJoined
<1>5. \A i \in 1 .. N : (N - i) + 1 \in 1 .. N /\ (N - ((N - i) + 1)) + 1 = i /\ W[i] = U[(N - i) + 1]
  BY <1>1, <1>4
<1>6. \A i \in 1 .. Len(W) : i \notin 1 .. N => i - N \in 1 .. Len(Q) /\ N + (i - N) = i /\ W[i] = Q[i - N]
  <2> TAKE i \in 1 .. Len(W)
  <2> HAVE i \notin 1 .. N
  <2>1. i - N \in 1 .. Len(Q) /\ N + (i - N) = i
    BY <1>4
  <2>2. W[N + (i - N)] = Q[i - N]
    BY <1>4, <2>1
  <2> QED
    BY <2>1, <2>2
<1> HIDE DEF N
<1>7. ASSUME NEW i \in 1 .. Len(W), NEW j \in 1 .. Len(W), W[i] = W[j]
      PROVE  i = j
  <2>1. CASE i \in 1 .. N /\ j \in 1 .. N
    <3>1. U[(N - i) + 1] = U[(N - j) + 1]
      BY <1>5, <1>7, <2>1
    <3>2. (N - i) + 1 \in 1 .. N /\ (N - j) + 1 \in 1 .. N
      BY <1>5, <2>1
    <3>3. (N - i) + 1 = (N - j) + 1
      BY <1>1, <3>1, <3>2 DEF N, Injective
    <3> QED
      BY <1>5, <2>1, <3>3
  <2>2. CASE i \notin 1 .. N /\ j \notin 1 .. N
    <3>1. Q[i - N] = Q[j - N] /\ i - N \in 1 .. Len(Q) /\ j - N \in 1 .. Len(Q)
      BY <1>6, <1>7, <2>2
    <3>2. i - N = j - N
      BY <1>1, <3>1 DEF Injective
    <3> QED
      BY <1>6, <2>2, <3>2
  <2>3. ASSUME NEW x \in 1 .. Len(W), NEW y \in 1 .. Len(W), x \in 1 .. N, y \notin 1 .. N
        PROVE  W[x] # W[y]
    <3>1. W[x] = U[(N - x) + 1] /\ (N - x) + 1 \in 1 .. N /\ W[y] = Q[y - N] /\ y - N \in 1 .. Len(Q)
      BY <1>5, <1>6, <2>3
    <3> QED
      BY <1>3, <3>1 DEF Apart, N
  <2>4. CASE i \in 1 .. N /\ j \notin 1 .. N
    BY <1>7, <2>3, <2>4
  <2>5. CASE i \notin 1 .. N /\ j \in 1 .. N
    BY <1>7, <2>3, <2>5
  <2> QED
    BY <2>1, <2>2, <2>4, <2>5
<1>8. Injective(W)
  BY <1>7 DEF Injective
<1> QED
  BY <1>4, <1>5, <1>8 DEF N, U, Q, W

(* What the free stack's walk has buffered, backwards, and where in the    *)
(* order it begins.                                                        *)
Back(start_node) ==
  LET buffer == stack_walk(heap, unused, NULL, start_node)
  IN  IF start_node = NULL \/ start_node \in ToSet(buffer) THEN Reverse(buffer) ELSE << >>

(* Where a walk really begins: a node in use counts as the top.            *)
Begun(start_node) == IF start_node \in ToSet(UsedList) THEN used.front ELSE start_node

(* And where it really ends: an end that was passed is not noticed.        *)
Before(node, other) == \E i, j \in DOMAIN Order : i < j /\ Order[i] = node /\ Order[j] = other

EndsAt(end_node, begun) == IF Before(end_node, begun) THEN NULL ELSE end_node

LEMMA BackKnown ==
  ASSUME FreeShape, NEW start_node, start_node \in ToSet(UnusedList) \cup ToSet(UsedList) \cup {NULL}
  PROVE  \E a \in 1 .. Len(UnusedList) + 1 :
           /\ Begins(Order, Begun(start_node), a)
           /\ Back(start_node) = SubSeq(Order, a, Len(UnusedList))
<1> DEFINE U == UnusedList
           Q == UsedList
           N == Len(U)
           W == Order
<1>1. /\ Q \in Seq(Nodes) /\ U \in Seq(Nodes) /\ N \in Nat /\ Len(Q) \in Nat
      /\ used.front = At(Q, 1) /\ Apart(Q, U)
      /\ \A i, j \in 1 .. N : U[i] = U[j] => i = j
  BY FreeLists DEF Injective, FreeShape
<1>0. IsChain(heap, unused.front, U)
  BY FreeLists DEF IsStack
<1>2. /\ W \in Seq(Nodes) /\ Len(W) = N + Len(Q)
      /\ \A i \in 1 .. N : W[i] = U[(N - i) + 1]
      /\ \A i \in 1 .. Len(Q) : W[N + i] = Q[i]
  BY OrderKnown
<1>3. start_node \in ToSet(U) \/ start_node = NULL \/ start_node \in ToSet(Q)
  OBVIOUS
<1>11. Begun(start_node) = IF start_node \in ToSet(Q) THEN used.front ELSE start_node
  BY DEF Begun
<1> HIDE DEF Q, U, W
<1>4. ASSUME NEW n \in 0 .. N, IsRange(U, NULL, start_node, 1, n)
      PROVE  /\ stack_walk(heap, unused, NULL, start_node) = SubSeq(U, 1, n)
             /\ SubSeq(U, 1, n) \in Seq(Nodes) /\ Len(SubSeq(U, 1, n)) = n
             /\ \A i \in 1 .. n : SubSeq(U, 1, n)[i] = U[i]
             /\ Reverse(SubSeq(U, 1, n)) = SubSeq(W, (N - n) + 1, N)
  <2>1. stack_walk(heap, unused, NULL, start_node) = SubSeq(U, 1, n)
    <3>1. FromFront(U, NULL, start_node, n)
      BY <1>4 DEF FromFront
    <3>2. stack_walk(heap, unused, NULL, start_node) = UpTo(U, n)
      BY <1>0, <3>1, WalkFromFront
    <3> QED
      BY <3>2 DEF UpTo
  <2>2. PICK b : b = SubSeq(U, 1, n)
    OBVIOUS
  <2>3. \A i \in 1 .. n : U[i] \in Nodes
    BY <1>1
  <2>4. b \in Seq(Nodes) /\ Len(b) = n /\ \A i \in 1 .. n : b[i] = U[i]
    <3>1. /\ b \in Seq(Nodes) /\ Len(b) = IF 1 <= n THEN n - 1 + 1 ELSE 0
          /\ \A i \in 1 .. n - 1 + 1 : b[i] = U[1 + i - 1]
      BY <1>1, <2>2, <2>3, SubSeqProperties
    <3> QED
      BY <1>1, <3>1
  <2>5. PICK t : t = Reverse(b)
    OBVIOUS
  <2>6. t \in Seq(Nodes) /\ Len(t) = n /\ \A i \in 1 .. n : t[i] = b[(n - i) + 1]
    BY <2>4, <2>5, ReverseProperties
  <2>7. \A i \in 1 .. n : t[i] = W[(((N - n) + 1) + i) - 1]
    <3> TAKE i \in 1 .. n
    <3>1. /\ (n - i) + 1 \in 1 .. n /\ (((N - n) + 1) + i) - 1 \in 1 .. N
          /\ (N - ((((N - n) + 1) + i) - 1)) + 1 = (n - i) + 1
      BY <1>1
    <3>2. t[i] = U[(n - i) + 1]
      BY <2>4, <2>6, <3>1
    <3>3. W[(((N - n) + 1) + i) - 1] = U[(N - ((((N - n) + 1) + i) - 1)) + 1]
      BY <1>2, <3>1
    <3> QED
      BY <3>1, <3>2, <3>3
  <2>8. SubSeq(W, (N - n) + 1, N) = t
    <3>1. /\ (N - n) + 1 \in 1 .. Len(W) + 1 /\ N \in ((N - n) + 1) - 1 .. Len(W)
          /\ Len(t) = (N - ((N - n) + 1)) + 1
      BY <1>1, <1>2, <2>6
    <3> QED
      BY <1>2, <2>6, <2>7, <3>1, PartEqual
  <2> QED
    BY <2>1, <2>2, <2>4, <2>5, <2>8
<1>5. ASSUME \A i \in 1 .. N : U[i] # start_node
      PROVE  IsRange(U, NULL, start_node, 1, N) /\ N \in 0 .. N
  BY <1>1, <1>5 DEF IsRange
<1>6. \A i \in 1 .. N : U[i] \in Nodes /\ U[i] # NULL
  BY <1>1, NullAssumption
<1>12. ASSUME start_node \notin ToSet(Q)
       PROVE  Begun(start_node) = start_node
  BY <1>11, <1>12
<1> DEFINE buffer == stack_walk(heap, unused, NULL, start_node)
<1>7. Back(start_node) = IF start_node = NULL \/ start_node \in ToSet(buffer) THEN Reverse(buffer) ELSE << >>
  BY DEF Back
<1> HIDE DEF buffer
<1>8. CASE start_node = NULL
  <2>1. IsRange(U, NULL, start_node, 1, N) /\ N \in 0 .. N
    BY <1>5, <1>6, <1>8
  <2>2. Back(start_node) = SubSeq(W, (N - N) + 1, N)
    <3>1. /\ stack_walk(heap, unused, NULL, start_node) = SubSeq(U, 1, N)
          /\ Reverse(SubSeq(U, 1, N)) = SubSeq(W, (N - N) + 1, N)
      BY <1>4, <2>1
    <3>2. Back(start_node) = Reverse(buffer)
      BY <1>7, <1>8
    <3> QED
      BY <3>1, <3>2 DEF buffer
  <2>5. (N - N) + 1 = 1 /\ 1 \in 1 .. N + 1
    BY <1>1
  <2>6. Begun(start_node) = start_node
    <3>1. \A i \in 1 .. Len(Q) : Q[i] # start_node
      BY <1>1, <1>8, NullAssumption
    <3> QED
      BY <1>1, <1>12, <3>1, SetOfList
  <2>3. Begins(W, Begun(start_node), 1)
    BY <1>8, <2>6 DEF Begins
  <2>4. \E a \in 1 .. N + 1 : Begins(W, Begun(start_node), a) /\ Back(start_node) = SubSeq(W, a, N)
    BY <2>2, <2>3, <2>5
  <2> QED
    BY <2>4 DEF U, W
<1>9. CASE start_node \in ToSet(U) /\ start_node # NULL
  <2>1. PICK n \in 1 .. N : U[n] = start_node
    BY <1>1, <1>9, SetOfList
  <2>2. IsRange(U, NULL, start_node, 1, n) /\ n \in 0 .. N
    <3>1. \A i \in 1 .. n - 1 : i \in 1 .. N /\ i # n
      BY <1>1
    <3>2. \A i \in 1 .. n - 1 : U[i] # start_node
      BY <1>1, <2>1, <3>1
    <3> QED
      BY <1>1, <2>1, <3>2 DEF IsRange
  <2>3. /\ buffer = SubSeq(U, 1, n)
        /\ SubSeq(U, 1, n) \in Seq(Nodes) /\ Len(SubSeq(U, 1, n)) = n
        /\ \A i \in 1 .. n : SubSeq(U, 1, n)[i] = U[i]
        /\ Reverse(SubSeq(U, 1, n)) = SubSeq(W, (N - n) + 1, N)
    BY <1>4, <2>2 DEF buffer
  <2>4. buffer \in Seq(Nodes) /\ Len(buffer) = n /\ buffer[n] = start_node /\ n \in 1 .. n
    BY <2>1, <2>3
  <2>5. start_node \in ToSet(buffer)
    BY <2>4, SetOfList
  <2>6. Back(start_node) = SubSeq(W, (N - n) + 1, N)
    BY <1>7, <2>3, <2>5
  <2>7. /\ (N - n) + 1 \in 1 .. N /\ (N - n) + 1 \in 1 .. Len(W) /\ (N - n) + 1 \in 1 .. N + 1
        /\ (N - ((N - n) + 1)) + 1 = n
    BY <1>1, <1>2, <2>1
  <2>10. Begun(start_node) = start_node
    <3>1. \A i \in 1 .. Len(Q) : Q[i] # start_node
      BY <1>1, <2>1 DEF Apart
    <3> QED
      BY <1>1, <1>12, <3>1, SetOfList
  <2>8. Begins(W, Begun(start_node), (N - n) + 1)
    BY <1>2, <1>9, <2>1, <2>7, <2>10 DEF Begins
  <2>9. \E a \in 1 .. N + 1 : Begins(W, Begun(start_node), a) /\ Back(start_node) = SubSeq(W, a, N)
    BY <2>6, <2>7, <2>8
  <2> QED
    BY <2>9 DEF U, W
<1>10. CASE start_node \in ToSet(Q) /\ start_node # NULL
  <2>11. PICK k \in 1 .. Len(Q) : Q[k] = start_node
    BY <1>1, <1>10, SetOfList
  <2>1. 1 \in 1 .. Len(Q) /\ Q[1] = used.front /\ Begun(start_node) = used.front /\ used.front # NULL
    <3>1. 1 \in 1 .. Len(Q)
      BY <1>1, <2>11
    <3> QED
      BY <1>1, <1>10, <1>11, <3>1, NullAssumption DEF At
  <2>2. \A i \in 1 .. N : U[i] # start_node
    BY <1>1, <2>11 DEF Apart
  <2>3. IsRange(U, NULL, start_node, 1, N) /\ N \in 0 .. N
    BY <1>5, <2>2
  <2>4. /\ buffer = SubSeq(U, 1, N)
        /\ SubSeq(U, 1, N) \in Seq(Nodes) /\ Len(SubSeq(U, 1, N)) = N
        /\ \A i \in 1 .. N : SubSeq(U, 1, N)[i] = U[i]
    BY <1>4, <2>3 DEF buffer
  <2>5. buffer \in Seq(Nodes) /\ Len(buffer) = N /\ \A i \in 1 .. N : buffer[i] # start_node
    BY <2>2, <2>4
  <2>6. start_node \notin ToSet(buffer)
    BY <2>5, SetOfList
  <2>7. Back(start_node) = << >>
    BY <1>7, <1>10, <2>6
  <2>8. SubSeq(W, N + 1, N) = << >> /\ N + 1 \in 1 .. N + 1 /\ N + 1 \in 1 .. Len(W)
    <3>1. N \in Int /\ N + 1 \in Int /\ N < N + 1 /\ N + 1 \in 1 .. N + 1 /\ N + 1 \in 1 .. Len(W)
      BY <1>1, <1>2, <2>1
    <3> QED
      BY <3>1, SubSeqEmpty
  <2>9. Begins(W, Begun(start_node), N + 1)
    BY <1>2, <2>1, <2>8 DEF Begins
  <2>10. \E a \in 1 .. N + 1 : Begins(W, Begun(start_node), a) /\ Back(start_node) = SubSeq(W, a, N)
    BY <2>7, <2>8, <2>9
  <2> QED
    BY <2>10 DEF U, W
<1> QED
  BY <1>3, <1>8, <1>9, <1>10

LEMMA WalkedParts ==
  \A start_node, end_node :
    Free!fstack_walk(start_node, end_node)
      = IF end_node \in ToSet(Back(start_node))
        THEN SubSeq(Back(start_node), 1,
                    CHOOSE i \in DOMAIN Back(start_node) : Back(start_node)[i] = end_node)
        ELSE Back(start_node) \o stack_walk(heap, used, used.front, end_node)
<1> TAKE start_node, end_node
<1> DEFINE buffer == Free!stack_walk(heap, unused, NULL, start_node)
           back   == IF start_node = NULL \/ start_node \in Free!ToSet(buffer)
                     THEN Free!Reverse(buffer) ELSE << >>
<1>1. Free!fstack_walk(start_node, end_node)
        = IF end_node \in Free!ToSet(back)
          THEN SubSeq(back, 1, CHOOSE i \in DOMAIN back : back[i] = end_node)
          ELSE back \o Free!stack_walk(heap, used, used.front, end_node)
  BY Zenon DEF Free!fstack_walk
<1>2. back = Back(start_node)
  BY SameLists DEF Back
<1> HIDE DEF back
<1>3. /\ Free!stack_walk(heap, used, used.front, end_node) = stack_walk(heap, used, used.front, end_node)
      /\ Free!ToSet(back) = ToSet(back)
  BY SameLists
<1>4. Free!fstack_walk(start_node, end_node)
        = IF end_node \in ToSet(back)
          THEN SubSeq(back, 1, CHOOSE i \in DOMAIN back : back[i] = end_node)
          ELSE back \o stack_walk(heap, used, used.front, end_node)
  BY <1>1, <1>3, Zenon
<1> QED
  BY <1>2, <1>4, Zenon

(* The walk goes on in used from where it left the buffered part.          *)
LEMMA WalkKnown ==
  ASSUME FreeShape, NEW start_node, start_node \in ToSet(UnusedList) \cup ToSet(UsedList) \cup {NULL},
         NEW end_node
  PROVE  Free!fstack_walk(start_node, end_node)
           = WalkedRange(Order, Begun(start_node), EndsAt(end_node, Begun(start_node)))
<1> DEFINE U == UnusedList
           Q == UsedList
           N == Len(U)
           W == Order
           back == Back(start_node)
           begun == Begun(start_node)
           ended == EndsAt(end_node, begun)
           range == WalkedRange(W, begun, ended)
<1>1. /\ Q \in Seq(Nodes) /\ U \in Seq(Nodes) /\ N \in Nat /\ Len(Q) \in Nat
      /\ used.front = At(Q, 1) /\ \A i, j \in 1 .. Len(Q) : Q[i] = Q[j] => i = j
  BY FreeLists DEF Injective
<1>0. IsChain(heap, used.front, Q)
  BY FreeLists DEF IsStack
<1>2. /\ W \in Seq(Nodes) /\ Len(W) = N + Len(Q) /\ Injective(W)
      /\ \A i \in 1 .. Len(Q) : W[N + i] = Q[i]
  BY OrderKnown
<1>3. PICK a \in 1 .. N + 1 : Begins(W, begun, a) /\ back = SubSeq(W, a, N)
  BY BackKnown
<1>4. Free!fstack_walk(start_node, end_node)
        = IF end_node \in ToSet(back)
          THEN SubSeq(back, 1, CHOOSE i \in DOMAIN back : back[i] = end_node)
          ELSE back \o stack_walk(heap, used, used.front, end_node)
  BY WalkedParts DEF back
<1>14. ended = IF \E i, j \in DOMAIN W : i < j /\ W[i] = end_node /\ W[j] = begun THEN NULL ELSE end_node
  BY DEF EndsAt, Before
<1> HIDE DEF U, Q, W, back, begun, ended
<1>5. /\ back \in Seq(Nodes) /\ Len(back) = (N - a) + 1
      /\ \A i \in 1 .. (N - a) + 1 : back[i] = W[(a + i) - 1]
  <2>1. \A i \in a .. N : W[i] \in Nodes
    BY <1>1, <1>2
  <2>2. /\ back \in Seq(Nodes) /\ Len(back) = IF a <= N THEN N - a + 1 ELSE 0
        /\ \A i \in 1 .. N - a + 1 : back[i] = W[a + i - 1]
    BY <1>1, <1>3, <2>1, SubSeqProperties
  <2> QED
    BY <1>1, <2>2
<1>6. ASSUME NEW m, Finishes(W, ended, m)
      PROVE  range = SubSeq(W, a, m)
  BY <1>2, <1>3, <1>6, RangeKnown
<1> HIDE DEF N, range
<1>15. a \in 1 .. Len(W) + 1 /\ \A i \in 1 .. Len(W) : W[i] \in Nodes /\ W[i] # NULL
  BY <1>1, <1>2, NullAssumption DEF N
<1>16. ASSUME \A m \in 1 .. a - 1 : W[m] # end_node
       PROVE  ended = end_node
  <2>1. ASSUME NEW i \in DOMAIN W, NEW j \in DOMAIN W, i < j, W[i] = end_node, W[j] = begun
        PROVE  FALSE
    <3>1. i \in 1 .. Len(W) /\ j \in 1 .. Len(W) /\ begun # NULL
      BY <1>2, <1>15, <2>1
    <3>2. a \in 1 .. Len(W) /\ W[a] = begun
      BY <1>3, <3>1 DEF Begins
    <3>3. j = a
      BY <1>2, <2>1, <3>1, <3>2 DEF Injective
    <3>4. i \in 1 .. a - 1
      BY <2>1, <3>1, <3>3
    <3> QED
      BY <1>16, <2>1, <3>4
  <2> QED
    BY <1>14, <2>1
<1>17. ASSUME NEW m \in 1 .. a - 1, W[m] = end_node
       PROVE  ended = NULL
  <2>1. a # 1 /\ m \in 1 .. Len(W) /\ m < a
    BY <1>15
  <2>2. a \in 1 .. Len(W) /\ W[a] = begun
    BY <1>3, <2>1 DEF Begins
  <2> QED
    BY <1>2, <1>14, <1>17, <2>1, <2>2
<1>7. ASSUME NEW m \in a .. N, W[m] = end_node
      PROVE  Free!fstack_walk(start_node, end_node) = range
  <2>1. m \in 1 .. Len(W) /\ (m - a) + 1 \in 1 .. (N - a) + 1 /\ (a + ((m - a) + 1)) - 1 = m
    BY <1>1, <1>2, <1>7
  <2>2. back[(m - a) + 1] = end_node
    BY <1>5, <1>7, <2>1
  <2>3. end_node \in ToSet(back)
    BY <1>5, <2>1, <2>2, SetOfList
  <2>4. \A i \in DOMAIN back : back[i] = end_node => i = (m - a) + 1
    <3> TAKE i \in DOMAIN back
    <3> HAVE back[i] = end_node
    <3>1. i \in 1 .. (N - a) + 1 /\ (a + i) - 1 \in 1 .. Len(W)
      BY <1>1, <1>2, <1>5
    <3>2. W[(a + i) - 1] = W[m]
      BY <1>5, <1>7, <3>1
    <3>3. (a + i) - 1 = m
      BY <1>2, <2>1, <3>1, <3>2 DEF Injective
    <3> QED
      BY <3>1, <3>3
  <2>5. (CHOOSE i \in DOMAIN back : back[i] = end_node) = (m - a) + 1
    <3>1. (m - a) + 1 \in DOMAIN back
      BY <1>5, <2>1
    <3> QED
      BY <2>2, <2>4, <3>1
  <2>6. PICK t : t = SubSeq(W, a, m)
    OBVIOUS
  <2>7. /\ t \in Seq(Nodes) /\ Len(t) = (m - a) + 1
        /\ \A i \in 1 .. (m - a) + 1 : t[i] = W[(a + i) - 1]
    <3>1. \A i \in a .. m : W[i] \in Nodes
      BY <1>1, <1>2, <2>1
    <3>2. /\ t \in Seq(Nodes) /\ Len(t) = IF a <= m THEN m - a + 1 ELSE 0
          /\ \A i \in 1 .. m - a + 1 : t[i] = W[a + i - 1]
      BY <1>1, <2>6, <3>1, SubSeqProperties
    <3> QED
      BY <1>1, <3>2
  <2>8. SubSeq(back, 1, (m - a) + 1) = t
    <3>1. /\ 1 \in 1 .. Len(back) + 1 /\ (m - a) + 1 \in 1 - 1 .. Len(back)
          /\ Len(t) = (((m - a) + 1) - 1) + 1
      BY <1>1, <1>5, <2>1, <2>7
    <3>2. \A i \in 1 .. Len(t) : t[i] = back[(1 + i) - 1]
      <4> TAKE i \in 1 .. Len(t)
      <4>1. i \in 1 .. (m - a) + 1 /\ i \in 1 .. (N - a) + 1 /\ (1 + i) - 1 = i
        BY <1>1, <2>7
      <4> QED
        BY <1>5, <2>7, <4>1
    <3> QED
      BY <1>5, <2>7, <3>1, <3>2, PartEqual
  <2>9. Free!fstack_walk(start_node, end_node) = t
    BY <1>4, <2>3, <2>5, <2>8
  <2>11. ended = end_node
    <3>1. \A i \in 1 .. a - 1 : i \in 1 .. Len(W) /\ i # m
      BY <1>1, <1>2, <2>1
    <3>2. \A i \in 1 .. a - 1 : W[i] # end_node
      BY <1>2, <1>7, <2>1, <3>1 DEF Injective
    <3> QED
      BY <1>16, <3>2
  <2>10. range = t
    BY <1>6, <1>7, <2>1, <2>6, <2>11 DEF Finishes
  <2> QED
    BY <2>9, <2>10
<1>8. ASSUME NEW q \in 0 .. Len(Q), Finishes(W, ended, N + q), \A i \in a .. N : W[i] # end_node,
             IsRange(Q, used.front, end_node, 1, q)
      PROVE  Free!fstack_walk(start_node, end_node) = range
  <2>1. stack_walk(heap, used, used.front, end_node) = SubSeq(Q, 1, q)
    <3>1. FromFront(Q, used.front, end_node, q)
      BY <1>8 DEF FromFront
    <3>2. stack_walk(heap, used, used.front, end_node) = UpTo(Q, q)
      BY <1>0, <3>1, WalkFromFront
    <3> QED
      BY <3>2 DEF UpTo
  <2>2. end_node \notin ToSet(back)
    <3>1. \A i \in 1 .. Len(back) : (a + i) - 1 \in a .. N
      BY <1>1, <1>5
    <3>2. \A i \in 1 .. Len(back) : back[i] # end_node
      BY <1>5, <1>8, <3>1
    <3> QED
      BY <1>5, <3>2, SetOfList
  <2>3. SubSeq(W, N + 1, N + q) = SubSeq(Q, 1, q)
    <3>1. PICK t : t = SubSeq(Q, 1, q)
      OBVIOUS
    <3>2. /\ t \in Seq(Nodes) /\ Len(t) = q
          /\ \A i \in 1 .. q : t[i] = Q[i]
      <4>1. \A i \in 1 .. q : Q[i] \in Nodes
        BY <1>1
      <4>2. /\ t \in Seq(Nodes) /\ Len(t) = IF 1 <= q THEN q - 1 + 1 ELSE 0
            /\ \A i \in 1 .. q - 1 + 1 : t[i] = Q[1 + i - 1]
        BY <1>1, <3>1, <4>1, SubSeqProperties
      <4> QED
        BY <1>1, <4>2
    <3>3. /\ N + 1 \in 1 .. Len(W) + 1 /\ N + q \in (N + 1) - 1 .. Len(W)
          /\ Len(t) = ((N + q) - (N + 1)) + 1
      BY <1>1, <1>2, <3>2 DEF N
    <3>4. \A i \in 1 .. Len(t) : t[i] = W[((N + 1) + i) - 1]
      <4> TAKE i \in 1 .. Len(t)
      <4>1. i \in 1 .. Len(Q) /\ ((N + 1) + i) - 1 = N + i /\ i \in 1 .. q
        BY <1>1, <3>2 DEF N
      <4> QED
        BY <1>2, <3>2, <4>1
    <3>5. SubSeq(W, N + 1, N + q) = t
      BY <1>2, <3>2, <3>3, <3>4, PartEqual
    <3> QED
      BY <3>1, <3>5
  <2>4. SubSeq(W, a, N) \o SubSeq(W, N + 1, N + q) = SubSeq(W, a, N + q)
    <3>1. a \in 1 .. Len(W) + 1 /\ N \in a - 1 .. Len(W) /\ N + q \in N .. Len(W)
      BY <1>1, <1>2 DEF N
    <3> QED
      BY <1>2, <3>1, ConcatAdjacentSubSeq
  <2>5. range = SubSeq(W, a, N + q)
    BY <1>6, <1>8
  <2> QED
    BY <1>3, <1>4, <2>1, <2>2, <2>3, <2>4, <2>5
<1>9. ASSUME NEW q \in 0 .. Len(Q), \A i \in 1 .. q - 1 : Q[i] # end_node,
             q = Len(Q) \/ (q > 0 /\ Q[q] = end_node)
      PROVE  IsRange(Q, used.front, end_node, 1, q)
  <2>1. CASE Q = << >>
    <3>1. Len(Q) = 0 /\ used.front = NULL
      BY <1>1, <2>1 DEF At
    <3> QED
      BY <1>9, <3>1 DEF IsRange
  <2>2. CASE Q # << >>
    <3>1. 1 \in 1 .. Len(Q) /\ used.front = Q[1] /\ Q[1] # NULL
      BY <1>1, <2>2, NullAssumption DEF At
    <3>2. \A i \in 1 .. Len(Q) : Q[i] = used.front <=> i = 1
      BY <1>1, <3>1
    <3> QED
      BY <1>1, <1>9, <3>1, <3>2 DEF IsRange
  <2> QED
    BY <2>1, <2>2
<1>10. CASE \E m \in a .. N : W[m] = end_node
  BY <1>7, <1>10 DEF range, W, begun, ended
<1>11. CASE \E m \in 1 .. a - 1 : W[m] = end_node
  <2>1. PICK m \in 1 .. a - 1 : W[m] = end_node
    BY <1>11
  <2>2. m \in 1 .. Len(W) /\ m \in 1 .. N /\ m < a
    BY <1>1, <1>2, <2>1 DEF N
  <2>3. \A i \in a .. N : W[i] # end_node
    <3>1. \A i \in a .. N : i \in 1 .. Len(W) /\ i # m
      BY <1>1, <1>2, <2>2 DEF N
    <3> QED
      BY <1>2, <2>1, <2>2, <3>1 DEF Injective
  <2>4. \A i \in 1 .. Len(Q) : Q[i] # end_node
    <3>1. \A i \in 1 .. Len(Q) : N + i \in 1 .. Len(W) /\ N + i # m /\ W[N + i] = Q[i]
      BY <1>1, <1>2, <2>2 DEF N
    <3> QED
      BY <1>2, <2>1, <2>2, <3>1 DEF Injective
  <2>5. Len(Q) \in 0 .. Len(Q) /\ \A i \in 1 .. Len(Q) - 1 : i \in 1 .. Len(Q)
    BY <1>1
  <2>6. IsRange(Q, used.front, end_node, 1, Len(Q))
    BY <1>9, <2>4, <2>5
  <2>7. ended = NULL
    BY <1>17, <2>1
  <2>8. Finishes(W, ended, N + Len(Q))
    BY <1>2, <1>15, <2>7 DEF Finishes
  <2>9. Free!fstack_walk(start_node, end_node) = range
    BY <1>8, <2>3, <2>5, <2>6, <2>8
  <2> QED
    BY <2>9 DEF range, W, begun, ended
<1>12. CASE \A m \in 1 .. N : W[m] # end_node
  <2>4. ended = end_node
    <3>1. \A m \in 1 .. a - 1 : m \in 1 .. N
      BY <1>1 DEF N
    <3> QED
      BY <1>12, <1>16, <3>1
  <2>1. \A i \in a .. N : W[i] # end_node
    BY <1>1, <1>12 DEF N
  <2>2. CASE \E q \in 1 .. Len(Q) : Q[q] = end_node
    <3>1. PICK q \in 1 .. Len(Q) : Q[q] = end_node
      BY <2>2
    <3>2. \A i \in 1 .. q - 1 : i \in 1 .. Len(Q) /\ i # q
      BY <1>1
    <3>3. \A i \in 1 .. q - 1 : Q[i] # end_node
      BY <1>1, <3>1, <3>2
    <3>4. q \in 0 .. Len(Q) /\ q > 0
      BY <1>1
    <3>5. IsRange(Q, used.front, end_node, 1, q)
      BY <1>9, <3>1, <3>3, <3>4
    <3>6. N + q \in 1 .. Len(W) /\ W[N + q] = end_node
      BY <1>1, <1>2, <3>1 DEF N
    <3>7. Free!fstack_walk(start_node, end_node) = range
      BY <1>8, <2>1, <2>4, <3>4, <3>5, <3>6 DEF Finishes
    <3> QED
      BY <3>7 DEF range, W, begun, ended
  <2>3. CASE \A q \in 1 .. Len(Q) : Q[q] # end_node
    <3>1. Len(Q) \in 0 .. Len(Q) /\ \A i \in 1 .. Len(Q) - 1 : i \in 1 .. Len(Q)
      BY <1>1
    <3>2. IsRange(Q, used.front, end_node, 1, Len(Q))
      BY <1>9, <2>3, <3>1
    <3>3. ASSUME NEW i \in 1 .. Len(W), W[i] = end_node
          PROVE  FALSE
      <4>1. i \in 1 .. N \/ (i - N \in 1 .. Len(Q) /\ N + (i - N) = i)
        BY <1>1, <1>2 DEF N
      <4>2. CASE i \in 1 .. N
        BY <1>12, <3>3, <4>2
      <4>3. CASE i - N \in 1 .. Len(Q) /\ N + (i - N) = i
        <5>1. W[N + (i - N)] = Q[i - N]
          BY <1>2, <4>3
        <5> QED
          BY <2>3, <3>3, <4>3, <5>1
      <4> QED
        BY <4>1, <4>2, <4>3
    <3>4. Finishes(W, ended, N + Len(Q))
      BY <1>2, <2>4, <3>3 DEF Finishes
    <3>5. Free!fstack_walk(start_node, end_node) = range
      BY <1>8, <2>1, <3>1, <3>2, <3>4
    <3> QED
      BY <3>5 DEF range, W, begun, ended
  <2> QED
    BY <2>2, <2>3
<1>13. \A m \in 1 .. N : m \in a .. N \/ m \in 1 .. a - 1
  BY <1>1 DEF N
<1> QED
  BY <1>10, <1>11, <1>12, <1>13

(* The order's nodes are those of the two lists.                           *)
LEMMA OrderNodes ==
  ASSUME FreeShape, NEW x, x \in ToSet(Order)
  PROVE  x \in ToSet(UnusedList) \cup ToSet(UsedList)
<1> DEFINE U == UnusedList
           Q == UsedList
           N == Len(U)
           W == Order
<1>1. /\ Q \in Seq(Nodes) /\ U \in Seq(Nodes) /\ N \in Nat /\ Len(Q) \in Nat
  BY FreeLists
<1>2. /\ W \in Seq(Nodes) /\ Len(W) = N + Len(Q)
      /\ \A i \in 1 .. N : W[i] = U[(N - i) + 1]
      /\ \A i \in 1 .. Len(Q) : W[N + i] = Q[i]
  BY OrderKnown
<1> HIDE DEF U, Q, W
<1>3. PICK i \in 1 .. Len(W) : W[i] = x
  BY <1>2, SetOfList DEF W
<1>4. CASE i \in 1 .. N
  <2>1. (N - i) + 1 \in 1 .. N /\ U[(N - i) + 1] = x
    BY <1>1, <1>2, <1>3, <1>4
  <2>2. x \in ToSet(U)
    BY <1>1, <2>1, SetOfList DEF N
  <2> QED
    BY <2>2 DEF U
<1>5. CASE i \notin 1 .. N
  <2>1. i - N \in 1 .. Len(Q) /\ N + (i - N) = i
    BY <1>1, <1>2, <1>3, <1>5 DEF N
  <2>2. Q[i - N] = x
    BY <1>2, <1>3, <2>1
  <2>3. x \in ToSet(Q)
    BY <1>1, <2>1, <2>2, SetOfList
  <2> QED
    BY <2>3 DEF Q
<1> QED
  BY <1>4, <1>5

LEMMA FreeWalks == FreeShape => Free!WalksOneRange
<1> SUFFICES ASSUME FreeShape
             PROVE  Free!WalksOneRange
  OBVIOUS
<1>1. Free!UsedNodes = UsedList /\ Free!UnusedNodes = UnusedList
  BY SameLists DEF Free!UsedNodes, Free!UnusedNodes, UsedList, UnusedList
<1>2. Free!WalkOrder = Order
  BY <1>1, SameLists DEF Free!WalkOrder, Order
<1>3. \A node, other : Free!Precedes(node, other) = Before(node, other)
  BY <1>2, Zenon DEF Free!Precedes, Before
<1>4. ASSUME NEW start_node \in ToSet(Order) \cup {NULL}, NEW end_node \in Nodes \cup {NULL}
      PROVE  Free!fstack_walk(start_node, end_node)
               = WalkedRange(Order, Begun(start_node), EndsAt(end_node, Begun(start_node)))
  <2>1. start_node \in ToSet(UnusedList) \cup ToSet(UsedList) \cup {NULL}
    BY <1>4, OrderNodes
  <2> QED
    BY <2>1, WalkKnown
<1> QED
  BY <1>1, <1>2, <1>3, <1>4, SameLists, Zenon DEF Free!WalksOneRange, Begun, EndsAt

(***************************************************************************)
(* In every state of the free stack, a walk from any of its nodes, or from *)
(* the beginning, to any end calls the predicate on one unbroken range of  *)
(* the order from the oldest popped to the oldest used, each node once:    *)
(* the range of fstack.h, but that a start in use counts as the top, and   *)
(* an end that lies before the start as no end.                            *)
(***************************************************************************)
THEOREM WalksAreRanges == Free!Spec => []Free!WalksOneRange
BY FreeAlways, FreeWalks, PTL
=============================================================================
