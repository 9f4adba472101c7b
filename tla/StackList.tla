----------------------------- MODULE StackList -----------------------------
(***************************************************************************)
(* templates/stack.c: a singly linked list with both of its ends.  heap    *)
(* maps every node to its val and next, stack is the struct; an operation  *)
(* on a stack yields the heap and the struct it leaves behind.             *)
(***************************************************************************)
EXTENDS Integers, FiniteSets, Sequences

CONSTANTS NULL, Nodes

ASSUME NullAssumption == NULL \notin Nodes
ASSUME NodesAssumption == IsFiniteSet(Nodes)

stack_ctor == [front |-> NULL, back |-> NULL, length |-> 0]

stack_push(heap, stack, node) ==
  [ heap  |-> [heap EXCEPT ![node].next = stack.front],
    stack |-> [ front  |-> node,
                back   |-> IF stack.front = NULL THEN node ELSE stack.back,
                length |-> stack.length + 1 ] ]

(* A bug the runs must catch: the node keeps the next it came with.        *)
AsFound(heap, node) == heap

Ended(heap, node) == [heap EXCEPT ![node].next = NULL]

stack_append(heap, stack, node) ==
  LET ended == Ended(heap, node)
  IN  IF stack.back = NULL
      THEN [ heap  |-> ended,
             stack |-> [front |-> node, back |-> node, length |-> stack.length + 1] ]
      ELSE [ heap  |-> [ended EXCEPT ![stack.back].next = node],
             stack |-> [front |-> stack.front, back |-> node, length |-> stack.length + 1] ]

(* Of a stack with a front; the node popped is that front.                 *)
stack_pop(heap, stack) ==
  LET front == heap[stack.front].next
  IN  [ heap  |-> [heap EXCEPT ![stack.front].next = NULL],
        stack |-> [ front  |-> front,
                    back   |-> IF front = NULL THEN NULL ELSE stack.back,
                    length |-> stack.length - 1 ] ]

(***************************************************************************)
(* stack_reverse moves the node behind the original front to the front, as *)
(* long as there is one: the n-th state of its loop, each the last one's   *)
(* if that had nothing to move.                                            *)
(***************************************************************************)
Turned(s, orig) ==
  LET tmp == s.heap[orig].next
      without_tmp == [s.heap EXCEPT ![orig].next = s.heap[tmp].next]
  IN  IF tmp = NULL THEN s
      ELSE [heap |-> [without_tmp EXCEPT ![tmp].next = s.front], front |-> tmp]

ReverseLoop(heap, stack) ==
  LET turn[n \in 0 .. Cardinality(Nodes)] ==
        IF n = 0 THEN [heap |-> heap, front |-> stack.front]
        ELSE Turned(turn[n - 1], stack.front)
  IN  turn[Cardinality(Nodes)]

stack_reverse(heap, stack) ==
  IF stack.front = NULL
  THEN [heap |-> heap, stack |-> stack]
  ELSE LET s == ReverseLoop(heap, stack)
       IN  [ heap  |-> s.heap,
             stack |-> [front |-> s.front, back |-> stack.front, length |-> stack.length] ]

(***************************************************************************)
(* stack_walk: the nodes predicate is called on, one that never returns 0. *)
(* The n-th state of its loop has cur_node, whether start_node was reached *)
(* and what was visited; the loop is over when cur_node is NULL.           *)
(***************************************************************************)
(* A bug the runs must catch: start_node is not looked for.                *)
ReachedBefore(s, start_node) == s.reached

Reached(s, start_node) == s.reached \/ s.cur = start_node

Walked(heap, s, start_node, end_node) ==
  LET reached == Reached(s, start_node)
  IN  IF s.cur = NULL THEN s
      ELSE [ cur     |-> IF s.cur = end_node THEN NULL ELSE heap[s.cur].next,
             reached |-> reached,
             visited |-> IF reached THEN Append(s.visited, s.cur) ELSE s.visited ]

stack_walk(heap, stack, start_node, end_node) ==
  LET loop[n \in 0 .. Cardinality(Nodes)] ==
        IF n = 0 THEN [cur |-> stack.front, reached |-> start_node = NULL, visited |-> << >>]
        ELSE Walked(heap, loop[n - 1], start_node, end_node)
  IN  loop[Cardinality(Nodes)].visited

(* All the nodes of a stack, the front first.                              *)
NodesOf(heap, stack) == stack_walk(heap, stack, NULL, NULL)

(***************************************************************************)
(* The part of a list of nodes that stack.h and fstack.h describe for      *)
(* a walk: from start_node, or from the beginning, to end_node, or to the  *)
(* end; nothing when end_node comes before start_node.                     *)
(***************************************************************************)
WalkedRange(seq, start_node, end_node) ==
  LET at(node)           == {i \in 1 .. Len(seq) : seq[i] = node}
      place(node, other) == IF at(node) = {} THEN other ELSE CHOOSE i \in at(node) : TRUE
      first              == IF start_node = NULL THEN 1 ELSE place(start_node, Len(seq) + 1)
  IN  SubSeq(seq, first, place(end_node, Len(seq)))
=============================================================================
