------------------------------- MODULE Stack -------------------------------
(***************************************************************************)
(* Programs that use several stacks of templates/stack.c over one heap of  *)
(* nodes.  A node is pushed with a value by its owner, belongs to at most  *)
(* one stack, and is its owner's again once it is popped, with whatever    *)
(* its next field holds.                                                   *)
(***************************************************************************)
EXTENDS StackList, SequencesExt

CONSTANTS Vals, Names

VARIABLES
  heap,          (* the val and next of each node                          *)
  stacks         (* the struct of each of the program's stacks             *)

vars == <<heap, stacks>>

Contents(s) == NodesOf(heap, stacks[s])

Unlinked == Nodes \ UNION {ToSet(Contents(s)) : s \in Names}

(* The value an owner gives its node.                                      *)
Holding(node, v) == [heap EXCEPT ![node].val = v]

Becomes(s, result) ==
  /\ heap' = result.heap
  /\ stacks' = [stacks EXCEPT ![s] = result.stack]

Push(s, node, v) ==
  node \in Unlinked /\ Becomes(s, stack_push(Holding(node, v), stacks[s], node))

PushBack(s, node, v) ==
  node \in Unlinked /\ Becomes(s, stack_append(Holding(node, v), stacks[s], node))

Pop(s) == stacks[s].front # NULL /\ Becomes(s, stack_pop(heap, stacks[s]))

Turn(s) == Becomes(s, stack_reverse(heap, stacks[s]))

(***************************************************************************)
(* stack_dup and stack_rdup walk the source and place a copy of each node, *)
(* its next field included, with stack_append or stack_push.               *)
(***************************************************************************)
Placed(h, stack, node, end) ==
  IF end = "back" THEN stack_append(h, stack, node) ELSE stack_push(h, stack, node)

CopyMade(s, original, node, end) ==
  Placed([s.heap EXCEPT ![node] = s.heap[original]], s.stack, node, end)

CopyOf(source, nodes, end) ==
  LET from == Contents(source)
      iter[i \in 0 .. Len(nodes)] ==
        IF i = 0 THEN [heap |-> heap, stack |-> stack_ctor]
        ELSE CopyMade(iter[i - 1], from[i], nodes[i], end)
  IN  iter[Len(nodes)]

(* The nodes malloc finds for the copies.                                  *)
Mallocs(n) == {nodes \in SetToAllKPermutations(Unlinked) : Len(nodes) = n}

stack_dup(s, t) ==
  /\ stacks[t] = stack_ctor
  /\ \E nodes \in Mallocs(Len(Contents(s))) : Becomes(t, CopyOf(s, nodes, "back"))

stack_rdup(s, t) ==
  /\ stacks[t] = stack_ctor
  /\ \E nodes \in Mallocs(Len(Contents(s))) : Becomes(t, CopyOf(s, nodes, "front"))

Init ==
  /\ \E junk \in [val : Vals, next : Nodes \cup {NULL}] : heap = [n \in Nodes |-> junk]
  /\ stacks = [s \in Names |-> stack_ctor]

Next ==
  \E s \in Names :
    \/ \E node \in Nodes, v \in Vals : Push(s, node, v) \/ PushBack(s, node, v)
    \/ Pop(s) \/ Turn(s)
    \/ \E t \in Names \ {s} : stack_dup(s, t) \/ stack_rdup(s, t)

Spec == Init /\ [][Next]_vars

-----------------------------------------------------------------------------
(* The heap and the structs have their types.                              *)
TypeOK ==
  /\ heap \in [Nodes -> [val : Vals, next : Nodes \cup {NULL}]]
  /\ stacks \in [Names -> [ front  : Nodes \cup {NULL}, back : Nodes \cup {NULL},
                            length : 0 .. Cardinality(Nodes) ]]

(***************************************************************************)
(* back and length, which no walk reads, agree with the list from front:   *)
(* an append goes behind the last node, and a stack is empty for all of    *)
(* the three fields at once.                                               *)
(***************************************************************************)
EndsAgree ==
  /\ TypeOK
  /\ \A s \in Names :
       /\ stacks[s].length = Len(Contents(s))
       /\ stacks[s].back = IF Contents(s) = << >> THEN NULL ELSE Last(Contents(s))
       /\ stacks[s].back # NULL => heap[stacks[s].back].next = NULL

(***************************************************************************)
(* The stacks are sequences: every operation does to the linked list what  *)
(* it promises to do to the sequence, and leaves the other stacks alone.   *)
(***************************************************************************)
Abstract ==
  INSTANCE AbstractStacks WITH
    Stacks <- Names,
    seqs <- [s \in Names |-> Contents(s)],
    vals <- [n \in Nodes \ Unlinked |-> heap[n].val]

ImplementsSequences == Abstract!Spec
=============================================================================
