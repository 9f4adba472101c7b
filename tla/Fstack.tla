------------------------------- MODULE Fstack -------------------------------
(***************************************************************************)
(* templates/fstack.c: a free stack, two linked stacks whose nodes move    *)
(* from one to the other and are never freed.  The user writes a value     *)
(* into the element that a push or an alloc returns.                       *)
(***************************************************************************)
EXTENDS StackList, SequencesExt

CONSTANT Vals

VARIABLES
  heap,          (* the val and next of each node                          *)
  used, unused   (* the two stacks of the struct                           *)

vars == <<heap, used, unused>>

UsedNodes   == NodesOf(heap, used)
UnusedNodes == NodesOf(heap, unused)

(* The memory that grow is given and that allocate finds.                  *)
Fresh == Nodes \ (ToSet(UsedNodes) \cup ToSet(UnusedNodes))

fstack_ctor == used = stack_ctor /\ unused = stack_ctor

fstack_grow(node) ==
  LET pushed == stack_push(heap, unused, node)
  IN  /\ node \in Fresh
      /\ heap' = pushed.heap /\ unused' = pushed.stack
      /\ UNCHANGED used

(* The node goes on top of used, and the user gives its element a value.   *)
Used(h, node, v) ==
  LET pushed == stack_push([h EXCEPT ![node].val = v], used, node)
  IN  heap' = pushed.heap /\ used' = pushed.stack

(* With no free node it dies or throws, and nothing changes.               *)
fstack_push(v) ==
  LET popped == stack_pop(heap, unused)
  IN  /\ unused.length # 0
      /\ Used(popped.heap, unused.front, v)
      /\ unused' = popped.stack

fstack_alloc(v) ==
  \/ /\ unused.length = 0
     /\ \E node \in Fresh : Used(heap, node, v)
     /\ UNCHANGED unused
  \/ fstack_push(v)

(* A bug the runs must catch: the popped node goes nowhere.                *)
fstack_pop_leaks ==
  LET popped == stack_pop(heap, used)
  IN  /\ used.front # NULL
      /\ heap' = popped.heap /\ used' = popped.stack
      /\ UNCHANGED unused

(* With nothing in use it dies or throws, and nothing changes.             *)
fstack_pop ==
  LET popped == stack_pop(heap, used)
      pushed == stack_push(popped.heap, unused, used.front)
  IN  /\ used.front # NULL
      /\ heap' = pushed.heap /\ used' = popped.stack /\ unused' = pushed.stack

(***************************************************************************)
(* The nodes fstack_walk calls predicate on: backwards through the part of *)
(* unused before start_node, which is buffered, up to end_node, and, if    *)
(* that was not met, through used from its front.                          *)
(***************************************************************************)
fstack_walk(start_node, end_node) ==
  LET buffer  == stack_walk(heap, unused, NULL, start_node)
      reached == start_node = NULL \/ start_node \in ToSet(buffer)
      back    == IF reached THEN Reverse(buffer) ELSE << >>
  IN  IF end_node \in ToSet(back)
      THEN SubSeq(back, 1, CHOOSE i \in DOMAIN back : back[i] = end_node)
      ELSE back \o stack_walk(heap, used, used.front, end_node)

(* malloc's memory holds anything.                                         *)
Init ==
  /\ \E junk \in [val : Vals, next : Nodes \cup {NULL}] : heap = [n \in Nodes |-> junk]
  /\ fstack_ctor

Next ==
  \/ \E node \in Nodes : fstack_grow(node)
  \/ \E v \in Vals : fstack_push(v) \/ fstack_alloc(v)
  \/ fstack_pop

Spec == Init /\ [][Next]_vars

-----------------------------------------------------------------------------
WalkOrder == Reverse(UnusedNodes) \o UsedNodes

Precedes(node, other) ==
  \E i, j \in DOMAIN WalkOrder : i < j /\ WalkOrder[i] = node /\ WalkOrder[j] = other

(***************************************************************************)
(* What fstack.h promises of fstack_walk: predicate is called on the nodes *)
(* from start_node to end_node, "not [...] on nodes before 'start_node' or *)
(* after 'end_node'", and never if end_node is before start_node.  The     *)
(* code does not keep it, and TLC finds a walk that violates it.           *)
(***************************************************************************)
WalksTheRange ==
  \A start_node \in ToSet(WalkOrder) \cup {NULL}, end_node \in Nodes \cup {NULL} :
    fstack_walk(start_node, end_node) = WalkedRange(WalkOrder, start_node, end_node)

(***************************************************************************)
(* What fstack_walk does for every start and every end: it visits one      *)
(* unbroken range of the order, across the boundary of the two lists, each *)
(* node once.  The range is the promised one, but a start below the top of *)
(* used counts as the top (fstack.c:180), and an end that was passed       *)
(* before the start is not noticed, so that the walk goes on to the last   *)
(* node (fstack.c:174).                                                    *)
(***************************************************************************)
WalksOneRange ==
  \A start_node \in ToSet(WalkOrder) \cup {NULL}, end_node \in Nodes \cup {NULL} :
    LET begun == IF start_node \in ToSet(UsedNodes) THEN used.front ELSE start_node
        ended == IF Precedes(end_node, begun) THEN NULL ELSE end_node
    IN  fstack_walk(start_node, end_node) = WalkedRange(WalkOrder, begun, ended)

(***************************************************************************)
(* The free stack is an array with a boundary: pops and pushes move the    *)
(* boundary, nothing but a push changes a value, and the order of the      *)
(* cells stays.                                                            *)
(***************************************************************************)
Abstract ==
  INSTANCE AbstractFreestack WITH
    cells <- Reverse(UsedNodes) \o UnusedNodes,
    length <- used.length,
    vals <- [n \in Nodes \ Fresh |-> heap[n].val]

ImplementsArray == Abstract!Spec
=============================================================================
