------------------------- MODULE AbstractFreestack -------------------------
(***************************************************************************)
(* What a free stack of templates/fstack.h is to its user: an array of     *)
(* cells that are never freed, and the number of them in use.  A pop only  *)
(* moves the boundary, so the cell keeps its value until the next push,    *)
(* which takes that very cell again.                                       *)
(***************************************************************************)
EXTENDS Integers, Sequences, SequencesExt

CONSTANTS Nodes, Vals

VARIABLES
  cells,         (* the nodes of the free stack, the used ones first       *)
  length,        (* how many are in use                                    *)
  vals           (* the value of each node of cells                        *)

Fresh == Nodes \ ToSet(cells)

Valued(node, v) == [n \in DOMAIN vals \cup {node} |-> IF n = node THEN v ELSE vals[n]]

Grow(node, v) ==
  /\ node \in Fresh
  /\ cells' = InsertAt(cells, length + 1, node)
  /\ vals' = Valued(node, v)
  /\ UNCHANGED length

Push(v) ==
  /\ length < Len(cells)
  /\ length' = length + 1
  /\ vals' = Valued(cells[length + 1], v)
  /\ UNCHANGED cells

Extend(node, v) ==
  /\ length = Len(cells) /\ node \in Fresh
  /\ cells' = Append(cells, node)
  /\ length' = length + 1
  /\ vals' = Valued(node, v)

Pop == length > 0 /\ length' = length - 1 /\ UNCHANGED <<cells, vals>>

Init == cells = << >> /\ length = 0 /\ vals = [n \in {} |-> n]

Next ==
  \/ \E node \in Nodes, v \in Vals : Grow(node, v) \/ Extend(node, v)
  \/ \E v \in Vals : Push(v)
  \/ Pop

Spec == Init /\ [][Next]_<<cells, length, vals>>
=============================================================================
