--------------------------- MODULE AbstractStacks ---------------------------
(***************************************************************************)
(* What templates/stack.h promises of its stacks: each is a sequence of    *)
(* nodes, and no operation on one changes another.                         *)
(***************************************************************************)
EXTENDS Sequences, SequencesExt

CONSTANTS Stacks, Nodes, Vals

VARIABLES
  seqs,          (* the sequence of nodes of each stack, the front first   *)
  vals           (* the value of each node of a stack                      *)

Free == Nodes \ UNION {ToSet(seqs[s]) : s \in Stacks}

Valued(node, v) == [n \in DOMAIN vals \cup {node} |-> IF n = node THEN v ELSE vals[n]]

Push(s, node, v) ==
  /\ node \in Free
  /\ seqs' = [seqs EXCEPT ![s] = <<node>> \o @]
  /\ vals' = Valued(node, v)

PushBack(s, node, v) ==
  /\ node \in Free
  /\ seqs' = [seqs EXCEPT ![s] = Append(@, node)]
  /\ vals' = Valued(node, v)

Pop(s) ==
  /\ seqs[s] # << >>
  /\ seqs' = [seqs EXCEPT ![s] = Tail(@)]
  /\ vals' = [n \in DOMAIN vals \ {Head(seqs[s])} |-> vals[n]]

Turn(s) ==
  /\ seqs' = [seqs EXCEPT ![s] = Reverse(@)]
  /\ UNCHANGED vals

(* Nodes of their own, with the same values in the order of source.        *)
Copied(source, t) ==
  \E nodes \in SetToAllKPermutations(Free) :
    /\ Len(nodes) = Len(source)
    /\ seqs' = [seqs EXCEPT ![t] = nodes]
    /\ vals' = [n \in DOMAIN vals \cup ToSet(nodes) |->
                  IF n \in DOMAIN vals THEN vals[n]
                  ELSE vals[source[CHOOSE i \in DOMAIN nodes : nodes[i] = n]]]

Copy(s, t)         == seqs[t] = << >> /\ Copied(seqs[s], t)
CopyBackwards(s, t) == seqs[t] = << >> /\ Copied(Reverse(seqs[s]), t)

Init == seqs = [s \in Stacks |-> << >>] /\ vals = [n \in {} |-> n]

Next ==
  \E s \in Stacks :
    \/ \E node \in Nodes, v \in Vals : Push(s, node, v) \/ PushBack(s, node, v)
    \/ Pop(s) \/ Turn(s)
    \/ \E t \in Stacks \ {s} : Copy(s, t) \/ CopyBackwards(s, t)

Spec == Init /\ [][Next]_<<seqs, vals>>
=============================================================================
