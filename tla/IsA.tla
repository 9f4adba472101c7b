-------------------------------- MODULE IsA --------------------------------
(***************************************************************************)
(* skit_is_a (inheritance_table.c): the walk up a table of parents.  The   *)
(* table is a function from 0 .. n-1 to the parent's index; a root is its  *)
(* own parent.  Used by the inheritance table's own specification and by   *)
(* sCATCH, which matches error codes with it.                              *)
(***************************************************************************)
EXTENDS Integers, FiniteSets

(***************************************************************************)
(* The values parent_index takes in the loop, the n-th one after n turns.  *)
(* In a table without cycles a walk is over after one turn per entry.      *)
(***************************************************************************)
Climb(table, index) ==
  LET up[n \in 0 .. Cardinality(DOMAIN table)] ==
        IF n = 0 THEN index ELSE table[up[n - 1]]
  IN  up

(* A bug the runs must catch: last_parent is assigned before it is compared. *)
EarlyLastParent(up, n) == up[n]

(* last_parent at the n-th turn: it starts at 0, not at "no index".        *)
LastParent(up, n) == IF n = 0 THEN 0 ELSE up[n - 1]

(***************************************************************************)
(* The loop returns 1 at the first turn whose parent_index is index2,      *)
(* unless an earlier turn found parent_index unchanged and returned 0.     *)
(***************************************************************************)
skit_is_a(table, index1, index2) ==
  LET up == Climb(table, index1)
  IN  \E n \in DOMAIN up :
        /\ up[n] = index2
        /\ \A m \in 0 .. n - 1 : up[m] # LastParent(up, m)

(***************************************************************************)
(* The reference: the least relation that contains every index with itself *)
(* and every index with the ancestors of its parent.                       *)
(***************************************************************************)
Ancestors(table, index) ==
  CHOOSE A \in SUBSET DOMAIN table :
    /\ index \in A
    /\ \A i \in A : table[i] \in A
    /\ \A B \in SUBSET A :
         (index \in B /\ \A i \in B : table[i] \in B) => B = A
=============================================================================
