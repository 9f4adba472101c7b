------------------------ MODULE MCInheritanceTable ------------------------
(* Model-checking instance of InheritanceTable.  Four variables give chains *)
(* of three parents, two trees, implicit roots and every order of            *)
(* (re-)registration; an unregistered variable holds a value below the       *)
(* table, or one that is or will be another variable's index.                *)
EXTENDS InheritanceTable

CONSTANTS a, b, c, d

MCVars       == {a, b, c, d}
MCInitialIds == {-1, 0, 2}
=============================================================================
