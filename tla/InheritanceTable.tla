-------------------------- MODULE InheritanceTable --------------------------
(***************************************************************************)
(* inheritance_table.c: a tree of small integers built out of order.  Each *)
(* member of Vars is an ssize_t variable of the program whose address is   *)
(* handed to skit_register_parent_child_rel; the table keeps, per index,   *)
(* the parent's index and the address of the variable that owns the index. *)
(***************************************************************************)
EXTENDS IsA

CONSTANTS
  Vars,          (* the program's id variables                             *)
  InitialIds,    (* what such a variable may hold before it is registered  *)
  RootMayMove    (* may the program re-parent the variable of index 0?     *)

ASSUME VarsAssumption == IsFiniteSet(Vars)
ASSUME InitialIdsAssumption == InitialIds \subseteq Int
ASSUME RootMayMoveAssumption == RootMayMove \in BOOLEAN

VARIABLES
  tbl,           (* struct skit_inheritance_table                          *)
  id             (* the value of each id variable                          *)

vars == <<tbl, id>>

Indices(t) == 0 .. t.table_size - 1

-----------------------------------------------------------------------------

(* skit_inher_id_is_initialized: the index is in range and owned by x.     *)
IsInitialized(t, ids, x) ==
  /\ ids[x] \in Indices(t)
  /\ t.initialized_ptrs[ids[x]] = x

(* One more entry at the end of an array of the table.                     *)
Grown(array, n, value) == [i \in 0 .. n |-> IF i = n THEN value ELSE array[i]]

(***************************************************************************)
(* The second half of skit_register_parent_child_rel: give the child the   *)
(* next index, or re-assign the parent of an initialised child.  The       *)
(* parent is read through its address after *child was written, so that    *)
(* registering x under itself makes a root.                                *)
(***************************************************************************)
Added(s, child, parent) ==
  LET n   == s.tbl.table_size
      ids == [s.id EXCEPT ![child] = n]
  IN  [ tbl |-> [ table_size       |-> n + 1,
                  table            |-> Grown(s.tbl.table, n, ids[parent]),
                  initialized_ptrs |-> Grown(s.tbl.initialized_ptrs, n, child) ],
        id  |-> ids ]

Reassigned(s, child, parent) == [s EXCEPT !.tbl.table[s.id[child]] = s.id[parent]]

Link(s, child, parent) ==
  IF IsInitialized(s.tbl, s.id, child)
  THEN Reassigned(s, child, parent)
  ELSE Added(s, child, parent)

(* The whole of skit_register_parent_child_rel: a parent that is not in    *)
(* the table yet becomes a root first.                                     *)
Registered(s, child, parent) ==
  Link(IF child # parent /\ ~ IsInitialized(s.tbl, s.id, parent)
       THEN Link(s, parent, parent)
       ELSE s, child, parent)

State == [tbl |-> tbl, id |-> id]

(***************************************************************************)
(* The header promises "a tree-like structure": a program that makes a     *)
(* cycle of two or more has no tree, and skit_is_a would not return.       *)
(***************************************************************************)
HasCycle(t) == \E i \in DOMAIN t.table :
                 \A n \in DOMAIN Climb(t.table, i) :
                   LET up == Climb(t.table, i)[n] IN t.table[up] # up

MovesRoot(s, child, parent) ==
  IsInitialized(s.tbl, s.id, child) /\ s.id[child] = 0 /\ child # parent

skit_register_parent_child_rel(child, parent) ==
  LET s == Registered(State, child, parent)
  IN  /\ RootMayMove \/ ~ MovesRoot(State, child, parent)
      /\ ~ HasCycle(s.tbl)
      /\ tbl' = s.tbl
      /\ id'  = s.id

NoElements == [i \in {} |-> 0]    (* the NULL array of a new table         *)

skit_inheritance_table_ctor ==
  tbl = [ table_size |-> 0, table |-> NoElements, initialized_ptrs |-> NoElements ]

Init ==
  /\ skit_inheritance_table_ctor
  /\ id \in [Vars -> InitialIds]

Next == \E child, parent \in Vars : skit_register_parent_child_rel(child, parent)

Spec == Init /\ [][Next]_vars

-----------------------------------------------------------------------------
(* Every entry of the table is an index of the table and every index has  *)
(* an owner (the two parallel arrays of skit_inheritance_table).           *)
TypeOK ==
  /\ tbl \in [ table_size       : Nat,
               table            : [Indices(tbl) -> Indices(tbl)],
               initialized_ptrs : [Indices(tbl) -> Vars] ]
  /\ id \in [Vars -> Int]

(* The owner of an index holds that index, whatever the uninitialised      *)
(* variables happen to hold: so a garbage value is never taken for a       *)
(* registered id, and two variables never share an index.                  *)
OwnersHoldTheirIndex ==
  \A i \in Indices(tbl) : id[tbl.initialized_ptrs[i]] = i

(* skit_is_a answers whether index2 is index1 or one of its ancestors (the *)
(* comment on skit_is_a in inheritance_table.h).                           *)
IsAIsAncestry ==
  \A i, j \in Indices(tbl) :
    skit_is_a(tbl.table, i, j) <=> j \in Ancestors(tbl.table, i)

(* An id, once assigned, is the variable's for good: error codes compiled  *)
(* into sCATCH clauses and stored in exceptions stay meaningful however    *)
(* registrations and re-registrations are ordered.                         *)
IdsNeverChange ==
  [][\A x \in Vars : IsInitialized(tbl, id, x) =>
                        id'[x] = id[x] /\ IsInitialized(tbl', id', x)]_vars
=============================================================================
