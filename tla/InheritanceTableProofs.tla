----------------------- MODULE InheritanceTableProofs -----------------------
(***************************************************************************)
(* What InheritanceTable keeps true for any set of id variables and any    *)
(* initial values of them, in whatever order they are registered and       *)
(* re-registered; and, in the last section, what ExceptionRegistry keeps   *)
(* true on top of it.                                                      *)
(***************************************************************************)
EXTENDS ExceptionRegistry, FiniteSetTheorems, WellFoundedInduction, TLAPS

(* TypeOK and OwnersHoldTheirIndex of any pair of a table and ids: Link is *)
(* applied up to twice in one step.                                        *)
Typed(s) ==
  /\ s.tbl.table_size \in Nat
  /\ s.tbl.table \in [Indices(s.tbl) -> Indices(s.tbl)]
  /\ s.tbl.initialized_ptrs \in [Indices(s.tbl) -> Vars]
  /\ s.id \in [Vars -> Int]

Owned(s) == \A i \in Indices(s.tbl) : s.id[s.tbl.initialized_ptrs[i]] = i

(* s and the fields of its table are records of the right shape.           *)
Shaped(s) ==
  /\ s = [tbl |-> s.tbl, id |-> s.id]
  /\ s.tbl = [ table_size |-> s.tbl.table_size, table |-> s.tbl.table,
               initialized_ptrs |-> s.tbl.initialized_ptrs ]

Good(s) == Shaped(s) /\ Typed(s) /\ Owned(s)

(* The ids that are initialised in s keep their value and stay initialised *)
(* in t.                                                                   *)
Keeps(s, t) ==
  \A x \in Vars : IsInitialized(s.tbl, s.id, x) =>
                    t.id[x] = s.id[x] /\ IsInitialized(t.tbl, t.id, x)

(* Re-assigning a parent touches only the array of parents.                *)
LEMMA Reparented ==
  ASSUME NEW s, Good(s), NEW child \in Vars, NEW parent \in Vars,
         IsInitialized(s.tbl, s.id, child), IsInitialized(s.tbl, s.id, parent)
  PROVE  Good(Link(s, child, parent)) /\ Keeps(s, Link(s, child, parent))
<1> DEFINE t == [s EXCEPT !.tbl.table[s.id[child]] = s.id[parent]]
<1>1. Link(s, child, parent) = t
  BY DEF Link, Reassigned
<1>2. /\ t.id = s.id
      /\ t.tbl.table_size = s.tbl.table_size
      /\ t.tbl.initialized_ptrs = s.tbl.initialized_ptrs
      /\ t.tbl.table = [s.tbl.table EXCEPT ![s.id[child]] = s.id[parent]]
      /\ Shaped(t)
  BY DEF Good, Shaped
<1>3. Indices(t.tbl) = Indices(s.tbl)
  BY <1>2 DEF Indices
<1>4. Typed(t)
  BY <1>2, <1>3 DEF Good, Typed, IsInitialized
<1>5. Owned(t)
  BY <1>2, <1>3 DEF Good, Owned
<1>6. Keeps(s, t)
  BY <1>2, <1>3 DEF Keeps, IsInitialized
<1> QED
  BY <1>1, <1>2, <1>4, <1>5, <1>6 DEF Good

(* A variable that owns no index gets the next one; nobody else's changes. *)
LEMMA Appended ==
  ASSUME NEW s, Good(s), NEW child \in Vars, NEW parent \in Vars,
         ~ IsInitialized(s.tbl, s.id, child),
         child = parent \/ IsInitialized(s.tbl, s.id, parent)
  PROVE  /\ Good(Link(s, child, parent))
         /\ Keeps(s, Link(s, child, parent))
         /\ IsInitialized(Link(s, child, parent).tbl, Link(s, child, parent).id, child)
<1> DEFINE n   == s.tbl.table_size
           ids == [s.id EXCEPT ![child] = n]
           t   == [ tbl |-> [ table_size       |-> n + 1,
                              table            |-> Grown(s.tbl.table, n, ids[parent]),
                              initialized_ptrs |-> Grown(s.tbl.initialized_ptrs, n, child) ],
                    id  |-> ids ]
           ptrs == Grown(s.tbl.initialized_ptrs, n, child)
           tab  == Grown(s.tbl.table, n, ids[parent])
<1>1. Link(s, child, parent) = t
  BY DEF Link, Added
<1>2. n \in Nat /\ Indices(s.tbl) = 0 .. n - 1 /\ Indices(t.tbl) = 0 .. n
  BY DEF Good, Typed, Indices
<1>3. ids \in [Vars -> Int] /\ ids[child] = n /\ \A x \in Vars : x # child => ids[x] = s.id[x]
  BY <1>2 DEF Good, Typed
<1>a. /\ t.id = ids /\ t.tbl.table_size = n + 1
      /\ t.tbl.table = tab /\ t.tbl.initialized_ptrs = ptrs
      /\ Shaped(t)
  BY DEF Shaped
<1>b. /\ ptrs = [i \in 0 .. n |-> IF i = n THEN child ELSE s.tbl.initialized_ptrs[i]]
      /\ tab = [i \in 0 .. n |-> IF i = n THEN ids[parent] ELSE s.tbl.table[i]]
  BY DEF Grown
<1>c. /\ s.tbl.table \in [0 .. n - 1 -> 0 .. n - 1]
      /\ s.tbl.initialized_ptrs \in [0 .. n - 1 -> Vars]
      /\ \A i \in 0 .. n - 1 : s.id[s.tbl.initialized_ptrs[i]] = i
  BY <1>2 DEF Good, Typed, Owned
<1> HIDE DEF t, ids, ptrs, tab, n
<1>4. \A i \in 0 .. n - 1 : s.tbl.initialized_ptrs[i] # child
  BY <1>2, <1>c DEF IsInitialized
<1>5. ids[parent] \in 0 .. n
  BY <1>2, <1>3 DEF IsInitialized
<1>6. Typed(t)
  <2>1. tab \in [0 .. n -> 0 .. n]
    <3> SUFFICES ASSUME NEW i \in 0 .. n
                 PROVE  (IF i = n THEN ids[parent] ELSE s.tbl.table[i]) \in 0 .. n
      BY <1>b
    <3>1. CASE i = n
      BY <3>1, <1>5
    <3>2. CASE i # n
      <4>1. i \in 0 .. n - 1
        BY <3>2, <1>2
      <4>2. s.tbl.table[i] \in 0 .. n - 1
        BY <4>1, <1>c
      <4> QED
        BY <3>2, <4>2, <1>2
    <3> QED
      BY <3>1, <3>2
  <2>2. ptrs \in [0 .. n -> Vars]
    <3> SUFFICES ASSUME NEW i \in 0 .. n
                 PROVE  (IF i = n THEN child ELSE s.tbl.initialized_ptrs[i]) \in Vars
      BY <1>b
    <3>1. CASE i = n
      BY <3>1
    <3>2. CASE i # n
      <4>1. i \in 0 .. n - 1
        BY <3>2, <1>2
      <4> QED
        BY <3>2, <4>1, <1>c
    <3> QED
      BY <3>1, <3>2
  <2>3. t.tbl.table_size \in Nat
    BY <1>2, <1>a
  <2>4. t.tbl.table \in [Indices(t.tbl) -> Indices(t.tbl)]
    BY <1>2, <1>a, <2>1
  <2>5. t.tbl.initialized_ptrs \in [Indices(t.tbl) -> Vars]
    BY <1>2, <1>a, <2>2
  <2> QED
    BY <1>3, <1>a, <2>3, <2>4, <2>5 DEF Typed
<1>7. Owned(t)
  <2> SUFFICES ASSUME NEW i \in 0 .. n
               PROVE  ids[ptrs[i]] = i
    BY <1>2, <1>a DEF Owned
  <2>1. CASE i = n
    BY <2>1, <1>b, <1>3
  <2>2. CASE i # n
    <3>1. i \in 0 .. n - 1 /\ ptrs[i] = s.tbl.initialized_ptrs[i]
      BY <2>2, <1>2, <1>b
    <3> QED
      BY <3>1, <1>3, <1>4, <1>c
  <2> QED
    BY <2>1, <2>2
<1>8. Keeps(s, t)
  <2> SUFFICES ASSUME NEW x \in Vars, IsInitialized(s.tbl, s.id, x)
               PROVE  ids[x] = s.id[x] /\ IsInitialized(t.tbl, ids, x)
    BY <1>a DEF Keeps
  <2>1. x # child
    OBVIOUS
  <2>2. ids[x] = s.id[x] /\ s.id[x] \in 0 .. n - 1 /\ s.tbl.initialized_ptrs[s.id[x]] = x
    BY <2>1, <1>2, <1>3 DEF IsInitialized
  <2> QED
    BY <2>2, <1>2, <1>b, <1>a DEF IsInitialized
<1>9. IsInitialized(t.tbl, t.id, child)
  BY <1>2, <1>3, <1>b, <1>a DEF IsInitialized
<1> QED
  BY <1>1, <1>6, <1>7, <1>8, <1>9, <1>a DEF Good

(* One call of skit_register_parent_child_rel.                             *)
LEMMA RegisteredIsGood ==
  ASSUME NEW s, Good(s), NEW child \in Vars, NEW parent \in Vars
  PROVE  Good(Registered(s, child, parent)) /\ Keeps(s, Registered(s, child, parent))
<1>1. CASE child # parent /\ ~ IsInitialized(s.tbl, s.id, parent)
  <2> DEFINE r == Link(s, parent, parent)
  <2>1. Good(r) /\ Keeps(s, r) /\ IsInitialized(r.tbl, r.id, parent)
    BY <1>1, Appended
  <2> HIDE DEF r
  <2>2. Good(Link(r, child, parent)) /\ Keeps(r, Link(r, child, parent))
    BY <2>1, Appended, Reparented
  <2>3. Registered(s, child, parent) = Link(r, child, parent)
    BY <1>1 DEF Registered, r
  <2> QED
    BY <2>1, <2>2, <2>3 DEF Keeps
<1>2. CASE ~ (child # parent /\ ~ IsInitialized(s.tbl, s.id, parent))
  <2>1. Registered(s, child, parent) = Link(s, child, parent)
    BY <1>2 DEF Registered
  <2> QED
    BY <1>2, <2>1, Appended, Reparented
<1> QED
  BY <1>1, <1>2

-----------------------------------------------------------------------------
Inv == TypeOK /\ OwnersHoldTheirIndex

LEMMA InvIsGood == Inv <=> Good(State)
<1>1. Inv => Good(State)
  BY DEF Inv, TypeOK, OwnersHoldTheirIndex, Good, Shaped, Typed, Owned, State
<1>2. Good(State) => Inv
  BY DEF Inv, TypeOK, OwnersHoldTheirIndex, Good, Shaped, Typed, Owned, State
<1> QED
  BY <1>1, <1>2

LEMMA InitInv == Init => Inv
<1> SUFFICES ASSUME Init
             PROVE  Inv
  OBVIOUS
<1>1. /\ tbl = [ table_size |-> 0, table |-> NoElements, initialized_ptrs |-> NoElements ]
      /\ id \in [Vars -> Int]
  BY InitialIdsAssumption DEF Init, skit_inheritance_table_ctor
<1>2. Indices(tbl) = {}
  BY <1>1 DEF Indices
<1>3. NoElements \in [{} -> {}] /\ NoElements \in [{} -> Vars]
  BY DEF NoElements
<1>4. TypeOK
  BY <1>1, <1>2, <1>3 DEF TypeOK
<1> QED
  BY <1>2, <1>4 DEF Inv, OwnersHoldTheirIndex

LEMMA StepIsGood ==
  ASSUME Inv, Next
  PROVE  Inv' /\ Keeps(State, State')
<1>1. PICK child \in Vars, parent \in Vars : skit_register_parent_child_rel(child, parent)
  BY DEF Next
<1> DEFINE s == Registered(State, child, parent)
<1>2. Good(s) /\ Keeps(State, s)
  BY InvIsGood, RegisteredIsGood
<1>3. tbl' = s.tbl /\ id' = s.id
  BY <1>1 DEF skit_register_parent_child_rel
<1>4. s = [tbl |-> tbl', id |-> id']
  BY <1>2, <1>3 DEF Good, Shaped
<1> HIDE DEF s
<1>5. Inv'
  BY <1>2, <1>4 DEF Inv, TypeOK, OwnersHoldTheirIndex, Good, Shaped, Typed, Owned, Indices
<1> QED
  BY <1>2, <1>4, <1>5 DEF State

(* Any order of registrations and re-registrations keeps both arrays total *)
(* and every index with its owner.                                         *)
THEOREM TableIsSound == Spec => [](TypeOK /\ OwnersHoldTheirIndex)
<1>1. Inv /\ [Next]_vars => Inv'
  <2> SUFFICES ASSUME Inv, [Next]_vars
               PROVE  Inv'
    OBVIOUS
  <2>1. CASE Next
    BY <2>1, StepIsGood
  <2>2. CASE UNCHANGED vars
    BY <2>2 DEF vars, Inv, TypeOK, OwnersHoldTheirIndex, Indices
  <2> QED
    BY <2>1, <2>2
<1> QED
  BY <1>1, InitInv, PTL DEF Spec, Inv

(* An id that was assigned never changes.                                  *)
THEOREM IdsStay == Spec => IdsNeverChange
<1>1. Inv /\ [Next]_vars =>
        [\A x \in Vars : IsInitialized(tbl, id, x) =>
                           id'[x] = id[x] /\ IsInitialized(tbl', id', x)]_vars
  <2> SUFFICES ASSUME Inv, Next
               PROVE  \A x \in Vars : IsInitialized(tbl, id, x) =>
                                        id'[x] = id[x] /\ IsInitialized(tbl', id', x)
    OBVIOUS
  <2> QED
    BY StepIsGood DEF Keeps, State
<1>2. Spec => []Inv
  BY TableIsSound, PTL DEF Inv
<1> QED
  BY <1>1, <1>2, PTL DEF Spec, IdsNeverChange

-----------------------------------------------------------------------------
(* A set of numbers has a least element, so a set that holds 0 and the     *)
(* successors of its elements holds every number.                          *)
LEMMA Least ==
  ASSUME NEW T, T \subseteq Nat, T # {}
  PROVE  \E x \in T : \A y \in T : x <= y
<1> DEFINE R == {ss \in Nat \X Nat : ss[1] < ss[2]}
<1>1. IsWellFoundedOn(R, Nat)
  BY NatLessThanWellFounded DEF OpToRel
<1>2. \E x \in T : \A y \in T : ~ (<<y, x>> \in R)
  <2> HIDE DEF R
  <2> QED
    BY <1>1, WFMin
<1>3. ASSUME NEW x \in T, NEW y \in T, ~ (<<y, x>> \in R)
      PROVE  x <= y
  <2>1. <<y, x>> \in Nat \X Nat
    OBVIOUS
  <2>2. ~ (<<y, x>>[1] < <<y, x>>[2])
    BY <1>3, <2>1
  <2> QED
    BY <2>2
<1> HIDE DEF R
<1> QED
  BY <1>2, <1>3

LEMMA Induction ==
  ASSUME NEW T, 0 \in T, \A n \in Nat : n \in T => n + 1 \in T
  PROVE  \A n \in Nat : n \in T
<1> SUFFICES ASSUME NEW m \in Nat, m \notin T
             PROVE  FALSE
  OBVIOUS
<1>1. PICK x \in Nat \ T : \A y \in Nat \ T : x <= y
  BY Least
<1> QED
  BY <1>1

(* A walk goes on as far as the table is long; up is that walk.            *)
IsWalk(table, index, N, up) ==
  /\ DOMAIN up = 0 .. N
  /\ up[0] = index
  /\ \A n \in 1 .. N : up[n] = table[up[n - 1]]

LEMMA ClimbIsWalk ==
  ASSUME NEW table, NEW index, IsFiniteSet(DOMAIN table)
  PROVE  IsWalk(table, index, Cardinality(DOMAIN table), Climb(table, index))
<1> DEFINE N == Cardinality(DOMAIN table)
           Loop(f, k) == f = [n \in 0 .. k |-> IF n = 0 THEN index ELSE table[f[n - 1]]]
           T == {k \in Nat : \E f : Loop(f, k)}
           up == CHOOSE f : Loop(f, N)
<1>1. N \in Nat
  BY FS_CardinalityType
<1>2. 0 \in T
  <2>1. Loop([n \in 0 .. 0 |-> index], 0)
    OBVIOUS
  <2> QED
    BY <2>1
<1>3. ASSUME NEW k \in Nat, k \in T
      PROVE  k + 1 \in T
  <2>1. PICK f : Loop(f, k)
    BY <1>3
  <2> DEFINE g == [n \in 0 .. k + 1 |-> IF n = k + 1 THEN table[f[k]] ELSE f[n]]
  <2>2. Loop(g, k + 1)
    BY <2>1
  <2> HIDE DEF g
  <2> QED
    BY <2>2
<1>4. N \in T
  <2> HIDE DEF T, N
  <2> QED
    BY <1>1, <1>2, <1>3, Induction
<1>5. Loop(up, N)
  BY <1>4, Zenon
<1>6. Climb(table, index) = up
  BY Zenon DEF Climb
<1> HIDE DEF up, N
<1>7. IsWalk(table, index, N, up)
  BY <1>1, <1>5 DEF IsWalk
<1> QED
  BY <1>6, <1>7 DEF N

(* In a table of the indices D it comes to a root.                         *)
ComesToRest(D, table, index, N, up) ==
  /\ table \in [D -> D] /\ index \in D /\ N \in Nat
  /\ IsWalk(table, index, N, up)
  /\ \E n \in 0 .. N : table[up[n]] = up[n]

(* In a tree every walk comes to a root, and stays there.                  *)
LEMMA WalkEnds ==
  ASSUME NEW D, NEW table, NEW index, NEW N, NEW up, ComesToRest(D, table, index, N, up)
  PROVE  /\ \A n \in 0 .. N : up[n] \in D
         /\ \A n \in 0 .. N : table[up[n]] = up[n] => \A m \in n .. N : up[m] = up[n]
         /\ \A n \in 0 .. N : \E m \in 0 .. N : up[m] = table[up[n]]
<1> USE DEF ComesToRest
<1>1. \A n \in 0 .. N : up[n] \in D
  <2> DEFINE T == {n \in Nat : n <= N => up[n] \in D}
  <2>1. 0 \in T
    BY DEF IsWalk
  <2>2. ASSUME NEW n \in Nat, n \in T
        PROVE  n + 1 \in T
    <3> SUFFICES ASSUME n + 1 <= N
                 PROVE  up[n + 1] \in D
      OBVIOUS
    <3>1. n + 1 \in 1 .. N /\ (n + 1) - 1 = n /\ up[n] \in D
      BY <2>2
    <3>2. up[n + 1] = table[up[(n + 1) - 1]]
      BY <3>1 DEF IsWalk
    <3> QED
      BY <3>1, <3>2
  <2>3. \A n \in Nat : n \in T
    <3> HIDE DEF T
    <3> QED
      BY <2>1, <2>2, Induction
  <2> QED
    BY <2>3
<1>2. ASSUME NEW k \in 0 .. N, table[up[k]] = up[k]
      PROVE  \A m \in k .. N : up[m] = up[k]
  <2> DEFINE T == {n \in Nat : k + n <= N => up[k + n] = up[k]}
  <2>1. 0 \in T
    OBVIOUS
  <2>2. ASSUME NEW n \in Nat, n \in T
        PROVE  n + 1 \in T
    <3> SUFFICES ASSUME k + (n + 1) <= N
                 PROVE  up[k + (n + 1)] = up[k]
      OBVIOUS
    <3>1. k + (n + 1) \in 1 .. N /\ (k + (n + 1)) - 1 = k + n /\ up[k + n] = up[k]
      BY <2>2
    <3>2. up[k + (n + 1)] = table[up[(k + (n + 1)) - 1]]
      BY <3>1 DEF IsWalk
    <3> QED
      BY <1>2, <3>1, <3>2
  <2>3. \A n \in Nat : n \in T
    <3> HIDE DEF T
    <3> QED
      BY <2>1, <2>2, Induction
  <2>4. \A m \in k .. N : m - k \in Nat /\ k + (m - k) = m /\ k + (m - k) <= N
    OBVIOUS
  <2> QED
    BY <2>3, <2>4
<1>3. ASSUME NEW n \in 0 .. N
      PROVE  \E m \in 0 .. N : up[m] = table[up[n]]
  <2>1. CASE n < N
    <3>1. n + 1 \in 1 .. N /\ (n + 1) - 1 = n /\ n + 1 \in 0 .. N
      BY <2>1
    <3>2. up[n + 1] = table[up[(n + 1) - 1]]
      BY <3>1 DEF IsWalk
    <3> QED
      BY <3>1, <3>2
  <2>2. CASE n = N
    <3>1. PICK k \in 0 .. N : table[up[k]] = up[k]
      OBVIOUS
    <3>2. N \in k .. N
      OBVIOUS
    <3>3. up[N] = up[k]
      BY <1>2, <3>1, <3>2
    <3> QED
      BY <2>2, <3>1, <3>3
  <2> QED
    BY <2>1, <2>2
<1> QED
  BY <1>1, <1>2, <1>3

(* The ancestors are what the walk meets.                                  *)
LEMMA AncestorsMet ==
  ASSUME NEW D, NEW table, NEW index, NEW N, NEW up, ComesToRest(D, table, index, N, up), NEW j
  PROVE  j \in Ancestors(table, index) <=> \E n \in 0 .. N : up[n] = j
<1> DEFINE Met == {up[n] : n \in 0 .. N}
           Is(A) == /\ index \in A
                    /\ \A i \in A : table[i] \in A
                    /\ \A B \in SUBSET A :
                         (index \in B /\ \A i \in B : table[i] \in B) => B = A
<1>1. /\ \A n \in 0 .. N : up[n] \in D
      /\ \A n \in 0 .. N : table[up[n]] = up[n] => \A m \in n .. N : up[m] = up[n]
      /\ \A n \in 0 .. N : \E m \in 0 .. N : up[m] = table[up[n]]
  BY WalkEnds
<1> USE DEF ComesToRest
<1>2. ASSUME NEW B, index \in B, \A i \in B : table[i] \in B
      PROVE  Met \subseteq B
  <2> DEFINE T == {n \in Nat : n <= N => up[n] \in B}
  <2>1. 0 \in T
    BY <1>2 DEF IsWalk
  <2>2. ASSUME NEW n \in Nat, n \in T
        PROVE  n + 1 \in T
    <3> SUFFICES ASSUME n + 1 <= N
                 PROVE  up[n + 1] \in B
      OBVIOUS
    <3>1. n + 1 \in 1 .. N /\ (n + 1) - 1 = n /\ up[n] \in B
      BY <2>2
    <3>2. up[n + 1] = table[up[(n + 1) - 1]]
      BY <3>1 DEF IsWalk
    <3> QED
      BY <1>2, <3>1, <3>2
  <2>3. \A n \in Nat : n \in T
    <3> HIDE DEF T
    <3> QED
      BY <2>1, <2>2, Induction
  <2> QED
    BY <2>3
<1>3. index \in Met /\ \A i \in Met : table[i] \in Met
  <2>1. 0 \in 0 .. N /\ up[0] = index
    BY DEF IsWalk
  <2> QED
    BY <1>1, <2>1
<1>4. Met \in SUBSET D
  BY <1>1
<1> HIDE DEF Met
<1>5. Is(Met)
  BY <1>2, <1>3
<1>6. ASSUME NEW A, Is(A)
      PROVE  A = Met
  <2>1. Met \subseteq A
    BY <1>2, <1>6
  <2> QED
    BY <1>3, <1>6, <2>1
<1>7. Ancestors(table, index) = CHOOSE A \in SUBSET D : Is(A)
  <2>1. DOMAIN table = D
    OBVIOUS
  <2> QED
    BY <2>1 DEF Ancestors
<1> HIDE DEF Is
<1>8. Ancestors(table, index) = Met
  BY <1>4, <1>5, <1>6, <1>7
<1> QED
  BY <1>8 DEF Met

(* And the loop finds each of them, if a walk from index 0 goes nowhere.   *)
LEMMA AncestorsFound ==
  ASSUME NEW D, NEW table, NEW index, NEW N, NEW up, ComesToRest(D, table, index, N, up), 0 \in D => table[0] = 0, NEW j
  PROVE  (\E n \in 0 .. N : up[n] = j)
           <=> \E n \in DOMAIN up : up[n] = j /\ \A m \in 0 .. n - 1 : up[m] # LastParent(up, m)
<1>1. DOMAIN up = 0 .. N /\ up[0] = index /\ 0 \in 0 .. N
  BY DEF IsWalk, ComesToRest
<1>2. \A n \in 0 .. N : table[up[n]] = up[n] => \A m \in n .. N : up[m] = up[n]
  BY WalkEnds
<1> USE DEF ComesToRest
<1>3. ASSUME NEW k \in 0 .. N, up[k] = j
      PROVE  \E n \in DOMAIN up : up[n] = j /\ \A m \in 0 .. n - 1 : up[m] # LastParent(up, m)
  <2> DEFINE T == {x \in 0 .. N : up[x] = j}
  <2>1. PICK n \in T : \A y \in T : n <= y
    <3>1. T \subseteq Nat /\ T # {}
      BY <1>3
    <3> HIDE DEF T
    <3> QED
      BY <3>1, Least
  <2>2. n \in 0 .. N /\ up[n] = j /\ \A m \in 0 .. n - 1 : up[m] # j
    BY <2>1
  <2>3. ASSUME NEW m \in 0 .. n - 1, up[m] = LastParent(up, m)
        PROVE  FALSE
    <3>1. CASE m = 0
      <4>1. index = 0
        BY <1>1, <2>3, <3>1 DEF LastParent
      <4>2. table[up[0]] = up[0]
        BY <1>1, <4>1
      <4>3. n \in 0 .. N /\ up[n] = up[0]
        BY <1>1, <1>2, <2>2, <4>2
      <4> QED
        BY <2>2, <3>1, <4>3
    <3>2. CASE m # 0
      <4>1. m - 1 \in 0 .. N /\ m \in 1 .. N /\ n \in m - 1 .. N /\ m - 1 \in 0 .. n - 1
        BY <2>2, <3>2
      <4>2. up[m] = up[m - 1]
        BY <2>3, <3>2 DEF LastParent
      <4>3. table[up[m - 1]] = up[m - 1]
        BY <4>1, <4>2 DEF IsWalk
      <4>4. up[n] = up[m - 1]
        BY <1>2, <4>1, <4>3
      <4> QED
        BY <2>2, <4>1, <4>4
    <3> QED
      BY <3>1, <3>2
  <2> QED
    BY <1>1, <2>2, <2>3
<1> QED
  BY <1>1, <1>3

(* The table is a tree, and whatever index 0 has for a parent is index 0.  *)
Rooted(s) == 0 \in Indices(s.tbl) => s.tbl.table[0] = 0

Tree == Rooted(State) /\ ~ HasCycle(tbl)

LEMMA TreeAnswers == Inv /\ Tree => IsAIsAncestry
<1> SUFFICES ASSUME Inv, Tree, NEW i \in Indices(tbl), NEW j \in Indices(tbl)
             PROVE  skit_is_a(tbl.table, i, j) <=> j \in Ancestors(tbl.table, i)
  BY DEF IsAIsAncestry
<1> DEFINE table == tbl.table
           D == Indices(tbl)
           N == Cardinality(DOMAIN table)
           up == Climb(table, i)
<1>1. table \in [D -> D] /\ tbl.table_size \in Nat /\ DOMAIN table = D
  BY DEF Inv, TypeOK
<1>2. IsFiniteSet(DOMAIN table)
  <2>1. tbl.table_size - 1 \in Int /\ 0 \in Int
    BY <1>1
  <2>2. IsFiniteSet(0 .. tbl.table_size - 1)
    BY <2>1, FS_Interval
  <2> QED
    BY <1>1, <2>2 DEF Indices
<1>3. N \in Nat
  BY <1>2, FS_CardinalityType
<1>4. IsWalk(table, i, N, up)
  BY <1>2, ClimbIsWalk
<1>5. \E n \in 0 .. N : table[up[n]] = up[n]
  <2>1. \E n \in DOMAIN up : table[up[n]] = up[n]
    BY <1>1 DEF Tree, HasCycle
  <2>2. DOMAIN up = 0 .. N
    BY <1>4 DEF IsWalk
  <2> QED
    BY <2>1, <2>2
<1>6. 0 \in D => table[0] = 0
  BY DEF Tree, Rooted, State
<1>7. skit_is_a(table, i, j) <=> \E n \in DOMAIN up : up[n] = j /\ \A m \in 0 .. n - 1 : up[m] # LastParent(up, m)
  BY Zenon DEF skit_is_a
<1> HIDE DEF table, D, N, up
<1>8. i \in D
  BY DEF D
<1>9. ComesToRest(D, table, i, N, up)
  BY <1>1, <1>3, <1>4, <1>5, <1>8 DEF ComesToRest
<1>10. j \in Ancestors(table, i) <=> \E n \in 0 .. N : up[n] = j
  BY <1>9, AncestorsMet
<1>11. (\E n \in 0 .. N : up[n] = j)
        <=> \E n \in DOMAIN up : up[n] = j /\ \A m \in 0 .. n - 1 : up[m] # LastParent(up, m)
  BY <1>6, <1>9, AncestorsFound
<1> QED
  BY <1>7, <1>10, <1>11 DEF table

LEMMA LinkRooted ==
  ASSUME NEW s, Good(s), Rooted(s), NEW child \in Vars, NEW parent \in Vars,
         child = parent \/ IsInitialized(s.tbl, s.id, parent),
         IsInitialized(s.tbl, s.id, child) /\ s.id[child] = 0 => child = parent
  PROVE  Rooted(Link(s, child, parent))
<1> DEFINE t == Link(s, child, parent)
<1>1. /\ s.tbl.table_size \in Nat /\ s.tbl.table \in [Indices(s.tbl) -> Indices(s.tbl)]
      /\ s.id \in [Vars -> Int] /\ s = [tbl |-> s.tbl, id |-> s.id]
      /\ s.tbl = [ table_size |-> s.tbl.table_size, table |-> s.tbl.table,
                   initialized_ptrs |-> s.tbl.initialized_ptrs ]
  BY DEF Good, Shaped, Typed
<1>2. CASE IsInitialized(s.tbl, s.id, child)
  <2>1. /\ t.tbl.table_size = s.tbl.table_size
        /\ t.tbl.table = [s.tbl.table EXCEPT ![s.id[child]] = s.id[parent]]
    BY <1>1, <1>2 DEF Link, Reassigned
  <2> HIDE DEF t
  <2>2. Indices(t.tbl) = Indices(s.tbl)
    BY <2>1 DEF Indices
  <2> QED
    BY <1>1, <1>2, <2>1, <2>2 DEF Rooted, t
<1>3. CASE ~ IsInitialized(s.tbl, s.id, child)
  <2> DEFINE n   == s.tbl.table_size
             ids == [s.id EXCEPT ![child] = n]
  <2>1. t.tbl.table = Grown(s.tbl.table, n, ids[parent])
    BY <1>3 DEF Link, Added
  <2>2. t.tbl.table[0] = IF n = 0 THEN ids[parent] ELSE s.tbl.table[0]
    BY <1>1, <2>1 DEF Grown
  <2>3. n = 0 => child = parent
    BY <1>1 DEF IsInitialized, Indices
  <2>4. n = 0 => ids[parent] = 0
    BY <1>1, <2>3
  <2>5. n # 0 => 0 \in Indices(s.tbl)
    BY <1>1 DEF Indices
  <2> QED
    BY <2>2, <2>4, <2>5 DEF Rooted
<1> QED
  BY <1>2, <1>3

LEMMA RegisteredIsRooted ==
  ASSUME NEW s, Good(s), Rooted(s), NEW child \in Vars, NEW parent \in Vars, ~ MovesRoot(s, child, parent)
  PROVE  Rooted(Registered(s, child, parent))
<1>1. IsInitialized(s.tbl, s.id, child) /\ s.id[child] = 0 => child = parent
  BY DEF MovesRoot
<1>2. CASE child # parent /\ ~ IsInitialized(s.tbl, s.id, parent)
  <2> DEFINE r == Link(s, parent, parent)
  <2>1. Good(r) /\ Keeps(s, r) /\ IsInitialized(r.tbl, r.id, parent)
    BY <1>2, Appended
  <2>2. Rooted(r)
    BY <1>2, LinkRooted
  <2>3. r.id = [s.id EXCEPT ![parent] = s.tbl.table_size]
        /\ r.tbl.table_size = s.tbl.table_size + 1
        /\ r.tbl.initialized_ptrs = Grown(s.tbl.initialized_ptrs, s.tbl.table_size, parent)
    BY <1>2 DEF Link, Added
  <2>4. IsInitialized(r.tbl, r.id, child) => IsInitialized(s.tbl, s.id, child) /\ r.id[child] = s.id[child]
    <3>1. s.tbl.table_size \in Nat /\ s.id \in [Vars -> Int]
      BY DEF Good, Typed
    <3> HIDE DEF r
    <3>2. r.id[child] = s.id[child]
      BY <1>2, <2>3, <3>1
    <3> QED
      BY <1>2, <2>3, <3>1, <3>2 DEF IsInitialized, Indices, Grown
  <2> HIDE DEF r
  <2>5. Rooted(Link(r, child, parent))
    BY <1>1, <2>1, <2>2, <2>4, LinkRooted
  <2> QED
    BY <1>2, <2>5 DEF Registered, r
<1>3. CASE ~ (child # parent /\ ~ IsInitialized(s.tbl, s.id, parent))
  BY <1>1, <1>3, LinkRooted DEF Registered
<1> QED
  BY <1>2, <1>3

(* As long as the variable of index 0 keeps its place as a root, skit_is_a *)
(* answers for every table whether the second code is the first or one of  *)
(* its ancestors: the walk up neither stops early nor misses one.          *)
THEOREM CodesHaveAncestors == ~ RootMayMove => (Spec => []IsAIsAncestry)
<1> SUFFICES ASSUME ~ RootMayMove
             PROVE  Spec => []IsAIsAncestry
  OBVIOUS
<1>1. Init => Tree
  <2> SUFFICES ASSUME Init
               PROVE  Tree
    OBVIOUS
  <2>1. tbl = [ table_size |-> 0, table |-> NoElements, initialized_ptrs |-> NoElements ]
    BY DEF Init, skit_inheritance_table_ctor
  <2>2. Indices(tbl) = {} /\ DOMAIN tbl.table = {}
    BY <2>1 DEF Indices, NoElements
  <2> QED
    BY <2>2 DEF Tree, Rooted, HasCycle, State
<1>2. Inv /\ Tree /\ [Next]_vars => Tree'
  <2> SUFFICES ASSUME Inv, Tree, [Next]_vars
               PROVE  Tree'
    OBVIOUS
  <2>1. CASE Next
    <3>1. PICK child \in Vars, parent \in Vars : skit_register_parent_child_rel(child, parent)
      BY <2>1 DEF Next
    <3> DEFINE s == Registered(State, child, parent)
    <3>2. Rooted(s)
      BY <3>1, InvIsGood, RegisteredIsRooted DEF Tree, skit_register_parent_child_rel
    <3>3. tbl' = s.tbl /\ ~ HasCycle(s.tbl)
      BY <3>1 DEF skit_register_parent_child_rel
    <3> HIDE DEF s
    <3>4. ~ HasCycle(tbl')
      BY <3>3
    <3> QED
      BY <3>2, <3>3, <3>4 DEF Tree, Rooted, State, HasCycle
  <2>2. CASE UNCHANGED vars
    BY <2>2 DEF vars, Tree, Rooted, State, HasCycle, Indices
  <2> QED
    BY <2>1, <2>2
<1>3. Spec => []Inv
  BY TableIsSound, PTL DEF Inv
<1> QED
  BY <1>1, <1>2, <1>3, TreeAnswers, PTL DEF Spec

-----------------------------------------------------------------------------
(* The exception code registry                                             *)

(* The message arrays of exception.c stay exactly as long as the table, as *)
(* long as no code is registered under a parent that has no code yet:      *)
(* then a registration adds one index at most, its own.                    *)
RegInv ==
  /\ Inv
  /\ msgs = [i \in Indices(tbl) |-> "message"]
  /\ overran = FALSE

LEMMA Length == ASSUME NEW n \in Nat PROVE Cardinality(0 .. n - 1) = n
<1>1. Cardinality(0 .. n - 1) = IF 0 > n - 1 THEN 0 ELSE (n - 1) - 0 + 1
  BY FS_Interval
<1> QED
  BY <1>1

LEMMA TableLength ==
  ASSUME RegInv
  PROVE  /\ tbl.table_size \in Nat
         /\ Indices(tbl) = 0 .. tbl.table_size - 1
         /\ Capacity(msgs) = tbl.table_size
<1>1. tbl.table_size \in Nat /\ Indices(tbl) = 0 .. tbl.table_size - 1
  BY DEF RegInv, Inv, TypeOK, Indices
<1> QED
  BY <1>1, Length DEF RegInv, Capacity

LEMMA InitRegInv == RegInit => RegInv
<1> SUFFICES ASSUME RegInit
             PROVE  RegInv
  OBVIOUS
<1>1. Inv
  BY InitInv DEF RegInit
<1>2. Indices(tbl) = {}
  BY DEF RegInit, Init, skit_inheritance_table_ctor, Indices
<1> QED
  BY <1>1, <1>2 DEF RegInit, RegInv, NoElements

LEMMA ReassignedKeeps ==
  ASSUME NEW s, Good(s), NEW child, NEW parent
  PROVE  /\ Reassigned(s, child, parent).id = s.id
         /\ Reassigned(s, child, parent).tbl.table_size = s.tbl.table_size
  BY DEF Good, Shaped, Reassigned

LEMMA AddedGrows ==
  ASSUME NEW s, NEW child, NEW parent
  PROVE  /\ Added(s, child, parent).id = [s.id EXCEPT ![child] = s.tbl.table_size]
         /\ Added(s, child, parent).tbl.table_size = s.tbl.table_size + 1
  BY DEF Added

(* The two things a registration can do to the table, its parent being     *)
(* registered: nothing to its size, or one index more, the code's own.     *)
LEMMA TableStep ==
  ASSUME RegInv, ParentsFirst, NEW ecode \in Vars, NEW parent \in Vars,
         skit__register_exception(ecode, parent)
  PROVE  \/ /\ id'[ecode] \in Indices(tbl)
            /\ tbl'.table_size = tbl.table_size
         \/ /\ id'[ecode] = tbl.table_size
            /\ tbl'.table_size = tbl.table_size + 1
<1> DEFINE s == Registered(State, ecode, parent)
<1>1. tbl' = s.tbl /\ id' = s.id
  BY DEF skit__register_exception, skit_register_parent_child_rel
<1>2. s = Link(State, ecode, parent)
  BY DEF skit__register_exception, Registered, State
<1>3. CASE IsInitialized(tbl, id, ecode)
  <2>1. s = Reassigned(State, ecode, parent)
    BY <1>2, <1>3 DEF Link, State
  <2>2. State.id = id /\ State.tbl = tbl /\ Good(State)
    BY InvIsGood DEF RegInv, State
  <2>3. s.id = id /\ s.tbl.table_size = tbl.table_size
    BY <2>1, <2>2, ReassignedKeeps
  <2> QED
    BY <1>1, <1>3, <2>3 DEF IsInitialized
<1>4. CASE ~ IsInitialized(tbl, id, ecode)
  <2>1. s = Added(State, ecode, parent)
    BY <1>2, <1>4 DEF Link, State
  <2>2. s.id = [id EXCEPT ![ecode] = tbl.table_size] /\ s.tbl.table_size = tbl.table_size + 1
    <3>1. State.id = id /\ State.tbl = tbl
      BY DEF State
    <3> HIDE DEF s
    <3> QED
      BY <2>1, <3>1, AddedGrows
  <2>3. s.id[ecode] = tbl.table_size
    BY <2>2 DEF RegInv, Inv, TypeOK
  <2> QED
    BY <1>1, <2>2, <2>3
<1> QED
  BY <1>3, <1>4

LEMMA RegStep ==
  ASSUME RegInv, ParentsFirst, RegNext
  PROVE  RegInv'
<1>1. PICK ecode \in Vars, parent \in Vars : skit__register_exception(ecode, parent)
  BY DEF RegNext
<1> DEFINE n        == tbl.table_size
           new_size == id'[ecode] + 1
           grows    == new_size > n
           array    == IF grows THEN skit__exc_resize(msgs, n, new_size) ELSE msgs
<1>2. Inv'
  <2>1. Next
    BY <1>1 DEF skit__register_exception, Next
  <2> QED
    BY <2>1, StepIsGood DEF RegInv
<1>3. /\ n \in Nat /\ Indices(tbl) = 0 .. n - 1 /\ Capacity(msgs) = n
      /\ msgs = [i \in 0 .. n - 1 |-> "message"]
  BY TableLength DEF RegInv
<1>4. /\ msgs' = [i \in DOMAIN array |-> IF i = id'[ecode] THEN "message" ELSE array[i]]
      /\ overran' = \/ overran
                    \/ grows /\ ResizeOverruns(msgs, new_size)
                    \/ id'[ecode] >= Capacity(array)
  BY <1>1 DEF skit__register_exception
<1>5. Indices(tbl') = 0 .. tbl'.table_size - 1
  BY DEF Indices
<1>6. CASE id'[ecode] \in 0 .. n - 1 /\ tbl'.table_size = n
  <2>1. ~ grows /\ array = msgs
    BY <1>3, <1>6
  <2>2. msgs' = [i \in Indices(tbl') |-> "message"]
    BY <1>3, <1>4, <1>5, <1>6, <2>1
  <2>3. overran' = FALSE
    BY <1>3, <1>4, <1>6, <2>1 DEF RegInv
  <2> QED
    BY <1>2, <2>2, <2>3 DEF RegInv
<1>7. CASE id'[ecode] = n /\ tbl'.table_size = n + 1
  <2>1. grows /\ new_size = n + 1
    BY <1>3, <1>7
  <2>2. Allocated(msgs, new_size) = n + 1
    BY <1>3, <2>1 DEF Allocated
  <2>3. array = [i \in 0 .. n |-> IF i \in n .. n THEN "NULL"
                                  ELSE IF i < n THEN msgs[i] ELSE "garbage"]
    BY <1>3, <2>1, <2>2 DEF skit__exc_resize
  <2> HIDE DEF array
  <2>4. DOMAIN array = 0 .. n /\ \A i \in 0 .. n - 1 : array[i] = "message"
    BY <1>3, <2>3
  <2>5. msgs' = [i \in 0 .. n |-> "message"]
    <3>1. \A i \in 0 .. n : (IF i = n THEN "message" ELSE array[i]) = "message"
      BY <1>3, <2>4
    <3> QED
      BY <1>4, <1>7, <2>4, <3>1
  <2>6. overran' = FALSE
    <3>1. Cardinality(0 .. (n + 1) - 1) = n + 1
      BY <1>3, Length
    <3>2. (n + 1) - 1 = n
      BY <1>3
    <3>3. Capacity(array) = n + 1
      BY <2>4, <3>1, <3>2 DEF Capacity
    <3>4. ~ ResizeOverruns(msgs, new_size)
      BY <1>3, <2>1, <2>2 DEF ResizeOverruns
    <3> QED
      BY <1>3, <1>4, <1>7, <3>3, <3>4 DEF RegInv
  <2>7. Indices(tbl') = 0 .. n
    BY <1>3, <1>5, <1>7
  <2> QED
    BY <1>2, <2>5, <2>6, <2>7 DEF RegInv
<1> QED
  BY <1>1, <1>3, <1>6, <1>7, TableStep

LEMMA RegInvariant == ASSUME ParentsFirst PROVE RegSpec => []RegInv
<1>1. RegInv /\ [RegNext]_regVars => RegInv'
  <2> SUFFICES ASSUME RegInv, [RegNext]_regVars
               PROVE  RegInv'
    OBVIOUS
  <2>1. CASE RegNext
    BY <2>1, RegStep
  <2>2. CASE UNCHANGED regVars
    BY <2>2 DEF regVars, RegInv, Inv, TypeOK, OwnersHoldTheirIndex, Indices
  <2> QED
    BY <2>1, <2>2
<1> QED
  BY <1>1, InitRegInv, PTL DEF RegSpec

(* No write beyond the arrays, whatever is registered again and under      *)
(* which registered parent: the bound by which skit__exc_resize grows them *)
(* and the one by which the table grows are the same.                      *)
THEOREM MessagesFit == ASSUME ParentsFirst PROVE RegSpec => []NeverOverruns
<1>1. RegInv => NeverOverruns
  BY DEF RegInv, NeverOverruns
<1> QED
  BY <1>1, RegInvariant, PTL

(* Every code that any exception can carry has a message.                  *)
THEOREM MessagesThere == ASSUME ParentsFirst PROVE RegSpec => []EveryCodeHasAMessage
<1>1. RegInv => EveryCodeHasAMessage
  BY DEF RegInv, EveryCodeHasAMessage
<1> QED
  BY <1>1, RegInvariant, PTL
=============================================================================
