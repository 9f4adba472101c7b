---------------------------- MODULE TrieProofs ----------------------------
(***************************************************************************)
(* That nothing writes to a trie under an open iterator, for every set of  *)
(* keys and requests and any number of iterators: the guards look at       *)
(* iterator_count, and the count is that of the open iterators.            *)
(***************************************************************************)
EXTENDS Trie, FiniteSetTheorems, TLAPS

CountInv ==
  /\ opened \subseteq Iters
  /\ iterator_count = Cardinality(opened)
  /\ ~ Alive => opened = {}

(* A set of iterators is finite, so its cardinality is 0 only when it is   *)
(* empty, and changes by one with an element.                              *)
LEMMA OpenedCounts ==
  ASSUME NEW S, S \subseteq Iters
  PROVE  /\ IsFiniteSet(S)
         /\ Cardinality(S) \in Nat
         /\ Cardinality(S) = 0 <=> S = {}
         /\ \A i \in S : Cardinality(S \ {i}) = Cardinality(S) - 1
         /\ \A i \in Iters \ S : Cardinality(S \cup {i}) = Cardinality(S) + 1
<1>1. IsFiniteSet(S)
  BY FS_Subset, TrieAssumption DEF TrieAssumption
<1>2. Cardinality(S) \in Nat
  BY <1>1, FS_CardinalityType
<1>3. Cardinality(S) = 0 <=> S = {}
  BY <1>1, FS_EmptySet
<1>4. \A i \in S : Cardinality(S \ {i}) = Cardinality(S) - 1
  BY <1>1, FS_RemoveElement
<1>5. \A i \in Iters \ S : Cardinality(S \cup {i}) = Cardinality(S) + 1
  BY <1>1, FS_AddElement
<1> QED
  BY <1>1, <1>2, <1>3, <1>4, <1>5

(* An empty trie, just constructed, has no iterator.                       *)
LEMMA CountInit == Init => CountInv
BY OpenedCounts DEF Init, CountInv, Alive, NoLoaf

(* The count follows the iterators through every step.  The destructor     *)
(* leaves no iterator behind, which is why the constructor may start at 0. *)
LEMMA CountStep == CountInv /\ [Next]_vars => CountInv'
<1> SUFFICES ASSUME CountInv, [Next]_vars PROVE CountInv'
  OBVIOUS
<1>1. ASSUME NEW r \in Requests, skit_trie_set(r.key, r.value, r.flags)
      PROVE  CountInv'
  <2>1. UNCHANGED <<iterator_count, opened>>
    BY <1>1 DEF skit_trie_set
  <2>2. Alive'
    <3>1. Alive /\ longest' = IF Len(r.key) > longest THEN Len(r.key) ELSE longest
      BY <1>1 DEF skit_trie_set, MayWrite
    <3>2. Len(r.key) \in Nat
      BY TrieAssumption DEF TrieAssumption
    <3> QED
      BY <3>1, <3>2 DEF Alive, NoLoaf
  <2> QED
    BY <2>1, <2>2 DEF CountInv
<1>2. ASSUME NEW i \in Iters, NEW prefix \in Prefixed, skit_trie_iter_new(i, prefix)
      PROVE  CountInv'
  BY <1>2, OpenedCounts DEF CountInv, skit_trie_iter_new, Alive
<1>3. ASSUME NEW i \in Iters, skit_trie_iter_next(i)
      PROVE  CountInv'
  BY <1>3 DEF CountInv, skit_trie_iter_next, Alive
<1>4. ASSUME NEW i \in Iters, skit_trie_iter_free(i)
      PROVE  CountInv'
  BY <1>4, OpenedCounts DEF CountInv, skit_trie_iter_free, Alive
<1>5. CASE skit_trie_dtor
  BY <1>5, OpenedCounts DEF CountInv, skit_trie_dtor, MayWrite
<1>6. CASE skit_trie_ctor
  BY <1>6, OpenedCounts DEF CountInv, skit_trie_ctor, Alive, NoLoaf
<1>7. CASE UNCHANGED vars
  BY <1>7 DEF CountInv, vars, Alive
<1> QED
  BY <1>1, <1>2, <1>3, <1>4, <1>5, <1>6, <1>7 DEF Next

(* Under CountInv, the guards of the writers keep every open iterator's    *)
(* nodes as they are.                                                      *)
LEMMA WritersWait ==
  CountInv /\ [Next]_vars => (opened # {} => UNCHANGED <<nodes, root, length, longest>>)
<1> SUFFICES ASSUME CountInv, [Next]_vars, opened # {}
             PROVE  UNCHANGED <<nodes, root, length, longest>>
  OBVIOUS
<1>1. Alive /\ ~ MayWrite
  BY OpenedCounts DEF CountInv, MayWrite
<1>2. ~ skit_trie_dtor /\ ~ skit_trie_ctor
  BY <1>1 DEF skit_trie_dtor, skit_trie_ctor
<1>3. \A r \in Requests : ~ skit_trie_set(r.key, r.value, r.flags)
  BY <1>1 DEF skit_trie_set
<1> QED
  BY <1>2, <1>3 DEF Next, vars, skit_trie_iter_new, skit_trie_iter_next, skit_trie_iter_free

(* The count of iterators is right in every state.                         *)
THEOREM CountIsRight == Spec => []CountInv
BY CountInit, CountStep, PTL DEF Spec

(* skit_trie_set, the constructor and the destructor leave the trie alone  *)
(* while any iterator is open.                                             *)
THEOREM IteratedTrieStands == Spec => WritesWait
<1>1. CountInv /\ [Next]_vars
        => [opened # {} => UNCHANGED <<nodes, root, length, longest>>]_vars
  BY WritersWait
<1> QED
  BY <1>1, CountIsRight, PTL DEF Spec, WritesWait
=============================================================================
