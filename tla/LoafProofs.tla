------------------------------ MODULE LoafProofs ------------------------------
(***************************************************************************)
(* Who owns the blocks of the heap, what is in them and what the calls     *)
(* write there, for any number of loaves, addresses, literals and sizes.   *)
(*                                                                         *)
(* A call of string.c is a composition of a few operations on the pair of  *)
(* a heap and a loaf; between them the heap and the loaf agree with each   *)
(* other but not with the caller's variables.  Owned is therefore about a  *)
(* heap and loaves given as parameters, and each operation has a lemma;    *)
(* Sized is the same for the characters.  Settled is what holds between    *)
(* two calls.                                                              *)
(***************************************************************************)
EXTENDS Loaf, TLAPS, FiniteSetTheorems

Places == AllAddresses \cup DOMAIN Literals
Firsts == Addresses["block"]
Seconds == Addresses["chars"]

LEMMA AddressFacts ==
  /\ AllAddresses = Firsts \cup Seconds /\ Firsts \cap Seconds = {}
  /\ \A a \in AllAddresses : a # NULL
  /\ AllAddresses \subseteq Places /\ NULL \notin Places
  BY LoafAssumption DEF AllAddresses, Places, Firsts, Seconds, NULL

(* The shape of blocks and slices; their characters and lengths do not     *)
(* matter here.                                                            *)
IsBlock(b) == b = [kind |-> b.kind, handle |-> b.handle, chars |-> b.chars]
IsSlice(s) == s = [at |-> s.at, offset |-> s.offset, length |-> s.length]
IsHeap(hp) == hp = [a \in Places |-> hp[a]] /\ \A a \in Places : IsBlock(hp[a])
AreLoaves(lv) == lv = [l \in Loaves |-> lv[l]] /\ \A l \in Loaves : IsSlice(lv[l])

(***************************************************************************)
(* A loaf s is null, or has a first block that nobody freed and perhaps a  *)
(* second, and of two loaves neither has a block of the other's.           *)
(***************************************************************************)
HasBlocks(hp, s) ==
  /\ s.at \in Firsts /\ hp[s.at].kind \in {"malloc", "user"}
  /\ hp[s.at].handle # NULL => hp[s.at].handle \in Seconds /\ hp[hp[s.at].handle].kind = "malloc"
Owns(hp, s, a) == s.at # NULL /\ (a = s.at \/ a = hp[s.at].handle)

Apart(hp, s, t) == s.at # NULL => s.at # t.at /\ \A a \in Seconds : ~ (Owns(hp, s, a) /\ Owns(hp, t, a))

Separate(hp, lv) ==
  /\ IsHeap(hp) /\ AreLoaves(lv)
  /\ \A l \in Loaves : lv[l].at # NULL => HasBlocks(hp, lv[l])
  /\ \A l \in Loaves : \A k \in Loaves \ {l} : Apart(hp, lv[l], lv[k])

Owned(hp, lv) ==
  /\ Separate(hp, lv)
  /\ \A a \in AllAddresses : hp[a] # FREE => \E l \in Loaves : Owns(hp, lv[l], a)

(* After a free, a block of the caller's waits for the end of its frame.   *)
Released(hp, lv) ==
  /\ Separate(hp, lv)
  /\ \A a \in AllAddresses : hp[a] # FREE => hp[a].kind = "user" \/ \E l \in Loaves : Owns(hp, lv[l], a)

-----------------------------------------------------------------------------
(* Writing characters and lengths leaves blocks where they are.            *)
SameShape(hp, hp2) ==
  /\ IsHeap(hp2)
  /\ \A a \in Places : hp2[a].kind = hp[a].kind /\ hp2[a].handle = hp[a].handle
  /\ \A a \in AllAddresses : hp[a] = FREE => hp2[a] = FREE

LEMMA OwnedStays ==
  ASSUME NEW hp, NEW hp2, NEW lv, NEW lv2, Owned(hp, lv), SameShape(hp, hp2),
         AreLoaves(lv2), \A l \in Loaves : lv2[l].at = lv[l].at
  PROVE  Owned(hp2, lv2)
<1>1. \A l \in Loaves : lv[l].at # NULL => lv[l].at \in Places
  BY AddressFacts DEF Owned, Separate, HasBlocks
<1>2. \A l \in Loaves : HasBlocks(hp, lv[l]) => HasBlocks(hp2, lv2[l])
  BY <1>1, AddressFacts DEF SameShape, HasBlocks
<1>3. \A l \in Loaves, a \in AllAddresses : Owns(hp2, lv2[l], a) <=> Owns(hp, lv[l], a)
  BY <1>1 DEF SameShape, Owns
<1>4. \A l \in Loaves : \A k \in Loaves \ {l} : Apart(hp2, lv2[l], lv2[k])
  BY <1>3, AddressFacts DEF Owned, Separate, Apart
<1>5. \A a \in AllAddresses : hp2[a] # FREE => \E l \in Loaves : Owns(hp2, lv2[l], a)
  BY <1>3 DEF Owned, SameShape
<1> QED
  BY <1>2, <1>4, <1>5 DEF Owned, Separate, SameShape

-----------------------------------------------------------------------------
(* There are as many addresses of each kind as loaves, so that a loaf      *)
(* without a block finds one.                                              *)
LEMMA Pigeons ==
  ASSUME NEW T, Cardinality(T) >= Cardinality(Loaves), NEW l \in Loaves,
         NEW S \in SUBSET (Loaves \ {l}), NEW f \in [S -> T]
  PROVE  \E t \in T : \A k \in S : f[k] # t
<1> SUFFICES ASSUME \A t \in T : \E k \in S : f[k] = t
             PROVE  FALSE
  OBVIOUS
<1>1. IsFiniteSet(Loaves) /\ IsFiniteSet(Loaves \ {l}) /\ Cardinality(Loaves) \in Nat
      /\ Cardinality(Loaves \ {l}) = Cardinality(Loaves) - 1
  BY LoafAssumption, FS_RemoveElement, FS_CardinalityType
<1>2. IsFiniteSet(S) /\ Cardinality(S) <= Cardinality(Loaves \ {l}) /\ Cardinality(S) \in Nat
  BY <1>1, FS_Subset, FS_CardinalityType
<1>3. f \in Surjection(S, T)
  BY DEF Surjection
<1>4. IsFiniteSet(T) /\ Cardinality(T) <= Cardinality(S)
  BY <1>2, <1>3, FS_Surjection
<1>5. Cardinality(T) \in Nat
  BY <1>4, FS_CardinalityType
<1> QED
  BY <1>1, <1>2, <1>4, <1>5

LEMMA FirstIsFree ==
  ASSUME NEW hp, NEW lv, Owned(hp, lv), NEW l \in Loaves, lv[l].at = NULL
  PROVE  NewAddress(hp, "block") \in Firsts /\ hp[NewAddress(hp, "block")] = FREE
<1> DEFINE S == {k \in Loaves : lv[k].at \in Firsts}
           f == [k \in S |-> lv[k].at]
<1>1. S \in SUBSET (Loaves \ {l}) /\ f \in [S -> Firsts]
  BY AddressFacts
<1>2. Cardinality(Firsts) >= Cardinality(Loaves)
  BY LoafAssumption DEF Firsts
<1>3. PICK t \in Firsts : \A k \in S : f[k] # t
  <2> HIDE DEF S, f
  <2> QED
    BY <1>1, <1>2, Pigeons
<1>4. \A k \in Loaves : ~ Owns(hp, lv[k], t)
  BY <1>3, AddressFacts DEF Owns, Owned, Separate, HasBlocks
<1>5. hp[t] = FREE
  BY <1>4, AddressFacts DEF Owned
<1> QED
  BY <1>5 DEF NewAddress, Firsts

LEMMA SecondIsFree ==
  ASSUME NEW hp, NEW lv, Owned(hp, lv), NEW l \in Loaves, lv[l].at # NULL, hp[lv[l].at].handle = NULL
  PROVE  NewAddress(hp, "chars") \in Seconds /\ hp[NewAddress(hp, "chars")] = FREE
<1> DEFINE S == {k \in Loaves : lv[k].at # NULL /\ hp[lv[k].at].handle \in Seconds}
           f == [k \in S |-> hp[lv[k].at].handle]
<1>1. S \in SUBSET (Loaves \ {l}) /\ f \in [S -> Seconds]
  BY AddressFacts
<1>2. Cardinality(Seconds) >= Cardinality(Loaves)
  BY LoafAssumption DEF Seconds
<1>3. PICK t \in Seconds : \A k \in S : f[k] # t
  <2> HIDE DEF S, f
  <2> QED
    BY <1>1, <1>2, Pigeons
<1>4. \A k \in Loaves : ~ Owns(hp, lv[k], t)
  BY <1>3, AddressFacts DEF Owns, Owned, Separate, HasBlocks
<1>5. hp[t] = FREE
  BY <1>4, AddressFacts DEF Owned
<1> QED
  BY <1>5 DEF NewAddress, Seconds

-----------------------------------------------------------------------------
(* The pair m of a heap and the loaf l, while the others are as in lv.     *)
With(lv, l, s) == [lv EXCEPT ![l] = s]
Fits(lv, l, m) == m = [hp |-> m.hp, lf |-> m.lf] /\ Owned(m.hp, With(lv, l, m.lf))

(* Owned for the pair, in terms of the loaf and of the others.             *)
LEMMA WithFacts ==
  ASSUME NEW hp, NEW lv, NEW l \in Loaves, NEW s, Owned(hp, With(lv, l, s)), AreLoaves(lv)
  PROVE  /\ With(lv, l, s)[l] = s /\ IsSlice(s) /\ \A k \in Loaves \ {l} : With(lv, l, s)[k] = lv[k]
         /\ IsHeap(hp)
         /\ s.at # NULL => HasBlocks(hp, s)
<1>1. With(lv, l, s)[l] = s /\ \A k \in Loaves \ {l} : With(lv, l, s)[k] = lv[k]
  BY DEF With, AreLoaves
<1> QED
  BY <1>1 DEF Owned, Separate, AreLoaves

LEMMA AreLoavesWith ==
  ASSUME NEW lv, AreLoaves(lv), NEW l \in Loaves, NEW s, IsSlice(s)
  PROVE  AreLoaves(With(lv, l, s))
  BY DEF AreLoaves, With

-----------------------------------------------------------------------------
(* The operations on the pair.                                             *)
LEMMA WriteFits ==
  ASSUME NEW lv, AreLoaves(lv), NEW l \in Loaves, NEW m, Fits(lv, l, m), m.lf.at # NULL,
         NEW pos, NEW bytes
  PROVE  Fits(lv, l, Write(m, pos, bytes)) /\ Write(m, pos, bytes).lf = m.lf
<1> DEFINE p == skit_slice_ptr(m.hp, m.lf)
           block == [m.hp[p] EXCEPT !.chars = Overwrite(@, pos, bytes)]
           hp2 == [m.hp EXCEPT ![p] = block]
<1>1. IsHeap(m.hp) /\ HasBlocks(m.hp, m.lf) /\ IsSlice(m.lf)
  BY WithFacts DEF Fits
<1>2. p \in AllAddresses /\ p \in Places /\ m.hp[p].kind \in {"malloc", "user"}
  BY <1>1, AddressFacts DEF HasBlocks, skit_slice_ptr
<1>3. Write(m, pos, bytes) = [hp |-> hp2, lf |-> m.lf]
  BY DEF Write, Fits
<1>4. /\ \A a \in Places : hp2[a] = IF a = p THEN block ELSE m.hp[a]
      /\ hp2 = [a \in Places |-> hp2[a]]
  BY <1>1, <1>2 DEF IsHeap
<1>5. IsBlock(m.hp[p]) /\ m.hp[p] # FREE
  BY <1>1, <1>2 DEF IsHeap, FREE
<1>6. IsBlock(block) /\ block.kind = m.hp[p].kind /\ block.handle = m.hp[p].handle
  BY <1>5 DEF IsBlock
<1> HIDE DEF p, hp2, block
<1>7. SameShape(m.hp, hp2)
  BY <1>1, <1>4, <1>5, <1>6, AddressFacts DEF SameShape, IsHeap
<1>8. Owned(hp2, With(lv, l, m.lf))
  BY <1>1, <1>7, AreLoavesWith, OwnedStays DEF Fits
<1> QED
  BY <1>3, <1>8 DEF Fits

LEMMA LengthFacts ==
  ASSUME NEW s, IsSlice(s), NEW n
  PROVE  /\ skit_slice_set_length(s, n) = [at |-> s.at, offset |-> s.offset, length |-> n % META_LENGTH]
         /\ IsSlice(skit_slice_set_length(s, n)) /\ skit_slice_set_length(s, n).at = s.at
<1> DEFINE x == n % META_LENGTH
<1>1. skit_slice_set_length(s, n) = [s EXCEPT !.length = x]
  BY DEF skit_slice_set_length
<1> HIDE DEF x
<1>2. [s EXCEPT !.length = x] = [at |-> s.at, offset |-> s.offset, length |-> x]
  BY DEF IsSlice
<1>3. skit_slice_set_length(s, n) = [at |-> s.at, offset |-> s.offset, length |-> x]
  BY <1>1, <1>2
<1>4. IsSlice(skit_slice_set_length(s, n)) /\ skit_slice_set_length(s, n).at = s.at
  BY <1>3 DEF IsSlice
<1> QED
  BY <1>3, <1>4 DEF x

LEMMA EmplaceFits ==
  ASSUME NEW lv, AreLoaves(lv), NEW l \in Loaves, NEW m, Fits(lv, l, m), m.lf.at = NULL,
         NEW kind \in {"malloc", "user"}, NEW n
  PROVE  /\ Fits(lv, l, skit_loaf_emplace_internal(m.hp, kind, n))
         /\ skit_loaf_emplace_internal(m.hp, kind, n).lf.at # NULL
<1> DEFINE at == NewAddress(m.hp, "block")
           block == [kind |-> kind, handle |-> NULL, chars |-> Junk(n) \o <<NUL>>]
           hp2 == [m.hp EXCEPT ![at] = block]
           lf2 == skit_slice_set_length([skit_loaf_null EXCEPT !.at = at], n)
           old == With(lv, l, m.lf)
           new == With(lv, l, lf2)
<1>1. old[l] = m.lf /\ (\A k \in Loaves \ {l} : old[k] = lv[k]) /\ IsHeap(m.hp)
  BY WithFacts DEF Fits
<1>2. Owned(m.hp, old)
  BY DEF Fits
<1>3. at \in Firsts /\ m.hp[at] = FREE
  <2> HIDE DEF old
  <2> QED
    BY <1>1, <1>2, FirstIsFree
<1>4. lf2.at = at /\ IsSlice(lf2)
  <2> DEFINE s == [skit_loaf_null EXCEPT !.at = at]
  <2> HIDE DEF at
  <2>1. IsSlice(s) /\ s.at = at
    BY DEF IsSlice, skit_loaf_null, skit_slice_null
  <2> HIDE DEF s
  <2>2. IsSlice(skit_slice_set_length(s, n)) /\ skit_slice_set_length(s, n).at = at
    BY <2>1, LengthFacts
  <2> QED
    BY <2>2 DEF s
<1>5. AreLoaves(new) /\ new[l] = lf2 /\ \A k \in Loaves \ {l} : new[k] = lv[k]
  BY <1>4, AreLoavesWith DEF AreLoaves, With
<1>6. skit_loaf_emplace_internal(m.hp, kind, n) = [hp |-> hp2, lf |-> lf2]
  BY DEF skit_loaf_emplace_internal, skit_malloc
<1>7. /\ IsHeap(hp2)
      /\ \A a \in Places : hp2[a] = IF a = at THEN block ELSE m.hp[a]
  BY <1>1, <1>3, AddressFacts DEF IsHeap, IsBlock
<1>8. block.kind = kind /\ block.handle = NULL /\ at # NULL /\ at \in Places /\ at \notin Seconds
  BY <1>3, AddressFacts
<1> HIDE DEF at, block, hp2, lf2, old, new
(* The others have none of their blocks at a free address.                 *)
<1>9. \A k \in Loaves \ {l} : lv[k].at # NULL =>
        /\ HasBlocks(m.hp, lv[k]) /\ lv[k].at # at /\ lv[k].at \in Places
        /\ m.hp[lv[k].at].handle # NULL =>
             m.hp[lv[k].at].handle # at /\ m.hp[lv[k].at].handle \in Places
  BY <1>1, <1>2, <1>3, AddressFacts DEF Owned, Separate, HasBlocks, FREE
<1>10. \A k \in Loaves \ {l} : lv[k].at # NULL => HasBlocks(hp2, lv[k])
  BY <1>7, <1>9 DEF HasBlocks
<1>11. HasBlocks(hp2, lf2)
  BY <1>3, <1>4, <1>7, <1>8 DEF HasBlocks
<1>12. \A k \in Loaves \ {l}, a \in AllAddresses : Owns(hp2, lv[k], a) <=> Owns(m.hp, lv[k], a)
  BY <1>7, <1>9, AddressFacts DEF Owns
<1>13. \A k \in Loaves \ {l} : Apart(hp2, lf2, lv[k]) /\ Apart(hp2, lv[k], lf2)
  BY <1>4, <1>7, <1>8, <1>9, AddressFacts DEF Apart, Owns
<1>14. \A k \in Loaves \ {l} : \A j \in Loaves \ {l, k} : Apart(hp2, lv[k], lv[j])
  BY <1>1, <1>2, <1>12, AddressFacts DEF Owned, Separate, Apart
<1>15. \A a \in AllAddresses : hp2[a] # FREE => \E k \in Loaves : Owns(hp2, new[k], a)
  <2> SUFFICES ASSUME NEW a \in AllAddresses, hp2[a] # FREE
               PROVE  \E k \in Loaves : Owns(hp2, new[k], a)
    OBVIOUS
  <2>1. CASE a = at
    BY <2>1, <1>4, <1>5, <1>8 DEF Owns
  <2>2. CASE a # at
    <3>1. m.hp[a] # FREE
      BY <2>2, <1>7, AddressFacts
    <3>2. PICK k \in Loaves : Owns(m.hp, old[k], a)
      BY <3>1, <1>2 DEF Owned
    <3>3. k # l
      BY <3>2, <1>1 DEF Owns
    <3> QED
      BY <3>2, <3>3, <1>1, <1>5, <1>12
  <2> QED
    BY <2>1, <2>2
<1>16. Owned(hp2, new)
  BY <1>5, <1>7, <1>10, <1>11, <1>13, <1>14, <1>15 DEF Owned, Separate
<1> QED
  BY <1>4, <1>6, <1>8, <1>16 DEF Fits, new

LEMMA BlockFacts ==
  ASSUME NEW b, IsBlock(b), NEW h, NEW c
  PROVE  [b EXCEPT !.handle = h, !.chars = c] = [kind |-> b.kind, handle |-> h, chars |-> c]
<1> DEFINE d == [b EXCEPT !.handle = h]
<1>1. d = [kind |-> b.kind, handle |-> h, chars |-> b.chars]
  BY DEF IsBlock
<1>2. [d EXCEPT !.chars = c] = [kind |-> b.kind, handle |-> h, chars |-> c]
  <2> HIDE DEF d
  <2> QED
    BY <1>1
<1> QED
  BY <1>2

LEMMA ResizeFits ==
  ASSUME NEW lv, AreLoaves(lv), NEW l \in Loaves, NEW m, Fits(lv, l, m), m.lf.at # NULL, NEW n
  PROVE  /\ Fits(lv, l, skit_loaf_resize(m, n))
         /\ skit_loaf_resize(m, n).lf = skit_slice_set_length(m.lf, n)
         /\ skit_loaf_resize(m, n).lf.at = m.lf.at
<1> DEFINE at == m.lf.at
           ptr == skit_slice_ptr(m.hp, m.lf)
           chars == m.hp[ptr].chars
           moves == ptr = at /\ m.lf.length < n
           a2 == NewAddress(m.hp, "chars")
           grown == Fit(SubSeq(chars, 1, m.lf.length) \o <<NUL>>, n)
           short == [m.hp[ptr] EXCEPT !.chars = Fit(chars, n)]
           second == [kind |-> "malloc", handle |-> NULL, chars |-> grown]
           first == [m.hp[at] EXCEPT !.handle = a2, !.chars = << >>]
           hp2 == [m.hp EXCEPT ![ptr] = short]
           hp3 == [[m.hp EXCEPT ![a2] = second] EXCEPT ![at] = [@ EXCEPT !.handle = a2, !.chars = << >>]]
           lf2 == skit_slice_set_length(m.lf, n)
           old == With(lv, l, m.lf)
           new == With(lv, l, lf2)
<1>1. /\ old[l] = m.lf /\ IsSlice(m.lf) /\ \A k \in Loaves \ {l} : old[k] = lv[k]
      /\ IsHeap(m.hp) /\ HasBlocks(m.hp, m.lf)
  BY WithFacts DEF Fits
<1>2. Owned(m.hp, old)
  BY DEF Fits
<1>3. lf2.at = at /\ IsSlice(lf2)
  BY <1>1, LengthFacts
<1>4. AreLoaves(new) /\ new[l] = lf2 /\ \A k \in Loaves \ {l} : new[k] = lv[k]
  BY <1>3, AreLoavesWith DEF AreLoaves, With
<1>5. skit_loaf_resize(m, n) = [hp |-> IF ~moves THEN hp2 ELSE hp3, lf |-> lf2]
  BY DEF skit_loaf_resize, skit_malloc
<1>6. at \in Firsts /\ at \in Places /\ ptr \in AllAddresses /\ ptr \in Places
      /\ m.hp[ptr].kind \in {"malloc", "user"} /\ m.hp[at].kind \in {"malloc", "user"}
  BY <1>1, AddressFacts DEF HasBlocks, skit_slice_ptr
<1>7. IsBlock(m.hp[ptr]) /\ m.hp[ptr] # FREE /\ IsBlock(m.hp[at]) /\ m.hp[at] # FREE
  BY <1>1, <1>6 DEF IsHeap, FREE
<1>8. CASE ~ moves
  <2>1. IsBlock(short) /\ short.kind = m.hp[ptr].kind /\ short.handle = m.hp[ptr].handle
    BY <1>7 DEF IsBlock
  <2>2. /\ \A a \in Places : hp2[a] = IF a = ptr THEN short ELSE m.hp[a]
        /\ hp2 = [a \in Places |-> hp2[a]]
    BY <1>1, <1>6 DEF IsHeap
  <2>3. skit_loaf_resize(m, n) = [hp |-> hp2, lf |-> lf2]
    BY <1>5, <1>8
  <2> HIDE DEF ptr, short, hp2, lf2, moves
  <2>4. SameShape(m.hp, hp2)
    BY <1>1, <1>7, <2>1, <2>2, AddressFacts DEF SameShape, IsHeap
  <2>5. Owned(hp2, new)
    <3>1. \A k \in Loaves : new[k].at = old[k].at
      BY <1>1, <1>3, <1>4
    <3> HIDE DEF new, old
    <3> QED
      BY <1>2, <1>4, <2>4, <3>1, OwnedStays
  <2> QED
    BY <1>3, <2>3, <2>5 DEF Fits, lf2, new
<1>9. CASE moves
  <2>1. m.hp[at].handle = NULL
    BY <1>1, <1>9, AddressFacts DEF HasBlocks, skit_slice_ptr
  <2>2. a2 \in Seconds /\ m.hp[a2] = FREE
    <3>1. old[l].at # NULL /\ m.hp[old[l].at].handle = NULL
      BY <1>1, <2>1
    <3> HIDE DEF old
    <3> QED
      BY <1>2, <3>1, SecondIsFree
  <2>3. a2 # at /\ a2 \in Places /\ a2 # NULL /\ a2 \notin Firsts
    BY <1>6, <2>2, AddressFacts
  <2>4. IsBlock(first) /\ first.kind = m.hp[at].kind /\ first.handle = a2
        /\ IsBlock(second) /\ second.kind = "malloc" /\ second.handle = NULL
    <3> HIDE DEF a2, grown, at
    <3>1. IsBlock(second) /\ second.kind = "malloc" /\ second.handle = NULL
      BY DEF IsBlock
    <3>2. first = [kind |-> m.hp[at].kind, handle |-> a2, chars |-> << >>]
      BY <1>7, BlockFacts, Zenon
    <3>3. IsBlock(first) /\ first.kind = m.hp[at].kind /\ first.handle = a2
      <4> HIDE DEF first
      <4> QED
        BY <3>2 DEF IsBlock
    <3> QED
      BY <3>1, <3>3
  <2>5. /\ \A a \in Places : hp3[a] = IF a = at THEN first ELSE IF a = a2 THEN second ELSE m.hp[a]
        /\ hp3 = [a \in Places |-> hp3[a]]
    <3> DEFINE hp1 == [m.hp EXCEPT ![a2] = second]
    <3>1. m.hp = [a \in Places |-> m.hp[a]]
      BY <1>1 DEF IsHeap
    <3> HIDE DEF second, a2, at
    <3>2. hp1 = [a \in Places |-> hp1[a]] /\ \A a \in Places : hp1[a] = IF a = a2 THEN second ELSE m.hp[a]
      BY <2>3, <3>1
    <3>3. hp1[at] = m.hp[at]
      BY <1>6, <2>3, <3>2
    <3>4. hp3 = [hp1 EXCEPT ![at] = [hp1[at] EXCEPT !.handle = a2, !.chars = << >>]]
      BY Zenon
    <3>5. hp3 = [hp1 EXCEPT ![at] = first]
      BY <3>3, <3>4, Zenon
    <3> HIDE DEF hp1, first, hp3
    <3> QED
      BY <1>6, <2>3, <3>2, <3>5
  <2>6. skit_loaf_resize(m, n) = [hp |-> hp3, lf |-> lf2]
    BY <1>5, <1>9
  <2>7. IsHeap(hp3)
    BY <1>1, <2>4, <2>5 DEF IsHeap
  <2> HIDE DEF at, a2, first, second, hp3, lf2, old, new, moves, ptr
  <2>8. \A k \in Loaves \ {l} : lv[k].at # NULL =>
          /\ HasBlocks(m.hp, lv[k]) /\ lv[k].at # at /\ lv[k].at # a2 /\ lv[k].at \in Places
          /\ m.hp[lv[k].at].handle # NULL =>
               /\ m.hp[lv[k].at].handle # a2 /\ m.hp[lv[k].at].handle # at
               /\ m.hp[lv[k].at].handle \in Places
    BY <1>1, <1>2, <1>6, <2>2, <2>3, AddressFacts DEF Owned, Separate, HasBlocks, Apart, FREE, at
  <2>9. \A k \in Loaves \ {l} : lv[k].at # NULL => HasBlocks(hp3, lv[k])
    BY <2>5, <2>8 DEF HasBlocks
  <2>10. HasBlocks(hp3, lf2)
    BY <1>3, <1>6, <2>2, <2>3, <2>4, <2>5 DEF HasBlocks
  <2>11. \A k \in Loaves \ {l}, a \in AllAddresses : Owns(hp3, lv[k], a) <=> Owns(m.hp, lv[k], a)
    BY <2>5, <2>8, AddressFacts DEF Owns
  <2>12. \A k \in Loaves \ {l} : Apart(hp3, lf2, lv[k]) /\ Apart(hp3, lv[k], lf2)
    BY <1>3, <1>6, <2>3, <2>4, <2>5, <2>8, AddressFacts DEF Apart, Owns
  <2>13. \A k \in Loaves \ {l} : \A j \in Loaves \ {l, k} : Apart(hp3, lv[k], lv[j])
    BY <1>1, <1>2, <2>11, AddressFacts DEF Owned, Separate, Apart
  <2>14. \A a \in AllAddresses : hp3[a] # FREE => \E k \in Loaves : Owns(hp3, new[k], a)
    <3> SUFFICES ASSUME NEW a \in AllAddresses, hp3[a] # FREE
                 PROVE  \E k \in Loaves : Owns(hp3, new[k], a)
      OBVIOUS
    <3>1. CASE a = at \/ a = a2
      BY <3>1, <1>3, <1>4, <1>6, <2>4, <2>5, AddressFacts DEF Owns
    <3>2. CASE a # at /\ a # a2
      <4>1. m.hp[a] # FREE
        BY <3>2, <2>5, AddressFacts
      <4>2. PICK k \in Loaves : Owns(m.hp, old[k], a)
        BY <4>1, <1>2 DEF Owned
      <4>3. k # l
        BY <4>2, <3>2, <1>1, <2>1, AddressFacts DEF Owns, at
      <4> QED
        BY <4>2, <4>3, <1>1, <1>4, <2>11
    <3> QED
      BY <3>1, <3>2
  <2>15. Owned(hp3, new)
    BY <1>4, <2>7, <2>9, <2>10, <2>12, <2>13, <2>14 DEF Owned, Separate
  <2> QED
    BY <1>3, <2>6, <2>15 DEF Fits, new, at, lf2
<1> QED
  BY <1>8, <1>9

(* A call on the loaf of pair m touches blocks of that loaf and free ones. *)
Local(m, hp2) == \A a \in Places : hp2[a] = m.hp[a] \/ m.hp[a] = FREE \/ Owns(m.hp, m.lf, a)

(* skit_loaf_free gives back both blocks, except a first one of the        *)
(* caller's, and the loaf has none.                                        *)
LEMMA FreeReleases ==
  ASSUME NEW lv, AreLoaves(lv), NEW l \in Loaves, NEW m, Fits(lv, l, m), m.lf.at # NULL
  PROVE  /\ Released(skit_loaf_free(m).hp, With(lv, l, skit_loaf_free(m).lf))
         /\ Local(m, skit_loaf_free(m).hp) /\ skit_loaf_free(m).lf = skit_loaf_null
<1> DEFINE at == m.lf.at
           h == m.hp[at].handle
           hp2 == skit_loaf_free(m).hp
           old == With(lv, l, m.lf)
           new == With(lv, l, skit_loaf_null)
<1>1. /\ old[l] = m.lf /\ IsSlice(m.lf) /\ \A k \in Loaves \ {l} : old[k] = lv[k]
      /\ IsHeap(m.hp) /\ HasBlocks(m.hp, m.lf)
  BY WithFacts DEF Fits
<1>2. Owned(m.hp, old)
  BY DEF Fits
<1>3. IsSlice(skit_loaf_null) /\ skit_loaf_null.at = NULL
  BY DEF IsSlice, skit_loaf_null, skit_slice_null
<1>4. AreLoaves(new) /\ new[l] = skit_loaf_null /\ \A k \in Loaves \ {l} : new[k] = lv[k]
  BY <1>3, AreLoavesWith DEF AreLoaves, With
<1>5. /\ at \in Firsts /\ at \in Places /\ m.hp[at].kind \in {"malloc", "user"}
      /\ h # NULL => h \in Seconds /\ h \in Places /\ h # at /\ m.hp[h].kind = "malloc"
  BY <1>1, AddressFacts DEF HasBlocks
<1>6. \A a \in Places : m.hp[a].kind = "malloc" =>
        skit_free(m.hp, a) = [m.hp EXCEPT ![a] = FREE]
  BY DEF skit_free
<1> DEFINE gone == IF h = NULL THEN m.hp ELSE [m.hp EXCEPT ![h] = FREE]
<1>7. gone = IF h = NULL THEN m.hp ELSE skit_free(m.hp, h)
  <2> HIDE DEF h, at
  <2> QED
    BY <1>5, <1>6
<1>8. /\ gone = [a \in Places |-> gone[a]]
      /\ \A a \in Places : gone[a] = IF h # NULL /\ a = h THEN FREE ELSE m.hp[a]
  BY <1>1, <1>5 DEF IsHeap
<1>9. hp2 = IF m.hp[at].kind = "malloc" THEN skit_free(gone, at) ELSE gone
  BY <1>7 DEF skit_loaf_free
<1> HIDE DEF gone, at, h
<1>10. gone[at] = m.hp[at]
  BY <1>5, <1>8
<1>11. hp2 = IF m.hp[at].kind = "malloc" THEN [gone EXCEPT ![at] = FREE] ELSE gone
  BY <1>9, <1>10, <1>5, <1>8 DEF skit_free
<1>12. /\ hp2 = [a \in Places |-> hp2[a]]
       /\ \A a \in Places : hp2[a] = IF (h # NULL /\ a = h) \/ (a = at /\ m.hp[at].kind = "malloc")
                                     THEN FREE ELSE m.hp[a]
  <2> HIDE DEF hp2
  <2> QED
    BY <1>8, <1>11, <1>5
<1>13. skit_loaf_free(m).lf = skit_loaf_null
  BY DEF skit_loaf_free
<1>14. IsBlock(FREE)
  BY DEF IsBlock, FREE
<1> HIDE DEF at, h, hp2, old, new
<1>15. IsHeap(hp2)
  BY <1>1, <1>12, <1>14 DEF IsHeap
(* The others keep their blocks.                                           *)
<1>16. \A k \in Loaves \ {l} : lv[k].at # NULL =>
         /\ HasBlocks(m.hp, lv[k]) /\ lv[k].at # at /\ lv[k].at # h /\ lv[k].at \in Places
         /\ m.hp[lv[k].at].handle # NULL =>
              /\ m.hp[lv[k].at].handle # h /\ m.hp[lv[k].at].handle # at
              /\ m.hp[lv[k].at].handle \in Places
  BY <1>1, <1>2, <1>5, AddressFacts DEF Owned, Separate, HasBlocks, Apart, Owns, at, h
<1>17. \A k \in Loaves \ {l} : lv[k].at # NULL => HasBlocks(hp2, lv[k])
  BY <1>12, <1>16 DEF HasBlocks
<1>18. \A k \in Loaves \ {l}, a \in AllAddresses : Owns(hp2, lv[k], a) <=> Owns(m.hp, lv[k], a)
  BY <1>12, <1>16 DEF Owns
<1>19. \A k \in Loaves \ {l} : \A j \in Loaves \ {l, k} : Apart(hp2, lv[k], lv[j])
  BY <1>1, <1>2, <1>18, AddressFacts DEF Owned, Separate, Apart
<1>20. \A k \in Loaves \ {l} : Apart(hp2, skit_loaf_null, lv[k]) /\ Apart(hp2, lv[k], skit_loaf_null)
  BY <1>3 DEF Apart, Owns
<1>21. Separate(hp2, new)
  BY <1>3, <1>4, <1>15, <1>17, <1>19, <1>20 DEF Separate
<1>22. \A a \in AllAddresses : hp2[a] # FREE => hp2[a].kind = "user" \/ \E k \in Loaves : Owns(hp2, new[k], a)
  <2> SUFFICES ASSUME NEW a \in AllAddresses, hp2[a] # FREE, hp2[a].kind # "user"
               PROVE  \E k \in Loaves : Owns(hp2, new[k], a)
    OBVIOUS
  <2>1. m.hp[a] # FREE /\ a # at /\ ~ (h # NULL /\ a = h)
    <3>1. a \in Places
      BY AddressFacts
    <3>2. ~ ((h # NULL /\ a = h) \/ (a = at /\ m.hp[at].kind = "malloc")) /\ hp2[a] = m.hp[a]
      BY <1>12, <3>1
    <3> QED
      BY <1>5, <3>2
  <2>2. PICK k \in Loaves : Owns(m.hp, old[k], a)
    BY <2>1, <1>2 DEF Owned
  <2>3. k # l
    BY <2>1, <2>2, <1>1, AddressFacts DEF Owns, at, h
  <2> QED
    BY <2>2, <2>3, <1>1, <1>4, <1>18
<1>23. Local(m, hp2)
  BY <1>5, <1>12 DEF Local, Owns, at, h
<1> QED
  BY <1>13, <1>21, <1>22, <1>23 DEF Released, hp2, new

-----------------------------------------------------------------------------
(* The functions of string.c.                                              *)
LEMMA FitsReleases ==
  ASSUME NEW lv, NEW l \in Loaves, NEW m, Fits(lv, l, m)
  PROVE  Released(m.hp, With(lv, l, m.lf))
  BY DEF Fits, Owned, Released

LEMMA AppendFits ==
  ASSUME NEW lv, AreLoaves(lv), NEW l \in Loaves, NEW m, Fits(lv, l, m), m.lf.at # NULL, NEW suffix
  PROVE  Fits(lv, l, skit_loaf_append(m, suffix))
<1> DEFINE n == m.lf.length + suffix.length
           resized == skit_loaf_resize(m, n)
           bytes == Text(resized.hp, suffix)
<1>1. Fits(lv, l, resized) /\ resized.lf.at # NULL
  <2> HIDE DEF n
  <2> QED
    BY ResizeFits
<1>2. skit_loaf_append(m, suffix) = IF suffix.length = 0 THEN m ELSE Write(resized, m.lf.length, bytes)
  BY DEF skit_loaf_append
<1> HIDE DEF resized, bytes
<1> QED
  BY <1>1, <1>2, WriteFits

LEMMA BufferedResizeFits ==
  ASSUME NEW lv, AreLoaves(lv), NEW l \in Loaves, NEW m, Fits(lv, l, m), m.lf.at # NULL, NEW s, NEW n
  PROVE  /\ Fits(lv, l, skit_slice_buffered_resize(m, s, n))
         /\ skit_slice_buffered_resize(m, s, n).lf.at # NULL
<1> DEFINE size == ((s.offset + n) * 3) \div 2
           resized == skit_loaf_resize(m, size)
<1>1. Fits(lv, l, resized) /\ resized.lf.at # NULL
  <2> HIDE DEF size
  <2> QED
    BY ResizeFits
<1>2. skit_slice_buffered_resize(m, s, n) \in {m, resized}
  BY DEF skit_slice_buffered_resize
<1> HIDE DEF resized
<1> QED
  BY <1>1, <1>2

LEMMA BufferedAppendFits ==
  ASSUME NEW lv, AreLoaves(lv), NEW l \in Loaves, NEW m, Fits(lv, l, m), m.lf.at # NULL,
         NEW s, NEW suffix
  PROVE  Fits(lv, l, skit_slice_buffered_append(m, s, suffix))
<1> DEFINE n == s.length + suffix.length
           resized == skit_slice_buffered_resize(m, s, n)
           pos == s.offset + s.length
           bytes == Text(resized.hp, suffix)
<1>1. skit_slice_buffered_append(m, s, suffix) = Write(resized, pos, bytes)
  BY DEF skit_slice_buffered_append
<1>2. Fits(lv, l, resized) /\ resized.lf.at # NULL
  <2> HIDE DEF n
  <2> QED
    BY BufferedResizeFits
<1> HIDE DEF resized, pos, bytes
<1> QED
  BY <1>1, <1>2, WriteFits

LEMMA AllocFits ==
  ASSUME NEW lv, AreLoaves(lv), NEW l \in Loaves, NEW m, Fits(lv, l, m), m.lf.at = NULL, NEW n
  PROVE  Fits(lv, l, skit_loaf_alloc(m.hp, n)) /\ skit_loaf_alloc(m.hp, n).lf.at # NULL
<1> DEFINE kind == "malloc"
<1>1. skit_loaf_alloc(m.hp, n) = skit_loaf_emplace_internal(m.hp, kind, n) /\ kind \in {"malloc", "user"}
  BY DEF skit_loaf_alloc
<1> HIDE DEF kind
<1> QED
  BY <1>1, EmplaceFits

LEMMA RoomFits ==
  ASSUME NEW lv, AreLoaves(lv), NEW l \in Loaves, NEW m, Fits(lv, l, m), NEW n
  PROVE  Fits(lv, l, StoreRoom(m, n)) /\ StoreRoom(m, n).lf.at # NULL
<1> DEFINE m2 == IF skit_slice_is_null(m.lf) THEN skit_loaf_alloc(m.hp, n) ELSE m
           resized == skit_loaf_resize(m2, n)
<1>1. Fits(lv, l, m2) /\ m2.lf.at # NULL
  BY AllocFits DEF skit_slice_is_null
<1>2. StoreRoom(m, n) \in {m2, resized}
  BY DEF StoreRoom
<1> HIDE DEF m2
<1>3. Fits(lv, l, resized) /\ resized.lf.at # NULL
  BY <1>1, ResizeFits
<1> HIDE DEF resized
<1> QED
  BY <1>1, <1>2, <1>3

LEMMA StoreSliceFits ==
  ASSUME NEW lv, AreLoaves(lv), NEW l \in Loaves, NEW m, Fits(lv, l, m), NEW s
  PROVE  /\ Fits(lv, l, skit_loaf_store_slice(m, s))
         /\ ~ skit_slice_is_null(s) => skit_loaf_store_slice(m, s).lf.at # NULL
<1> DEFINE n == s.length
           room == StoreRoom(m, n)
           pos == 0
           bytes == Text(room.hp, s)
<1>1. skit_loaf_store_slice(m, s) = IF skit_slice_is_null(s) THEN m ELSE Write(room, pos, bytes)
  BY DEF skit_loaf_store_slice
<1>2. Fits(lv, l, room) /\ room.lf.at # NULL
  <2> HIDE DEF n
  <2> QED
    BY RoomFits
<1> HIDE DEF room, pos, bytes
<1> QED
  BY <1>1, <1>2, WriteFits

LEMMA StoreCstrFits ==
  ASSUME NEW lv, AreLoaves(lv), NEW l \in Loaves, NEW m, Fits(lv, l, m), NEW s
  PROVE  /\ Fits(lv, l, skit_loaf_store_cstr(m, s))
         /\ ~ skit_slice_is_null(s) => skit_loaf_store_cstr(m, s).lf.at # NULL
<1> DEFINE n == s.length
           room == StoreRoom(m, n)
           pos == 0
           bytes == Append(Text(m.hp, s), NUL)
<1>1. skit_loaf_store_cstr(m, s) = IF skit_slice_is_null(s) THEN m ELSE Write(room, pos, bytes)
  BY DEF skit_loaf_store_cstr
<1>2. Fits(lv, l, room) /\ room.lf.at # NULL
  <2> HIDE DEF n
  <2> QED
    BY RoomFits
<1> HIDE DEF room, pos, bytes
<1> QED
  BY <1>1, <1>2, WriteFits

LEMMA AssignReleases ==
  ASSUME NEW lv, AreLoaves(lv), NEW l \in Loaves, NEW m, Fits(lv, l, m),
         NEW stored, Fits(lv, l, stored), NEW s, ~ skit_slice_is_null(s) => stored.lf.at # NULL
  PROVE  Released(Assigned(m, stored, s).hp, With(lv, l, Assigned(m, stored, s).lf))
<1> DEFINE n == s.length
           resized == skit_loaf_resize(stored, n)
           freed == skit_loaf_free(m)
           result == Assigned(m, stored, s)
<1>1. result = IF skit_slice_is_null(s) THEN IF skit_slice_is_null(m.lf) THEN m ELSE freed
               ELSE IF n < stored.lf.length THEN resized ELSE stored
  BY DEF Assigned
<1>2. ~ skit_slice_is_null(m.lf) => Released(freed.hp, With(lv, l, freed.lf))
  BY FreeReleases DEF skit_slice_is_null
<1>3. ~ skit_slice_is_null(s) => Fits(lv, l, resized)
  <2> HIDE DEF n
  <2> QED
    BY ResizeFits
<1> HIDE DEF n, resized, freed, result
<1>4. (result = freed /\ ~ skit_slice_is_null(m.lf)) \/ Fits(lv, l, result)
  BY <1>1, <1>3
<1>5. Released(result.hp, With(lv, l, result.lf))
  BY <1>2, <1>4, FitsReleases
<1> QED
  BY <1>5 DEF result

LEMMA ConcatFits ==
  ASSUME NEW lv, AreLoaves(lv), NEW l \in Loaves, NEW m, Fits(lv, l, m), m.lf.at = NULL, NEW s, NEW t
  PROVE  Fits(lv, l, skit_slice_concat(m.hp, s, t))
<1> DEFINE n == s.length + t.length
           fresh == skit_loaf_alloc(m.hp, n)
           pos == 0
           bytes == Text(m.hp, s)
           pos2 == s.length
           bytes2 == Text(m.hp, t)
<1>1. skit_slice_concat(m.hp, s, t) = Write(Write(fresh, pos, bytes), pos2, bytes2)
  BY DEF skit_slice_concat
<1>2. Fits(lv, l, fresh) /\ fresh.lf.at # NULL
  <2> HIDE DEF n
  <2> QED
    BY AllocFits
<1> HIDE DEF fresh, pos, bytes, pos2, bytes2
<1>3. Fits(lv, l, Write(fresh, pos, bytes)) /\ Write(fresh, pos, bytes).lf.at # NULL
  BY <1>2, WriteFits
<1> QED
  BY <1>1, <1>3, WriteFits

LEMMA DupFits ==
  ASSUME NEW lv, AreLoaves(lv), NEW l \in Loaves, NEW m, Fits(lv, l, m), m.lf.at = NULL, NEW s
  PROVE  Fits(lv, l, skit_loaf_dup(m.hp, s)) /\ Fits(lv, l, skit_loaf_copy_cstr(m.hp, s))
<1> DEFINE n == s.length
           fresh == skit_loaf_alloc(m.hp, n)
           pos == 0
           bytes == Text(m.hp, s)
<1>1. /\ skit_loaf_dup(m.hp, s) = Write(fresh, pos, bytes)
      /\ skit_loaf_copy_cstr(m.hp, s) = skit_loaf_store_cstr(fresh, s)
  BY DEF skit_loaf_dup, skit_loaf_copy_cstr
<1>2. Fits(lv, l, fresh) /\ fresh.lf.at # NULL
  <2> HIDE DEF n
  <2> QED
    BY AllocFits
<1> HIDE DEF fresh, pos, bytes
<1> QED
  BY <1>1, <1>2, WriteFits, StoreCstrFits

-----------------------------------------------------------------------------
(* The end of a call: the caller has the loaf, and with its frame goes the *)
(* memory it supplied for a loaf that was freed.                           *)
FramesGone(hp, lv) ==
  [a \in Places |-> IF hp[a].kind = "user" /\ \A l \in Loaves : lv[l].at # a THEN FREE ELSE hp[a]]

LEMMA FramesGo ==
  ASSUME NEW hp, NEW lv, Released(hp, lv)
  PROVE  Owned(FramesGone(hp, lv), lv)
<1> DEFINE hp2 == FramesGone(hp, lv)
<1>1. /\ hp2 = [a \in Places |-> hp2[a]]
      /\ \A a \in Places : hp2[a] = IF hp[a].kind = "user" /\ \A l \in Loaves : lv[l].at # a
                                    THEN FREE ELSE hp[a]
  BY DEF FramesGone
<1> HIDE DEF hp2
<1>2. IsBlock(FREE)
  BY DEF IsBlock, FREE
<1>3. IsHeap(hp2)
  BY <1>1, <1>2 DEF IsHeap, Released, Separate
<1>4. \A l \in Loaves : lv[l].at # NULL =>
        /\ HasBlocks(hp, lv[l]) /\ lv[l].at \in Places /\ hp2[lv[l].at] = hp[lv[l].at]
        /\ hp[lv[l].at].handle # NULL => hp2[hp[lv[l].at].handle] = hp[hp[lv[l].at].handle]
  BY <1>1, AddressFacts DEF Released, Separate, HasBlocks
<1>5. \A l \in Loaves : lv[l].at # NULL => HasBlocks(hp2, lv[l])
  BY <1>4 DEF HasBlocks
<1>6. \A l \in Loaves, a \in AllAddresses : Owns(hp2, lv[l], a) <=> Owns(hp, lv[l], a)
  BY <1>4 DEF Owns
<1>7. \A l \in Loaves : \A k \in Loaves \ {l} : Apart(hp2, lv[l], lv[k])
  BY <1>6, AddressFacts DEF Released, Separate, Apart
<1>8. \A a \in AllAddresses : hp2[a] # FREE => \E l \in Loaves : Owns(hp2, lv[l], a)
  <2> SUFFICES ASSUME NEW a \in AllAddresses, hp2[a] # FREE
               PROVE  \E l \in Loaves : Owns(hp2, lv[l], a)
    OBVIOUS
  <2>1. hp2[a] = hp[a] /\ (hp[a].kind = "user" => \E l \in Loaves : lv[l].at = a)
    BY <1>1, AddressFacts
  <2>2. \E l \in Loaves : Owns(hp, lv[l], a)
    BY <2>1, AddressFacts DEF Released, Owns
  <2> QED
    BY <1>6, <2>2
<1>9. Owned(hp2, lv)
  BY <1>3, <1>5, <1>7, <1>8 DEF Owned, Released, Separate
<1> QED
  BY <1>9 DEF hp2

LEMMA KeepOwns ==
  ASSUME NEW l \in Loaves, NEW m, Owned(heap, loaf), Released(m.hp, With(loaf, l, m.lf)), Keep(l, m)
  PROVE  Owned(heap', loaf')
<1>1. DOMAIN heap = Places
  BY DEF Owned, Separate, IsHeap
<1>2. loaf' = With(loaf, l, m.lf) /\ heap' = FramesGone(m.hp, loaf')
  BY <1>1 DEF Keep, With, FramesGone
<1> QED
  BY <1>2, FramesGo

LEMMA PairFits ==
  ASSUME NEW l \in Loaves, Owned(heap, loaf)
  PROVE  AreLoaves(loaf) /\ Fits(loaf, l, Pair(l)) /\ Pair(l).lf = loaf[l] /\ Pair(l).hp = heap
<1>1. With(loaf, l, loaf[l]) = loaf
  BY DEF With, Owned, Separate, AreLoaves
<1> QED
  BY <1>1 DEF Fits, Pair, Owned, Separate

-----------------------------------------------------------------------------
LEMMA InitOwns == Init => Owned(heap, loaf)
<1> SUFFICES ASSUME Init PROVE Owned(heap, loaf)
  OBVIOUS
<1>1. IsBlock(FREE)
  BY DEF IsBlock, FREE
<1>2. IsHeap(heap) /\ \A a \in AllAddresses : heap[a] = FREE
  BY <1>1 DEF Init, IsHeap, Places, IsBlock
<1>3. IsSlice(skit_loaf_null) /\ skit_loaf_null.at = NULL
  BY DEF IsSlice, skit_loaf_null, skit_slice_null
<1>4. AreLoaves(loaf) /\ \A l \in Loaves : loaf[l].at = NULL
  BY <1>3 DEF Init, AreLoaves
<1> QED
  BY <1>2, <1>4 DEF Owned, Separate, Apart

(* What every action does: a call on one loaf, or none.                    *)
LEMMA CallOwns ==
  ASSUME NEW l \in Loaves, NEW m, Owned(heap, loaf), Fits(loaf, l, m), Keep(l, m)
  PROVE  Owned(heap', loaf')
  BY FitsReleases, KeepOwns

LEMMA StepOwns == Owned(heap, loaf) /\ [Next]_vars => Owned(heap', loaf')
<1> SUFFICES ASSUME Owned(heap, loaf), [Next]_vars
             PROVE  Owned(heap', loaf')
  OBVIOUS
<1>1. ASSUME NEW l \in Loaves, l \notin Live
      PROVE  /\ loaf[l].at = NULL /\ AreLoaves(loaf) /\ Fits(loaf, l, Pair(l)) /\ Pair(l).lf.at = NULL
             /\ Pair(l).hp = heap
  BY <1>1, PairFits DEF Live, skit_slice_is_null
<1>2. ASSUME NEW l \in Loaves, l \in Live
      PROVE  AreLoaves(loaf) /\ Fits(loaf, l, Pair(l)) /\ Pair(l).lf.at # NULL
  BY <1>2, PairFits DEF Live, skit_slice_is_null
<1>3. ASSUME NEW l \in Loaves, Alloc(l)
      PROVE  Owned(heap', loaf')
  BY <1>1, <1>3, AllocFits, CallOwns DEF Alloc
<1>4. ASSUME NEW l \in Loaves, Emplace(l)
      PROVE  Owned(heap', loaf')
  <2> DEFINE kind == "user"
  <2>1. PICK n \in Lengths : Keep(l, skit_loaf_emplace_internal(heap, kind, n))
    BY <1>4 DEF Emplace, skit_loaf_emplace
  <2>2. kind \in {"malloc", "user"} /\ l \notin Live
    BY <1>4 DEF Emplace
  <2> HIDE DEF kind
  <2>3. Fits(loaf, l, skit_loaf_emplace_internal(heap, kind, n))
    BY <1>1, <2>2, EmplaceFits
  <2> QED
    BY <2>1, <2>3, CallOwns
<1>5. ASSUME NEW l \in Loaves, NEW cstr, CopyCstr(l, cstr)
      PROVE  Owned(heap', loaf')
  BY <1>1, <1>5, DupFits, CallOwns DEF CopyCstr
<1>6. ASSUME NEW l \in Loaves, NEW src, Dup(l, src)
      PROVE  Owned(heap', loaf')
  BY <1>1, <1>6, DupFits, CallOwns DEF Dup
<1>7. ASSUME NEW l \in Loaves, NEW src, NEW src2, Concat(l, src, src2)
      PROVE  Owned(heap', loaf')
  BY <1>1, <1>7, ConcatFits, CallOwns DEF Concat
<1>8. ASSUME NEW l \in Loaves, NEW n, Resize(l, n)
      PROVE  Owned(heap', loaf')
  BY <1>2, <1>8, ResizeFits, CallOwns DEF Resize
<1>9. ASSUME NEW l \in Loaves, NEW suffix, AppendTo(l, suffix)
      PROVE  Owned(heap', loaf')
  BY <1>2, <1>9, AppendFits, CallOwns DEF AppendTo
<1>10. ASSUME NEW l \in Loaves, NEW n, BufferedResize(l, n)
       PROVE  Owned(heap', loaf')
  BY <1>2, <1>10, BufferedResizeFits, CallOwns DEF BufferedResize, IsSliceOf
<1>11. ASSUME NEW l \in Loaves, NEW suffix, BufferedAppend(l, suffix)
       PROVE  Owned(heap', loaf')
  BY <1>2, <1>11, BufferedAppendFits, CallOwns DEF BufferedAppend, IsSliceOf
<1>12. ASSUME NEW l \in Loaves, NEW src, StoreSlice(l, src)
       PROVE  Owned(heap', loaf')
  BY <1>12, PairFits, StoreSliceFits, CallOwns DEF StoreSlice, Stored
<1>13. ASSUME NEW l \in Loaves, NEW src, StoreCstr(l, src)
       PROVE  Owned(heap', loaf')
  BY <1>13, PairFits, StoreCstrFits, CallOwns DEF StoreCstr, Stored
<1>14. ASSUME NEW l \in Loaves, NEW src, AssignSlice(l, src)
       PROVE  Owned(heap', loaf')
  BY <1>14, PairFits, StoreSliceFits, AssignReleases, KeepOwns DEF AssignSlice, Stored, skit_loaf_assign_slice
<1>15. ASSUME NEW l \in Loaves, NEW src, AssignCstr(l, src)
       PROVE  Owned(heap', loaf')
  BY <1>15, PairFits, StoreCstrFits, AssignReleases, KeepOwns DEF AssignCstr, Stored, skit_loaf_assign_cstr
<1>16. ASSUME NEW l \in Loaves, NEW elem, Filter(l, elem)
       PROVE  Owned(heap', loaf')
  <2> DEFINE pos == 0
  <2>1. PICK bytes : Keep(l, Write(Pair(l), pos, bytes))
    BY <1>16 DEF Filter
  <2>2. l \in Live
    BY <1>16 DEF Filter, IsSliceOf
  <2> HIDE DEF pos
  <2> QED
    BY <1>2, <2>1, <2>2, WriteFits, CallOwns
<1>17. ASSUME NEW l \in Loaves, Free(l)
       PROVE  Owned(heap', loaf')
  BY <1>2, <1>17, FreeReleases, KeepOwns DEF Free
<1>18. ASSUME UNCHANGED <<heap, loaf>>
       PROVE  Owned(heap', loaf')
  BY <1>18
<1>19. ASSUME NEW src, NEW i, NEW j, SliceOf(src, i, j)
       PROVE  Owned(heap', loaf')
  BY <1>18, <1>19 DEF SliceOf
<1> QED
  BY <1>3, <1>4, <1>5, <1>6, <1>7, <1>8, <1>9, <1>10, <1>11, <1>12, <1>13, <1>14, <1>15, <1>16,
     <1>17, <1>18, <1>19 DEF Next, vars, Put, BufferedNewElement

LEMMA OwnedGivesOneOwner == Owned(heap, loaf) => EveryBlockHasOneOwner
<1> SUFFICES ASSUME Owned(heap, loaf) PROVE EveryBlockHasOneOwner
  OBVIOUS
<1>1. \A l \in Loaves : l \in Live <=> loaf[l].at # NULL
  BY DEF Live, skit_slice_is_null
<1>2. \A l \in Live : HasBlocks(heap, loaf[l]) /\ l \in Loaves
  BY <1>1 DEF Owned, Separate, Live
<1>3. ASSUME NEW a \in AllAddresses, heap[a] # FREE
      PROVE  Cardinality({l \in Live : a \in {loaf[l].at, skit_slice_ptr(heap, loaf[l])}}) = 1
  <2>1. PICK l \in Loaves : Owns(heap, loaf[l], a)
    BY <1>3 DEF Owned
  <2>2. \A k \in Live : a \in {loaf[k].at, skit_slice_ptr(heap, loaf[k])} <=> Owns(heap, loaf[k], a)
    BY <1>1, <1>2, AddressFacts DEF Owns, skit_slice_ptr
  <2>3. \A k \in Live : Owns(heap, loaf[k], a) => k = l
    BY <1>1, <1>2, <2>1, AddressFacts DEF Owned, Separate, Apart, Owns, HasBlocks
  <2>4. l \in Live
    BY <1>1, <2>1 DEF Owns
  <2>5. {k \in Live : a \in {loaf[k].at, skit_slice_ptr(heap, loaf[k])}} = {l}
    BY <2>1, <2>2, <2>3, <2>4
  <2> QED
    BY <2>5, FS_Singleton
<1>4. \A l \in Live : heap[loaf[l].at].kind \in {"malloc", "user"} /\ Block(l).kind \in {"malloc", "user"}
  BY <1>2 DEF HasBlocks, Block, skit_slice_ptr
<1> QED
  BY <1>3, <1>4 DEF EveryBlockHasOneOwner

LEMMA OwnedAlways == Spec => []Owned(heap, loaf)
<1>1. Init => Owned(heap, loaf)
  BY InitOwns
<1>2. Owned(heap, loaf) /\ [Next]_vars => Owned(heap, loaf)'
  BY StepOwns
<1> QED
  BY <1>1, <1>2, PTL DEF Spec

(***************************************************************************)
(* Through any calls of string.c and templates/array.c, however many       *)
(* loaves: each block that was allocated belongs to one loaf and to no     *)
(* other, nothing leaks, nothing is freed twice, and memory of the         *)
(* caller's is never freed.                                                *)
(***************************************************************************)
THEOREM OneOwner == Spec => []EveryBlockHasOneOwner
  BY OwnedAlways, OwnedGivesOneOwner, PTL

(***************************************************************************)
(* Sequences of bytes: IsText(c, n) says that c has n of them.  What the   *)
(* operators of Sequences do to them is said element by element.           *)
(***************************************************************************)
IsText(c, n) == c = [i \in 1 .. n |-> c[i]]

LEMMA TextSeq ==
  ASSUME NEW c, NEW n \in Nat, IsText(c, n)
  PROVE  c \in Seq({c[i] : i \in 1 .. n}) /\ Len(c) = n
<1>1. c \in [1 .. n -> {c[i] : i \in 1 .. n}]
  BY DEF IsText
<1> QED
  BY <1>1

LEMMA SeqText ==
  ASSUME NEW S, NEW c \in Seq(S)
  PROVE  IsText(c, Len(c)) /\ Len(c) \in Nat
  BY DEF IsText

LEMMA JunkText == ASSUME NEW n \in Nat PROVE IsText(Junk(n), n)
  BY DEF IsText, Junk

(* The byte behind the last one, and what a block keeps of its text when   *)
(* it is given another size.                                               *)
LEMMA FitFacts ==
  ASSUME NEW bytes, NEW k \in Nat, IsText(bytes, k), NEW n \in Nat
  PROVE  /\ IsText(Fit(bytes, n), n + 1) /\ Fit(bytes, n)[n + 1] = NUL
         /\ \A i \in 1 .. n : i <= k => Fit(bytes, n)[i] = bytes[i]
<1> DEFINE S == {bytes[i] : i \in 1 .. k} \cup {JUNK, NUL}
           j == Junk(n)
           all == bytes \o j
           part == SubSeq(all, 1, n)
<1>1. bytes \in Seq(S) /\ Len(bytes) = k
  <2>1. bytes \in [1 .. k -> S]
    BY DEF IsText
  <2> HIDE DEF S
  <2> QED
    BY <2>1
<1>2. j \in Seq(S) /\ Len(j) = n
  <2>1. j \in [1 .. n -> S]
    BY DEF Junk
  <2> HIDE DEF S, j
  <2> QED
    BY <2>1
<1> HIDE DEF S, j
<1>3. all \in Seq(S) /\ Len(all) = k + n /\ \A i \in 1 .. k : all[i] = bytes[i]
  BY <1>1, <1>2
<1> HIDE DEF all
<1>4. part \in Seq(S) /\ Len(part) = n /\ \A i \in 1 .. n : part[i] = all[i]
  BY <1>3
<1> HIDE DEF part
<1>5. Fit(bytes, n) = part \o <<NUL>>
  BY DEF Fit, part, all, j
<1>6. NUL \in S
  BY DEF S
<1>7. /\ part \o <<NUL>> \in Seq(S) /\ Len(part \o <<NUL>>) = n + 1
      /\ (part \o <<NUL>>)[n + 1] = NUL /\ \A i \in 1 .. n : (part \o <<NUL>>)[i] = part[i]
  BY <1>4, <1>6
<1>8. \A i \in 1 .. n : i <= k => part[i] = bytes[i]
  BY <1>3, <1>4
<1> QED
  BY <1>5, <1>7, <1>8, SeqText

Chars(hp, s) == hp[skit_slice_ptr(hp, s)].chars

(* d is c with the k bytes behind pos overwritten.                         *)
Overwritten(d, c, n, pos, bytes, k) ==
  /\ IsText(d, n)
  /\ \A i \in 1 .. n : d[i] = IF pos < i /\ i <= pos + k THEN bytes[i - pos] ELSE c[i]

LEMMA OverwriteFacts ==
  ASSUME NEW c, NEW n \in Nat, IsText(c, n), NEW bytes, NEW k \in Nat, IsText(bytes, k), NEW pos \in Nat
  PROVE  Overwritten(Overwrite(c, pos, bytes), c, n, pos, bytes, k)
<1>1. DOMAIN c = 1 .. n /\ DOMAIN bytes = 1 .. k
  BY DEF IsText
<1>2. \A i \in 1 .. n : i - pos \in 1 .. k <=> pos < i /\ i <= pos + k
  OBVIOUS
<1> QED
  BY <1>1, <1>2 DEF Overwrite, IsText, Overwritten

(* What a slice reads.                                                     *)
LEMMA SubText ==
  ASSUME NEW c, NEW n \in Nat, IsText(c, n), NEW first \in Nat, NEW k \in Nat, first + k <= n
  PROVE  /\ IsText(SubSeq(c, first + 1, first + k), k)
         /\ \A i \in 1 .. k : SubSeq(c, first + 1, first + k)[i] = c[first + i]
<1> DEFINE S == {c[i] : i \in 1 .. n}
<1>1. c \in Seq(S) /\ Len(c) = n
  BY TextSeq
<1> HIDE DEF S
<1>2. /\ SubSeq(c, first + 1, first + k) \in Seq(S) /\ Len(SubSeq(c, first + 1, first + k)) = k
      /\ \A i \in 1 .. k : SubSeq(c, first + 1, first + k)[i] = c[first + i]
  BY <1>1
<1> QED
  BY <1>2, SeqText

(***************************************************************************)
(* The characters.  A call leaves the other loaves and the literals as     *)
(* they are, because it touches only blocks of its own loaf and free ones. *)
(***************************************************************************)
IsLiteral(hp, c) == hp[c] = [kind |-> "literal", handle |-> NULL, chars |-> Literals[c]]
LiteralsStand(hp) == \A c \in DOMAIN Literals : IsLiteral(hp, c)

LEMMA LiteralFacts == \A c \in DOMAIN Literals : c \in Places /\ c \notin AllAddresses /\ c # NULL
  BY LoafAssumption DEF Places, AllAddresses, NULL

LEMMA LiteralBlock ==
  ASSUME NEW hp, NEW c, IsLiteral(hp, c)
  PROVE  hp[c].kind = "literal" /\ hp[c].handle = NULL /\ hp[c].chars = Literals[c] /\ hp[c] # FREE
<1>1. hp[c].kind = "literal" /\ hp[c].handle = NULL /\ hp[c].chars = Literals[c]
  BY DEF IsLiteral
<1>2. FREE.kind = "free"
  BY DEF FREE
<1> QED
  BY <1>1, <1>2

(* So the other loaves and the literals keep their characters.             *)
LEMMA LocalKeeps ==
  ASSUME NEW lv, AreLoaves(lv), NEW l \in Loaves, NEW m, Fits(lv, l, m), NEW hp2, Local(m, hp2)
  PROVE  /\ LiteralsStand(m.hp) => LiteralsStand(hp2)
         /\ \A k \in Loaves \ {l} : lv[k].at # NULL =>
              skit_slice_ptr(hp2, lv[k]) = skit_slice_ptr(m.hp, lv[k]) /\ Chars(hp2, lv[k]) = Chars(m.hp, lv[k])
<1> DEFINE old == With(lv, l, m.lf)
<1>1. /\ old[l] = m.lf /\ \A k \in Loaves \ {l} : old[k] = lv[k]
      /\ IsHeap(m.hp) /\ (m.lf.at # NULL => HasBlocks(m.hp, m.lf))
  BY WithFacts DEF Fits
<1>2. Owned(m.hp, old)
  BY DEF Fits
<1> HIDE DEF old
<1>3. LiteralsStand(m.hp) => LiteralsStand(hp2)
  <2> SUFFICES ASSUME LiteralsStand(m.hp), NEW c \in DOMAIN Literals
               PROVE  hp2[c] = m.hp[c]
    BY DEF LiteralsStand, IsLiteral
  <2>1. m.hp[c].kind = "literal" /\ m.hp[c] # FREE
    BY LiteralBlock DEF LiteralsStand
  <2>2. ~ Owns(m.hp, m.lf, c)
    BY <1>1, LiteralFacts, AddressFacts DEF Owns, HasBlocks
  <2> QED
    BY <2>1, <2>2, LiteralFacts DEF Local
<1>4. ASSUME NEW k \in Loaves \ {l}, lv[k].at # NULL
      PROVE  skit_slice_ptr(hp2, lv[k]) = skit_slice_ptr(m.hp, lv[k]) /\ Chars(hp2, lv[k]) = Chars(m.hp, lv[k])
  <2> DEFINE at == lv[k].at
             h == m.hp[at].handle
  <2>1. HasBlocks(m.hp, lv[k]) /\ Apart(m.hp, m.lf, lv[k]) /\ Apart(m.hp, lv[k], m.lf)
    BY <1>1, <1>2, <1>4 DEF Owned, Separate
  <2>2. /\ at \in Places /\ at \in Firsts /\ m.hp[at] # FREE
        /\ h # NULL => h \in Places /\ h \in Seconds /\ m.hp[h] # FREE
    BY <2>1, AddressFacts DEF HasBlocks, FREE
  <2>3. ~ Owns(m.hp, m.lf, at)
    BY <1>1, <2>1, <2>2, AddressFacts DEF Owns, Apart, HasBlocks
  <2>4. h # NULL => ~ Owns(m.hp, m.lf, h)
    BY <2>1, <2>2, <1>4 DEF Owns, Apart
  <2>5. hp2[at] = m.hp[at] /\ (h # NULL => hp2[h] = m.hp[h])
    BY <2>2, <2>3, <2>4 DEF Local
  <2> QED
    BY <2>5 DEF Chars, skit_slice_ptr
<1> QED
  BY <1>3, <1>4

-----------------------------------------------------------------------------
(* A block is as long as its loaf and the null byte behind it.             *)
IsSized(hp, s) ==
  /\ s.offset = 0 /\ s.length \in Nat
  /\ IsText(Chars(hp, s), s.length + 1) /\ Chars(hp, s)[s.length + 1] = NUL

Sized(hp, lv) == \A l \in Loaves : lv[l].at # NULL => IsSized(hp, lv[l])

FitsSized(lv, l, m) ==
  Fits(lv, l, m) /\ Sized(m.hp, With(lv, l, m.lf)) /\ LiteralsStand(m.hp)

(* m2 is what a call makes of m: the other loaves keep their characters.   *)
OthersKept(lv, l, hp, hp2) ==
  \A k \in Loaves \ {l} : lv[k].at # NULL => Chars(hp2, lv[k]) = Chars(hp, lv[k])

Becomes(lv, l, m, m2) == FitsSized(lv, l, m2) /\ OthersKept(lv, l, m.hp, m2.hp)

LEMMA BecomesTwice ==
  ASSUME NEW lv, NEW l, NEW m, NEW m2, NEW m3, Becomes(lv, l, m, m2), Becomes(lv, l, m2, m3)
  PROVE  Becomes(lv, l, m, m3)
  BY DEF Becomes, OthersKept

LEMMA SizedStays ==
  ASSUME NEW lv, AreLoaves(lv), NEW l \in Loaves, NEW m, FitsSized(lv, l, m),
         NEW m2, Fits(lv, l, m2), Local(m, m2.hp), m2.lf.at # NULL => IsSized(m2.hp, m2.lf)
  PROVE  Becomes(lv, l, m, m2)
<1> DEFINE old == With(lv, l, m.lf)
           new == With(lv, l, m2.lf)
<1>1. /\ old[l] = m.lf /\ (\A k \in Loaves \ {l} : old[k] = lv[k])
      /\ new[l] = m2.lf /\ (\A k \in Loaves \ {l} : new[k] = lv[k])
  BY DEF With, AreLoaves
<1>2. Sized(m.hp, old) /\ LiteralsStand(m.hp) /\ Fits(lv, l, m)
  BY DEF FitsSized
<1> HIDE DEF old, new
<1>3. \A k \in Loaves \ {l} : new[k].at # NULL => IsSized(m2.hp, new[k])
  BY <1>1, <1>2, LocalKeeps DEF Sized, IsSized
<1>4. Sized(m2.hp, new)
  BY <1>1, <1>3 DEF Sized
<1>5. LiteralsStand(m2.hp)
  BY <1>2, LocalKeeps
<1>6. OthersKept(lv, l, m.hp, m2.hp)
  BY <1>2, LocalKeeps DEF OthersKept
<1> QED
  BY <1>4, <1>5, <1>6 DEF Becomes, FitsSized, new

(* What reads within a loaf or a literal.                                  *)
Reads(lv, s) ==
  /\ s.at # NULL /\ s.offset \in Nat /\ s.length \in Nat
  /\ \/ s.at \in DOMAIN Literals /\ s.offset + s.length < Len(Literals[s.at])
     \/ \E k \in Loaves : s.at = lv[k].at /\ s.offset + s.length <= lv[k].length

LEMMA TextFacts ==
  ASSUME NEW hp, NEW lv, Sized(hp, lv), LiteralsStand(hp), NEW s, Reads(lv, s)
  PROVE  /\ IsText(Text(hp, s), s.length)
         /\ \A i \in 1 .. s.length : Text(hp, s)[i] = Chars(hp, s)[s.offset + i]
<1>1. PICK n \in Nat : IsText(Chars(hp, s), n) /\ s.offset + s.length <= n
  <2>1. CASE s.at \in DOMAIN Literals /\ s.offset + s.length < Len(Literals[s.at])
    <3>1. Chars(hp, s) = Literals[s.at]
      BY <2>1, LiteralBlock DEF Chars, skit_slice_ptr, LiteralsStand
    <3>2. Literals[s.at] \in Seq(Nat)
      BY <2>1, LoafAssumption
    <3>3. IsText(Literals[s.at], Len(Literals[s.at])) /\ Len(Literals[s.at]) \in Nat
      BY <3>2, SeqText
    <3> QED
      BY <2>1, <3>1, <3>3 DEF Reads
  <2>2. ASSUME NEW k \in Loaves, s.at = lv[k].at, s.offset + s.length <= lv[k].length
        PROVE  \E n \in Nat : IsText(Chars(hp, s), n) /\ s.offset + s.length <= n
    <3>1. IsSized(hp, lv[k]) /\ Chars(hp, s) = Chars(hp, lv[k])
      BY <2>2 DEF Reads, Sized, Chars, skit_slice_ptr
    <3>2. lv[k].length + 1 \in Nat /\ s.offset + s.length <= lv[k].length + 1
      BY <2>2, <3>1 DEF IsSized, Reads
    <3> QED
      BY <3>1, <3>2 DEF IsSized
  <2> QED
    BY <2>1, <2>2 DEF Reads
<1>2. s.offset \in Nat /\ s.length \in Nat
  BY DEF Reads
<1>3. Text(hp, s) = SubSeq(Chars(hp, s), s.offset + 1, s.offset + s.length)
  BY DEF Text, Chars
<1> DEFINE c == Chars(hp, s)  first == s.offset  k == s.length  t == Text(hp, s)
<1> HIDE DEF c, first, k, t
<1>4. IsText(t, k) /\ \A i \in 1 .. k : t[i] = c[first + i]
  <2>1. t = SubSeq(c, first + 1, first + k) /\ first \in Nat /\ k \in Nat
        /\ IsText(c, n) /\ first + k <= n
    BY <1>1, <1>2, <1>3 DEF c, first, k, t
  <2> QED
    BY <2>1, SubText
<1> QED
  BY <1>4 DEF c, first, k, t

(***************************************************************************)
(* What the operations do to the characters.  Lengths are those that a     *)
(* slice can hold.                                                         *)
(***************************************************************************)
Counts == 0 .. META_LENGTH - 1

LEMMA LengthSet ==
  ASSUME NEW s, IsSlice(s), NEW n \in Counts
  PROVE  /\ skit_slice_set_length(s, n).length = n
         /\ skit_slice_set_length(s, n).offset = s.offset
         /\ skit_slice_set_length(s, n).at = s.at
<1>1. n % META_LENGTH = n
  BY DEF Counts, META_LENGTH
<1> QED
  BY <1>1, LengthFacts

LEMMA WriteSized ==
  ASSUME NEW lv, AreLoaves(lv), NEW l \in Loaves, NEW m, FitsSized(lv, l, m), m.lf.at # NULL,
         NEW pos \in Nat, NEW bytes, NEW k \in Nat, IsText(bytes, k),
         pos + k <= m.lf.length + 1, pos + k = m.lf.length + 1 /\ k > 0 => bytes[k] = NUL
  PROVE  /\ Becomes(lv, l, m, Write(m, pos, bytes)) /\ Write(m, pos, bytes).lf = m.lf
         /\ \A i \in 1 .. m.lf.length + 1 : Chars(Write(m, pos, bytes).hp, m.lf)[i] =
              IF pos < i /\ i <= pos + k THEN bytes[i - pos] ELSE Chars(m.hp, m.lf)[i]
<1> DEFINE p == skit_slice_ptr(m.hp, m.lf)
           c == m.hp[p].chars
           over == Overwrite(c, pos, bytes)
           block == [m.hp[p] EXCEPT !.chars = over]
           w == Write(m, pos, bytes)
           n == m.lf.length
<1>1. Fits(lv, l, m) /\ IsHeap(m.hp) /\ HasBlocks(m.hp, m.lf)
  BY WithFacts DEF FitsSized, Fits
<1>2. With(lv, l, m.lf)[l] = m.lf
  BY DEF With, AreLoaves
<1>3. IsSized(m.hp, m.lf)
  BY <1>2 DEF FitsSized, Sized
<1>4. n \in Nat /\ IsText(c, n + 1) /\ c[n + 1] = NUL
  BY <1>3 DEF IsSized, Chars
<1>5. p \in Places /\ IsBlock(m.hp[p]) /\ Owns(m.hp, m.lf, p)
  BY <1>1, AddressFacts DEF HasBlocks, skit_slice_ptr, IsHeap, Owns
<1>6. w = [hp |-> [m.hp EXCEPT ![p] = block], lf |-> m.lf]
  BY <1>1 DEF Write, Fits
<1>7. block.handle = m.hp[p].handle /\ block.chars = over
  <2> HIDE DEF over
  <2> QED
    BY <1>5 DEF IsBlock
<1>8. \A a \in Places : w.hp[a] = IF a = p THEN block ELSE m.hp[a]
  BY <1>1, <1>6 DEF IsHeap
<1>9. w.lf = m.lf
  BY <1>6
<1>10. /\ IsText(over, n + 1)
       /\ \A i \in 1 .. n + 1 : over[i] = IF pos < i /\ i <= pos + k THEN bytes[i - pos] ELSE c[i]
  <2> DEFINE o == n + 1
  <2>1. o \in Nat /\ IsText(c, o)
    BY <1>4
  <2> HIDE DEF c, o
  <2>2. Overwritten(over, c, o, pos, bytes, k)
    BY <2>1, OverwriteFacts
  <2> QED
    BY <2>2 DEF o, Overwritten
<1>11. Local(m, w.hp)
  BY <1>5, <1>8 DEF Local
<1>12. m.lf.at \in Places
  BY <1>1, AddressFacts DEF HasBlocks
<1>13. skit_slice_ptr(w.hp, m.lf) = p
  <2>1. w.hp[m.lf.at].handle = m.hp[m.lf.at].handle
    BY <1>7, <1>8, <1>12
  <2> QED
    BY <2>1 DEF skit_slice_ptr
<1>14. Chars(w.hp, m.lf) = over
  BY <1>5, <1>7, <1>8, <1>13 DEF Chars
<1>15. Fits(lv, l, w)
  BY <1>1, WriteFits
<1> HIDE DEF w, over, block, c, p
<1>16. over[n + 1] = NUL
  BY <1>4, <1>10
<1>17. IsSized(w.hp, w.lf)
  BY <1>3, <1>4, <1>9, <1>10, <1>14, <1>16 DEF IsSized
<1>18. Becomes(lv, l, m, w)
  BY <1>11, <1>15, <1>17, SizedStays
<1> QED
  BY <1>9, <1>10, <1>14, <1>18 DEF w, c, p, Chars

LEMMA EmplaceSized ==
  ASSUME NEW lv, AreLoaves(lv), NEW l \in Loaves, NEW m, FitsSized(lv, l, m), m.lf.at = NULL,
         NEW kind \in {"malloc", "user"}, NEW n \in Counts
  PROVE  LET fresh == skit_loaf_emplace_internal(m.hp, kind, n)
         IN  Becomes(lv, l, m, fresh) /\ fresh.lf.at # NULL /\ fresh.lf.length = n
<1> DEFINE at == NewAddress(m.hp, "block")
           chars == Junk(n) \o <<NUL>>
           block == [kind |-> kind, handle |-> NULL, chars |-> chars]
           hp2 == [m.hp EXCEPT ![at] = block]
           lf1 == [skit_loaf_null EXCEPT !.at = at]
           lf2 == skit_slice_set_length(lf1, n)
           old == With(lv, l, m.lf)
           fresh == skit_loaf_emplace_internal(m.hp, kind, n)
<1>1. Fits(lv, l, m) /\ IsHeap(m.hp)
  BY WithFacts DEF FitsSized, Fits
<1>2. old[l] = m.lf /\ Owned(m.hp, old)
  BY <1>1 DEF With, AreLoaves, Fits
<1>3. at \in Firsts /\ m.hp[at] = FREE
  <2> HIDE DEF old
  <2> QED
    BY <1>2, FirstIsFree
<1>4. at \in Places /\ at # NULL
  BY <1>3, AddressFacts
<1>5. fresh = [hp |-> hp2, lf |-> lf2]
  BY DEF skit_loaf_emplace_internal, skit_malloc
<1>6. \A a \in Places : hp2[a] = IF a = at THEN block ELSE m.hp[a]
  BY <1>1 DEF IsHeap
<1>7. lf2.at = at /\ lf2.offset = 0 /\ lf2.length = n
  <2>1. lf1 = [at |-> at, offset |-> 0, length |-> 0]
    BY DEF skit_loaf_null, skit_slice_null
  <2> HIDE DEF lf1, at
  <2>2. IsSlice(lf1) /\ lf1.at = at /\ lf1.offset = 0
    BY <2>1 DEF IsSlice
  <2> QED
    BY <2>2, LengthSet
<1>8. IsText(chars, n + 1) /\ chars[n + 1] = NUL /\ n \in Nat
  <2> DEFINE S == {JUNK, NUL}  j == Junk(n)
  <2>1. n \in Nat /\ j \in [1 .. n -> S]
    BY DEF Counts, META_LENGTH, Junk
  <2> HIDE DEF j, S
  <2>2. j \in Seq(S) /\ Len(j) = n
    BY <2>1
  <2>3. NUL \in S
    BY DEF S
  <2>4. j \o <<NUL>> \in Seq(S) /\ Len(j \o <<NUL>>) = n + 1 /\ (j \o <<NUL>>)[n + 1] = NUL
    BY <2>1, <2>2, <2>3
  <2>5. IsText(j \o <<NUL>>, n + 1)
    BY <2>4, SeqText
  <2> QED
    BY <2>1, <2>4, <2>5 DEF j
<1>9. block.handle = NULL /\ block.chars = chars
  OBVIOUS
<1>10. fresh.hp = hp2 /\ fresh.lf = lf2
  BY <1>5
<1>11. Fits(lv, l, fresh)
  BY <1>1, EmplaceFits
<1> HIDE DEF fresh, hp2, lf2, block, at, chars
<1>12. Local(m, fresh.hp)
  BY <1>3, <1>6, <1>10 DEF Local
<1>13. Chars(fresh.hp, fresh.lf) = chars
  BY <1>4, <1>6, <1>7, <1>9, <1>10 DEF Chars, skit_slice_ptr
<1>14. IsSized(fresh.hp, fresh.lf)
  BY <1>7, <1>8, <1>10, <1>13 DEF IsSized
<1>15. Becomes(lv, l, m, fresh)
  BY <1>11, <1>12, <1>14, SizedStays
<1> QED
  BY <1>4, <1>7, <1>10, <1>15 DEF fresh

(* A resized loaf r has length n and begins with what m had.               *)
Resized(m, r, n) ==
  /\ r.lf.at = m.lf.at /\ r.lf.length = n
  /\ \A i \in 1 .. n : i <= m.lf.length => Chars(r.hp, r.lf)[i] = Chars(m.hp, m.lf)[i]

LEMMA ResizeSized ==
  ASSUME NEW lv, AreLoaves(lv), NEW l \in Loaves, NEW m, FitsSized(lv, l, m), m.lf.at # NULL, NEW n \in Counts
  PROVE  Becomes(lv, l, m, skit_loaf_resize(m, n)) /\ Resized(m, skit_loaf_resize(m, n), n)
<1> DEFINE at == m.lf.at
           ptr == skit_slice_ptr(m.hp, m.lf)
           chars == m.hp[ptr].chars
           len == m.lf.length
           moves == ptr = at /\ len < n
           a2 == NewAddress(m.hp, "chars")
           text == SubSeq(chars, 1, len) \o <<NUL>>
           grown == Fit(text, n)
           fit == Fit(chars, n)
           short == [m.hp[ptr] EXCEPT !.chars = fit]
           second == [kind |-> "malloc", handle |-> NULL, chars |-> grown]
           first == [m.hp[at] EXCEPT !.handle = a2, !.chars = << >>]
           hp2 == [m.hp EXCEPT ![ptr] = short]
           hp3 == [[m.hp EXCEPT ![a2] = second] EXCEPT ![at] = [@ EXCEPT !.handle = a2, !.chars = << >>]]
           lf2 == skit_slice_set_length(m.lf, n)
           old == With(lv, l, m.lf)
           r == skit_loaf_resize(m, n)
<1>1. /\ IsSlice(m.lf) /\ IsHeap(m.hp) /\ HasBlocks(m.hp, m.lf) /\ Fits(lv, l, m)
  BY WithFacts DEF FitsSized, Fits
<1>2. old[l] = m.lf /\ Owned(m.hp, old)
  BY <1>1 DEF With, AreLoaves, Fits
<1>3. IsSized(m.hp, m.lf)
  BY <1>2 DEF FitsSized, Sized
<1>4. len \in Nat /\ IsText(chars, len + 1) /\ chars[len + 1] = NUL /\ n \in Nat
  BY <1>3 DEF IsSized, Chars, Counts
<1>5. lf2.at = at /\ lf2.offset = 0 /\ lf2.length = n
  BY <1>1, <1>3, LengthSet DEF IsSized
<1>6. r = [hp |-> IF ~moves THEN hp2 ELSE hp3, lf |-> lf2]
  BY DEF skit_loaf_resize, skit_malloc
<1>7. at \in Firsts /\ at \in Places /\ ptr \in Places /\ IsBlock(m.hp[ptr]) /\ IsBlock(m.hp[at])
      /\ Owns(m.hp, m.lf, ptr) /\ Owns(m.hp, m.lf, at)
  BY <1>1, AddressFacts DEF HasBlocks, skit_slice_ptr, IsHeap, Owns
<1>8. Fits(lv, l, r)
  <2>1. Fits(lv, l, m) /\ m.lf.at # NULL
    BY <1>1
  <2> QED
    BY ONLY AreLoaves(lv), <2>1, ResizeFits
<1>9. r.lf = lf2
  BY <1>6
<1>10. CASE ~ moves
  <2>1. r.hp = hp2
    BY <1>6, <1>10
  <2>2. short.handle = m.hp[ptr].handle /\ short.chars = fit
    <3> HIDE DEF fit
    <3> QED
      BY <1>7 DEF IsBlock
  <2>3. \A a \in Places : hp2[a] = IF a = ptr THEN short ELSE m.hp[a]
    BY <1>1 DEF IsHeap
  <2>4. /\ IsText(fit, n + 1) /\ fit[n + 1] = NUL
        /\ \A i \in 1 .. n : i <= len + 1 => fit[i] = chars[i]
    <3> DEFINE k == len + 1
    <3>1. k \in Nat /\ IsText(chars, k)
      BY <1>4
    <3> HIDE DEF chars, k
    <3>2. IsText(fit, n + 1) /\ fit[n + 1] = NUL /\ \A i \in 1 .. n : i <= k => fit[i] = chars[i]
      BY <1>4, <3>1, FitFacts
    <3> QED
      BY <3>2 DEF k
  <2> HIDE DEF r, hp2, short, fit, lf2
  <2>5. Local(m, r.hp)
    BY <1>7, <2>1, <2>3 DEF Local
  <2>6. skit_slice_ptr(r.hp, r.lf) = ptr
    <3>1. r.hp[at].handle = m.hp[at].handle
      BY <1>7, <2>1, <2>2, <2>3
    <3>2. r.lf.at = at
      BY <1>5, <1>9
    <3> QED
      BY <3>1, <3>2 DEF skit_slice_ptr
  <2>7. Chars(r.hp, r.lf) = fit
    BY <1>7, <2>1, <2>2, <2>3, <2>6 DEF Chars
  <2>8. IsSized(r.hp, r.lf)
    BY <1>4, <1>5, <1>9, <2>4, <2>7 DEF IsSized
  <2>9. Becomes(lv, l, m, r)
    BY <1>8, <2>5, <2>8, SizedStays
  <2>10. Resized(m, r, n)
    BY <1>4, <1>5, <1>9, <2>4, <2>7 DEF Resized, Chars
  <2> QED
    BY <2>9, <2>10 DEF r
<1>11. CASE moves
  <2>1. r.hp = hp3
    BY <1>6, <1>11
  <2>2. m.hp[at].handle = NULL
    BY <1>1, <1>11, AddressFacts DEF HasBlocks, skit_slice_ptr
  <2>3. a2 \in Seconds /\ m.hp[a2] = FREE
    <3>1. old[l].at # NULL /\ m.hp[old[l].at].handle = NULL
      BY <1>2, <2>2
    <3> HIDE DEF old
    <3> QED
      BY <1>2, <3>1, SecondIsFree
  <2>4. a2 # at /\ a2 \in Places /\ a2 # NULL
    BY <1>7, <2>3, AddressFacts
  <2>5. /\ hp3[at].handle = a2 /\ hp3[a2].chars = grown
        /\ \A a \in Places \ {at, a2} : hp3[a] = m.hp[a]
    <3> DEFINE hp1 == [m.hp EXCEPT ![a2] = second]
    <3>1. m.hp = [a \in Places |-> m.hp[a]]
      BY <1>1 DEF IsHeap
    <3> HIDE DEF a2, at
    <3>2. second.chars = grown
      OBVIOUS
    <3>3. first.handle = a2
      BY <1>7, BlockFacts
    <3> HIDE DEF second
    <3>4. hp1 = [a \in Places |-> hp1[a]] /\ \A a \in Places : hp1[a] = IF a = a2 THEN second ELSE m.hp[a]
      BY <2>4, <3>1
    <3>5. hp1[at] = m.hp[at]
      BY <1>7, <2>4, <3>4
    <3>6. hp3 = [hp1 EXCEPT ![at] = [hp1[at] EXCEPT !.handle = a2, !.chars = << >>]]
      BY Zenon
    <3>7. hp3 = [hp1 EXCEPT ![at] = first]
      BY <3>5, <3>6, Zenon
    <3> HIDE DEF hp1, first, hp3
    <3>8. \A a \in Places : hp3[a] = IF a = at THEN first ELSE hp1[a]
      BY <3>4, <3>7
    <3> QED
      BY <1>7, <2>4, <3>2, <3>3, <3>4, <3>8
  <2>6. /\ IsText(text, len + 1)
        /\ \A i \in 1 .. len : text[i] = chars[i]
    <3> DEFINE S == {chars[i] : i \in 1 .. len + 1}
    <3>1. chars \in Seq(S) /\ Len(chars) = len + 1 /\ NUL \in S
      <4> DEFINE k == len + 1
      <4>1. k \in Nat /\ IsText(chars, k) /\ chars[k] = NUL /\ k \in 1 .. k
        BY <1>4
      <4> HIDE DEF k, chars
      <4>2. chars \in Seq({chars[i] : i \in 1 .. k}) /\ Len(chars) = k /\ NUL \in {chars[i] : i \in 1 .. k}
        BY <4>1, TextSeq
      <4> QED
        BY <4>2 DEF k
    <3> DEFINE part == SubSeq(chars, 1, len)
    <3> HIDE DEF S, chars, len
    <3>2. part \in Seq(S) /\ Len(part) = len /\ \A i \in 1 .. len : part[i] = chars[i]
      BY <1>4, <3>1
    <3> HIDE DEF part
    <3>3. /\ part \o <<NUL>> \in Seq(S) /\ Len(part \o <<NUL>>) = len + 1
          /\ \A i \in 1 .. len : (part \o <<NUL>>)[i] = chars[i]
      BY <1>4, <3>1, <3>2
    <3>4. IsText(part \o <<NUL>>, len + 1)
      BY <3>3, SeqText
    <3> QED
      BY <3>3, <3>4 DEF part
  <2>7. /\ IsText(grown, n + 1) /\ grown[n + 1] = NUL
        /\ \A i \in 1 .. n : i <= len + 1 => grown[i] = text[i]
    <3> DEFINE k == len + 1
    <3>1. k \in Nat /\ IsText(text, k)
      BY <1>4, <2>6
    <3> HIDE DEF text, k
    <3>2. IsText(grown, n + 1) /\ grown[n + 1] = NUL /\ \A i \in 1 .. n : i <= k => grown[i] = text[i]
      BY <1>4, <3>1, FitFacts
    <3> QED
      BY <3>2 DEF k
  <2>8. \A i \in 1 .. n : i <= len => grown[i] = chars[i]
    <3> HIDE DEF grown, text, chars
    <3> SUFFICES ASSUME NEW i \in 1 .. n, i <= len PROVE grown[i] = chars[i]
      OBVIOUS
    <3>1. i \in 1 .. len /\ i <= len + 1
      BY <1>4
    <3> QED
      BY <2>6, <2>7, <3>1
  <2> HIDE DEF r, hp3, lf2, grown, text, a2, at
  <2>9. Local(m, r.hp)
    BY <1>7, <2>1, <2>3, <2>5 DEF Local
  <2>10. skit_slice_ptr(r.hp, r.lf) = a2
    BY <1>5, <1>9, <2>1, <2>4, <2>5 DEF skit_slice_ptr
  <2>11. Chars(r.hp, r.lf) = grown
    BY <2>1, <2>5, <2>10 DEF Chars
  <2>12. IsSized(r.hp, r.lf)
    BY <1>4, <1>5, <1>9, <2>7, <2>11 DEF IsSized
  <2>13. Becomes(lv, l, m, r)
    BY <1>8, <2>9, <2>12, SizedStays
  <2>14. Resized(m, r, n)
    BY <1>5, <1>9, <2>8, <2>11 DEF Resized, Chars, at
  <2> QED
    BY <2>13, <2>14 DEF r
<1> QED
  BY <1>10, <1>11

(***************************************************************************)
(* Texts.  A slice of the loaf or of another one reads the same after the  *)
(* loaf has grown, wherever its characters are then.                       *)
(***************************************************************************)
(* The loaf of m2 begins with the text of m's.                             *)
Continues(m, m2) ==
  m.lf.at # NULL =>
    /\ m2.lf.at = m.lf.at /\ m.lf.length <= m2.lf.length
    /\ \A i \in 1 .. m.lf.length : Chars(m2.hp, m2.lf)[i] = Chars(m.hp, m.lf)[i]

LEMMA SameText ==
  ASSUME NEW a, NEW b, NEW n, IsText(a, n), IsText(b, n), \A i \in 1 .. n : a[i] = b[i]
  PROVE  a = b
<1>1. [i \in 1 .. n |-> a[i]] = [i \in 1 .. n |-> b[i]]
  OBVIOUS
<1> QED
  BY <1>1 DEF IsText

LEMMA OwnText ==
  ASSUME NEW lv, AreLoaves(lv), NEW l \in Loaves, NEW m, FitsSized(lv, l, m), m.lf.at # NULL
  PROVE  /\ m.lf.length \in Nat /\ IsSized(m.hp, m.lf) /\ IsSlice(m.lf)
         /\ Reads(With(lv, l, m.lf), m.lf)
         /\ IsText(Text(m.hp, m.lf), m.lf.length)
         /\ \A i \in 1 .. m.lf.length : Text(m.hp, m.lf)[i] = Chars(m.hp, m.lf)[i]
<1> DEFINE old == With(lv, l, m.lf)
<1>1. old[l] = m.lf /\ Sized(m.hp, old) /\ LiteralsStand(m.hp) /\ IsSlice(m.lf)
  BY WithFacts DEF With, AreLoaves, FitsSized, Fits
<1> HIDE DEF old
<1>2. IsSized(m.hp, m.lf)
  BY <1>1 DEF Sized
<1>3. Reads(old, m.lf)
  BY <1>1, <1>2 DEF Reads, IsSized
<1>4. /\ IsText(Text(m.hp, m.lf), m.lf.length)
      /\ \A i \in 1 .. m.lf.length : Text(m.hp, m.lf)[i] = Chars(m.hp, m.lf)[m.lf.offset + i]
  BY <1>1, <1>3, TextFacts
<1> QED
  BY <1>1, <1>2, <1>3, <1>4 DEF old, IsSized

LEMMA ReadsStay ==
  ASSUME NEW lv, AreLoaves(lv), NEW l \in Loaves, NEW m, FitsSized(lv, l, m),
         NEW s, Reads(With(lv, l, m.lf), s), NEW m2, Becomes(lv, l, m, m2), Continues(m, m2)
  PROVE  /\ Reads(With(lv, l, m2.lf), s) /\ Text(m2.hp, s) = Text(m.hp, s)
         /\ IsText(Text(m.hp, s), s.length) /\ s.length \in Nat
<1> DEFINE old == With(lv, l, m.lf)
           new == With(lv, l, m2.lf)
<1>1. /\ old[l] = m.lf /\ (\A k \in Loaves \ {l} : old[k] = lv[k])
      /\ new[l] = m2.lf /\ (\A k \in Loaves \ {l} : new[k] = lv[k])
  BY DEF With, AreLoaves
<1>2. Sized(m.hp, old) /\ LiteralsStand(m.hp) /\ Sized(m2.hp, new) /\ LiteralsStand(m2.hp)
      /\ OthersKept(lv, l, m.hp, m2.hp)
  BY DEF FitsSized, Becomes
<1>3. Reads(old, s)
  OBVIOUS
<1> HIDE DEF old, new
<1>4. s.length \in Nat /\ s.offset \in Nat /\ s.at # NULL
  BY <1>3 DEF Reads
<1>5. m.lf.at # NULL => m.lf.length \in Nat /\ m2.lf.length \in Nat
  BY <1>1, <1>2 DEF Sized, IsSized, Continues
<1>6. Reads(new, s) /\ \A i \in 1 .. s.length : Chars(m2.hp, s)[s.offset + i] = Chars(m.hp, s)[s.offset + i]
  <2>1. CASE s.at \in DOMAIN Literals /\ s.offset + s.length < Len(Literals[s.at])
    <3>1. Chars(m.hp, s) = Literals[s.at] /\ Chars(m2.hp, s) = Literals[s.at]
      BY <1>2, <2>1, LiteralBlock DEF Chars, skit_slice_ptr, LiteralsStand
    <3> QED
      BY <1>4, <2>1, <3>1 DEF Reads
  <2>2. ASSUME NEW k \in Loaves, s.at = old[k].at, s.offset + s.length <= old[k].length
        PROVE  Reads(new, s)
               /\ \A i \in 1 .. s.length : Chars(m2.hp, s)[s.offset + i] = Chars(m.hp, s)[s.offset + i]
    <3>1. Chars(m.hp, s) = Chars(m.hp, old[k])
      BY <2>2 DEF Chars, skit_slice_ptr
    <3>2. CASE k # l
      <4>1. new[k] = old[k] /\ Chars(m2.hp, s) = Chars(m2.hp, new[k])
        BY <1>1, <2>2, <3>2 DEF Chars, skit_slice_ptr
      <4>2. Chars(m2.hp, s) = Chars(m.hp, s)
        BY <1>1, <1>2, <1>4, <2>2, <3>1, <3>2, <4>1 DEF OthersKept
      <4> QED
        BY <1>4, <2>2, <4>1, <4>2 DEF Reads
    <3>3. CASE k = l
      <4>1. m2.lf.at = s.at /\ m.lf.at = s.at /\ s.offset + s.length <= m.lf.length
            /\ m.lf.length <= m2.lf.length /\ new[k] = m2.lf
            /\ \A i \in 1 .. m.lf.length : Chars(m2.hp, m2.lf)[i] = Chars(m.hp, m.lf)[i]
        BY <1>1, <1>4, <2>2, <3>3 DEF Continues
      <4>2. Chars(m2.hp, s) = Chars(m2.hp, m2.lf) /\ Chars(m.hp, s) = Chars(m.hp, m.lf)
        BY <4>1 DEF Chars, skit_slice_ptr
      <4>3. \A i \in 1 .. s.length : s.offset + i \in 1 .. m.lf.length
        BY <1>4, <1>5, <4>1
      <4>4. s.offset + s.length <= m2.lf.length
        BY <1>4, <1>5, <4>1
      <4> QED
        BY <1>4, <4>1, <4>2, <4>3, <4>4 DEF Reads
    <3> QED
      BY <3>2, <3>3
  <2> QED
    BY <1>3, <2>1, <2>2 DEF Reads
<1>7. /\ IsText(Text(m.hp, s), s.length)
      /\ \A i \in 1 .. s.length : Text(m.hp, s)[i] = Chars(m.hp, s)[s.offset + i]
  BY <1>2, <1>3, TextFacts
<1>8. /\ IsText(Text(m2.hp, s), s.length)
      /\ \A i \in 1 .. s.length : Text(m2.hp, s)[i] = Chars(m2.hp, s)[s.offset + i]
  BY <1>2, <1>6, TextFacts
<1>9. Text(m2.hp, s) = Text(m.hp, s)
  BY <1>6, <1>7, <1>8, SameText
<1> QED
  BY <1>4, <1>6, <1>7, <1>9 DEF new

LEMMA Unchanged ==
  ASSUME NEW lv, NEW l, NEW m, FitsSized(lv, l, m), m.lf.length \in Nat
  PROVE  Becomes(lv, l, m, m) /\ Continues(m, m)
  BY DEF Becomes, OthersKept, Continues

(* c is b behind a.                                                        *)
Joined(c, a, n, b, k) ==
  /\ IsText(c, n + k)
  /\ \A i \in 1 .. n : c[i] = a[i]
  /\ \A i \in 1 .. k : c[n + i] = b[i]

LEMMA ConcatText ==
  ASSUME NEW a, NEW n \in Nat, IsText(a, n), NEW b, NEW k \in Nat, IsText(b, k)
  PROVE  Joined(a \o b, a, n, b, k)
<1> DEFINE S == {a[i] : i \in 1 .. n} \cup {b[i] : i \in 1 .. k}
<1>1. a \in [1 .. n -> S] /\ b \in [1 .. k -> S]
  BY DEF IsText
<1> HIDE DEF S
<1>2. a \in Seq(S) /\ Len(a) = n /\ b \in Seq(S) /\ Len(b) = k
  BY <1>1
<1>3. /\ a \o b \in Seq(S) /\ Len(a \o b) = n + k
      /\ \A i \in 1 .. n : (a \o b)[i] = a[i]
      /\ \A i \in 1 .. k : (a \o b)[n + i] = b[i]
  BY <1>2
<1> QED
  BY <1>3, SeqText DEF Joined

(* The text t of length k, written into r behind pos, gives w.             *)
Written(r, w, pos, t, k) ==
  /\ w.lf = r.lf
  /\ \A i \in 1 .. r.lf.length : Chars(w.hp, w.lf)[i] =
       IF pos < i /\ i <= pos + k THEN t[i - pos] ELSE Chars(r.hp, r.lf)[i]

(* Most calls make room and then copy what the source had before: it has   *)
(* the same text in the heap with room.                                    *)
LEMMA RoomThenWrite ==
  ASSUME NEW lv, AreLoaves(lv), NEW l \in Loaves, NEW m, FitsSized(lv, l, m),
         NEW r, Becomes(lv, l, m, r), Continues(m, r), r.lf.at # NULL,
         NEW s, Reads(With(lv, l, m.lf), s), NEW pos \in Nat, pos + s.length <= r.lf.length
  PROVE  /\ Text(r.hp, s) = Text(m.hp, s)
         /\ Becomes(lv, l, m, Write(r, pos, Text(m.hp, s)))
         /\ Written(r, Write(r, pos, Text(m.hp, s)), pos, Text(m.hp, s), s.length)
<1> DEFINE t == Text(m.hp, s)
           k == s.length
           w == Write(r, pos, t)
<1>1. Text(r.hp, s) = t /\ IsText(t, k) /\ k \in Nat
  BY ReadsStay
<1>2. FitsSized(lv, l, r)
  BY DEF Becomes
<1>3. r.lf.length \in Nat
  BY <1>2, OwnText
<1>4. pos + k <= r.lf.length + 1 /\ ~ (pos + k = r.lf.length + 1)
  BY <1>1, <1>3
<1> HIDE DEF t, k
<1>5. /\ Becomes(lv, l, r, w) /\ w.lf = r.lf
      /\ \A i \in 1 .. r.lf.length + 1 : Chars(w.hp, r.lf)[i] =
           IF pos < i /\ i <= pos + k THEN t[i - pos] ELSE Chars(r.hp, r.lf)[i]
  BY <1>1, <1>2, <1>4, WriteSized
<1> HIDE DEF w
<1>6. Written(r, w, pos, t, k)
  BY <1>3, <1>5 DEF Written
<1>7. Becomes(lv, l, m, w)
  BY <1>5, BecomesTwice
<1> QED
  BY <1>1, <1>6, <1>7 DEF w, t, k

LEMMA ResizedUp ==
  ASSUME NEW m, NEW r, NEW n \in Nat, m.lf.length \in Nat, Resized(m, r, n), m.lf.length <= n
  PROVE  Continues(m, r) /\ r.lf.at = m.lf.at /\ r.lf.length = n
  BY DEF Resized, Continues

LEMMA AppendSized ==
  ASSUME NEW lv, AreLoaves(lv), NEW l \in Loaves, NEW m, FitsSized(lv, l, m), m.lf.at # NULL,
         NEW s, Reads(With(lv, l, m.lf), s), m.lf.length + s.length \in Counts
  PROVE  LET a == skit_loaf_append(m, s)
         IN  /\ Becomes(lv, l, m, a) /\ Continues(m, a)
             /\ Text(a.hp, a.lf) = Text(m.hp, m.lf) \o Text(m.hp, s)
<1> DEFINE len == m.lf.length
           k == s.length
           n == len + k
           r == skit_loaf_resize(m, n)
           t == Text(m.hp, s)
           a == skit_loaf_append(m, s)
           w == Write(r, len, t)
           old == Text(m.hp, m.lf)
<1>1. /\ len \in Nat /\ IsText(old, len)
      /\ \A i \in 1 .. len : old[i] = Chars(m.hp, m.lf)[i]
  BY OwnText
<1>2. Becomes(lv, l, m, m) /\ Continues(m, m)
  BY <1>1, Unchanged
<1>3. k \in Nat /\ IsText(t, k) /\ n \in Nat /\ n \in Counts
  BY <1>1, <1>2, ReadsStay
<1>4. /\ IsText(old \o t, n)
      /\ \A i \in 1 .. len : (old \o t)[i] = old[i]
      /\ \A i \in 1 .. k : (old \o t)[len + i] = t[i]
  <2>1. len \in Nat /\ k \in Nat /\ IsText(old, len) /\ IsText(t, k) /\ n = len + k
    BY <1>1, <1>3
  <2> HIDE DEF len, k, t, old, n
  <2>2. Joined(old \o t, old, len, t, k)
    BY <2>1, ConcatText
  <2> QED
    BY <2>1, <2>2 DEF Joined
<1>5. CASE k = 0
  <2>1. a = m
    BY <1>5 DEF skit_loaf_append
  <2>2. old \o t = old
    <3>1. IsText(old \o t, len) /\ \A i \in 1 .. len : (old \o t)[i] = old[i]
      <4>1. n = len
        BY <1>1, <1>5
      <4> HIDE DEF old, t, n, len
      <4> QED
        BY <1>4, <4>1
    <3> DEFINE joined == old \o t
    <3> HIDE DEF joined, old, len
    <3>2. IsText(joined, len) /\ IsText(old, len) /\ \A i \in 1 .. len : joined[i] = old[i]
      BY <1>1, <3>1 DEF joined
    <3>3. joined = old
      BY <3>2, SameText
    <3> QED
      BY <3>3 DEF joined
  <2> QED
    BY <1>2, <2>1, <2>2
<1>6. CASE k # 0
  <2>1. Becomes(lv, l, m, r) /\ Resized(m, r, n)
    <3> HIDE DEF n
    <3> QED
      BY <1>3, ResizeSized
  <2> HIDE DEF r
  <2>2. Continues(m, r) /\ r.lf.at = m.lf.at /\ r.lf.length = n /\ len <= n
    BY <1>1, <1>3, <2>1, ResizedUp
  <2>3. len + s.length <= r.lf.length
    BY <1>1, <1>3, <2>2
  <2>4. Text(r.hp, s) = t /\ Becomes(lv, l, m, w) /\ Written(r, w, len, t, k)
    <3> HIDE DEF len
    <3> QED
      BY <1>1, <2>1, <2>2, <2>3, RoomThenWrite
  <2>5. a = w
    <3>1. a = Write(r, len, Text(r.hp, s))
      BY <1>6 DEF skit_loaf_append, r
    <3> QED
      BY <2>4, <3>1
  <2> HIDE DEF w, a, t, old
  <2>6. \A i \in 1 .. n : Chars(w.hp, w.lf)[i] = IF len < i THEN t[i - len] ELSE Chars(m.hp, m.lf)[i]
    <3> SUFFICES ASSUME NEW i \in 1 .. n
                 PROVE  Chars(w.hp, w.lf)[i] = IF len < i THEN t[i - len] ELSE Chars(m.hp, m.lf)[i]
      OBVIOUS
    <3>1. Chars(w.hp, w.lf)[i] = IF len < i THEN t[i - len] ELSE Chars(r.hp, r.lf)[i]
      BY <1>3, <2>2, <2>4 DEF Written
    <3>2. ~ (len < i) => i \in 1 .. len
      BY <1>1, <1>3
    <3> QED
      BY <2>2, <3>1, <3>2 DEF Continues
  <2>7. FitsSized(lv, l, w) /\ w.lf = r.lf
    BY <2>4 DEF Becomes, Written
  <2>8. /\ IsText(Text(w.hp, w.lf), n)
        /\ \A i \in 1 .. n : Text(w.hp, w.lf)[i] = Chars(w.hp, w.lf)[i]
    BY <2>2, <2>7, OwnText
  <2>9. \A i \in 1 .. n : Text(w.hp, w.lf)[i] = (old \o t)[i]
    <3> SUFFICES ASSUME NEW i \in 1 .. n PROVE Text(w.hp, w.lf)[i] = (old \o t)[i]
      OBVIOUS
    <3>1. CASE len < i
      <4>1. i - len \in 1 .. k /\ len + (i - len) = i
        BY <1>1, <1>3, <3>1
      <4> QED
        BY <1>4, <2>6, <2>8, <3>1, <4>1
    <3>2. CASE ~ (len < i)
      <4>1. i \in 1 .. len
        BY <1>1, <1>3, <3>2
      <4> QED
        BY <1>1, <1>4, <2>6, <2>8, <3>2, <4>1
    <3> QED
      BY <3>1, <3>2
  <2>10. Text(w.hp, w.lf) = old \o t
    BY <1>4, <2>8, <2>9, SameText
  <2>11. Continues(m, w)
    <3>1. \A i \in 1 .. len : Chars(w.hp, w.lf)[i] = Chars(m.hp, m.lf)[i]
      BY <1>1, <1>3, <2>6
    <3> QED
      BY <2>2, <2>7, <3>1 DEF Continues
  <2> QED
    BY <2>4, <2>5, <2>10, <2>11 DEF a, t, old
<1> QED
  BY <1>5, <1>6

(* What the calls that grow a loaf to n characters first make of it.       *)
HasRoom(lv, l, m, r, n) ==
  Becomes(lv, l, m, r) /\ Continues(m, r) /\ r.lf.at # NULL /\ n <= r.lf.length

LEMMA GrownHasRoom ==
  ASSUME NEW lv, AreLoaves(lv), NEW l \in Loaves, NEW m, FitsSized(lv, l, m), m.lf.at # NULL,
         NEW n \in Counts, m.lf.length <= n
  PROVE  /\ HasRoom(lv, l, m, skit_loaf_resize(m, n), n)
         /\ skit_loaf_resize(m, n).lf.length = n
<1> DEFINE r == skit_loaf_resize(m, n)
<1>1. Becomes(lv, l, m, r) /\ Resized(m, r, n)
  BY ResizeSized
<1>2. m.lf.length \in Nat /\ n \in Nat
  BY OwnText DEF Counts
<1> HIDE DEF r
<1>3. Continues(m, r) /\ r.lf.at = m.lf.at /\ r.lf.length = n
  BY <1>1, <1>2, ResizedUp
<1> QED
  BY <1>1, <1>2, <1>3 DEF HasRoom, r

LEMMA SameHasRoom ==
  ASSUME NEW lv, AreLoaves(lv), NEW l \in Loaves, NEW m, FitsSized(lv, l, m), m.lf.at # NULL,
         NEW n, n <= m.lf.length
  PROVE  HasRoom(lv, l, m, m, n)
  BY OwnText, Unchanged DEF HasRoom

LEMMA BufferedHasRoom ==
  ASSUME NEW lv, AreLoaves(lv), NEW l \in Loaves, NEW m, FitsSized(lv, l, m), m.lf.at # NULL,
         NEW s, NEW n, s.offset + n \in Nat, ((s.offset + n) * 3) \div 2 \in Counts
  PROVE  HasRoom(lv, l, m, skit_slice_buffered_resize(m, s, n), s.offset + n)
<1> DEFINE rbound == s.offset + n
           size == (rbound * 3) \div 2
           r == skit_slice_buffered_resize(m, s, n)
<1>1. m.lf.length \in Nat /\ rbound \in Nat /\ size \in Counts
  BY OwnText
<1>2. r = IF rbound > m.lf.length THEN skit_loaf_resize(m, size) ELSE m
  BY DEF skit_slice_buffered_resize
<1>3. rbound <= size /\ size \in Nat
  <2> HIDE DEF rbound
  <2> QED
    BY <1>1 DEF Counts
<1> HIDE DEF rbound, size, r
<1>4. CASE rbound > m.lf.length
  <2>1. m.lf.length <= size
    BY <1>1, <1>3, <1>4
  <2>2. HasRoom(lv, l, m, r, size) /\ r.lf.length = size
    BY <1>1, <1>2, <1>4, <2>1, GrownHasRoom
  <2> QED
    BY <1>3, <2>2 DEF HasRoom, r, rbound
<1>5. CASE ~ (rbound > m.lf.length)
  <2>1. r = m /\ rbound <= m.lf.length
    BY <1>1, <1>2, <1>5
  <2> QED
    BY <2>1, SameHasRoom DEF r, rbound
<1> QED
  BY <1>4, <1>5

LEMMA StoreHasRoom ==
  ASSUME NEW lv, AreLoaves(lv), NEW l \in Loaves, NEW m, FitsSized(lv, l, m), NEW n \in Counts
  PROVE  /\ HasRoom(lv, l, m, StoreRoom(m, n), n)
         /\ StoreRoom(m, n).lf.length = IF m.lf.at # NULL /\ n <= m.lf.length THEN m.lf.length ELSE n
<1> DEFINE kind == "malloc"
           r == StoreRoom(m, n)
           fresh == skit_loaf_emplace_internal(m.hp, kind, n)
<1>1. n \in Nat
  BY DEF Counts
<1>2. CASE m.lf.at = NULL
  <2>1. kind \in {"malloc", "user"}
    OBVIOUS
  <2>2. r = IF n > fresh.lf.length THEN skit_loaf_resize(fresh, n) ELSE fresh
    BY <1>2 DEF StoreRoom, skit_loaf_alloc, skit_slice_is_null
  <2> HIDE DEF kind, r, fresh
  <2>3. Becomes(lv, l, m, fresh) /\ fresh.lf.at # NULL /\ fresh.lf.length = n
    BY <1>2, <2>1, EmplaceSized DEF fresh
  <2>4. r = fresh
    BY <1>1, <2>2, <2>3
  <2> QED
    BY <1>1, <1>2, <2>3, <2>4 DEF HasRoom, Continues, r
<1>3. CASE m.lf.at # NULL
  <2>1. r = IF n > m.lf.length THEN skit_loaf_resize(m, n) ELSE m
    BY <1>3 DEF StoreRoom, skit_slice_is_null
  <2>2. m.lf.length \in Nat
    BY <1>3, OwnText
  <2> HIDE DEF r
  <2>3. CASE n > m.lf.length
    <3>1. m.lf.length <= n /\ ~ (n <= m.lf.length)
      BY <1>1, <2>2, <2>3
    <3>2. HasRoom(lv, l, m, r, n) /\ r.lf.length = n
      BY <1>3, <2>1, <2>3, <3>1, GrownHasRoom
    <3> QED
      BY <3>1, <3>2 DEF r
  <2>4. CASE ~ (n > m.lf.length)
    <3>1. n <= m.lf.length /\ r = m
      BY <1>1, <2>1, <2>2, <2>4
    <3> QED
      BY <1>3, <3>1, SameHasRoom DEF r
  <2> QED
    BY <2>3, <2>4
<1> QED
  BY <1>2, <1>3

(* The copies into the room: the suffix of a slice, and what is stored.    *)
LEMMA CopySized ==
  ASSUME NEW lv, AreLoaves(lv), NEW l \in Loaves, NEW m, FitsSized(lv, l, m),
         NEW s, Reads(With(lv, l, m.lf), s), NEW pos \in Nat, NEW r, HasRoom(lv, l, m, r, pos + s.length)
  PROVE  /\ Becomes(lv, l, m, Write(r, pos, Text(r.hp, s)))
         /\ Written(r, Write(r, pos, Text(r.hp, s)), pos, Text(m.hp, s), s.length)
<1>1. /\ Becomes(lv, l, m, r) /\ Continues(m, r) /\ r.lf.at # NULL /\ pos + s.length <= r.lf.length
  BY DEF HasRoom
<1>2. /\ Text(r.hp, s) = Text(m.hp, s)
      /\ Becomes(lv, l, m, Write(r, pos, Text(m.hp, s)))
      /\ Written(r, Write(r, pos, Text(m.hp, s)), pos, Text(m.hp, s), s.length)
  BY <1>1, RoomThenWrite
<1> QED
  BY <1>2

LEMMA BufferedAppendSized ==
  ASSUME NEW lv, AreLoaves(lv), NEW l \in Loaves, NEW m, FitsSized(lv, l, m), m.lf.at # NULL,
         NEW s, NEW suffix, Reads(With(lv, l, m.lf), suffix), s.offset \in Nat, s.length \in Nat,
         ((s.offset + (s.length + suffix.length)) * 3) \div 2 \in Counts
  PROVE  LET a == skit_slice_buffered_append(m, s, suffix)
             end == s.offset + s.length
         IN  /\ Becomes(lv, l, m, a)
             /\ \E r : /\ HasRoom(lv, l, m, r, end + suffix.length)
                       /\ Written(r, a, end, Text(m.hp, suffix), suffix.length)
<1> DEFINE n == s.length + suffix.length
           end == s.offset + s.length
           r == skit_slice_buffered_resize(m, s, n)
           a == skit_slice_buffered_append(m, s, suffix)
<1>1. suffix.length \in Nat
  BY DEF Reads
<1>2. s.offset + n = end + suffix.length /\ s.offset + n \in Nat /\ end \in Nat
  BY <1>1
<1>3. HasRoom(lv, l, m, r, end + suffix.length)
  <2>1. HasRoom(lv, l, m, r, s.offset + n)
    <3> HIDE DEF n
    <3>1. ((s.offset + n) * 3) \div 2 \in Counts
      BY DEF n
    <3> QED
      BY <1>2, <3>1, BufferedHasRoom
  <2> QED
    BY <1>2, <2>1
<1>4. a = Write(r, end, Text(r.hp, suffix))
  BY DEF skit_slice_buffered_append
<1> HIDE DEF r, a, end
<1>5. Becomes(lv, l, m, a) /\ Written(r, a, end, Text(m.hp, suffix), suffix.length)
  BY <1>2, <1>3, <1>4, CopySized
<1> QED
  BY <1>3, <1>5 DEF a, end

LEMMA StoreSliceSized ==
  ASSUME NEW lv, AreLoaves(lv), NEW l \in Loaves, NEW m, FitsSized(lv, l, m),
         NEW s, Reads(With(lv, l, m.lf), s), s.length \in Counts
  PROVE  LET stored == skit_loaf_store_slice(m, s)
             room == StoreRoom(m, s.length)
         IN  /\ Becomes(lv, l, m, stored) /\ stored.lf.at # NULL /\ stored.lf = room.lf
             /\ Written(room, stored, 0, Text(m.hp, s), s.length)
<1> DEFINE n == s.length
           pos == 0
           room == StoreRoom(m, n)
           stored == skit_loaf_store_slice(m, s)
<1>1. s.at # NULL /\ n \in Nat
  BY DEF Reads
<1>2. stored = Write(room, pos, Text(room.hp, s))
  BY <1>1 DEF skit_loaf_store_slice, skit_slice_is_null
<1>3. HasRoom(lv, l, m, room, pos + n)
  <2>1. pos + n = n
    BY <1>1
  <2>2. HasRoom(lv, l, m, room, n)
    <3> HIDE DEF n
    <3> QED
      BY StoreHasRoom DEF n
  <2> QED
    BY <2>1, <2>2
<1>4. pos \in Nat
  OBVIOUS
<1> HIDE DEF room, stored, pos
<1>5. Becomes(lv, l, m, stored) /\ Written(room, stored, pos, Text(m.hp, s), n)
  BY <1>2, <1>3, <1>4, CopySized
<1> QED
  BY <1>3, <1>5 DEF room, stored, pos, Written, HasRoom

LEMMA SourceText ==
  ASSUME NEW lv, NEW l \in Loaves, NEW m, FitsSized(lv, l, m), NEW s, Reads(With(lv, l, m.lf), s)
  PROVE  IsText(Text(m.hp, s), s.length) /\ s.length \in Nat /\ s.offset \in Nat /\ s.at # NULL
<1> DEFINE all == With(lv, l, m.lf)
<1>1. Sized(m.hp, all) /\ LiteralsStand(m.hp) /\ Reads(all, s)
  BY DEF FitsSized
<1> HIDE DEF all
<1> QED
  BY <1>1, TextFacts DEF Reads

(* c is a with the null byte behind it.                                    *)
Ended(c, a, n) == IsText(c, n + 1) /\ c[n + 1] = NUL /\ \A i \in 1 .. n : c[i] = a[i]

LEMMA TerminatedText ==
  ASSUME NEW a, NEW n \in Nat, IsText(a, n)
  PROVE  Ended(Append(a, NUL), a, n)
<1> DEFINE S == {a[i] : i \in 1 .. n} \cup {NUL}
<1>1. a \in [1 .. n -> S] /\ NUL \in S
  BY DEF IsText
<1> HIDE DEF S
<1>2. a \in Seq(S) /\ Len(a) = n
  BY <1>1
<1>3. /\ Append(a, NUL) \in Seq(S) /\ Len(Append(a, NUL)) = n + 1
      /\ \A i \in 1 .. n : Append(a, NUL)[i] = a[i]
      /\ Append(a, NUL)[n + 1] = NUL
  BY <1>1, <1>2
<1>4. IsText(Append(a, NUL), n + 1)
  BY <1>3, SeqText
<1> QED
  BY <1>3, <1>4 DEF Ended

LEMMA StoreCstrSized ==
  ASSUME NEW lv, AreLoaves(lv), NEW l \in Loaves, NEW m, FitsSized(lv, l, m),
         NEW s, Reads(With(lv, l, m.lf), s), s.length \in Counts
  PROVE  LET stored == skit_loaf_store_cstr(m, s)
         IN  Becomes(lv, l, m, stored) /\ stored.lf.at # NULL /\ s.length <= stored.lf.length
<1> DEFINE n == s.length
           pos == 0
           t == Text(m.hp, s)
           bytes == Append(t, NUL)
           k == n + 1
           room == StoreRoom(m, n)
           stored == skit_loaf_store_cstr(m, s)
<1>1. s.at # NULL /\ n \in Nat /\ IsText(t, n) /\ k \in Nat
  BY SourceText
<1>2. stored = Write(room, pos, bytes)
  BY <1>1 DEF skit_loaf_store_cstr, skit_slice_is_null
<1>3. HasRoom(lv, l, m, room, n)
  <2> HIDE DEF n
  <2> QED
    BY StoreHasRoom DEF n
<1> HIDE DEF room, stored
<1>4. IsText(bytes, k) /\ bytes[k] = NUL
  <2> HIDE DEF t, n
  <2>1. Ended(Append(t, NUL), t, n)
    BY <1>1, TerminatedText
  <2> QED
    BY <2>1 DEF Ended
<1>5. FitsSized(lv, l, room) /\ room.lf.at # NULL /\ n <= room.lf.length
  BY <1>3 DEF HasRoom, Becomes
<1>6. pos \in Nat /\ pos + k <= room.lf.length + 1
  <2>1. room.lf.length \in Nat
    BY <1>5, OwnText
  <2> QED
    BY <1>1, <1>5, <2>1
<1> HIDE DEF pos, k, bytes, n
<1>7. Becomes(lv, l, room, stored) /\ stored.lf = room.lf
  BY <1>1, <1>2, <1>4, <1>5, <1>6, WriteSized
<1>8. Becomes(lv, l, m, stored)
  BY <1>3, <1>7, BecomesTwice DEF HasRoom
<1> QED
  BY <1>5, <1>7, <1>8 DEF stored, n

(* A freed loaf: a block of the caller's may be left over.                 *)
Loose(lv, l, m) ==
  Released(m.hp, With(lv, l, m.lf)) /\ Sized(m.hp, With(lv, l, m.lf)) /\ LiteralsStand(m.hp)
Leaves(lv, l, m, m2) == Loose(lv, l, m2) /\ OthersKept(lv, l, m.hp, m2.hp)

LEMMA BecomesLeaves ==
  ASSUME NEW lv, NEW l \in Loaves, NEW m, NEW m2, Becomes(lv, l, m, m2)
  PROVE  Leaves(lv, l, m, m2)
  BY FitsReleases DEF Becomes, FitsSized, Leaves, Loose

LEMMA FreeLeaves ==
  ASSUME NEW lv, AreLoaves(lv), NEW l \in Loaves, NEW m, FitsSized(lv, l, m), m.lf.at # NULL
  PROVE  Leaves(lv, l, m, skit_loaf_free(m)) /\ skit_loaf_free(m).lf = skit_loaf_null
<1> DEFINE freed == skit_loaf_free(m)
           old == With(lv, l, m.lf)
           new == With(lv, l, freed.lf)
<1>1. Fits(lv, l, m) /\ Sized(m.hp, old) /\ LiteralsStand(m.hp)
  BY DEF FitsSized
<1>2. Released(freed.hp, new) /\ Local(m, freed.hp) /\ freed.lf = skit_loaf_null
  BY <1>1, FreeReleases
<1>3. /\ old[l] = m.lf /\ (\A k \in Loaves \ {l} : old[k] = lv[k])
      /\ new[l] = freed.lf /\ (\A k \in Loaves \ {l} : new[k] = lv[k])
  BY DEF With, AreLoaves
<1>4. freed.lf.at = NULL
  BY <1>2 DEF skit_loaf_null, skit_slice_null
<1> HIDE DEF freed, old, new
<1>5. \A k \in Loaves \ {l} : new[k].at # NULL => IsSized(freed.hp, new[k])
  BY <1>1, <1>2, <1>3, LocalKeeps DEF Sized, IsSized
<1>6. Sized(freed.hp, new)
  BY <1>3, <1>4, <1>5 DEF Sized
<1>7. LiteralsStand(freed.hp) /\ OthersKept(lv, l, m.hp, freed.hp)
  BY <1>1, <1>2, LocalKeeps DEF OthersKept
<1> QED
  BY <1>2, <1>6, <1>7 DEF Leaves, Loose, freed, new

LEMMA AssignedNull ==
  ASSUME NEW lv, AreLoaves(lv), NEW l \in Loaves, NEW m, FitsSized(lv, l, m), NEW stored,
         NEW s, s.at = NULL
  PROVE  Leaves(lv, l, m, Assigned(m, stored, s))
<1>1. Assigned(m, stored, s) = IF m.lf.at = NULL THEN m ELSE skit_loaf_free(m)
  BY DEF Assigned, skit_slice_is_null
<1>2. Leaves(lv, l, m, m)
  BY BecomesLeaves DEF Becomes, OthersKept
<1> QED
  BY <1>1, <1>2, FreeLeaves

LEMMA AssignedSized ==
  ASSUME NEW lv, AreLoaves(lv), NEW l \in Loaves, NEW m, NEW stored, Becomes(lv, l, m, stored),
         stored.lf.at # NULL, NEW s, s.at # NULL, s.length \in Counts, s.length <= stored.lf.length
  PROVE  Becomes(lv, l, m, Assigned(m, stored, s)) /\ Resized(stored, Assigned(m, stored, s), s.length)
<1> DEFINE n == s.length
           a == Assigned(m, stored, s)
           r == skit_loaf_resize(stored, n)
<1>1. a = IF n < stored.lf.length THEN r ELSE stored
  BY DEF Assigned, skit_slice_is_null
<1>2. FitsSized(lv, l, stored)
  BY DEF Becomes
<1>3. Becomes(lv, l, stored, r) /\ Resized(stored, r, n)
  <2>1. n \in Counts
    OBVIOUS
  <2> HIDE DEF n
  <2> QED
    BY <1>2, <2>1, ResizeSized
<1>4. stored.lf.length \in Nat /\ n \in Nat
  BY <1>2, OwnText DEF Counts
<1> HIDE DEF r, a
<1>5. CASE n < stored.lf.length
  <2>1. Becomes(lv, l, m, r)
    BY <1>3, BecomesTwice
  <2> QED
    BY <1>1, <1>3, <1>5, <2>1 DEF a
<1>6. CASE ~ (n < stored.lf.length)
  <2>1. n = stored.lf.length /\ a = stored
    BY <1>1, <1>4, <1>6
  <2>2. Resized(stored, stored, n)
    BY <2>1 DEF Resized
  <2> QED
    BY <2>1, <2>2 DEF a
<1> QED
  BY <1>5, <1>6

LEMMA AllocSized ==
  ASSUME NEW lv, AreLoaves(lv), NEW l \in Loaves, NEW m, FitsSized(lv, l, m), m.lf.at = NULL, NEW n \in Counts
  PROVE  LET fresh == skit_loaf_alloc(m.hp, n)
         IN  Becomes(lv, l, m, fresh) /\ fresh.lf.at # NULL /\ fresh.lf.length = n
<1> DEFINE kind == "malloc"
           fresh == skit_loaf_alloc(m.hp, n)
<1>1. fresh = skit_loaf_emplace_internal(m.hp, kind, n) /\ kind \in {"malloc", "user"}
  BY DEF skit_loaf_alloc
<1> HIDE DEF kind, fresh
<1>2. Becomes(lv, l, m, fresh) /\ fresh.lf.at # NULL /\ fresh.lf.length = n
  BY <1>1, EmplaceSized
<1> QED
  BY <1>2 DEF fresh

(* A text copied to pos, where the loaf has place for it.                  *)
LEMMA PlacedSized ==
  ASSUME NEW lv, AreLoaves(lv), NEW l \in Loaves, NEW m, NEW r, Becomes(lv, l, m, r), r.lf.at # NULL,
         NEW pos \in Nat, NEW t, NEW k \in Nat, IsText(t, k), pos + k <= r.lf.length
  PROVE  Becomes(lv, l, m, Write(r, pos, t)) /\ Write(r, pos, t).lf = r.lf
<1>1. FitsSized(lv, l, r)
  BY DEF Becomes
<1>2. r.lf.length \in Nat
  BY <1>1, OwnText
<1>3. pos + k <= r.lf.length + 1 /\ ~ (pos + k = r.lf.length + 1)
  BY <1>2
<1>4. Becomes(lv, l, r, Write(r, pos, t)) /\ Write(r, pos, t).lf = r.lf
  BY <1>1, <1>3, WriteSized
<1> QED
  BY <1>4, BecomesTwice

LEMMA ConcatSized ==
  ASSUME NEW lv, AreLoaves(lv), NEW l \in Loaves, NEW m, FitsSized(lv, l, m), m.lf.at = NULL,
         NEW s, Reads(With(lv, l, m.lf), s), NEW t, Reads(With(lv, l, m.lf), t), s.length + t.length \in Counts
  PROVE  Becomes(lv, l, m, skit_slice_concat(m.hp, s, t))
<1> DEFINE n == s.length + t.length
           fresh == skit_loaf_alloc(m.hp, n)
           pos == 0
           bytes == Text(m.hp, s)
           first == Write(fresh, pos, bytes)
           k == s.length
           k2 == t.length
           bytes2 == Text(m.hp, t)
<1>1. skit_slice_concat(m.hp, s, t) = Write(first, k, bytes2)
  BY DEF skit_slice_concat
<1>2. k \in Nat /\ k2 \in Nat /\ IsText(bytes, k) /\ IsText(bytes2, k2)
  BY SourceText
<1>3. n = k + k2 /\ n \in Counts /\ pos \in Nat /\ pos + k <= n
  BY <1>2
<1>4. Becomes(lv, l, m, fresh) /\ fresh.lf.at # NULL /\ fresh.lf.length = n
  <2> HIDE DEF n
  <2> QED
    BY <1>3, AllocSized
<1> HIDE DEF n, fresh, pos, bytes, k, k2, bytes2, first
<1>5. Becomes(lv, l, m, first) /\ first.lf = fresh.lf
  BY <1>2, <1>3, <1>4, PlacedSized DEF first
<1>6. Becomes(lv, l, m, Write(first, k, bytes2))
  BY <1>2, <1>3, <1>4, <1>5, PlacedSized
<1> QED
  BY <1>1, <1>6

LEMMA DupSized ==
  ASSUME NEW lv, AreLoaves(lv), NEW l \in Loaves, NEW m, FitsSized(lv, l, m), m.lf.at = NULL,
         NEW s, Reads(With(lv, l, m.lf), s), s.length \in Counts
  PROVE  Becomes(lv, l, m, skit_loaf_dup(m.hp, s))
<1> DEFINE n == s.length
           fresh == skit_loaf_alloc(m.hp, n)
           pos == 0
           bytes == Text(m.hp, s)
<1>1. skit_loaf_dup(m.hp, s) = Write(fresh, pos, bytes)
  BY DEF skit_loaf_dup
<1>2. n \in Nat /\ IsText(bytes, n) /\ n \in Counts /\ pos \in Nat /\ pos + n <= n
  BY SourceText
<1>3. Becomes(lv, l, m, fresh) /\ fresh.lf.at # NULL /\ fresh.lf.length = n
  <2> HIDE DEF n
  <2> QED
    BY <1>2, AllocSized
<1> HIDE DEF n, fresh, pos, bytes
<1> QED
  BY <1>1, <1>2, <1>3, PlacedSized

LEMMA CopyCstrSized ==
  ASSUME NEW lv, AreLoaves(lv), NEW l \in Loaves, NEW m, FitsSized(lv, l, m), m.lf.at = NULL,
         NEW s, s.at \in DOMAIN Literals, s.offset \in Nat, s.length \in Counts,
         s.offset + s.length < Len(Literals[s.at])
  PROVE  Becomes(lv, l, m, skit_loaf_copy_cstr(m.hp, s))
<1> DEFINE n == s.length
           fresh == skit_loaf_alloc(m.hp, n)
           copy == skit_loaf_copy_cstr(m.hp, s)
<1>1. copy = skit_loaf_store_cstr(fresh, s)
  BY DEF skit_loaf_copy_cstr
<1>2. Becomes(lv, l, m, fresh) /\ fresh.lf.at # NULL
  <2>1. n \in Counts
    OBVIOUS
  <2> HIDE DEF n
  <2> QED
    BY <2>1, AllocSized
<1>3. FitsSized(lv, l, fresh)
  BY <1>2 DEF Becomes
<1> HIDE DEF fresh, copy, n
<1>4. Reads(With(lv, l, fresh.lf), s)
  BY LiteralFacts DEF Reads, Counts
<1>5. Becomes(lv, l, fresh, copy)
  BY <1>1, <1>3, <1>4, StoreCstrSized
<1>6. Becomes(lv, l, m, copy)
  BY <1>2, <1>5, BecomesTwice
<1> QED
  BY <1>6 DEF copy

-----------------------------------------------------------------------------
(* The end of a call.                                                      *)
LEMMA FramesSized ==
  ASSUME NEW hp, NEW lv, Released(hp, lv), Sized(hp, lv), LiteralsStand(hp)
  PROVE  Sized(FramesGone(hp, lv), lv) /\ LiteralsStand(FramesGone(hp, lv))
<1> DEFINE hp2 == FramesGone(hp, lv)
<1>1. \A a \in Places : hp2[a] = IF hp[a].kind = "user" /\ \A l \in Loaves : lv[l].at # a
                                 THEN FREE ELSE hp[a]
  BY DEF FramesGone
<1> HIDE DEF hp2
<1>2. \A c \in DOMAIN Literals : hp2[c] = hp[c]
  <2> SUFFICES ASSUME NEW c \in DOMAIN Literals PROVE hp2[c] = hp[c]
    OBVIOUS
  <2>1. hp[c].kind = "literal"
    BY LiteralBlock DEF LiteralsStand
  <2> QED
    BY <1>1, <2>1, LiteralFacts
<1>3. ASSUME NEW l \in Loaves, lv[l].at # NULL
      PROVE  Chars(hp2, lv[l]) = Chars(hp, lv[l])
  <2>1. HasBlocks(hp, lv[l])
    BY <1>3 DEF Released, Separate
  <2>2. lv[l].at \in Places /\ hp2[lv[l].at] = hp[lv[l].at]
    BY <1>1, <2>1, AddressFacts DEF HasBlocks
  <2>3. hp[lv[l].at].handle # NULL => hp2[hp[lv[l].at].handle] = hp[hp[lv[l].at].handle]
    BY <1>1, <2>1, AddressFacts DEF HasBlocks
  <2> QED
    BY <2>2, <2>3 DEF Chars, skit_slice_ptr
<1>4. Sized(hp2, lv)
  BY <1>3 DEF Sized, IsSized
<1>5. LiteralsStand(hp2)
  BY <1>2 DEF LiteralsStand, IsLiteral
<1> QED
  BY <1>4, <1>5 DEF hp2

(* The caller's slice reads within a loaf.                                 *)
IsCount(s) == IsSlice(s) /\ s.at # NULL /\ s.offset \in Nat /\ s.length \in Nat
Holds(lv, s) ==
  IsCount(s) /\ \E k \in Loaves : s.at = lv[k].at /\ s.offset + s.length <= lv[k].length

(***************************************************************************)
(* What holds of the state between calls: all blocks have their owner and  *)
(* the size their loaf says, nobody wrote to a literal, and the slice that *)
(* the caller kept lies in a loaf.                                         *)
(***************************************************************************)
Settled ==
  /\ Owned(heap, loaf) /\ Sized(heap, loaf) /\ LiteralsStand(heap)
  /\ \A l \in Loaves : loaf[l].length <= MaxLength
  /\ slice = skit_slice_null \/ Holds(loaf, slice)
  /\ stride \in Strides

LEMMA KeepSettles ==
  ASSUME Settled, NEW l \in Loaves, NEW m, Loose(loaf, l, m), Keep(l, m),
         NEW s, s = skit_slice_null \/ IsCount(s), Kept(s)
  PROVE  Settled'
<1>1. Owned(heap, loaf) /\ stride \in Strides /\ Released(m.hp, With(loaf, l, m.lf))
  BY DEF Settled, Loose
<1>2. Owned(heap', loaf')
  BY <1>1, KeepOwns
<1>3. DOMAIN heap = Places
  BY <1>1 DEF Owned, Separate, IsHeap
<1>4. loaf' = With(loaf, l, m.lf) /\ heap' = FramesGone(m.hp, loaf')
  BY <1>3 DEF Keep, With, FramesGone
<1>5. Sized(heap', loaf') /\ LiteralsStand(heap')
  <2>1. Released(m.hp, loaf') /\ Sized(m.hp, loaf') /\ LiteralsStand(m.hp)
    BY <1>1, <1>4 DEF Loose
  <2> HIDE DEF Keep
  <2> QED
    BY ONLY <1>4, <2>1, FramesSized
<1>6. stride' = stride /\ \A k \in Loaves : loaf'[k].length <= MaxLength
  BY DEF Keep, Bounded
<1>7. slice' = skit_slice_null \/ Holds(loaf', slice')
  BY DEF Kept, Holds
<1> QED
  BY <1>1, <1>2, <1>5, <1>6, <1>7 DEF Settled

(***************************************************************************)
(* A length has 28 bits.  What the calls compute is the sum of two         *)
(* lengths, and half as much again; it fits if no text has 2^26 bytes.  Of *)
(* longer ones no property here holds: a length that wraps says less than  *)
(* what is there, and the null byte is not where it says.                  *)
(***************************************************************************)
Small(n) == n \in Nat /\ 4 * n < META_LENGTH
NoWrap ==
  /\ Small(MaxLength) /\ \A size \in Strides : Small(size)
  /\ \A c \in DOMAIN Literals : Small(Len(Literals[c]))

LEMMA SmallSums ==
  ASSUME NEW a, Small(a), NEW b, Small(b)
  PROVE  a \in Counts /\ a + b \in Counts /\ ((a + b) * 3) \div 2 \in Counts
  BY DEF Small, Counts, META_LENGTH

LEMMA SmallerIsSmall ==
  ASSUME NEW a, Small(a), NEW b \in Nat, b <= a
  PROVE  Small(b)
  BY DEF Small, META_LENGTH

LEMMA LengthsAreSmall ==
  ASSUME NoWrap, stride \in Strides, NEW n \in Lengths
  PROVE  Small(n)
<1>1. PICK i \in 0 .. MaxLength \div stride : n = i * stride
  BY DEF Lengths
<1>2. stride \in Nat /\ stride > 0 /\ MaxLength \in Nat
  BY LoafAssumption
<1>3. i * stride \in Nat /\ i * stride <= MaxLength
  <2> DEFINE q == MaxLength \div stride
  <2>1. q \in Nat /\ q * stride <= MaxLength
    BY <1>2
  <2>2. i \in Nat /\ i <= q
    BY <2>1
  <2> HIDE DEF q
  <2>3. i * stride <= q * stride
    BY <1>2, <2>1, <2>2
  <2> QED
    BY <1>2, <2>1, <2>2, <2>3
<1> QED
  BY <1>1, <1>3, SmallerIsSmall DEF NoWrap

LEMMA LoavesAreSmall ==
  ASSUME NoWrap, Settled, NEW l \in Loaves, loaf[l].at # NULL
  PROVE  IsCount(loaf[l]) /\ Small(loaf[l].length) /\ Reads(loaf, loaf[l])
<1>1. loaf[l].offset = 0 /\ loaf[l].length \in Nat /\ loaf[l].length <= MaxLength /\ IsSlice(loaf[l])
  BY DEF Settled, Sized, IsSized, Owned, Separate, AreLoaves
<1>2. Small(loaf[l].length)
  BY <1>1, SmallerIsSmall DEF NoWrap
<1>3. loaf[l].offset + loaf[l].length <= loaf[l].length
  BY <1>1
<1> QED
  BY <1>1, <1>2, <1>3 DEF IsCount, Reads

LEMMA HeldIsSmall ==
  ASSUME NoWrap, Settled, NEW s, Holds(loaf, s)
  PROVE  Reads(loaf, s) /\ Small(s.offset + s.length) /\ Small(s.length)
<1>1. PICK k \in Loaves : s.at = loaf[k].at /\ s.offset + s.length <= loaf[k].length
  BY DEF Holds
<1>2. s.at # NULL /\ s.offset \in Nat /\ s.length \in Nat
  BY DEF Holds, IsCount
<1>3. loaf[k].length \in Nat /\ Small(loaf[k].length)
  BY <1>1, <1>2, LoavesAreSmall DEF IsCount
<1>4. s.offset + s.length \in Nat /\ s.length <= loaf[k].length
  BY <1>1, <1>2, <1>3
<1> QED
  BY <1>1, <1>2, <1>3, <1>4, SmallerIsSmall DEF Reads

LEMMA LiteralsAreSmall ==
  ASSUME NoWrap, NEW s \in LiteralSlices
  PROVE  /\ IsCount(s) /\ Small(s.length) /\ s.at \in DOMAIN Literals /\ Reads(loaf, s)
         /\ s.offset + s.length < Len(Literals[s.at])
<1>1. PICK c \in DOMAIN Literals : s = LiteralSlice(c)
  BY DEF LiteralSlices
<1> DEFINE n == Len(Literals[c]) - 1
           first == [skit_slice_null EXCEPT !.at = c]
<1>2. Literals[c] \in Seq(Nat) /\ Literals[c] # << >> /\ c # NULL
  BY LoafAssumption, LiteralFacts
<1>3. n \in Nat /\ Small(n) /\ n < Len(Literals[c])
  <2> DEFINE k == Len(Literals[c])
  <2>1. k \in Nat /\ k # 0 /\ Small(k)
    BY <1>2 DEF NoWrap
  <2> HIDE DEF k
  <2>2. k - 1 \in Nat /\ k - 1 <= k /\ k - 1 < k
    BY <2>1
  <2>3. Small(k - 1)
    BY <2>1, <2>2, SmallerIsSmall
  <2> QED
    BY <2>2, <2>3 DEF k
<1>4. IsSlice(first) /\ first.at = c /\ first.offset = 0
  <2>1. first = [at |-> c, offset |-> 0, length |-> 0]
    BY DEF skit_slice_null
  <2> HIDE DEF first
  <2> QED
    BY <2>1 DEF IsSlice
<1>5. s = skit_slice_set_length(first, n)
  BY <1>1 DEF LiteralSlice
<1>6. n \in Counts
  BY <1>3, SmallSums
<1> HIDE DEF n, first
<1>7. s.at = c /\ s.offset = 0 /\ s.length = n /\ IsSlice(s)
  BY <1>4, <1>5, <1>6, LengthSet, LengthFacts
<1>8. s.offset + s.length < Len(Literals[c])
  BY <1>3, <1>7
<1> QED
  BY <1>2, <1>3, <1>7, <1>8 DEF IsCount, Reads

LEMMA SourcesAreSmall ==
  ASSUME NoWrap, Settled, NEW s \in Sources
  PROVE  Reads(loaf, s) /\ Small(s.length) /\ IsCount(s)
<1>1. CASE s \in LiteralSlices
  BY <1>1, LiteralsAreSmall
<1>2. CASE s \in {loaf[l] : l \in Live}
  BY <1>2, LoavesAreSmall DEF Live, skit_slice_is_null
<1>3. CASE s = slice /\ slice # skit_slice_null
  BY <1>3, HeldIsSmall DEF Settled, Holds
<1> QED
  BY <1>1, <1>2, <1>3 DEF Sources, LoafSlices

LEMMA SetLengthCounts ==
  ASSUME NEW s, IsCount(s), NEW n \in Int
  PROVE  IsCount(skit_slice_set_length(s, n))
<1>1. n % META_LENGTH \in Nat
  BY DEF META_LENGTH
<1> QED
  BY <1>1, LengthFacts DEF IsCount

LEMMA SliceOfCounts ==
  ASSUME NEW s, IsCount(s), NEW i \in Int, NEW j \in Int
  PROVE  IsCount(skit_slice_of(s, i, j))
<1> DEFINE first == FromEnd(s, i)
           last == IF j = SKIT_EOT THEN s.length ELSE FromEnd(s, j)
           n == last - first
           o == first + s.offset
           t == skit_slice_set_length(s, n)
<1>1. first \in Int /\ last \in Int /\ n \in Int /\ o \in Int
  BY DEF IsCount, FromEnd
<1>2. skit_slice_of(s, i, j) = skit_slice_set_offset(t, o)
  BY DEF skit_slice_of
<1> HIDE DEF n, o
<1>3. IsCount(t)
  BY <1>1, SetLengthCounts
<1> DEFINE x == o % META_OFFSET
<1>4. x \in Nat
  BY <1>1 DEF META_OFFSET
<1>5. skit_slice_set_offset(t, o) = [t EXCEPT !.offset = x]
  BY DEF skit_slice_set_offset
<1> HIDE DEF t, x
<1>6. [t EXCEPT !.offset = x] = [at |-> t.at, offset |-> x, length |-> t.length]
  BY <1>3 DEF IsCount, IsSlice
<1> QED
  BY <1>2, <1>3, <1>4, <1>5, <1>6 DEF IsCount, IsSlice

LEMMA PairSized ==
  ASSUME Settled, NEW l \in Loaves
  PROVE  /\ AreLoaves(loaf) /\ FitsSized(loaf, l, Pair(l)) /\ With(loaf, l, Pair(l).lf) = loaf
         /\ Pair(l).lf = loaf[l] /\ Pair(l).hp = heap
<1>1. Owned(heap, loaf) /\ Sized(heap, loaf) /\ LiteralsStand(heap)
  BY DEF Settled
<1>2. AreLoaves(loaf) /\ Fits(loaf, l, Pair(l)) /\ Pair(l).lf = loaf[l] /\ Pair(l).hp = heap
  BY <1>1, PairFits
<1>3. With(loaf, l, loaf[l]) = loaf
  BY <1>2 DEF With, AreLoaves
<1> QED
  BY <1>1, <1>2, <1>3 DEF FitsSized

LEMMA CallSettles ==
  ASSUME Settled, NEW l \in Loaves, NEW m, Becomes(loaf, l, Pair(l), m), Keep(l, m),
         NEW s, s = skit_slice_null \/ IsCount(s), Kept(s)
  PROVE  Settled'
  BY BecomesLeaves, KeepSettles DEF Leaves

LEMMA SliceCounts ==
  ASSUME Settled
  PROVE  /\ slice = skit_slice_null \/ IsCount(slice)
         /\ \A l \in Loaves : IsSliceOf(slice, l) => Holds(loaf, slice) /\ loaf[l].at # NULL /\ IsCount(slice)
<1>1. skit_slice_null.at = NULL
  BY DEF skit_slice_null
<1> QED
  BY <1>1 DEF Settled, Holds, IsSliceOf, Live, skit_slice_is_null

LEMMA OwnCounts ==
  ASSUME NEW lv, AreLoaves(lv), NEW l \in Loaves, NEW m, FitsSized(lv, l, m), m.lf.at # NULL
  PROVE  IsCount(m.lf)
  BY OwnText DEF IsCount, IsSized

LEMMA StoredSlice ==
  ASSUME NEW lv, AreLoaves(lv), NEW l \in Loaves, NEW m, FitsSized(lv, l, m), m.lf.at # NULL, NEW n \in Nat
  PROVE  IsCount(skit_slice_of(m.lf, 0, n))
<1> DEFINE zero == 0
<1>1. zero \in Int /\ n \in Int /\ IsCount(m.lf)
  BY OwnCounts
<1> HIDE DEF zero
<1>2. IsCount(skit_slice_of(m.lf, zero, n))
  BY <1>1, SliceOfCounts
<1> QED
  BY <1>2 DEF zero

(* The bytes a filter writes are as many as it read.                       *)
LEMMA BytesText == ASSUME NEW e, NEW n, NEW size PROVE IsText(Bytes(e, n, size), n)
  BY DEF IsText, Bytes

LEMMA InitSettled == ASSUME Init PROVE Settled
<1>1. Owned(heap, loaf) /\ stride \in Strides /\ slice = skit_slice_null
  BY InitOwns DEF Init
<1>2. \A l \in Loaves : loaf[l].at = NULL /\ loaf[l].length = 0
  BY DEF Init, skit_loaf_null, skit_slice_null
<1>3. LiteralsStand(heap)
  BY LiteralFacts DEF Init, LiteralsStand, IsLiteral
<1> QED
  BY <1>1, <1>2, <1>3, LoafAssumption DEF Settled, Sized

LEMMA GrowingSettles ==
  ASSUME NoWrap, Settled, NEW l \in Loaves
  PROVE  /\ \A n : Small(n) /\ Resize(l, n) => Settled'
         /\ \A n : Small(n) /\ BufferedResize(l, n) => Settled'
         /\ BufferedNewElement(l) => Settled'
         /\ \A suffix \in Sources : AppendTo(l, suffix) \/ BufferedAppend(l, suffix) => Settled'
<1>1. AreLoaves(loaf) /\ FitsSized(loaf, l, Pair(l)) /\ With(loaf, l, Pair(l).lf) = loaf
      /\ Pair(l).lf = loaf[l] /\ Pair(l).hp = heap
  BY PairSized
<1>2. l \in Live => loaf[l].at # NULL
  BY DEF Live, skit_slice_is_null
<1>3. ASSUME NEW n, Small(n), Resize(l, n)
      PROVE  Settled'
  <2>1. n \in Counts
    BY <1>3, SmallSums
  <2>2. loaf[l].at # NULL /\ Keep(l, skit_loaf_resize(Pair(l), n)) /\ Kept(slice)
    BY <1>2, <1>3 DEF Resize
  <2>3. Becomes(loaf, l, Pair(l), skit_loaf_resize(Pair(l), n))
    BY <1>1, <2>1, <2>2, ResizeSized
  <2> QED
    BY <2>2, <2>3, CallSettles, SliceCounts
<1>4. ASSUME NEW n \in Nat, IsSliceOf(slice, l),
             ((slice.offset + n) * 3) \div 2 \in Counts, BufferedResize(l, n)
      PROVE  Settled'
  <2> DEFINE r == skit_slice_buffered_resize(Pair(l), slice, n)
  <2>1. Keep(l, r) /\ Kept(skit_slice_set_length(slice, n))
    BY <1>4 DEF BufferedResize
  <2>2. loaf[l].at # NULL /\ IsCount(slice)
    BY <1>4, SliceCounts
  <2>3. slice.offset + n \in Nat
    BY <2>2 DEF IsCount
  <2>4. HasRoom(loaf, l, Pair(l), r, slice.offset + n)
    BY <1>1, <1>4, <2>2, <2>3, BufferedHasRoom
  <2>5. IsCount(skit_slice_set_length(slice, n))
    BY <2>2, SetLengthCounts
  <2> HIDE DEF r
  <2> QED
    BY <2>1, <2>4, <2>5, CallSettles DEF HasRoom
<1>5. ASSUME NEW n, Small(n), BufferedResize(l, n)
      PROVE  Settled'
  <2>1. IsSliceOf(slice, l)
    BY <1>5 DEF BufferedResize
  <2>2. IsCount(slice) /\ Small(slice.offset + slice.length)
    BY <2>1, SliceCounts, HeldIsSmall
  <2>3. Small(slice.offset) /\ n \in Nat
    BY <1>5, <2>2, SmallerIsSmall DEF IsCount, Small
  <2>4. ((slice.offset + n) * 3) \div 2 \in Counts
    <3> DEFINE o == slice.offset
    <3> HIDE DEF o
    <3>1. ((o + n) * 3) \div 2 \in Counts
      BY <1>5, <2>3, SmallSums DEF o
    <3> QED
      BY <3>1 DEF o
  <2> QED
    BY <1>4, <1>5, <2>1, <2>3, <2>4
<1>6. ASSUME BufferedNewElement(l)
      PROVE  Settled'
  <2> DEFINE n == slice.length + stride
             end == slice.offset + slice.length
  <2>1. BufferedResize(l, n)
    BY <1>6 DEF BufferedNewElement
  <2>2. IsSliceOf(slice, l)
    BY <2>1 DEF BufferedResize
  <2>3. IsCount(slice) /\ Small(end)
    BY <2>2, SliceCounts, HeldIsSmall
  <2>4. Small(stride)
    BY DEF Settled, NoWrap
  <2>5. n \in Nat /\ slice.offset + n = end + stride
    BY <2>3, <2>4 DEF IsCount, Small
  <2> HIDE DEF n, end
  <2>6. ((end + stride) * 3) \div 2 \in Counts
    BY <2>3, <2>4, SmallSums
  <2> QED
    BY <1>4, <2>1, <2>2, <2>5, <2>6
<1>7. ASSUME NEW suffix \in Sources, AppendTo(l, suffix)
      PROVE  Settled'
  <2> DEFINE a == skit_loaf_append(Pair(l), suffix)
  <2>1. loaf[l].at # NULL /\ Keep(l, a) /\ Kept(slice)
    BY <1>2, <1>7 DEF AppendTo
  <2>2. Reads(loaf, suffix) /\ Small(suffix.length) /\ Small(loaf[l].length)
    BY <2>1, SourcesAreSmall, LoavesAreSmall
  <2>3. loaf[l].length + suffix.length \in Counts
    BY <2>2, SmallSums
  <2>4. Becomes(loaf, l, Pair(l), a)
    BY <1>1, <2>1, <2>2, <2>3, AppendSized
  <2> HIDE DEF a
  <2> QED
    BY <2>1, <2>4, CallSettles, SliceCounts
<1>8. ASSUME NEW suffix \in Sources, BufferedAppend(l, suffix)
      PROVE  Settled'
  <2> DEFINE a == skit_slice_buffered_append(Pair(l), slice, suffix)
             n == slice.length + suffix.length
             end == slice.offset + slice.length
             k == suffix.length
  <2>1. IsSliceOf(slice, l) /\ Keep(l, a) /\ Kept(skit_slice_set_length(slice, n))
    BY <1>8 DEF BufferedAppend
  <2>2. IsCount(slice) /\ Small(end) /\ loaf[l].at # NULL
    BY <2>1, SliceCounts, HeldIsSmall
  <2>3. Reads(loaf, suffix) /\ Small(k)
    BY SourcesAreSmall
  <2>4. n \in Nat /\ slice.offset + n = end + k /\ slice.offset \in Nat /\ slice.length \in Nat
    BY <2>2, <2>3 DEF IsCount, Small
  <2>5. ((slice.offset + n) * 3) \div 2 \in Counts
    <3> HIDE DEF n, end, k
    <3>1. ((end + k) * 3) \div 2 \in Counts
      BY <2>2, <2>3, SmallSums
    <3> QED
      BY <2>4, <3>1
  <2>6. Becomes(loaf, l, Pair(l), a)
    BY <1>1, <2>2, <2>3, <2>4, <2>5, BufferedAppendSized
  <2>7. IsCount(skit_slice_set_length(slice, n))
    BY <2>2, <2>4, SetLengthCounts
  <2> HIDE DEF a, n
  <2> QED
    BY <2>1, <2>6, <2>7, CallSettles
<1> QED
  BY <1>3, <1>5, <1>6, <1>7, <1>8

LEMMA NewSettles ==
  ASSUME NoWrap, Settled, NEW l \in Loaves
  PROVE  /\ Alloc(l) \/ Emplace(l) => Settled'
         /\ \A cstr \in LiteralSlices : CopyCstr(l, cstr) => Settled'
         /\ \A src \in Sources : Dup(l, src) => Settled'
         /\ \A src \in Sources, src2 \in Sources : Concat(l, src, src2) => Settled'
<1>1. AreLoaves(loaf) /\ FitsSized(loaf, l, Pair(l)) /\ With(loaf, l, Pair(l).lf) = loaf
      /\ Pair(l).lf = loaf[l] /\ Pair(l).hp = heap
  BY PairSized
<1>2. l \notin Live => loaf[l].at = NULL
  BY DEF Live, skit_slice_is_null
<1>3. stride \in Strides
  BY DEF Settled
<1>4. ASSUME NEW kind \in {"malloc", "user"}, NEW n \in Lengths, l \notin Live,
             Keep(l, skit_loaf_emplace_internal(heap, kind, n)), Kept(slice)
      PROVE  Settled'
  <2>1. n \in Counts
    BY <1>3, LengthsAreSmall, SmallSums
  <2>2. Becomes(loaf, l, Pair(l), skit_loaf_emplace_internal(heap, kind, n))
    BY <1>1, <1>2, <1>4, <2>1, EmplaceSized
  <2> QED
    BY <1>4, <2>2, CallSettles, SliceCounts
<1>5. ASSUME Alloc(l) \/ Emplace(l)
      PROVE  Settled'
  <2>1. PICK kind \in {"malloc", "user"}, n \in Lengths :
          l \notin Live /\ Keep(l, skit_loaf_emplace_internal(heap, kind, n)) /\ Kept(slice)
    BY <1>5 DEF Alloc, Emplace, skit_loaf_alloc, skit_loaf_emplace
  <2> QED
    BY <1>4, <2>1
<1>6. ASSUME NEW cstr \in LiteralSlices, CopyCstr(l, cstr)
      PROVE  Settled'
  <2>1. loaf[l].at = NULL /\ Keep(l, skit_loaf_copy_cstr(heap, cstr)) /\ Kept(slice)
    BY <1>2, <1>6 DEF CopyCstr
  <2>2. /\ cstr.at \in DOMAIN Literals /\ cstr.offset \in Nat /\ cstr.length \in Counts
        /\ cstr.offset + cstr.length < Len(Literals[cstr.at])
    BY LiteralsAreSmall, SmallSums DEF IsCount
  <2>3. Becomes(loaf, l, Pair(l), skit_loaf_copy_cstr(heap, cstr))
    BY <1>1, <2>1, <2>2, CopyCstrSized
  <2> QED
    BY <2>1, <2>3, CallSettles, SliceCounts
<1>7. ASSUME NEW src \in Sources, Dup(l, src)
      PROVE  Settled'
  <2>1. loaf[l].at = NULL /\ Keep(l, skit_loaf_dup(heap, src)) /\ Kept(slice)
    BY <1>2, <1>7 DEF Dup
  <2>2. Reads(loaf, src) /\ src.length \in Counts
    BY SourcesAreSmall, SmallSums
  <2>3. Becomes(loaf, l, Pair(l), skit_loaf_dup(heap, src))
    BY <1>1, <2>1, <2>2, DupSized
  <2> QED
    BY <2>1, <2>3, CallSettles, SliceCounts
<1>8. ASSUME NEW src \in Sources, NEW src2 \in Sources, Concat(l, src, src2)
      PROVE  Settled'
  <2>1. loaf[l].at = NULL /\ Keep(l, skit_slice_concat(heap, src, src2)) /\ Kept(slice)
    BY <1>2, <1>8 DEF Concat
  <2>2. Reads(loaf, src) /\ Reads(loaf, src2) /\ src.length + src2.length \in Counts
    BY SourcesAreSmall, SmallSums
  <2>3. Becomes(loaf, l, Pair(l), skit_slice_concat(heap, src, src2))
    BY <1>1, <2>1, <2>2, ConcatSized
  <2> QED
    BY <2>1, <2>3, CallSettles, SliceCounts
<1> QED
  BY <1>5, <1>6, <1>7, <1>8

(* What is stored or assigned; the argument may be NULL.                   *)
LEMMA StoringSettles ==
  ASSUME NoWrap, Settled, NEW l \in Loaves
  PROVE  /\ \A s \in Sources \cup {skit_slice_null} : StoreSlice(l, s) \/ AssignSlice(l, s) => Settled'
         /\ \A s \in LiteralSlices \cup {skit_slice_null} : StoreCstr(l, s) \/ AssignCstr(l, s) => Settled'
<1> DEFINE p == Pair(l)
<1>1. AreLoaves(loaf) /\ FitsSized(loaf, l, p) /\ With(loaf, l, p.lf) = loaf
  BY PairSized
<1>2. skit_slice_null.at = NULL
  BY DEF skit_slice_null
<1> HIDE DEF p
<1>3. ASSUME NEW s, s = skit_slice_null, NEW m, m = p \/ m = Assigned(p, p, s), Stored(l, s, m)
      PROVE  Settled'
  <2>1. Leaves(loaf, l, p, m)
    <3>1. Leaves(loaf, l, p, p)
      BY <1>1, BecomesLeaves DEF Becomes, OthersKept
    <3>2. Leaves(loaf, l, p, Assigned(p, p, s))
      BY <1>1, <1>2, <1>3, AssignedNull
    <3> QED
      BY <1>3, <3>1, <3>2
  <2>2. Keep(l, m) /\ Kept(s)
    BY <1>2, <1>3 DEF Stored, skit_slice_is_null
  <2> QED
    BY <1>3, <2>1, <2>2, KeepSettles DEF Leaves
<1>4. ASSUME NEW s, s.at # NULL, s.length \in Nat, NEW m, Becomes(loaf, l, p, m), m.lf.at # NULL, Stored(l, s, m)
      PROVE  Settled'
  <2>1. Keep(l, m) /\ Kept(skit_slice_of(m.lf, 0, s.length))
    BY <1>4 DEF Stored, skit_slice_is_null
  <2>2. IsCount(skit_slice_of(m.lf, 0, s.length))
    <3> DEFINE n == s.length
    <3>1. FitsSized(loaf, l, m) /\ n \in Nat
      BY <1>4 DEF Becomes
    <3> HIDE DEF n
    <3>2. IsCount(skit_slice_of(m.lf, 0, n))
      BY <1>1, <1>4, <3>1, StoredSlice
    <3> QED
      BY <3>2 DEF n
  <2>3. Becomes(loaf, l, Pair(l), m)
    BY <1>4 DEF p
  <2> QED
    BY <2>1, <2>2, <2>3, CallSettles
<1>5. ASSUME NEW s, Reads(loaf, s), Small(s.length), NEW stored, stored.lf.at # NULL,
             Becomes(loaf, l, p, stored), s.length <= stored.lf.length,
             Stored(l, s, stored) \/ Stored(l, s, Assigned(p, stored, s))
      PROVE  Settled'
  <2> DEFINE a == Assigned(p, stored, s)
  <2>1. s.at # NULL /\ s.length \in Nat /\ s.length \in Counts
    BY <1>5, SmallSums DEF Reads
  <2>2. Becomes(loaf, l, p, a) /\ Resized(stored, a, s.length)
    BY <1>1, <1>5, <2>1, AssignedSized
  <2> HIDE DEF a
  <2>3. a.lf.at # NULL
    BY <1>5, <2>2 DEF Resized
  <2> QED
    BY <1>4, <1>5, <2>1, <2>2, <2>3 DEF a
<1>6. ASSUME NEW s \in Sources, StoreSlice(l, s) \/ AssignSlice(l, s)
      PROVE  Settled'
  <2> DEFINE stored == skit_loaf_store_slice(p, s)
             room == StoreRoom(p, s.length)
  <2>1. Reads(loaf, s) /\ Small(s.length) /\ s.length \in Counts
    BY SourcesAreSmall, SmallSums
  <2>2. Becomes(loaf, l, p, stored) /\ stored.lf.at # NULL /\ stored.lf = room.lf
    BY <1>1, <2>1, StoreSliceSized
  <2>3. s.length <= stored.lf.length
    <3> DEFINE n == s.length
    <3>1. n \in Counts
      BY <2>1
    <3> HIDE DEF n
    <3>2. HasRoom(loaf, l, p, StoreRoom(p, n), n)
      BY <1>1, <3>1, StoreHasRoom
    <3> QED
      BY <2>2, <3>2 DEF n, HasRoom
  <2>4. Stored(l, s, stored) \/ Stored(l, s, Assigned(p, stored, s))
    BY <1>6 DEF StoreSlice, AssignSlice, skit_loaf_assign_slice, p
  <2> HIDE DEF stored
  <2> QED
    BY <1>5, <2>1, <2>2, <2>3, <2>4
<1>7. ASSUME NEW s \in LiteralSlices, StoreCstr(l, s) \/ AssignCstr(l, s)
      PROVE  Settled'
  <2> DEFINE stored == skit_loaf_store_cstr(p, s)
  <2>1. Reads(loaf, s) /\ Small(s.length) /\ s.length \in Counts
    BY LiteralsAreSmall, SmallSums
  <2>2. Becomes(loaf, l, p, stored) /\ stored.lf.at # NULL /\ s.length <= stored.lf.length
    BY <1>1, <2>1, StoreCstrSized
  <2>3. Stored(l, s, stored) \/ Stored(l, s, Assigned(p, stored, s))
    BY <1>7 DEF StoreCstr, AssignCstr, skit_loaf_assign_cstr, p
  <2> HIDE DEF stored
  <2> QED
    BY <1>5, <2>1, <2>2, <2>3
<1>8. ASSUME NEW s, s = skit_slice_null,
             StoreSlice(l, s) \/ AssignSlice(l, s) \/ StoreCstr(l, s) \/ AssignCstr(l, s)
      PROVE  Settled'
  <2>1. skit_loaf_store_slice(p, s) = p /\ skit_loaf_store_cstr(p, s) = p
    BY <1>2, <1>8 DEF skit_loaf_store_slice, skit_loaf_store_cstr, skit_slice_is_null
  <2>2. Stored(l, s, p) \/ Stored(l, s, Assigned(p, p, s))
    BY <1>8, <2>1 DEF StoreSlice, AssignSlice, StoreCstr, AssignCstr, skit_loaf_assign_slice,
                      skit_loaf_assign_cstr, p
  <2> QED
    BY <1>3, <1>8, <2>2
<1> QED
  BY <1>6, <1>7, <1>8

LEMMA OtherCallsSettle ==
  ASSUME NoWrap, Settled, NEW l \in Loaves
  PROVE  /\ \A elem : Filter(l, elem) => Settled'
         /\ Free(l) => Settled'
<1>1. AreLoaves(loaf) /\ FitsSized(loaf, l, Pair(l)) /\ Pair(l).lf = loaf[l]
  BY PairSized
<1>2. ASSUME NEW elem, Filter(l, elem)
      PROVE  Settled'
  <2> DEFINE pos == 0
             k == slice.length
  <2>1. Len(Text(heap, slice)) \div stride \in Int
    <3>1. IsSliceOf(slice, l)
      BY <1>2 DEF Filter
    <3>2. Holds(loaf, slice)
      BY <3>1, SliceCounts
    <3>3. Sized(heap, loaf) /\ LiteralsStand(heap) /\ Reads(loaf, slice) /\ k \in Nat
      BY <3>2, HeldIsSmall DEF Settled, Holds, IsCount
    <3>4. IsText(Text(heap, slice), k)
      BY <3>3, TextFacts
    <3> DEFINE t == Text(heap, slice)
    <3> HIDE DEF t, k
    <3>5. Len(t) = k
      BY <3>3, <3>4, TextSeq DEF t
    <3>6. stride \in Nat /\ stride > 0
      BY LoafAssumption DEF Settled
    <3> QED
      BY <3>3, <3>5, <3>6 DEF t
  <2>2. PICK e, n : /\ IsSliceOf(slice, l) /\ Keep(l, Write(Pair(l), pos, Bytes(e, k, stride)))
                    /\ Kept(skit_slice_of(slice, 0, n)) /\ n \in Int
    <3> DEFINE elements == Elements(Text(heap, slice), stride)
               kept == ToSet(elements) \ {Text(heap, elem)}
               count == Len(Text(heap, slice)) \div stride
               filtered == slice_bfd_filter(elements, kept)
    <3>1. /\ IsSliceOf(slice, l) /\ Keep(l, Write(Pair(l), pos, Bytes(filtered.e, k, stride)))
          /\ Kept(skit_slice_of(slice, 0, filtered.n * stride))
      BY <1>2 DEF Filter
    <3>2. filtered.n \in Nat
      <4> DEFINE S == {i \in DOMAIN elements : elements[i] \in kept}
      <4>1. filtered.n = Cardinality(S)
        BY DEF slice_bfd_filter
      <4>2. DOMAIN elements = 1 .. count /\ count \in Int
        BY <2>1 DEF Elements
      <4> HIDE DEF elements, kept, filtered
      <4>3. S \subseteq 1 .. count /\ IsFiniteSet(1 .. count)
        BY <4>2, FS_Interval
      <4> HIDE DEF S
      <4> QED
        BY <4>1, <4>3, FS_Subset, FS_CardinalityType
    <3>3. filtered.n * stride \in Int
      <4>1. stride \in Nat
        BY LoafAssumption DEF Settled
      <4> HIDE DEF filtered
      <4> QED
        BY <3>2, <4>1
    <3> DEFINE bytes == filtered.e
               n == filtered.n * stride
    <3> HIDE DEF bytes, n
    <3>4. IsSliceOf(slice, l) /\ Keep(l, Write(Pair(l), pos, Bytes(bytes, k, stride)))
          /\ Kept(skit_slice_of(slice, 0, n)) /\ n \in Int
      BY <3>1, <3>3 DEF bytes, n
    <3> QED
      BY <3>4
  <2>3. IsCount(slice) /\ loaf[l].at # NULL /\ k \in Nat /\ k <= loaf[l].length
    <3>1. IsCount(slice) /\ loaf[l].at # NULL /\ slice.offset + slice.length <= loaf[l].length
      BY <2>2, SliceCounts DEF IsSliceOf
    <3>2. loaf[l].length \in Nat
      BY <3>1, LoavesAreSmall DEF IsCount
    <3> QED
      BY <3>1, <3>2 DEF IsCount
  <2> DEFINE w == Write(Pair(l), pos, Bytes(e, k, stride))
  <2>4. Becomes(loaf, l, Pair(l), w)
    <3>1. Becomes(loaf, l, Pair(l), Pair(l))
      BY <1>1 DEF Becomes, OthersKept
    <3>2. pos \in Nat /\ pos + k <= loaf[l].length
      BY <2>3
    <3> HIDE DEF pos, k
    <3>3. IsText(Bytes(e, k, stride), k)
      BY BytesText
    <3> QED
      BY <1>1, <2>3, <3>1, <3>2, <3>3, PlacedSized
  <2>5. IsCount(skit_slice_of(slice, 0, n))
    <3> DEFINE zero == 0
    <3>1. zero \in Int /\ n \in Int
      BY <2>2
    <3> HIDE DEF zero
    <3>2. IsCount(skit_slice_of(slice, zero, n))
      BY <2>3, <3>1, SliceOfCounts
    <3> QED
      BY <3>2 DEF zero
  <2> HIDE DEF w
  <2> QED
    BY <2>2, <2>4, <2>5, CallSettles DEF w
<1>3. ASSUME Free(l)
      PROVE  Settled'
  <2>1. loaf[l].at # NULL /\ Keep(l, skit_loaf_free(Pair(l))) /\ Kept(slice)
    BY <1>3 DEF Free, Live, skit_slice_is_null
  <2>2. Leaves(loaf, l, Pair(l), skit_loaf_free(Pair(l)))
    BY <1>1, <2>1, FreeLeaves
  <2> QED
    BY <2>1, <2>2, KeepSettles, SliceCounts DEF Leaves
<1> QED
  BY <1>2, <1>3

-----------------------------------------------------------------------------
(* Each action on its own, for any loaf and any argument.                  *)
LEMMA StepSettles ==
  ASSUME NoWrap, Settled, [Next]_vars
  PROVE  Settled'
<1>1. ASSUME UNCHANGED vars
      PROVE  Settled'
  BY <1>1 DEF Settled, vars
<1>2. ASSUME NEW l \in Loaves, Alloc(l) \/ Emplace(l) \/ Free(l) \/ BufferedNewElement(l)
      PROVE  Settled'
  BY <1>2, NewSettles, OtherCallsSettle, GrowingSettles
<1>3. ASSUME NEW l \in Loaves, NEW n \in Lengths, Resize(l, n) \/ BufferedResize(l, n)
      PROVE  Settled'
  <2>1. Small(n)
    BY LengthsAreSmall DEF Settled
  <2> QED
    BY <1>3, <2>1, GrowingSettles
<1>4. ASSUME NEW l \in Loaves, NEW src \in Sources,
             Dup(l, src) \/ AppendTo(l, src) \/ BufferedAppend(l, src) \/ \E src2 \in Sources : Concat(l, src, src2)
      PROVE  Settled'
  BY <1>4, NewSettles, GrowingSettles
<1>5. ASSUME NEW l \in Loaves, NEW src \in Sources \cup {skit_slice_null},
             StoreSlice(l, src) \/ AssignSlice(l, src)
      PROVE  Settled'
  BY <1>5, StoringSettles
<1>6. ASSUME NEW l \in Loaves, NEW cstr \in LiteralSlices, CopyCstr(l, cstr) \/ Filter(l, cstr) \/ Put(l, cstr)
      PROVE  Settled'
  <2>1. cstr \in Sources
    BY DEF Sources
  <2> QED
    BY <1>6, <2>1, NewSettles, OtherCallsSettle, GrowingSettles DEF Put
<1>7. ASSUME NEW l \in Loaves, NEW cstr \in LiteralSlices \cup {skit_slice_null},
             StoreCstr(l, cstr) \/ AssignCstr(l, cstr)
      PROVE  Settled'
  BY <1>7, StoringSettles
<1>8. ASSUME NEW src \in LoafSlices, NEW i \in Int, NEW j \in Int, SliceOf(src, i, j)
      PROVE  Settled'
  <2> DEFINE first == i * stride
             last == IF j = SKIT_EOT THEN j ELSE j * stride
             s == skit_slice_of(src, first, last)
  <2>1. Kept(s) /\ UNCHANGED <<heap, loaf, stride>>
    BY <1>8 DEF SliceOf
  <2>2. first \in Int /\ last \in Int
    <3>1. stride \in Nat
      BY LoafAssumption DEF Settled
    <3> QED
      BY <3>1
  <2>3. IsCount(src)
    BY SourcesAreSmall DEF Sources
  <2> HIDE DEF first, last
  <2>4. IsCount(s)
    BY <2>2, <2>3, SliceOfCounts
  <2> HIDE DEF s
  <2>5. slice' = skit_slice_null \/ Holds(loaf', slice')
    BY <2>1, <2>4 DEF Kept, Holds
  <2> QED
    BY <2>1, <2>5 DEF Settled
<1>9. ASSUME NEW src \in LoafSlices, \/ SliceOf(src, 0, SKIT_EOT)
                                     \/ \E i, j \in - 1 .. MaxLength : SliceOf(src, i, j)
      PROVE  Settled'
  <2>1. PICK i \in Int, j \in Int : SliceOf(src, i, j)
    <3>1. SKIT_EOT \in Int
      BY DEF SKIT_EOT
    <3> QED
      BY <1>9, <3>1
  <2> QED
    BY <1>8, <2>1
<1> QED
  BY <1>1, <1>2, <1>3, <1>4, <1>5, <1>6, <1>7, <1>9 DEF Next

LEMMA SettledTerminates == Settled => LoafTerminated
<1> SUFFICES ASSUME Settled, NEW l \in Live
             PROVE  Len(Block(l).chars) = loaf[l].length + 1 /\ Last(Block(l).chars) = NUL
  BY DEF LoafTerminated
<1> DEFINE c == Block(l).chars
           n == loaf[l].length + 1
<1>1. l \in Loaves /\ loaf[l].at # NULL
  BY DEF Live, skit_slice_is_null
<1>2. IsText(c, n) /\ c[n] = NUL /\ n \in Nat
  BY <1>1 DEF Settled, Sized, IsSized, Chars, Block
<1> HIDE DEF c, n
<1>3. Len(c) = n
  BY <1>2, TextSeq
<1>4. Last(c) = NUL
  BY <1>2, <1>3 DEF Last
<1> QED
  BY <1>3, <1>4 DEF c, n

LEMMA SettledAlways == NoWrap => (Spec => []Settled)
<1> SUFFICES ASSUME NoWrap PROVE Spec => []Settled
  OBVIOUS
<1>1. Init => Settled
  BY InitSettled
<1>2. Settled /\ [Next]_vars => Settled'
  BY StepSettles
<1> QED
  BY <1>1, <1>2, PTL DEF Spec

(***************************************************************************)
(* As long as lengths fit in their 28 bits, through any calls, on however  *)
(* many loaves: the block that holds a loaf's characters is as long as the *)
(* loaf says and one byte more, which is the null byte.                    *)
(***************************************************************************)
THEOREM Terminated == NoWrap => (Spec => []LoafTerminated)
<1> SUFFICES ASSUME NoWrap PROVE Spec => []LoafTerminated
  OBVIOUS
<1>1. Spec => []Settled
  BY SettledAlways
<1> QED
  BY <1>1, SettledTerminates, PTL

-----------------------------------------------------------------------------
(* What the calls leave, as sequences.                                     *)

(* p is the part of c that begins behind first and ends with last.         *)
IsPart(p, c, first, last) ==
  IF first <= last THEN IsText(p, last - first) /\ \A i \in 1 .. last - first : p[i] = c[first + i]
  ELSE IsText(p, 0)

LEMMA PartFacts ==
  ASSUME NEW c, NEW n \in Nat, IsText(c, n), NEW first \in Nat, NEW last \in Nat, last <= n
  PROVE  IsPart(SubSeq(c, first + 1, last), c, first, last)
<1> DEFINE p == SubSeq(c, first + 1, last)
           S == {c[i] : i \in 1 .. n}
<1>1. CASE first <= last
  <2> DEFINE d == last - first
  <2>1. d \in Nat /\ first + d = last
    BY <1>1
  <2> HIDE DEF d
  <2>2. /\ IsText(SubSeq(c, first + 1, first + d), d)
        /\ \A i \in 1 .. d : SubSeq(c, first + 1, first + d)[i] = c[first + i]
    BY <2>1, SubText
  <2>3. IsText(p, d) /\ \A i \in 1 .. d : p[i] = c[first + i]
    BY <2>1, <2>2
  <2> HIDE DEF p
  <2>4. d = last - first
    BY DEF d
  <2> QED
    BY <1>1, <2>3, <2>4 DEF IsPart, p
<1>2. CASE ~ (first <= last)
  <2>1. c \in Seq(S) /\ Len(c) = n
    BY TextSeq
  <2> HIDE DEF S
  <2>2. p \in Seq(S) /\ Len(p) = 0
    BY <1>2, <2>1
  <2> HIDE DEF p
  <2>3. IsText(p, 0)
    BY <2>2, SeqText
  <2> QED
    BY <1>2, <2>3 DEF IsPart, p
<1> QED
  BY <1>1, <1>2

(* After a copy w of t to pos of the loaf c was the text of, up to end and *)
(* from there on.                                                          *)
LEMMA StoredText ==
  ASSUME NEW c, NEW len \in Nat, IsText(c, len), NEW t, NEW k \in Nat, IsText(t, k), NEW w, NEW n,
         n = (IF k <= len THEN len ELSE k), IsText(w, n),
         \A i \in 1 .. k : w[i] = t[i], \A i \in 1 .. len : k < i => w[i] = c[i]
  PROVE  w = t \o SubSeq(c, k + 1, len)
<1> DEFINE p == SubSeq(c, k + 1, len)
           j == t \o p
<1>1. IsPart(p, c, k, len)
  BY PartFacts
<1> HIDE DEF p
<1>2. CASE k <= len
  <2> DEFINE d == len - k
  <2>1. d \in Nat /\ k + d = len /\ n = len
    BY <1>2
  <2>2. IsText(p, d) /\ \A i \in 1 .. d : p[i] = c[k + i]
    BY <1>1, <1>2 DEF IsPart
  <2> HIDE DEF d
  <2>3. Joined(j, t, k, p, d)
    BY <2>1, <2>2, ConcatText
  <2> HIDE DEF j
  <2>4. IsText(j, n)
    BY <2>1, <2>3 DEF Joined
  <2>5. \A i \in 1 .. n : w[i] = j[i]
    <3> SUFFICES ASSUME NEW i \in 1 .. n PROVE w[i] = j[i]
      OBVIOUS
    <3>1. CASE i <= k
      BY <2>1, <2>3, <3>1 DEF Joined
    <3>2. CASE ~ (i <= k)
      <4>1. i - k \in 1 .. d /\ k + (i - k) = i /\ k < i /\ i \in 1 .. len
        BY <2>1, <3>2
      <4>2. j[k + (i - k)] = p[i - k] /\ p[i - k] = c[k + (i - k)]
        BY <2>2, <2>3, <4>1 DEF Joined
      <4> QED
        BY <4>1, <4>2
    <3> QED
      BY <3>1, <3>2
  <2>6. w = j
    BY <2>4, <2>5, SameText
  <2> QED
    BY <2>6 DEF j, p
<1>3. CASE ~ (k <= len)
  <2> DEFINE d == 0
  <2>1. d \in Nat /\ k + d = n
    BY <1>3
  <2>2. IsText(p, d)
    BY <1>1, <1>3 DEF IsPart
  <2> HIDE DEF d
  <2>3. Joined(j, t, k, p, d)
    BY <2>1, <2>2, ConcatText
  <2> HIDE DEF j
  <2>4. IsText(j, n) /\ n = k
    BY <1>3, <2>1, <2>3 DEF Joined
  <2>5. \A i \in 1 .. n : w[i] = j[i]
    BY <2>3, <2>4 DEF Joined
  <2>6. w = j
    BY <2>4, <2>5, SameText
  <2> QED
    BY <2>6 DEF j, p
<1> QED
  BY <1>2, <1>3

(* w has up to pos what c has, and then t.                                  *)
EndsWith(w, c, pos, t, k) == SubSeq(w, 1, pos + k) = SubSeq(c, 1, pos) \o t

LEMMA AppendedText ==
  ASSUME NEW c, NEW len \in Nat, IsText(c, len), NEW t, NEW k \in Nat, IsText(t, k),
         NEW pos \in Nat, pos <= len, NEW w, NEW n \in Nat, IsText(w, n), pos + k <= n,
         \A i \in 1 .. pos : w[i] = c[i], \A i \in 1 .. k : w[pos + i] = t[i]
  PROVE  EndsWith(w, c, pos, t, k)
<1> DEFINE zero == 0
           last == pos + k
           p == SubSeq(c, zero + 1, pos)
           q == SubSeq(w, zero + 1, last)
           j == p \o t
<1>1. zero \in Nat /\ last \in Nat /\ last <= n /\ last = pos + k
  OBVIOUS
<1> HIDE DEF last
<1>2. IsPart(p, c, zero, pos) /\ IsPart(q, w, zero, last)
  <2> HIDE DEF zero
  <2> QED
    BY <1>1, PartFacts
<1> HIDE DEF p, q
<1>3. IsText(p, pos) /\ (\A i \in 1 .. pos : p[i] = c[i]) /\ IsText(q, last) /\ \A i \in 1 .. last : q[i] = w[i]
  <2>1. pos - zero = pos /\ last - zero = last /\ zero <= pos /\ zero <= last
    BY <1>1
  <2>2. \A i \in 1 .. pos : zero + i = i
    OBVIOUS
  <2>3. \A i \in 1 .. last : zero + i = i
    BY <1>1
  <2> HIDE DEF zero
  <2> QED
    BY <1>2, <2>1, <2>2, <2>3 DEF IsPart
<1>4. Joined(j, p, pos, t, k)
  BY <1>3, ConcatText
<1> HIDE DEF j
<1>5. IsText(j, last)
  BY <1>1, <1>4 DEF Joined
<1>6. \A i \in 1 .. last : q[i] = j[i]
  <2> SUFFICES ASSUME NEW i \in 1 .. last PROVE q[i] = j[i]
    OBVIOUS
  <2>1. CASE i <= pos
    BY <1>1, <1>3, <1>4, <2>1 DEF Joined
  <2>2. CASE ~ (i <= pos)
    <3>1. i - pos \in 1 .. k /\ pos + (i - pos) = i
      BY <1>1, <2>2
    <3>2. w[pos + (i - pos)] = t[i - pos] /\ j[pos + (i - pos)] = t[i - pos]
      BY <1>4, <3>1 DEF Joined
    <3> QED
      BY <1>3, <3>1, <3>2
  <2> QED
    BY <2>1, <2>2
<1>7. q = j
  BY <1>3, <1>5, <1>6, SameText
<1> QED
  BY <1>1, <1>7 DEF q, j, p, EndsWith

LEMMA OthersKeepTexts ==
  ASSUME NEW l, NEW m, OthersKept(loaf, l, heap, m.hp), NEW k \in Live \ {l}
  PROVE  Text(m.hp, loaf[k]) = Contents(k)
<1>1. k \in Loaves \ {l} /\ loaf[k].at # NULL
  BY DEF Live, skit_slice_is_null
<1>2. Chars(m.hp, loaf[k]) = Chars(heap, loaf[k])
  BY <1>1 DEF OthersKept
<1> QED
  BY <1>2 DEF Text, Contents, Chars

(* The text of a loaf that a call has left in order.                       *)
LEMMA WrittenText ==
  ASSUME NEW lv, AreLoaves(lv), NEW l \in Loaves, NEW m, NEW r, NEW w, Becomes(lv, l, m, w),
         NEW pos, NEW t, NEW k, Written(r, w, pos, t, k), r.lf.at # NULL
  PROVE  r.lf.length \in Nat /\ Overwritten(Text(w.hp, w.lf), Chars(r.hp, r.lf), r.lf.length, pos, t, k)
<1>1. w.lf = r.lf /\ FitsSized(lv, l, w)
  BY DEF Written, Becomes
<1>2. /\ w.lf.length \in Nat /\ IsText(Text(w.hp, w.lf), w.lf.length)
      /\ \A i \in 1 .. w.lf.length : Text(w.hp, w.lf)[i] = Chars(w.hp, w.lf)[i]
  BY <1>1, OwnText
<1> QED
  BY <1>1, <1>2 DEF Written, Overwritten

LEMMA AppendSays ==
  ASSUME NoWrap, Settled, NEW l \in Live, NEW src \in Sources
  PROVE  LET a == skit_loaf_append(Pair(l), src)
         IN  /\ Text(a.hp, a.lf) = Contents(l) \o Text(heap, src)
             /\ \A k \in Live \ {l} : Text(a.hp, loaf[k]) = Contents(k)
             /\ IsSliceOf(slice, l) => Text(a.hp, slice) = Text(heap, slice)
<1> DEFINE p == Pair(l)
           a == skit_loaf_append(p, src)
<1>1. l \in Loaves /\ loaf[l].at # NULL
  BY DEF Live, skit_slice_is_null
<1>2. AreLoaves(loaf) /\ FitsSized(loaf, l, p) /\ With(loaf, l, p.lf) = loaf /\ p.lf = loaf[l] /\ p.hp = heap
  BY <1>1, PairSized
<1> HIDE DEF p
<1>3. Reads(loaf, src) /\ Small(src.length) /\ Small(loaf[l].length)
  BY <1>1, SourcesAreSmall, LoavesAreSmall
<1>4. loaf[l].length + src.length \in Counts
  BY <1>3, SmallSums
<1>5. Becomes(loaf, l, p, a) /\ Continues(p, a) /\ Text(a.hp, a.lf) = Text(p.hp, p.lf) \o Text(p.hp, src)
  BY <1>1, <1>2, <1>3, <1>4, AppendSized
<1> HIDE DEF a
<1>6. OthersKept(loaf, l, heap, a.hp)
  BY <1>2, <1>5 DEF Becomes
<1>7. \A k \in Live \ {l} : Text(a.hp, loaf[k]) = Contents(k)
  BY <1>6, OthersKeepTexts
<1>8. IsSliceOf(slice, l) => Text(a.hp, slice) = Text(heap, slice)
  <2> SUFFICES ASSUME IsSliceOf(slice, l) PROVE Text(a.hp, slice) = Text(heap, slice)
    OBVIOUS
  <2>1. Reads(loaf, slice)
    BY <1>1, SliceCounts, HeldIsSmall
  <2> QED
    BY <1>1, <1>2, <1>5, <2>1, ReadsStay
<1> QED
  BY <1>2, <1>5, <1>7, <1>8 DEF Contents, a, p

LEMMA StoreSays ==
  ASSUME NoWrap, Settled, NEW l \in Live, NEW src \in Sources
  PROVE  LET stored == skit_loaf_store_slice(Pair(l), src)
             assigned == skit_loaf_assign_slice(Pair(l), src)
             text == Text(heap, src)
         IN  /\ Text(stored.hp, stored.lf) = text \o SubSeq(Contents(l), src.length + 1, loaf[l].length)
             /\ Text(assigned.hp, assigned.lf) = text
             /\ \A k \in Live \ {l} : /\ Text(stored.hp, loaf[k]) = Contents(k)
                                      /\ Text(assigned.hp, loaf[k]) = Contents(k)
<1> DEFINE p == Pair(l)
           t == Text(heap, src)
           c == Contents(l)
           k == src.length
           len == loaf[l].length
           pos == 0
           room == StoreRoom(p, k)
           n == room.lf.length
           stored == skit_loaf_store_slice(p, src)
           assigned == skit_loaf_assign_slice(p, src)
           w == Text(stored.hp, stored.lf)
<1>1. l \in Loaves /\ loaf[l].at # NULL
  BY DEF Live, skit_slice_is_null
<1>2. AreLoaves(loaf) /\ FitsSized(loaf, l, p) /\ With(loaf, l, p.lf) = loaf /\ p.lf = loaf[l] /\ p.hp = heap
  BY <1>1, PairSized
<1> HIDE DEF p
<1>3. Reads(loaf, src) /\ Small(k) /\ k \in Counts /\ src.at # NULL
  BY SourcesAreSmall, SmallSums DEF Reads
<1>4. k \in Nat /\ IsText(t, k)
  BY <1>1, <1>2, <1>3, SourceText
<1>5. len \in Nat /\ IsText(c, len) /\ \A i \in 1 .. len : c[i] = Chars(p.hp, p.lf)[i]
  BY <1>1, <1>2, OwnText DEF Contents
<1>6. Becomes(loaf, l, p, stored) /\ stored.lf.at # NULL /\ stored.lf = room.lf /\ Written(room, stored, pos, t, k)
  BY <1>1, <1>2, <1>3, StoreSliceSized
<1>7. HasRoom(loaf, l, p, room, k) /\ n = IF p.lf.at # NULL /\ k <= p.lf.length THEN p.lf.length ELSE k
  <2>1. k \in Counts
    BY <1>3
  <2> HIDE DEF k
  <2> QED
    BY <1>1, <1>2, <2>1, StoreHasRoom
<1> HIDE DEF stored, assigned, room
<1>8. /\ n \in Nat /\ IsText(w, n)
      /\ \A i \in 1 .. n : w[i] = IF pos < i /\ i <= pos + k THEN t[i - pos] ELSE Chars(room.hp, room.lf)[i]
  <2> HIDE DEF pos, t, k
  <2>1. room.lf.at # NULL
    BY <1>7 DEF HasRoom
  <2>2. n \in Nat /\ Overwritten(w, Chars(room.hp, room.lf), n, pos, t, k)
    BY <1>1, <1>2, <1>6, <2>1, WrittenText
  <2> QED
    BY <2>2 DEF Overwritten
<1>9. n = (IF k <= len THEN len ELSE k)
  BY <1>1, <1>2, <1>7
<1>10. \A i \in 1 .. len : Chars(room.hp, room.lf)[i] = c[i]
  BY <1>1, <1>2, <1>5, <1>7 DEF HasRoom, Continues
<1> HIDE DEF w, n, t, c, k, len
<1>11. \A i \in 1 .. k : w[i] = t[i]
  <2> SUFFICES ASSUME NEW i \in 1 .. k PROVE w[i] = t[i]
    OBVIOUS
  <2>1. i \in 1 .. n /\ pos < i /\ i <= pos + k /\ i - pos = i
    BY <1>4, <1>5, <1>9
  <2> HIDE DEF pos
  <2> QED
    BY <1>8, <2>1
<1>12. \A i \in 1 .. len : k < i => w[i] = c[i]
  <2> SUFFICES ASSUME NEW i \in 1 .. len, k < i PROVE w[i] = c[i]
    OBVIOUS
  <2>1. i \in 1 .. n /\ ~ (i <= pos + k)
    BY <1>4, <1>5, <1>9
  <2> HIDE DEF pos
  <2> QED
    BY <1>8, <1>10, <2>1
<1>13. w = t \o SubSeq(c, k + 1, len)
  BY <1>4, <1>5, <1>8, <1>9, <1>11, <1>12, StoredText
<1>14. assigned = Assigned(p, stored, src)
  BY DEF assigned, stored, skit_loaf_assign_slice
<1>15. k <= stored.lf.length
  BY <1>6, <1>7 DEF HasRoom
<1>16. Becomes(loaf, l, p, assigned) /\ Resized(stored, assigned, k)
  <2>1. src.length \in Counts /\ src.length <= stored.lf.length
    BY <1>3, <1>15 DEF k
  <2>2. Becomes(loaf, l, p, assigned) /\ Resized(stored, assigned, src.length)
    BY <1>1, <1>2, <1>3, <1>6, <1>14, <2>1, AssignedSized
  <2> QED
    BY <2>2 DEF k
<1>17. Text(assigned.hp, assigned.lf) = t
  <2> DEFINE u == Text(assigned.hp, assigned.lf)
  <2>1. FitsSized(loaf, l, assigned) /\ assigned.lf.at # NULL /\ assigned.lf.length = k
    BY <1>6, <1>16 DEF Becomes, Resized
  <2>2. IsText(u, k) /\ \A i \in 1 .. k : u[i] = Chars(assigned.hp, assigned.lf)[i]
    BY <1>1, <1>2, <2>1, OwnText
  <2> HIDE DEF u
  <2>3. FitsSized(loaf, l, stored)
    BY <1>6 DEF Becomes
  <2>4. \A i \in 1 .. stored.lf.length : w[i] = Chars(stored.hp, stored.lf)[i]
    BY <1>1, <1>2, <1>6, <2>3, OwnText DEF w
  <2>5. stored.lf.length \in Nat
    BY <1>6, <1>8 DEF n
  <2>6. \A i \in 1 .. k : u[i] = t[i]
    <3> SUFFICES ASSUME NEW i \in 1 .. k PROVE u[i] = t[i]
      OBVIOUS
    <3>1. i <= stored.lf.length /\ i \in 1 .. stored.lf.length
      BY <1>4, <1>15, <2>5
    <3>2. Chars(assigned.hp, assigned.lf)[i] = Chars(stored.hp, stored.lf)[i]
      BY <1>16, <3>1 DEF Resized
    <3> QED
      BY <1>11, <2>2, <2>4, <3>1, <3>2
  <2>7. u = t
    BY <1>4, <2>2, <2>6, SameText
  <2> QED
    BY <2>7 DEF u
<1>18. OthersKept(loaf, l, heap, stored.hp) /\ OthersKept(loaf, l, heap, assigned.hp)
  BY <1>2, <1>6, <1>16 DEF Becomes
<1>19. \A j \in Live \ {l} : Text(stored.hp, loaf[j]) = Contents(j) /\ Text(assigned.hp, loaf[j]) = Contents(j)
  BY <1>18, OthersKeepTexts
<1> QED
  BY <1>13, <1>17, <1>19 DEF w, t, c, k, len, stored, assigned, p

LEMMA BufferedAppendSays ==
  ASSUME NoWrap, Settled, NEW l \in Live, NEW src \in Sources, IsSliceOf(slice, l)
  PROVE  LET buffered == skit_slice_buffered_append(Pair(l), slice, src)
             end == slice.offset + slice.length
             after == Text(buffered.hp, buffered.lf)
         IN  /\ SubSeq(after, 1, end + src.length) = SubSeq(Contents(l), 1, end) \o Text(heap, src)
             /\ \A k \in Live \ {l} : Text(buffered.hp, loaf[k]) = Contents(k)
<1> DEFINE p == Pair(l)
           t == Text(heap, src)
           c == Contents(l)
           k == src.length
           len == loaf[l].length
           end == slice.offset + slice.length
           a == skit_slice_buffered_append(p, slice, src)
           w == Text(a.hp, a.lf)
<1>1. l \in Loaves /\ loaf[l].at # NULL
  BY DEF Live, skit_slice_is_null
<1>2. AreLoaves(loaf) /\ FitsSized(loaf, l, p) /\ With(loaf, l, p.lf) = loaf /\ p.lf = loaf[l] /\ p.hp = heap
  BY <1>1, PairSized
<1> HIDE DEF p
<1>3. Reads(loaf, src) /\ Small(k) /\ k \in Nat /\ IsText(t, k)
  BY <1>1, <1>2, SourcesAreSmall, SourceText
<1>4. len \in Nat /\ IsText(c, len) /\ \A i \in 1 .. len : c[i] = Chars(p.hp, p.lf)[i]
  BY <1>1, <1>2, OwnText DEF Contents
<1>5. IsCount(slice) /\ Small(end) /\ end \in Nat /\ end <= len /\ slice.offset \in Nat /\ slice.length \in Nat
  BY <1>1, SliceCounts, HeldIsSmall DEF IsSliceOf, IsCount
<1>6. ((slice.offset + (slice.length + k)) * 3) \div 2 \in Counts
  <2>1. slice.offset + (slice.length + k) = end + k
    BY <1>3, <1>5
  <2> HIDE DEF end, k
  <2>2. ((end + k) * 3) \div 2 \in Counts
    BY <1>3, <1>5, SmallSums
  <2> QED
    BY <2>1, <2>2
<1>7. Becomes(loaf, l, p, a)
      /\ \E r : HasRoom(loaf, l, p, r, end + k) /\ Written(r, a, end, t, k)
  BY <1>1, <1>2, <1>3, <1>5, <1>6, BufferedAppendSized
<1> HIDE DEF a, t, c, k, len, end
<1>8. PICK r : HasRoom(loaf, l, p, r, end + k) /\ Written(r, a, end, t, k)
  BY <1>7
<1> DEFINE n == r.lf.length
<1>9. r.lf.at # NULL /\ end + k <= n /\ Continues(p, r)
  BY <1>8 DEF HasRoom
<1>10. /\ n \in Nat /\ IsText(w, n)
       /\ \A i \in 1 .. n : w[i] = IF end < i /\ i <= end + k THEN t[i - end] ELSE Chars(r.hp, r.lf)[i]
  <2>1. n \in Nat /\ Overwritten(w, Chars(r.hp, r.lf), n, end, t, k)
    BY <1>1, <1>2, <1>7, <1>8, <1>9, WrittenText
  <2> QED
    BY <2>1 DEF Overwritten
<1>11. \A i \in 1 .. len : Chars(r.hp, r.lf)[i] = c[i]
  BY <1>1, <1>2, <1>4, <1>9 DEF Continues, len
<1> HIDE DEF w, n
<1>12. \A i \in 1 .. end : w[i] = c[i]
  <2> SUFFICES ASSUME NEW i \in 1 .. end PROVE w[i] = c[i]
    OBVIOUS
  <2>1. i \in 1 .. n /\ i \in 1 .. len /\ ~ (end < i)
    BY <1>3, <1>4, <1>5, <1>9, <1>10
  <2> QED
    BY <1>10, <1>11, <2>1
<1>13. \A i \in 1 .. k : w[end + i] = t[i]
  <2> SUFFICES ASSUME NEW i \in 1 .. k PROVE w[end + i] = t[i]
    OBVIOUS
  <2> DEFINE j == end + i
  <2>1. j \in 1 .. n /\ end < j /\ j <= end + k /\ j - end = i
    BY <1>3, <1>5, <1>9, <1>10
  <2> HIDE DEF j
  <2>2. w[j] = t[i]
    BY <1>10, <2>1
  <2> QED
    BY <2>2 DEF j
<1>14. SubSeq(w, 1, end + k) = SubSeq(c, 1, end) \o t
  <2>1. n \in Nat /\ IsText(w, n) /\ end + k <= n
    BY <1>9, <1>10 DEF n
  <2>2. EndsWith(w, c, end, t, k)
    BY <1>3, <1>4, <1>5, <1>12, <1>13, <2>1, AppendedText
  <2> QED
    BY <2>2 DEF EndsWith
<1>15. OthersKept(loaf, l, heap, a.hp)
  BY <1>2, <1>7 DEF Becomes
<1>16. \A j \in Live \ {l} : Text(a.hp, loaf[j]) = Contents(j)
  BY <1>15, OthersKeepTexts
<1> QED
  BY <1>14, <1>16 DEF w, a, p, t, c, k, end

LEMMA SettledSays == NoWrap /\ Settled => CallsWriteWhatTheySay
<1> SUFFICES ASSUME NoWrap, Settled PROVE CallsWriteWhatTheySay
  OBVIOUS
<1> SUFFICES ASSUME NEW l \in Live, NEW src \in Sources
    PROVE LET text == Text(heap, src)
              appended == skit_loaf_append(Pair(l), src)
              stored == skit_loaf_store_slice(Pair(l), src)
              assigned == skit_loaf_assign_slice(Pair(l), src)
              buffered == skit_slice_buffered_append(Pair(l), slice, src)
              end == slice.offset + slice.length
              after == Text(buffered.hp, buffered.lf)
              OthersAreKept(m) == \A k \in Live \ {l} : Text(m.hp, loaf[k]) = Contents(k)
          IN  /\ Text(appended.hp, appended.lf) = Contents(l) \o text /\ OthersAreKept(appended)
              /\ IsSliceOf(slice, l) => Text(appended.hp, slice) = Text(heap, slice)
              /\ Text(stored.hp, stored.lf) = text \o SubSeq(Contents(l), src.length + 1, loaf[l].length)
              /\ Text(assigned.hp, assigned.lf) = text
              /\ OthersAreKept(stored) /\ OthersAreKept(assigned)
              /\ IsSliceOf(slice, l) =>
                   /\ SubSeq(after, 1, end + src.length) = SubSeq(Contents(l), 1, end) \o text
                   /\ OthersAreKept(buffered)
  BY Zenon DEF CallsWriteWhatTheySay
<1> QED
  BY AppendSays, StoreSays, BufferedAppendSays, Zenon

(***************************************************************************)
(* As long as lengths fit in their 28 bits, in every state of however many *)
(* loaves: skit_loaf_append, skit_loaf_store_slice, skit_loaf_assign_slice *)
(* and skit_slice_buffered_append leave the text that their comments say,  *)
(* whatever part of whatever loaf or literal the argument is, and no other *)
(* loaf's text changes.                                                    *)
(***************************************************************************)
THEOREM CallsWrite == NoWrap => (Spec => []CallsWriteWhatTheySay)
<1> SUFFICES ASSUME NoWrap PROVE Spec => []CallsWriteWhatTheySay
  OBVIOUS
<1>1. Spec => []Settled
  BY SettledAlways
<1>2. Settled => CallsWriteWhatTheySay
  BY SettledSays
<1> QED
  BY <1>1, <1>2, PTL
===============================================================================
