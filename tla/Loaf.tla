--------------------------------- MODULE Loaf ---------------------------------
(***************************************************************************)
(* Loaves and slices (string.c) and the arrays made of them                *)
(* (templates/array.c).  A loaf owns a block that begins with a handle: as *)
(* long as the handle is NULL the characters follow it in the same block,  *)
(* and once the loaf has grown it points to a block of their own.  A slice *)
(* holds the loaf's block, an offset and a length, and finds the           *)
(* characters through the handle, so that it survives the move.            *)
(*                                                                         *)
(* An array is a loaf whose lengths the template multiplies by the size of *)
(* an element before it calls the same functions.                          *)
(***************************************************************************)
EXTENDS Integers, SequencesExt, FiniteSetsExt

CONSTANTS Loaves,      (* the caller's loaf variables                              *)
          Strides,     (* sizes of an element, 1 for text                          *)
          Literals,    (* [address of a C string or C array -> its bytes]          *)
          Addresses,   (* [kind of block -> the addresses of such blocks]          *)
          MaxLength    (* bound on the bytes of any two loaves together            *)

ASSUME LoafAssumption ==
  /\ Strides \subseteq Nat \ {0} /\ MaxLength \in Nat
  /\ IsFiniteSet(Loaves) /\ DOMAIN Literals \subseteq Nat \ {0}
  /\ \A c \in DOMAIN Literals : Literals[c] \in Seq(Nat) /\ Literals[c] # << >>
  /\ \A kind \in {"block", "chars"} : /\ Addresses[kind] \subseteq Nat \ ({0} \cup DOMAIN Literals)
                                      /\ Cardinality(Addresses[kind]) >= Cardinality(Loaves)
  /\ Addresses["block"] \cap Addresses["chars"] = {}

VARIABLES heap,        (* [addresses and literals -> block], or FREE               *)
          loaf,        (* [Loaves -> the variable]                                 *)
          slice,       (* a slice the caller holds                                 *)
          stride       (* the size of the elements of all of them                  *)
vars == <<heap, loaf, slice, stride>>

NUL == 0
JUNK == 99              (* a byte that nothing has written                        *)
NULL == 0               (* no address                                             *)
FREE == [kind |-> "free", handle |-> NULL, chars |-> << >>]

(* A length and an offset have 28 bits of the meta word each.              *)
META_LENGTH == 2 ^ 28
META_OFFSET == 2 ^ 28
skit_slice_set_length(s, length) == [s EXCEPT !.length = length % META_LENGTH]
skit_slice_set_offset(s, offset) == [s EXCEPT !.offset = offset % META_OFFSET]

(* A loaf is a slice of all of its characters.                             *)
skit_slice_null == [at |-> NULL, offset |-> 0, length |-> 0]
skit_loaf_null == skit_slice_null
skit_slice_is_null(s) == s.at = NULL

Overwrite(chars, pos, bytes) ==
  [i \in DOMAIN chars |-> IF i - pos \in DOMAIN bytes THEN bytes[i - pos] ELSE chars[i]]
Junk(n) == [i \in 1 .. n |-> JUNK]

(***************************************************************************)
(* Blocks.  A call takes a heap hp and a loaf lf, or the pair m of them,   *)
(* and returns the pair.                                                   *)
(***************************************************************************)
AllAddresses == Addresses["block"] \cup Addresses["chars"]
NewAddress(hp, kind) == CHOOSE a \in Addresses[kind] : hp[a] = FREE
skit_malloc(hp, address, kind, chars) == [hp EXCEPT ![address] = [kind |-> kind, handle |-> NULL, chars |-> chars]]
skit_free(hp, address) ==
  [hp EXCEPT ![address] = IF @.kind = "malloc" THEN FREE ELSE [@ EXCEPT !.kind = "corrupt"]]

skit_slice_ptr(hp, s) == IF hp[s.at].handle = NULL THEN s.at ELSE hp[s.at].handle
Text(hp, s) == SubSeq(hp[skit_slice_ptr(hp, s)].chars, s.offset + 1, s.offset + s.length)
Write(m, pos, bytes) ==
  [m EXCEPT !.hp[skit_slice_ptr(m.hp, m.lf)].chars = Overwrite(@, pos, bytes)]

(***************************************************************************)
(* The functions of string.c                                               *)
(***************************************************************************)
skit_loaf_emplace_internal(hp, kind, length) ==
  LET at == NewAddress(hp, "block")
  IN  [hp |-> skit_malloc(hp, at, kind, Junk(length) \o <<NUL>>),
       lf |-> skit_slice_set_length([skit_loaf_null EXCEPT !.at = at], length)]
skit_loaf_alloc(hp, length) == skit_loaf_emplace_internal(hp, "malloc", length)
skit_loaf_emplace(hp, length) == skit_loaf_emplace_internal(hp, "user", length)

(* EOT (no length has it), and indices from the end.                       *)
SKIT_EOT == 10 ^ 9
FromEnd(s, index) == IF index < 0 THEN s.length + index ELSE index
skit_slice_of(s, index1, index2) ==
  LET first == FromEnd(s, index1)
      last == IF index2 = SKIT_EOT THEN s.length ELSE FromEnd(s, index2)
  IN  skit_slice_set_offset(skit_slice_set_length(s, last - first), first + s.offset)

(* The bytes a block of length characters has after it was given its size. *)
Fit_unterminated(bytes, length) == SubSeq(bytes \o Junk(length + 1), 1, length + 1)
Fit(bytes, length) == SubSeq(bytes \o Junk(length), 1, length) \o <<NUL>>

(* Growing out of the first block copies the characters to a new one, and  *)
(* from then on there is realloc.  Shrinking in the first block allocates  *)
(* nothing.  What stays in the first block, or behind the terminator of a  *)
(* shorter text in it, is out of reach and forgotten here.                 *)
skit_loaf_resize(m, length) ==
  LET at == m.lf.at
      ptr == skit_slice_ptr(m.hp, m.lf)
      chars == m.hp[ptr].chars
      moves == ptr = at /\ m.lf.length < length
      new == NewAddress(m.hp, "chars")
      grown == Fit(SubSeq(chars, 1, m.lf.length) \o <<NUL>>, length)
  IN  [hp |-> IF ~moves THEN [m.hp EXCEPT ![ptr].chars = Fit(chars, length)]
              ELSE [skit_malloc(m.hp, new, "malloc", grown) EXCEPT ![at] = [@ EXCEPT !.handle = new, !.chars = << >>]],
       lf |-> skit_slice_set_length(m.lf, length)]

(* The suffix is read after the resize, through its handle.                *)
skit_loaf_append(m, suffix) ==
  LET resized == skit_loaf_resize(m, m.lf.length + suffix.length)
  IN  IF suffix.length = 0 THEN m ELSE Write(resized, m.lf.length, Text(resized.hp, suffix))

skit_slice_buffered_resize(m, s, new_length) ==
  LET new_rbound == s.offset + new_length
  IN  IF new_rbound > m.lf.length THEN skit_loaf_resize(m, (new_rbound * 3) \div 2) ELSE m

(* A plausible bug: the address of the suffix is taken before the resize,  *)
(* and realloc has freed what is there.                                    *)
skit_slice_buffered_append_cached(m, s, suffix) ==
  LET resized == skit_slice_buffered_resize(m, s, s.length + suffix.length)
      moved == suffix.at = m.lf.at /\ m.hp[m.lf.at].handle # NULL /\ resized # m
  IN  Write(resized, s.offset + s.length, IF moved THEN Junk(suffix.length) ELSE Text(resized.hp, suffix))

skit_slice_buffered_append(m, s, suffix) ==
  LET resized == skit_slice_buffered_resize(m, s, s.length + suffix.length)
  IN  Write(resized, s.offset + s.length, Text(resized.hp, suffix))

(* The loaf grows to what is stored in it and never shrinks.               *)
StoreRoom(m, length) ==
  LET m2 == IF skit_slice_is_null(m.lf) THEN skit_loaf_alloc(m.hp, length) ELSE m
  IN  IF length > m2.lf.length THEN skit_loaf_resize(m2, length) ELSE m2
skit_loaf_store_slice(m, s) ==
  LET room == StoreRoom(m, s.length)
  IN  IF skit_slice_is_null(s) THEN m ELSE Write(room, 0, Text(room.hp, s))
(* strcpy writes the terminator too.                                       *)
skit_loaf_store_cstr(m, cstr) ==
  IF skit_slice_is_null(cstr) THEN m
  ELSE Write(StoreRoom(m, cstr.length), 0, Append(Text(m.hp, cstr), NUL))

(* A plausible bug: of a loaf that has grown only one block is freed.      *)
skit_loaf_free_handle_only(m) ==
  LET block == m.hp[m.lf.at]
  IN  [hp |-> IF block.handle # NULL THEN skit_free(m.hp, block.handle)
              ELSE IF block.kind = "malloc" THEN skit_free(m.hp, m.lf.at) ELSE m.hp,
       lf |-> skit_loaf_null]

(* Memory of the caller's is left to the caller.                           *)
skit_loaf_free(m) ==
  LET block == m.hp[m.lf.at]
      without_chars == IF block.handle = NULL THEN m.hp ELSE skit_free(m.hp, block.handle)
  IN  [hp |-> IF block.kind = "malloc" THEN skit_free(without_chars, m.lf.at) ELSE without_chars,
       lf |-> skit_loaf_null]

Assigned(m, stored, s) ==
  IF skit_slice_is_null(s) THEN IF skit_slice_is_null(m.lf) THEN m ELSE skit_loaf_free(m)
  ELSE IF s.length < stored.lf.length THEN skit_loaf_resize(stored, s.length) ELSE stored
skit_loaf_assign_slice(m, s) == Assigned(m, skit_loaf_store_slice(m, s), s)
skit_loaf_assign_cstr(m, cstr) == Assigned(m, skit_loaf_store_cstr(m, cstr), cstr)

skit_slice_concat(hp, str1, str2) ==
  LET result == skit_loaf_alloc(hp, str1.length + str2.length)
  IN  Write(Write(result, 0, Text(hp, str1)), str1.length, Text(hp, str2))
skit_loaf_dup(hp, s) == Write(skit_loaf_alloc(hp, s.length), 0, Text(hp, s))
skit_loaf_copy_cstr(hp, cstr) == skit_loaf_store_cstr(skit_loaf_alloc(hp, cstr.length), cstr)
skit_slice_dup_as_cstr(hp, s) == Append(Text(hp, s), NUL)

(***************************************************************************)
(* templates/array.c, where it does more than multiply                     *)
(***************************************************************************)
Elements(bytes, size) == [i \in 1 .. Len(bytes) \div size |-> SubSeq(bytes, (i - 1) * size + 1, i * size)]

(* The first length bytes of elements of that size.                        *)
Bytes(elements, length, size) ==
  [i \in 1 .. length |-> elements[((i - 1) \div size) + 1][((i - 1) % size) + 1]]

(* A hole takes the next element that passes and leaves what it held in    *)
(* that element's place, as long as there is one; the slice then ends with *)
(* the last element that passes.                                           *)
slice_bfd_filter(elements, kept) ==
  LET Step(e, i) ==
        LET passing == {j \in i .. Len(elements) : e[j] \in kept}
            j == Min(passing)
        IN  IF passing = {} THEN e ELSE [e EXCEPT ![i] = e[j], ![j] = e[i]]
  IN  [n |-> Cardinality({i \in DOMAIN elements : elements[i] \in kept}),
       e |-> FoldLeft(Step, elements, [i \in DOMAIN elements |-> i])]

(***************************************************************************)
(* The caller.  It keeps the slice of a loaf it was given last, forgets it *)
(* when the loaf has gone or is too short for it, and never copies a text  *)
(* onto itself.                                                            *)
(***************************************************************************)
Live == {l \in Loaves : ~skit_slice_is_null(loaf[l])}
IsSliceOf(s, l) == s.at = loaf[l].at /\ s.offset + s.length <= loaf[l].length /\ l \in Live
LiteralSlice(c) == skit_slice_set_length([skit_slice_null EXCEPT !.at = c], Len(Literals[c]) - 1)
LiteralSlices == {s \in {LiteralSlice(c) : c \in DOMAIN Literals} : s.length % stride = 0}
LoafSlices == {loaf[l] : l \in Live} \cup ({slice} \ {skit_slice_null})
Sources == LoafSlices \cup LiteralSlices
Disjoint(s, l, first, last) == s.at # loaf[l].at \/ s.offset + s.length <= first \/ last <= s.offset

Lengths == {n * stride : n \in 0 .. MaxLength \div stride}
Pair(l) == [hp |-> heap, lf |-> loaf[l]]
Bounded ==
  \A l \in Loaves : /\ loaf'[l].length <= MaxLength
                    /\ \A k \in Loaves \ {l} : loaf'[l].length + loaf'[k].length <= MaxLength
(* Memory that the caller supplied goes with its frame.                    *)
Keep(l, m) ==
  /\ loaf' = [loaf EXCEPT ![l] = m.lf] /\ Bounded /\ UNCHANGED stride
  /\ heap' = [a \in DOMAIN heap |->
                IF m.hp[a].kind = "user" /\ \A k \in Loaves : loaf'[k].at # a THEN FREE ELSE m.hp[a]]
Kept(s) ==
  LET fits == \E l \in Loaves : loaf'[l].at = s.at /\ s.offset + s.length <= loaf'[l].length
  IN  slice' = IF fits THEN s ELSE skit_slice_null

Init ==
  /\ heap = [a \in AllAddresses \cup DOMAIN Literals |->
              IF a \in AllAddresses THEN FREE ELSE [kind |-> "literal", handle |-> NULL, chars |-> Literals[a]]]
  /\ loaf = [l \in Loaves |-> skit_loaf_null] /\ slice = skit_slice_null /\ stride \in Strides

Alloc(l) == l \notin Live /\ \E n \in Lengths : Keep(l, skit_loaf_alloc(heap, n)) /\ Kept(slice)
Emplace(l) == l \notin Live /\ \E n \in Lengths : Keep(l, skit_loaf_emplace(heap, n)) /\ Kept(slice)
CopyCstr(l, cstr) == l \notin Live /\ Keep(l, skit_loaf_copy_cstr(heap, cstr)) /\ Kept(slice)
Dup(l, src) == l \notin Live /\ Keep(l, skit_loaf_dup(heap, src)) /\ Kept(slice)
Concat(l, str1, str2) ==
  l \notin Live /\ Keep(l, skit_slice_concat(heap, str1, str2)) /\ Kept(slice)
Resize(l, n) == l \in Live /\ Keep(l, skit_loaf_resize(Pair(l), n)) /\ Kept(slice)
AppendTo(l, suffix) == l \in Live /\ Keep(l, skit_loaf_append(Pair(l), suffix)) /\ Kept(slice)
(* SKIT_T(loaf_put) *)
Put(l, elem) == elem.length = stride /\ AppendTo(l, elem)

(* The first result of a call is the loaf, the second the slice.           *)
BufferedResize(l, n) ==
  /\ IsSliceOf(slice, l)
  /\ Keep(l, skit_slice_buffered_resize(Pair(l), slice, n))
  /\ Kept(skit_slice_set_length(slice, n))
(* SKIT_T(slice_bfd_new_el) *)
BufferedNewElement(l) == BufferedResize(l, slice.length + stride)
BufferedAppend(l, suffix) ==
  LET length == slice.length + suffix.length
  IN  /\ IsSliceOf(slice, l) /\ Disjoint(suffix, l, slice.offset + slice.length, slice.offset + length)
      /\ Keep(l, skit_slice_buffered_append(Pair(l), slice, suffix))
      /\ Kept(skit_slice_set_length(slice, length))

Stored(l, src, m) ==
  /\ Disjoint(src, l, 0, src.length)
  /\ Keep(l, m)
  /\ Kept(IF skit_slice_is_null(src) THEN src ELSE skit_slice_of(m.lf, 0, src.length))
StoreSlice(l, src) == Stored(l, src, skit_loaf_store_slice(Pair(l), src))
AssignSlice(l, src) == Stored(l, src, skit_loaf_assign_slice(Pair(l), src))
StoreCstr(l, cstr) == stride = 1 /\ Stored(l, cstr, skit_loaf_store_cstr(Pair(l), cstr))
AssignCstr(l, cstr) == stride = 1 /\ Stored(l, cstr, skit_loaf_assign_cstr(Pair(l), cstr))

SliceOf(src, i, j) ==
  /\ j = SKIT_EOT \/ (0 <= FromEnd(src, i * stride) /\ FromEnd(src, i * stride) <= FromEnd(src, j * stride)
                       /\ FromEnd(src, j * stride) <= src.length)
  /\ UNCHANGED <<heap, loaf, stride>>
  /\ Kept(skit_slice_of(src, i * stride, IF j = SKIT_EOT THEN j ELSE j * stride))

Filter(l, elem) ==
  LET elements == Elements(Text(heap, slice), stride)
      filtered == slice_bfd_filter(elements, ToSet(elements) \ {Text(heap, elem)})
  IN  /\ IsSliceOf(slice, l) /\ slice.offset = 0 /\ slice.length % stride = 0
      /\ Keep(l, Write(Pair(l), 0, Bytes(filtered.e, slice.length, stride)))
      /\ Kept(skit_slice_of(slice, 0, filtered.n * stride))

Free(l) == l \in Live /\ Keep(l, skit_loaf_free(Pair(l))) /\ Kept(slice)

Next ==
  \/ \E l \in Loaves : Alloc(l) \/ Emplace(l) \/ Free(l) \/ BufferedNewElement(l)
  \/ \E l \in Loaves, n \in Lengths : Resize(l, n) \/ BufferedResize(l, n)
  \/ \E l \in Loaves, src \in Sources :
       Dup(l, src) \/ AppendTo(l, src) \/ BufferedAppend(l, src) \/ \E src2 \in Sources : Concat(l, src, src2)
  \/ \E l \in Loaves, src \in Sources \cup {skit_slice_null} : StoreSlice(l, src) \/ AssignSlice(l, src)
  \/ \E l \in Loaves, cstr \in LiteralSlices : CopyCstr(l, cstr) \/ Filter(l, cstr) \/ Put(l, cstr)
  \/ \E l \in Loaves, cstr \in LiteralSlices \cup {skit_slice_null} : StoreCstr(l, cstr) \/ AssignCstr(l, cstr)
  \/ \E src \in LoafSlices, i, j \in - 1 .. MaxLength : SliceOf(src, i, j)
  \/ \E src \in LoafSlices : SliceOf(src, 0, SKIT_EOT)

Spec == Init /\ [][Next]_vars

(***************************************************************************)
(* Properties                                                              *)
(***************************************************************************)
Block(l) == heap[skit_slice_ptr(heap, loaf[l])]
Contents(l) == Text(heap, loaf[l])

(* Wherever a loaf's characters are after any calls, they are in a block   *)
(* of exactly that size, and the byte behind the last one is the null      *)
(* byte; what skit_loaf_as_cstr hands to C ends where the loaf does.       *)
LoafTerminated ==
  \A l \in Live : Len(Block(l).chars) = loaf[l].length + 1 /\ Last(Block(l).chars) = NUL

(* Every block that was allocated is the first block of one loaf or the    *)
(* characters of one loaf, and of no other: nothing leaks when a loaf is   *)
(* moved, assigned NULL or freed, and nothing is freed twice or is freed   *)
(* although the caller supplied it.                                        *)
EveryBlockHasOneOwner ==
  /\ \A a \in AllAddresses : heap[a] # FREE =>
       Cardinality({l \in Live : a \in {loaf[l].at, skit_slice_ptr(heap, loaf[l])}}) = 1
  /\ \A l \in Live : heap[loaf[l].at].kind \in {"malloc", "user"} /\ Block(l).kind \in {"malloc", "user"}

(* In whatever state the loaves are - in their first block or out of it,   *)
(* grown, shrunk, on the stack, the argument a part of the loaf itself -   *)
(* a call of string.c leaves the texts it is documented to leave, the      *)
(* other loaves as they were, and a slice of the loaf with the same text   *)
(* although the characters have moved.                                     *)
CallsWriteWhatTheySay ==
  \A l \in Live, src \in Sources :
    LET text == Text(heap, src)
        appended == skit_loaf_append(Pair(l), src)
        stored == skit_loaf_store_slice(Pair(l), src)
        assigned == skit_loaf_assign_slice(Pair(l), src)
        buffered == skit_slice_buffered_append(Pair(l), slice, src)
        end == slice.offset + slice.length
        OthersAreKept(m) == \A k \in Live \ {l} : Text(m.hp, loaf[k]) = Contents(k)
    IN  /\ Text(appended.hp, appended.lf) = Contents(l) \o text /\ OthersAreKept(appended)
        /\ IsSliceOf(slice, l) => Text(appended.hp, slice) = Text(heap, slice)
        /\ Disjoint(src, l, 0, src.length) =>
             /\ Text(stored.hp, stored.lf) = text \o SubSeq(Contents(l), src.length + 1, loaf[l].length)
             /\ Text(assigned.hp, assigned.lf) = text
             /\ OthersAreKept(stored) /\ OthersAreKept(assigned)
        /\ IsSliceOf(slice, l) /\ Disjoint(src, l, end, end + src.length) =>
             LET after == Text(buffered.hp, buffered.lf)
             IN  /\ SubSeq(after, 1, end + src.length) = SubSeq(Contents(l), 1, end) \o text
                 /\ OthersAreKept(buffered)

(* templates/array.h: loaf_put "is similar to loaf_append, except that it  *)
(* appends only a single element", and all lengths count elements.         *)
PutAppendsItsElement ==
  \A l \in Live, elem \in LiteralSlices :
    LET put == skit_loaf_append(Pair(l), elem)
    IN  elem.length = stride =>
          Elements(Text(put.hp, put.lf), stride) = Append(Elements(Contents(l), stride), Text(heap, elem))
=============================================================================
