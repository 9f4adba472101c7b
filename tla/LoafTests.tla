------------------------------- MODULE LoafTests -------------------------------
(***************************************************************************)
(* The unit tests of string.c and of the arrays that allocate, as          *)
(* sequences of calls on a heap of their own.                              *)
(***************************************************************************)
EXTENDS Loaf

foo == <<1, 2, 2>>
bar == <<3, 4, 5>>
baz == <<3, 4, 6>>
Hello == <<7, 8, 9, 9, 2>>
world == <<10, 11, 2, 5, 9, 12, 13>>
HelloWorld == Hello \o world

Strings == << foo, bar, Hello \o world, foo \o bar, foo \o bar \o baz, world, Hello, << >>, <<NUL, 4>> >>
CstrBlock(str) == 1000 + (CHOOSE i \in DOMAIN Strings : Strings[i] = str)
S(str) == [at |-> CstrBlock(str), offset |-> 0, length |-> Len(str)]      \* skit_slice_of_cstrn
EmptyHeap ==
  [a \in AllAddresses \cup {CstrBlock(str) : str \in ToSet(Strings)} |->
     IF a \in AllAddresses THEN FREE
     ELSE [kind |-> "literal", handle |-> NULL, chars |-> Append(Strings[a - 1000], NUL)]]

ContentsOf(m) == Text(m.hp, m.lf)
(* What strlen and strcmp see.                                             *)
AsCstr(m) ==
  LET chars == m.hp[skit_slice_ptr(m.hp, m.lf)].chars
  IN  SubSeq(chars, 1, Min({i \in DOMAIN chars : chars[i] = NUL}) - 1)
Is(m, str) == ContentsOf(m) = str /\ AsCstr(m) = str
Freed(m) == skit_loaf_free(m) = [hp |-> EmptyHeap, lf |-> skit_loaf_null]

loaf10 == skit_loaf_alloc(EmptyHeap, 10)
Copy(str) == skit_loaf_copy_cstr(EmptyHeap, S(str))
NullLoaf == [hp |-> EmptyHeap, lf |-> skit_loaf_null]

skit_loaf_emplace_test ==
  LET m == skit_loaf_emplace(EmptyHeap, 119)
  IN  m.lf.length = 119 /\ skit_loaf_free(m) = [hp |-> m.hp, lf |-> skit_loaf_null]
skit_loaf_on_stack_test == skit_loaf_emplace(EmptyHeap, 32).lf.length = 32
skit_slice_len_test == loaf10.lf.length = 10
skit_slice_ptr_test ==
  LET m == Copy(foo \o bar \o baz) IN Text(m.hp, skit_slice_of(m.lf, 3, 6)) = bar /\ Freed(m)
skit_slice_is_null_test ==
  LET m == Copy(foo)
  IN  /\ skit_slice_is_null(skit_loaf_null) /\ skit_slice_is_null(skit_slice_null)
      /\ ~skit_slice_is_null(m.lf) /\ ~skit_slice_is_null(skit_slice_of(m.lf, 0, 2))
skit_slice_of_cstrn_test == S(foo).length = 3 /\ Text(EmptyHeap, S(foo)) = foo

skit_loaf_resize_test ==
  LET m1 == skit_loaf_resize(Copy(HelloWorld), 5)
      m2 == skit_loaf_resize(m1, 1024)
      m3 == skit_loaf_resize(m2, 512)
      m4 == skit_loaf_resize(m3, 1028)
  IN  (\A i \in 1 .. 4 : AsCstr(<<m1, m2, m3, m4>>[i]) = Hello) /\ Freed(m4)
skit_loaf_append_test == LET m == skit_loaf_append(Copy(Hello), S(world)) IN Is(m, HelloWorld) /\ Freed(m)
skit_slice_concat_test ==
  LET orig == Copy(HelloWorld)
      newb == skit_slice_concat(orig.hp, skit_slice_of(orig.lf, 0, 6), orig.lf)
  IN  Is(newb, Hello \o <<10>> \o HelloWorld)

(* The two tests also read the byte behind the new slice and expect the    *)
(* null byte that string.h promises there; nothing has written it.         *)
skit_slice_buffered_resize_test ==
  LET buffer == skit_loaf_alloc(EmptyHeap, 5)
      m == skit_slice_buffered_resize(buffer, skit_slice_of(buffer.lf, 2, 4), 5)
  IN  m.lf.length >= 6 /\ m.hp[skit_slice_ptr(m.hp, m.lf)].chars[8] = JUNK
skit_slice_buffered_append_test ==
  LET buffer == skit_loaf_alloc(EmptyHeap, 5)
      m1 == skit_slice_buffered_append(buffer, skit_slice_of(buffer.lf, 0, 0), S(foo))
      m2 == skit_slice_buffered_append(m1, skit_slice_of(m1.lf, 0, 3), S(bar))
  IN  m1.lf.length = 5 /\ m2.lf.length >= 6 /\ IsPrefix(foo \o bar \o <<JUNK>>, ContentsOf(m2)) /\ Freed(m2)

skit_loaf_dup_test ==
  LET m1 == Copy(foo)
      m2 == skit_loaf_dup(m1.hp, skit_slice_of(m1.lf, 0, 0))
      m3 == skit_loaf_store_cstr(m2, S(bar))
  IN  m2.lf.at # m1.lf.at /\ AsCstr([m1 EXCEPT !.hp = m3.hp]) = foo /\ AsCstr(m3) = bar

(* Small, larger, small again, on nothing, and nothing: for the four calls. *)
StoreTest(Call(_, _), shrinks) ==
  LET m1 == Call(skit_loaf_alloc(EmptyHeap, 8), S(foo))
      m2 == Call(m1, S(HelloWorld))
      m3 == Call(m2, S(foo))
      test1 == skit_slice_of(m1.lf, 0, 3)
      of_null == Call(NullLoaf, S(foo))
      nothing == Call(skit_loaf_alloc(EmptyHeap, 0), skit_slice_null)
  IN  /\ Text(m1.hp, test1) = foo /\ m1.lf.length = (IF shrinks THEN 3 ELSE 8)
      /\ ContentsOf(m2) = HelloWorld /\ Text(m2.hp, test1) # foo
      /\ Text(m3.hp, test1) = foo /\ m3.lf.length = (IF shrinks THEN 3 ELSE 12) /\ Freed(m3)
      /\ ContentsOf(of_null) = foo /\ skit_slice_is_null(nothing.lf) = shrinks
skit_loaf_store_cstr_test == StoreTest(skit_loaf_store_cstr, FALSE)
skit_loaf_assign_cstr_test == StoreTest(skit_loaf_assign_cstr, TRUE)
Nullified(Call(_, _)) == ContentsOf(Call(skit_loaf_alloc(EmptyHeap, 0), S(<<NUL, 4>>))) = <<NUL, 4>>
skit_loaf_store_slice_test == StoreTest(skit_loaf_store_slice, FALSE) /\ Nullified(skit_loaf_store_slice)
skit_loaf_assign_slice_test == StoreTest(skit_loaf_assign_slice, TRUE) /\ Nullified(skit_loaf_assign_slice)

skit_slice_of_subtest(hp, slice0) ==
  LET slice1 == skit_slice_of(slice0, 3, 5)
      slice2 == skit_slice_of(slice0, 3, SKIT_EOT)
  IN  /\ Text(hp, slice1) = <<3, 4>> /\ Text(hp, slice2) = bar
      /\ Text(hp, skit_slice_of(slice1, 0, -1)) = <<3>> /\ Text(hp, skit_slice_of(slice2, 1, 2)) = <<4>>
skit_slice_of_test ==
  LET m == Copy(foo \o bar)
  IN  skit_slice_of_subtest(m.hp, m.lf) /\ skit_slice_of_subtest(EmptyHeap, S(foo \o bar))

skit_loaf_free_test ==
  LET stack_loaf2 == skit_loaf_emplace(EmptyHeap, 64)
      resized == skit_loaf_resize(stack_loaf2, 128)
  IN  /\ loaf10.lf.length = 10 /\ Freed(loaf10)
      /\ resized.lf.length = 128 /\ skit_loaf_free(resized).lf = skit_loaf_null
      /\ {a \in AllAddresses : skit_loaf_free(resized).hp[a] # FREE} = {stack_loaf2.lf.at}

(***************************************************************************)
(* array_builtins.c, over text and over ints of four bytes                 *)
(***************************************************************************)
IntOf(elem) == <<elem, 0, 0, 0>>
Ints(elems) == FlattenSeq([i \in DOMAIN elems |-> IntOf(elems[i])])
Given(m, bytes) == [m EXCEPT !.hp[CstrBlock(bar)].chars = Append(bytes, NUL)]
GivenSlice(bytes) == [S(bar) EXCEPT !.length = Len(bytes)]

(* Four elements, a fifth, a slice of two of them, and one more behind it; *)
(* then two more behind the loaf.                                          *)
skit_slice_sanity_check(size) ==
  LET Encoded(elems) == IF size = 1 THEN elems ELSE Ints(elems)
      m4 == Write(skit_loaf_alloc(EmptyHeap, 4 * size), 0, Encoded(<<1, 3, 3, 7>>))
      m5 == Write(skit_loaf_resize(m4, 5 * size), 4 * size, Encoded(<<3>>))
      slice5 == skit_slice_of(m5.lf, 2 * size, SKIT_EOT)
      slice4 == skit_slice_of(m5.lf, 2 * size, 4 * size)
      m6 == skit_slice_buffered_append(Given(m5, Encoded(<<7>>)), slice4, GivenSlice(Encoded(<<7>>)))
  IN  /\ ContentsOf(m5) = Encoded(<<1, 3, 3, 7, 3>>)
      /\ Text(m5.hp, slice5) = Encoded(<<3, 7, 3>>) /\ Text(m5.hp, slice4) = Encoded(<<3, 7>>)
      /\ ContentsOf(m6) = Encoded(<<1, 3, 3, 7, 7>>)
      /\ LET m7 == skit_loaf_append(Given(m6, Encoded(<<0>>)), GivenSlice(Encoded(<<0>>)))
             m8 == skit_loaf_append(Given(m7, Encoded(<<8>>)), GivenSlice(Encoded(<<8>>)))
         IN  ContentsOf(m8) = Encoded(<<1, 3, 3, 7, 7, 0, 8>>)
skit_array_bfd_new_el_test ==
  LET loaf4 == skit_loaf_alloc(EmptyHeap, 16)
      New(m, elem, place) == Write(skit_slice_buffered_resize(m, skit_slice_of(m.lf, 0, 4 * place), 4 * place + 4),
                                   4 * place, IntOf(elem))
      m3 == New(New(New(loaf4, 42, 0), 9, 1), 243, 2)
  IN  SubSeq(ContentsOf(m3), 1, 12) = Ints(<<42, 9, 243>>) /\ Freed(m3)
skit_array_filter_test ==
  slice_bfd_filter(<<1, 2, 3>>, {1, 3}) = [n |-> 2, e |-> <<1, 3, 2>>]
skit_array_unittest ==
  /\ skit_slice_sanity_check(1) /\ skit_slice_sanity_check(4)
  /\ skit_array_bfd_new_el_test /\ skit_array_filter_test

skit_string_memory_unittest ==
  /\ skit_loaf_emplace_test /\ skit_loaf_on_stack_test /\ skit_slice_len_test /\ skit_slice_ptr_test
  /\ skit_slice_is_null_test /\ skit_slice_of_cstrn_test /\ skit_loaf_resize_test /\ skit_loaf_append_test
  /\ skit_slice_concat_test /\ skit_slice_buffered_resize_test /\ skit_slice_buffered_append_test
  /\ skit_loaf_dup_test /\ skit_loaf_store_cstr_test /\ skit_loaf_assign_cstr_test
  /\ skit_loaf_store_slice_test /\ skit_loaf_assign_slice_test /\ skit_slice_of_test /\ skit_loaf_free_test
=============================================================================
