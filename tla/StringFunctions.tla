--------------------------- MODULE StringFunctions ---------------------------
(***************************************************************************)
(* The functions of string.c that read text and change no memory but a     *)
(* character.  A slice is the sequence of its bytes, positions count from  *)
(* 0 as in the code; who owns the bytes is in Loaf.                        *)
(***************************************************************************)
EXTENDS Integers, FiniteSetsExt, SequencesExt

MinOf(a, b) == IF a <= b THEN a ELSE b      (* SKIT_MIN                      *)

NullSlice == <<-1>>      (* skit_slice_null(), no text that a slice holds  *)
SKIT_EOT == 2147483647   (* the end of the text, as an index               *)

(* skit_slice_of, whose indices may count from the end.                    *)
Index(slice, i) == IF i < 0 THEN Len(slice) + i ELSE i
skit_slice_of(slice, index1, index2) ==
  SubSeq(slice, Index(slice, index1) + 1,
         IF index2 = SKIT_EOT THEN Len(slice) ELSE Index(slice, index2))

(***************************************************************************)
(* Characters                                                              *)
(***************************************************************************)
TAB == 9
LF == 10
VT == 11
CR == 13
SPACE == 32
SLASH == 47
BACKSLASH == 92

skit_is_alpha_upper(c) == c \in 65 .. 90
skit_is_alpha_lower(c) == c \in 97 .. 122
skit_is_alpha(c) == skit_is_alpha_upper(c) \/ skit_is_alpha_lower(c)
skit_is_digit(c) == c \in 48 .. 57
skit_is_alphanumeric(c) == skit_is_alpha(c) \/ skit_is_digit(c)
skit_is_whitespace(c) == c \in {SPACE, TAB, CR, LF, VT}

skit_char_ascii_to_lower(c) == IF skit_is_alpha_upper(c) THEN c - 65 + 97 ELSE c
skit_char_ascii_to_upper(c) == IF skit_is_alpha_lower(c) THEN c - 97 + 65 ELSE c
skit_slice_to_lower(slice) == [i \in DOMAIN slice |-> skit_char_ascii_to_lower(slice[i])]
skit_slice_to_upper(slice) == [i \in DOMAIN slice |-> skit_char_ascii_to_upper(slice[i])]

(***************************************************************************)
(* Comparison                                                              *)
(***************************************************************************)
(* A plausible bug: the bytes compared as the signed char of most builds.  *)
skit_char_ascii_ccmp_signed(c1, c2, case_sensitive) ==
  LET Signed(c) == IF c < 128 THEN c ELSE c - 256
      Fold(c) == IF case_sensitive THEN Signed(c) ELSE Signed(skit_char_ascii_to_lower(c))
  IN  Fold(c1) - Fold(c2)

skit_char_ascii_ccmp(c1, c2, case_sensitive) ==
  IF case_sensitive THEN c1 - c2
  ELSE skit_char_ascii_to_lower(c1) - skit_char_ascii_to_lower(c2)

(* The loop stops at the first difference, or where the shorter text ends. *)
skit_slice_common_cprefix(str1, str2, case_sensitive) ==
  LET len == MinOf(Len(str1), Len(str2))
      differs == {pos \in 1 .. len : skit_char_ascii_ccmp(str1[pos], str2[pos], case_sensitive) # 0}
  IN  skit_slice_of(str1, 0, IF differs = {} THEN len ELSE Min(differs) - 1)

skit_slice_ascii_ccmp(str1, str2, case_sensitive) ==
  IF str1 = NullSlice \/ str2 = NullSlice
  THEN CASE str1 = str2 -> 0 [] str1 # NullSlice -> 1 [] OTHER -> -1
  ELSE LET pos == Len(skit_slice_common_cprefix(str1, str2, case_sensitive))
           suffix_len_1 == Len(str1) - pos
           suffix_len_2 == Len(str2) - pos
       IN  IF suffix_len_1 = 0 \/ suffix_len_2 = 0 THEN suffix_len_1 - suffix_len_2
           ELSE skit_char_ascii_ccmp(str1[pos + 1], str2[pos + 1], case_sensitive)

(* The twelve operators on slices and the eighteen that compare through    *)
(* one are an operator of C on the result of the comparison.               *)
CmpOp == [ges |-> {x \in -255 .. 255 : x >= 0}, gts |-> 1 .. 255, les |-> -255 .. 0,
          lts |-> -255 .. -1, eqs |-> {0}, nes |-> (-255 .. 255) \ {0}]
skit_slice_c(op, str1, str2, case_sensitive) ==
  skit_slice_ascii_ccmp(str1, str2, case_sensitive) \in CmpOp[op]

(***************************************************************************)
(* Trimming                                                                *)
(***************************************************************************)
(* The loops of the left and of the right, with the characters that go.    *)
LTrim(slice, trimmed) ==
  LET stops == {i \in DOMAIN slice : slice[i] \notin trimmed}
  IN  skit_slice_of(slice, IF stops = {} THEN Len(slice) ELSE Min(stops) - 1, Len(slice))
RTrim(slice, trimmed) ==
  LET stops == {i \in DOMAIN slice : slice[i] \notin trimmed}
  IN  skit_slice_of(slice, 0, IF stops = {} THEN 0 ELSE Max(stops))

(* From the right the byte is read into a char, which is signed, and then  *)
(* compared with the bytes of the class, which are not.                    *)
SignedChar(byte) == IF byte < 128 THEN byte ELSE byte - 256

skit_slice_ltrimx(slice, char_class) == LTrim(slice, ToSet(char_class))
skit_slice_rtrimx(slice, char_class) == RTrim(slice, {c \in ToSet(char_class) : SignedChar(c) = c})
skit_slice_trimx(slice, char_class) == skit_slice_ltrimx(skit_slice_rtrimx(slice, char_class), char_class)
Whitespace == {c \in 0 .. 255 : skit_is_whitespace(c)}
skit_slice_ltrim(slice) == LTrim(slice, Whitespace)
skit_slice_rtrim(slice) == RTrim(slice, {c \in Whitespace : SignedChar(c) = c})
skit_slice_trim(slice) == skit_slice_ltrim(skit_slice_rtrim(slice))

skit_slice_ltruncate(slice, nchars) ==
  skit_slice_of(slice, MinOf(nchars, Len(slice)), Len(slice))
skit_slice_rtruncate(slice, nchars) ==
  skit_slice_of(slice, 0, Len(slice) - MinOf(nchars, Len(slice)))

(***************************************************************************)
(* Searching                                                               *)
(***************************************************************************)
skit_slice_match(haystack, needle, pos) ==
  /\ pos + Len(needle) <= Len(haystack)
  /\ \A i \in DOMAIN needle : haystack[pos + i] = needle[i]

(* The length of the newline at pos, 0 when there is none.                 *)
skit_slice_match_nl(text, pos) ==
  LET Holds(i, c) == i < Len(text) /\ text[i + 1] = c
  IN  IF Holds(pos, CR) /\ Holds(pos + 1, LF) THEN 2
      ELSE IF Holds(pos, CR) \/ Holds(pos, LF) THEN 1 ELSE 0

(* The position, or -1.                                                    *)
skit_slice_find(haystack, needle) ==
  LET found == {pos \in 0 .. Len(haystack) - 1 : skit_slice_match(haystack, needle, pos)}
  IN  IF found = {} THEN -1 ELSE Min(found)

(* A plausible bug: the tail begins one past the delimiter's first byte.    *)
skit_slice_partition_by_one(text, delimiter) ==
  LET pos == skit_slice_find(text, delimiter)
      head_end == IF pos >= 0 THEN pos ELSE Len(text)
  IN  [found |-> pos >= 0, head |-> skit_slice_of(text, 0, head_end),
       tail |-> skit_slice_of(text, MinOf(head_end + 1, Len(text)), Len(text))]

skit_slice_partition(text, delimiter) ==
  LET pos == skit_slice_find(text, delimiter)
      head_end == IF pos >= 0 THEN pos ELSE Len(text)
      tail_start == IF pos >= 0 THEN pos + Len(delimiter) ELSE Len(text)
  IN  [found |-> pos >= 0, head |-> skit_slice_of(text, 0, head_end),
       tail |-> skit_slice_of(text, tail_start, Len(text))]

skit_slice_take_head(text, delimiter) ==
  LET parts == skit_slice_partition(text, delimiter)
  IN  [have_next |-> Len(text) > 0, head |-> parts.head, text |-> parts.tail]

(* while ( skit_slice_take_head(&text, delimiter, &head) ) ...             *)
RECURSIVE Heads(_, _)
Heads(text, delimiter) ==
  LET taken == skit_slice_take_head(text, delimiter)
  IN  IF taken.have_next THEN <<taken.head>> \o Heads(taken.text, delimiter) ELSE << >>

(***************************************************************************)
(* Escapes                                                                 *)
(***************************************************************************)
skit_char_is_printable(c) == c \in 32 .. 126

(* The characters of skit_escape_table: 0 a b t n f r.                     *)
skit_escape_table ==
  (0 :> 48) @@ (7 :> 97) @@ (8 :> 98) @@ (9 :> 116) @@ (10 :> 110) @@ (12 :> 102) @@ (13 :> 114)
skit_int_to_hex(x) == IF x < 10 THEN x + 48 ELSE x - 10 + 65

Escaped(c) ==
  CASE skit_char_is_printable(c) -> <<c>>
    [] c \in DOMAIN skit_escape_table -> <<BACKSLASH, skit_escape_table[c]>>
    [] OTHER -> <<BACKSLASH, 120, skit_int_to_hex(c \div 16), skit_int_to_hex(c % 16)>>
skit_slice_escapify(str) == FlattenSeq([i \in DOMAIN str |-> Escaped(str[i])])
=============================================================================
