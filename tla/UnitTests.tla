------------------------------ MODULE UnitTests ------------------------------
(***************************************************************************)
(* The repository's own unit tests of the functions of text, asked of the  *)
(* models: a definition has the name of the test, and holds when the model *)
(* gives every answer that the test expects of the code.                   *)
(***************************************************************************)
EXTENDS Peg, Conversions, Bag

(* A string of TLA+ as the bytes of a C string.                            *)
Printable ==     \* from 32 on, without the double quote and the accent
  " !?#$%&'()*+,-./0123456789:;<=>?@ABCDEFGHIJKLMNOPQRSTUVWXYZ[\\]^_?abcdefghijklmnopqrstuvwxyz{|}~"
C(str) == [i \in 1 .. Len(str) |-> CHOOSE byte \in 32 .. 126 :
             SubSeq(Printable, byte - 31, byte - 31) = SubSeq(str, i, i)]

(***************************************************************************)
(* string.c                                                                *)
(***************************************************************************)
skit_is_alpha_test ==
  LET some == ToSet(C("ACZacz {")) \cup {0}
  IN  /\ {c \in some : skit_is_alpha_lower(c)} = ToSet(C("acz"))
      /\ {c \in some : skit_is_alpha_upper(c)} = ToSet(C("ACZ"))
      /\ {c \in some : skit_is_alpha(c)} = ToSet(C("ACZacz"))
skit_is_digit_test == {c \in ToSet(C("019a ")) : skit_is_digit(c)} = ToSet(C("019"))
skit_is_whitespace_test == {c \in {SPACE, VT, 97} : skit_is_whitespace(c)} = {SPACE, VT}

skit_slice_to_lower_test == skit_slice_to_lower(C("fOObaR")) = C("foobar")
skit_slice_to_upper_test == skit_slice_to_upper(C("fOObaR")) = C("FOOBAR")

skit_slice_common_prefix_test ==
  /\ skit_slice_common_cprefix(C("foobar"), C("foobaz"), TRUE) = C("fooba")
  /\ skit_slice_common_cprefix(C("fOobar"), C("FoObaz"), FALSE) = C("fOoba")
  /\ skit_slice_common_cprefix(C("fOobar"), C("FoObaz"), TRUE) = << >>

skit_slice_ascii_cmp_test ==
  LET cmp(a, b) == skit_slice_ascii_ccmp(a, b, TRUE)
      Below(a, b) == cmp(a, b) < 0 /\ cmp(b, a) > 0
  IN  /\ Below(C("-------"), C("----------")) /\ Below(C("aaa"), C("bbb"))
      /\ Below(C("aaa"), C("aaaa")) /\ Below(C("aaaa"), C("bbb")) /\ Below(NullSlice, C("aaa"))
      /\ \A s \in {NullSlice, C("aaa"), C("----------")} : cmp(s, s) = 0
      /\ \A s, t \in {C("aaa"), C("AAA"), C("aAa")} :
           skit_slice_ascii_ccmp(s, t, FALSE) = 0 /\ (s # t => cmp(s, t) # 0)

skit_slice_comparison_ops_test ==
  LET Holds(lo, hi, case_sensitive) ==
        {op \in DOMAIN CmpOp : skit_slice_c(op, lo, hi, case_sensitive)}
  IN  /\ Holds(C("aaa"), C("bbb"), TRUE) = {"les", "lts", "nes"}
      /\ Holds(C("bbb"), C("aaa"), TRUE) = {"ges", "gts", "nes"}
      /\ Holds(C("bbb"), C("bbb"), TRUE) = {"ges", "les", "eqs"}
      /\ Holds(NullSlice, C("aaa"), TRUE) = {"les", "lts", "nes"}
      /\ Holds(NullSlice, NullSlice, TRUE) = {"ges", "les", "eqs"}
      /\ Holds(C("aaa"), C("BBB"), FALSE) = {"les", "lts", "nes"}
      /\ Holds(C("BBB"), C("aaa"), FALSE) = {"ges", "gts", "nes"}
      /\ Holds(C("BBB"), C("BBB"), FALSE) = {"ges", "les", "eqs"}

skit_slice_trimx_test ==
  LET slice0 == C("xxfooabc")
  IN  /\ skit_slice_ltrimx(slice0, C("x")) = C("fooabc")
      /\ skit_slice_rtrimx(slice0, C("c")) = C("xxfooab")
      /\ skit_slice_trimx(slice0, C("xabc")) = C("foo")
skit_slice_trim_test ==
  LET slice0 == C("  foo ") \o <<LF>>
  IN  /\ skit_slice_ltrim(slice0) = C("foo ") \o <<LF>>
      /\ skit_slice_rtrim(slice0) = C("  foo")
      /\ skit_slice_trim(slice0) = C("foo")
skit_slice_truncate_test ==
  skit_slice_ltruncate(C("foobar"), 3) = C("bar") /\ skit_slice_rtruncate(C("foobar"), 3) = C("foo")

skit_slice_match_test ==
  {pos \in {0, 3, 6, 8} : skit_slice_match(C("foobarbaz"), C("bar"), pos)} = {3}
skit_slice_match_test_nl ==
  LET haystack == C("foo") \o <<LF>> \o C("bar") \o <<CR, LF>> \o C("baz") \o <<CR>> \o C("qux")
  IN  [pos \in {0, 2, 3, 4, 7, 8, 12, 13} |-> skit_slice_match_nl(haystack, pos)]
        = (3 :> 1) @@ (7 :> 2) @@ (8 :> 1) @@ (12 :> 1) @@ [pos \in {0, 2, 4, 13} |-> 0]
skit_slice_find_test ==
  \A pair \in {<<"x", -1>>, <<"o", 1>>, <<"f", 0>>} : skit_slice_find(C("foo"), C(pair[1])) = pair[2]

skit_slice_partition_test ==
  LET Parts(text) == skit_slice_partition(C(text), C(" "))
  IN  /\ Parts("Hello world!") = [found |-> TRUE, head |-> C("Hello"), tail |-> C("world!")]
      /\ Parts("Hello") = [found |-> FALSE, head |-> C("Hello"), tail |-> << >>]
      /\ Parts("") = [found |-> FALSE, head |-> << >>, tail |-> << >>]
skit_slice_take_head_test ==
  /\ skit_slice_take_head(C("a b c"), C(" ")) = [have_next |-> TRUE, head |-> C("a"), text |-> C("b c")]
  /\ ~skit_slice_take_head(<< >>, C(" ")).have_next
  /\ Heads(C("a b c"), C(" ")) = <<C("a"), C("b"), C("c")>>

skit_slice_escapify_test ==
  /\ \A c \in {48, 255} : c \notin DOMAIN skit_escape_table
  /\ skit_slice_escapify(<<0>> \o C("a")) = C("\\0a")
  /\ skit_slice_escapify(<<CR, LF>> \o C("xy") \o <<2>>) = C("\\r\\nxy\\x02")
  /\ skit_slice_escapify(<<255>>) = C("\\xFF")

(***************************************************************************)
(* path.c, flags.c, datetime.c, math.c, regex.c                            *)
(***************************************************************************)
skit_path_join_test ==
  /\ \A joined \in {<<"x", "y", "x/y">>, <<"x", "", "x">>, <<"", "y", "y">>, <<"x/", "y", "x/y">>,
                    <<"/", "y", "/y">>, <<"x", "./y", "x/y">>} :
       skit_path_join(C(joined[1]), C(joined[2])) = C(joined[3])
  /\ skit_path_join(C("x"), C("/y")) = THROWN

skit_str_to_flags_unittest ==
  /\ \A cstr \in {"agz", "zga"} : skit_str_to_flags(C(cstr)) = <<2^0 + 2^6 + 2^25>>
  /\ skit_str_to_flags(<< >>) = <<0>>
  /\ \A cstr \in {"Q", " ", "accz"} : skit_str_to_flags(C(cstr)) = THROWN
skit_flags_to_str_unittest ==
  skit_flags_to_str(2^0 + 2^6 + 2^25) = C("agz") /\ skit_flags_to_str(0) = << >>

skit_datetime_parse_int_test ==
  /\ \A n \in {2, 4, 6} : skit__datetime_parse_int(SubSeq(C("1234567"), 1, n)) = 1234567 \div 10^(7 - n)
  /\ skit__datetime_parse_int(C("ab")) = -1

skit_datetime_parse_test ==
  LET Gives(parse, str, fields) ==
        parse.matched = C(str) /\ \A f \in DOMAIN fields : parse.tm[f] = fields[f]
      Date(name, str, fields) == Gives(skit_parse_date(name, C(str)), str, fields)
      Time(name, str, fields) == Gives(skit_parse_time(name, C(str)), str, fields)
  IN  /\ Date("YYYY_MM_DD", "1985-02-17",
              [tm_year |-> 85, tm_mon |-> 1, tm_mday |-> 17, tm_hour |-> UNSET, nanoseconds |-> UNSET])
      /\ skit_parse_date("YYYY_MM_DD", C("19AA-05-17")).matched = NullSlice
      /\ Time("hh_mm_ss_nnn", "17:32:60.123",
              [tm_year |-> UNSET, tm_hour |-> 17, tm_min |-> 32, tm_sec |-> 60, nanoseconds |-> 123000000])
      /\ Date("YYMMDD", "061231", [tm_year |-> 106, tm_mon |-> 11, tm_mday |-> 31])
      /\ Date("YYMMDD", "961231", [tm_year |-> 96, tm_mon |-> 11, tm_mday |-> 31])
      /\ Date("YYYYMMDD", "00170101 BC", [tm_year |-> -1917, tm_mon |-> 0, tm_mday |-> 1])
      /\ Time("hhmmss", "075900 pM", [tm_hour |-> 19, tm_min |-> 59, tm_sec |-> 0])

skit_math_ipow_test ==
  \A power \in {<<2, 0, 1>>, <<2, 2, 4>>, <<3, 2, 9>>, <<3, 3, 27>>, <<-2, 2, 4>>, <<-2, 0, 1>>} :
    skit_ipow(power[1], power[2]) = power[3]

skit_regex_unittest == skit_regex_match_n(C("aa") \o <<0>> \o C("a")) = C("aa") \o <<0>>

(***************************************************************************)
(* parsing/peg.c                                                           *)
(***************************************************************************)
skit_peg_parse_one_newline_test ==
  LET mline == C("x") \o <<LF>> \o C(";y") \o <<CR, LF>> \o C(";z")
  IN  [pos \in 0 .. 8 |-> skit_peg_parse_one_newline(mline, pos, Len(mline) + 1)]
        = [pos \in 0 .. 8 |-> CASE pos = 1 -> 2 [] pos \in {4, 5} -> 6 [] OTHER -> pos]

skit_peg_whitespace_test ==
  LET text == C("A B") \o <<TAB>> \o C("C  D") \o <<CR, LF>> \o C("E") \o <<LF, CR>> \o C("F")
              \o <<CR>> \o C("H")
      stops == (1 :> 2) @@ (3 :> 4) @@ (5 :> 7) @@ (8 :> 10) @@ (11 :> 13) @@ (14 :> 15)
  IN  \A pos \in (0 .. 16) \ {6, 9, 12} :
        skit_peg_parse_whitespace(text, pos) = IF pos \in DOMAIN stops THEN stops[pos] ELSE pos

skit_peg_macros_test ==
  LET Succeeds(a, b) == Parse(Parser(C("a")), RuleCall(SEQ2(Rule(a), Rule(b)), TRUE)).match.successful
  IN  /\ Succeeds("success", "success")
      /\ ~\E a, b \in {"success", "failure"} : "failure" \in {a, b} /\ Succeeds(a, b)

ThisIsAWord == C("This is a word.")
skit_peg_word_boundary_test ==
  {pos \in 0 .. 15 : SKIT_PEG_word_boundary(ThisIsAWord, pos).successful} = {0, 4, 5, 7, 8, 9, 10, 14, 15}
skit_peg_any_word_test ==
  /\ \A pos \in 0 .. 15 : LET word == SKIT_PEG_any_word(ThisIsAWord, pos)
                              ends == (0 :> 4) @@ (5 :> 7) @@ (8 :> 9) @@ (10 :> 14)
                          IN  word.end = IF pos \in DOMAIN ends THEN ends[pos] ELSE -1
  /\ \A pos \in 0 .. 3 : SKIT_PEG_any_word(C("word"), pos).successful = (pos = 0)
  /\ SKIT_PEG_any_word(C("x"), 0).end = 1
skit_peg_end_of_text_test ==
  /\ ~SKIT_PEG_end_of_text(C("."), 0).successful /\ SKIT_PEG_end_of_text(C("."), 1).successful
  /\ SKIT_PEG_end_of_text(<< >>, 0).successful

Choice(keyword, suffix, id) == [keyword |-> C(keyword), suffix |-> suffix, rule |-> Action(id)]
lookup_test ==
  LookupRule(<<Choice("x", Rule("success"), 1), Choice("foobar", Rule("success"), 2),
               Choice("foo", Rule("success"), 3), Choice("FOO", Rule("success"), 4)>>)
suffix_test ==
  LET bar == Keyword(C("bar"))
      baz == Keyword(C("baz"))
  IN  LookupRule(<<Choice("x", bar, 1), Choice("foobar", bar, 2), Choice("foo", baz, 3), Choice("FOO", baz, 4)>>)
skit_peg_lookup_test ==
  LET Passes(e, str, result) ==
        LET parsed == Parse(Parser(C(str)), RuleCall(e, TRUE))
        IN  parsed.match.successful /\ parsed.match.end = Len(str) /\ Last(parsed.events).id = result
  IN  /\ Passes(lookup_test, "x", 1) /\ Passes(lookup_test, "foobar", 2)
      /\ Passes(lookup_test, "foo", 3) /\ Passes(lookup_test, "FOO", 4)
      /\ Passes(suffix_test, "x bar", 1) /\ Passes(suffix_test, "foobar bar", 2)
      /\ Passes(suffix_test, "foo baz", 3) /\ Passes(suffix_test, "FOO baz", 4)

Str(str) == Token(C(str))
branch_discard_rules ==
  <<SEQ6(Str("a"), CHOOSE4(Str("x"), Str("y"), Str("z"), Str("b")), OPTIONAL(Str("q")), Str("c"),
         NEG_LOOKAHEAD(Str("1")), Str("d")),
    SEQ3(ZERO_OR_MORE(Str("a")), Str("b"), ONE_OR_MORE(Str("a"))),
    CHOOSE2(SEQ2(Str("a"), CHOOSE2(Str("x"), Str("y"))), Str("abc"))>>
skit_peg_branch_discard_test ==
  LET Discards(str, e) == Parse(Parser(C(str)), RuleCall(e, FALSE)).events
      At(positions) == [i \in DOMAIN positions |-> Discard(positions[i])]
  IN  /\ Discards("abcd", branch_discard_rules[1]) = At(<<1, 1, 1, 2, 3>>)
      /\ Discards("aaaabaaaa", branch_discard_rules[2]) = At(<<4, 9>>)
      /\ Discards("abc", branch_discard_rules[3]) = At(<<1, 0>>)

skit_peg_line_bounds_test ==
  LET str == C("foo") \o <<LF>> \o C("bar") \o <<LF>> \o C("baz")
  IN  \A pos \in {0, 2, 3, 4, 6, 7, 8, 9, 11} :
        skit_peg_get_line_bounds(str, pos) = LET first == 4 * (pos \div 4)
                                             IN  [begin |-> first, end |-> first + 3]

skit_bag_unittest ==
  LET layout == SKIT_BAG_REGISTER_FIELDS(<<4, 4, 8>>)
      values == <<<<247, 255, 255, 255>>, <<42, 0, 0, 0>>, C("Hi!pppp") \o <<0>>>>
      Set(bag, field_id) == skit_bag_set_field(layout, bag, field_id, values[field_id + 1])
      bag == FoldLeft(Set, skit_bag_new(layout), <<0, 1, 2>>)
  IN  \A id \in 0 .. 2 : skit_bag_get_field(layout, bag, id, Len(values[id + 1])) = values[id + 1]

(* The lists of tests that unittest.c runs.                                *)
ASSUME skit_string_unittest ==
  /\ skit_is_alpha_test /\ skit_is_digit_test /\ skit_is_whitespace_test
  /\ skit_slice_to_lower_test /\ skit_slice_to_upper_test /\ skit_slice_common_prefix_test
  /\ skit_slice_ascii_cmp_test /\ skit_slice_comparison_ops_test
  /\ skit_slice_trimx_test /\ skit_slice_trim_test /\ skit_slice_truncate_test
  /\ skit_slice_match_test /\ skit_slice_match_test_nl /\ skit_slice_find_test
  /\ skit_slice_partition_test /\ skit_slice_take_head_test /\ skit_slice_escapify_test
ASSUME small_modules_unittest ==
  /\ skit_path_join_test /\ skit_str_to_flags_unittest /\ skit_flags_to_str_unittest
  /\ skit_datetime_parse_int_test /\ skit_datetime_parse_test /\ skit_math_ipow_test /\ skit_regex_unittest
  /\ skit_bag_unittest
ASSUME skit_peg_unittests ==
  /\ skit_peg_macros_test /\ skit_peg_parse_one_newline_test /\ skit_peg_whitespace_test
  /\ skit_peg_word_boundary_test /\ skit_peg_end_of_text_test /\ skit_peg_any_word_test
  /\ skit_peg_lookup_test /\ skit_peg_branch_discard_test /\ skit_peg_line_bounds_test

(* The tests that allocate have a heap of four blocks.                     *)
Memory == INSTANCE LoafTests WITH
  Loaves <- {}, Strides <- {}, Literals <- << >>, MaxLength <- 0,
  Addresses <- [block |-> {1, 2}, chars |-> {3, 4}],
  heap <- << >>, loaf <- << >>, slice <- << >>, stride <- 1
ASSUME Memory!skit_string_memory_unittest /\ Memory!skit_array_unittest

Streaming == INSTANCE StreamTests WITH C <- C, Chunk <- [smallest |-> 8, default |-> 1024]
ASSUME skit_stream_unittests ==
  /\ Streaming!skit_text_stream_unittests /\ Streaming!skit_ind_stream_unittests
  /\ Streaming!skit_pfile_stream_unittests /\ Streaming!skit_tcp_stream_unittests
  /\ Streaming!skit_empty_stream_unittests
=============================================================================
