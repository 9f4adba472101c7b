--------------------------------- MODULE Peg ---------------------------------
(***************************************************************************)
(* The parsing expression grammars of parsing/: the macros of peg_macros.h *)
(* and the rules of peg.c, as an interpreter.  A rule of the code is C     *)
(* statements that share the variables match and new_cursor; here it is an *)
(* expression, and Eval carries those two variables through it, with the   *)
(* error message, the calls of branch_discard and the actions, in order.   *)
(*                                                                         *)
(* A parser is its text, case_sensitive, and whether parse_whitespace is   *)
(* set (skit_peg_parse_whitespace, or NULL).                               *)
(***************************************************************************)
EXTENDS StringFunctions

NUM_NEXT_CHARS == 40

(***************************************************************************)
(* Expressions                                                             *)
(***************************************************************************)
Rule(name) == [op |-> name]       (* success, failure, word_boundary, ...   *)
Token(str) == [op |-> "token", str |-> str]
Keyword(str) == [op |-> "keyword", str |-> str]
Action(id) == [op |-> "action", id |-> id]
SEQ2(a, b) == [op |-> "seq", a |-> a, b |-> b]
CHOOSE2(a, b) == [op |-> "choose", a |-> a, b |-> b]
ZERO_OR_MORE(a) == [op |-> "star", a |-> a]
OPTIONAL(a) == [op |-> "optional", a |-> a]
NEG_LOOKAHEAD(a) == [op |-> "neg_lookahead", a |-> a]
RuleCall(body, auto) == [op |-> "rule", a |-> body, auto_consume_whitespace |-> auto]
LookupRule(choices) == [op |-> "lookup", choices |-> choices]

(* The longer forms nest the binary ones to the right or in halves.        *)
SEQ3(a, b, c) == SEQ2(a, SEQ2(b, c))
SEQ6(a, b, c, d, e, f) == SEQ2(SEQ3(a, b, c), SEQ3(d, e, f))
CHOOSE4(a, b, c, d) == CHOOSE2(CHOOSE2(a, b), CHOOSE2(c, d))
ONE_OR_MORE(a) == SEQ2(a, ZERO_OR_MORE(a))

(***************************************************************************)
(* Matches and the rules that peg.c supplies                               *)
(***************************************************************************)
skit_peg_match_success(begin, end) == [successful |-> TRUE, begin |-> begin, end |-> end, msg |-> << >>]
(* msg stands for the text that is printed into parser->last_error_msg.    *)
skit_peg_match_failure(position, msg) ==
  [successful |-> FALSE, begin |-> position, end |-> -1, msg |-> <<position, msg>>]

skit_peg_next_chars_in_parse(text, cursor, nchars) ==
  skit_slice_of(text, cursor, MinOf(cursor + nchars, Len(text)))

(* txt is C text: the count goes by ubound, that may pass the end.         *)
skit_peg_parse_one_newline(txt, cursor, ubound) ==
  cursor + skit_slice_match_nl(skit_slice_of(txt, 0, MinOf(ubound, Len(txt))), cursor)

skit_parsing_is_whitespace(c) == c \in {SPACE, TAB, LF, CR}
skit_peg_parse_whitespace(text, cursor) ==
  LET stops == {pos \in cursor .. Len(text) - 1 : ~skit_parsing_is_whitespace(text[pos + 1])}
  IN  IF stops = {} THEN (IF cursor > Len(text) THEN cursor ELSE Len(text)) ELSE Min(stops)

SKIT_PEG_success(cursor) == skit_peg_match_success(cursor, cursor)
SKIT_PEG_failure(cursor) == skit_peg_match_failure(cursor, "Could not parse.")

(* It advances while the whitespace parser answers 0, not "nothing         *)
(* consumed", so that it stops at once everywhere but at position 0.       *)
SKIT_PEG_non_whitespace(parser, cursor) ==
  LET text == parser.input
      stops == {pos \in cursor .. Len(text) - 1 : skit_peg_parse_whitespace(text, pos) # 0}
  IN  skit_peg_match_success(IF cursor >= Len(text) \/ ~parser.skip THEN cursor
                             ELSE IF stops = {} THEN Len(text) ELSE Min(stops), Len(text))

skit_peg_is_word_char_method(c) == skit_is_alphanumeric(c) \/ c = 95
IsWordAt(text, pos) == pos \in 0 .. Len(text) - 1 /\ skit_peg_is_word_char_method(text[pos + 1])

SKIT_PEG_word_boundary(text, cursor) ==
  LET word_after == IsWordAt(text, cursor)
      word_before == cursor > 0 /\ IsWordAt(text, cursor - 1)
  IN  IF word_before /\ word_after THEN skit_peg_match_failure(cursor, "Expected word boundary.")
      ELSE skit_peg_match_success(cursor, cursor)

SKIT_PEG_end_of_text(text, cursor) ==
  IF cursor < Len(text)
  THEN skit_peg_match_failure(cursor, skit_peg_next_chars_in_parse(text, cursor, NUM_NEXT_CHARS))
  ELSE skit_peg_match_success(cursor, cursor)

skit__peg_parse_token(text, cursor, token, case_sensitive) ==
  LET end == cursor + Len(token)
  IN  IF end > Len(text) \/ skit_slice_ascii_ccmp(skit_slice_of(text, cursor, end), token, case_sensitive) # 0
      THEN skit_peg_match_failure(cursor, token) ELSE skit_peg_match_success(cursor, end)

(* The first of the three that fails is returned as it is.                 *)
skit__peg_parse_keyword(text, cursor, keyword, case_sensitive) ==
  LET before == SKIT_PEG_word_boundary(text, cursor)
      m == skit__peg_parse_token(text, cursor, keyword, case_sensitive)
      after == SKIT_PEG_word_boundary(text, m.end)
  IN  CASE ~before.successful -> before
        [] before.successful /\ ~m.successful -> m
        [] OTHER -> IF after.successful THEN skit_peg_match_success(cursor, m.end) ELSE after

SKIT_PEG_any_word(text, cursor) ==
  LET word_end == Min({pos \in cursor + 1 .. Len(text) + 1 : ~IsWordAt(text, pos)})
  IN  CASE ~IsWordAt(text, cursor) -> skit_peg_match_failure(cursor, "Expected word")
        [] IsWordAt(text, cursor) /\ cursor > 0 /\ IsWordAt(text, cursor - 1) ->
             skit_peg_match_failure(cursor, "preceded by word characters")
        [] OTHER -> skit_peg_match_success(cursor, word_end)

(***************************************************************************)
(* The interpreter.  s: the match, new_cursor, parser->last_error_msg, and *)
(* the events so far, the newest last.                                     *)
(***************************************************************************)
Discard(position) == [discard |-> TRUE, at |-> position]
Act(id, position) == [discard |-> FALSE, at |-> position, id |-> id]

(* A call of skit_peg_match_success or of skit_peg_match_failure.          *)
Matched(s, match) ==
  [s EXCEPT !.match = match, !.last_error_msg = IF match.successful THEN @ ELSE match.msg]
Failed(s) == ~s.match.successful

(* new_cursor = position, and branch_discard(position)                     *)
SKIT_PEG__BRANCH_DISCARD(s, position) ==
  [s EXCEPT !.new_cursor = position, !.events = Append(@, Discard(position))]

(* new_cursor = match.end, and past the whitespace that follows when the   *)
(* rule has not switched that off.                                         *)
Advanced(s) == [s EXCEPT !.new_cursor = s.match.end]
ConsumeWhitespace(parser, auto, s) ==
  IF auto /\ parser.skip THEN [s EXCEPT !.new_cursor = skit_peg_parse_whitespace(parser.input, @)] ELSE s

RECURSIVE Eval(_, _, _, _, _), Repeat(_, _, _, _, _)

(* match = SKIT_PEG_name(parser, new_cursor, ubound): the rule has its own *)
(* cursor and new_cursor; those of the caller stay.                        *)
RULE(parser, e, s) ==
  LET called == Eval(parser, e.auto_consume_whitespace, s.new_cursor, e.a, s)
  IN  [called EXCEPT !.new_cursor = s.new_cursor]

SKIT_PEG_SEQ2(parser, auto, cursor, e, s) ==
  LET first == Eval(parser, auto, cursor, e.a, s)
      second == Eval(parser, auto, cursor, e.b, ConsumeWhitespace(parser, auto, Advanced(first)))
  IN  CASE Failed(first) -> first
        [] ~Failed(first) /\ Failed(second) -> second
        [] OTHER -> Matched(Advanced(second), skit_peg_match_success(cursor, second.match.end))

(* The loop of ZERO_OR_MORE, from the state at the top of an iteration.    *)
Repeat(parser, auto, cursor, e, s) ==
  LET body == Eval(parser, auto, cursor, e.a, s)
  IN  IF Failed(body) THEN SKIT_PEG__BRANCH_DISCARD(body, s.new_cursor)
      ELSE Repeat(parser, auto, cursor, e, ConsumeWhitespace(parser, auto, Advanced(body)))
SKIT_PEG_ZERO_OR_MORE1(parser, auto, cursor, e, s) ==
  LET ended == Repeat(parser, auto, cursor, e, s)
  IN  Matched(ended, skit_peg_match_success(cursor, ended.new_cursor))

SKIT_PEG_CHOOSE2(parser, auto, cursor, e, s) ==
  LET first == Eval(parser, auto, cursor, e.a, s)
      second == Eval(parser, auto, cursor, e.b, SKIT_PEG__BRANCH_DISCARD(first, s.new_cursor))
  IN  CASE ~Failed(first) -> Advanced(first)
        [] Failed(first) /\ ~Failed(second) -> Advanced(second)
        [] OTHER -> LET better == IF first.match.begin > second.match.begin THEN first ELSE second
                    IN  [second EXCEPT !.new_cursor = s.new_cursor, !.match = better.match,
                                       !.last_error_msg = better.last_error_msg]

(* Plausible bugs: the cursor of the abandoned branch is kept, or the       *)
(* branch is discarded from where it failed and not from where it began.   *)
SKIT_PEG_OPTIONAL1_unrestored(parser, auto, cursor, e, s) ==
  LET tried == Eval(parser, auto, cursor, e.a, s)
      new_cursor == tried.new_cursor
  IN  IF Failed(tried)
      THEN Matched(SKIT_PEG__BRANCH_DISCARD(tried, new_cursor), SKIT_PEG_success(new_cursor))
      ELSE Advanced(tried)
SKIT_PEG_OPTIONAL1_discarded_late(parser, auto, cursor, e, s) ==
  LET tried == Eval(parser, auto, cursor, e.a, s)
  IN  IF Failed(tried)
      THEN Matched([SKIT_PEG__BRANCH_DISCARD(tried, tried.new_cursor) EXCEPT !.new_cursor = s.new_cursor],
                   SKIT_PEG_success(s.new_cursor))
      ELSE Advanced(tried)

SKIT_PEG_OPTIONAL1(parser, auto, cursor, e, s) ==
  LET tried == Eval(parser, auto, cursor, e.a, s)
  IN  IF Failed(tried)
      THEN Matched(SKIT_PEG__BRANCH_DISCARD(tried, s.new_cursor), SKIT_PEG_success(s.new_cursor))
      ELSE Advanced(tried)

SKIT_PEG_ACTION(cursor, e, s) ==
  [s EXCEPT !.match = skit_peg_match_success(cursor, s.new_cursor),
            !.events = Append(@, Act(e.id, s.new_cursor))]

SKIT_PEG_NEG_LOOKAHEAD(parser, auto, cursor, e, s) ==
  LET tried == Eval(parser, auto, cursor, e.a, s)
      position == s.new_cursor
  IN  Matched(SKIT_PEG__BRANCH_DISCARD(tried, position),
              IF Failed(tried) THEN SKIT_PEG_success(position)
              ELSE skit_peg_match_failure(position, "Invalid syntax element"))

(* peg_lookup.h: a word, the keyword it is, the suffix of the keyword and  *)
(* then its rule.  The trie is a map here (Trie says when it is one), the  *)
(* keywords of a choice differ by more than their case, and the parser has *)
(* a parse_whitespace: the code calls it without asking.                   *)
Lookup(parser, auto, cursor, e, s) ==
  LET word == Matched(s, SKIT_PEG_any_word(parser.input, s.new_cursor))
      after_word == ConsumeWhitespace(parser, auto, Advanced(word))
      text == skit_slice_of(parser.input, s.new_cursor, word.match.end)
      which == {i \in DOMAIN e.choices :
                  skit_slice_ascii_ccmp(text, e.choices[i].keyword, parser.case_sensitive) = 0}
      choice == e.choices[Min(which)]
      suffix == Eval(parser, auto, cursor, choice.suffix, after_word)
      after_suffix == IF choice.suffix = Rule("success") THEN after_word
                      ELSE ConsumeWhitespace(parser, auto, Advanced(suffix))
      chosen == Eval(parser, auto, cursor, choice.rule, after_suffix)
  IN  CASE Failed(word) -> word
        [] ~Failed(word) /\ which = {} ->
             Matched(after_word, skit_peg_match_failure(after_word.new_cursor, "Expected keyword"))
        [] ~Failed(word) /\ which # {} /\ Failed(suffix) -> suffix
        [] OTHER -> IF Failed(chosen) THEN chosen ELSE Advanced(chosen)

Eval(parser, auto, cursor, e, s) ==
  LET text == parser.input
      at == s.new_cursor
  IN  CASE e.op = "success" -> Matched(s, SKIT_PEG_success(at))
        [] e.op = "failure" -> Matched(s, SKIT_PEG_failure(at))
        [] e.op = "non_whitespace" -> Matched(s, SKIT_PEG_non_whitespace(parser, at))
        [] e.op = "word_boundary" -> Matched(s, SKIT_PEG_word_boundary(text, at))
        [] e.op = "end_of_text" -> Matched(s, SKIT_PEG_end_of_text(text, at))
        [] e.op = "any_word" -> Matched(s, SKIT_PEG_any_word(text, at))
        [] e.op = "token" -> Matched(s, skit__peg_parse_token(text, at, e.str, parser.case_sensitive))
        [] e.op = "keyword" -> Matched(s, skit__peg_parse_keyword(text, at, e.str, parser.case_sensitive))
        [] e.op = "action" -> SKIT_PEG_ACTION(cursor, e, s)
        [] e.op = "seq" -> SKIT_PEG_SEQ2(parser, auto, cursor, e, s)
        [] e.op = "star" -> SKIT_PEG_ZERO_OR_MORE1(parser, auto, cursor, e, s)
        [] e.op = "choose" -> SKIT_PEG_CHOOSE2(parser, auto, cursor, e, s)
        [] e.op = "optional" -> SKIT_PEG_OPTIONAL1(parser, auto, cursor, e, s)
        [] e.op = "neg_lookahead" -> SKIT_PEG_NEG_LOOKAHEAD(parser, auto, cursor, e, s)
        [] e.op = "lookup" -> Lookup(parser, auto, cursor, e, s)
        [] e.op = "rule" -> RULE(parser, e, s)

(* SKIT_PEG_PARSING_INITIAL_VARS, then RULE.                               *)
Parser(input) == [input |-> input, case_sensitive |-> TRUE, skip |-> TRUE]
Parse(parser, e) ==
  RULE(parser, e, [match |-> SKIT_PEG_success(0), new_cursor |-> 0,
                   last_error_msg |-> << >>, events |-> << >>])

(***************************************************************************)
(* The trace of a parse: the line around a position, and the stretches of  *)
(* text that are printed beside the marks.                                 *)
(***************************************************************************)
IsNewline(c) == c \in {LF, CR}

(* input[line_start] is read before anything is known of it: at position 0 *)
(* of a text that begins with a newline the line begins after the newline. *)
skit_peg_get_line_bounds(input, position) ==
  LET ubound == Len(input)
      cursor == IF position > ubound THEN ubound ELSE IF position < 0 THEN 0 ELSE position
      newlines == {i \in 0 .. ubound - 1 : IsNewline(input[i + 1])}
      last == IF cursor > 0 THEN cursor - 1 ELSE 0
      before == {i \in newlines : i <= last}
      after == {i \in newlines : i >= cursor}
  IN  [begin |-> IF before = {} THEN 0 ELSE Max(before) + 1,
       end |-> IF after = {} THEN ubound ELSE Min(after)]

(* '%.*s': n characters from position i, none when n is not positive.      *)
Quote(i, n) == IF n >= 1 THEN << <<i, i + n>> >> ELSE << >>

skit__peg_print_marker(view, marker) ==
  LET before == marker - view.begin
      after == view.end - marker
  IN  IF before >= 1 THEN Quote(view.begin, before) \o Quote(marker, after)
      ELSE Quote(view.begin, after)

(* A plausible bug: the selection is quoted past the end of the view.      *)
skit__peg_print_selection_uncut(view, begin, end) ==
  LET before == begin - view.begin
  IN  IF begin >= view.end THEN skit__peg_print_marker(view, begin)
      ELSE Quote(view.begin, before) \o Quote(begin, end - begin) \o Quote(end, view.end - end)

skit__peg_print_selection(view, begin, end) ==
  LET before == begin - view.begin
      selected == MinOf(view.end, end) - (IF view.begin > begin THEN view.begin ELSE begin)
      after == view.end - end
  IN  CASE begin >= view.end -> skit__peg_print_marker(view, begin)
        [] begin < view.end /\ end <= view.begin -> skit__peg_print_marker(view, end)
        [] OTHER -> Quote(view.begin, before) \o
                    Quote(IF before >= 1 THEN begin ELSE view.begin, selected) \o Quote(end, after)

skit__peg_on_entry(text, cursor) ==
  skit__peg_print_selection(skit_peg_get_line_bounds(text, cursor), cursor, Len(text))

skit__peg_on_exit(text, match) ==
  LET line1 == skit_peg_get_line_bounds(text, match.begin)
      line2 == skit_peg_get_line_bounds(text, match.end)
  IN  CASE ~match.successful -> << >>
        [] match.successful /\ line1.begin = line2.begin ->
             skit__peg_print_selection(line1, match.begin, match.end)
        [] OTHER -> skit__peg_print_marker(line1, match.begin) \o skit__peg_print_marker(line2, match.end)
=============================================================================
