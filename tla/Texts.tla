-------------------------------- MODULE Texts --------------------------------
(***************************************************************************)
(* Texts typed one character at a time, and what every function of text    *)
(* says of them: the slices, comparisons, conversions and parsers of the   *)
(* library have no state of their own, so each is held to what it promises *)
(* in every state that typing reaches.                                     *)
(***************************************************************************)
EXTENDS Peg, Conversions, Bag

CONSTANTS Keyboards,   (* [letters, max, other_letters, other_max]: two texts and their bounds *)
          Grammars     (* expressions, in which an action follows what consumes a character    *)

ASSUME KeyboardsAssumption ==
  \A k \in Keyboards : k.letters \cup k.other_letters \subseteq 0 .. 255 /\ {k.max, k.other_max} \subseteq Nat

VARIABLES keyboard, text, other
vars == <<keyboard, text, other>>

Init == keyboard \in Keyboards /\ text = << >> /\ other = << >>

TypeText ==
  /\ Len(text) < keyboard.max
  /\ \E c \in keyboard.letters : text' = Append(text, c)
  /\ UNCHANGED <<keyboard, other>>
TypeOther ==
  /\ Len(other) < keyboard.other_max
  /\ \E c \in keyboard.other_letters : other' = Append(other, c)
  /\ UNCHANGED <<keyboard, text>>
Next == TypeText \/ TypeOther

Spec == Init /\ [][Next]_vars

(***************************************************************************)
(* Slices                                                                  *)
(***************************************************************************)
Joined(fields, delimiter) ==
  FoldLeft(LAMBDA so_far, field : so_far \o delimiter \o field, Head(fields), Tail(fields))
Occurs(needle, haystack) ==
  \E i \in 0 .. Len(haystack) - Len(needle) : SubSeq(haystack, i + 1, i + Len(needle)) = needle

(* A loop of skit_slice_take_head yields the fields between delimiters: no *)
(* field holds the delimiter, and put back together they are the text but  *)
(* for a delimiter at its very end (string.c skit_slice_take_head, find).  *)
FieldsRejoin ==
  LET fields == Heads(text, other)
  IN  other # << >> /\ text # << >> =>
        /\ \A i \in DOMAIN fields : ~Occurs(other, fields[i])
        /\ text \in {Joined(fields, other), Joined(fields, other) \o other}

(* What is trimmed from the left and from the right meet: the two sides do *)
(* the same to a text and to its mirror image, and what is left of a text  *)
(* is neither empty by accident nor begins or ends with what was trimmed.  *)
(* Bytes above 127 are outside: the right side reads them as negative.     *)
TrimsMirror ==
  (\A i \in DOMAIN text : text[i] < 128) =>
    /\ skit_slice_rtrim(text) = Reverse(skit_slice_ltrim(Reverse(text)))
    /\ skit_slice_rtrimx(text, other) = Reverse(skit_slice_ltrimx(Reverse(text), other))
    /\ LET left == skit_slice_trimx(text, other)
       IN  IF \A j \in DOMAIN text : text[j] \in ToSet(other) THEN left = << >>
           ELSE {left[1], left[Len(left)]} \cap ToSet(other) = {} /\ Occurs(left, text)

SlicesKeepTheirText == FieldsRejoin /\ TrimsMirror

(* The comparisons are the lexicographic order of the bytes, or of their   *)
(* lower case, in every one of the operators; the common prefix is as long *)
(* as a common prefix can be (string.c skit_slice_ascii_ccmp).             *)
Precedes(a, b) ==
  \E n \in 0 .. MinOf(Len(a), Len(b)) :
    /\ SubSeq(a, 1, n) = SubSeq(b, 1, n)
    /\ IF n = Len(a) THEN n < Len(b) ELSE n < Len(b) /\ a[n + 1] < b[n + 1]
ComparisonIsLexicographic ==
  \A case_sensitive \in BOOLEAN :
    LET a == IF case_sensitive THEN text ELSE skit_slice_to_lower(text)
        b == IF case_sensitive THEN other ELSE skit_slice_to_lower(other)
        prefix == Len(skit_slice_common_cprefix(text, other, case_sensitive))
        Is(op) == skit_slice_c(op, text, other, case_sensitive)
    IN  /\ Is("lts") = Precedes(a, b) /\ Is("gts") = Precedes(b, a) /\ Is("eqs") = (a = b)
        /\ Is("les") = ~Precedes(b, a) /\ Is("ges") = ~Precedes(a, b) /\ Is("nes") = (a # b)
        /\ prefix = Max({n \in 0 .. MinOf(Len(a), Len(b)) : SubSeq(a, 1, n) = SubSeq(b, 1, n)})

(***************************************************************************)
(* Conversions                                                             *)
(***************************************************************************)
(* A text is a set of flags exactly when it is distinct lower case letters, *)
(* and the set prints as those letters in order (flags.c).                 *)
FlagsRoundTrip ==
  LET flags == skit_str_to_flags(text)
  IN  IF IsInjective(text) /\ \A i \in DOMAIN text : skit_is_alpha_lower(text[i])
      THEN skit_flags_to_str(flags[1]) = SetToSortSeq(ToSet(text), <) ELSE flags = THROWN

(* Two texts that escape to the same are the same, but where a backslash   *)
(* passes unescaped; and what is printed is printable (string.c escapify). *)
EscapesTell ==
  LET escaped == skit_slice_escapify(text)
  IN  /\ \A i \in DOMAIN escaped : skit_char_is_printable(escaped[i])
      /\ escaped = skit_slice_escapify(other) =>
           text = other \/ BACKSLASH \in ToSet(text) \cup ToSet(other)

(* A joined path is rooted where its first part is, ends with its second   *)
(* part (less one "./"), and the seam holds one slash (path.c,             *)
(* skit_path_join).  Two exceptions: a root of several slashes joined with *)
(* nothing is lost, and a second part that begins ".//" becomes rooted.    *)
PathsStayRooted ==
  LET joined == skit_path_join(text, other)
      IsRooted(path) == path # << >> /\ path[1] = SLASH
      rest == StripDotSlash(other)
      seam == Len(joined) - Len(rest)
  IN  joined # THROWN /\ ~IsRooted(rest) =>
        /\ IsRooted(joined) = IsRooted(text) \/ (rest = << >> /\ ToSet(text) = {SLASH} /\ Len(text) > 1)
        /\ IsSuffix(rest, joined)
        /\ rest # << >> /\ text # << >> =>
             joined[seam] = SLASH /\ (seam > 1 => joined[seam - 1] # SLASH)

Digits(number, width) == [i \in 1 .. width |-> 48 + ((number \div 10^(width - i)) % 10)]

(* A time that is read is what was written: its digits printed again are   *)
(* the matched text, the hour after noon of a "pm" (but 12 am, which stays *)
(* 12), and a date in a format without one is not touched (datetime.h).    *)
TimesRoundTrip ==
  LET parse == skit_parse_time("hhmm", text \o other)
      suffix == skit_slice_ltrim(skit_slice_of(parse.matched, 4, SKIT_EOT))
  IN  parse.matched # NullSlice =>
        /\ IsPrefix(parse.matched, text \o other)
        /\ SubSeq(parse.matched, 3, 4) = Digits(parse.tm.tm_min, 2)
        /\ IF skit_slice_to_lower(suffix) = <<112, 109>>
           THEN parse.tm.tm_hour >= 12 /\
                SubSeq(parse.matched, 1, 2) \in {Digits(parse.tm.tm_hour, 2), Digits(parse.tm.tm_hour - 12, 2)}
           ELSE SubSeq(parse.matched, 1, 2) = Digits(parse.tm.tm_hour, 2)
        /\ parse.tm.tm_year = UNSET /\ parse.tm.tm_mday = UNSET

(* Text as the sizes of a bag's fields: each field keeps what was put in,  *)
(* whichever field is set after it, and one never set is 0 (bag.c).        *)
BagKeepsFields ==
  LET layout == SKIT_BAG_REGISTER_FIELDS(text)
      Filled(i) == [byte \in 1 .. text[i + 1] |-> i + 1]
      Set(contents, i) == skit_bag_set_field(layout, contents, i, Filled(i))
      Get(contents, i) == skit_bag_get_field(layout, contents, i, text[i + 1])
      ids == 0 .. Len(text) - 1
  IN  ToSet(text) \subseteq 1 .. 8 =>
        \A i, j, k \in ids :
          LET contents == Set(Set(skit_bag_new(layout), i), j)
          IN  Get(contents, k) = IF k \in {i, j} THEN Filled(k) ELSE [byte \in 1 .. text[k + 1] |-> 0]

ConversionsInvert == BagKeepsFields /\ FlagsRoundTrip /\ EscapesTell /\ PathsStayRooted /\ TimesRoundTrip

(***************************************************************************)
(* Parsing.  What a grammar means, without cursors to restore: where an    *)
(* expression ends when it starts at i, and the actions on the way.        *)
(***************************************************************************)
NoParse == [ok |-> FALSE, end |-> -1, acts |-> << >>]
Ends(i, acts) == [ok |-> TRUE, end |-> i, acts |-> acts]

RECURSIVE Meaning(_, _, _, _)
Meaning(parser, auto, e, i) ==
  LET Skip(pos) == IF auto THEN skit_peg_parse_whitespace(parser.input, pos) ELSE pos
      Leaf(match) == IF match.successful THEN Ends(match.end, << >>) ELSE NoParse
      Sub(a, pos) == Meaning(parser, auto, a, pos)
      Then(first, a, pos) ==
        LET second == Sub(a, pos)
        IN  IF first.ok /\ second.ok THEN Ends(second.end, first.acts \o second.acts) ELSE NoParse
      first == Sub(e.a, i)
      more == Sub(e, Skip(first.end))
      word == SKIT_PEG_any_word(parser.input, i)
      chosen == {choice \in ToSet(e.choices) :
                   choice.keyword = skit_slice_of(parser.input, i, word.end)}
      choice == CHOOSE choice \in chosen : TRUE
  IN  CASE e.op = "success" -> Ends(i, << >>)
        [] e.op = "failure" -> NoParse
        [] e.op = "word_boundary" -> Leaf(SKIT_PEG_word_boundary(parser.input, i))
        [] e.op = "end_of_text" -> IF i = Len(parser.input) THEN Ends(i, << >>) ELSE NoParse
        [] e.op = "any_word" -> Leaf(SKIT_PEG_any_word(parser.input, i))
        [] e.op = "token" -> IF skit_slice_match(parser.input, e.str, i)
                             THEN Ends(i + Len(e.str), << >>) ELSE NoParse
        [] e.op = "keyword" -> IF Leaf(SKIT_PEG_any_word(parser.input, i)).ok /\
                                  skit_slice_of(parser.input, i, word.end) = e.str
                               THEN Ends(word.end, << >>) ELSE NoParse
        [] e.op = "action" -> Ends(i, <<[id |-> e.id, at |-> i]>>)
        [] e.op = "seq" -> IF first.ok THEN Then(first, e.b, Skip(first.end)) ELSE NoParse
        [] e.op = "choose" -> IF first.ok THEN first ELSE Sub(e.b, i)
        [] e.op = "star" -> IF ~first.ok THEN Ends(i, << >>) ELSE Ends(more.end, first.acts \o more.acts)
        [] e.op = "optional" -> IF first.ok THEN first ELSE Ends(i, << >>)
        [] e.op = "neg_lookahead" -> IF first.ok THEN NoParse ELSE Ends(i, << >>)
        [] e.op = "rule" -> Meaning(parser, e.auto_consume_whitespace, e.a, i)
        [] e.op = "lookup" ->
             IF ~word.successful \/ chosen = {} THEN NoParse
             ELSE LET suffix == Sub(choice.suffix, Skip(word.end))
                  IN  IF suffix.ok
                      THEN Then(suffix, choice.rule,
                                IF choice.suffix.op = "success" THEN Skip(word.end) ELSE Skip(suffix.end))
                      ELSE NoParse

Meant(e) == Meaning(Parser(text), TRUE, e, 0)
Parsed(e) == Parse(Parser(text), e)

(* The macros, which share match and new_cursor with everything they are   *)
(* nested in, parse what the grammar means: an abandoned branch leaves no  *)
(* trace in the cursors.  When they fail, the message that is left in the  *)
(* parser is the one of the failure they return (peg_macros.h).            *)
MatchAgreesWithGrammar ==
  \A e \in Grammars :
    LET parsed == Parsed(e)
        meant == Meant(e)
    IN  /\ parsed.match.successful = meant.ok
        /\ meant.ok => parsed.match.begin = 0 /\ parsed.match.end = meant.end
        /\ ~meant.ok => parsed.last_error_msg = parsed.match.msg

(* What the parser of a caller is left with, when branch_discard undoes    *)
(* the actions past the position it is given.                              *)
Undone(events) ==
  FoldLeft(LAMBDA kept, event :
             IF event.discard THEN SelectSeq(kept, LAMBDA act : act.at <= event.at)
             ELSE Append(kept, [id |-> event.id, at |-> event.at]), << >>, events)
(* That undoes the actions of every abandoned branch, and no other action  *)
(* (peg.h, "This allows the caller's derived parser to discard or undo").  *)
DiscardsUndoAbandonedActions ==
  \A e \in Grammars : Meant(e).ok => Undone(Parsed(e).events) = Meant(e).acts

(* The view that a trace prints around a position is the line of it, and   *)
(* nothing is quoted that is outside the lines of the two ends (peg.c      *)
(* skit__peg_on_entry, on_exit).  A text that begins with a newline is     *)
(* left out: there skit__peg_print_selection's own assertion fails.        *)
TracesQuoteTheLine ==
  LET View(pos) == skit_peg_get_line_bounds(text, pos)
      Inside(quotes, views) ==
        \A q \in ToSet(quotes) : \E v \in views : v.begin <= q[1] /\ q[2] <= v.end
  IN  (text # << >> /\ ~IsNewline(text[1])) =>
        \A pos \in 0 .. Len(text) :
          /\ View(pos).begin <= pos /\ pos <= View(pos).end
          /\ \A i \in View(pos).begin .. View(pos).end - 1 : ~IsNewline(text[i + 1])
          /\ View(pos).begin > 0 => IsNewline(text[View(pos).begin])
          /\ Inside(skit__peg_on_entry(text, pos), {View(pos)})
          /\ \A end \in pos .. Len(text) :
               Inside(skit__peg_on_exit(text, skit_peg_match_success(pos, end)), {View(pos), View(end)})
=============================================================================
