----------------------------- MODULE Conversions -----------------------------
(***************************************************************************)
(* What the small modules compute from text: joined paths (path.c), sets   *)
(* of flags (flags.c), dates and times (datetime.h, datetime.c), powers    *)
(* (math.c), the one regular expression (regex.c).  An exception is THROWN *)
(* and its message left out.                                               *)
(***************************************************************************)
EXTENDS StringFunctions, Bitwise

THROWN == <<-2>>         (* no text, no set: the call throws               *)

(***************************************************************************)
(* Paths                                                                   *)
(***************************************************************************)
StripDotSlash(rhs) ==
  IF Len(rhs) > 1 /\ skit_slice_match(rhs, <<46, SLASH>>, 0) THEN skit_slice_of(rhs, 2, SKIT_EOT) ELSE rhs

(* A plausible bug: to separate is decided with what is left of a.         *)
skit_path_join_trimmed_first(a, b) ==
  LET rhs == StripDotSlash(b)
      lhs == IF Len(a) > 1 THEN skit_slice_rtrimx(a, <<SLASH>>) ELSE a
      separator == IF Len(lhs) > 0 /\ Len(rhs) > 0 /\ lhs # <<SLASH>> THEN <<SLASH>> ELSE << >>
  IN  IF Len(b) > 0 /\ b[1] = SLASH THEN THROWN ELSE lhs \o separator \o rhs

(* Whether to separate is decided with the length of a before its slashes  *)
(* are trimmed.                                                            *)
skit_path_join(a, b) ==
  LET rhs == StripDotSlash(b)
      lhs == IF Len(a) > 1 THEN skit_slice_rtrimx(a, <<SLASH>>) ELSE a
      separator == IF Len(a) > 0 /\ Len(rhs) > 0 /\ a # <<SLASH>> THEN <<SLASH>> ELSE << >>
  IN  IF Len(b) > 0 /\ b[1] = SLASH THEN THROWN ELSE lhs \o separator \o rhs

(***************************************************************************)
(* Flags: bit n of a word is the n-th letter of the alphabet               *)
(***************************************************************************)
(* The loop over the characters: the flags so far, or THROWN.              *)
AddFlag(result, c) ==
  IF result = THROWN \/ ~skit_is_alpha_lower(c) THEN THROWN
  ELSE IF (result[1] & 2^(c - 97)) # 0 THEN THROWN
  ELSE <<result[1] | 2^(c - 97)>>
skit_str_to_flags(cstr) == FoldLeft(AddFlag, <<0>>, cstr)
skit_flags_to_str(flags) ==
  SetToSortSeq({97 + i : i \in {i \in 0 .. 25 : (flags & 2^i) # 0}}, <)

(***************************************************************************)
(* Dates and times.  A format is a sequence of elements, as the X-macro of *)
(* a parsing function is: literals, spaces, markers, and numbers with      *)
(* their width, their range and the field that takes them.  A parse is its *)
(* cursor, whether it failed, and the fields assigned so far.              *)
(***************************************************************************)
NumberElement(field, width, min, max) ==
  [kind |-> "number", field |-> field, width |-> width, min |-> min, max |-> max]
Literal(cstr) == [kind |-> "literal", text |-> cstr]
Marker(neutral, marked, field) ==
  [kind |-> "marker", neutral |-> neutral, marked |-> marked, field |-> field]
Spaces == [kind |-> "spaces"]

YYYY == NumberElement("year", 4, 0, 9999)
YY == NumberElement("yy", 2, 0, 99)
MM == NumberElement("month", 2, 1, 12)
DD == NumberElement("day", 2, 1, 31)
hh == NumberElement("hour", 2, 0, 23)
mm == NumberElement("minute", 2, 0, 59)
ss == NumberElement("second", 2, 0, 60)
milliseconds == NumberElement("milliseconds", 3, 0, 999)
microseconds == NumberElement("microseconds", 6, 0, 999999)
AM_PM == Marker(<<97, 109>>, <<112, 109>>, "have_pm")
AD_BC == Marker(<<97, 100>>, <<98, 99>>, "have_bc")

UNSET == -1
NothingParsed ==
  [cursor |-> 0, failed |-> FALSE,
   fields |-> [f \in {"year", "yy", "month", "day", "hour", "minute", "second", "milliseconds",
                      "microseconds", "have_pm", "have_bc"} |-> UNSET]]
Fail(parse) == [parse EXCEPT !.failed = TRUE]

skit__datetime_parse_int(text) ==
  IF \A i \in DOMAIN text : skit_is_digit(text[i])
  THEN FoldLeft(LAMBDA result, digit : result * 10 + (digit - 48), 0, text)
  ELSE -1

(* A literal needs to match as far as the text goes, no further.           *)
ParseElement(str, parse, element) ==
  LET cursor == parse.cursor
      left == Len(str) - cursor
      Next(n) == skit_slice_of(str, cursor, cursor + n)
      Passed(n) == [parse EXCEPT !.cursor = cursor + n]
  IN  CASE parse.failed -> parse
        [] ~parse.failed /\ element.kind = "spaces" ->
             Passed(left - Len(skit_slice_ltrim(Next(left))))
        [] ~parse.failed /\ element.kind = "literal" ->
             LET len == MinOf(Len(element.text), left)
             IN  IF Next(len) = skit_slice_of(element.text, 0, len) THEN Passed(len) ELSE Fail(parse)
        [] ~parse.failed /\ element.kind = "marker" ->
             IF left < 2 THEN Fail(parse)
             ELSE IF skit_slice_to_lower(Next(2)) = element.neutral THEN Passed(2)
             ELSE IF skit_slice_to_lower(Next(2)) = element.marked
                  THEN [Passed(2) EXCEPT !.fields[element.field] = 1]
             ELSE Fail(parse)
        [] ~parse.failed /\ element.kind = "number" ->
             IF left < element.width THEN Fail(parse)
             ELSE LET value == skit__datetime_parse_int(Next(element.width))
                  IN  IF value \in element.min .. element.max
                      THEN [Passed(element.width) EXCEPT !.fields[element.field] = value]
                      ELSE Fail(parse)

ParseElements(str, parse, format) ==
  FoldLeft(LAMBDA p, element : ParseElement(str, p, element), parse, format)

(* OPT_BEGIN ... OPT_END: what fails is given back, its fields are not.    *)
ParseOptional(str, parse, format) ==
  LET optional == ParseElements(str, parse, format)
  IN  IF parse.failed THEN parse
      ELSE IF optional.failed THEN [optional EXCEPT !.cursor = parse.cursor, !.failed = FALSE]
      ELSE optional

(* What a call leaves in the struct tm and the nanoseconds: all that was   *)
(* read, also when the text does not match in the end; only a match then   *)
(* adjusts it to the struct's conventions.  A field that the format does   *)
(* not name is left as it was.                                             *)
Breakdown(f, failed) ==
  LET year == IF f.yy = UNSET THEN f.year ELSE f.yy + (IF f.yy >= 69 THEN 1900 ELSE 2000)
      Adjusted(value, adjusted) == IF failed \/ value = UNSET THEN value ELSE adjusted
  IN  [tm_year |-> Adjusted(year, (IF f.have_bc = 1 THEN -year ELSE year) - 1900),
       tm_mon |-> Adjusted(f.month, f.month - 1), tm_mday |-> f.day,
       tm_hour |-> Adjusted(f.hour, IF f.have_pm = 1 /\ f.hour < 12 THEN f.hour + 12 ELSE f.hour),
       tm_min |-> f.minute, tm_sec |-> f.second,
       nanoseconds |-> IF f.milliseconds # UNSET THEN f.milliseconds * 1000000
                       ELSE IF f.microseconds # UNSET THEN f.microseconds * 1000 ELSE UNSET]

(* What SKIT_GEN_DATETIME_PARSING_FUNC generates.                          *)
ParseDatetime(str, format, optional) ==
  LET parse == ParseOptional(str, ParseElements(str, NothingParsed, format), optional)
  IN  [matched |-> IF parse.failed THEN NullSlice ELSE skit_slice_of(str, 0, parse.cursor),
       tm |-> Breakdown(parse.fields, parse.failed)]

Era == <<Literal(<<SPACE>>), Spaces, AD_BC>>
HalfDay == <<Literal(<<SPACE>>), Spaces, AM_PM>>
Dash == Literal(<<45>>)
Colon == Literal(<<58>>)
Dot == Literal(<<46>>)

DateFormats == [YYYY_MM_DD |-> <<YYYY, Dash, MM, Dash, DD>>, YYYYMMDD |-> <<YYYY, MM, DD>>,
                YYMMDD |-> <<YY, MM, DD>>]
TimeFormats == [hh_mm_ss_nnnnnn |-> <<hh, Colon, mm, Colon, ss, Dot, microseconds>>,
                hh_mm_ss_nnn |-> <<hh, Colon, mm, Colon, ss, Dot, milliseconds>>,
                hh_mm_ss |-> <<hh, Colon, mm, Colon, ss>>, hh_mm |-> <<hh, Colon, mm>>,
                hhmmssnnnnnn |-> <<hh, mm, ss, microseconds>>, hhmmssnnn |-> <<hh, mm, ss, milliseconds>>,
                hhmmss |-> <<hh, mm, ss>>, hhmm |-> <<hh, mm>>]
skit_parse_date(name, str) == ParseDatetime(str, DateFormats[name], Era)
skit_parse_time(name, str) == ParseDatetime(str, TimeFormats[name], HalfDay)

(***************************************************************************)
(* Powers and the regular expression ".*\0"                                *)
(***************************************************************************)
RECURSIVE IpowLoop(_, _, _)
IpowLoop(result, base, exp) ==
  IF exp = 0 THEN result
  ELSE IpowLoop(IF exp % 2 = 1 THEN result * base ELSE result, base * base, exp \div 2)
skit_ipow(base, exp) == IpowLoop(1, base, exp)

RegexInit == [hi |-> 0, state |-> 0]
skit_regex_feed(regex, c) ==
  IF regex.state = 0 THEN [hi |-> regex.hi + 1, state |-> IF c = 0 THEN 1 ELSE 0] ELSE regex
skit_regex_match_n(text) == skit_slice_of(text, 0, FoldLeft(skit_regex_feed, RegexInit, text).hi)
=============================================================================
