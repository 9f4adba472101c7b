------------------------------- MODULE MCTexts -------------------------------
EXTENDS Texts, UnitTests

a == 97
b == 98
c == 99
d == 100
x == 120
A == 65
BELL == 7
COMMA == 44
POINT == 46

(* Two sets of letters, the second text's own, and how far to type.        *)
Keyboard(letters, max, other_letters, other_max) ==
  [letters |-> letters, max |-> max, other_letters |-> other_letters, other_max |-> other_max]
MCKeyboards ==
  {Keyboard({a, A, COMMA, 200}, 4, {a, A, COMMA}, 2),                \* cases, delimiters, a byte above 127
   Keyboard({SPACE, TAB, VT, a}, 5, {SPACE, a}, 1),                  \* white space
   Keyboard({BELL, 97, BACKSLASH, 27}, 3, {BELL, 97, BACKSLASH, 27}, 3),
   Keyboard({SLASH, POINT, a}, 4, {SLASH, POINT, a}, 3),             \* paths
   Keyboard({1, 2, 4}, 4, {}, 0),                                    \* sizes of fields
   Keyboard({49, 50}, 4, {SPACE, 112, 80, 97, 109}, 3),              \* times of day
   Keyboard({LF, CR, a}, 6, {}, 0),                                  \* lines
   Keyboard({a, b, c, d, SPACE}, 5, {}, 0)}                          \* grammars

T(letter) == Token(<<letter>>)
WithAction(e, id) == SEQ2(e, Action(id))
Noted(letter) == WithAction(T(letter), letter)
AllActed(letters) == [letter \in letters |-> Noted(letter)]

(* The three grammars of peg.c's branch_discard test, with an action after *)
(* every token, with and without white space between the tokens, and some  *)
(* that nest the operators the other way round.                            *)
branch_discard_1 ==
  SEQ6(Noted(a), CHOOSE4(Noted(x), Noted(d), Noted(c), Noted(b)), OPTIONAL(WithAction(Noted(c), 1)), Noted(c),
       NEG_LOOKAHEAD(Noted(a)), Noted(d))
branch_discard_2 == SEQ3(ZERO_OR_MORE(Noted(a)), Noted(b), ONE_OR_MORE(Noted(a)))
branch_discard_3 == CHOOSE2(SEQ2(Noted(a), CHOOSE2(Noted(c), Noted(d))), WithAction(Token(<<a, b, c>>), 2))
partial_repetition == SEQ2(ZERO_OR_MORE(SEQ3(Noted(a), Noted(b), OPTIONAL(Noted(c)))), CHOOSE2(Noted(a), Noted(d)))
partial_option == SEQ2(OPTIONAL(SEQ3(Noted(a), NEG_LOOKAHEAD(SEQ2(Noted(b), Noted(a))), Noted(b))),
                       ZERO_OR_MORE(CHOOSE2(SEQ2(Noted(a), Noted(a)), SEQ2(Noted(a), Noted(b)))))
called == SEQ2(RuleCall(ONE_OR_MORE(Noted(a)), FALSE), RuleCall(OPTIONAL(SEQ2(Noted(b), Noted(b))), TRUE))
words == SEQ3(WithAction(Keyword(<<a, b>>), 3),
              CHOOSE2(WithAction(Rule("any_word"), 4), WithAction(Rule("success"), 5)), Rule("end_of_text"))
lookup == LookupRule(<<[keyword |-> <<a>>, suffix |-> Rule("success"), rule |-> Noted(b)],
                       [keyword |-> <<a, b>>, suffix |-> WithAction(Keyword(<<c>>), 6), rule |-> Action(7)],
                       [keyword |-> <<c>>, suffix |-> Rule("success"), rule |-> Rule("failure")]>>)
MCGrammars ==
  LET Both(e) == {RuleCall(e, TRUE), RuleCall(e, FALSE)}
  IN  UNION {Both(e) : e \in {branch_discard_1, branch_discard_2, branch_discard_3, partial_repetition,
                              partial_option, called, words, lookup}}
      \cup {RuleCall(OPTIONAL(lookup), TRUE)}
=============================================================================
