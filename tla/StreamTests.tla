----------------------------- MODULE StreamTests -----------------------------
(***************************************************************************)
(* The unit tests of streams/: a test of stream.c is a sequence of calls   *)
(* on any stream with some contents, and each class runs those it can do.  *)
(***************************************************************************)
EXTENDS Streams

CONSTANT C(_)      (* a string of TLA+ as its bytes                        *)

Calm == [buffer |-> 3, amount |-> 1024, fails |-> FALSE]
Line(str) == Append(C(str), LF)

(* What the test reads behind the stream: its text, the file, the peer.    *)
Contents(s) ==
  LET plain == IF IsIndent(s) THEN s.backing ELSE s
  IN  CASE plain.class = "text" -> plain.text
        [] plain.class = "file" -> Flushed(plain).file_handle.on_disk
        [] plain.class = "tcp" -> plain.socket.sent

(* The results of the calls in turn, each an operator's name and argument. *)
Call(s, call) ==
  CASE call[1] = "readln" -> skit_stream_readln(s, Calm)
    [] call[1] = "read" -> skit_stream_read(s, call[2], Calm)
    [] call[1] = "read_xNN" -> skit_stream_read_xNN(s, call[2], Calm)
    [] call[1] = "read_fn" -> skit_stream_read_fn(s, call[2])
    [] call[1] = "rewind" -> skit_stream_rewind(s)
    [] call[1] = "append" -> skit_stream_append(s, call[2], Calm)
    [] call[1] = "append_xNN" -> skit_stream_append_xNN(s, call[2], Calm)
    [] call[1] = "appendln" -> skit_stream_appendln(s, call[2], Calm)
    [] call[1] = "appendf" -> skit_stream_appendf(s, call[2][1], call[2][2], Calm)
After(s, calls) == FoldLeft(LAMBDA t, call : Call(t, call).stream, s, calls)
Results(s, calls) == [i \in DOMAIN calls |-> Call(After(s, SubSeq(calls, 1, i - 1)), calls[i]).result]
Written(s, calls) == [i \in DOMAIN calls |-> Contents(After(s, SubSeq(calls, 1, i)))]
Growing(lines) == [i \in DOMAIN lines |-> FlattenSeq(SubSeq(lines, 1, i))]

(* What a class's tests run on: a stream with the contents to be read.     *)
skit_text_stream_run_utest(contents) == skit_text_stream_init_str(contents)
skit_ind_stream_run_utest(contents) == skit_ind_stream_ctor(skit_text_stream_init_str(contents))
skit_pfile_run_utest(contents) == skit_pfile_stream_open(skit_pfile_stream_ctor, contents, "r+", 3).stream
skit_tcp_run_write_utest(contents) ==
  LET s == skit_tcp_stream_connect(skit_tcp_stream_ctor, TRUE, 4, TRUE).stream
  IN  [s EXCEPT !.socket.text = contents]
skit_tcp_run_read_utest(contents) == [skit_tcp_run_write_utest(contents) EXCEPT !.socket.peer = "closed"]
Stream(class, contents) ==
  CASE class = "text" -> skit_text_stream_run_utest(contents) [] class = "indent" -> skit_ind_stream_run_utest(contents)
    [] class = "file" -> skit_pfile_run_utest(contents)
    [] class = "tcp, to read" -> skit_tcp_run_read_utest(contents)
    [] class = "tcp, to write" -> skit_tcp_run_write_utest(contents)

skit_stream_readln_unittest(class) ==
  Results(Stream(class, Line("foo") \o <<LF, 0>> \o Line("bar") \o Line("baz")), [i \in 1 .. 6 |-> <<"readln", {}>>])
    = <<C("foo"), << >>, <<0>> \o C("bar"), C("baz"), << >>, NullSlice>>
skit_stream_read_unittest(class) ==
  Results(Stream(class, C("foobarbaz")), <<<<"read", 3>>, <<"read", 0>>, <<"read", 3>>, <<"read", 4>>, <<"read", 3>>>>)
    = <<C("foo"), << >>, C("bar"), C("baz"), NullSlice>>
skit_stream_read_xNN_unittest(class) ==
  Results(Stream(class, C("XYYdoodabcddcba")), [i \in 1 .. 4 |-> <<"read_xNN", 2^(i - 1)>>])
    = <<C("X"), C("YY"), C("dood"), C("abcddcba")>>
skit_stream_read_fn_unittest(class) ==
  Results(Stream(class, C("abc")), <<<<"read_fn", ToSet(C("b"))>>, <<"read_fn", {}>>>>) = <<C("ab"), C("c")>>
skit_stream_appendln_unittest(class) ==
  LET words == <<"foo", "", "bar", "baz">>
  IN  Written(Stream(class, << >>), [i \in 1 .. 4 |-> <<"appendln", C(words[i])>>]) = Growing([i \in 1 .. 4 |-> Line(words[i])])
skit_stream_appendf_unittest(class) ==
  LET directive == <<DIRECTIVE, LF>>
  IN  Written(Stream(class, << >>), <<<<"appendf", <<Line("foo"), << >>>>>>, <<"appendf", <<directive, C("bar")>>>>,
                                <<"appendf", <<directive, C("3")>>>>>>) = Growing(<<Line("foo"), Line("bar"), Line("3")>>)
skit_stream_append_unittest(class) ==
  LET words == <<"foo", "", "bar", "baz">>
  IN  Written(Stream(class, << >>), [i \in 1 .. 4 |-> <<"append", C(words[i])>>]) = Growing([i \in 1 .. 4 |-> C(words[i])])
skit_stream_append_xNN_unittest(class) ==
  LET numbers == <<"X", "YY", "dood", "abcddbca">>
  IN  Written(Stream(class, << >>), [i \in 1 .. 4 |-> <<"append_xNN", C(numbers[i])>>]) = Growing([i \in 1 .. 4 |-> C(numbers[i])])
skit_stream_rewind_unittest(class) ==
  Results(Stream(class, << >>), <<<<"readln", {}>>, <<"appendln", C("foo")>>, <<"readln", {}>>, <<"rewind", {}>>, <<"readln", {}>>>>)
    = << << >>, << >>, NullSlice, << >>, C("foo")>>

skit_stream_indent_unittest(class) ==
  LET s1 == skit_stream_appendf(Stream(class, << >>), Line("foo"), << >>, Calm).stream
      s2 == skit_stream_append(skit_stream_incr_indent(s1), Line("bar") \o C("baz"), Calm).stream
      s3 == skit_stream_set_ind_str(skit_stream_incr_indent(s2), C("  "))
      s4 == skit_stream_appendln(s3, <<LF>> \o C("qux"), Calm).stream
      s5 == skit_stream_decr_indent(skit_stream_decr_indent(s4))
      s6 == skit_stream_append(s5, C("quux"), Calm).stream
      s7 == skit_stream_incr_indent(s6)
      Levels(s) == <<skit_stream_get_ind_lvl(s), skit_stream_get_peak(s)>>
      text == Line("foo") \o <<TAB>> \o Line("bar") \o <<TAB>> \o C("baz")
  IN  /\ Contents(s1) = Line("foo") /\ Contents(s2) = text
      /\ Contents(s4) = text \o <<LF>> \o Line("    qux") /\ Contents(s6) = Contents(s4) \o C("quux")
      /\ Levels(s1) = <<0, 0>> /\ Levels(s2) = <<1, 1>> /\ Levels(s3) = <<2, 2>> /\ Levels(s5) = <<0, 2>>
      /\ Levels(s7) = <<1, 1>>
      /\ skit_stream_get_ind_str(s1) = <<TAB>> /\ skit_stream_get_ind_str(s3) = C("  ")

Reading(class) ==
  skit_stream_read_unittest(class) /\ skit_stream_read_xNN_unittest(class) /\ skit_stream_read_fn_unittest(class)
Appending(class) ==
  /\ skit_stream_appendln_unittest(class) /\ skit_stream_appendf_unittest(class)
  /\ skit_stream_append_unittest(class) /\ skit_stream_append_xNN_unittest(class)

skit_text_stream_subsume_test ==
  LET s == skit_text_stream_subsume(C("Hello ") \o [i \in 1 .. 26 |-> 0], 6)
  IN  skit_text_stream_slurp(skit_text_stream_append(s, C("world!"))).result = C("Hello world!")
skit_text_stream_unittests ==
  /\ skit_stream_readln_unittest("text") /\ skit_stream_rewind_unittest("text")
  /\ Reading("text") /\ Appending("text") /\ skit_text_stream_subsume_test

skit_ind_stream_unittests ==
  /\ skit_stream_readln_unittest("indent") /\ skit_stream_rewind_unittest("indent")
  /\ Reading("indent") /\ Appending("indent")
  /\ skit_stream_indent_unittest("indent")

skit_pfile_slurp_test ==
  skit_pfile_slurp_into(C("Slurp test."), 3, [Calm EXCEPT !.buffer = 1024]).result = C("Slurp test.")
skit_pfile_stream_unittests ==
  /\ skit_stream_readln_unittest("file") /\ skit_stream_rewind_unittest("file")
  /\ Reading("file") /\ Appending("file") /\ skit_pfile_slurp_test

skit_tcp_stream_unittests == Reading("tcp, to read") /\ Appending("tcp, to write")

skit_empty_stream_unittests ==
  LET reads == <<<<"readln", {}>>, <<"read", 1>>>>
      calls == reads \o <<<<"appendln", C("a")>>>> \o reads \o <<<<"append", C("a")>>>> \o reads
      results == Results(skit_empty_stream_ctor, calls)
  IN  /\ \A i \in DOMAIN calls : results[i] = IF i \in {3, 6} THEN << >> ELSE NullSlice
      /\ skit_stream_slurp(skit_empty_stream_ctor, Calm).result = << >>
=============================================================================
