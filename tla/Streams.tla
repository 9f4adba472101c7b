------------------------------- MODULE Streams -------------------------------
(***************************************************************************)
(* The stream interface of streams/stream.c and its classes: text, file,   *)
(* TCP, empty and indenting streams.  A stream is a record, a method is an *)
(* operator of the stream and its arguments, and the C library's FILE and  *)
(* socket are part of the record.  An operation that the operating system  *)
(* takes part in has an argument os: how long the buffer for the result    *)
(* is, how many bytes a recv or a send takes, and whether a call fails.    *)
(***************************************************************************)
EXTENDS StringFunctions

CONSTANT Chunk      (* [smallest, default]: 8 and 1024 bytes in the code   *)

ASSUME ChunkAssumption == Chunk.smallest \in 2 .. Chunk.default

THROWN == <<-2>>       (* no result: the call throws                       *)
UNASSIGNED == <<-3>>   (* the slice that is returned was never assigned    *)
Did(stream, result) == [stream |-> stream, result |-> result]

skit_stream_throw_exc(s) == Did(s, THROWN)
skit_stream_func_not_impl(s) == skit_stream_throw_exc(s)

NextLF(text, pos) ==
  LET after == {i \in pos .. Len(text) - 1 : text[i + 1] = LF}
  IN  IF after = {} THEN Len(text) ELSE Min(after)
(* Where accept_char stops when it refuses the characters of stop.         *)
Accepted(text, pos, stop) ==
  LET refused == {i \in pos + 1 .. Len(text) : text[i] \in stop}
  IN  IF refused = {} THEN Len(text) ELSE Min(refused)
Rest(f) == SubSeq(f.text, f.pos + 1, Len(f.text))

(* What fread and recv take from a file or a connection: the first all it  *)
(* is asked for that is there, the second what it likes of that, and       *)
(* nothing when the peer has hung up.  A recv that would wait is not       *)
(* asked: see Answered in StreamCalls.                                     *)
fread(f, n) ==
  [source |-> [f EXCEPT !.pos = MinOf(@ + n, Len(f.text)), !.eof = @ \/ Len(Rest(f)) < n],
   got |-> SubSeq(f.text, f.pos + 1, MinOf(f.pos + n, Len(f.text)))]
recv(socket, n, os) ==
  LET end == MinOf(Len(socket.text), socket.pos + MinOf(n, os.amount))
  IN  [source |-> [socket EXCEPT !.pos = end], got |-> SubSeq(socket.text, socket.pos + 1, end)]
skit_slurp_source(f, n, os) == IF "peer" \in DOMAIN f THEN recv(f, n, os) ELSE fread(f, n)

(* The loop that fills a buffer until the source gives less than asked,    *)
(* growing it by half.  A source is given as it is after a call, with got. *)
skit_stream_buffered_slurp(f, os) ==
  LET buf_length == IF os.buffer < Chunk.smallest THEN Chunk.default ELSE os.buffer
      RECURSIVE Loop(_, _, _, _)
      Loop(source, slurped, buffer, chunk) ==
        LET next == skit_slurp_source(source, chunk, os)
            larger == (buffer * 3) \div 2
            offset == Len(slurped) + Len(next.got)
        IN  IF Len(next.got) < chunk THEN [source |-> next.source, slurped |-> slurped \o next.got]
            ELSE Loop(next.source, slurped \o next.got, larger, larger - offset)
  IN  Loop(f, << >>, buf_length, buf_length)

(***************************************************************************)
(* Text streams: a text and a cursor, which is past the end once the end   *)
(* was read                                                                *)
(***************************************************************************)
skit_text_stream_init_str(text) == [class |-> "text", text |-> text, cursor |-> 0]
skit_text_stream_clear(s) == [s EXCEPT !.text = << >>, !.cursor = 0]
skit_text_stream_subsume(buffer, cursor_pos) ==
  [class |-> "text", text |-> SubSeq(buffer, 1, cursor_pos), cursor |-> cursor_pos]

(* A mutant: the end was read without stepping past it.                    *)
skit_text_stream_readln_at_end(s) ==
  LET newlines == {i \in s.cursor .. Len(s.text) - 1 : s.text[i + 1] = LF}
      line_end == IF newlines = {} THEN Len(s.text) ELSE Min(newlines)
  IN  IF s.cursor > Len(s.text) THEN Did(s, NullSlice)
      ELSE Did([s EXCEPT !.cursor = MinOf(line_end + 1, Len(s.text))], SubSeq(s.text, s.cursor + 1, line_end))
skit_text_stream_readln(s) ==
  LET length == Len(s.text)
      newlines == {i \in s.cursor .. length - 1 : skit_slice_match_nl(s.text, i) > 0}
      line_end == IF newlines = {} THEN length ELSE Min(newlines)
      after == IF newlines = {} THEN length + 1 ELSE line_end + skit_slice_match_nl(s.text, line_end)
  IN  IF s.cursor > length THEN Did(s, NullSlice)
      ELSE Did([s EXCEPT !.cursor = after], SubSeq(s.text, s.cursor + 1, line_end))

skit_text_stream_read(s, nbytes) ==
  LET length == Len(s.text)
      block_end == s.cursor + nbytes
  IN  CASE s.cursor >= length -> Did(s, NullSlice)
        [] s.cursor < length /\ length < block_end ->
             Did([s EXCEPT !.cursor = length + 1], SubSeq(s.text, s.cursor + 1, length))
        [] OTHER -> Did([s EXCEPT !.cursor = block_end], SubSeq(s.text, s.cursor + 1, block_end))

skit_text_stream_read_fn(s, stop) ==
  LET block_end == Accepted(s.text, s.cursor, stop)
  IN  IF s.cursor >= Len(s.text) THEN Did(s, NullSlice)
      ELSE Did([s EXCEPT !.cursor = block_end], SubSeq(s.text, s.cursor + 1, block_end))

skit_text_stream_append(s, slice) ==
  [s EXCEPT !.text = @ \o slice, !.cursor = Len(s.text \o slice) + 1]
skit_text_stream_appendln(s, line) ==
  [s EXCEPT !.text = @ \o line \o <<LF>>, !.cursor = @ + Len(s.text \o line) + 2]
skit_text_stream_rewind(s) == [s EXCEPT !.cursor = 0]
skit_text_stream_slurp(s) == Did([s EXCEPT !.cursor = Len(s.text)], s.text)

(***************************************************************************)
(* Files.  The FILE of the C library has its text, position, and the two   *)
(* flags that stay set until it is rewound; what is not on the disk is in  *)
(* its buffer.                                                             *)
(***************************************************************************)
NoFile == [mode |-> "none", fd |-> -1, text |-> << >>, pos |-> 0, eof |-> FALSE, error |-> FALSE, on_disk |-> << >>]
Opened(text, mode, fd) == [NoFile EXCEPT !.mode = mode, !.fd = fd, !.text = text, !.on_disk = text]

fwrite(f, slice) ==
  LET at == IF f.mode = "a+" THEN Len(f.text) ELSE f.pos
  IN  IF f.mode = "r" THEN [f EXCEPT !.error = TRUE]
      ELSE [f EXCEPT !.text = SubSeq(@, 1, at) \o slice \o SubSeq(@, at + Len(slice) + 1, Len(@)),
                     !.pos = at + Len(slice)]
fgets(f, n) ==
  LET line_end == NextLF(f.text, f.pos)
      end == MinOf(line_end + 1, MinOf(Len(f.text), f.pos + n - 1))
  IN  [source |-> [f EXCEPT !.pos = end, !.eof = @ \/ (end = line_end /\ end < f.pos + n - 1)],
       got |-> SubSeq(f.text, f.pos + 1, end)]

skit_pfile_stream_ctor ==
  [class |-> "file", file_handle |-> NoFile, closer |-> "own_closer", flush_condition |-> "none"]

(* One chunk of a line.  The chunk is full of newlines before fgets: the   *)
(* first one left is the line's own, or shows where the text ends, and     *)
(* the byte after it tells which, which is behind the chunk if all but two *)
(* bytes of it are used.                                                   *)
skit_try_fgets(f, buf_len) ==
  LET ret == fgets(f, buf_len)
      read == Len(ret.got)
      Chunked(done, bytes) == [file |-> ret.source, done |-> done, bytes |-> bytes]
  IN  CASE read = 0 -> Chunked(TRUE, << >>)
        [] read > 0 /\ ret.got[read] = LF -> Chunked(TRUE, Front(ret.got))
        [] read = buf_len - 1 /\ ret.got[read] # LF -> Chunked(FALSE, ret.got)
        [] read > 0 /\ read = buf_len - 2 /\ ret.got[read] # LF -> Chunked(TRUE, Append(ret.got, 0))
        [] OTHER -> Chunked(TRUE, ret.got)

RECURSIVE ReadChunks(_, _, _, _)
ReadChunks(f, line, buf_len, chunk_len) ==
  LET chunk == skit_try_fgets(f, chunk_len)
      larger == (buf_len * 3) \div 2
      offset == Len(line) + Len(chunk.bytes)
  IN  IF chunk.done \/ chunk.file.error THEN [file |-> chunk.file, line |-> line \o chunk.bytes]
      ELSE ReadChunks(chunk.file, line \o chunk.bytes, larger, larger - offset)

(* Every read looks at the end-of-file flag first and at the error flag last. *)
FileResult(s, f, result) == Did([s EXCEPT !.file_handle = f], IF f.error THEN THROWN ELSE result)

skit_pfile_stream_readln(s, os) ==
  LET buf_len == IF os.buffer < 2 THEN 16 ELSE os.buffer
      read == ReadChunks(s.file_handle, << >>, buf_len, buf_len)
  IN  IF s.file_handle.eof THEN Did(s, NullSlice) ELSE FileResult(s, read.file, read.line)
skit_pfile_stream_read(s, nbytes) ==
  LET read == fread(s.file_handle, nbytes)
  IN  IF s.file_handle.eof THEN Did(s, NullSlice) ELSE FileResult(s, read.source, read.got)
skit_pfile_stream_read_fn(s, stop) ==
  LET f == s.file_handle
      end == Accepted(f.text, f.pos, stop)
      at_eof == end = f.pos \/ f.text[end] \notin stop
  IN  IF f.eof THEN Did(s, NullSlice)
      ELSE FileResult(s, [f EXCEPT !.pos = end, !.eof = at_eof],
                      IF end = f.pos THEN UNASSIGNED ELSE SubSeq(f.text, f.pos + 1, end))
skit_pfile_stream_slurp(s, os) ==
  LET read == skit_stream_buffered_slurp(s.file_handle, os)
  IN  FileResult(s, read.source, read.slurped)

Flushed(s) == [s EXCEPT !.file_handle.on_disk = s.file_handle.text]
skit_pfile_stream_flush(s) == IF s.file_handle = NoFile THEN skit_stream_throw_exc(s) ELSE Did(Flushed(s), << >>)
(* A mutant: only a newline at the end of the text counts.                 *)
skit_pfile_stream_check_flush_at_end(s, text_written) ==
  s.flush_condition = "flush_on_nl" /\ text_written # << >> /\ text_written[Len(text_written)] = LF
skit_pfile_stream_check_flush(s, text_written) ==
  s.flush_condition = "flush_on_nl" /\ LF \in ToSet(text_written)

(* What is written, then flushed if the condition holds for text_written.  *)
FileAppend(s, slice, text_written) ==
  LET f == fwrite(s.file_handle, slice)
      written == [s EXCEPT !.file_handle = f]
  IN  IF s.file_handle = NoFile THEN skit_stream_throw_exc(s)
      ELSE IF f.error THEN skit_stream_throw_exc(written)
      ELSE Did(IF skit_pfile_stream_check_flush(s, text_written) THEN Flushed(written) ELSE written, << >>)
skit_pfile_stream_append(s, slice) ==
  IF slice = << >> /\ s.file_handle # NoFile THEN Did(s, << >>) ELSE FileAppend(s, slice, slice)
skit_pfile_stream_appendln(s, line) == FileAppend(s, Append(line, LF), Append(line, LF))
(* vfprintf is not checked for errors, and the format stands for the text. *)
skit_pfile_stream_appendf_va(s, fmtstr, text) == Did(FileAppend(s, text, fmtstr).stream,
                                                    IF s.file_handle = NoFile THEN THROWN ELSE << >>)
skit_pfile_stream_rewind(s) ==
  [s EXCEPT !.file_handle.pos = 0, !.file_handle.eof = FALSE, !.file_handle.error = FALSE]

(* fopen gives fd, or -1 when it fails.                                    *)
(* A mutant: the file that is open is not looked at.                       *)
skit_pfile_stream_open_again(s, text, mode, fd) ==
  IF fd < 0 THEN skit_stream_throw_exc(s)
  ELSE Did([s EXCEPT !.file_handle = Opened(text, mode, fd), !.closer = "own_closer"], << >>)
skit_pfile_stream_open(s, text, mode, fd) ==
  IF s.file_handle # NoFile \/ fd < 0 THEN skit_stream_throw_exc(s)
  ELSE Did([s EXCEPT !.file_handle = Opened(text, mode, fd), !.closer = "own_closer"], << >>)
skit_pfile_stream_use_handle(s, file_handle) ==
  [s EXCEPT !.file_handle = file_handle, !.closer = "non_closer"]
skit_pfile_stream_close_with(s, closer_func) == [s EXCEPT !.closer = closer_func]
skit_pfile_stream_flush_cond(s, condition) == [s EXCEPT !.flush_condition = condition]
CloserCloses(s) == s.closer # "non_closer"
skit_pfile_stream_close(s, os) ==
  IF s.file_handle = NoFile \/ (CloserCloses(s) /\ os.fails) THEN skit_stream_throw_exc(s)
  ELSE Did([s EXCEPT !.file_handle = NoFile], << >>)
skit_pfile_stream_dtor(s, os) ==
  LET closed == IF s.file_handle # NoFile THEN skit_pfile_stream_close(s, os) ELSE Did(s, << >>)
  IN  Did([closed.stream EXCEPT !.flush_condition = IF closed.result = THROWN THEN @ ELSE "none"], closed.result)

(* Opens, slurps and closes, whatever the slurp does.                      *)
skit_pfile_slurp_into(text, fd, os) ==
  LET opened == skit_pfile_stream_open(skit_pfile_stream_ctor, text, "r", fd)
      slurped == skit_pfile_stream_slurp(opened.stream, os)
  IN  IF opened.result = THROWN THEN opened
      ELSE Did(skit_pfile_stream_close(slurped.stream, os).stream, slurped.result)

(***************************************************************************)
(* Connections.  What the peer has said is a text that recv reads on.      *)
(***************************************************************************)
Unconnected == [text |-> << >>, pos |-> 0, peer |-> "none", sent |-> << >>]
Connected == [Unconnected EXCEPT !.peer = "open"]
skit_tcp_stream_ctor == [class |-> "tcp", connection_fd |-> -1, listener_fd |-> -1, socket |-> Unconnected]

IsConnected(s) == s.connection_fd > 0
SocketResult(s, socket, result) == Did([s EXCEPT !.socket = socket], result)
RecvFails(s) == s.socket.peer \in {"none", "reset"}

skit_tcp_stream_read(s, nbytes, os) ==
  LET read == recv(s.socket, nbytes, os)
  IN  CASE ~IsConnected(s) -> skit_stream_throw_exc(s)
        [] IsConnected(s) /\ nbytes = 0 -> Did(s, << >>)
        [] IsConnected(s) /\ nbytes # 0 /\ RecvFails(s) -> skit_stream_throw_exc(s)
        [] OTHER -> SocketResult(s, read.source, IF read.got = << >> THEN NullSlice ELSE read.got)
skit_tcp_stream_read_fn(s, stop) ==
  LET end == Accepted(s.socket.text, s.socket.pos, stop)
  IN  IF ~IsConnected(s) \/ RecvFails(s) THEN skit_stream_throw_exc(s)
      ELSE SocketResult(s, [s.socket EXCEPT !.pos = end],
                        IF end = s.socket.pos THEN UNASSIGNED ELSE SubSeq(s.socket.text, s.socket.pos + 1, end))
skit_tcp_stream_slurp(s, os) ==
  LET read == skit_stream_buffered_slurp(s.socket, os)
  IN  IF RecvFails(s) THEN skit_stream_throw_exc(s) ELSE SocketResult(s, read.source, read.slurped)

(* send takes what it takes, and nobody looks how much that was.           *)
skit_tcp_stream_append(s, slice, os) ==
  CASE ~IsConnected(s) -> skit_stream_throw_exc(s)
    [] IsConnected(s) /\ slice = << >> -> Did(s, << >>)
    [] IsConnected(s) /\ slice # << >> /\ RecvFails(s) -> skit_stream_throw_exc(s)
    [] OTHER -> SocketResult(s, [s.socket EXCEPT !.sent = @ \o SubSeq(slice, 1, MinOf(os.amount, Len(slice)))], << >>)
skit_tcp_stream_appendln(s, line, os) ==
  LET sent == skit_tcp_stream_append(s, line, os)
  IN  IF sent.result = THROWN THEN sent ELSE skit_tcp_stream_append(sent.stream, <<LF>>, os)

(* The descriptor that the system gives is fd, -1 when it gives none.      *)
skit_tcp_stream_accept(s, socket_fd, fd) ==
  IF IsConnected(s) \/ fd < 0 THEN skit_stream_throw_exc(s)
  ELSE Did([s EXCEPT !.connection_fd = fd, !.listener_fd = socket_fd, !.socket = Connected], << >>)
skit_tcp_stream_connect(s, address_parses, fd, connects) ==
  IF ~address_parses \/ fd < 0 \/ ~connects THEN skit_stream_throw_exc(s)
  ELSE Did([s EXCEPT !.connection_fd = fd, !.listener_fd = -1, !.socket = Connected], << >>)
(* shutdown fails on a connection that the peer has broken.                *)
skit_tcp_stream_close(s) ==
  CASE s.connection_fd < 0 -> Did(s, << >>)
    [] s.connection_fd >= 0 /\ s.socket.peer = "reset" -> skit_stream_throw_exc(s)
    [] OTHER -> Did(skit_tcp_stream_ctor, << >>)

(***************************************************************************)
(* Dispatch.  A class that leaves a method out has the one of the abstract *)
(* class, which throws; the empty stream takes everything and has nothing. *)
(***************************************************************************)
skit_stream_ctor == [class |-> "stream"]
skit_empty_stream_ctor == [class |-> "empty"]
skit_empty_stream_read(s) == Did(s, NullSlice)
Quietly(s) == Did(s, << >>)

PlainReadln(s, os) ==
  CASE s.class = "text" -> skit_text_stream_readln(s) [] s.class = "file" -> skit_pfile_stream_readln(s, os)
    [] s.class = "tcp" -> skit_stream_throw_exc(s) [] s.class = "empty" -> skit_empty_stream_read(s)
    [] OTHER -> skit_stream_func_not_impl(s)
PlainRead(s, nbytes, os) ==
  CASE s.class = "text" -> skit_text_stream_read(s, nbytes) [] s.class = "file" -> skit_pfile_stream_read(s, nbytes)
    [] s.class = "tcp" -> skit_tcp_stream_read(s, nbytes, os) [] s.class = "empty" -> skit_empty_stream_read(s)
    [] OTHER -> skit_stream_func_not_impl(s)
PlainReadFn(s, stop) ==
  CASE s.class = "text" -> skit_text_stream_read_fn(s, stop) [] s.class = "file" -> skit_pfile_stream_read_fn(s, stop)
    [] s.class = "tcp" -> skit_tcp_stream_read_fn(s, stop) [] s.class = "empty" -> skit_empty_stream_read(s)
    [] OTHER -> skit_stream_func_not_impl(s)
PlainSlurp(s, os) ==
  CASE s.class = "text" -> skit_text_stream_slurp(s) [] s.class = "file" -> skit_pfile_stream_slurp(s, os)
    [] s.class = "tcp" -> skit_tcp_stream_slurp(s, os) [] s.class = "empty" -> Quietly(s)
    [] OTHER -> skit_stream_func_not_impl(s)
PlainAppend(s, slice, os) ==
  CASE s.class = "text" -> Quietly(skit_text_stream_append(s, slice)) [] s.class = "file" -> skit_pfile_stream_append(s, slice)
    [] s.class = "tcp" -> skit_tcp_stream_append(s, slice, os) [] s.class = "empty" -> Quietly(s)
    [] OTHER -> skit_stream_func_not_impl(s)
PlainAppendln(s, line, os) ==
  CASE s.class = "text" -> Quietly(skit_text_stream_appendln(s, line)) [] s.class = "file" -> skit_pfile_stream_appendln(s, line)
    [] s.class = "tcp" -> skit_tcp_stream_appendln(s, line, os) [] s.class = "empty" -> Quietly(s)
    [] OTHER -> skit_stream_func_not_impl(s)
PlainRewind(s) ==
  CASE s.class = "text" -> Quietly(skit_text_stream_rewind(s)) [] s.class = "file" -> Quietly(skit_pfile_stream_rewind(s))
    [] s.class = "tcp" -> skit_stream_throw_exc(s) [] s.class = "empty" -> Quietly(s)
    [] OTHER -> skit_stream_func_not_impl(s)
PlainFlush(s) ==
  CASE s.class \in {"text", "empty"} -> Quietly(s) [] s.class = "file" -> skit_pfile_stream_flush(s)
    [] s.class = "tcp" -> skit_stream_throw_exc(s) [] OTHER -> skit_stream_func_not_impl(s)

(* vsnprintf: the directive takes the one argument there is.  The text     *)
(* stays below the 1024 bytes of the buffers it goes through.              *)
DIRECTIVE == 37
vsnprintf(fmtstr, arg) == FlattenSeq([i \in DOMAIN fmtstr |-> IF fmtstr[i] = DIRECTIVE THEN arg ELSE <<fmtstr[i]>>])
PlainAppendf(s, fmtstr, arg, os) ==
  IF s.class = "file" THEN skit_pfile_stream_appendf_va(s, fmtstr, vsnprintf(fmtstr, arg))
  ELSE PlainAppend(s, vsnprintf(fmtstr, arg), os)

(***************************************************************************)
(* Indenting streams write to the stream behind them.  The indent of a     *)
(* line waits for its first character, as the level may change before it.  *)
(* The stream behind is one that takes what is written: text or empty.     *)
(***************************************************************************)
skit_ind_stream_ctor(backing) ==
  [class |-> "indent", backing |-> backing, indent_str |-> <<TAB>>, indent_level |-> 0,
   last_peak_level |-> 0, last_write_was_newline |-> FALSE]

Behind(s, did) == Did([s EXCEPT !.backing = did.stream], did.result)
skit_istream_append_indent(s, os) ==
  [s EXCEPT !.backing = FoldLeft(LAMBDA b, i : PlainAppend(b, s.indent_str, os).stream, @, [i \in 1 .. s.indent_level |-> i])]
(* A mutant: the indent of the next line stays due.                        *)
skit_istream_check_last_line_uncleared(s, os) ==
  IF s.last_write_was_newline THEN skit_istream_append_indent(s, os) ELSE s
skit_istream_check_last_line(s, os) ==
  [(IF s.last_write_was_newline THEN skit_istream_append_indent(s, os) ELSE s) EXCEPT !.last_write_was_newline = FALSE]

RECURSIVE WriteLines(_, _, _, _)
WriteLines(s, slice, begin, os) ==
  LET newlines == {i \in begin .. Len(slice) - 1 : skit_slice_match_nl(slice, i) > 0}
      nl_size == skit_slice_match_nl(slice, Min(newlines))
      end == Min(newlines) + nl_size
      Written(to) == [s EXCEPT !.backing = PlainAppend(@, SubSeq(slice, begin + 1, to), os).stream]
  IN  IF newlines = {} THEN (IF begin # Len(slice) THEN Written(Len(slice)) ELSE s)
      ELSE WriteLines(IF end + nl_size < Len(slice) THEN skit_istream_append_indent(Written(end), os)
                      ELSE [Written(end) EXCEPT !.last_write_was_newline = TRUE], slice, end, os)
skit_istream_internal_append(s, slice, os) == WriteLines(s, slice, 0, os)

skit_ind_stream_append(s, slice, os) ==
  skit_istream_internal_append(skit_istream_check_last_line(s, os), slice, os)
skit_ind_stream_appendln(s, line, os) ==
  LET written == skit_istream_check_last_line(skit_ind_stream_append(s, line, os), os)
  IN  [written EXCEPT !.backing = PlainAppendln(@, << >>, os).stream, !.last_write_was_newline = TRUE]

(* The indents go into the format, so a newline of an argument gets none.  *)
RECURSIVE IndentedFormat(_, _, _, _)
IndentedFormat(fmtstr, i, indent, so_far) ==
  LET nl_size == skit_slice_match_nl(fmtstr, i)
      next == i + (IF nl_size > 0 THEN nl_size ELSE 1)
      copied == so_far \o SubSeq(fmtstr, i + 1, next)
  IN  IF i >= Len(fmtstr) THEN so_far
      ELSE IndentedFormat(fmtstr, next, indent, IF nl_size > 0 /\ next < Len(fmtstr) THEN copied \o indent ELSE copied)
skit_ind_stream_appendf_va(s, fmtstr, arg, os) ==
  LET checked == skit_istream_check_last_line(s, os)
      indent == FlattenSeq([i \in 1 .. s.indent_level |-> s.indent_str])
      ends_in_newline == \E i \in 0 .. Len(fmtstr) - 1 :
        skit_slice_match_nl(fmtstr, i) > 0 /\ i + skit_slice_match_nl(fmtstr, i) = Len(fmtstr)
  IN  [checked EXCEPT !.backing = PlainAppendf(@, IndentedFormat(fmtstr, 0, indent, << >>), arg, os).stream,
                      !.last_write_was_newline = ends_in_newline]

skit_ind_stream_incr_indent(s) == [s EXCEPT !.indent_level = @ + 1, !.last_peak_level = s.indent_level + 1]
skit_ind_stream_decr_indent(s) == [s EXCEPT !.indent_level = IF @ > 0 THEN @ - 1 ELSE @]
skit_ind_stream_set_ind_str(s, c) == [s EXCEPT !.indent_str = c]

(***************************************************************************)
(* The methods of any stream                                               *)
(***************************************************************************)
IsIndent(s) == s.class = "indent"
skit_stream_readln(s, os) == IF IsIndent(s) THEN Behind(s, PlainReadln(s.backing, os)) ELSE PlainReadln(s, os)
skit_stream_read(s, nbytes, os) ==
  IF IsIndent(s) THEN Behind(s, PlainRead(s.backing, nbytes, os)) ELSE PlainRead(s, nbytes, os)
skit_stream_read_fn(s, stop) == IF IsIndent(s) THEN Behind(s, PlainReadFn(s.backing, stop)) ELSE PlainReadFn(s, stop)
skit_stream_slurp(s, os) == IF IsIndent(s) THEN Behind(s, PlainSlurp(s.backing, os)) ELSE PlainSlurp(s, os)
skit_stream_flush(s) == IF IsIndent(s) THEN Behind(s, PlainFlush(s.backing)) ELSE PlainFlush(s)
skit_stream_rewind(s) == IF IsIndent(s) THEN Behind(s, PlainRewind(s.backing)) ELSE PlainRewind(s)
skit_stream_append(s, slice, os) ==
  IF IsIndent(s) THEN Quietly(skit_ind_stream_append(s, slice, os)) ELSE PlainAppend(s, slice, os)
skit_stream_appendln(s, line, os) ==
  IF IsIndent(s) THEN Quietly(skit_ind_stream_appendln(s, line, os)) ELSE PlainAppendln(s, line, os)
skit_stream_appendf(s, fmtstr, arg, os) ==
  IF IsIndent(s) THEN Quietly(skit_ind_stream_appendf_va(s, fmtstr, arg, os)) ELSE PlainAppendf(s, fmtstr, arg, os)
skit_stream_incr_indent(s) == IF IsIndent(s) THEN skit_ind_stream_incr_indent(s) ELSE s
skit_stream_decr_indent(s) == IF IsIndent(s) THEN skit_ind_stream_decr_indent(s) ELSE s
skit_stream_set_ind_str(s, c) == IF IsIndent(s) THEN skit_ind_stream_set_ind_str(s, c) ELSE s
skit_stream_get_ind_lvl(s) == IF IsIndent(s) THEN s.indent_level ELSE 0
skit_stream_get_peak(s) == IF IsIndent(s) THEN s.last_peak_level ELSE 0
skit_stream_get_ind_str(s) == IF IsIndent(s) THEN s.indent_str ELSE << >>

(* An integer is its bytes; at the end of the stream there is none.        *)
skit_stream_read_xNN(s, size, os) ==
  LET read == skit_stream_read(s, size, os)
  IN  CASE read.result \in {NullSlice, THROWN} -> Did(read.stream, THROWN)
        [] read.result \notin {NullSlice, THROWN} /\ Len(read.result) < size -> Did(read.stream, UNASSIGNED)
        [] OTHER -> read
skit_stream_append_xNN(s, bytes, os) == skit_stream_append(s, bytes, os)
=============================================================================
