----------------------------- MODULE StreamCalls -----------------------------
(***************************************************************************)
(* Any sequence of calls on one stream of any class, with the descriptors  *)
(* of the process, and a peer at the other end of a connection.            *)
(***************************************************************************)
EXTENDS Streams

CONSTANTS
  Streams0,      (* a tuple of streams as their constructors leave them    *)
  Slices,        (* what is written                                        *)
  Formats,       (* <<format, argument>>                                   *)
  Blocks,        (* lengths of blocks, buffers and pieces                  *)
  Stop,          (* what accept_char refuses                               *)
  FileTexts, Modes, Descriptors,
  Replies,       (* what the peer says at a time                           *)
  MaxText, MaxLevel

VARIABLES
  stream, result, call,
  open,          (* the descriptors that the stream has to close           *)
                 (* History variables, that no guard reads:                *)
  laid_out,      (* what an indenting stream's text should be by now       *)
  short_rest     (* it was given a text that has a short rest              *)

history == <<laid_out, short_rest>>
vars == <<stream, result, call, open, history>>

Init ==
  /\ \E i \in DOMAIN Streams0 : stream = Streams0[i]
  /\ result = << >> /\ call = <<"open", {}>> /\ open = {} /\ laid_out = << >> /\ short_rest = FALSE

Os(buffer, amount) == [buffer |-> buffer, amount |-> amount, fails |-> FALSE]
IsTcp == stream.class = "tcp"
Plain == IF IsIndent(stream) THEN stream.backing ELSE stream
Source == CASE Plain.class = "file" -> Plain.file_handle [] Plain.class = "tcp" -> Plain.socket
            [] Plain.class = "text" -> [text |-> Plain.text, pos |-> MinOf(Plain.cursor, Len(Plain.text) + 1)]
            [] OTHER -> [NoFile EXCEPT !.pos = 1]
(* A file stream is used between its open and its close.                   *)
Usable == Plain.class = "file" => Plain.file_handle # NoFile
Room == Len(Source.text) < MaxText /\ (IsTcp => Len(stream.socket.sent) < MaxText)

Becomes(did, method, argument) == stream' = did.stream /\ result' = did.result /\ call' = <<method, argument>>
Reads(did, method, argument) == Becomes(did, method, argument) /\ UNCHANGED <<open, history>>

(***************************************************************************)
(* Reading.  A recv that has nothing to give waits until the peer speaks   *)
(* or hangs up, so the call is made when it is answered.                   *)
(***************************************************************************)
Answered(enough) == IsTcp /\ stream.socket.peer = "open" => enough
Waiting == IF IsTcp THEN Len(stream.socket.text) - stream.socket.pos ELSE 0

ReadLn == \E buffer \in Blocks : Usable /\ Reads(skit_stream_readln(stream, Os(buffer, 1)), "readln", {})
Read ==
  \E nbytes \in Blocks \cup {0}, amount \in Blocks :
    /\ Usable /\ Answered(Waiting > 0 \/ nbytes = 0)
    /\ Reads(skit_stream_read(stream, nbytes, Os(1, amount)), "read", nbytes)
ReadFn ==
  /\ Usable /\ Answered(\E i \in Source.pos + 1 .. Len(Source.text) : Source.text[i] \in Stop)
  /\ Reads(skit_stream_read_fn(stream, Stop), "read_fn", Stop)
Slurp ==
  \E buffer, amount \in Blocks :
    /\ Usable /\ Answered(Waiting > 0 /\ (amount < buffer \/ Waiting < Chunk.smallest))
    /\ Reads(skit_stream_slurp(stream, Os(buffer, amount)), "slurp", {})
Rewind == Usable /\ Reads(skit_stream_rewind(stream), "rewind", {})
Flush == Usable /\ Reads(skit_stream_flush(stream), "flush", {})

(***************************************************************************)
(* Writing                                                                 *)
(***************************************************************************)
(* Each character goes out as it is, and the first of a line after the     *)
(* indent that holds when it is written.                                   *)
LaidOut(written) ==
  LET indent == FlattenSeq([i \in 1 .. skit_stream_get_ind_lvl(stream) |-> skit_stream_get_ind_str(stream)])
      Add(text, c) == (IF text # << >> /\ text[Len(text)] = LF THEN text \o indent ELSE text) \o <<c>>
  IN  FoldLeft(Add, laid_out, written)
(* A rest no longer than the newline before it, that the end of the text   *)
(* follows.                                                                *)
HasShortRest(slice) ==
  \E i \in 0 .. Len(slice) - 1 :
    LET nl_size == skit_slice_match_nl(slice, i)
    IN  nl_size > 0 /\ Len(slice) - (i + nl_size) \in 1 .. nl_size

(* The call is recorded with what it added to the text behind, indents too.*)
Added(did) == SubSeq(did.stream.backing.text, Len(stream.backing.text) + 1, Len(did.stream.backing.text))
Writes(did, written) ==
  /\ Usable /\ Room /\ UNCHANGED open
  /\ laid_out' = IF IsIndent(stream) THEN LaidOut(written) ELSE laid_out
  /\ Becomes(did, "write", IF IsIndent(stream) THEN Added(did) ELSE written)
Scans(slice) == short_rest' = (short_rest \/ (IsIndent(stream) /\ HasShortRest(slice)))

AppendSlice == \E slice \in Slices, amount \in Blocks :
  Writes(skit_stream_append(stream, slice, Os(1, amount)), slice) /\ Scans(slice)
AppendLine == \E line \in Slices \cup {<< >>}, amount \in Blocks :
  Writes(skit_stream_appendln(stream, line, Os(1, amount)), Append(line, LF)) /\ Scans(line)
AppendFormat == \E format \in Formats, amount \in Blocks :
  /\ Writes(skit_stream_appendf(stream, format[1], format[2], Os(1, amount)), vsnprintf(format[1], format[2]))
  /\ UNCHANGED short_rest

Adjusts(s) == stream' = s /\ UNCHANGED <<result, call, history>>
Indents(s) == Adjusts(s) /\ UNCHANGED open
IncrIndent == IsIndent(stream) /\ skit_stream_get_ind_lvl(stream) < MaxLevel /\ Indents(skit_stream_incr_indent(stream))
DecrIndent == Indents(skit_stream_decr_indent(stream))
SetIndStr == \E slice \in Slices : LF \notin ToSet(slice) /\ Indents(skit_stream_set_ind_str(stream, slice))

(***************************************************************************)
(* Descriptors                                                             *)
(***************************************************************************)
Free == (Descriptors \ open) \cup {-1}
Held == CASE IsTcp -> stream.connection_fd [] stream.class = "file" -> stream.file_handle.fd [] OTHER -> -1
Opens(did) == Becomes(did, "open", {}) /\ UNCHANGED history
GivenIf(taken, fd) == open' = IF taken THEN open \cup {fd} ELSE open

OpenFile ==
  \E text \in FileTexts, mode \in Modes, fd \in Free :
    /\ stream.class = "file" /\ Opens(skit_pfile_stream_open(stream, text, mode, fd))
    /\ GivenIf(stream.file_handle = NoFile /\ fd >= 0, fd)
(* A FILE of the caller, which the stream does not close unless it is told *)
(* to.                                                                     *)
UseHandle ==
  \E text \in FileTexts, mode \in Modes :
    /\ stream.class = "file" /\ stream.file_handle = NoFile /\ UNCHANGED open
    /\ Opens(Quietly(skit_pfile_stream_use_handle(stream, Opened(text, mode, 1))))
CloseWith ==
  /\ stream.class = "file" /\ Adjusts(skit_pfile_stream_close_with(stream, "fclose"))
  /\ open' = open \cup ({Held} \ {-1})
FlushCond ==
  stream.class = "file" /\ Indents(skit_pfile_stream_flush_cond(stream, "flush_on_nl"))
(* An fclose that fails is left out: the FILE is gone then, while the      *)
(* stream still holds it.                                                  *)
CloseFile ==
  /\ stream.class = "file"
  /\ \E Method \in {"close", "dtor"} :
       Opens(IF Method = "close" THEN skit_pfile_stream_close(stream, Os(1, 1))
             ELSE skit_pfile_stream_dtor(stream, Os(1, 1)))
  /\ open' = IF CloserCloses(stream) THEN open \ {Held} ELSE open

Accept ==
  \E fd \in Free : /\ IsTcp /\ Opens(skit_tcp_stream_accept(stream, 100, fd))
                   /\ GivenIf(~IsConnected(stream) /\ fd >= 0, fd)
(* socket gives a descriptor before connect fails, and sSCOPE_FAILURE      *)
(* closes it.                                                              *)
Connect ==
  \E fd \in Free, address_parses, connects \in BOOLEAN :
    /\ IsTcp /\ ~IsConnected(stream) /\ Opens(skit_tcp_stream_connect(stream, address_parses, fd, connects))
    /\ GivenIf(address_parses /\ fd >= 0 /\ connects, fd)
(* A shutdown that fails throws before the descriptor is closed.           *)
Close ==
  IsTcp /\ Opens(skit_tcp_stream_close(stream)) /\ open' = IF result' = THROWN THEN open ELSE open \ {Held}

PeerActs(socket) == Indents([stream EXCEPT !.socket = socket])
PeerSends ==
  \E reply \in Replies : /\ IsTcp /\ stream.socket.peer = "open" /\ Room
                         /\ PeerActs([stream.socket EXCEPT !.text = @ \o reply])
PeerHangsUp ==
  \E peer \in {"closed", "reset"} :
    IsTcp /\ stream.socket.peer \in {"open", "closed"} \ {peer} /\ PeerActs([stream.socket EXCEPT !.peer = peer])

Next ==
  \/ ReadLn \/ Read \/ ReadFn \/ Slurp \/ Rewind \/ Flush
  \/ AppendSlice \/ AppendLine \/ AppendFormat \/ IncrIndent \/ DecrIndent \/ SetIndStr
  \/ OpenFile \/ UseHandle \/ CloseWith \/ FlushCond \/ CloseFile
  \/ Accept \/ Connect \/ Close \/ PeerSends \/ PeerHangsUp

Spec == Init /\ [][Next]_vars

(***************************************************************************)
(* Properties                                                              *)
(***************************************************************************)
(* "A stream supporting indentation awareness will scan all inputs to its  *)
(* append methods and replace instances of newlines with the newlines      *)
(* followed by the indentation string" (stream.h): an indenting stream's   *)
(* text is the one that comes of indenting each line as its first          *)
(* character is written.  The scan takes a short rest of a text for        *)
(* nothing (ind_stream.c, i+nl_size < slice_len), so this does not hold.   *)
NewlinesAreIndented == IsIndent(stream) => Source.text = laid_out

(* Of all texts without a short rest after a newline it does hold, however *)
(* they are cut into calls, and wherever in between the level or the       *)
(* indent changes: the state that waits for the first character of a line  *)
(* (ind_stream.c, last_write_was_newline) is neither lost nor used twice.  *)
IndentIndependentOfCuts == ~short_rest => NewlinesAreIndented

(* A descriptor that the stream opened, accepted or was told to close is   *)
(* the one it holds: none is forgotten, closed twice or closed for a       *)
(* caller that keeps it, however opens fail or closes are refused          *)
(* (pfile_stream.c, open, close, close_with; tcp_stream.c, accept,         *)
(* connect, close).                                                        *)
HandlesAreKept ==
  open = IF stream.class = "file" /\ ~CloserCloses(stream) THEN {} ELSE {Held} \ {-1}

(* With flush_on_nl a newline that was written is on the disk when the     *)
(* call returns, with all before it (skit_pfile_stream_check_flush).       *)
NewlinesReachTheDisk ==
  [][(/\ stream'.class = "file" /\ stream'.flush_condition = "flush_on_nl" /\ result' # THROWN
      /\ call'[1] = "write" /\ LF \in ToSet(call'[2]) /\ result' = << >>
      /\ stream'.file_handle.text # stream.file_handle.text)
     => stream'.file_handle.on_disk = stream'.file_handle.text]_vars

(***************************************************************************)
(* Reading, as stream.h has it                                             *)
(***************************************************************************)
Cursor == IF Plain.class = "file" /\ Source.eof THEN Len(Source.text) + 1 ELSE Source.pos
Reader == INSTANCE AbstractStream WITH
  text <- Source.text, pos <- Cursor, more <- IsTcp /\ stream.socket.peer = "open",
  keeps <- Plain.class \in {"text", "file"}, Newline <- LF, Null <- NullSlice, Thrown <- THROWN

(* readln gives the lines of the text ("The '\0' isn't from the file, so we *)
(* don't return it", pfile_stream.c).  It is returned, when the last line  *)
(* of a file leaves one byte of the chunk.                                 *)
LinesAsPromised == [][call'[1] = "readln" => Reader!ANext]_(Reader!avars)
(* read gives the bytes asked for, as far as there are any, and null at    *)
(* the end of the stream (stream.h), but a file gives an empty slice there *)
(* until its FILE has noticed, and a connection gives less than asked.     *)
BlocksAsPromised == [][call'[1] = "read" /\ call'[2] > 0 => Reader!ANext]_(Reader!avars)
(* read_fn gives what accept_char was shown (stream.h), but a slice that   *)
(* was never assigned if it was shown nothing.                             *)
ScansAsPromised == [][call'[1] = "read_fn" => Reader!ANext]_(Reader!avars)
(* slurp gives the contents "starting at the cursor" (stream.h), but a text*)
(* stream gives all of them.                                               *)
SlurpsAsPromised == [][call'[1] = "slurp" => Reader!ANext]_(Reader!avars)

(* Those departures and three more, each with all it does: a connection    *)
(* gives the next bytes, if not as many as it should; a file that failed a *)
(* write throws away what the next reads take; and appendf does not tell   *)
(* that it failed.                                                         *)
Told(given) == result' = given /\ UNCHANGED Source.text
ExtraByte ==
  /\ call'[1] = "readln" /\ stream.class = "file" /\ Cursor < Len(Source.text)
  /\ Told(Append(SubSeq(Source.text, Cursor + 1, Len(Source.text)), 0)) /\ Cursor' = Len(Source.text) + 1
EmptyForNull ==
  call'[1] = "read" /\ stream.class = "file" /\ Cursor = Len(Source.text) /\ Told(<< >>) /\ Cursor' >= Cursor
Unassigned ==
  /\ call'[1] = "read_fn" /\ stream.class \in {"file", "tcp"} /\ Cursor = Len(Source.text)
  /\ Told(UNASSIGNED) /\ Cursor' >= Cursor
WholeText == call'[1] = "slurp" /\ Plain.class = "text" /\ Told(Source.text) /\ Cursor' = Len(Source.text)
ShortRecv ==
  /\ call'[1] \in {"read", "slurp"} /\ IsTcp
  /\ Told(SubSeq(Source.text, Cursor + 1, Cursor')) /\ Cursor' >= Cursor
LostAfterError ==
  /\ call'[1] \in {"readln", "read", "read_fn", "slurp"} /\ stream.class = "file" /\ Source.error
  /\ Told(THROWN) /\ Cursor' >= Cursor
SilentFailure ==
  call'[1] = "write" /\ stream.class = "file" /\ Source'.error /\ Told(<< >>) /\ Cursor' = Cursor
Departs ==
  \/ ExtraByte \/ EmptyForNull \/ Unassigned \/ WholeText \/ ShortRecv \/ LostAfterError \/ SilentFailure

(* Whatever the class and the order of the calls, a call does what         *)
(* stream.h promises, with these seven exceptions and no other: between    *)
(* them the text stream's cursor past its end, the flags of a FILE that    *)
(* stay set, the chunks of a line and the pieces of a connection give the  *)
(* text in order, each part of it once.  This is of files opened to read   *)
(* or to append, as Modes says; in mode "r+" a file appends where it reads.*)
ReadsGoOn == Reader!AInit /\ [][Reader!ANext \/ Departs]_(Reader!avars)
=============================================================================
