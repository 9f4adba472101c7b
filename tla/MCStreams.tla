----------------------------- MODULE MCStreams -----------------------------
(***************************************************************************)
(* A stream of each class, texts of a character and newlines, and chunks   *)
(* short enough to be filled.                                              *)
(***************************************************************************)
EXTENDS StreamCalls

a == 97
MCChunk == [smallest |-> 2, default |-> 3]
MCStreams0 ==
  <<skit_text_stream_init_str(<<a, LF>>), skit_pfile_stream_ctor, skit_tcp_stream_ctor, skit_empty_stream_ctor,
    skit_stream_ctor, skit_ind_stream_ctor(skit_text_stream_init_str(<< >>))>>
MCSlices == {<<a>>, <<LF>>, <<LF, a>>, <<LF, a, a>>}
MCFormats == {<<<<DIRECTIVE, LF, a>>, <<a>>>>}
MCStop == {LF}
MCFileTexts == {<< >>, <<a, a>>, <<LF, a>>, <<a, LF>>}

(* For the departure of readln from stream.h: a file of one character.     *)
OneFile == <<skit_pfile_stream_ctor>>
OneCharacter == {<<a>>}
=============================================================================
