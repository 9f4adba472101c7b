--------------------------- MODULE AbstractStream ---------------------------
(***************************************************************************)
(* What stream.h promises a reader, whatever the class of the stream: the  *)
(* text is there once, in order, each read goes on where the last stopped, *)
(* and at the end there is a null slice.  Where a class does otherwise,    *)
(* StreamCalls says so, and nothing here makes room for it.                *)
(***************************************************************************)
EXTENDS Integers, Sequences, FiniteSets

CONSTANTS Newline, Null, Thrown   (* a character, and results that are no text *)

VARIABLES text,      (* what the stream holds                              *)
          pos,       (* what was read of it, and one more past the end     *)
          result,    (* of the last call                                   *)
          call,      (* the last call: <<method, argument>>                *)
          more,      (* whether more of the text may still come            *)
          keeps      (* whether what is written becomes part of the text   *)

avars == <<text, pos, result, call, more, keeps>>

(* A stream that never has a text may be at its end from the beginning.    *)
Start == IF text = << >> THEN {0, 1} ELSE {0}
AInit == pos \in Start /\ result = << >>

Least(S) == CHOOSE x \in S : \A y \in S : x <= y
AtEnd == pos >= Len(text) /\ ~more
(* Where the first of some characters is, or the end of the text.          *)
Before(chars) == Least({Len(text)} \cup {i \in pos .. Len(text) - 1 : text[i + 1] \in chars})
Past(end) == {end} \cup IF end = Len(text) THEN {end + 1} ELSE {}
Gives(end) == result' = SubSeq(text, pos + 1, end)
Method(method) == call'[1] = method /\ UNCHANGED <<more, keeps>>
Reading(method) == Method(method) /\ UNCHANGED text

(* A line ends before its newline or at the end of the text.  The end is a *)
(* line too, if it has not been read yet.                                  *)
ReadLine ==
  LET end == Before({Newline})
  IN  /\ Reading("readln") /\ pos <= Len(text) /\ (end = Len(text) => ~more)
      /\ Gives(end) /\ pos' = end + 1
(* A block has the length asked for, or is all that remains.               *)
ReadBlock ==
  LET end == Least({pos + call'[2], Len(text)})
  IN  /\ Reading("read") /\ ~AtEnd /\ (end < pos + call'[2] => ~more)
      /\ Gives(end) /\ pos' \in IF end < pos + call'[2] THEN Past(end) ELSE {end}
(* The characters up to and with the first one that is refused, or all     *)
(* that remain.                                                            *)
ReadWhile ==
  LET refused == Before(call'[2])
      end == Least({refused + 1, Len(text)})
  IN  /\ Reading("read_fn") /\ pos < Len(text) /\ (refused = Len(text) => ~more)
      /\ Gives(end) /\ pos' \in IF refused = Len(text) THEN Past(end) ELSE {end}
(* From the cursor to the end.                                             *)
ReadAll == Reading("slurp") /\ ~more /\ Gives(Len(text)) /\ pos' \in Past(Len(text))
(* The end was reached before the call.                                    *)
ReadNothing ==
  /\ \/ Reading("readln") /\ pos > Len(text)
     \/ (Reading("read") \/ Reading("read_fn")) /\ AtEnd
  /\ result' = Null /\ pos' \in {pos} \cup Past(Len(text))
(* A call that throws has done nothing.                                    *)
Refuse == result' = Thrown /\ UNCHANGED <<text, pos, more, keeps>>

Rewind == Reading("rewind") /\ pos' \in Start
Flush == Reading("flush") /\ pos' = pos
(* What is written goes to the end of the text, and the cursor with it.    *)
Write ==
  /\ Method("write") /\ result' = << >>
  /\ IF keeps THEN text' = text \o call'[2] /\ pos' \in {Len(text'), Len(text') + 1}
     ELSE UNCHANGED <<text, pos>>
(* Between two calls more of the text comes, or the last of it has come.   *)
Arrive ==
  /\ more /\ Len(text) <= Len(text') /\ SubSeq(text', 1, Len(text)) = text
  /\ UNCHANGED <<pos, result, call, keeps>>
(* Another file or connection, or none.                                    *)
Open == call'[1] = "open" /\ pos' = 0 /\ UNCHANGED keeps

ANext ==
  \/ ReadLine \/ ReadBlock \/ ReadWhile \/ ReadAll \/ ReadNothing \/ Refuse
  \/ Rewind \/ Flush \/ Write \/ Arrive \/ Open

ASpec == AInit /\ [][ANext]_avars
=============================================================================
