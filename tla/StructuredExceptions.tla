------------------------ MODULE StructuredExceptions ------------------------
(***************************************************************************)
(* Exceptions and scope guards as a language has them: what the macros of  *)
(* feature_emulation/ promise to emulate.  A program is a stack of calls,  *)
(* each with the statements it is inside of and the guards it still has to *)
(* run.  A throw unwinds that stack from the top: it runs guards, the last *)
(* first, and ends in the first sCATCH whose code is an ancestor.  There   *)
(* are no jumps, no contexts and no macros here.                           *)
(***************************************************************************)
EXTENDS Integers, Sequences, IsA

CONSTANT ExcTable

VARIABLES
  calls,         (* active functions, innermost last: their open statements *)
                 (* and the exits on which their waiting guards run         *)
  thrown,        (* the codes of the exceptions in flight, the newest last  *)
  doing          (* "run", "break", "throw", "return" or "dead"             *)

vars == <<calls, thrown, doing>>

Codes == DOMAIN ExcTable
Exits == {"success", "failure"}

NewCall == [blocks |-> << >>, guards |-> << >>]
Newest(s) == s[Len(s)]
Outer(s, n) == SubSeq(s, 1, Len(s) - n)
Top == Newest(calls)
Blocks == Top.blocks
IsOf(kind, blocks) == blocks # << >> /\ Newest(blocks).kind = kind
Innermost(kind) == IsOf(kind, Blocks)

Try(codes) == [kind |-> "try", codes |-> codes]
Catch == [kind |-> "catch"]
(* A guard's body, and what goes on when it ends.                          *)
Guard(resumes) == [kind |-> "guard", resumes |-> resumes]

(* The calls with other statements open in the innermost one.              *)
Reopened(cs, blocks) == [cs EXCEPT ![Len(cs)].blocks = blocks]
Opened(cs, blocks) == {Reopened(cs, Append(blocks, Try(codes))) : codes \in SUBSET Codes}
Within(blocks) == calls' = Reopened(calls, blocks)
Handles(codes) == \E c \in codes : skit_is_a(ExcTable, Newest(thrown), c)

-----------------------------------------------------------------------------
(* What the program does *)

Running == doing = "run" /\ UNCHANGED thrown
Call == Running /\ calls' = Append(calls, NewCall) /\ UNCHANGED doing
EnterTry == Running /\ calls' \in Opened(calls, Blocks) /\ UNCHANGED doing
EndTry == Running /\ Innermost("try") /\ Within(Outer(Blocks, 1)) /\ UNCHANGED doing
EndCatch == Running /\ Innermost("catch") /\ Within(Outer(Blocks, 2)) /\ UNCHANGED doing
AddGuard ==
  /\ Running /\ Blocks = << >>
  /\ \E exits \in SUBSET Exits : calls' = [calls EXCEPT ![Len(calls)].guards = Append(@, exits)]
  /\ UNCHANGED doing

(* "This acts as if we first leave the TRY-CATCH and then thrown."         *)
Break ==
  /\ Running /\ doing' = "break"
  /\ \/ Innermost("try") /\ Within(Outer(Blocks, 1))
     \/ Innermost("catch") /\ Within(Outer(Blocks, 2))

Throw ==
  /\ doing \in {"run", "break"} /\ doing' = "throw"
  /\ \E code \in Codes : thrown' = Append(thrown, code)
  /\ UNCHANGED calls

(* A function returns when its guards have run.                            *)
Leave == calls' = Outer(calls, 1)
Return ==
  /\ Running /\ Blocks = << >>
  /\ IF Top.guards = << >> THEN Leave /\ UNCHANGED doing ELSE doing' = "return" /\ UNCHANGED calls
Returned == doing = "return" /\ Blocks = << >> /\ Top.guards = << >> /\ Leave /\ doing' = "run" /\ UNCHANGED thrown

-----------------------------------------------------------------------------
(* Unwinding *)

(* The last guard of the function that is left: it runs on this exit, or   *)
(* is passed over.                                                         *)
VisitGuard ==
  LET exit == IF doing = "return" THEN "success" ELSE "failure"
      runs == exit \in Newest(Top.guards)
  IN  /\ doing \in {"throw", "return"} /\ Blocks = << >> /\ Top.guards # << >>
      /\ doing' = IF runs THEN "run" ELSE doing
      /\ calls' = [calls EXCEPT ![Len(calls)] =
                     [blocks |-> IF runs THEN <<Guard(doing)>> ELSE << >>, guards |-> Outer(@.guards, 1)]]
      /\ UNCHANGED thrown
EndGuard ==
  /\ Running /\ Innermost("guard")
  /\ Within(Outer(Blocks, 1)) /\ doing' = Newest(Blocks).resumes

(* Functions with nothing to do are left, any number of them at a time.    *)
Unwind ==
  /\ doing = "throw" /\ UNCHANGED <<thrown, doing>>
  /\ \E n \in 1 .. Len(calls) - 1 :
       /\ \A i \in n + 1 .. Len(calls) : calls[i] = NewCall
       /\ calls' = SubSeq(calls, 1, n)

(* The innermost sTRY either catches or is left; so is an sCATCH block,    *)
(* with its sTRY.                                                          *)
Catches ==
  /\ doing = "throw" /\ Innermost("try") /\ Handles(Newest(Blocks).codes)
  /\ Within(Append(Blocks, Catch)) /\ thrown' = Outer(thrown, 1) /\ doing' = "run"
Passes ==
  /\ doing = "throw" /\ UNCHANGED <<thrown, doing>>
  /\ \/ Innermost("try") /\ ~ Handles(Newest(Blocks).codes) /\ Within(Outer(Blocks, 1))
     \/ Innermost("catch") /\ Within(Outer(Blocks, 2))

(* Nobody catches it, or it leaves a guard, which is forbidden.            *)
Die ==
  /\ doing = "throw" /\ calls' = << >> /\ thrown' = << >> /\ doing' = "dead"
  /\ Innermost("guard") \/ \A i \in DOMAIN calls : calls[i] = NewCall

-----------------------------------------------------------------------------
Init == calls = <<NewCall>> /\ thrown = << >> /\ doing = "run"

Next ==
  \/ Call \/ EnterTry \/ EndTry \/ EndCatch \/ AddGuard \/ Break \/ Throw \/ Return \/ Returned
  \/ VisitGuard \/ EndGuard \/ Unwind \/ Catches \/ Passes \/ Die

Spec == Init /\ [][Next]_vars
=============================================================================
