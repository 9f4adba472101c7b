-------------------------- MODULE FeatureEmulation --------------------------
(***************************************************************************)
(* The exception machinery of feature_emulation/: sTRY/sCATCH, sTHROW,     *)
(* sTRACE and scope guards, macros that keep setjmp/longjmp targets and    *)
(* exceptions in the stacks of one skit_thread_context, for one thread     *)
(* that runs any program made of these constructs.                         *)
(*                                                                         *)
(* frames and blocks are the C stack: the active functions with the locals *)
(* SKIT_USE_FEATURE_EMULATION declares, and the constructs that control is *)
(* inside of.  ctx is the thread context.  A freestack is an array and a   *)
(* length here (what a pop leaves above the length stays readable until    *)
(* the next push): see Fstack.  The macros keep no other state.            *)
(***************************************************************************)
EXTENDS Integers, FiniteSets, Sequences, SequencesExt, IsA

CONSTANTS
  ExcTable,      (* the inheritance table of the registered error codes    *)
  ThrowCodes,    (* the codes the program throws                           *)
  BreakCodes,    (* SKIT_BREAK_IN_TRY_CATCH, SKIT_CONTINUE_IN_TRY_CATCH     *)
  CatchLists,    (* the sets of codes its sTRY statements catch            *)
  Masks,         (* the exits its scope guards run on                      *)
  Uses,          (* the uses of the macros it makes beyond the plain ones  *)
  MaxFrames,     (* bounds: active functions,                              *)
  MaxDepth,      (* functions and open constructs together,                *)
  MaxBreaks,     (* breaks per function, each leaving nesting_level high,  *)
  MaxGuards,     (* entries of scope_jmp_stack, and                        *)
  MaxExceptions  (* exceptions in flight                                   *)

Codes == DOMAIN ExcTable

AllUses == {"GuardsAtRoot",       \* guards in the function that made the context
            "BreakInTry",         \* break or continue out of an sTRY body
            "BreakInCatch",       \* break or continue out of an sCATCH body
            "BreakUnderGuards",   \* either of them in a function with guards
            "CalleeEscapesGuard", \* an untraced callee throws out of a guard
            "AnyEscapesGuard"}    \* anything throws out of a guard

ASSUME ExcTableAssumption == ExcTable \in [Codes -> Codes] /\ 0 \in Codes
ASSUME CodesAssumption ==
  /\ ThrowCodes \subseteq Codes
  /\ BreakCodes \subseteq Codes
  /\ CatchLists \subseteq SUBSET Codes
ASSUME MasksAssumption == Masks \subseteq SUBSET {"success", "failure"}
ASSUME UsesAssumption == Uses \subseteq AllUses
ASSUME BoundsAssumption ==
  /\ MaxFrames \in Nat /\ MaxDepth \in Nat /\ MaxBreaks \in Nat
  /\ MaxGuards \in Nat /\ MaxExceptions \in Nat

VARIABLES
  frames,        (* active functions, innermost last                       *)
  blocks,        (* open constructs of all of them, innermost last         *)
  ctx,           (* *skit_thread_ctx; not live when the thread has none    *)
  pc             (* "run": the program's next statement; else a macro's    *)

vars == <<frames, blocks, ctx, pc>>

-----------------------------------------------------------------------------
(* Data *)

NoException == [code |-> 0, text |-> FALSE]
NoPosition  == [try |-> 0, exc |-> 0, scope |-> 0, debug |-> 0]

(* What SKIT_USE_FEATURE_EMULATION declares: the context is the thread's.  *)
NewFrame(skit_thread_ctx) ==
  [ skit_thread_ctx |-> skit_thread_ctx, nesting_level |-> 0, guards_used |-> FALSE,
    exit_status |-> "none", scope_fn_exit |-> "none" ]

Fr == Len(frames)
Me == frames[Fr]

(* A construct: its function; what an sTRY catches; what an sCATCH caught   *)
(* and in which node; the stack positions an sTRACE saved (in a local,      *)
(* skit__thread_ctx_pos, that nothing but that sTRACE reads).               *)
Block(kind) ==
  [ kind |-> kind, fr |-> Fr, catches |-> {}, node |-> 0, caught |-> NoException,
    pos |-> NoPosition ]

(* The bound on what the program enters.                                   *)
ShallowEnough == Fr + Len(blocks) < MaxDepth

(* A jmp_buf in exc_jmp_stack: the construct it returns to, and how many   *)
(* constructs enclose that one.                                            *)
Jmp(depth, block) == [at |-> depth, blk |-> block]

(* skit__create_thread_context and SKIT_THREAD_CONTEXT_INIT.               *)
NewContext ==
  [ live |-> TRUE, entry_check_count |-> 0, try_jmp_stack |-> << >>,
    exc_jmp_stack |-> << Jmp(0, Block("bottom")) >>, scope_jmp_stack |-> << >>,
    debug_depth |-> 1, exc_nodes |-> [n \in 1 .. MaxExceptions |-> NoException],
    exc_used |-> 0 ]

NoContext ==
  [ NewContext EXCEPT !.live = FALSE, !.exc_jmp_stack = << >>, !.debug_depth = 0 ]

(* A local pointer to a context that is freed or replaced dangles.         *)
Outdated(pointer) == IF pointer = "live" THEN "stale" ELSE pointer

PointTo(fs, pointer) ==
  [i \in DOMAIN fs |-> [fs[i] EXCEPT !.skit_thread_ctx =
                          IF i = Len(fs) THEN pointer ELSE Outdated(@)]]

(* SKIT_THREAD_CHECK_ENTRY: a function without a context makes one.        *)
Entered ==
  LET c == IF Me.skit_thread_ctx = "null" THEN NewContext ELSE ctx
  IN  [c EXCEPT !.entry_check_count = @ + 1]

EnteredFrames ==
  IF Me.skit_thread_ctx = "null" THEN PointTo(frames, "live") ELSE frames

(* A bug the runs must catch: the last function out does not free it.      *)
LeftUnfreed(c) == [c EXCEPT !.entry_check_count = @ - 1]

(* SKIT_THREAD_CHECK_EXIT on context c, by the last function of fs.        *)
Left(c) ==
  IF c.entry_check_count = 1 THEN NoContext ELSE [c EXCEPT !.entry_check_count = @ - 1]

LeftFrames(fs, c) == IF c.entry_check_count = 1 THEN PointTo(fs, "null") ELSE fs

(* setjmp into the next node of exc_jmp_stack, on entry to a construct.    *)
Guarded(c, block) ==
  [c EXCEPT !.exc_jmp_stack = Append(@, Jmp(Len(blocks), block))]

(* skit_push_exception and skit_push_exception_obj: the next node is       *)
(* overwritten.                                                            *)
Pushed(c, exception) ==
  [c EXCEPT !.exc_used = @ + 1, !.exc_nodes[c.exc_used + 1] = exception]

Matches(code, catches) == \E c \in catches : skit_is_a(ExcTable, code, c)

-----------------------------------------------------------------------------
(* What the program may do next *)

Own == blocks # << >> /\ Last(blocks).fr = Fr

Inside(kind) == Own /\ Last(blocks).kind = kind

CountBlocks(kinds, fr) ==
  Cardinality({i \in DOMAIN blocks : blocks[i].kind \in kinds /\ blocks[i].fr = fr})

(* sTRACE and sETRACE take an expression: no statement of the same function *)
(* executes inside of one.                                                 *)
AtStatement == pc = "run" /\ ~ Inside("trace")

(***************************************************************************)
(* scope.h: "scope guards may not exit with a throw".  A throw is the      *)
(* program's fault when a guard runs and no sTRY opened since catches it.  *)
(***************************************************************************)
CaughtSince(g, code, bs) ==
  \E i \in g + 1 .. Len(bs) :
    /\ bs[i].kind = "try"
    /\ Matches(code, bs[i].catches)
    /\ i < Len(bs) => bs[i + 1].kind # "catch"

MayThrow(code, bs) ==
  \A g \in DOMAIN bs :
    bs[g].kind = "guard" =>
      \/ "AnyEscapesGuard" \in Uses
      \/ CaughtSince(g, code, bs)
      \/ /\ "CalleeEscapesGuard" \in Uses
         /\ Fr > bs[g].fr
         /\ \A i \in g + 1 .. Len(bs) : bs[i].fr # bs[g].fr

-----------------------------------------------------------------------------
(***************************************************************************)
(* SKIT__SCAN_SCOPE_GUARDS in the last function of fs.  A function without *)
(* guards, or one inside an sTRY, goes on at once; otherwise its guards    *)
(* are visited and target says what the setjmp at scope_fn_exit resumes.   *)
(***************************************************************************)
(* Bugs the runs must catch: the nesting level ignored, and its test wrong *)
(* way round.                                                              *)
ScansNested(fs) == Last(fs).nesting_level # 0 /\ Last(fs).guards_used

Scans(fs) == Last(fs).nesting_level = 0 /\ Last(fs).guards_used

(* Another: the exit's status is not set.                                  *)
ScanningForNoStatus(fs, status, target) ==
  IF Scans(fs) THEN [fs EXCEPT ![Len(fs)].scope_fn_exit = target] ELSE fs

Scanning(fs, status, target) ==
  IF Scans(fs)
  THEN [fs EXCEPT ![Len(fs)].exit_status = status, ![Len(fs)].scope_fn_exit = target]
  ELSE fs

(* SKIT__PROPOGATE_THROWN_EXCEPTIONS                                       *)
PropagateFrom(fs) ==
  /\ frames' = Scanning(fs, "failure", "throw")
  /\ pc' = IF Scans(fs) THEN "visit" ELSE "propagate"

-----------------------------------------------------------------------------
(* Functions and sTRACE *)

Call ==
  /\ pc = "run"
  /\ Fr < MaxFrames
  /\ ShallowEnough
  /\ frames' = Append(frames, NewFrame(IF ctx.live THEN "live" ELSE "null"))
  /\ UNCHANGED <<blocks, ctx, pc>>

(* sRETURN, or falling off sEND_SCOPE or the end of the function.          *)
Return ==
  /\ AtStatement
  /\ Fr > 1
  /\ Own => Inside("scope")
  /\ frames' = IF Scans(frames) THEN Scanning(frames, "success", "return") ELSE Front(frames)
  /\ pc' = IF Scans(frames) THEN "visit" ELSE "run"
  /\ UNCHANGED <<blocks, ctx>>

(* skit_save_thread_context_pos and skit_reconcile_thread_context          *)
Position(c) ==
  [ try |-> Len(c.try_jmp_stack), exc |-> Len(c.exc_jmp_stack),
    scope |-> Len(c.scope_jmp_stack), debug |-> c.debug_depth ]

Trimmed(s, n) == IF Len(s) > n THEN SubSeq(s, 1, n) ELSE s

Reconciled(c, pos) ==
  [ c EXCEPT !.try_jmp_stack   = Trimmed(@, pos.try),
             !.exc_jmp_stack   = Trimmed(@, pos.exc),
             !.scope_jmp_stack = Trimmed(@, pos.scope),
             !.debug_depth     = IF @ > pos.debug THEN pos.debug ELSE @ ]

PoppedTooFar(c, pos) == \E s \in DOMAIN pos : Position(c)[s] < pos[s]

sTRACE ==
  /\ AtStatement
  /\ ShallowEnough
  /\ LET trace == [Block("trace") EXCEPT !.pos = Position(Entered)]
     IN  /\ ctx' = [Guarded(Entered, trace) EXCEPT !.debug_depth = @ + 1]
         /\ blocks' = Append(blocks, trace)
  /\ frames' = EnteredFrames
  /\ UNCHANGED pc

(* Both ways out of sTRACE pop what it pushed, then reconcile.             *)
Untraced == [ctx EXCEPT !.debug_depth = @ - 1, !.exc_jmp_stack = Front(@)]

sTRACE_End ==
  /\ pc = "run"
  /\ Inside("trace")
  /\ LET c == Reconciled(Untraced, Last(blocks).pos)
     IN  /\ ctx' = Left(c)
         /\ frames' = LeftFrames(frames, c)
         /\ blocks' = Front(blocks)
         /\ pc' = IF PoppedTooFar(Untraced, Last(blocks).pos) THEN "dead" ELSE "run"

-----------------------------------------------------------------------------
(* sTRY and sCATCH *)

sTRY(catches) ==
  /\ AtStatement
  /\ ShallowEnough
  /\ LET try == [Block("try") EXCEPT !.catches = catches]
     IN  /\ ctx' = [Guarded(Entered, try) EXCEPT !.try_jmp_stack = Append(@, Len(blocks) + 1)]
         /\ blocks' = Append(blocks, try)
  /\ frames' = [EnteredFrames EXCEPT ![Fr].nesting_level = @ + 1]
  /\ UNCHANGED pc

(* Bugs the runs must catch: one of the two stacks not popped, or the      *)
(* exceptions popped as well.                                              *)
CleanUpTryOnly(c) == [c EXCEPT !.try_jmp_stack = Front(@)]
CleanUpTooMuch(c) == [c EXCEPT !.exc_jmp_stack = Front(@), !.try_jmp_stack = Front(@),
                               !.exc_used = @ - 1]

(* SKIT__TRY_EXCEPTION_CLEANUP: both jumps popped, then the code after     *)
(* SKIT__TRY_SAFE_EXIT.                                                    *)
CleanUp(c) == [c EXCEPT !.exc_jmp_stack = Front(@), !.try_jmp_stack = Front(@)]

(* Control leaves an sTRY by its end; c is the context after the cleanup.  *)
LeaveTry(c) ==
  /\ ctx' = Left(c)
  /\ frames' = LeftFrames([frames EXCEPT ![Fr].nesting_level = @ - 1], c)
  /\ UNCHANGED pc

EndOfTry ==
  /\ pc = "run"
  /\ Inside("try")
  /\ LeaveTry(CleanUp(ctx))
  /\ blocks' = Front(blocks)

(* The end of an sCATCH block pops its own jump and destroys the exception. *)
EndOfCatch ==
  /\ pc = "run"
  /\ Inside("catch")
  /\ LeaveTry(CleanUp([ctx EXCEPT !.exc_jmp_stack = Front(@),
                                  !.exc_nodes[Last(blocks).node] = NoException]))
  /\ blocks' = Front(Front(blocks))

(***************************************************************************)
(* break or continue: only one jump is popped from exc_jmp_stack, whether  *)
(* an sTRY or an sCATCH body is left, and nesting_level stays as it is.    *)
(***************************************************************************)
BreakOut ==
  /\ pc = "run"
  /\ \/ "BreakInTry" \in Uses /\ Inside("try") /\ blocks' = Front(blocks)
     \/ "BreakInCatch" \in Uses /\ Inside("catch") /\ blocks' = Front(Front(blocks))
  /\ "BreakUnderGuards" \in Uses \/ ~ Me.guards_used
  /\ Me.nesting_level - CountBlocks({"try"}, Fr) < MaxBreaks
  /\ ctx.exc_used < MaxExceptions
  /\ \A code \in BreakCodes : MayThrow(code, blocks')
  /\ ctx' = Left(CleanUp(ctx))
  /\ frames' = LeftFrames(frames, CleanUp(ctx))
  /\ pc' = "break"

-----------------------------------------------------------------------------
(* sTHROW and SKIT_THROW_EXCEPTION *)

Raise(exception) ==
  /\ ctx' = Pushed(Entered, exception)
  /\ PropagateFrom(EnteredFrames)
  /\ UNCHANGED blocks

sTHROW(code) ==
  /\ AtStatement
  /\ ctx.exc_used < MaxExceptions
  /\ MayThrow(code, blocks)
  /\ Raise([code |-> code, text |-> TRUE])

(* The sTHROW at the bottom of sEND_TRY, once control broke out.           *)
ThrowBreak ==
  /\ pc = "break"
  /\ \E code \in BreakCodes : Raise([code |-> code, text |-> TRUE])

(* SKIT_THROW_EXCEPTION(e), e being what an sCATCH of this function caught: *)
(* *e is copied to the next node, which may be e itself.  (Of an exception *)
(* of its own the program makes what sTHROW makes.)                        *)
SKIT_THROW_EXCEPTION ==
  /\ AtStatement
  /\ ctx.exc_used < MaxExceptions
  /\ \E i \in DOMAIN blocks :
       /\ blocks[i].kind = "catch"
       /\ blocks[i].fr = Fr
       /\ MayThrow(ctx.exc_nodes[blocks[i].node].code, blocks)
       /\ Raise(ctx.exc_nodes[blocks[i].node])

-----------------------------------------------------------------------------
(***************************************************************************)
(* skit_propogate_exceptions: longjmp to the front of exc_jmp_stack.  The  *)
(* jump drops every function and construct entered since that setjmp.  It  *)
(* is undefined without an exception, or into a function that returned.    *)
(***************************************************************************)
Target == Last(ctx.exc_jmp_stack)

Reachable(fr, depth) == fr \in 1 .. Fr /\ depth \in 0 .. Len(blocks)

JumpIsDefined ==
  /\ ctx.exc_used > 0
  /\ ctx.exc_jmp_stack # << >>
  /\ Reachable(Target.blk.fr, Target.at)

skit_propogate_exceptions ==
  /\ pc = "propagate"
  /\ IF JumpIsDefined
     THEN /\ ctx' = [ctx EXCEPT !.entry_check_count = @ - 1]
          /\ frames' = SubSeq(frames, 1, Target.blk.fr)
          /\ blocks' = IF Target.blk.kind = "bottom" THEN << >>
                       ELSE Append(SubSeq(blocks, 1, Target.at), Target.blk)
          /\ pc' = "land"
     ELSE /\ pc' = IF ctx.exc_jmp_stack = << >> THEN "dead" ELSE "crashed"
          /\ UNCHANGED <<frames, blocks, ctx>>

Lands(kind) == pc = "land" /\ Target.blk.kind = kind

(* The bottom of the stack: print, free the context, skit_die.             *)
LandAtBottom ==
  /\ Lands("bottom")
  /\ ctx' = NoContext
  /\ frames' = PointTo(frames, "null")
  /\ pc' = "dead"
  /\ UNCHANGED blocks

LandInTrace ==
  /\ Lands("trace")
  /\ ctx' = Reconciled(Untraced, Target.blk.pos)
  /\ blocks' = Front(blocks)
  /\ IF PoppedTooFar(Untraced, Target.blk.pos)
     THEN pc' = "dead" /\ UNCHANGED frames
     ELSE PropagateFrom(frames)

(* An sCATCH matches: the exception's node goes back to the free nodes and *)
(* e keeps pointing to it.                                                 *)
Caught(c, catch) == [Guarded(c, catch) EXCEPT !.exc_used = @ - 1]

sCATCH ==
  /\ Lands("try")
  /\ LET node  == ctx.exc_used
         catch == [Block("catch") EXCEPT !.node = node, !.caught = ctx.exc_nodes[node]]
     IN  /\ node > 0
         /\ Matches(ctx.exc_nodes[node].code, Target.blk.catches)
         /\ ctx' = Caught(ctx, catch)
         /\ blocks' = Append(blocks, catch)
  /\ pc' = "run"
  /\ UNCHANGED frames

(* A bug the runs must catch: the function goes on to count as inside.     *)
UnhandledStillNested(c) == ctx' = CleanUp(c) /\ PropagateFrom(frames)

(* SKIT__TRY_UNHANDLED_EXCEPTION                                           *)
Unhandled(c) ==
  /\ ctx' = CleanUp(c)
  /\ PropagateFrom([frames EXCEPT ![Fr].nesting_level = @ - 1])

LandInTryUnhandled ==
  /\ Lands("try")
  /\ ctx.exc_used > 0
  /\ ~ Matches(ctx.exc_nodes[ctx.exc_used].code, Target.blk.catches)
  /\ Unhandled(ctx)
  /\ blocks' = Front(blocks)

(* Thrown within an sCATCH block: none of the same sTRY's may catch it.    *)
LandInCatch ==
  /\ Lands("catch")
  /\ Unhandled([ctx EXCEPT !.exc_jmp_stack = Front(@)])
  /\ blocks' = Front(Front(blocks))

(* The "unplanned exit" of a function with guards, and its end.            *)
LandInScope ==
  /\ Lands("scope")
  /\ frames' = Scanning(frames, "failure", "scope")
  /\ pc' = IF Scans(frames) THEN "visit" ELSE "leaving"
  /\ UNCHANGED <<blocks, ctx>>

LeaveScope ==
  /\ pc = "leaving"
  /\ ctx' = Entered
  /\ frames' = EnteredFrames
  /\ pc' = "propagate"
  /\ UNCHANGED blocks

(* "An exception was thrown in a sSCOPE_EXIT block": sASSERT(0).           *)
LandInGuard ==
  /\ Lands("guard")
  /\ pc' = "dead"
  /\ UNCHANGED <<frames, blocks, ctx>>

-----------------------------------------------------------------------------
(***************************************************************************)
(* sSCOPE_GUARD_BEGIN, reached for the first time: it only registers the   *)
(* guard.  The first one of a function also sets its scope up: a node for  *)
(* scope_fn_exit and a jump for exceptions that no sTRACE intercepts.      *)
(***************************************************************************)
ScopeJmp(at, exit, mask) == [fr |-> Fr, at |-> at, exit |-> exit, mask |-> mask]

MayGuard ==
  /\ AtStatement
  /\ Own => Inside("scope")
  /\ Len(ctx.scope_jmp_stack) < MaxGuards
  /\ "GuardsAtRoot" \in Uses \/ Me.skit_thread_ctx # "null"
  /\ "BreakUnderGuards" \in Uses \/ Me.nesting_level = 0

FirstGuard(mask) ==
  /\ MayGuard
  /\ ~ Me.guards_used
  /\ LET at == Len(blocks) + 1
     IN  ctx' = [Guarded(Entered, Block("scope")) EXCEPT
                   !.scope_jmp_stack = @ \o <<ScopeJmp(at, TRUE, {}), ScopeJmp(at, FALSE, mask)>>]
  /\ frames' = [EnteredFrames EXCEPT ![Fr].guards_used = TRUE]
  /\ blocks' = Append(blocks, Block("scope"))
  /\ UNCHANGED pc

NextGuard(mask) ==
  /\ MayGuard
  /\ Me.guards_used
  /\ ctx' = [ctx EXCEPT !.scope_jmp_stack = Append(@, ScopeJmp(Len(blocks), FALSE, mask))]
  /\ UNCHANGED <<frames, blocks, pc>>

(***************************************************************************)
(* longjmp(pop(scope_jmp_stack)): to a guard, which runs or is passed over *)
(* depending on exit_status, or last to scope_fn_exit.                     *)
(***************************************************************************)
Visited == Last(ctx.scope_jmp_stack)

VisitIsDefined ==
  /\ ctx.scope_jmp_stack # << >>
  /\ Reachable(Visited.fr, Visited.at)

VisitFrames == SubSeq(frames, 1, Visited.fr)
VisitBlocks == SubSeq(blocks, 1, Visited.at)

PoppedScope == [ctx EXCEPT !.scope_jmp_stack = Front(@)]

Applies == Last(VisitFrames).exit_status \in Visited.mask

RunGuard ==
  /\ pc = "visit"
  /\ VisitIsDefined
  /\ ~ Visited.exit
  /\ Applies
  /\ LET guard == [Block("guard") EXCEPT !.fr = Visited.fr]
     IN  /\ ctx' = [PoppedScope EXCEPT !.exc_jmp_stack = Append(@, Jmp(Visited.at, guard))]
         /\ blocks' = Append(VisitBlocks, guard)
  /\ frames' = VisitFrames
  /\ pc' = "run"

PassGuard ==
  /\ pc = "visit"
  /\ VisitIsDefined
  /\ ~ Visited.exit
  /\ ~ Applies
  /\ ctx' = PoppedScope
  /\ blocks' = VisitBlocks
  /\ frames' = VisitFrames
  /\ UNCHANGED pc

sEND_SCOPE_GUARD ==
  /\ pc = "run"
  /\ Inside("guard")
  /\ ctx' = [ctx EXCEPT !.exc_jmp_stack = Front(@)]
  /\ blocks' = Front(blocks)
  /\ pc' = "visit"
  /\ UNCHANGED frames

(* The stack has run out (skit_die) or the jump leads nowhere, or else the *)
(* scan is back where it was started.                                      *)
EndVisit ==
  /\ pc = "visit"
  /\ VisitIsDefined => Visited.exit
  /\ IF VisitIsDefined
     THEN /\ ctx' = PoppedScope
          /\ frames' = VisitFrames
          /\ blocks' = VisitBlocks
          /\ pc' = "visited"
     ELSE /\ pc' = IF ctx.scope_jmp_stack = << >> THEN "dead" ELSE "crashed"
          /\ UNCHANGED <<frames, blocks, ctx>>

(* The end of SKIT__SCAN_SCOPE_GUARDS: the jump of FirstGuard is popped,   *)
(* its entry check undone, and what the scan interrupted goes on.          *)
EndScan ==
  /\ pc = "visited"
  /\ LET c  == [ctx EXCEPT !.exc_jmp_stack = Front(@)]
         fs == LeftFrames([frames EXCEPT ![Fr].scope_fn_exit = "none"], c)
     IN  /\ ctx' = Left(c)
         /\ frames' = IF Me.scope_fn_exit = "return" THEN Front(fs) ELSE fs
  /\ blocks' = Front(blocks)
  /\ pc' = CASE Me.scope_fn_exit = "return" -> "run"
             [] Me.scope_fn_exit = "throw"  -> "propagate"
             [] OTHER                       -> "leaving"

-----------------------------------------------------------------------------
Init ==
  /\ frames = <<NewFrame("null")>>
  /\ blocks = << >>
  /\ ctx = NoContext
  /\ pc = "run"

Program ==
  \/ Call \/ Return \/ sTRACE \/ sTRACE_End
  \/ \E catches \in CatchLists : sTRY(catches)
  \/ EndOfTry \/ EndOfCatch \/ BreakOut
  \/ \E code \in ThrowCodes : sTHROW(code)
  \/ SKIT_THROW_EXCEPTION
  \/ \E mask \in Masks : FirstGuard(mask) \/ NextGuard(mask)
  \/ sEND_SCOPE_GUARD

Machine ==
  \/ ThrowBreak \/ skit_propogate_exceptions
  \/ LandAtBottom \/ LandInTrace \/ sCATCH \/ LandInTryUnhandled \/ LandInCatch
  \/ LandInScope \/ LeaveScope \/ LandInGuard
  \/ RunGuard \/ PassGuard \/ EndVisit \/ EndScan

Stopped == pc \in {"dead", "crashed"}

Next == Program \/ Machine \/ (Stopped /\ UNCHANGED vars)

Spec == Init /\ [][Next]_vars

(* The macros run on by themselves; the program owes nothing.              *)
FairSpec == Spec /\ WF_vars(Machine)

-----------------------------------------------------------------------------
(* Types *)

Kinds == {"bottom", "try", "catch", "trace", "scope", "guard"}

Exceptions == [code : Codes, text : BOOLEAN]

Frames ==
  [ skit_thread_ctx : {"null", "live", "stale"}, nesting_level : Int,
    guards_used : BOOLEAN, exit_status : {"none", "success", "failure"},
    scope_fn_exit : {"none", "return", "throw", "scope"} ]

Positions == [try : Int, exc : Int, scope : Int, debug : Int]

Blocks ==
  { b \in [ kind : Kinds, fr : Nat, catches : SUBSET Codes,
            node : 0 .. MaxExceptions, caught : Exceptions, pos : Positions ] :
      b.kind = "catch" => b.node # 0 }

Jmps == [at : Nat, blk : Blocks]

ScopeJmps == [fr : Nat, at : Nat, exit : BOOLEAN, mask : SUBSET {"success", "failure"}]

Contexts ==
  [ live : BOOLEAN, entry_check_count : Int, try_jmp_stack : Seq(Nat),
    exc_jmp_stack : Seq(Jmps), scope_jmp_stack : Seq(ScopeJmps), debug_depth : Int,
    exc_nodes : [1 .. MaxExceptions -> Exceptions], exc_used : 0 .. MaxExceptions ]

(* Every variable has its type.  In particular exc_instance_stack never    *)
(* holds a negative number of exceptions, or more than the program throws  *)
(* at a time, and an sCATCH block has caught one.                          *)
TypeOK ==
  /\ frames \in Seq(Frames) /\ frames # << >>
  /\ blocks \in Seq(Blocks)
  /\ ctx \in Contexts
  /\ pc \in {"run", "break", "propagate", "land", "leaving", "visit", "visited",
             "dead", "crashed"}

-----------------------------------------------------------------------------
(* Safety *)

ScansFor(targets) == {i \in DOMAIN frames : frames[i].scope_fn_exit \in targets}

(* One jump for every construct in bs, above the one that catches all; and *)
(* one for every open sTRY.                                                *)
Mirrors(bs, exc_jmp_stack) ==
  /\ Len(exc_jmp_stack) = Len(bs) + 1
  /\ exc_jmp_stack[1].blk.kind = "bottom" /\ exc_jmp_stack[1].at = 0
  /\ \A i \in 1 .. Len(bs) : exc_jmp_stack[i + 1] = Jmp(i - 1, bs[i])

TriesListed(bs, try_jmp_stack) ==
  /\ \A k \in 1 .. Len(try_jmp_stack) :
       try_jmp_stack[k] \in 1 .. Len(bs) /\ bs[try_jmp_stack[k]].kind = "try"
  /\ \A j, k \in 1 .. Len(try_jmp_stack) : j < k => try_jmp_stack[j] < try_jmp_stack[k]
  /\ \A i \in 1 .. Len(bs) :
       bs[i].kind = "try" => \E k \in 1 .. Len(try_jmp_stack) : try_jmp_stack[k] = i

(***************************************************************************)
(* exc_jmp_stack holds one jump for every construct control is inside of,  *)
(* in their order, above the jump that catches everything, and             *)
(* try_jmp_stack one for every open sTRY: a throw lands in the innermost   *)
(* construct, and never in one that was left.  At the end of sTRACE every  *)
(* stack is as it was at its start, whatever the callee threw and caught:  *)
(* reconciling has nothing to do.                                          *)
(***************************************************************************)
JmpStacksMirrorControl ==
  /\ IF ctx.live THEN Mirrors(blocks, ctx.exc_jmp_stack) ELSE blocks = << >>
  /\ TriesListed(blocks, ctx.try_jmp_stack)
  /\ pc = "run" /\ Inside("trace") => Position(Untraced) = Last(blocks).pos

(***************************************************************************)
(* entry_check_count counts the open constructs, the functions about to    *)
(* propagate and the propagation itself, so that the context is freed when *)
(* the last of them ends, never before, and no function that goes on to    *)
(* use its pointer to the context finds it freed.                          *)
(* skit__try_catch_nesting_level, which tells a throw that a function is   *)
(* left from one that its own sTRY catches, likewise counts the open sTRYs *)
(* of every function whose guards depend on it.  (A break out of an sTRY   *)
(* leaves it too high, which a function without guards does not notice.)   *)
(***************************************************************************)
Checks ==
  Cardinality({i \in DOMAIN blocks : blocks[i].kind \in {"try", "trace", "scope"}})
    + Cardinality(ScansFor({"throw"})) + IF pc = "propagate" THEN 1 ELSE 0

EntryChecksBalanced ==
  ~ Stopped =>
    /\ ctx.live => ctx.entry_check_count = Checks
    /\ ctx.live <=> Checks > 0 \/ pc = "land"
    /\ \A i \in DOMAIN frames :
         /\ frames[i].skit_thread_ctx # "stale"
         /\ frames[i].skit_thread_ctx = "live" => ctx.live
         /\ frames[i].guards_used => frames[i].nesting_level = CountBlocks({"try"}, i)

(***************************************************************************)
(* An exception is in exc_instance_stack exactly while it is on its way:   *)
(* one for the propagation under way and one for every function whose      *)
(* guards run because of it.                                               *)
(***************************************************************************)
PendingExceptions ==
  ~ Stopped =>
    ctx.exc_used = Cardinality(ScansFor({"throw", "scope"}))
                     + IF pc \in {"propagate", "land", "leaving"} THEN 1 ELSE 0

(***************************************************************************)
(* A scope guard that waits to run belongs to a function that is active,   *)
(* and has its scope open: no function is left, by a return or a throw,    *)
(* before its guards have run.  And it runs them once: no scan starts in a *)
(* function while one of its guards runs.                                  *)
(***************************************************************************)
GuardsBelongToActiveFrames ==
  /\ \A i \in DOMAIN ctx.scope_jmp_stack :
       LET guard == ctx.scope_jmp_stack[i]
       IN  /\ guard.fr <= Fr
           /\ guard.at <= Len(blocks)
           /\ blocks[guard.at].kind = "scope"
           /\ blocks[guard.at].fr = guard.fr
  /\ pc \in {"visit", "visited"} => CountBlocks({"guard"}, Fr) = 0

(***************************************************************************)
(* No jump leads to a function that returned, none is made without an      *)
(* exception, and no stack of the context runs empty.                      *)
(***************************************************************************)
NeverCrashes ==
  /\ pc # "crashed"
  /\ pc = "propagate" => JumpIsDefined
  /\ pc = "visit" => VisitIsDefined

(***************************************************************************)
(* What an sCATCH block caught is what it finds until the block ends.  The *)
(* code does not keep this: the node of the caught exception is free again *)
(* and the next throw within the block reuses it (see README.md).          *)
(***************************************************************************)
CaughtExceptionIntact ==
  \A i \in DOMAIN blocks :
    blocks[i].kind = "catch" => ctx.exc_nodes[blocks[i].node] = blocks[i].caught

(***************************************************************************)
(* For the program this is exceptions and guards as a language has them:   *)
(* a throw ends in the innermost sCATCH that matches, with the code that   *)
(* was thrown, whatever guards threw and caught on the way; every guard of *)
(* every function that is left runs once, the last first, on the exits it  *)
(* is for; and a return goes on where it was called.  The mapping forgets  *)
(* the jumps, the context and sTRACE.                                      *)
(***************************************************************************)
StatementOf(fs, block) ==
  CASE block.kind = "try"   -> [kind |-> "try", codes |-> block.catches]
    [] block.kind = "catch" -> [kind |-> "catch"]
    [] OTHER                ->
         [kind |-> "guard",
          resumes |-> IF fs[block.fr].scope_fn_exit = "return" THEN "return" ELSE "throw"]

IsStatement(block, fr) == block.fr = fr /\ block.kind \in {"try", "catch", "guard"}
Waits(guard, fr) == guard.fr = fr /\ ~ guard.exit

StatementsOf(fs, bs, fr) ==
  LET f[n \in 0 .. Len(bs)] ==
        IF n = 0 THEN << >>
        ELSE IF IsStatement(bs[n], fr) THEN Append(f[n - 1], StatementOf(fs, bs[n])) ELSE f[n - 1]
  IN  f[Len(bs)]

GuardsOf(gs, fr) ==
  LET f[n \in 0 .. Len(gs)] ==
        IF n = 0 THEN << >> ELSE IF Waits(gs[n], fr) THEN Append(f[n - 1], gs[n].mask) ELSE f[n - 1]
  IN  f[Len(gs)]

CallOf(fr) ==
  [ blocks |-> StatementsOf(frames, blocks, fr), guards |-> GuardsOf(ctx.scope_jmp_stack, fr) ]

Calls == IF pc = "dead" THEN << >> ELSE [fr \in DOMAIN frames |-> CallOf(fr)]

Thrown == IF pc = "dead" THEN << >> ELSE [n \in 1 .. ctx.exc_used |-> ctx.exc_nodes[n].code]

Doing ==
  CASE pc \in {"propagate", "land", "leaving"} -> "throw"
    [] pc \in {"visit", "visited"} -> IF Me.scope_fn_exit = "return" THEN "return" ELSE "throw"
    [] OTHER -> pc

Structured ==
  INSTANCE StructuredExceptions WITH calls <- Calls, thrown <- Thrown, doing <- Doing

ImplementsStructuredExceptions == Structured!Spec

(***************************************************************************)
(* A throw ends: in an sCATCH block, in a scope guard that runs on the     *)
(* way, or by stopping the program.                                        *)
(***************************************************************************)
Unwinding == pc \notin {"run", "dead", "crashed"}

UnwindingEnds == Unwinding ~> ~ Unwinding
=============================================================================
