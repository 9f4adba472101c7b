----------------------- MODULE FeatureEmulationProofs -----------------------
(***************************************************************************)
(* Type correctness of the exception machinery, for every program and      *)
(* every bound on it.  Most of it is that the helpers keep the types of    *)
(* contexts and frames; the rest is why a stack that is popped without a   *)
(* test has a typed front and why control never runs out of functions.     *)
(* Behind it, the parts that FeatureEmulationControl builds on.            *)
(***************************************************************************)
EXTENDS FeatureEmulation, FiniteSetTheorems, TLAPS

(* Front, Last and prefixes of typed sequences.                            *)
LEMMA PrefixType ==
  ASSUME NEW S, NEW s \in Seq(S), NEW n \in 0 .. Len(s)
  PROVE  /\ SubSeq(s, 1, n) \in Seq(S)
         /\ Len(SubSeq(s, 1, n)) = n
         /\ \A i \in 1 .. n : SubSeq(s, 1, n)[i] = s[i]
  OBVIOUS

LEMMA FrontType ==
  ASSUME NEW S, NEW s \in Seq(S)
  PROVE  Front(s) \in Seq(S)
<1>1. CASE s = << >>
  BY <1>1 DEF Front
<1>2. CASE s # << >>
  BY <1>2 DEF Front
<1> QED
  BY <1>1, <1>2

LEMMA FrontKeepsHead ==
  ASSUME NEW S, NEW s \in Seq(S), Len(s) > 1
  PROVE  Front(s) # << >> /\ Front(s)[1] = s[1]
<1>1. Len(s) - 1 \in 0 .. Len(s) /\ 1 \in 1 .. Len(s) - 1
  OBVIOUS
<1>2. Len(Front(s)) = Len(s) - 1 /\ Front(s)[1] = s[1]
  BY <1>1, PrefixType DEF Front
<1> QED
  BY <1>2

LEMMA LastType ==
  ASSUME NEW S, NEW s \in Seq(S), s # << >>
  PROVE  Last(s) \in S
  BY DEF Last

LEMMA AppendType ==
  ASSUME NEW S, NEW s \in Seq(S), NEW x \in S
  PROVE  Append(s, x) \in Seq(S)
  OBVIOUS

LEMMA TrimmedType ==
  ASSUME NEW S, NEW s \in Seq(S), NEW n \in Int
  PROVE  Trimmed(s, n) \in Seq(S)
<1>1. CASE Len(s) > n /\ n >= 0
  BY <1>1, PrefixType DEF Trimmed
<1>2. CASE Len(s) > n /\ n < 0
  BY <1>2 DEF Trimmed
<1>3. CASE ~ (Len(s) > n)
  BY <1>3 DEF Trimmed
<1> QED
  BY <1>1, <1>2, <1>3

-----------------------------------------------------------------------------
(* The strengthening.  The first function never returns, so that a scan on *)
(* behalf of a return always leaves a caller; and a break leaves room for  *)
(* the exception it will throw.                                            *)
FramesOK(fs) ==
  /\ fs \in Seq(Frames)
  /\ fs # << >>
  /\ fs[1].scope_fn_exit # "return"

IInv ==
  /\ FramesOK(frames)
  /\ blocks \in Seq(Blocks)
  /\ ctx \in Contexts
  /\ pc \in {"run", "break", "propagate", "land", "leaving", "visit", "visited",
             "dead", "crashed"}
  /\ pc = "break" => ctx.exc_used < MaxExceptions
  /\ pc = "land" => Target \in Jmps

LEMMA Types ==
  ASSUME IInv
  PROVE  /\ frames \in Seq(Frames) /\ Fr \in Nat
         /\ blocks \in Seq(Blocks) /\ Len(blocks) \in Nat
         /\ \A i \in DOMAIN blocks : blocks[i] \in Blocks
         /\ ctx \in Contexts
<1>1. frames \in Seq(Frames) /\ blocks \in Seq(Blocks) /\ ctx \in Contexts
  BY DEF IInv, FramesOK
<1> QED
  BY <1>1 DEF Fr

LEMMA ContextTypes ==
  ASSUME NEW c \in Contexts
  PROVE  /\ c.entry_check_count \in Int /\ c.debug_depth \in Int
         /\ c.try_jmp_stack \in Seq(Nat)
         /\ c.exc_jmp_stack \in Seq(Jmps) /\ c.scope_jmp_stack \in Seq(ScopeJmps)
         /\ c.exc_nodes \in [1 .. MaxExceptions -> Exceptions]
         /\ c.exc_used \in 0 .. MaxExceptions
  BY DEF Contexts

LEMMA NoExceptionType == NoException \in Exceptions
  BY ExcTableAssumption DEF NoException, Exceptions

LEMMA BlockType ==
  ASSUME frames \in Seq(Frames), NEW kind \in Kinds \ {"catch"}
  PROVE  Block(kind) \in Blocks
  BY NoExceptionType, BoundsAssumption
  DEF Block, Blocks, Kinds, Fr, NoPosition, Positions

LEMMA CatchBlockType ==
  ASSUME IInv, NEW n \in 1 .. MaxExceptions, NEW e \in Exceptions
  PROVE  [Block("catch") EXCEPT !.node = n, !.caught = e] \in Blocks
<1> DEFINE Raw == [ kind : Kinds, fr : Nat, catches : SUBSET Codes,
                    node : 0 .. MaxExceptions, caught : Exceptions, pos : Positions ]
<1>1. Block("catch") \in Raw
  BY Types, NoExceptionType, BoundsAssumption DEF Block, Kinds, NoPosition, Positions
<1>2. n \in 0 .. MaxExceptions /\ n # 0
  BY BoundsAssumption
<1>3. ASSUME NEW b \in Raw
      PROVE  [b EXCEPT !.node = n, !.caught = e] \in Blocks
  BY <1>2 DEF Blocks
<1> QED
  BY <1>1, <1>3

LEMMA JmpType ==
  ASSUME NEW at \in Nat, NEW b \in Blocks
  PROVE  Jmp(at, b) \in Jmps
  BY DEF Jmp, Jmps

LEMMA NewContextType ==
  ASSUME frames \in Seq(Frames)
  PROVE  /\ NewContext \in Contexts /\ NewContext.exc_used = 0
         /\ NoContext \in Contexts /\ NoContext.exc_used = 0
<1>1. Jmp(0, Block("bottom")) \in Jmps
  BY BlockType, JmpType DEF Kinds
<1>2. <<Jmp(0, Block("bottom"))>> \in Seq(Jmps)
  BY <1>1
<1>3. [n \in 1 .. MaxExceptions |-> NoException] \in [1 .. MaxExceptions -> Exceptions]
  BY NoExceptionType
<1>4. NewContext \in Contexts
  BY <1>2, <1>3, BoundsAssumption DEF NewContext, Contexts
<1>5. NewContext.exc_used = 0
  BY DEF NewContext
<1> HIDE DEF NewContext
<1>6. << >> \in Seq(Jmps)
  OBVIOUS
<1>7. ASSUME NEW c \in Contexts, NEW empty \in Seq(Jmps), NEW none \in Int
      PROVE  LET d == [c EXCEPT !.live = FALSE, !.exc_jmp_stack = empty, !.debug_depth = none]
             IN  d \in Contexts /\ d.exc_used = c.exc_used
  BY DEF Contexts
<1>8. NoContext \in Contexts /\ NoContext.exc_used = 0
  <2> DEFINE empty == << >>
             none  == 0
  <2>1. empty \in Seq(Jmps) /\ none \in Int
    BY <1>6
  <2>2. NoContext = [NewContext EXCEPT !.live = FALSE, !.exc_jmp_stack = empty,
                                       !.debug_depth = none]
    BY DEF NoContext
  <2> HIDE DEF empty, none
  <2> QED
    BY <1>4, <1>5, <1>7, <2>1, <2>2
<1> QED
  BY <1>4, <1>5, <1>8

(* The helpers on contexts.                                                *)
LEMMA CountType ==
  ASSUME NEW c \in Contexts, NEW n \in Int
  PROVE  /\ [c EXCEPT !.entry_check_count = n] \in Contexts
         /\ [c EXCEPT !.entry_check_count = n].exc_used = c.exc_used
  BY DEF Contexts

LEMMA EnteredType ==
  ASSUME frames \in Seq(Frames), ctx \in Contexts
  PROVE  Entered \in Contexts /\ Entered.exc_used \in {0, ctx.exc_used}
<1> DEFINE c == IF Me.skit_thread_ctx = "null" THEN NewContext ELSE ctx
<1>1. c \in Contexts /\ c.exc_used \in {0, ctx.exc_used}
  BY NewContextType
<1>2. Entered = [c EXCEPT !.entry_check_count = @ + 1]
  BY DEF Entered
<1> HIDE DEF c
<1>3. c.entry_check_count + 1 \in Int
  BY <1>1 DEF Contexts
<1>4. Entered = [c EXCEPT !.entry_check_count = c.entry_check_count + 1]
  BY <1>2
<1> QED
  BY <1>1, <1>3, <1>4, CountType

LEMMA DepthType ==
  ASSUME NEW c \in Contexts, NEW n \in Int
  PROVE  [c EXCEPT !.debug_depth = n] \in Contexts
  BY DEF Contexts

LEMMA LeftType ==
  ASSUME frames \in Seq(Frames), NEW c \in Contexts
  PROVE  Left(c) \in Contexts /\ Left(c).exc_used \in {0, c.exc_used}
<1>1. CASE c.entry_check_count = 1
  BY <1>1, NewContextType DEF Left
<1>2. CASE c.entry_check_count # 1
  <2>1. c.entry_check_count - 1 \in Int
    BY DEF Contexts
  <2>2. Left(c) = [c EXCEPT !.entry_check_count = c.entry_check_count - 1]
    BY <1>2 DEF Left
  <2> QED
    BY <2>1, <2>2, CountType
<1> QED
  BY <1>1, <1>2

LEMMA GuardedType ==
  ASSUME NEW c \in Contexts, NEW b \in Blocks, blocks \in Seq(Blocks)
  PROVE  /\ Guarded(c, b) \in Contexts
         /\ Guarded(c, b).exc_used = c.exc_used
<1>1. Jmp(Len(blocks), b) \in Jmps
  BY JmpType
<1>2. Append(c.exc_jmp_stack, Jmp(Len(blocks), b)) \in Seq(Jmps)
  BY <1>1 DEF Contexts
<1> QED
  BY <1>2 DEF Guarded, Contexts

LEMMA PushedType ==
  ASSUME NEW c \in Contexts, NEW e \in Exceptions, c.exc_used < MaxExceptions
  PROVE  Pushed(c, e) \in Contexts
<1> DEFINE nodes == [c.exc_nodes EXCEPT ![c.exc_used + 1] = e]
<1>1. nodes \in [1 .. MaxExceptions -> Exceptions]
  BY DEF Contexts
<1>2. c.exc_used + 1 \in 0 .. MaxExceptions
  BY BoundsAssumption DEF Contexts
<1>3. Pushed(c, e) = [c EXCEPT !.exc_used = c.exc_used + 1, !.exc_nodes = nodes]
  BY DEF Pushed, Contexts
<1> HIDE DEF nodes
<1> QED
  BY <1>1, <1>2, <1>3 DEF Contexts

LEMMA CleanUpType ==
  ASSUME NEW c \in Contexts
  PROVE  CleanUp(c) \in Contexts /\ CleanUp(c).exc_used = c.exc_used
  BY FrontType DEF CleanUp, Contexts

LEMMA PoppedType ==
  ASSUME NEW c \in Contexts
  PROVE  [c EXCEPT !.exc_jmp_stack = Front(@)] \in Contexts
  BY FrontType DEF Contexts

LEMMA ReconciledType ==
  ASSUME NEW c \in Contexts, NEW pos \in Positions
  PROVE  Reconciled(c, pos) \in Contexts
<1>1. /\ Trimmed(c.try_jmp_stack, pos.try) \in Seq(Nat)
      /\ Trimmed(c.exc_jmp_stack, pos.exc) \in Seq(Jmps)
      /\ Trimmed(c.scope_jmp_stack, pos.scope) \in Seq(ScopeJmps)
  BY TrimmedType DEF Contexts, Positions
<1> QED
  BY <1>1 DEF Reconciled, Contexts, Positions

LEMMA PositionType ==
  ASSUME NEW c \in Contexts
  PROVE  Position(c) \in Positions
  BY DEF Position, Contexts, Positions

(* The helpers on frames.                                                  *)
LEMMA PointToType ==
  ASSUME NEW fs, FramesOK(fs), NEW pointer \in {"null", "live"}
  PROVE  FramesOK(PointTo(fs, pointer)) /\ Len(PointTo(fs, pointer)) = Len(fs)
<1>1. \A i \in DOMAIN fs :
        /\ PointTo(fs, pointer)[i] \in Frames
        /\ PointTo(fs, pointer)[i].scope_fn_exit = fs[i].scope_fn_exit
  <2> SUFFICES ASSUME NEW i \in DOMAIN fs
               PROVE  /\ PointTo(fs, pointer)[i] \in Frames
                      /\ PointTo(fs, pointer)[i].scope_fn_exit = fs[i].scope_fn_exit
    OBVIOUS
  <2> DEFINE p == IF i = Len(fs) THEN pointer ELSE Outdated(fs[i].skit_thread_ctx)
  <2>1. fs[i] \in Frames
    BY DEF FramesOK
  <2>2. p \in {"null", "live", "stale"}
    BY <2>1 DEF Outdated, Frames
  <2>3. PointTo(fs, pointer)[i] = [fs[i] EXCEPT !.skit_thread_ctx = p]
    BY <2>1 DEF PointTo, Frames
  <2> HIDE DEF p
  <2> QED
    BY <2>1, <2>2, <2>3 DEF Frames
<1>2. PointTo(fs, pointer) \in [1 .. Len(fs) -> Frames]
  BY <1>1 DEF PointTo, FramesOK
<1>3. PointTo(fs, pointer) \in Seq(Frames) /\ Len(PointTo(fs, pointer)) = Len(fs)
  BY <1>2 DEF FramesOK
<1> QED
  BY <1>1, <1>3 DEF FramesOK

LEMMA EnteredFramesType ==
  ASSUME FramesOK(frames)
  PROVE  FramesOK(EnteredFrames) /\ Len(EnteredFrames) = Fr
  BY PointToType DEF EnteredFrames, Fr

LEMMA LeftFramesType ==
  ASSUME NEW fs, FramesOK(fs), NEW c
  PROVE  FramesOK(LeftFrames(fs, c)) /\ Len(LeftFrames(fs, c)) = Len(fs)
  BY PointToType DEF LeftFrames

(* A frame that is updated in place.                                       *)
LEMMA FrameUpdate ==
  ASSUME NEW fs, FramesOK(fs), NEW i \in DOMAIN fs, NEW f \in Frames,
         f.scope_fn_exit # "return" \/ i > 1 \/ f.scope_fn_exit = fs[i].scope_fn_exit
  PROVE  FramesOK([fs EXCEPT ![i] = f]) /\ Len([fs EXCEPT ![i] = f]) = Len(fs)
  BY DEF FramesOK

LEMMA LastFrameType ==
  ASSUME NEW fs, FramesOK(fs)
  PROVE  Len(fs) \in DOMAIN fs /\ fs[Len(fs)] \in Frames
  BY DEF FramesOK

LEMMA NestingUp ==
  ASSUME NEW fs, FramesOK(fs), NEW n, n = Len(fs)
  PROVE  FramesOK([fs EXCEPT ![n].nesting_level = @ + 1])
<1> DEFINE f == [fs[n] EXCEPT !.nesting_level = @ + 1]
<1>1. n \in DOMAIN fs /\ fs[n] \in Frames
  BY LastFrameType
<1>2. f \in Frames /\ f.scope_fn_exit = fs[n].scope_fn_exit
  BY <1>1 DEF Frames
<1>3. [fs EXCEPT ![n].nesting_level = @ + 1] = [fs EXCEPT ![n] = f]
  OBVIOUS
<1> HIDE DEF f
<1> QED
  BY <1>1, <1>2, <1>3, FrameUpdate

LEMMA NestingDown ==
  ASSUME NEW fs, FramesOK(fs), NEW n, n = Len(fs)
  PROVE  FramesOK([fs EXCEPT ![n].nesting_level = @ - 1])
<1> DEFINE f == [fs[n] EXCEPT !.nesting_level = @ - 1]
<1>1. n \in DOMAIN fs /\ fs[n] \in Frames
  BY LastFrameType
<1>2. f \in Frames /\ f.scope_fn_exit = fs[n].scope_fn_exit
  BY <1>1 DEF Frames
<1>3. [fs EXCEPT ![n].nesting_level = @ - 1] = [fs EXCEPT ![n] = f]
  OBVIOUS
<1> HIDE DEF f
<1> QED
  BY <1>1, <1>2, <1>3, FrameUpdate

LEMMA GuardsUsed ==
  ASSUME NEW fs, FramesOK(fs), NEW n, n = Len(fs)
  PROVE  FramesOK([fs EXCEPT ![n].guards_used = TRUE])
<1> DEFINE f == [fs[n] EXCEPT !.guards_used = TRUE]
<1>1. n \in DOMAIN fs /\ fs[n] \in Frames
  BY LastFrameType
<1>2. f \in Frames /\ f.scope_fn_exit = fs[n].scope_fn_exit
  BY <1>1 DEF Frames
<1>3. [fs EXCEPT ![n].guards_used = TRUE] = [fs EXCEPT ![n] = f]
  OBVIOUS
<1> HIDE DEF f
<1> QED
  BY <1>1, <1>2, <1>3, FrameUpdate

LEMMA ScanOver ==
  ASSUME NEW fs, FramesOK(fs), NEW n, n = Len(fs)
  PROVE  /\ FramesOK([fs EXCEPT ![n].scope_fn_exit = "none"])
         /\ Len([fs EXCEPT ![n].scope_fn_exit = "none"]) = n
<1> DEFINE f == [fs[n] EXCEPT !.scope_fn_exit = "none"]
<1>1. n \in DOMAIN fs /\ fs[n] \in Frames
  BY LastFrameType
<1>2. f \in Frames /\ f.scope_fn_exit # "return"
  BY <1>1 DEF Frames
<1>3. [fs EXCEPT ![n].scope_fn_exit = "none"] = [fs EXCEPT ![n] = f]
  OBVIOUS
<1> HIDE DEF f
<1>4. FramesOK([fs EXCEPT ![n] = f]) /\ Len([fs EXCEPT ![n] = f]) = Len(fs)
  BY <1>1, <1>2, FrameUpdate
<1> QED
  BY <1>3, <1>4

LEMMA FramesPrefix ==
  ASSUME NEW fs, FramesOK(fs), NEW n \in 1 .. Len(fs)
  PROVE  FramesOK(SubSeq(fs, 1, n))
<1>1. fs \in Seq(Frames) /\ n \in 0 .. Len(fs) /\ 1 \in 1 .. n
  BY DEF FramesOK
<1>2. /\ SubSeq(fs, 1, n) \in Seq(Frames) /\ Len(SubSeq(fs, 1, n)) = n
      /\ SubSeq(fs, 1, n)[1] = fs[1]
  BY <1>1, PrefixType
<1> QED
  BY <1>1, <1>2 DEF FramesOK

LEMMA CallerFrames ==
  ASSUME NEW fs, FramesOK(fs), Len(fs) > 1
  PROVE  FramesOK(Front(fs))
  BY FrontType, FrontKeepsHead DEF FramesOK

LEMMA ScanningType ==
  ASSUME NEW fs, FramesOK(fs), NEW status \in {"success", "failure"},
         NEW target \in {"return", "throw", "scope"}, target = "return" => Len(fs) > 1
  PROVE  FramesOK(Scanning(fs, status, target))
<1> DEFINE n == Len(fs)
           f == [fs[n] EXCEPT !.exit_status = status, !.scope_fn_exit = target]
<1>1. n \in DOMAIN fs /\ fs[n] \in Frames
  BY DEF FramesOK
<1>2. f \in Frames /\ f.scope_fn_exit = target
  BY <1>1 DEF Frames
<1>3. [fs EXCEPT ![Len(fs)].exit_status = status, ![Len(fs)].scope_fn_exit = target]
        = [fs EXCEPT ![n] = f]
  BY <1>1 DEF FramesOK
<1> HIDE DEF f
<1> QED
  BY <1>1, <1>2, <1>3, FrameUpdate DEF Scanning

(* What the macros share.                                                  *)
LEMMA PropagateType ==
  ASSUME NEW fs, FramesOK(fs), PropagateFrom(fs)
  PROVE  FramesOK(frames') /\ pc' \in {"visit", "propagate"}
  BY ScanningType DEF PropagateFrom

LEMMA RaiseType ==
  ASSUME IInv, NEW e \in Exceptions, ctx.exc_used < MaxExceptions, Raise(e)
  PROVE  IInv'
<1>1. frames \in Seq(Frames) /\ ctx \in Contexts
  BY DEF IInv, FramesOK
<1>2. Entered \in Contexts /\ Entered.exc_used \in {0, ctx.exc_used}
  BY <1>1, EnteredType
<1>3. Entered.exc_used < MaxExceptions
  BY <1>1, <1>2, BoundsAssumption DEF Contexts
<1>4. ctx' \in Contexts
  BY <1>2, <1>3, PushedType DEF Raise
<1>5. FramesOK(frames') /\ pc' \in {"visit", "propagate"}
  BY EnteredFramesType, PropagateType DEF Raise, IInv
<1> QED
  BY <1>4, <1>5 DEF IInv, Raise, FramesOK

LEMMA LeaveTryType ==
  ASSUME IInv, NEW c \in Contexts, LeaveTry(c)
  PROVE  FramesOK(frames') /\ ctx' \in Contexts
<1>1. FramesOK([frames EXCEPT ![Fr].nesting_level = @ - 1])
  BY NestingDown DEF IInv, Fr
<1>2. FramesOK(frames')
  BY <1>1, LeftFramesType DEF LeaveTry
<1>3. ctx' \in Contexts
  BY LeftType DEF LeaveTry, IInv, FramesOK
<1> QED
  BY <1>2, <1>3

LEMMA UnhandledType ==
  ASSUME IInv, NEW c \in Contexts, Unhandled(c)
  PROVE  FramesOK(frames') /\ ctx' \in Contexts /\ pc' \in {"visit", "propagate"}
<1>1. FramesOK([frames EXCEPT ![Fr].nesting_level = @ - 1])
  BY NestingDown DEF IInv, Fr
<1> QED
  BY <1>1, PropagateType, CleanUpType DEF Unhandled

LEMMA UntracedType ==
  ASSUME IInv
  PROVE  /\ Untraced \in Contexts
         /\ \A b \in Blocks : Reconciled(Untraced, b.pos) \in Contexts
<1> DEFINE a == [ctx EXCEPT !.debug_depth = @ - 1]
<1>1. a \in Contexts
  <2>1. ctx.debug_depth - 1 \in Int
    BY Types, ContextTypes
  <2>2. a = [ctx EXCEPT !.debug_depth = ctx.debug_depth - 1]
    OBVIOUS
  <2> QED
    BY <2>1, <2>2, DepthType DEF IInv
<1>2. Untraced = [a EXCEPT !.exc_jmp_stack = Front(@)]
  BY DEF Untraced, IInv, Contexts
<1> HIDE DEF a
<1>3. Untraced \in Contexts
  BY <1>1, <1>2, PoppedType
<1>4. \A b \in Blocks : b.pos \in Positions
  BY DEF Blocks
<1> QED
  BY <1>3, <1>4, ReconciledType

LEMMA PoppedScopeType ==
  ASSUME IInv
  PROVE  PoppedScope \in Contexts
  BY FrontType DEF PoppedScope, IInv, Contexts

LEMMA VisitType ==
  ASSUME IInv, VisitIsDefined
  PROVE  /\ Visited \in ScopeJmps
         /\ FramesOK(VisitFrames)
         /\ VisitBlocks \in Seq(Blocks)
<1>1. Visited \in ScopeJmps
  BY LastType DEF Visited, VisitIsDefined, IInv, Contexts
<1>2. Visited.fr \in 1 .. Len(frames) /\ Visited.at \in 0 .. Len(blocks)
  BY DEF VisitIsDefined, Reachable, Fr
<1>3. FramesOK(VisitFrames)
  BY <1>2, FramesPrefix DEF VisitFrames, IInv
<1>4. VisitBlocks \in Seq(Blocks)
  BY <1>2, PrefixType DEF VisitBlocks, IInv
<1> QED
  BY <1>1, <1>3, <1>4

-----------------------------------------------------------------------------
LEMMA InitIInv == Init => IInv
<1> SUFFICES ASSUME Init
             PROVE  IInv
  OBVIOUS
<1>1. NewFrame("null") \in Frames /\ NewFrame("null").scope_fn_exit = "none"
  BY DEF NewFrame, Frames
<1>2. FramesOK(frames)
  BY <1>1 DEF Init, FramesOK
<1>3. ctx \in Contexts
  BY <1>2, NewContextType DEF Init, FramesOK
<1> QED
  BY <1>2, <1>3 DEF Init, IInv

(* Calls, returns and sTRACE.                                              *)
LEMMA CallStep == ASSUME IInv, Call PROVE IInv'
<1> DEFINE p == IF ctx.live THEN "live" ELSE "null"
<1>1. NewFrame(p) \in Frames
  BY DEF NewFrame, Frames
<1>2. FramesOK(frames')
  BY <1>1 DEF Call, IInv, FramesOK
<1> QED
  BY <1>2 DEF Call, IInv

LEMMA ReturnStep == ASSUME IInv, Return PROVE IInv'
<1>1. Len(frames) > 1 /\ FramesOK(frames)
  BY DEF Return, Fr, IInv
<1>2. FramesOK(frames')
  BY <1>1, ScanningType, CallerFrames DEF Return
<1> QED
  BY <1>2 DEF Return, IInv

LEMMA TraceStep == ASSUME IInv, sTRACE PROVE IInv'
<1> DEFINE trace == [Block("trace") EXCEPT !.pos = Position(Entered)]
           g     == Guarded(Entered, trace)
<1>1. frames \in Seq(Frames) /\ Entered \in Contexts /\ Block("trace") \in Blocks
  BY EnteredType, BlockType DEF IInv, FramesOK, Kinds
<1>2. trace \in Blocks
  BY <1>1, PositionType DEF Blocks
<1> HIDE DEF trace
<1>3. g \in Contexts
  BY <1>1, <1>2, GuardedType DEF IInv
<1>4. ctx' \in Contexts
  <2>1. g.debug_depth + 1 \in Int /\ ctx' = [g EXCEPT !.debug_depth = g.debug_depth + 1]
    BY <1>3 DEF sTRACE, Contexts, trace
  <2> QED
    BY <1>3, <2>1, DepthType
<1>5. FramesOK(frames')
  BY EnteredFramesType DEF sTRACE, IInv
<1>6. blocks' \in Seq(Blocks)
  <2>1. blocks' = Append(blocks, trace)
    BY DEF sTRACE, trace
  <2> QED
    BY <1>2, <2>1, AppendType DEF IInv
<1>7. pc' = "run"
  BY DEF sTRACE, AtStatement
<1> QED
  BY <1>4, <1>5, <1>6, <1>7 DEF IInv

LEMMA TraceEndStep == ASSUME IInv, sTRACE_End PROVE IInv'
<1> DEFINE c == Reconciled(Untraced, Last(blocks).pos)
<1>1. c \in Contexts
  <2>1. blocks \in Seq(Blocks) /\ blocks # << >>
    BY DEF sTRACE_End, Inside, Own, IInv
  <2> QED
    BY <2>1, LastType, UntracedType
<1>2. ctx' \in Contexts
  BY <1>1, LeftType DEF sTRACE_End, IInv, FramesOK
<1>3. FramesOK(frames')
  BY LeftFramesType DEF sTRACE_End, IInv
<1>4. blocks' \in Seq(Blocks)
  BY FrontType DEF sTRACE_End, IInv
<1> QED
  BY <1>2, <1>3, <1>4 DEF sTRACE_End, IInv

(* sTRY, its ends and the ways out of it.                                  *)
LEMMA TryStep == ASSUME IInv, NEW catches \in CatchLists, sTRY(catches) PROVE IInv'
<1> DEFINE try == [Block("try") EXCEPT !.catches = catches]
           g   == Guarded(Entered, try)
<1>1. frames \in Seq(Frames) /\ Entered \in Contexts /\ Block("try") \in Blocks
  BY EnteredType, BlockType DEF IInv, FramesOK, Kinds
<1>2. try \in Blocks
  BY <1>1, CodesAssumption DEF Blocks
<1> HIDE DEF try
<1>3. g \in Contexts
  BY <1>1, <1>2, GuardedType DEF IInv
<1>4. ctx' \in Contexts
  <2>1. ctx' = [g EXCEPT !.try_jmp_stack = Append(@, Len(blocks) + 1)]
    BY DEF sTRY, try
  <2> HIDE DEF g
  <2>2. Append(g.try_jmp_stack, Len(blocks) + 1) \in Seq(Nat)
    <3>1. g.try_jmp_stack \in Seq(Nat) /\ Len(blocks) + 1 \in Nat
      BY <1>3, Types, ContextTypes
    <3> QED
      BY <3>1, AppendType
  <2> QED
    BY <1>3, <2>1, <2>2 DEF Contexts
<1>5. FramesOK(frames')
  BY EnteredFramesType, NestingUp DEF sTRY, IInv
<1>6. blocks' \in Seq(Blocks)
  <2>1. blocks' = Append(blocks, try)
    BY DEF sTRY, try
  <2> QED
    BY <1>2, <2>1, AppendType DEF IInv
<1>7. pc' = "run"
  BY DEF sTRY, AtStatement
<1> QED
  BY <1>4, <1>5, <1>6, <1>7 DEF IInv

LEMMA EndOfTryStep == ASSUME IInv, EndOfTry PROVE IInv'
<1>1. CleanUp(ctx) \in Contexts
  BY CleanUpType DEF IInv
<1>2. FramesOK(frames') /\ ctx' \in Contexts
  BY <1>1, LeaveTryType DEF EndOfTry
<1>3. blocks' \in Seq(Blocks)
  BY FrontType DEF EndOfTry, IInv
<1> QED
  BY <1>2, <1>3 DEF EndOfTry, LeaveTry, IInv

LEMMA EndOfCatchStep == ASSUME IInv, EndOfCatch PROVE IInv'
<1> DEFINE nodes == [ctx.exc_nodes EXCEPT ![Last(blocks).node] = NoException]
           stack == Front(ctx.exc_jmp_stack)
           c     == [ctx EXCEPT !.exc_jmp_stack = stack, !.exc_nodes = nodes]
<1>1. nodes \in [1 .. MaxExceptions -> Exceptions] /\ stack \in Seq(Jmps)
  BY NoExceptionType, FrontType DEF IInv, Contexts
<1>2. c = [ctx EXCEPT !.exc_jmp_stack = Front(@), !.exc_nodes[Last(blocks).node] = NoException]
  BY DEF IInv, Contexts
<1> HIDE DEF nodes, stack
<1>3. c \in Contexts
  BY <1>1 DEF IInv, Contexts
<1> HIDE DEF c
<1>4. CleanUp(c) \in Contexts
  BY <1>3, CleanUpType
<1>5. LeaveTry(CleanUp(c))
  BY <1>2 DEF EndOfCatch
<1>6. FramesOK(frames') /\ ctx' \in Contexts
  BY <1>4, <1>5, LeaveTryType
<1>7. blocks' \in Seq(Blocks)
  BY FrontType DEF EndOfCatch, IInv
<1> QED
  BY <1>5, <1>6, <1>7 DEF LeaveTry, IInv, EndOfCatch

LEMMA BreakOutStep == ASSUME IInv, BreakOut PROVE IInv'
<1>1. CleanUp(ctx) \in Contexts /\ CleanUp(ctx).exc_used = ctx.exc_used
  BY CleanUpType DEF IInv
<1>2. ctx' \in Contexts /\ ctx'.exc_used \in {0, ctx.exc_used}
  BY <1>1, LeftType DEF BreakOut, IInv, FramesOK
<1>3. ctx'.exc_used < MaxExceptions
  <2>1. ctx.exc_used < MaxExceptions /\ 0 <= ctx.exc_used /\ ctx.exc_used \in Int
    BY BoundsAssumption DEF BreakOut, IInv, Contexts
  <2> QED
    BY <1>2, <2>1, BoundsAssumption
<1>4. FramesOK(frames')
  BY LeftFramesType DEF BreakOut, IInv
<1>5. blocks' \in Seq(Blocks)
  BY FrontType DEF BreakOut, IInv
<1> QED
  BY <1>2, <1>3, <1>4, <1>5 DEF BreakOut, IInv

(* Throws and their landings.                                              *)
LEMMA ThrowStep ==
  ASSUME IInv, NEW code \in ThrowCodes, sTHROW(code)
  PROVE  IInv'
<1>1. [code |-> code, text |-> TRUE] \in Exceptions
  BY CodesAssumption DEF Exceptions
<1> QED
  BY <1>1, RaiseType DEF sTHROW

LEMMA ThrowBreakStep == ASSUME IInv, ThrowBreak PROVE IInv'
<1>1. PICK code \in BreakCodes : Raise([code |-> code, text |-> TRUE])
  BY DEF ThrowBreak
<1>2. [code |-> code, text |-> TRUE] \in Exceptions
  BY CodesAssumption DEF Exceptions
<1> QED
  BY <1>1, <1>2, RaiseType DEF ThrowBreak, IInv

LEMMA RethrowStep == ASSUME IInv, SKIT_THROW_EXCEPTION PROVE IInv'
<1>1. PICK i \in DOMAIN blocks :
        blocks[i].kind = "catch" /\ Raise(ctx.exc_nodes[blocks[i].node])
  BY DEF SKIT_THROW_EXCEPTION
<1>2. blocks[i] \in Blocks
  BY Types
<1>3. blocks[i].node \in 1 .. MaxExceptions
  BY <1>1, <1>2, BoundsAssumption DEF Blocks
<1>4. ctx.exc_nodes[blocks[i].node] \in Exceptions
  BY <1>3 DEF IInv, Contexts
<1> QED
  BY <1>1, <1>4, RaiseType DEF SKIT_THROW_EXCEPTION

LEMMA PropagateStep == ASSUME IInv, skit_propogate_exceptions PROVE IInv'
<1>1. CASE JumpIsDefined
  <2>1. Target \in Jmps
    BY <1>1, LastType DEF Target, JumpIsDefined, IInv, Contexts
  <2>2. Target.blk \in Blocks /\ Target.blk.fr \in 1 .. Len(frames)
        /\ Target.at \in 0 .. Len(blocks)
    BY <1>1, <2>1 DEF JumpIsDefined, Reachable, Fr, Jmps
  <2>3. FramesOK(frames')
    BY <1>1, <2>2, FramesPrefix DEF skit_propogate_exceptions, IInv
  <2>4. ctx' \in Contexts
    <3>1. ctx.entry_check_count - 1 \in Int
      BY Types, ContextTypes
    <3>2. ctx' = [ctx EXCEPT !.entry_check_count = ctx.entry_check_count - 1]
      BY <1>1 DEF skit_propogate_exceptions
    <3> QED
      BY <3>1, <3>2, CountType DEF IInv
  <2>5. blocks' \in Seq(Blocks)
    <3>1. SubSeq(blocks, 1, Target.at) \in Seq(Blocks) /\ << >> \in Seq(Blocks)
      BY <2>2, Types, PrefixType
    <3>2. blocks' = << >> \/ blocks' = Append(SubSeq(blocks, 1, Target.at), Target.blk)
      BY <1>1 DEF skit_propogate_exceptions
    <3> QED
      BY <2>2, <3>1, <3>2, AppendType
  <2>6. pc' = "land"
    BY <1>1 DEF skit_propogate_exceptions
  <2>7. Target' = Target
    BY <1>1 DEF skit_propogate_exceptions, Target, IInv, Contexts
  <2> QED
    BY <2>1, <2>3, <2>4, <2>5, <2>6, <2>7 DEF IInv
<1>2. CASE ~ JumpIsDefined
  BY <1>2 DEF skit_propogate_exceptions, IInv
<1> QED
  BY <1>1, <1>2

LEMMA LandAtBottomStep == ASSUME IInv, LandAtBottom PROVE IInv'
  BY NewContextType, PointToType DEF LandAtBottom, IInv, FramesOK

LEMMA LandInTraceStep == ASSUME IInv, LandInTrace PROVE IInv'
<1>1. ctx' \in Contexts
  <2>1. Target.blk \in Blocks
    BY DEF LandInTrace, Lands, IInv, Jmps
  <2> QED
    BY <2>1, UntracedType DEF LandInTrace
<1>2. blocks' \in Seq(Blocks)
  BY FrontType DEF LandInTrace, IInv
<1>3. FramesOK(frames') /\ pc' \in {"dead", "visit", "propagate"}
  BY PropagateType DEF LandInTrace, IInv
<1> QED
  BY <1>1, <1>2, <1>3 DEF IInv

LEMMA CatchStep == ASSUME IInv, sCATCH PROVE IInv'
<1> DEFINE node  == ctx.exc_used
           catch == [Block("catch") EXCEPT !.node = node, !.caught = ctx.exc_nodes[node]]
           g     == Guarded(ctx, catch)
<1>1. node > 0
  BY DEF sCATCH
<1>2. node \in 1 .. MaxExceptions /\ ctx.exc_nodes[node] \in Exceptions
  BY <1>1, BoundsAssumption, Types, ContextTypes
<1>3. catch \in Blocks
  BY <1>2, CatchBlockType
<1> HIDE DEF catch
<1>4. g \in Contexts /\ g.exc_used = node
  BY <1>3, GuardedType DEF IInv
<1>5. ctx' \in Contexts
  <2>1. ctx' = [g EXCEPT !.exc_used = node - 1]
    BY <1>4 DEF sCATCH, Caught, catch
  <2>2. node - 1 \in 0 .. MaxExceptions
    BY <1>2, BoundsAssumption
  <2> HIDE DEF g, node
  <2>3. ASSUME NEW n \in 0 .. MaxExceptions
        PROVE  [g EXCEPT !.exc_used = n] \in Contexts
    BY <1>4 DEF Contexts
  <2> QED
    BY <2>1, <2>2, <2>3
<1>6. blocks' \in Seq(Blocks)
  <2>1. blocks' = Append(blocks, catch)
    BY DEF sCATCH, Caught, catch
  <2> QED
    BY <1>3, <2>1, AppendType DEF IInv
<1> QED
  BY <1>5, <1>6 DEF sCATCH, IInv

LEMMA UnhandledStep == ASSUME IInv, LandInTryUnhandled PROVE IInv'
<1>1. FramesOK(frames') /\ ctx' \in Contexts /\ pc' \in {"visit", "propagate"}
  BY UnhandledType DEF LandInTryUnhandled, IInv
<1>2. blocks' \in Seq(Blocks)
  BY FrontType DEF LandInTryUnhandled, IInv
<1> QED
  BY <1>1, <1>2 DEF IInv

LEMMA LandInCatchStep == ASSUME IInv, LandInCatch PROVE IInv'
<1>1. [ctx EXCEPT !.exc_jmp_stack = Front(@)] \in Contexts
  BY PoppedType DEF IInv
<1>2. FramesOK(frames') /\ ctx' \in Contexts /\ pc' \in {"visit", "propagate"}
  BY <1>1, UnhandledType DEF LandInCatch
<1>3. blocks' \in Seq(Blocks)
  BY FrontType DEF LandInCatch, IInv
<1> QED
  BY <1>2, <1>3 DEF IInv

LEMMA LandInScopeStep == ASSUME IInv, LandInScope PROVE IInv'
<1>1. FramesOK(frames')
  BY ScanningType DEF LandInScope, IInv
<1> QED
  BY <1>1 DEF LandInScope, IInv

LEMMA LeaveScopeStep == ASSUME IInv, LeaveScope PROVE IInv'
<1>1. FramesOK(frames') /\ ctx' \in Contexts
  BY EnteredFramesType, EnteredType DEF LeaveScope, IInv, FramesOK
<1> QED
  BY <1>1 DEF LeaveScope, IInv

LEMMA LandInGuardStep == ASSUME IInv, LandInGuard PROVE IInv'
  BY DEF LandInGuard, IInv

(* Scope guards.                                                           *)
LEMMA ScopeJmpType ==
  ASSUME IInv, NEW at \in Nat, NEW exit \in BOOLEAN,
         NEW mask \in SUBSET {"success", "failure"}
  PROVE  ScopeJmp(at, exit, mask) \in ScopeJmps
  BY Types DEF ScopeJmp, ScopeJmps

LEMMA ScopeStackType ==
  ASSUME NEW c \in Contexts, NEW s \in Seq(ScopeJmps)
  PROVE  [c EXCEPT !.scope_jmp_stack = s] \in Contexts
  BY DEF Contexts

LEMMA FirstGuardStep == ASSUME IInv, NEW mask \in Masks, FirstGuard(mask) PROVE IInv'
<1> DEFINE at    == Len(blocks) + 1
           g     == Guarded(Entered, Block("scope"))
           exit  == ScopeJmp(at, TRUE, {})
           guard == ScopeJmp(at, FALSE, mask)
           stack == g.scope_jmp_stack \o <<exit, guard>>
<1>1. Block("scope") \in Blocks /\ Entered \in Contexts
  BY Types, BlockType, EnteredType DEF Kinds
<1>2. g \in Contexts
  BY <1>1, Types, GuardedType
<1>3. exit \in ScopeJmps /\ guard \in ScopeJmps
  <2>1. at \in Nat /\ {} \in SUBSET {"success", "failure"}
    BY Types
  <2>2. mask \in SUBSET {"success", "failure"}
    BY MasksAssumption
  <2> HIDE DEF at
  <2> QED
    BY <2>1, <2>2, ScopeJmpType
<1>4. ctx' = [g EXCEPT !.scope_jmp_stack = stack]
  BY DEF FirstGuard
<1> HIDE DEF g, exit, guard
<1>5. stack \in Seq(ScopeJmps)
  <2>1. g.scope_jmp_stack \in Seq(ScopeJmps) /\ <<exit, guard>> \in Seq(ScopeJmps)
    BY <1>2, <1>3, ContextTypes
  <2> QED
    BY <2>1
<1> HIDE DEF stack
<1>6. ctx' \in Contexts
  BY <1>2, <1>4, <1>5, ScopeStackType
<1>7. FramesOK(frames')
  BY EnteredFramesType, GuardsUsed DEF FirstGuard, IInv
<1>8. blocks' \in Seq(Blocks)
  <2>1. blocks' = Append(blocks, Block("scope"))
    BY DEF FirstGuard
  <2> QED
    BY <1>1, <2>1, Types, AppendType
<1>9. pc' = "run"
  BY DEF FirstGuard, MayGuard, AtStatement
<1> QED
  BY <1>6, <1>7, <1>8, <1>9 DEF IInv

LEMMA NextGuardStep == ASSUME IInv, NEW mask \in Masks, NextGuard(mask) PROVE IInv'
<1> DEFINE guard == ScopeJmp(Len(blocks), FALSE, mask)
           stack == Append(ctx.scope_jmp_stack, guard)
<1>1. guard \in ScopeJmps
  BY Types, ScopeJmpType, MasksAssumption
<1>2. ctx' = [ctx EXCEPT !.scope_jmp_stack = stack]
  BY DEF NextGuard
<1> HIDE DEF guard
<1>3. stack \in Seq(ScopeJmps)
  BY <1>1, Types, ContextTypes, AppendType
<1> HIDE DEF stack
<1>4. ctx' \in Contexts
  BY <1>2, <1>3, Types, ScopeStackType
<1>5. pc' = "run"
  BY DEF NextGuard, MayGuard, AtStatement
<1> QED
  BY <1>4, <1>5 DEF NextGuard, IInv

LEMMA RunGuardStep == ASSUME IInv, RunGuard PROVE IInv'
<1> DEFINE guard == [Block("guard") EXCEPT !.fr = Visited.fr]
           jmp   == Jmp(Visited.at, guard)
<1>1. /\ Visited \in ScopeJmps /\ FramesOK(VisitFrames) /\ VisitBlocks \in Seq(Blocks)
      /\ PoppedScope \in Contexts
  BY VisitType, PoppedScopeType DEF RunGuard
<1>2. Visited.fr \in Nat /\ Visited.at \in Nat
  BY <1>1 DEF ScopeJmps
<1>3. guard \in Blocks
  <2>1. Block("guard") \in Blocks
    BY Types, BlockType DEF Kinds
  <2>2. ASSUME NEW b \in Blocks, NEW fr \in Nat
        PROVE  [b EXCEPT !.fr = fr] \in Blocks
    BY DEF Blocks
  <2> QED
    BY <1>2, <2>1, <2>2
<1>4. ctx' = [PoppedScope EXCEPT !.exc_jmp_stack = Append(@, jmp)]
  BY DEF RunGuard
<1>5. blocks' = Append(VisitBlocks, guard) /\ frames' = VisitFrames /\ pc' = "run"
  BY DEF RunGuard
<1> HIDE DEF guard
<1>6. jmp \in Jmps
  BY <1>2, <1>3, JmpType
<1> HIDE DEF jmp
<1>7. ctx' \in Contexts
  <2>1. Append(PoppedScope.exc_jmp_stack, jmp) \in Seq(Jmps)
    BY <1>1, <1>6, ContextTypes, AppendType
  <2>2. ASSUME NEW c \in Contexts, NEW s \in Seq(Jmps)
        PROVE  [c EXCEPT !.exc_jmp_stack = s] \in Contexts
    BY DEF Contexts
  <2> QED
    BY <1>1, <1>4, <2>1, <2>2
<1>8. blocks' \in Seq(Blocks)
  BY <1>1, <1>3, <1>5, AppendType
<1> QED
  BY <1>1, <1>5, <1>7, <1>8 DEF IInv

LEMMA PassGuardStep == ASSUME IInv, PassGuard PROVE IInv'
<1>1. ctx' \in Contexts /\ FramesOK(frames') /\ blocks' \in Seq(Blocks)
  BY VisitType, PoppedScopeType DEF PassGuard
<1>2. pc' = "visit"
  BY DEF PassGuard
<1> QED
  BY <1>1, <1>2 DEF IInv

LEMMA EndGuardStep == ASSUME IInv, sEND_SCOPE_GUARD PROVE IInv'
<1>1. ctx' \in Contexts /\ blocks' \in Seq(Blocks)
  BY Types, PoppedType, FrontType DEF sEND_SCOPE_GUARD
<1> QED
  BY <1>1 DEF sEND_SCOPE_GUARD, IInv

LEMMA EndVisitStep == ASSUME IInv, EndVisit PROVE IInv'
<1>1. CASE VisitIsDefined
  <2>1. ctx' \in Contexts /\ FramesOK(frames') /\ blocks' \in Seq(Blocks)
    BY <1>1, VisitType, PoppedScopeType DEF EndVisit
  <2>2. pc' = "visited"
    BY <1>1 DEF EndVisit
  <2> QED
    BY <2>1, <2>2 DEF IInv
<1>2. CASE ~ VisitIsDefined
  BY <1>2 DEF EndVisit, IInv
<1> QED
  BY <1>1, <1>2

(* The first function is not left: its scans are not those of a return.    *)
LEMMA EndScanStep == ASSUME IInv, EndScan PROVE IInv'
<1> DEFINE c  == [ctx EXCEPT !.exc_jmp_stack = Front(@)]
           gs == [frames EXCEPT ![Fr].scope_fn_exit = "none"]
           fs == LeftFrames(gs, c)
<1>1. c \in Contexts
  BY Types, PoppedType
<1>2. ctx' = Left(c)
  BY DEF EndScan
<1>3. ctx' \in Contexts
  BY <1>1, <1>2, Types, LeftType
<1>4. FramesOK(gs) /\ Len(gs) = Fr
  BY ScanOver DEF IInv, Fr
<1>5. frames' = IF Me.scope_fn_exit = "return" THEN Front(fs) ELSE fs
  BY DEF EndScan
<1> HIDE DEF gs, c
<1>6. FramesOK(fs) /\ Len(fs) = Fr
  BY <1>4, LeftFramesType
<1> HIDE DEF fs
<1>7. CASE Me.scope_fn_exit = "return"
  <2>1. Fr > 1
    <3>1. Fr # 1
      BY <1>7 DEF IInv, FramesOK, Me
    <3>2. Fr # 0 /\ Fr \in Nat
      <4>1. frames \in Seq(Frames) /\ frames # << >>
        BY DEF IInv, FramesOK
      <4> QED
        BY <4>1 DEF Fr
    <3> QED
      BY <3>1, <3>2
  <2>2. FramesOK(frames')
    BY <1>5, <1>6, <1>7, <2>1, CallerFrames
  <2>3. pc' = "run"
    BY <1>7 DEF EndScan
  <2>4. blocks' \in Seq(Blocks)
    BY Types, FrontType DEF EndScan
  <2> QED
    BY <1>3, <2>2, <2>3, <2>4 DEF IInv
<1>8. CASE Me.scope_fn_exit # "return"
  <2>1. FramesOK(frames')
    BY <1>5, <1>6, <1>8
  <2>2. pc' \in {"propagate", "leaving"}
    BY <1>8 DEF EndScan
  <2>3. blocks' \in Seq(Blocks)
    BY Types, FrontType DEF EndScan
  <2> QED
    BY <1>3, <2>1, <2>2, <2>3 DEF IInv
<1> QED
  BY <1>7, <1>8

-----------------------------------------------------------------------------
LEMMA IInvInductive == IInv /\ [Next]_vars => IInv'
<1> SUFFICES ASSUME IInv, [Next]_vars
             PROVE  IInv'
  OBVIOUS
<1>1. CASE Program
  BY <1>1, CallStep, ReturnStep, TraceStep, TraceEndStep, TryStep, EndOfTryStep,
     EndOfCatchStep, BreakOutStep, ThrowStep, RethrowStep, FirstGuardStep,
     NextGuardStep, EndGuardStep
  DEF Program
<1>2. CASE Machine
  BY <1>2, ThrowBreakStep, PropagateStep, LandAtBottomStep, LandInTraceStep, CatchStep,
     UnhandledStep, LandInCatchStep, LandInScopeStep, LeaveScopeStep, LandInGuardStep,
     RunGuardStep, PassGuardStep, EndVisitStep, EndScanStep
  DEF Machine
<1>3. CASE UNCHANGED vars
  BY <1>3 DEF vars, IInv, Target
<1> QED
  BY <1>1, <1>2, <1>3 DEF Next

LEMMA IInvIsTypeOK == IInv => TypeOK
  BY DEF IInv, FramesOK, TypeOK

(* Whatever the program does with the macros, even where they misbehave,   *)
(* the stacks hold what they should and exc_instance_stack stays within    *)
(* its bounds.                                                             *)
THEOREM TypeCorrect == Spec => []TypeOK
  BY InitIInv, IInvInductive, IInvIsTypeOK, PTL DEF Spec

-----------------------------------------------------------------------------
(***************************************************************************)
(* The parts of the inductive invariant of FeatureEmulationControl, each   *)
(* with what keeps it when a construct is entered or left, a function is   *)
(* called or left, and a scan of scope guards starts or ends:              *)
(*   Nested       how the open constructs bs of n functions nest;          *)
(*   Mirrors, TriesListed, GuardsListed, TracesSaved, DepthsSaved          *)
(*                how each stack of the context follows bs, and what the   *)
(*                sTRACEs among them saved of it;                          *)
(*   ScopesFit    nesting levels, open scopes and scans of each function;  *)
(*   PointersFit  whose pointer to the context is set;                     *)
(*   Counted      entry checks and exceptions in flight;                   *)
(*   ThrowsFit    no exception escapes from a running guard.               *)
(* They take functions, constructs and context as parameters, so that a    *)
(* lemma applies to the states between the macros' calls as well.  A       *)
(* sequence that grows by one element is described by Grows, which the     *)
(* provers use faster than Append.                                         *)
(***************************************************************************)

LEMMA FrontLast ==
  ASSUME NEW S, NEW s \in Seq(S), s # << >>
  PROVE  /\ Front(s) \in Seq(S) /\ Last(s) \in S /\ s = Append(Front(s), Last(s))
         /\ Len(Front(s)) = Len(s) - 1 /\ s[Len(s)] = Last(s) /\ Len(s) \in Nat \ {0}
<1>1. Len(s) \in Nat /\ Len(s) # 0
  OBVIOUS
<1>2. Len(s) - 1 \in 0 .. Len(s)
  BY <1>1
<1>3. /\ Front(s) \in Seq(S)
      /\ Len(Front(s)) = Len(s) - 1
      /\ \A i \in 1 .. Len(s) - 1 : Front(s)[i] = s[i]
  BY <1>2, PrefixType DEF Front
<1>4. Last(s) = s[Len(s)] /\ Last(s) \in S
  BY <1>1 DEF Last
<1>5. s = Append(Front(s), Last(s))
  BY <1>1, <1>3, <1>4
<1> QED
  BY <1>1, <1>3, <1>4, <1>5

(* What an appended element leaves and adds, for proofs that keep the      *)
(* longer sequence opaque.                                                 *)
LEMMA AppendFacts ==
  ASSUME NEW S, NEW s \in Seq(S), NEW x \in S
  PROVE  /\ Append(s, x) \in Seq(S) /\ Len(s) \in Nat
         /\ Len(Append(s, x)) = Len(s) + 1
         /\ Append(s, x)[Len(s) + 1] = x
         /\ \A i \in 1 .. Len(s) : Append(s, x)[i] = s[i]
         /\ \A i \in 1 .. Len(s) + 1 : i \in 1 .. Len(s) \/ i = Len(s) + 1
  OBVIOUS

LEMMA AppendKeeps ==
  ASSUME NEW S, NEW s \in Seq(S), NEW x \in S, Len(s) > 0
  PROVE  Append(s, x)[1] = s[1]
  OBVIOUS

LEMMA WholeSequence ==
  ASSUME NEW S, NEW s \in Seq(S)
  PROVE  SubSeq(s, 1, Len(s)) = s
<1>1. SubSeq(s, 1, Len(s)) \in Seq(S) /\ Len(SubSeq(s, 1, Len(s))) = Len(s)
      /\ \A i \in 1 .. Len(s) : SubSeq(s, 1, Len(s))[i] = s[i]
  BY PrefixType
<1> QED
  BY <1>1

-----------------------------------------------------------------------------
(* The nesting of constructs in n active functions.                        *)
Nested(bs, n) ==
  /\ \A i \in 1 .. Len(bs) :
    /\ bs[i].fr \in 1 .. n
    /\ bs[i].kind # "bottom"
    /\ bs[i].kind = "catch" => i > 1 /\ bs[i - 1].kind = "try" /\ bs[i - 1].fr = bs[i].fr
    /\ bs[i].kind = "guard" => i > 1 /\ bs[i - 1].kind = "scope" /\ bs[i - 1].fr = bs[i].fr
    /\ bs[i].kind = "scope" => i > 1
    /\ bs[i].kind = "trace" /\ i < Len(bs) => bs[i].fr < bs[i + 1].fr
  /\ \A i, j \in 1 .. Len(bs) :
      i < j => bs[i].fr <= bs[j].fr /\ (bs[j].kind = "scope" => bs[i].fr < bs[j].fr)

LEMMA NestedPop ==
  ASSUME NEW S, NEW bs \in Seq(S), NEW b \in S, NEW n \in Nat, Nested(Append(bs, b), n)
  PROVE  Nested(bs, n)
  BY DEF Nested

(* The function whose construct comes next is the innermost one, and not   *)
(* inside the expression of an sTRACE.                                     *)
LEMMA NestedPush ==
  ASSUME NEW S, NEW bs \in Seq(S), NEW b \in S, NEW n \in Nat, Nested(bs, n),
         b.fr = n, n > 0, b.kind # "bottom",
         bs # << >> /\ bs[Len(bs)].kind = "trace" => bs[Len(bs)].fr < n,
         b.kind = "catch" =>
           bs # << >> /\ bs[Len(bs)].kind = "try" /\ bs[Len(bs)].fr = n,
         b.kind = "guard" =>
           bs # << >> /\ bs[Len(bs)].kind = "scope" /\ bs[Len(bs)].fr = n,
         b.kind = "scope" => bs # << >> /\ \A j \in 1 .. Len(bs) : bs[j].fr < n
  PROVE  Nested(Append(bs, b), n)
  BY DEF Nested

(* A function more, or those that own no construct less.                   *)
LEMMA NestedIn ==
  ASSUME NEW bs, NEW n \in Nat, NEW m \in Nat, Nested(bs, n),
         n <= m \/ \A i \in 1 .. Len(bs) : bs[i].fr <= m
  PROVE  Nested(bs, m)
  BY DEF Nested

LEMMA MirrorsPop ==
  ASSUME NEW S, NEW bs \in Seq(S), NEW b \in S, NEW T, NEW ex \in Seq(T), NEW e \in T,
         Mirrors(Append(bs, b), Append(ex, e))
  PROVE  Mirrors(bs, ex) /\ ex[1] = Append(ex, e)[1] /\ e = Jmp(Len(bs), b)
  BY DEF Mirrors

LEMMA MirrorsPush ==
  ASSUME NEW S, NEW bs \in Seq(S), NEW b \in S, NEW T, NEW ex \in Seq(T), NEW e \in T,
         Mirrors(bs, ex), e = Jmp(Len(bs), b)
  PROVE  Mirrors(Append(bs, b), Append(ex, e))
  BY DEF Mirrors

LEMMA MirrorsRoot ==
  ASSUME NEW S, NEW bs \in Seq(S), NEW T, NEW ex \in Seq(T), NEW e \in T, Mirrors(bs, ex)
  PROVE  Append(ex, e)[1] = ex[1]
<1>1. Len(ex) = Len(bs) + 1
  BY DEF Mirrors
<1>2. Len(ex) > 0
  BY <1>1
<1> QED
  BY <1>2, AppendKeeps

LEMMA TryPush ==
  ASSUME NEW S, NEW bs \in Seq(S), NEW b \in S, NEW ty \in Seq(Nat), TriesListed(bs, ty),
         b.kind = "try"
  PROVE  TriesListed(Append(bs, b), Append(ty, Len(bs) + 1))
<1> DEFINE n  == Len(bs)
           m  == Len(ty)
           uy == Append(ty, n + 1)
           cs == Append(bs, b)
<1>1. /\ m \in Nat /\ Len(uy) = m + 1 /\ uy[m + 1] = n + 1
      /\ \A i \in 1 .. m : uy[i] = ty[i]
      /\ \A i \in 1 .. m + 1 : i \in 1 .. m \/ i = m + 1
  BY AppendFacts
<1>2. /\ n \in Nat /\ Len(cs) = n + 1 /\ cs[n + 1] = b
      /\ \A i \in 1 .. n : cs[i] = bs[i]
      /\ \A i \in 1 .. n + 1 : i \in 1 .. n \/ i = n + 1
  BY AppendFacts
<1>3. /\ \A k \in 1 .. m : ty[k] \in 1 .. n /\ bs[ty[k]].kind = "try"
      /\ \A j, k \in 1 .. m : j < k => ty[j] < ty[k]
      /\ \A i \in 1 .. n : bs[i].kind = "try" => \E k \in 1 .. m : ty[k] = i
  BY DEF TriesListed
<1> HIDE DEF uy, cs, m, n
<1>4. ASSUME NEW k \in 1 .. m + 1
      PROVE  uy[k] \in 1 .. n + 1 /\ cs[uy[k]].kind = "try"
  <2>1. CASE k \in 1 .. m
    <3>1. uy[k] = ty[k] /\ ty[k] \in 1 .. n /\ bs[ty[k]].kind = "try"
      BY <1>1, <1>3, <2>1
    <3>2. cs[ty[k]] = bs[ty[k]]
      BY <1>2, <3>1
    <3> QED
      BY <1>2, <3>1, <3>2
  <2>2. CASE k = m + 1
    BY <1>1, <1>2, <2>2
  <2> QED
    BY <1>1, <2>1, <2>2
<1>5. ASSUME NEW j \in 1 .. m + 1, NEW k \in 1 .. m + 1, j < k
      PROVE  uy[j] < uy[k]
  <2>1. j \in 1 .. m /\ uy[j] = ty[j] /\ ty[j] \in 1 .. n
    BY <1>1, <1>3, <1>5
  <2>2. CASE k \in 1 .. m
    BY <1>1, <1>3, <1>5, <2>1, <2>2
  <2>3. CASE k = m + 1
    BY <1>1, <1>2, <2>1, <2>3
  <2> QED
    BY <1>1, <2>2, <2>3
<1>6. ASSUME NEW i \in 1 .. n + 1, cs[i].kind = "try"
      PROVE  \E k \in 1 .. m + 1 : uy[k] = i
  <2>1. CASE i \in 1 .. n
    <3>1. PICK k \in 1 .. m : ty[k] = i
      BY <1>2, <1>3, <1>6, <2>1
    <3> QED
      BY <1>1, <3>1
  <2>2. CASE i = n + 1
    BY <1>1, <2>2
  <2> QED
    BY <1>2, <2>1, <2>2
<1> QED
  BY <1>1, <1>2, <1>4, <1>5, <1>6 DEF TriesListed, uy, cs, n

LEMMA TriesPush ==
  ASSUME NEW S, NEW bs \in Seq(S), NEW b \in S, NEW ty \in Seq(Nat), TriesListed(bs, ty),
         b.kind # "try"
  PROVE  TriesListed(Append(bs, b), ty)
  BY DEF TriesListed

LEMMA TriesPop ==
  ASSUME NEW S, NEW bs \in Seq(S), NEW b \in S, NEW ty \in Seq(Nat),
         TriesListed(Append(bs, b), ty), b.kind # "try"
  PROVE  TriesListed(bs, ty)
  BY DEF TriesListed


(* The innermost sTRY has the top of try_jmp_stack.                        *)
LEMMA LastTryIsTop ==
  ASSUME NEW m \in Nat, NEW n \in Nat, NEW uy, NEW k \in 1 .. m + 1, uy[k] = n + 1,
         \A i \in 1 .. m + 1 : uy[i] \in 1 .. n + 1,
         \A i, j \in 1 .. m + 1 : i < j => uy[i] < uy[j]
  PROVE  k = m + 1
<1>1. uy[m + 1] <= uy[k] /\ uy[k] \in Int /\ uy[m + 1] \in Int
  OBVIOUS
<1>2. ~ (k < m + 1)
  BY <1>1
<1> QED
  BY <1>2

LEMMA TryPop ==
  ASSUME NEW S, NEW bs \in Seq(S), NEW b \in S, NEW ty \in Seq(Nat), NEW t \in Nat,
         TriesListed(Append(bs, b), Append(ty, t)), b.kind = "try"
  PROVE  TriesListed(bs, ty) /\ t = Len(bs) + 1
<1> DEFINE uy == Append(ty, t)
           cs == Append(bs, b)
           m  == Len(ty)
           n  == Len(bs)
<1>1. /\ m \in Nat /\ n \in Nat
      /\ Len(uy) = m + 1 /\ uy[m + 1] = t /\ \A i \in 1 .. m : uy[i] = ty[i]
      /\ Len(cs) = n + 1 /\ cs[n + 1] = b /\ \A i \in 1 .. n : cs[i] = bs[i]
  OBVIOUS
<1>2. \A i \in 1 .. Len(uy) : uy[i] \in 1 .. Len(cs) /\ cs[uy[i]].kind = "try"
  BY DEF TriesListed
<1>3. \A i, j \in 1 .. Len(uy) : i < j => uy[i] < uy[j]
  BY DEF TriesListed
<1>4. \A i \in 1 .. Len(cs) : cs[i].kind = "try" => \E k \in 1 .. Len(uy) : uy[k] = i
  BY DEF TriesListed
<1> SUFFICES (\A i \in 1 .. m : ty[i] \in 1 .. n /\ bs[ty[i]].kind = "try")
             /\ (\A i, j \in 1 .. m : i < j => ty[i] < ty[j])
             /\ (\A i \in 1 .. n : bs[i].kind = "try" => \E k \in 1 .. m : ty[k] = i)
             /\ t = n + 1
  BY DEF TriesListed
<1> HIDE DEF uy, cs, m, n
<1>5. t = n + 1
  <2>1. PICK k \in 1 .. m + 1 : uy[k] = n + 1
    BY <1>1, <1>4
  <2> QED
    BY <1>1, <1>2, <1>3, <2>1, LastTryIsTop
<1>6. \A i \in 1 .. m : ty[i] \in 1 .. n /\ bs[ty[i]].kind = "try"
  <2>1. \A i \in 1 .. m : ty[i] < n + 1
    BY <1>1, <1>3, <1>5
  <2> QED
    BY <1>1, <1>2, <2>1
<1>7. \A i, j \in 1 .. m : i < j => ty[i] < ty[j]
  BY <1>1, <1>3
<1>8. ASSUME NEW i \in 1 .. n, bs[i].kind = "try"
      PROVE  \E k \in 1 .. m : ty[k] = i
  <2>1. PICK k \in 1 .. m + 1 : uy[k] = i
    BY <1>1, <1>4, <1>8
  <2>2. k # m + 1
    BY <1>1, <1>5, <2>1
  <2> QED
    BY <1>1, <2>1, <2>2
<1> QED
  BY <1>5, <1>6, <1>7, <1>8

-----------------------------------------------------------------------------
(* What scope_jmp_stack holds: for every open scope its exit, and then its *)
(* guards that have not run.  A scan that is over has popped the exit.     *)
InScope(bs, g) == g.at \in 1 .. Len(bs) /\ bs[g.at].kind = "scope" /\ bs[g.at].fr = g.fr

GuardsOrdered(gs) ==
  /\ \A k \in 1 .. Len(gs) : ~ gs[k].exit => k > 1 /\ gs[k - 1].at = gs[k].at
  /\ \A j, k \in 1 .. Len(gs) :
      j < k => gs[j].at <= gs[k].at /\ (gs[k].exit => gs[j].at < gs[k].at)

ScopeListed(gs, i) == \E k \in 1 .. Len(gs) : gs[k].at = i

GuardsListed(bs, gs, p) ==
  /\ \A k \in 1 .. Len(gs) : InScope(bs, gs[k]) /\ (p = "visited" => gs[k].at < Len(bs))
  /\ \A i \in 1 .. Len(bs) :
       bs[i].kind = "scope" => ScopeListed(gs, i) \/ (p = "visited" /\ i = Len(bs))
  /\ GuardsOrdered(gs)

LEMMA InScopePush ==
  ASSUME NEW S, NEW bs \in Seq(S), NEW b \in S, NEW g, InScope(bs, g)
  PROVE  InScope(Append(bs, b), g)
  BY DEF InScope

LEMMA InScopePop ==
  ASSUME NEW S, NEW bs \in Seq(S), NEW b \in S, NEW g, InScope(Append(bs, b), g),
         g.at # Len(bs) + 1
  PROVE  InScope(bs, g)
  BY DEF InScope

LEMMA ScopeListedPush ==
  ASSUME NEW S, NEW gs \in Seq(S), NEW g \in S
  PROVE  /\ \A i : ScopeListed(gs, i) => ScopeListed(Append(gs, g), i)
         /\ ScopeListed(Append(gs, g), g.at)
<1>1. ASSUME NEW i, ScopeListed(gs, i)
      PROVE  ScopeListed(Append(gs, g), i)
  <2>1. PICK k \in 1 .. Len(gs) : gs[k].at = i
    BY <1>1 DEF ScopeListed
  <2>2. k \in 1 .. Len(Append(gs, g)) /\ Append(gs, g)[k] = gs[k]
    OBVIOUS
  <2> QED
    BY <2>1, <2>2 DEF ScopeListed
<1>2. Len(Append(gs, g)) \in 1 .. Len(Append(gs, g)) /\ Append(gs, g)[Len(Append(gs, g))] = g
  OBVIOUS
<1> QED
  BY <1>1, <1>2 DEF ScopeListed

LEMMA ScopeListedPop ==
  ASSUME NEW S, NEW gs \in Seq(S), NEW g \in S, NEW i, ScopeListed(Append(gs, g), i),
         i # g.at
  PROVE  ScopeListed(gs, i)
<1>1. PICK k \in 1 .. Len(Append(gs, g)) : Append(gs, g)[k].at = i
  BY DEF ScopeListed
<1>2. k # Len(gs) + 1
  BY <1>1
<1>3. k \in 1 .. Len(gs) /\ Append(gs, g)[k] = gs[k]
  BY <1>2
<1> QED
  BY <1>1, <1>3 DEF ScopeListed

LEMMA GuardsPush ==
  ASSUME NEW S, NEW bs \in Seq(S), NEW b \in S, NEW gs \in Seq(ScopeJmps), NEW p, NEW q,
         GuardsListed(bs, gs, p), b.kind # "scope", p # "visited", q # "visited"
  PROVE  GuardsListed(Append(bs, b), gs, q)
<1>1. \A k \in 1 .. Len(gs) : InScope(Append(bs, b), gs[k])
  BY InScopePush DEF GuardsListed
<1>2. ASSUME NEW i \in 1 .. Len(Append(bs, b)), Append(bs, b)[i].kind = "scope"
      PROVE  ScopeListed(gs, i)
  <2>1. i \in 1 .. Len(bs) /\ bs[i].kind = "scope"
    BY <1>2
  <2> QED
    BY <2>1 DEF GuardsListed
<1> QED
  BY <1>1, <1>2 DEF GuardsListed

LEMMA GuardsPop ==
  ASSUME NEW S, NEW bs \in Seq(S), NEW b \in S, NEW gs \in Seq(ScopeJmps), NEW p, NEW q,
         GuardsListed(Append(bs, b), gs, p), b.kind # "scope", p # "visited", q # "visited"
  PROVE  GuardsListed(bs, gs, q)
<1>1. ASSUME NEW k \in 1 .. Len(gs)
      PROVE  InScope(bs, gs[k])
  <2>1. InScope(Append(bs, b), gs[k])
    BY DEF GuardsListed
  <2>2. gs[k].at # Len(bs) + 1
    BY <2>1 DEF InScope
  <2> QED
    BY <2>1, <2>2, InScopePop
<1>2. ASSUME NEW i \in 1 .. Len(bs), bs[i].kind = "scope"
      PROVE  ScopeListed(gs, i)
  <2>1. i \in 1 .. Len(Append(bs, b)) /\ Append(bs, b)[i] = bs[i]
    OBVIOUS
  <2> QED
    BY <1>2, <2>1 DEF GuardsListed
<1> QED
  BY <1>1, <1>2 DEF GuardsListed

LEMMA GuardsStay ==
  ASSUME NEW bs, NEW gs, NEW p, NEW q,
         GuardsListed(bs, gs, p), p # "visited", q # "visited"
  PROVE  GuardsListed(bs, gs, q)
  BY DEF GuardsListed

(* The end of a scan closes the scope.                                     *)
LEMMA GuardsPopScope ==
  ASSUME NEW S, NEW bs \in Seq(S), NEW b \in S, NEW gs \in Seq(ScopeJmps), NEW q,
         GuardsListed(Append(bs, b), gs, "visited"), b.kind = "scope", q # "visited"
  PROVE  GuardsListed(bs, gs, q)
<1>1. ASSUME NEW k \in 1 .. Len(gs)
      PROVE  InScope(bs, gs[k])
  <2>1. InScope(Append(bs, b), gs[k]) /\ gs[k].at < Len(Append(bs, b))
    BY DEF GuardsListed
  <2>2. gs[k].at # Len(bs) + 1
    BY <2>1 DEF InScope
  <2> QED
    BY <2>1, <2>2, InScopePop
<1>2. ASSUME NEW i \in 1 .. Len(bs), bs[i].kind = "scope"
      PROVE  ScopeListed(gs, i)
  <2>1. i \in 1 .. Len(Append(bs, b)) /\ Append(bs, b)[i] = bs[i] /\ i # Len(Append(bs, b))
    OBVIOUS
  <2> QED
    BY <1>2, <2>1 DEF GuardsListed
<1> QED
  BY <1>1, <1>2 DEF GuardsListed

LEMMA OrderedPush ==
  ASSUME NEW gs \in Seq(ScopeJmps), NEW g \in ScopeJmps, GuardsOrdered(gs),
         ~ g.exit => gs # << >> /\ gs[Len(gs)].at = g.at,
         \A k \in 1 .. Len(gs) : gs[k].at <= g.at /\ (g.exit => gs[k].at < g.at)
  PROVE  GuardsOrdered(Append(gs, g))
<1> DEFINE hs == Append(gs, g)
           n  == Len(gs)
<1>1. /\ n \in Nat /\ Len(hs) = n + 1 /\ hs[n + 1] = g
      /\ \A k \in 1 .. n : hs[k] = gs[k]
      /\ \A k \in 1 .. n + 1 : k \in 1 .. n \/ k = n + 1
  BY AppendFacts
<1>2. ~ g.exit => n > 0 /\ hs[n].at = g.at
  BY <1>1
<1>3. \A k \in 1 .. n : ~ gs[k].exit => k > 1 /\ gs[k - 1].at = gs[k].at
  BY DEF GuardsOrdered
<1>4. \A j, k \in 1 .. n :
        j < k => gs[j].at <= gs[k].at /\ (gs[k].exit => gs[j].at < gs[k].at)
  BY DEF GuardsOrdered
<1>5. \A k \in 1 .. n : gs[k].at <= g.at /\ (g.exit => gs[k].at < g.at)
  OBVIOUS
<1> HIDE DEF hs, n
<1>6. \A k \in 1 .. n + 1 : ~ hs[k].exit => k > 1 /\ hs[k - 1].at = hs[k].at
  BY <1>1, <1>2, <1>3
<1>7. \A j, k \in 1 .. n + 1 :
        j < k => hs[j].at <= hs[k].at /\ (hs[k].exit => hs[j].at < hs[k].at)
  BY <1>1, <1>4, <1>5
<1> QED
  BY <1>1, <1>6, <1>7 DEF GuardsOrdered, hs

LEMMA OrderedPop ==
  ASSUME NEW gs \in Seq(ScopeJmps), NEW g \in ScopeJmps, GuardsOrdered(Append(gs, g))
  PROVE  /\ GuardsOrdered(gs)
         /\ ~ g.exit => gs # << >> /\ gs[Len(gs)].at = g.at
         /\ \A k \in 1 .. Len(gs) : gs[k].at <= g.at /\ (g.exit => gs[k].at < g.at)
<1> DEFINE hs == Append(gs, g)
           n  == Len(gs)
<1>1. /\ n \in Nat /\ Len(hs) = n + 1 /\ hs[n + 1] = g
      /\ \A k \in 1 .. n : hs[k] = gs[k]
      /\ \A k \in 1 .. n + 1 : k \in 1 .. n \/ k = n + 1
  BY AppendFacts
<1>2. \A k \in 1 .. n + 1 : ~ hs[k].exit => k > 1 /\ hs[k - 1].at = hs[k].at
  BY <1>1 DEF GuardsOrdered
<1>3. \A j, k \in 1 .. n + 1 :
        j < k => hs[j].at <= hs[k].at /\ (hs[k].exit => hs[j].at < hs[k].at)
  BY <1>1 DEF GuardsOrdered
<1> SUFFICES /\ \A k \in 1 .. n : ~ gs[k].exit => k > 1 /\ gs[k - 1].at = gs[k].at
             /\ \A j, k \in 1 .. n :
                  j < k => gs[j].at <= gs[k].at /\ (gs[k].exit => gs[j].at < gs[k].at)
             /\ ~ g.exit => n > 0 /\ gs[n].at = g.at
             /\ \A k \in 1 .. n : gs[k].at <= g.at /\ (g.exit => gs[k].at < g.at)
  BY DEF GuardsOrdered
<1> HIDE DEF hs, n
<1>4. \A k \in 1 .. n : ~ gs[k].exit => k > 1 /\ gs[k - 1].at = gs[k].at
  BY <1>1, <1>2
<1>5. \A j, k \in 1 .. n :
        j < k => gs[j].at <= gs[k].at /\ (gs[k].exit => gs[j].at < gs[k].at)
  BY <1>1, <1>3
<1>6. ~ g.exit => n > 0 /\ gs[n].at = g.at
  BY <1>1, <1>2
<1>7. \A k \in 1 .. n : gs[k].at <= g.at /\ (g.exit => gs[k].at < g.at)
  BY <1>1, <1>3
<1> QED
  BY <1>4, <1>5, <1>6, <1>7

(* The first guard of a function.                                          *)
LEMMA GuardsPushScope ==
  ASSUME NEW S, NEW bs \in Seq(S), NEW b \in S, NEW gs \in Seq(ScopeJmps),
         NEW exit \in ScopeJmps, NEW guard \in ScopeJmps,
         GuardsListed(bs, gs, "run"), b.kind = "scope",
         exit.at = Len(bs) + 1, exit.fr = b.fr, exit.exit,
         guard.at = Len(bs) + 1, guard.fr = b.fr, ~ guard.exit
  PROVE  GuardsListed(Append(bs, b), Append(Append(gs, exit), guard), "run")
<1> DEFINE hs == Append(gs, exit)
           is == Append(hs, guard)
           cs == Append(bs, b)
           m  == Len(gs)
<1>1. /\ m \in Nat /\ Len(hs) = m + 1 /\ hs[m + 1] = exit /\ hs \in Seq(ScopeJmps)
      /\ \A k \in 1 .. m : hs[k] = gs[k]
      /\ \A k \in 1 .. m + 1 : k \in 1 .. m \/ k = m + 1
  BY AppendFacts
<1>2. /\ Len(is) = m + 2 /\ is[m + 2] = guard
      /\ \A k \in 1 .. m + 1 : is[k] = hs[k]
      /\ \A k \in 1 .. m + 2 : k \in 1 .. m + 1 \/ k = m + 2
  <2> HIDE DEF hs, m
  <2> QED
    BY <1>1, AppendFacts
<1>3. \A k \in 1 .. m : gs[k].at \in 1 .. Len(bs) /\ InScope(cs, gs[k])
  BY InScopePush DEF GuardsListed, InScope
<1>4. InScope(cs, exit) /\ InScope(cs, guard)
  BY DEF InScope
<1>5. ASSUME NEW i \in 1 .. Len(cs), cs[i].kind = "scope"
      PROVE  ScopeListed(gs, i) \/ i = guard.at
  BY <1>5 DEF GuardsListed
<1>6. GuardsOrdered(gs)
  BY DEF GuardsListed
<1> HIDE DEF hs, is, cs, m
<1>7. GuardsOrdered(hs)
  <2>1. \A k \in 1 .. Len(gs) : gs[k].at < exit.at /\ gs[k].at <= exit.at
    BY <1>3 DEF m
  <2> QED
    BY <1>6, <2>1, OrderedPush DEF hs
<1>8. GuardsOrdered(is)
  <2>1. hs # << >> /\ hs[Len(hs)].at = guard.at
    BY <1>1
  <2>2. ASSUME NEW k \in 1 .. Len(hs)
        PROVE  hs[k].at <= guard.at
    <3>1. CASE k \in 1 .. m
      <4>1. hs[k] = gs[k] /\ gs[k].at \in 1 .. Len(bs)
        BY <1>1, <1>3, <3>1
      <4> QED
        BY <4>1
    <3>2. CASE k = m + 1
      BY <1>1, <3>2
    <3> QED
      BY <1>1, <3>1, <3>2
  <2> QED
    BY <1>1, <1>7, <2>1, <2>2, OrderedPush DEF is
<1>9. ASSUME NEW k \in 1 .. Len(is)
      PROVE  InScope(cs, is[k])
  BY <1>1, <1>2, <1>3, <1>4
<1>10. ASSUME NEW i \in 1 .. Len(cs), cs[i].kind = "scope"
       PROVE  ScopeListed(is, i)
  <2>1. ScopeListed(hs, i) \/ i = guard.at
    BY <1>5, <1>10, ScopeListedPush DEF hs
  <2> QED
    BY <1>1, <2>1, ScopeListedPush DEF is
<1> QED
  BY <1>8, <1>9, <1>10 DEF GuardsListed, hs, is, cs

(* A further guard.                                                        *)
LEMMA GuardsPushGuard ==
  ASSUME NEW S, NEW bs \in Seq(S), NEW gs \in Seq(ScopeJmps), NEW guard \in ScopeJmps,
         GuardsListed(bs, gs, "run"), bs # << >>, bs[Len(bs)].kind = "scope",
         guard.at = Len(bs), guard.fr = bs[Len(bs)].fr, ~ guard.exit
  PROVE  GuardsListed(bs, Append(gs, guard), "run")
<1> DEFINE hs == Append(gs, guard)
           m  == Len(gs)
           n  == Len(bs)
<1>1. n \in Nat /\ n > 0 /\ n \in 1 .. n
  OBVIOUS
<1>2. /\ m \in Nat /\ Len(hs) = m + 1 /\ hs[m + 1] = guard
      /\ \A k \in 1 .. m : hs[k] = gs[k]
      /\ \A k \in 1 .. m + 1 : k \in 1 .. m \/ k = m + 1
  BY AppendFacts
<1>3. /\ \A k \in 1 .. m : gs[k].at \in 1 .. n /\ InScope(bs, gs[k])
      /\ \A i \in 1 .. n : bs[i].kind = "scope" => ScopeListed(gs, i)
  BY DEF GuardsListed, InScope
<1>4. GuardsOrdered(gs)
  BY DEF GuardsListed
<1>5. \A j, k \in 1 .. m : j < k => gs[j].at <= gs[k].at
  BY <1>4 DEF GuardsOrdered
<1>6. guard.at = n /\ bs[n].kind = "scope" /\ InScope(bs, guard)
  BY <1>1 DEF InScope
<1>a. \E k \in 1 .. m : gs[k].at = n
  BY <1>1, <1>3, <1>6 DEF ScopeListed
<1> HIDE DEF hs, m, n
<1>7. m > 0 /\ gs[m].at = n
  <2>1. PICK k \in 1 .. m : gs[k].at = n
    BY <1>a
  <2>2. m \in 1 .. m /\ (k = m \/ k < m)
    BY <1>2, <2>1
  <2>3. gs[m].at \in 1 .. n /\ n <= gs[m].at
    BY <1>3, <1>5, <2>1, <2>2
  <2> QED
    BY <1>1, <2>2, <2>3
<1>8. GuardsOrdered(hs)
  <2>1. gs # << >> /\ gs[Len(gs)].at = guard.at
    BY <1>6, <1>7 DEF m
  <2>2. \A k \in 1 .. Len(gs) : gs[k].at <= guard.at
    BY <1>1, <1>3, <1>6 DEF m
  <2> QED
    BY <1>4, <2>1, <2>2, OrderedPush DEF hs
<1>9. \A k \in 1 .. Len(hs) : InScope(bs, hs[k])
  BY <1>2, <1>3, <1>6
<1>10. \A i \in 1 .. n : bs[i].kind = "scope" => ScopeListed(hs, i)
  BY <1>3, ScopeListedPush DEF hs
<1> QED
  BY <1>8, <1>9, <1>10 DEF GuardsListed, hs, n

(* The scan of the innermost scope pops its own guards, its exit last.     *)
LEMMA GuardsPopGuard ==
  ASSUME NEW S, NEW bs \in Seq(S), NEW gs \in Seq(ScopeJmps), NEW g \in ScopeJmps,
         NEW p, GuardsListed(bs, Append(gs, g), p), p # "visited",
         bs # << >>, bs[Len(bs)].kind = "scope"
  PROVE  /\ g.at = Len(bs) /\ g.fr = bs[Len(bs)].fr
         /\ ~ g.exit => GuardsListed(bs, gs, p)
         /\ g.exit => GuardsListed(bs, gs, "visited")
<1> DEFINE hs == Append(gs, g)
           m  == Len(gs)
           n  == Len(bs)
<1>1. n \in Nat /\ n > 0 /\ bs[n].kind = "scope" /\ n = Len(bs) /\ m = Len(gs)
  OBVIOUS
<1>2. /\ m \in Nat /\ Len(hs) = m + 1 /\ hs[m + 1] = g
      /\ \A k \in 1 .. m : hs[k] = gs[k]
      /\ \A k \in 1 .. m + 1 : k \in 1 .. m \/ k = m + 1
  BY AppendFacts
<1>3. /\ \A k \in 1 .. m + 1 : InScope(bs, hs[k])
      /\ \A i \in 1 .. n : bs[i].kind = "scope" => ScopeListed(hs, i)
  BY <1>2 DEF GuardsListed
<1>4. /\ GuardsOrdered(gs)
      /\ ~ g.exit => gs # << >> /\ gs[Len(gs)].at = g.at
      /\ \A k \in 1 .. Len(gs) : gs[k].at <= g.at /\ (g.exit => gs[k].at < g.at)
  BY OrderedPop DEF GuardsListed
<1>5. (gs # << >> => m > 0) /\ \A k \in 1 .. m : gs[k].at <= g.at /\ (g.exit => gs[k].at < g.at)
  BY <1>4
<1>6. ~ g.exit => m > 0 /\ gs[m].at = g.at
  BY <1>4, <1>5
<1>a. ScopeListed(hs, n)
  BY <1>1, <1>3
<1> HIDE DEF hs, m, n
<1>7. g.at = n /\ g.fr = bs[n].fr
  <2>1. PICK k \in 1 .. m + 1 : hs[k].at = n
    BY <1>2, <1>a DEF ScopeListed
  <2>2. n \in Nat /\ g.at \in 1 .. n /\ bs[g.at].fr = g.fr
    BY <1>1, <1>2, <1>3 DEF InScope
  <2>3. n <= g.at
    <3>1. CASE k \in 1 .. m
      BY <1>2, <1>5, <2>1, <3>1
    <3>2. CASE k = m + 1
      BY <1>1, <1>2, <2>1, <3>2
    <3> QED
      BY <1>2, <3>1, <3>2
  <2>4. g.at = n
    BY <1>2, <2>2, <2>3
  <2> QED
    BY <2>2, <2>4
<1>8. \A k \in 1 .. m : InScope(bs, gs[k])
  BY <1>2, <1>3
<1>9. ASSUME NEW i \in 1 .. n, bs[i].kind = "scope", i # n
      PROVE  ScopeListed(gs, i)
  BY <1>3, <1>7, <1>9, ScopeListedPop DEF hs
<1>10. CASE ~ g.exit
  <2>1. ScopeListed(gs, n)
    BY <1>1, <1>2, <1>6, <1>7, <1>10 DEF ScopeListed
  <2> QED
    BY <1>1, <1>4, <1>7, <1>8, <1>9, <1>10, <2>1 DEF GuardsListed
<1>11. CASE g.exit
  <2>1. \A k \in 1 .. m : gs[k].at < n
    BY <1>5, <1>7, <1>11
  <2> QED
    BY <1>1, <1>4, <1>7, <1>8, <1>9, <1>11, <2>1 DEF GuardsListed
<1> QED
  BY <1>1, <1>7, <1>10, <1>11

-----------------------------------------------------------------------------
(* What every open sTRACE saved: the lengths of the stacks at its start.   *)
TriesBelow(ty, n, i) ==
  n \in 0 .. Len(ty) /\ \A k \in 1 .. Len(ty) : k <= n <=> ty[k] < i

GuardsBelow(gs, n, i) ==
  n \in 0 .. Len(gs) /\ \A k \in 1 .. Len(gs) : k <= n <=> gs[k].at < i

TraceSaved(b, i, ty, gs) ==
  b.pos.exc = i /\ TriesBelow(ty, b.pos.try, i) /\ GuardsBelow(gs, b.pos.scope, i)

TracesSaved(bs, ty, gs) ==
  \A i \in 1 .. Len(bs) : bs[i].kind = "trace" => TraceSaved(bs[i], i, ty, gs)

LEMMA TriesBelowPush ==
  ASSUME NEW ty \in Seq(Nat), NEW t \in Nat, NEW n, NEW i \in Nat, t >= i, TriesBelow(ty, n, i)
  PROVE  TriesBelow(Append(ty, t), n, i)
  BY DEF TriesBelow

LEMMA TriesBelowPop ==
  ASSUME NEW ty \in Seq(Nat), NEW t \in Nat, NEW n, NEW i \in Nat, t >= i,
         TriesBelow(Append(ty, t), n, i)
  PROVE  TriesBelow(ty, n, i)
<1>1. n \in 0 .. Len(ty) + 1 /\ ~ (Len(ty) + 1 <= n)
  BY DEF TriesBelow
<1>2. \A k \in 1 .. Len(ty) : k <= n <=> ty[k] < i
  BY DEF TriesBelow
<1> QED
  BY <1>1, <1>2 DEF TriesBelow

LEMMA GuardsBelowPush ==
  ASSUME NEW gs \in Seq(ScopeJmps), NEW g \in ScopeJmps, NEW n, NEW i \in Nat, g.at >= i,
         GuardsBelow(gs, n, i)
  PROVE  GuardsBelow(Append(gs, g), n, i)
<1>1. g.at \in Nat
  BY DEF ScopeJmps
<1> QED
  BY <1>1 DEF GuardsBelow

LEMMA GuardsBelowPop ==
  ASSUME NEW gs \in Seq(ScopeJmps), NEW g \in ScopeJmps, NEW n, NEW i \in Nat, g.at >= i,
         GuardsBelow(Append(gs, g), n, i)
  PROVE  GuardsBelow(gs, n, i)
<1>1. g.at \in Nat
  BY DEF ScopeJmps
<1>2. n \in 0 .. Len(gs) + 1 /\ ~ (Len(gs) + 1 <= n)
  BY <1>1 DEF GuardsBelow
<1>3. \A k \in 1 .. Len(gs) : k <= n <=> gs[k].at < i
  BY DEF GuardsBelow
<1> QED
  BY <1>2, <1>3 DEF GuardsBelow

LEMMA TracesPush ==
  ASSUME NEW S, NEW bs \in Seq(S), NEW b \in S, NEW ty, NEW gs,
         TracesSaved(bs, ty, gs), b.kind = "trace" => TraceSaved(b, Len(bs) + 1, ty, gs)
  PROVE  TracesSaved(Append(bs, b), ty, gs)
  BY DEF TracesSaved

LEMMA TracesPop ==
  ASSUME NEW S, NEW bs \in Seq(S), NEW b \in S, NEW ty, NEW gs,
         TracesSaved(Append(bs, b), ty, gs)
  PROVE  TracesSaved(bs, ty, gs) /\ (b.kind = "trace" => TraceSaved(b, Len(bs) + 1, ty, gs))
<1>1. TracesSaved(bs, ty, gs)
  BY DEF TracesSaved
<1>2. Len(bs) + 1 \in 1 .. Len(Append(bs, b)) /\ Append(bs, b)[Len(bs) + 1] = b
  OBVIOUS
<1>3. b.kind = "trace" => TraceSaved(b, Len(bs) + 1, ty, gs)
  BY <1>2 DEF TracesSaved
<1> QED
  BY <1>1, <1>3

(* The stacks may grow and shrink above what was saved.                    *)
LEMMA TracesTryPush ==
  ASSUME NEW S, NEW bs \in Seq(S), NEW ty \in Seq(Nat), NEW t \in Nat, NEW gs,
         t >= Len(bs), TracesSaved(bs, ty, gs)
  PROVE  TracesSaved(bs, Append(ty, t), gs)
<1> SUFFICES ASSUME NEW i \in 1 .. Len(bs), bs[i].kind = "trace"
             PROVE  TraceSaved(bs[i], i, Append(ty, t), gs)
  BY DEF TracesSaved
<1>1. i \in Nat /\ t >= i /\ TraceSaved(bs[i], i, ty, gs)
  BY DEF TracesSaved
<1> QED
  BY <1>1, TriesBelowPush DEF TraceSaved

LEMMA TracesTryPop ==
  ASSUME NEW S, NEW bs \in Seq(S), NEW ty \in Seq(Nat), NEW t \in Nat, NEW gs,
         t >= Len(bs), TracesSaved(bs, Append(ty, t), gs)
  PROVE  TracesSaved(bs, ty, gs)
<1> SUFFICES ASSUME NEW i \in 1 .. Len(bs), bs[i].kind = "trace"
             PROVE  TraceSaved(bs[i], i, ty, gs)
  BY DEF TracesSaved
<1>1. i \in Nat /\ t >= i /\ TraceSaved(bs[i], i, Append(ty, t), gs)
  BY DEF TracesSaved
<1> QED
  BY <1>1, TriesBelowPop DEF TraceSaved

LEMMA TracesGuardPush ==
  ASSUME NEW S, NEW bs \in Seq(S), NEW ty, NEW gs \in Seq(ScopeJmps), NEW g \in ScopeJmps,
         g.at >= Len(bs), TracesSaved(bs, ty, gs)
  PROVE  TracesSaved(bs, ty, Append(gs, g))
<1> SUFFICES ASSUME NEW i \in 1 .. Len(bs), bs[i].kind = "trace"
             PROVE  TraceSaved(bs[i], i, ty, Append(gs, g))
  BY DEF TracesSaved
<1>0. g.at \in Nat /\ Len(bs) \in Nat
  BY DEF ScopeJmps
<1>1. i \in Nat /\ g.at >= i /\ TraceSaved(bs[i], i, ty, gs)
  BY <1>0 DEF TracesSaved
<1>2. GuardsBelow(gs, bs[i].pos.scope, i)
  BY <1>1 DEF TraceSaved
<1>3. GuardsBelow(Append(gs, g), bs[i].pos.scope, i)
  BY <1>1, <1>2, GuardsBelowPush
<1> QED
  BY <1>1, <1>3 DEF TraceSaved

LEMMA TracesGuardPop ==
  ASSUME NEW S, NEW bs \in Seq(S), NEW ty, NEW gs \in Seq(ScopeJmps), NEW g \in ScopeJmps,
         g.at >= Len(bs), TracesSaved(bs, ty, Append(gs, g))
  PROVE  TracesSaved(bs, ty, gs)
<1> SUFFICES ASSUME NEW i \in 1 .. Len(bs), bs[i].kind = "trace"
             PROVE  TraceSaved(bs[i], i, ty, gs)
  BY DEF TracesSaved
<1>0. g.at \in Nat /\ Len(bs) \in Nat
  BY DEF ScopeJmps
<1>1. i \in Nat /\ g.at >= i /\ TraceSaved(bs[i], i, ty, Append(gs, g))
  BY <1>0 DEF TracesSaved
<1>2. GuardsBelow(Append(gs, g), bs[i].pos.scope, i)
  BY <1>1 DEF TraceSaved
<1>3. GuardsBelow(gs, bs[i].pos.scope, i)
  BY <1>1, <1>2, GuardsBelowPop
<1> QED
  BY <1>1, <1>3 DEF TraceSaved

(* A new sTRACE saves the lengths.                                         *)
LEMMA LengthsSaved ==
  ASSUME NEW n \in Nat, NEW ty \in Seq(Nat), NEW gs \in Seq(ScopeJmps), NEW b,
         \A k \in 1 .. Len(ty) : ty[k] \in 1 .. n,
         \A k \in 1 .. Len(gs) : gs[k].at \in 1 .. n,
         b.pos.exc = n + 1, b.pos.try = Len(ty), b.pos.scope = Len(gs)
  PROVE  TraceSaved(b, n + 1, ty, gs)
  BY DEF TraceSaved, TriesBelow, GuardsBelow

(* They are the lengths again when it ends.                                *)
LEMMA LengthsRestored ==
  ASSUME NEW n \in Nat, NEW ty \in Seq(Nat), NEW gs \in Seq(ScopeJmps), NEW b,
         \A k \in 1 .. Len(ty) : ty[k] \in 1 .. n,
         \A k \in 1 .. Len(gs) : gs[k].at \in 1 .. n,
         TraceSaved(b, n + 1, ty, gs)
  PROVE  b.pos.exc = n + 1 /\ b.pos.try = Len(ty) /\ b.pos.scope = Len(gs)
<1>1. b.pos.exc = n + 1
  BY DEF TraceSaved
<1>2. b.pos.try = Len(ty)
  <2>1. b.pos.try \in 0 .. Len(ty) /\ \A k \in 1 .. Len(ty) : k <= b.pos.try
    BY DEF TraceSaved, TriesBelow
  <2>2. Len(ty) \in 1 .. Len(ty) \/ Len(ty) = 0
    OBVIOUS
  <2> QED
    BY <2>1, <2>2
<1>3. b.pos.scope = Len(gs)
  <2>1. b.pos.scope \in 0 .. Len(gs) /\ \A k \in 1 .. Len(gs) : k <= b.pos.scope
    BY DEF TraceSaved, GuardsBelow
  <2>2. Len(gs) \in 1 .. Len(gs) \/ Len(gs) = 0
    OBVIOUS
  <2> QED
    BY <2>1, <2>2
<1> QED
  BY <1>1, <1>2, <1>3

(* cs is bs with b on top.  The lemmas below need no more of the two, and  *)
(* read it both ways: as a push and as a pop.                              *)
Grows(bs, b, cs) ==
  /\ Len(bs) \in Nat /\ Len(cs) = Len(bs) + 1
  /\ cs[Len(bs) + 1] = b
  /\ \A i \in 1 .. Len(bs) : cs[i] = bs[i]

LEMMA AppendGrows ==
  ASSUME NEW S, NEW bs \in Seq(S), NEW b \in S
  PROVE  Grows(bs, b, Append(bs, b))
  BY AppendFacts DEF Grows

LEMMA GrowsSplit ==
  ASSUME NEW bs, NEW b, NEW cs, Grows(bs, b, cs), NEW i \in 1 .. Len(cs)
  PROVE  i \in 1 .. Len(bs) \/ i = Len(bs) + 1
  BY DEF Grows

(* debug_depth is one more than what the innermost sTRACE saved, and that  *)
(* one more than what the one around it saved.                             *)
NoTrace(bs, i, j) == \A m \in 1 .. Len(bs) : i < m /\ m < j => bs[m].kind # "trace"

DepthsSaved(bs, depth) ==
  \A i \in 1 .. Len(bs) :
    bs[i].kind = "trace" =>
      /\ NoTrace(bs, i, Len(bs) + 1) => depth = bs[i].pos.debug + 1
      /\ \A j \in 1 .. Len(bs) :
           i < j /\ bs[j].kind = "trace" /\ NoTrace(bs, i, j) =>
             bs[j].pos.debug = bs[i].pos.debug + 1

LEMMA NoTraceAgree ==
  ASSUME NEW bs, NEW b, NEW cs, Grows(bs, b, cs), NEW i \in 1 .. Len(bs), NEW j \in 1 .. Len(bs) + 1
  PROVE  NoTrace(cs, i, j) <=> NoTrace(bs, i, j)
<1>1. ASSUME NoTrace(bs, i, j), NEW m \in 1 .. Len(cs), i < m, m < j
      PROVE  cs[m].kind # "trace"
  <2>1. m \in 1 .. Len(bs)
    BY <1>1 DEF Grows
  <2> QED
    BY <1>1, <2>1 DEF NoTrace, Grows
<1>2. ASSUME NoTrace(cs, i, j), NEW m \in 1 .. Len(bs), i < m, m < j
      PROVE  bs[m].kind # "trace"
  BY <1>2 DEF NoTrace, Grows
<1> QED
  BY <1>1, <1>2 DEF NoTrace

(* Above a construct that is no sTRACE nothing is saved.                   *)
LEMMA NoTraceOnTop ==
  ASSUME NEW bs, NEW b, NEW cs, Grows(bs, b, cs), b.kind # "trace", NEW i \in 1 .. Len(bs)
  PROVE  NoTrace(cs, i, Len(cs) + 1) <=> NoTrace(bs, i, Len(bs) + 1)
<1>1. ASSUME NoTrace(bs, i, Len(bs) + 1), NEW m \in 1 .. Len(cs), i < m
      PROVE  cs[m].kind # "trace"
  <2>1. CASE m \in 1 .. Len(bs)
    BY <1>1, <2>1 DEF NoTrace, Grows
  <2>2. CASE m = Len(bs) + 1
    BY <2>2 DEF Grows
  <2> QED
    BY <2>1, <2>2, GrowsSplit
<1>2. ASSUME NoTrace(cs, i, Len(cs) + 1), NEW m \in 1 .. Len(bs), i < m
      PROVE  bs[m].kind # "trace"
  BY <1>2 DEF NoTrace, Grows
<1> QED
  BY <1>1, <1>2 DEF NoTrace

LEMMA DepthsStay ==
  ASSUME NEW bs, NEW b, NEW cs, NEW depth, Grows(bs, b, cs), b.kind # "trace"
  PROVE  DepthsSaved(cs, depth) <=> DepthsSaved(bs, depth)
<1>1. ASSUME DepthsSaved(cs, depth), NEW i \in 1 .. Len(bs), bs[i].kind = "trace"
      PROVE  /\ NoTrace(bs, i, Len(bs) + 1) => depth = bs[i].pos.debug + 1
             /\ \A j \in 1 .. Len(bs) :
                  i < j /\ bs[j].kind = "trace" /\ NoTrace(bs, i, j) =>
                    bs[j].pos.debug = bs[i].pos.debug + 1
  <2>1. i \in 1 .. Len(cs) /\ cs[i] = bs[i]
    BY DEF Grows
  <2>2. NoTrace(bs, i, Len(bs) + 1) => depth = bs[i].pos.debug + 1
    BY <1>1, <2>1, NoTraceOnTop DEF DepthsSaved
  <2>3. ASSUME NEW j \in 1 .. Len(bs), i < j, bs[j].kind = "trace", NoTrace(bs, i, j)
        PROVE  bs[j].pos.debug = bs[i].pos.debug + 1
    <3>1. j \in 1 .. Len(cs) /\ cs[j] = bs[j] /\ j \in 1 .. Len(bs) + 1
      BY DEF Grows
    <3>2. NoTrace(cs, i, j)
      BY <2>3, <3>1, NoTraceAgree
    <3> QED
      BY <1>1, <2>1, <2>3, <3>1, <3>2 DEF DepthsSaved
  <2> QED
    BY <2>2, <2>3
<1>2. ASSUME DepthsSaved(bs, depth), NEW i \in 1 .. Len(cs), cs[i].kind = "trace"
      PROVE  /\ NoTrace(cs, i, Len(cs) + 1) => depth = cs[i].pos.debug + 1
             /\ \A j \in 1 .. Len(cs) :
                  i < j /\ cs[j].kind = "trace" /\ NoTrace(cs, i, j) =>
                    cs[j].pos.debug = cs[i].pos.debug + 1
  <2>1. i \in 1 .. Len(bs) /\ cs[i] = bs[i]
    BY <1>2, GrowsSplit DEF Grows
  <2>2. NoTrace(cs, i, Len(cs) + 1) => depth = cs[i].pos.debug + 1
    BY <1>2, <2>1, NoTraceOnTop DEF DepthsSaved
  <2>3. ASSUME NEW j \in 1 .. Len(cs), i < j, cs[j].kind = "trace", NoTrace(cs, i, j)
        PROVE  cs[j].pos.debug = cs[i].pos.debug + 1
    <3>1. j \in 1 .. Len(bs) /\ cs[j] = bs[j] /\ j \in 1 .. Len(bs) + 1
      BY <2>3, GrowsSplit DEF Grows
    <3>2. NoTrace(bs, i, j)
      BY <2>1, <2>3, <3>1, NoTraceAgree
    <3> QED
      BY <1>2, <2>1, <2>3, <3>1, <3>2 DEF DepthsSaved
  <2> QED
    BY <2>2, <2>3
<1> QED
  BY <1>1, <1>2 DEF DepthsSaved

(* A new sTRACE saves the depth that it then increments.                   *)
LEMMA DepthsPush ==
  ASSUME NEW bs, NEW b, NEW cs, NEW depth \in Int, Grows(bs, b, cs), b.kind = "trace",
         b.pos.debug = depth, DepthsSaved(bs, depth)
  PROVE  DepthsSaved(cs, depth + 1)
<1> SUFFICES ASSUME NEW i \in 1 .. Len(cs), cs[i].kind = "trace"
             PROVE  /\ NoTrace(cs, i, Len(cs) + 1) => depth + 1 = cs[i].pos.debug + 1
                    /\ \A j \in 1 .. Len(cs) :
                         i < j /\ cs[j].kind = "trace" /\ NoTrace(cs, i, j) =>
                           cs[j].pos.debug = cs[i].pos.debug + 1
  BY DEF DepthsSaved
<1>1. CASE i = Len(bs) + 1
  BY <1>1 DEF Grows
<1>2. CASE i \in 1 .. Len(bs)
  <2>1. cs[i] = bs[i]
    BY <1>2 DEF Grows
  <2>2. ~ NoTrace(cs, i, Len(cs) + 1)
    BY <1>2 DEF NoTrace, Grows
  <2>3. ASSUME NEW j \in 1 .. Len(cs), i < j, cs[j].kind = "trace", NoTrace(cs, i, j)
        PROVE  cs[j].pos.debug = cs[i].pos.debug + 1
    <3>1. j \in 1 .. Len(bs) + 1
      BY <2>3 DEF Grows
    <3>2. NoTrace(bs, i, j)
      BY <1>2, <2>3, <3>1, NoTraceAgree
    <3>3. CASE j \in 1 .. Len(bs)
      <4>1. cs[j] = bs[j]
        BY <3>3 DEF Grows
      <4> QED
        BY <1>2, <2>1, <2>3, <3>2, <3>3, <4>1 DEF DepthsSaved
    <3>4. CASE j = Len(bs) + 1
      <4>1. cs[j] = b
        BY <3>4 DEF Grows
      <4>2. depth = bs[i].pos.debug + 1
        BY <1>2, <2>1, <3>2, <3>4 DEF DepthsSaved
      <4> QED
        BY <2>1, <4>1, <4>2
    <3> QED
      BY <3>3, <3>4, GrowsSplit
  <2> QED
    BY <2>2, <2>3
<1> QED
  BY <1>1, <1>2, GrowsSplit

LEMMA DepthsPop ==
  ASSUME NEW bs, NEW b, NEW cs, NEW depth \in Int, Grows(bs, b, cs), b.kind = "trace",
         b.pos.debug \in Int, DepthsSaved(cs, depth)
  PROVE  depth = b.pos.debug + 1 /\ DepthsSaved(bs, depth - 1)
<1>1. Len(cs) \in 1 .. Len(cs) /\ cs[Len(cs)] = b /\ NoTrace(cs, Len(cs), Len(cs) + 1)
  BY DEF Grows, NoTrace
<1>2. depth = b.pos.debug + 1
  BY <1>1 DEF DepthsSaved
<1>3. ASSUME NEW i \in 1 .. Len(bs), bs[i].kind = "trace"
      PROVE  /\ NoTrace(bs, i, Len(bs) + 1) => depth - 1 = bs[i].pos.debug + 1
             /\ \A j \in 1 .. Len(bs) :
                  i < j /\ bs[j].kind = "trace" /\ NoTrace(bs, i, j) =>
                    bs[j].pos.debug = bs[i].pos.debug + 1
  <2>1. i \in 1 .. Len(cs) /\ cs[i] = bs[i] /\ Len(cs) = Len(bs) + 1 /\ i < Len(cs)
        /\ Len(bs) + 1 \in 1 .. Len(bs) + 1
    BY DEF Grows
  <2>2. ASSUME NoTrace(bs, i, Len(bs) + 1)
        PROVE  depth - 1 = bs[i].pos.debug + 1
    <3>1. NoTrace(cs, i, Len(cs))
      BY <2>1, <2>2, NoTraceAgree
    <3>2. b.pos.debug = bs[i].pos.debug + 1
      BY <1>1, <1>3, <2>1, <3>1 DEF DepthsSaved
    <3> QED
      BY <1>2, <3>2
  <2>3. ASSUME NEW j \in 1 .. Len(bs), i < j, bs[j].kind = "trace", NoTrace(bs, i, j)
        PROVE  bs[j].pos.debug = bs[i].pos.debug + 1
    <3>1. j \in 1 .. Len(cs) /\ cs[j] = bs[j] /\ j \in 1 .. Len(bs) + 1
      BY DEF Grows
    <3>2. NoTrace(cs, i, j)
      BY <2>3, <3>1, NoTraceAgree
    <3> QED
      BY <1>3, <2>1, <2>3, <3>1, <3>2 DEF DepthsSaved
  <2> QED
    BY <2>2, <2>3
<1> QED
  BY <1>2, <1>3 DEF DepthsSaved

-----------------------------------------------------------------------------
(* Counting constructs and functions.                                      *)
TriesOf(bs, f) == Cardinality({i \in 1 .. Len(bs) : bs[i].kind = "try" /\ bs[i].fr = f})

(* The constructs whose macro checks its entry to the context.             *)
TryOf(b) == IF b.kind = "try" THEN 1 ELSE 0

CheckedKinds == {"try", "trace", "scope"}
Checked(bs) == Cardinality({i \in 1 .. Len(bs) : bs[i].kind \in CheckedKinds})

(* How many of the functions up to f scan their guards for such a target.  *)
Rank(fs, targets, f) == Cardinality({i \in 1 .. f : fs[i].scope_fn_exit \in targets})

LEMMA CountGrows ==
  ASSUME NEW m \in Nat, NEW A, A \subseteq 1 .. m
  PROVE  /\ Cardinality(A) \in Nat
         /\ Cardinality(A \cup {m + 1}) = Cardinality(A) + 1
<1>1. IsFiniteSet(1 .. m) /\ m + 1 \notin A
  BY FS_Interval
<1>2. IsFiniteSet(A)
  BY <1>1, FS_Subset
<1> QED
  BY <1>1, <1>2, FS_AddElement, FS_CardinalityType

LEMMA CountNone ==
  ASSUME NEW m \in Nat, NEW A, A \subseteq 1 .. m
  PROVE  Cardinality(A) = 0 <=> A = {}
<1>a. IsFiniteSet(1 .. m)
  BY FS_Interval
<1>1. IsFiniteSet(A)
  BY <1>a, FS_Subset
<1> QED
  BY <1>1, FS_EmptySet

LEMMA TriesOfGrows ==
  ASSUME NEW bs, NEW b, NEW cs, Grows(bs, b, cs), NEW f
  PROVE  /\ TriesOf(bs, f) \in Nat
         /\ TriesOf(cs, f) =
              TriesOf(bs, f) + IF b.kind = "try" /\ b.fr = f THEN 1 ELSE 0
<1> DEFINE m == Len(bs)
           A == {i \in 1 .. m : bs[i].kind = "try" /\ bs[i].fr = f}
           B == {i \in 1 .. Len(cs) : cs[i].kind = "try" /\ cs[i].fr = f}
<1>1. m \in Nat /\ A \subseteq 1 .. m
  BY DEF Grows
<1>2. B = IF b.kind = "try" /\ b.fr = f THEN A \cup {m + 1} ELSE A
  BY DEF Grows
<1> HIDE DEF m, A, B
<1>3. Cardinality(A) \in Nat /\ Cardinality(A \cup {m + 1}) = Cardinality(A) + 1
  BY <1>1, CountGrows
<1>4. TriesOf(bs, f) = Cardinality(A) /\ TriesOf(cs, f) = Cardinality(B)
  BY DEF TriesOf, A, B, m
<1> QED
  BY <1>2, <1>3, <1>4

LEMMA CheckedGrows ==
  ASSUME NEW bs, NEW b, NEW cs, Grows(bs, b, cs)
  PROVE  /\ Checked(bs) \in Nat
         /\ Checked(cs) = Checked(bs) + IF b.kind \in CheckedKinds THEN 1 ELSE 0
<1> DEFINE m == Len(bs)
           A == {i \in 1 .. m : bs[i].kind \in CheckedKinds}
           B == {i \in 1 .. Len(cs) : cs[i].kind \in CheckedKinds}
<1>1. m \in Nat /\ A \subseteq 1 .. m
  BY DEF Grows
<1>2. B = IF b.kind \in CheckedKinds THEN A \cup {m + 1} ELSE A
  BY DEF Grows
<1> HIDE DEF m, A, B
<1>3. Cardinality(A) \in Nat /\ Cardinality(A \cup {m + 1}) = Cardinality(A) + 1
  BY <1>1, CountGrows
<1>4. Checked(bs) = Cardinality(A) /\ Checked(cs) = Cardinality(B)
  BY DEF Checked, A, B, m
<1> QED
  BY <1>2, <1>3, <1>4

LEMMA CheckedSome ==
  ASSUME NEW bs, Len(bs) \in Nat
  PROVE  /\ Checked(bs) \in Nat
         /\ Checked(bs) > 0 <=> \E i \in 1 .. Len(bs) : bs[i].kind \in CheckedKinds
<1> DEFINE A == {i \in 1 .. Len(bs) : bs[i].kind \in CheckedKinds}
<1>1. A \subseteq 1 .. Len(bs)
  OBVIOUS
<1>2. A # {} <=> \E i \in 1 .. Len(bs) : bs[i].kind \in CheckedKinds
  OBVIOUS
<1> HIDE DEF A
<1>3. Cardinality(A) \in Nat /\ (Cardinality(A) = 0 <=> A = {})
  BY <1>1, CountGrows, CountNone
<1>4. Cardinality(A) > 0 <=> A # {}
  BY <1>3
<1> QED
  BY <1>2, <1>3, <1>4 DEF Checked, A

LEMMA TriesNone ==
  ASSUME NEW bs, Len(bs) \in Nat, NEW f, \A i \in 1 .. Len(bs) : bs[i].fr # f
  PROVE  TriesOf(bs, f) = 0
<1>1. {i \in 1 .. Len(bs) : bs[i].kind = "try" /\ bs[i].fr = f} = {}
  OBVIOUS
<1> QED
  BY <1>1, FS_EmptySet DEF TriesOf

LEMMA RankType ==
  ASSUME NEW fs, NEW T, NEW f \in Nat
  PROVE  Rank(fs, T, f) \in Nat
<1>1. {i \in 1 .. f : fs[i].scope_fn_exit \in T} \subseteq 1 .. f
  OBVIOUS
<1> QED
  BY <1>1, CountGrows DEF Rank

LEMMA RankStep ==
  ASSUME NEW fs, NEW T, NEW f \in Nat \ {0}
  PROVE  /\ Rank(fs, T, f - 1) \in Nat
         /\ Rank(fs, T, f) =
              Rank(fs, T, f - 1) + IF fs[f].scope_fn_exit \in T THEN 1 ELSE 0
<1> DEFINE m == f - 1
           A == {i \in 1 .. m : fs[i].scope_fn_exit \in T}
           B == {i \in 1 .. f : fs[i].scope_fn_exit \in T}
<1>1. m \in Nat /\ m + 1 = f /\ A \subseteq 1 .. m
  OBVIOUS
<1>2. B = IF fs[f].scope_fn_exit \in T THEN A \cup {m + 1} ELSE A
  OBVIOUS
<1> HIDE DEF m, A, B
<1>3. Cardinality(A) \in Nat /\ Cardinality(A \cup {m + 1}) = Cardinality(A) + 1
  BY <1>1, CountGrows
<1>4. Rank(fs, T, m) = Cardinality(A) /\ Rank(fs, T, f) = Cardinality(B) /\ m = f - 1
  BY DEF Rank, A, B, m
<1> QED
  BY <1>2, <1>3, <1>4

LEMMA RankAgrees ==
  ASSUME NEW fs, NEW gs, NEW T, NEW f \in Nat,
         \A i \in 1 .. f : fs[i].scope_fn_exit \in T <=> gs[i].scope_fn_exit \in T
  PROVE  Rank(fs, T, f) = Rank(gs, T, f)
<1>1. {i \in 1 .. f : fs[i].scope_fn_exit \in T} = {i \in 1 .. f : gs[i].scope_fn_exit \in T}
  OBVIOUS
<1> QED
  BY <1>1 DEF Rank

LEMMA RankGrows ==
  ASSUME NEW fs, NEW T, NEW f \in Nat, NEW g \in Nat, f <= g
  PROVE  /\ Rank(fs, T, f) <= Rank(fs, T, g)
         /\ (\A i \in f + 1 .. g : fs[i].scope_fn_exit \notin T) => Rank(fs, T, f) = Rank(fs, T, g)
         /\ (\E i \in f + 1 .. g : fs[i].scope_fn_exit \in T) => Rank(fs, T, f) < Rank(fs, T, g)
<1> DEFINE A == {i \in 1 .. f : fs[i].scope_fn_exit \in T}
           B == {i \in 1 .. g : fs[i].scope_fn_exit \in T}
<1>1. B \subseteq 1 .. g /\ A \subseteq B
  OBVIOUS
<1>2. (\A i \in f + 1 .. g : fs[i].scope_fn_exit \notin T) => A = B
  OBVIOUS
<1>3. (\E i \in f + 1 .. g : fs[i].scope_fn_exit \in T) => A # B
  OBVIOUS
<1> HIDE DEF A, B
<1>a. IsFiniteSet(1 .. g)
  BY FS_Interval
<1>4. IsFiniteSet(B)
  BY <1>1, <1>a, FS_Subset
<1>5. /\ Cardinality(A) <= Cardinality(B) /\ (Cardinality(A) = Cardinality(B) => A = B)
      /\ IsFiniteSet(A)
  BY <1>1, <1>4, FS_Subset
<1>6. Cardinality(A) \in Nat /\ Cardinality(B) \in Nat
  BY <1>4, <1>5, FS_CardinalityType
<1>7. A # B => Cardinality(A) < Cardinality(B)
  BY <1>5, <1>6
<1> QED
  BY <1>2, <1>3, <1>5, <1>7 DEF Rank, A, B

LEMMA RankNone ==
  ASSUME NEW fs, NEW T, NEW f \in Nat
  PROVE  Rank(fs, T, f) = 0 <=> \A i \in 1 .. f : fs[i].scope_fn_exit \notin T
<1> DEFINE A == {i \in 1 .. f : fs[i].scope_fn_exit \in T}
<1>1. A \subseteq 1 .. f /\ (A = {} <=> \A i \in 1 .. f : fs[i].scope_fn_exit \notin T)
  OBVIOUS
<1> HIDE DEF A
<1> QED
  BY <1>1, CountNone DEF Rank, A

-----------------------------------------------------------------------------
(* How the constructs fit the functions 1 .. n of fs.                      *)
Visits == {"visit", "visited"}
Leaves == {"propagate", "leaving"}

Owns(bs, f) == \E i \in 1 .. Len(bs) : bs[i].fr = f
ScopeOpen(bs, f) == \E i \in 1 .. Len(bs) : bs[i].kind = "scope" /\ bs[i].fr = f
GuardRuns(bs, f) == \E i \in 1 .. Len(bs) : bs[i].kind = "guard" /\ bs[i].fr = f

(* skit__try_catch_nesting_level counts the sTRYs of a function that has    *)
(* guards; its scope is open, or it is about to be left and nothing of it   *)
(* is; and it scans its guards when one of them runs or is looked for.      *)
FrameFits(fs, n, bs, p, f) ==
  /\ fs[f].guards_used => fs[f].nesting_level = TriesOf(bs, f)
  /\ fs[f].guards_used => ScopeOpen(bs, f) \/ (f = n /\ p \in Leaves /\ ~ Owns(bs, f))
  /\ fs[f].scope_fn_exit # "none" => GuardRuns(bs, f) \/ (f = n /\ p \in Visits)

BlockFits(fs, b) ==
  /\ b.kind = "scope" => fs[b.fr].guards_used
  /\ b.kind = "guard" => fs[b.fr].scope_fn_exit # "none"

VisitFits(fs, n, bs) ==
  /\ Len(bs) > 0 /\ bs[Len(bs)].kind = "scope" /\ bs[Len(bs)].fr = n
  /\ fs[n].scope_fn_exit # "none"

ScopesFit(fs, n, bs, p) ==
  /\ \A f \in 1 .. n : FrameFits(fs, n, bs, p, f)
  /\ \A i \in 1 .. Len(bs) : BlockFits(fs, bs[i])
  /\ p \in Visits => VisitFits(fs, n, bs)

LEMMA OwnsGrows ==
  ASSUME NEW bs, NEW b, NEW cs, Grows(bs, b, cs), NEW f
  PROVE  /\ Owns(cs, f) <=> Owns(bs, f) \/ b.fr = f
         /\ ScopeOpen(cs, f) <=> ScopeOpen(bs, f) \/ (b.kind = "scope" /\ b.fr = f)
         /\ GuardRuns(cs, f) <=> GuardRuns(bs, f) \/ (b.kind = "guard" /\ b.fr = f)
<1>1. \A i \in 1 .. Len(cs) : (i \in 1 .. Len(bs) /\ cs[i] = bs[i]) \/ cs[i] = b
  BY GrowsSplit DEF Grows
<1>2. \A i \in 1 .. Len(bs) : i \in 1 .. Len(cs) /\ cs[i] = bs[i]
  BY DEF Grows
<1>3. Len(bs) + 1 \in 1 .. Len(cs) /\ cs[Len(bs) + 1] = b
  BY DEF Grows
<1> QED
  BY <1>1, <1>2, <1>3 DEF Owns, ScopeOpen, GuardRuns

(* A construct that is neither a scope nor a guard opens or closes in the  *)
(* innermost function, whose nesting level follows if its guards need it.  *)
LEMMA ScopesPush ==
  ASSUME NEW bs, NEW b, NEW cs, Grows(bs, b, cs), NEW n \in Nat \ {0}, NEW fs, NEW gs,
         NEW p, NEW q, p \notin Leaves, q \notin Visits \cup Leaves, p \notin Visits,
         b.fr = n, b.kind \notin {"scope", "guard"}, ScopesFit(fs, n, bs, p),
         \A f \in 1 .. n : gs[f].guards_used = fs[f].guards_used
                           /\ gs[f].scope_fn_exit = fs[f].scope_fn_exit,
         \A f \in 1 .. n - 1 : gs[f].nesting_level = fs[f].nesting_level,
         gs[n].nesting_level = fs[n].nesting_level + TryOf(b),
         \A i \in 1 .. Len(bs) : bs[i].fr \in 1 .. n
  PROVE  ScopesFit(gs, n, cs, q)
<1>1. ASSUME NEW f \in 1 .. n
      PROVE  FrameFits(gs, n, cs, q, f)
  <2>1. FrameFits(fs, n, bs, p, f)
    BY DEF ScopesFit
  <2>2. TriesOf(bs, f) \in Nat
        /\ TriesOf(cs, f) = TriesOf(bs, f) + IF b.kind = "try" /\ b.fr = f THEN 1 ELSE 0
    BY TriesOfGrows
  <2>3. gs[f].guards_used => gs[f].nesting_level = TriesOf(cs, f)
    <3>1. CASE f = n
      BY <2>1, <2>2, <3>1 DEF FrameFits, TryOf
    <3>2. CASE f # n
      <4>1. f \in 1 .. n - 1
        BY <3>2
      <4> QED
        BY <2>1, <2>2, <3>2, <4>1 DEF FrameFits
    <3> QED
      BY <3>1, <3>2
  <2>4. ScopeOpen(bs, f) => ScopeOpen(cs, f)
    BY OwnsGrows
  <2>5. GuardRuns(bs, f) => GuardRuns(cs, f)
    BY OwnsGrows
  <2> QED
    BY <2>1, <2>3, <2>4, <2>5 DEF FrameFits
<1>2. ASSUME NEW i \in 1 .. Len(cs)
      PROVE  BlockFits(gs, cs[i])
  <2>1. CASE i \in 1 .. Len(bs)
    <3>1. BlockFits(fs, bs[i]) /\ cs[i] = bs[i] /\ bs[i].fr \in 1 .. n
      BY <2>1 DEF ScopesFit, Grows
    <3> QED
      BY <3>1 DEF BlockFits
  <2>2. CASE i = Len(bs) + 1
    <3>1. cs[i] = b
      BY <2>2 DEF Grows
    <3> QED
      BY <3>1 DEF BlockFits
  <2> QED
    BY <2>1, <2>2, GrowsSplit
<1> QED
  BY <1>1, <1>2 DEF ScopesFit

LEMMA ScopesPop ==
  ASSUME NEW bs, NEW b, NEW cs, Grows(bs, b, cs), NEW n \in Nat \ {0}, NEW fs, NEW gs,
         NEW p, NEW q, p \notin Leaves, p \notin Visits, q \notin Visits,
         b.fr = n, b.kind \notin {"scope", "guard"}, ScopesFit(fs, n, cs, p),
         \A f \in 1 .. n : gs[f].guards_used = fs[f].guards_used
                           /\ gs[f].scope_fn_exit = fs[f].scope_fn_exit,
         \A f \in 1 .. n - 1 : gs[f].nesting_level = fs[f].nesting_level,
         fs[n].guards_used =>
           gs[n].nesting_level = fs[n].nesting_level - TryOf(b),
         \A i \in 1 .. Len(bs) : bs[i].fr \in 1 .. n
  PROVE  ScopesFit(gs, n, bs, q)
<1>1. ASSUME NEW f \in 1 .. n
      PROVE  FrameFits(gs, n, bs, q, f)
  <2>1. FrameFits(fs, n, cs, p, f)
    BY DEF ScopesFit
  <2>2. TriesOf(bs, f) \in Nat
        /\ TriesOf(cs, f) = TriesOf(bs, f) + IF b.kind = "try" /\ b.fr = f THEN 1 ELSE 0
    BY TriesOfGrows
  <2>3. gs[f].guards_used => gs[f].nesting_level = TriesOf(bs, f)
    <3>1. CASE f = n
      BY <2>1, <2>2, <3>1 DEF FrameFits, TryOf
    <3>2. CASE f # n
      <4>1. f \in 1 .. n - 1
        BY <3>2
      <4> QED
        BY <2>1, <2>2, <3>2, <4>1 DEF FrameFits
    <3> QED
      BY <3>1, <3>2
  <2>4. ScopeOpen(cs, f) => ScopeOpen(bs, f)
    BY OwnsGrows
  <2>5. GuardRuns(cs, f) => GuardRuns(bs, f)
    BY OwnsGrows
  <2> QED
    BY <2>1, <2>3, <2>4, <2>5 DEF FrameFits
<1>2. ASSUME NEW i \in 1 .. Len(bs)
      PROVE  BlockFits(gs, bs[i])
  <2>1. i \in 1 .. Len(cs) /\ cs[i] = bs[i]
    BY DEF Grows
  <2>2. BlockFits(fs, bs[i]) /\ bs[i].fr \in 1 .. n
    BY <2>1 DEF ScopesFit
  <2> QED
    BY <2>2 DEF BlockFits
<1> QED
  BY <1>1, <1>2 DEF ScopesFit

(* The first guard of a function opens its scope.                          *)
LEMMA ScopesPushScope ==
  ASSUME NEW bs, NEW b, NEW cs, Grows(bs, b, cs), NEW n \in Nat \ {0}, NEW fs, NEW gs,
         b.fr = n, b.kind = "scope", ScopesFit(fs, n, bs, "run"),
         \A f \in 1 .. n : gs[f].nesting_level = fs[f].nesting_level
                           /\ gs[f].scope_fn_exit = fs[f].scope_fn_exit,
         \A f \in 1 .. n - 1 : gs[f].guards_used = fs[f].guards_used,
         gs[n].guards_used, gs[n].nesting_level = 0,
         \A i \in 1 .. Len(bs) : bs[i].fr \in 1 .. n - 1
  PROVE  ScopesFit(gs, n, cs, "run")
<1>1. ASSUME NEW f \in 1 .. n
      PROVE  FrameFits(gs, n, cs, "run", f)
  <2>1. FrameFits(fs, n, bs, "run", f)
    BY DEF ScopesFit
  <2>2. TriesOf(cs, f) = TriesOf(bs, f)
    BY TriesOfGrows
  <2>3. CASE f = n
    <3>1. TriesOf(bs, f) = 0
      BY <2>3, TriesNone DEF Grows
    <3>2. ScopeOpen(cs, f)
      BY <2>3, OwnsGrows
    <3>3. GuardRuns(bs, f) => GuardRuns(cs, f)
      BY OwnsGrows
    <3> QED
      BY <2>1, <2>2, <2>3, <3>1, <3>2, <3>3 DEF FrameFits, Visits
  <2>4. CASE f # n
    <3>1. f \in 1 .. n - 1
      BY <2>4
    <3>2. ScopeOpen(bs, f) => ScopeOpen(cs, f)
      BY OwnsGrows
    <3>3. GuardRuns(bs, f) => GuardRuns(cs, f)
      BY OwnsGrows
    <3> QED
      BY <2>1, <2>2, <2>4, <3>1, <3>2, <3>3 DEF FrameFits
  <2> QED
    BY <2>3, <2>4
<1>2. ASSUME NEW i \in 1 .. Len(cs)
      PROVE  BlockFits(gs, cs[i])
  <2>1. CASE i \in 1 .. Len(bs)
    <3>1. BlockFits(fs, bs[i]) /\ cs[i] = bs[i] /\ bs[i].fr \in 1 .. n - 1 /\ bs[i].fr \in 1 .. n
      BY <2>1 DEF ScopesFit, Grows
    <3> QED
      BY <3>1 DEF BlockFits
  <2>2. CASE i = Len(bs) + 1
    <3>1. cs[i] = b
      BY <2>2 DEF Grows
    <3> QED
      BY <3>1 DEF BlockFits
  <2> QED
    BY <2>1, <2>2, GrowsSplit
<1> QED
  BY <1>1, <1>2 DEF ScopesFit, Visits

(* The end of a scan closes the scope of the innermost function; m is n, or *)
(* n - 1 if that function returns.                                         *)
LEMMA ScopesPopScope ==
  ASSUME NEW bs, NEW b, NEW cs, Grows(bs, b, cs), NEW n \in Nat \ {0}, NEW fs, NEW gs,
         b.fr = n, b.kind = "scope", ScopesFit(fs, n, cs, "visited"),
         \A f \in 1 .. n : gs[f].nesting_level = fs[f].nesting_level
                           /\ gs[f].guards_used = fs[f].guards_used,
         \A f \in 1 .. n - 1 : gs[f].scope_fn_exit = fs[f].scope_fn_exit,
         gs[n].scope_fn_exit = "none",
         \A i \in 1 .. Len(bs) : bs[i].fr \in 1 .. n - 1,
         NEW m, NEW q, (m = n /\ q \in Leaves) \/ (m = n - 1 /\ q = "run")
  PROVE  ScopesFit(gs, m, bs, q)
<1>1. ASSUME NEW f \in 1 .. m
      PROVE  FrameFits(gs, m, bs, q, f)
  <2>1. f \in 1 .. n /\ FrameFits(fs, n, cs, "visited", f)
    BY DEF ScopesFit
  <2>2. TriesOf(cs, f) = TriesOf(bs, f)
    BY TriesOfGrows
  <2>3. CASE f = n
    <3>1. ~ Owns(bs, f) /\ m = n /\ q \in Leaves
      BY <2>3 DEF Owns
    <3> QED
      BY <2>1, <2>2, <2>3, <3>1 DEF FrameFits
  <2>4. CASE f # n
    <3>1. f \in 1 .. n - 1
      BY <2>1, <2>4
    <3>2. ScopeOpen(cs, f) => ScopeOpen(bs, f)
      BY <2>4, OwnsGrows
    <3>3. GuardRuns(cs, f) => GuardRuns(bs, f)
      BY OwnsGrows
    <3> QED
      BY <2>1, <2>2, <2>4, <3>1, <3>2, <3>3 DEF FrameFits, Leaves
  <2> QED
    BY <2>3, <2>4
<1>2. ASSUME NEW i \in 1 .. Len(bs)
      PROVE  BlockFits(gs, bs[i])
  <2>1. i \in 1 .. Len(cs) /\ cs[i] = bs[i]
    BY DEF Grows
  <2>2. BlockFits(fs, bs[i]) /\ bs[i].fr \in 1 .. n - 1 /\ bs[i].fr \in 1 .. n
    BY <2>1 DEF ScopesFit
  <2> QED
    BY <2>2 DEF BlockFits
<1>3. q \notin Visits
  BY DEF Visits, Leaves
<1> QED
  BY <1>1, <1>2, <1>3 DEF ScopesFit

(* A guard that applies runs; it ends, and the scan goes on.               *)
LEMMA ScopesPushGuard ==
  ASSUME NEW bs, NEW b, NEW cs, Grows(bs, b, cs), NEW n \in Nat \ {0}, NEW fs,
         b.fr = n, b.kind = "guard", ScopesFit(fs, n, bs, "visit")
  PROVE  ScopesFit(fs, n, cs, "run")
<1>1. ASSUME NEW f \in 1 .. n
      PROVE  FrameFits(fs, n, cs, "run", f)
  <2>1. FrameFits(fs, n, bs, "visit", f)
    BY DEF ScopesFit
  <2>2. TriesOf(cs, f) = TriesOf(bs, f)
    BY TriesOfGrows
  <2>3. ScopeOpen(bs, f) => ScopeOpen(cs, f)
    BY OwnsGrows
  <2>4. GuardRuns(bs, f) \/ f = n => GuardRuns(cs, f)
    BY OwnsGrows
  <2> QED
    BY <2>1, <2>2, <2>3, <2>4 DEF FrameFits, Leaves
<1>2. ASSUME NEW i \in 1 .. Len(cs)
      PROVE  BlockFits(fs, cs[i])
  <2>1. CASE i \in 1 .. Len(bs)
    BY <2>1 DEF ScopesFit, Grows
  <2>2. CASE i = Len(bs) + 1
    <3>1. cs[i] = b /\ fs[n].scope_fn_exit # "none"
      BY <2>2 DEF Grows, ScopesFit, Visits, VisitFits
    <3> QED
      BY <3>1 DEF BlockFits
  <2> QED
    BY <2>1, <2>2, GrowsSplit
<1> QED
  BY <1>1, <1>2 DEF ScopesFit, Visits

LEMMA ScopesPopGuard ==
  ASSUME NEW bs, NEW b, NEW cs, Grows(bs, b, cs), NEW n \in Nat \ {0}, NEW fs,
         b.fr = n, b.kind = "guard", ScopesFit(fs, n, cs, "run"),
         Len(bs) > 0, bs[Len(bs)].kind = "scope", bs[Len(bs)].fr = n
  PROVE  ScopesFit(fs, n, bs, "visit")
<1>1. ASSUME NEW f \in 1 .. n
      PROVE  FrameFits(fs, n, bs, "visit", f)
  <2>1. FrameFits(fs, n, cs, "run", f)
    BY DEF ScopesFit
  <2>2. TriesOf(cs, f) = TriesOf(bs, f)
    BY TriesOfGrows
  <2>3. ScopeOpen(cs, f) => ScopeOpen(bs, f)
    BY OwnsGrows
  <2>4. GuardRuns(cs, f) => GuardRuns(bs, f) \/ f = n
    BY OwnsGrows
  <2> QED
    BY <2>1, <2>2, <2>3, <2>4 DEF FrameFits, Leaves, Visits
<1>2. \A i \in 1 .. Len(bs) : BlockFits(fs, bs[i])
  BY DEF ScopesFit, Grows
<1>3. VisitFits(fs, n, bs)
  <2>1. Len(cs) \in 1 .. Len(cs) /\ cs[Len(cs)] = b
    BY DEF Grows
  <2>2. fs[n].scope_fn_exit # "none"
    BY <2>1 DEF ScopesFit, BlockFits
  <2> QED
    BY <2>2 DEF VisitFits
<1> QED
  BY <1>1, <1>2, <1>3 DEF ScopesFit

(* Control goes on in the same functions and constructs.                   *)
LEMMA ScopesStay ==
  ASSUME NEW bs, NEW n, NEW fs, NEW p, NEW q, ScopesFit(fs, n, bs, p),
         p \in Leaves => q \in Leaves \/ Owns(bs, n),
         p \in Visits <=> q \in Visits
  PROVE  ScopesFit(fs, n, bs, q)
<1>1. ASSUME NEW f \in 1 .. n
      PROVE  FrameFits(fs, n, bs, q, f)
  BY DEF ScopesFit, FrameFits
<1> QED
  BY <1>1 DEF ScopesFit

(* A scan starts in the innermost function, whose scope is the innermost   *)
(* construct.                                                              *)
LEMMA ScopesScan ==
  ASSUME NEW bs, Len(bs) \in Nat, NEW n \in Nat \ {0}, NEW fs, NEW gs, NEW p, p \notin Visits,
         ScopesFit(fs, n, bs, p), Len(bs) > 0, bs[Len(bs)].kind = "scope", bs[Len(bs)].fr = n,
         \A f \in 1 .. n : gs[f].nesting_level = fs[f].nesting_level
                           /\ gs[f].guards_used = fs[f].guards_used,
         \A f \in 1 .. n - 1 : gs[f].scope_fn_exit = fs[f].scope_fn_exit,
         gs[n].scope_fn_exit # "none",
         \A i \in 1 .. Len(bs) : bs[i].fr \in 1 .. n
  PROVE  ScopesFit(gs, n, bs, "visit")
<1>1. ASSUME NEW f \in 1 .. n
      PROVE  FrameFits(gs, n, bs, "visit", f)
  <2>1. FrameFits(fs, n, bs, p, f)
    BY DEF ScopesFit
  <2>2. CASE f = n
    <3>1. Owns(bs, n)
      BY DEF Owns
    <3> QED
      BY <2>1, <2>2, <3>1 DEF FrameFits, Visits
  <2>3. CASE f # n
    <3>1. f \in 1 .. n - 1
      BY <2>3
    <3> QED
      BY <2>1, <2>3, <3>1 DEF FrameFits
  <2> QED
    BY <2>2, <2>3
<1>2. ASSUME NEW i \in 1 .. Len(bs)
      PROVE  BlockFits(gs, bs[i])
  <2>1. BlockFits(fs, bs[i]) /\ bs[i].fr \in 1 .. n
    BY DEF ScopesFit
  <2>2. CASE bs[i].fr = n
    BY <2>1, <2>2 DEF BlockFits
  <2>3. CASE bs[i].fr # n
    <3>1. bs[i].fr \in 1 .. n - 1
      BY <2>1, <2>3
    <3> QED
      BY <2>1, <3>1 DEF BlockFits
  <2> QED
    BY <2>2, <2>3
<1>3. VisitFits(gs, n, bs)
  BY DEF VisitFits
<1> QED
  BY <1>1, <1>2, <1>3 DEF ScopesFit

(* Functions that own no construct are left; the one control lands in has  *)
(* no guards unless it owns one.                                           *)
LEMMA ScopesCut ==
  ASSUME NEW bs, NEW n \in Nat, NEW m \in Nat, m <= n, NEW fs, NEW gs, NEW p, NEW q,
         ScopesFit(fs, n, bs, p), p \notin Visits, q \notin Visits,
         p \in Leaves /\ fs[n].guards_used => m < n \/ Owns(bs, n),
         \A f \in 1 .. m : gs[f] = fs[f],
         \A i \in 1 .. Len(bs) : bs[i].fr \in 1 .. m
  PROVE  ScopesFit(gs, m, bs, q)
<1>1. ASSUME NEW f \in 1 .. m
      PROVE  FrameFits(gs, m, bs, q, f)
  <2>1. f \in 1 .. n /\ FrameFits(fs, n, bs, p, f) /\ gs[f] = fs[f]
    BY DEF ScopesFit
  <2>2. p \in Leaves /\ fs[f].guards_used /\ f = n => Owns(bs, n)
    BY <2>1
  <2> QED
    BY <2>1, <2>2 DEF FrameFits
<1>2. ASSUME NEW i \in 1 .. Len(bs)
      PROVE  BlockFits(gs, bs[i])
  <2>1. BlockFits(fs, bs[i]) /\ gs[bs[i].fr] = fs[bs[i].fr]
    BY DEF ScopesFit
  <2> QED
    BY <2>1 DEF BlockFits
<1> QED
  BY <1>1, <1>2 DEF ScopesFit

(* A function is called.                                                   *)
LEMMA ScopesCall ==
  ASSUME NEW bs, NEW n \in Nat, NEW fs, NEW gs, ScopesFit(fs, n, bs, "run"),
         \A f \in 1 .. n : gs[f] = fs[f],
         ~ gs[n + 1].guards_used, gs[n + 1].scope_fn_exit = "none",
         \A i \in 1 .. Len(bs) : bs[i].fr \in 1 .. n
  PROVE  ScopesFit(gs, n + 1, bs, "run")
<1>1. ASSUME NEW f \in 1 .. n + 1
      PROVE  FrameFits(gs, n + 1, bs, "run", f)
  <2>1. CASE f = n + 1
    BY <2>1 DEF FrameFits
  <2>2. CASE f # n + 1
    <3>1. f \in 1 .. n
      BY <2>2
    <3>2. FrameFits(fs, n, bs, "run", f) /\ gs[f] = fs[f]
      BY <3>1 DEF ScopesFit
    <3> QED
      BY <3>2 DEF FrameFits, Leaves, Visits
  <2> QED
    BY <2>1, <2>2
<1>2. ASSUME NEW i \in 1 .. Len(bs)
      PROVE  BlockFits(gs, bs[i])
  <2>1. BlockFits(fs, bs[i]) /\ gs[bs[i].fr] = fs[bs[i].fr]
    BY DEF ScopesFit
  <2> QED
    BY <2>1 DEF BlockFits
<1> QED
  BY <1>1, <1>2 DEF ScopesFit, Visits

(* A function that owns no construct does not scan.                        *)
LEMMA NoScan ==
  ASSUME NEW bs, NEW n, NEW fs, NEW p, ScopesFit(fs, n, bs, p), p \notin Visits,
         NEW f \in 1 .. n, ~ Owns(bs, f)
  PROVE  fs[f].scope_fn_exit = "none"
<1>1. ~ GuardRuns(bs, f)
  BY DEF GuardRuns, Owns
<1> QED
  BY <1>1 DEF ScopesFit, FrameFits

(* A guard runs in the function of the innermost construct, or none does.  *)
LEMMA NoGuardUnderScope ==
  ASSUME NEW bs, Len(bs) \in Nat, NEW n \in Nat, Nested(bs, n), Len(bs) > 0,
         bs[Len(bs)].kind = "scope"
  PROVE  \A i \in 1 .. Len(bs) - 1 : bs[i].fr < bs[Len(bs)].fr
  BY DEF Nested

-----------------------------------------------------------------------------
(* The functions that have a pointer to the context: those from r on, the  *)
(* one that made it.                                                       *)
PointerFits(f, frame, live, r) ==
  IF live
  THEN /\ frame.skit_thread_ctx = IF f < r THEN "null" ELSE "live"
       /\ frame.guards_used => f > r
  ELSE frame.skit_thread_ctx = "null" /\ ~ frame.guards_used

RootFits(n, bs, r) == r \in 1 .. n /\ (Len(bs) > 0 => bs[1].fr = r)

PointersFit(fs, n, bs, live, r) ==
  /\ IF live THEN RootFits(n, bs, r) ELSE Len(bs) = 0
  /\ \A f \in 1 .. n : PointerFits(f, fs[f], live, r)

SamePointer(frame, frame2) ==
  /\ frame2.skit_thread_ctx = frame.skit_thread_ctx
  /\ frame2.guards_used = frame.guards_used

LEMMA PointersPush ==
  ASSUME NEW bs, NEW b, NEW cs, Grows(bs, b, cs), NEW n \in Nat, NEW fs, NEW gs, NEW r,
         PointersFit(fs, n, bs, TRUE, r), Len(bs) = 0 => b.fr = r,
         \A f \in 1 .. n : SamePointer(fs[f], gs[f])
  PROVE  PointersFit(gs, n, cs, TRUE, r)
<1>1. cs[1] = IF Len(bs) > 0 THEN bs[1] ELSE b
  BY DEF Grows
<1>2. \A f \in 1 .. n : PointerFits(f, gs[f], TRUE, r)
  BY DEF PointersFit, PointerFits, SamePointer
<1>3. RootFits(n, bs, r) /\ Len(bs) \in Nat
  BY DEF PointersFit, Grows
<1>4. RootFits(n, cs, r)
  BY <1>1, <1>3 DEF RootFits
<1> QED
  BY <1>2, <1>4 DEF PointersFit

LEMMA RootPop ==
  ASSUME NEW bs, NEW b, NEW cs, Grows(bs, b, cs), NEW n, NEW fs, NEW r,
         PointersFit(fs, n, cs, TRUE, r)
  PROVE  RootFits(n, bs, r) /\ (Len(bs) = 0 => b.fr = r)
<1>1. /\ Len(cs) > 0 /\ cs[1] = IF Len(bs) > 0 THEN bs[1] ELSE b
      /\ Len(bs) \in Nat
  BY DEF Grows
<1>2. RootFits(n, cs, r)
  BY DEF PointersFit
<1> QED
  BY <1>1, <1>2 DEF RootFits

LEMMA PointersPop ==
  ASSUME NEW bs, NEW b, NEW cs, Grows(bs, b, cs), NEW n \in Nat, NEW fs, NEW gs, NEW r,
         PointersFit(fs, n, cs, TRUE, r),
         \A f \in 1 .. n : SamePointer(fs[f], gs[f])
  PROVE  PointersFit(gs, n, bs, TRUE, r)
<1>1. \A f \in 1 .. n : PointerFits(f, gs[f], TRUE, r)
  BY DEF PointersFit, PointerFits, SamePointer
<1>2. RootFits(n, bs, r)
  BY RootPop
<1> QED
  BY <1>1, <1>2 DEF PointersFit

(* Functions up to m are left as they are, the others are left or called.  *)
LEMMA PointersCut ==
  ASSUME NEW bs, NEW n \in Nat, NEW m \in Nat, NEW fs, NEW gs, NEW live, NEW r,
         PointersFit(fs, n, bs, live, r), live => r <= m, m <= n,
         \A f \in 1 .. m : gs[f] = fs[f]
  PROVE  PointersFit(gs, m, bs, live, r)
<1>1. \A f \in 1 .. m : PointerFits(f, gs[f], live, r)
  BY DEF PointersFit
<1>2. live => RootFits(m, bs, r)
  BY DEF PointersFit, RootFits
<1> QED
  BY <1>1, <1>2 DEF PointersFit

LEMMA PointersCall ==
  ASSUME NEW bs, NEW n \in Nat, NEW fs, NEW gs, NEW live, NEW r,
         PointersFit(fs, n, bs, live, r), \A f \in 1 .. n : gs[f] = fs[f],
         gs[n + 1].skit_thread_ctx = IF live THEN "live" ELSE "null",
         ~ gs[n + 1].guards_used
  PROVE  PointersFit(gs, n + 1, bs, live, r)
<1>1. ASSUME NEW f \in 1 .. n + 1
      PROVE  PointerFits(f, gs[f], live, r)
  <2>1. CASE f = n + 1
    BY <2>1 DEF PointerFits, PointersFit, RootFits
  <2>2. CASE f # n + 1
    BY <2>2 DEF PointersFit
  <2> QED
    BY <2>1, <2>2
<1>2. live => RootFits(n + 1, bs, r)
  BY DEF PointersFit, RootFits
<1> QED
  BY <1>1, <1>2 DEF PointersFit

(* The first guard of a function that is not the one that made the context. *)
LEMMA PointersPushScope ==
  ASSUME NEW bs, NEW b, NEW cs, Grows(bs, b, cs), NEW n \in Nat, NEW fs, NEW gs, NEW r,
         PointersFit(fs, n, bs, TRUE, r), Len(bs) > 0, n > r,
         \A f \in 1 .. n - 1 : SamePointer(fs[f], gs[f]),
         gs[n].skit_thread_ctx = fs[n].skit_thread_ctx
  PROVE  PointersFit(gs, n, cs, TRUE, r)
<1>1. RootFits(n, cs, r)
  BY DEF Grows, PointersFit, RootFits
<1>2. ASSUME NEW f \in 1 .. n
      PROVE  PointerFits(f, gs[f], TRUE, r)
  <2>1. PointerFits(f, fs[f], TRUE, r)
    BY DEF PointersFit
  <2>2. CASE f = n
    BY <2>1, <2>2 DEF PointerFits
  <2>3. CASE f # n
    <3>1. f \in 1 .. n - 1
      BY <2>3
    <3> QED
      BY <2>1, <3>1 DEF PointerFits, SamePointer
  <2> QED
    BY <2>2, <2>3
<1> QED
  BY <1>1, <1>2 DEF PointersFit

(* The context is made by the innermost function, and freed by it.         *)
LEMMA PointersMade ==
  ASSUME NEW bs, NEW n \in Nat \ {0}, NEW fs, NEW gs, NEW r,
         PointersFit(fs, n, bs, FALSE, r),
         \A f \in 1 .. n : gs[f].guards_used = fs[f].guards_used,
         \A f \in 1 .. n - 1 : gs[f].skit_thread_ctx = fs[f].skit_thread_ctx,
         gs[n].skit_thread_ctx = "live"
  PROVE  PointersFit(gs, n, bs, TRUE, n) /\ Len(bs) = 0
<1>1. ASSUME NEW f \in 1 .. n
      PROVE  PointerFits(f, gs[f], TRUE, n)
  <2>1. PointerFits(f, fs[f], FALSE, r)
    BY DEF PointersFit
  <2>2. CASE f = n
    BY <2>1, <2>2 DEF PointerFits
  <2>3. CASE f # n
    <3>1. f \in 1 .. n - 1 /\ f < n
      BY <2>3
    <3> QED
      BY <2>1, <3>1 DEF PointerFits
  <2> QED
    BY <2>2, <2>3
<1>2. Len(bs) = 0
  BY DEF PointersFit
<1>3. RootFits(n, bs, n)
  BY <1>2 DEF RootFits
<1> QED
  BY <1>1, <1>2, <1>3 DEF PointersFit

LEMMA PointersFreed ==
  ASSUME NEW bs, NEW n \in Nat \ {0}, NEW fs, NEW gs, NEW q,
         PointersFit(fs, n, bs, TRUE, n), Len(bs) = 0,
         \A f \in 1 .. n : gs[f].guards_used = fs[f].guards_used,
         \A f \in 1 .. n - 1 : fs[f].skit_thread_ctx = "null" => gs[f].skit_thread_ctx = "null",
         gs[n].skit_thread_ctx = "null"
  PROVE  PointersFit(gs, n, bs, FALSE, q)
<1>1. ASSUME NEW f \in 1 .. n
      PROVE  PointerFits(f, gs[f], FALSE, q)
  <2>1. PointerFits(f, fs[f], TRUE, n)
    BY DEF PointersFit
  <2>2. CASE f = n
    BY <2>1, <2>2 DEF PointerFits
  <2>3. CASE f # n
    <3>1. f \in 1 .. n - 1 /\ f < n /\ ~ (f > n)
      BY <2>3
    <3> QED
      BY <2>1, <3>1 DEF PointerFits
  <2> QED
    BY <2>2, <2>3
<1> QED
  BY <1>1 DEF PointersFit

-----------------------------------------------------------------------------
(* The two counters.  p is where control is; k is 1 between the two halves *)
(* of a step, while one check of an entry is made and not yet accounted    *)
(* for.                                                                    *)
Unwound == {"propagate", "land", "leaving"}
Targets == {"throw", "scope"}
Throws == {"throw"}

Propagates(p) == IF p = "propagate" THEN 1 ELSE 0
Unwinds(p) == IF p \in Unwound THEN 1 ELSE 0

Owed(bs, p) == Checked(bs) + Propagates(p)
Need(fs, n, bs, p) == Owed(bs, p) + Rank(fs, Throws, n)

ChecksFit(fs, n, bs, c, p, k) == c.entry_check_count = Need(fs, n, bs, p) + k
UsedFits(fs, n, c, p) == c.exc_used = Rank(fs, Targets, n) + Unwinds(p)

Counted(fs, n, bs, c, p, k) ==
  /\ c.live => ChecksFit(fs, n, bs, c, p, k)
  /\ c.live <=> Need(fs, n, bs, p) + k > 0 \/ p = "land"
  /\ p \notin {"run", "break"} => c.live
  /\ UsedFits(fs, n, c, p)

NeedType(fs, n, bs) ==
  /\ Checked(bs) \in Nat
  /\ Rank(fs, Throws, n) \in Nat
  /\ Rank(fs, Targets, n) \in Nat

LEMMA NeedIsTyped ==
  ASSUME NEW bs, Len(bs) \in Nat, NEW fs, NEW n \in Nat
  PROVE  NeedType(fs, n, bs)
  BY CheckedSome, RankType DEF NeedType

LEMMA OwedType ==
  ASSUME NEW bs, Len(bs) \in Nat, NEW p
  PROVE  Owed(bs, p) \in Nat
<1>1. Checked(bs) \in Nat
  BY CheckedSome
<1> QED
  BY <1>1 DEF Owed, Propagates

LEMMA PlaceTypes ==
  ASSUME NEW p
  PROVE  Propagates(p) \in {0, 1} /\ Unwinds(p) \in {0, 1}
  BY DEF Propagates, Unwinds

SameScans(fs, gs, n) == \A f \in 1 .. n : gs[f].scope_fn_exit = fs[f].scope_fn_exit

LEMMA SameRank ==
  ASSUME NEW fs, NEW gs, NEW n \in Nat, SameScans(fs, gs, n), NEW m \in 0 .. n, NEW T
  PROVE  Rank(gs, T, m) = Rank(fs, T, m)
<1>1. \A f \in 1 .. m : fs[f].scope_fn_exit \in T <=> gs[f].scope_fn_exit \in T
  BY DEF SameScans
<1> QED
  BY <1>1, RankAgrees

(* Constructs and counters change, and no scan starts or ends.             *)
LEMMA ChecksMove ==
  ASSUME NEW fs, NEW n \in Nat, NEW bs, NEW c, NEW p, NEW k \in Int, Len(bs) \in Nat,
         ChecksFit(fs, n, bs, c, p, k),
         NEW gs, NEW cs, NEW d, NEW q, NEW l \in Int, Len(cs) \in Nat, SameScans(fs, gs, n),
         NEW x \in Int, d.entry_check_count = c.entry_check_count + x,
         Owed(cs, q) + l = Owed(bs, p) + k + x
  PROVE  ChecksFit(gs, n, cs, d, q, l)
<1>1. n \in 0 .. n
  OBVIOUS
<1>2. Rank(gs, Throws, n) = Rank(fs, Throws, n)
  BY <1>1, SameRank
<1>3. Owed(bs, p) \in Int /\ Owed(cs, q) \in Int /\ Rank(fs, Throws, n) \in Int
  BY OwedType, RankType
<1>4. c.entry_check_count = Owed(bs, p) + Rank(fs, Throws, n) + k
  BY DEF ChecksFit, Need
<1>5. d.entry_check_count = Owed(cs, q) + Rank(fs, Throws, n) + l
  BY <1>3, <1>4
<1> QED
  BY <1>2, <1>5 DEF ChecksFit, Need

LEMMA UsedMoves ==
  ASSUME NEW fs, NEW n \in Nat, NEW c, NEW p, UsedFits(fs, n, c, p),
         NEW gs, NEW d, NEW q, SameScans(fs, gs, n), d.exc_used \in Int,
         d.exc_used + Unwinds(p) = c.exc_used + Unwinds(q)
  PROVE  UsedFits(gs, n, d, q)
<1>1. n \in 0 .. n
  OBVIOUS
<1>2. Rank(gs, Targets, n) = Rank(fs, Targets, n)
  BY <1>1, SameRank
<1>3. Rank(fs, Targets, n) \in Int /\ Unwinds(p) \in Int /\ Unwinds(q) \in Int
  BY RankType, PlaceTypes
<1>4. c.exc_used = Rank(fs, Targets, n) + Unwinds(p)
  BY DEF UsedFits
<1>5. d.exc_used = Rank(fs, Targets, n) + Unwinds(q)
  BY <1>3, <1>4
<1> QED
  BY <1>2, <1>5 DEF UsedFits

(* An open construct needs the context, and so does a propagation.         *)
LEMMA NeedSome ==
  ASSUME NEW fs, NEW n \in Nat, NEW bs \in Seq(Blocks), NEW p, Nested(bs, n)
  PROVE  /\ Need(fs, n, bs, p) \in Nat
         /\ Len(bs) > 0 \/ p = "propagate" => Need(fs, n, bs, p) > 0
<1>1. Checked(bs) \in Nat /\ Rank(fs, Throws, n) \in Nat
  BY NeedIsTyped DEF NeedType
<1>2. ASSUME Len(bs) > 0
      PROVE  Checked(bs) > 0
  <2>1. 1 \in 1 .. Len(bs) /\ ~ (1 > 1)
    BY <1>2
  <2>2. bs[1].kind \notin {"catch", "guard", "scope", "bottom"}
    BY <2>1 DEF Nested
  <2>3. bs[1] \in Blocks
    BY <2>1
  <2>4. bs[1].kind \in CheckedKinds
    BY <2>2, <2>3 DEF Blocks, Kinds, CheckedKinds
  <2> QED
    BY <2>1, <2>4, CheckedSome
<1> QED
  BY <1>1, <1>2 DEF Need, Owed, Propagates

(* Without constructs no function scans, and nothing is needed.            *)
LEMMA NeedNone ==
  ASSUME NEW fs, NEW n \in Nat, NEW bs, NEW p, ScopesFit(fs, n, bs, p), Len(bs) = 0
  PROVE  Checked(bs) = 0 /\ Rank(fs, Throws, n) = 0 /\ Rank(fs, Targets, n) = 0
<1>1. p \notin Visits
  BY DEF ScopesFit, VisitFits
<1>2. ASSUME NEW f \in 1 .. n
      PROVE  fs[f].scope_fn_exit = "none"
  <2>1. ~ Owns(bs, f)
    BY DEF Owns
  <2> QED
    BY <1>1, <2>1, NoScan
<1>3. Rank(fs, Throws, n) = 0 /\ Rank(fs, Targets, n) = 0
  BY <1>2, RankNone DEF Targets, Throws
<1>4. Checked(bs) = 0
  BY CheckedSome
<1> QED
  BY <1>3, <1>4

-----------------------------------------------------------------------------
(* Where exceptions land.  Guards may not exit with a throw: a throw under *)
(* one is caught by an sTRY opened since, or its function is not the one   *)
(* whose guard it is.                                                      *)
Catches(code, bs, n, i) ==
  /\ bs[i].kind = "try"
  /\ Matches(code, bs[i].catches)
  /\ i < n => bs[i + 1].kind # "catch"

ClearOf(code, bs, n, g) ==
  \/ \E i \in 1 .. n : g < i /\ Catches(code, bs, n, i)
  \/ \A i \in 1 .. n : g < i => bs[i].fr # bs[g].fr

Clear(code, bs, n) == \A g \in 1 .. n : bs[g].kind = "guard" => ClearOf(code, bs, n, g)

(* An sCATCH block was entered with its exception in a node that no scan   *)
(* needs; and the exception that a scan interrupts may go on from there.   *)
CatchFits(fs, b) == b.kind = "catch" => b.node > Rank(fs, Targets, b.fr)

ScanClear(fs, nodes, bs, i) ==
  bs[i].kind = "scope" /\ fs[bs[i].fr].scope_fn_exit \in Targets =>
    Clear(nodes[Rank(fs, Targets, bs[i].fr)].code, bs, i - 1)

ThrowsFit(fs, bs, nodes) ==
  \A i \in 1 .. Len(bs) : CatchFits(fs, bs[i]) /\ ScanClear(fs, nodes, bs, i)

(* So may the one that is on its way.                                      *)
ThrownClear(bs, c, p) == p \in Unwound => Clear(c.exc_nodes[c.exc_used].code, bs, Len(bs))

LEMMA ClearAgrees ==
  ASSUME NEW n \in Nat, NEW bs, NEW cs, \A i \in 1 .. n : bs[i] = cs[i], NEW code,
         Clear(code, bs, n)
  PROVE  Clear(code, cs, n)
<1> SUFFICES ASSUME NEW g \in 1 .. n, cs[g].kind = "guard"
             PROVE  ClearOf(code, cs, n, g)
  BY DEF Clear
<1>1. ClearOf(code, bs, n, g) /\ bs[g] = cs[g]
  BY DEF Clear
<1>2. \A i \in 1 .. n : Catches(code, bs, n, i) => Catches(code, cs, n, i)
  BY DEF Catches
<1> QED
  BY <1>1, <1>2 DEF ClearOf

(* A construct that does not catch is left.                                *)
LEMMA ClearPop ==
  ASSUME NEW bs, NEW b, NEW cs, Grows(bs, b, cs), NEW code, Clear(code, cs, Len(cs)),
         ~ (b.kind = "try" /\ Matches(code, b.catches))
  PROVE  Clear(code, bs, Len(bs))
<1> SUFFICES ASSUME NEW g \in 1 .. Len(bs), bs[g].kind = "guard"
             PROVE  ClearOf(code, bs, Len(bs), g)
  BY DEF Clear
<1>1. g \in 1 .. Len(cs) /\ cs[g] = bs[g] /\ ClearOf(code, cs, Len(cs), g)
  BY DEF Clear, Grows
<1>2. CASE \E i \in 1 .. Len(cs) : g < i /\ Catches(code, cs, Len(cs), i)
  <2>1. PICK i \in 1 .. Len(cs) : g < i /\ Catches(code, cs, Len(cs), i)
    BY <1>2
  <2>2. i # Len(bs) + 1
    BY <2>1 DEF Catches, Grows
  <2>3. i \in 1 .. Len(bs)
    BY <2>2, GrowsSplit
  <2>4. Catches(code, bs, Len(bs), i)
    BY <2>1, <2>3 DEF Catches, Grows
  <2> QED
    BY <2>1, <2>3, <2>4 DEF ClearOf
<1>3. CASE \A i \in 1 .. Len(cs) : g < i => cs[i].fr # cs[g].fr
  <2>1. \A i \in 1 .. Len(bs) : i \in 1 .. Len(cs) /\ cs[i] = bs[i]
    BY DEF Grows
  <2> QED
    BY <1>1, <1>3, <2>1 DEF ClearOf
<1> QED
  BY <1>1, <1>2, <1>3 DEF ClearOf

(* An sCATCH block is left, and its sTRY with it.                          *)
LEMMA ClearPopCatch ==
  ASSUME NEW bs, NEW b, NEW cs, Grows(bs, b, cs), NEW d, NEW ds, Grows(cs, d, ds),
         d.kind = "catch", NEW code, Clear(code, ds, Len(ds))
  PROVE  Clear(code, bs, Len(bs))
<1> SUFFICES ASSUME NEW g \in 1 .. Len(bs), bs[g].kind = "guard"
             PROVE  ClearOf(code, bs, Len(bs), g)
  BY DEF Clear
<1>1. /\ \A i \in 1 .. Len(bs) : i \in 1 .. Len(ds) /\ ds[i] = bs[i]
      /\ Len(ds) = Len(bs) + 2 /\ ds[Len(bs) + 2] = d /\ Len(bs) \in Nat
  BY DEF Grows
<1>2. ds[g] = bs[g] /\ ClearOf(code, ds, Len(ds), g)
  BY <1>1 DEF Clear
<1>3. CASE \E i \in 1 .. Len(ds) : g < i /\ Catches(code, ds, Len(ds), i)
  <2>1. PICK i \in 1 .. Len(ds) : g < i /\ Catches(code, ds, Len(ds), i)
    BY <1>3
  <2>2. i # Len(bs) + 2 /\ i # Len(bs) + 1
    BY <1>1, <2>1 DEF Catches
  <2>3. i \in 1 .. Len(bs)
    BY <1>1, <2>2
  <2>4. Catches(code, bs, Len(bs), i)
    BY <1>1, <2>1, <2>3 DEF Catches
  <2> QED
    BY <2>1, <2>3, <2>4 DEF ClearOf
<1>4. CASE \A i \in 1 .. Len(ds) : g < i => ds[i].fr # ds[g].fr
  BY <1>1, <1>2, <1>4 DEF ClearOf
<1> QED
  BY <1>2, <1>3, <1>4 DEF ClearOf

(* No guard of a function that a throw leaves is the construct under the   *)
(* one that it leaves.                                                     *)
LEMMA NoGuardUnder ==
  ASSUME NEW bs, NEW b, NEW cs, Grows(bs, b, cs), NEW code, Clear(code, cs, Len(cs)),
         Len(bs) > 0, bs[Len(bs)].kind = "guard", bs[Len(bs)].fr = b.fr
  PROVE  b.kind = "try" /\ Matches(code, b.catches)
<1>1. /\ Len(bs) \in 1 .. Len(cs) /\ cs[Len(bs)] = bs[Len(bs)]
      /\ Len(cs) = Len(bs) + 1 /\ Len(cs) \in 1 .. Len(cs) /\ cs[Len(cs)] = b
  BY DEF Grows
<1>2. ClearOf(code, cs, Len(cs), Len(bs))
  BY <1>1 DEF Clear
<1>3. ~ (\A i \in 1 .. Len(cs) : Len(bs) < i => cs[i].fr # cs[Len(bs)].fr)
  BY <1>1
<1>4. PICK i \in 1 .. Len(cs) : Len(bs) < i /\ Catches(code, cs, Len(cs), i)
  BY <1>2, <1>3 DEF ClearOf
<1>5. i = Len(cs)
  BY <1>1, <1>4
<1> QED
  BY <1>1, <1>4, <1>5 DEF Catches

LEMMA NoGuardUnderCatch ==
  ASSUME NEW bs, NEW b, NEW cs, Grows(bs, b, cs), NEW d, NEW ds, Grows(cs, d, ds),
         d.kind = "catch", NEW code, Clear(code, ds, Len(ds)), Len(bs) > 0, bs[Len(bs)].fr = b.fr
  PROVE  bs[Len(bs)].kind # "guard"
<1> SUFFICES ASSUME bs[Len(bs)].kind = "guard"
             PROVE  FALSE
  OBVIOUS
<1>1. /\ Len(bs) \in 1 .. Len(ds) /\ ds[Len(bs)] = bs[Len(bs)] /\ Len(bs) \in Nat
      /\ Len(ds) = Len(bs) + 2 /\ ds[Len(bs) + 1] = b /\ ds[Len(bs) + 2] = d
  BY DEF Grows
<1>2. ClearOf(code, ds, Len(ds), Len(bs))
  BY <1>1 DEF Clear
<1>3. Len(bs) + 1 \in 1 .. Len(ds) /\ Len(bs) < Len(bs) + 1
  BY <1>1
<1>4. ~ (\A i \in 1 .. Len(ds) : Len(bs) < i => ds[i].fr # ds[Len(bs)].fr)
  BY <1>1, <1>3
<1>5. PICK i \in 1 .. Len(ds) : Len(bs) < i /\ Catches(code, ds, Len(ds), i)
  BY <1>2, <1>4 DEF ClearOf
<1>6. i = Len(bs) + 1 \/ i = Len(bs) + 2
  BY <1>1, <1>5
<1> QED
  BY <1>1, <1>5, <1>6 DEF Catches

(* What the program may throw.                                             *)
PlainUses == Uses \subseteq {"BreakInTry", "CalleeEscapesGuard"}

LEMMA MayThrowIsClear ==
  ASSUME PlainUses, NEW bs \in Seq(Blocks), NEW code, MayThrow(code, bs)
  PROVE  /\ Clear(code, bs, Len(bs))
         /\ Len(bs) > 0 /\ bs[Len(bs)].fr = Fr => bs[Len(bs)].kind # "guard"
<1> DEFINE Free(g) == Fr > bs[g].fr /\ \A i \in g + 1 .. Len(bs) : bs[i].fr # bs[g].fr
<1>1. ASSUME NEW g \in 1 .. Len(bs), bs[g].kind = "guard"
      PROVE  CaughtSince(g, code, bs) \/ Free(g)
  <2>1. "AnyEscapesGuard" \notin Uses
    BY DEF PlainUses
  <2>2. g \in DOMAIN bs
    OBVIOUS
  <2> QED
    BY <1>1, <2>1, <2>2 DEF MayThrow
<1>2. ASSUME NEW g \in 1 .. Len(bs), CaughtSince(g, code, bs)
      PROVE  \E i \in 1 .. Len(bs) : g < i /\ Catches(code, bs, Len(bs), i)
  <2>1. PICK i \in g + 1 .. Len(bs) :
              /\ bs[i].kind = "try" /\ Matches(code, bs[i].catches)
              /\ i < Len(bs) => bs[i + 1].kind # "catch"
    BY <1>2 DEF CaughtSince
  <2> QED
    BY <2>1 DEF Catches
<1>3. ASSUME NEW g \in 1 .. Len(bs), Free(g)
      PROVE  \A i \in 1 .. Len(bs) : g < i => bs[i].fr # bs[g].fr
  <2>1. \A i \in 1 .. Len(bs) : g < i => i \in g + 1 .. Len(bs)
    OBVIOUS
  <2> QED
    BY <1>3, <2>1
<1> HIDE DEF Free
<1>4. Clear(code, bs, Len(bs))
  BY <1>1, <1>2, <1>3 DEF Clear, ClearOf
<1>5. ASSUME Len(bs) > 0, bs[Len(bs)].fr = Fr, bs[Len(bs)].kind = "guard"
      PROVE  FALSE
  <2>1. Len(bs) \in 1 .. Len(bs) /\ Len(bs) \in Nat
    BY <1>5
  <2>2. ~ Free(Len(bs))
    <3>1. bs[Len(bs)] \in Blocks
      BY <2>1
    <3>2. bs[Len(bs)].fr \in Nat
      BY <3>1 DEF Blocks
    <3> QED
      BY <1>5, <3>2 DEF Free
  <2>3. PICK i \in 1 .. Len(bs) : Len(bs) < i
    BY <1>1, <1>2, <1>5, <2>1, <2>2
  <2> QED
    BY <2>1, <2>3
<1> QED
  BY <1>4, <1>5

(* A construct more: an sCATCH block above every pending exception, or a   *)
(* scope that is not being scanned.                                        *)
LEMMA ThrowsPush ==
  ASSUME NEW bs, NEW b, NEW cs, Grows(bs, b, cs), NEW fs, NEW nodes, ThrowsFit(fs, bs, nodes),
         CatchFits(fs, b), b.kind = "scope" => fs[b.fr].scope_fn_exit \notin Targets
  PROVE  ThrowsFit(fs, cs, nodes)
<1> SUFFICES ASSUME NEW i \in 1 .. Len(cs)
             PROVE  CatchFits(fs, cs[i]) /\ ScanClear(fs, nodes, cs, i)
  BY DEF ThrowsFit
<1>1. CASE i \in 1 .. Len(bs)
  <2>1. CatchFits(fs, bs[i]) /\ ScanClear(fs, nodes, bs, i) /\ cs[i] = bs[i]
    BY <1>1 DEF ThrowsFit, Grows
  <2>2. i - 1 \in Nat /\ \A j \in 1 .. i - 1 : bs[j] = cs[j]
    BY <1>1 DEF Grows
  <2> QED
    BY <2>1, <2>2, ClearAgrees DEF ScanClear
<1>2. CASE i = Len(bs) + 1
  <2>1. cs[i] = b
    BY <1>2 DEF Grows
  <2> QED
    BY <2>1 DEF ScanClear
<1> QED
  BY <1>1, <1>2, GrowsSplit

LEMMA ThrowsPop ==
  ASSUME NEW bs, NEW b, NEW cs, Grows(bs, b, cs), NEW fs, NEW nodes, ThrowsFit(fs, cs, nodes)
  PROVE  /\ ThrowsFit(fs, bs, nodes)
         /\ CatchFits(fs, b)
         /\ b.kind = "scope" /\ fs[b.fr].scope_fn_exit \in Targets =>
              Clear(nodes[Rank(fs, Targets, b.fr)].code, bs, Len(bs))
<1>1. ASSUME NEW i \in 1 .. Len(bs)
      PROVE  CatchFits(fs, bs[i]) /\ ScanClear(fs, nodes, bs, i)
  <2>1. i \in 1 .. Len(cs) /\ cs[i] = bs[i]
    BY DEF Grows
  <2>2. CatchFits(fs, bs[i]) /\ ScanClear(fs, nodes, cs, i)
    BY <2>1 DEF ThrowsFit
  <2>3. i - 1 \in Nat /\ \A j \in 1 .. i - 1 : cs[j] = bs[j]
    BY DEF Grows
  <2> QED
    BY <2>1, <2>2, <2>3, ClearAgrees DEF ScanClear
<1>2. /\ Len(cs) \in 1 .. Len(cs) /\ cs[Len(cs)] = b /\ Len(cs) - 1 = Len(bs)
      /\ Len(bs) \in Nat /\ \A j \in 1 .. Len(bs) : cs[j] = bs[j]
  BY DEF Grows
<1>3. CatchFits(fs, b) /\ ScanClear(fs, nodes, cs, Len(cs))
  BY <1>2 DEF ThrowsFit
<1>4. ASSUME b.kind = "scope", fs[b.fr].scope_fn_exit \in Targets
      PROVE  Clear(nodes[Rank(fs, Targets, b.fr)].code, bs, Len(bs))
  <2>1. Clear(nodes[Rank(fs, Targets, b.fr)].code, cs, Len(bs))
    BY <1>2, <1>3, <1>4 DEF ScanClear
  <2> QED
    BY <1>2, <2>1, ClearAgrees
<1> QED
  BY <1>1, <1>3, <1>4 DEF ThrowsFit

(* Functions come, go and change, and scan as before.                      *)
LEMMA ThrowsStay ==
  ASSUME NEW bs, NEW fs, NEW gs, NEW nodes, ThrowsFit(fs, bs, nodes), NEW m \in Nat,
         \A i \in 1 .. Len(bs) : bs[i].fr \in 1 .. m,
         \A f \in 1 .. m : gs[f].scope_fn_exit \in Targets <=> fs[f].scope_fn_exit \in Targets
  PROVE  ThrowsFit(gs, bs, nodes)
<1> SUFFICES ASSUME NEW i \in 1 .. Len(bs)
             PROVE  CatchFits(gs, bs[i]) /\ ScanClear(gs, nodes, bs, i)
  BY DEF ThrowsFit
<1> DEFINE f == bs[i].fr
<1>1. CatchFits(fs, bs[i]) /\ ScanClear(fs, nodes, bs, i) /\ f \in 1 .. m
  BY DEF ThrowsFit
<1>2. f \in Nat /\ \A j \in 1 .. f : fs[j].scope_fn_exit \in Targets <=> gs[j].scope_fn_exit \in Targets
  BY <1>1
<1>3. Rank(gs, Targets, f) = Rank(fs, Targets, f)
  BY <1>2, RankAgrees
<1>4. gs[f].scope_fn_exit \in Targets <=> fs[f].scope_fn_exit \in Targets
  BY <1>1
<1> QED
  BY <1>1, <1>3, <1>4 DEF CatchFits, ScanClear

(* Nodes above the pending exceptions are used or reset.                   *)
LEMMA ThrowsNodes ==
  ASSUME NEW bs, NEW fs, NEW nodes, NEW mnodes, ThrowsFit(fs, bs, nodes), NEW n \in Nat,
         \A i \in 1 .. Len(bs) : bs[i].fr \in 1 .. n,
         \A j \in 1 .. Rank(fs, Targets, n) : mnodes[j] = nodes[j]
  PROVE  ThrowsFit(fs, bs, mnodes)
<1> SUFFICES ASSUME NEW i \in 1 .. Len(bs)
             PROVE  CatchFits(fs, bs[i]) /\ ScanClear(fs, mnodes, bs, i)
  BY DEF ThrowsFit
<1> DEFINE f == bs[i].fr
<1>1. CatchFits(fs, bs[i]) /\ ScanClear(fs, nodes, bs, i) /\ f \in 1 .. n
  BY DEF ThrowsFit
<1>2. ASSUME fs[f].scope_fn_exit \in Targets
      PROVE  Rank(fs, Targets, f) \in 1 .. Rank(fs, Targets, n)
  <2>1. f \in Nat \ {0} /\ f <= n /\ f \in Nat
    BY <1>1
  <2>2. Rank(fs, Targets, f - 1) \in Nat /\ Rank(fs, Targets, f) = Rank(fs, Targets, f - 1) + 1
    BY <1>2, <2>1, RankStep
  <2>3. Rank(fs, Targets, f) <= Rank(fs, Targets, n) /\ Rank(fs, Targets, n) \in Nat
    BY <2>1, RankGrows, RankType
  <2> QED
    BY <2>2, <2>3
<1>3. ASSUME fs[f].scope_fn_exit \in Targets
      PROVE  mnodes[Rank(fs, Targets, f)] = nodes[Rank(fs, Targets, f)]
  BY <1>2, <1>3
<1> QED
  BY <1>1, <1>3 DEF ScanClear

(* A scan starts on behalf of the exception on its way, in the function of *)
(* the innermost construct, its scope.                                     *)
LEMMA ThrowsScan ==
  ASSUME NEW bs, NEW b, NEW cs, Grows(bs, b, cs), NEW fs, NEW gs, NEW nodes,
         NEW n \in Nat \ {0}, b.kind = "scope", b.fr = n,
         \A i \in 1 .. Len(bs) : bs[i].fr \in 1 .. n - 1,
         ThrowsFit(fs, cs, nodes), Clear(nodes[Rank(gs, Targets, n)].code, cs, Len(cs)),
         \A f \in 1 .. n - 1 : gs[f].scope_fn_exit = fs[f].scope_fn_exit
  PROVE  ThrowsFit(gs, cs, nodes)
<1>1. ThrowsFit(fs, bs, nodes)
  BY ThrowsPop
<1>2. ThrowsFit(gs, bs, nodes)
  <2>1. n - 1 \in Nat
        /\ \A f \in 1 .. n - 1 : gs[f].scope_fn_exit \in Targets <=> fs[f].scope_fn_exit \in Targets
    OBVIOUS
  <2> QED
    BY <1>1, <2>1, ThrowsStay
<1>3. Clear(nodes[Rank(gs, Targets, n)].code, bs, Len(bs))
  BY ClearPop
<1> SUFFICES ASSUME NEW i \in 1 .. Len(cs)
             PROVE  CatchFits(gs, cs[i]) /\ ScanClear(gs, nodes, cs, i)
  BY DEF ThrowsFit
<1>4. CASE i \in 1 .. Len(bs)
  <2>1. CatchFits(gs, bs[i]) /\ ScanClear(gs, nodes, bs, i) /\ cs[i] = bs[i]
    BY <1>2, <1>4 DEF ThrowsFit, Grows
  <2>2. i - 1 \in Nat /\ \A j \in 1 .. i - 1 : bs[j] = cs[j]
    BY <1>4 DEF Grows
  <2> QED
    BY <2>1, <2>2, ClearAgrees DEF ScanClear
<1>5. CASE i = Len(bs) + 1
  <2>1. /\ cs[i] = b /\ i - 1 = Len(bs) /\ Len(bs) \in Nat
        /\ \A j \in 1 .. Len(bs) : bs[j] = cs[j]
    BY <1>5 DEF Grows
  <2>2. Clear(nodes[Rank(gs, Targets, n)].code, cs, Len(bs))
    BY <1>3, <2>1, ClearAgrees
  <2> QED
    BY <2>1, <2>2 DEF CatchFits, ScanClear
<1> QED
  BY <1>4, <1>5, GrowsSplit
=============================================================================
