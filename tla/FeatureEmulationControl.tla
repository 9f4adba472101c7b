----------------------- MODULE FeatureEmulationControl -----------------------
(***************************************************************************)
(* The safety of the exception machinery, for every program that makes the *)
(* plain uses of the macros (PlainUses): the inductive invariant CInv, one *)
(* lemma XControl for every action X that keeps it, and the theorems.      *)
(*                                                                         *)
(* Core relates functions, constructs and context at a place p of the      *)
(* macros.  Most macros pass through states in which an entry check is     *)
(* counted and not yet owed, or owed and not yet counted: Core's last      *)
(* parameter is that difference, 0 between steps.                          *)
(***************************************************************************)
EXTENDS FeatureEmulationProofs

-----------------------------------------------------------------------------
(* The stacks of a live context.                                           *)
Stacks(bs, c, p) ==
  /\ Mirrors(bs, c.exc_jmp_stack)
  /\ TriesListed(bs, c.try_jmp_stack)
  /\ GuardsListed(bs, c.scope_jmp_stack, p)
  /\ TracesSaved(bs, c.try_jmp_stack, c.scope_jmp_stack)
  /\ DepthsSaved(bs, c.debug_depth)

SameStacks(c, d) ==
  /\ d.exc_jmp_stack = c.exc_jmp_stack /\ d.try_jmp_stack = c.try_jmp_stack
  /\ d.scope_jmp_stack = c.scope_jmp_stack /\ d.debug_depth = c.debug_depth

LEMMA StacksStay ==
  ASSUME NEW bs, NEW c, NEW d, NEW p, NEW q, p # "visited", q # "visited",
         Stacks(bs, c, p), SameStacks(c, d)
  PROVE  Stacks(bs, d, q)
  BY GuardsStay DEF Stacks, SameStacks

(* What the jump stack is with and without its last jump.                  *)
LEMMA PopJump ==
  ASSUME NEW bs \in Seq(Blocks), NEW b \in Blocks, NEW c \in Contexts,
         Mirrors(Append(bs, b), c.exc_jmp_stack)
  PROVE  /\ Mirrors(bs, Front(c.exc_jmp_stack))
         /\ Len(Front(c.exc_jmp_stack)) = Len(c.exc_jmp_stack) - 1
         /\ Front(c.exc_jmp_stack)[1] = c.exc_jmp_stack[1]
         /\ Last(c.exc_jmp_stack) = Jmp(Len(bs), b)
<1> DEFINE ex == Front(c.exc_jmp_stack)
           e  == Last(c.exc_jmp_stack)
<1>1. c.exc_jmp_stack \in Seq(Jmps)
  BY ContextTypes
<1>2. Len(c.exc_jmp_stack) = Len(bs) + 2 /\ Len(bs) \in Nat
  BY DEF Mirrors
<1>3. c.exc_jmp_stack # << >>
  BY <1>2
<1>4. ex \in Seq(Jmps) /\ e \in Jmps /\ c.exc_jmp_stack = Append(ex, e)
      /\ Len(ex) = Len(c.exc_jmp_stack) - 1
  BY <1>1, <1>3, FrontLast
<1> HIDE DEF ex, e
<1>5. Mirrors(bs, ex) /\ ex[1] = c.exc_jmp_stack[1] /\ e = Jmp(Len(bs), b)
  BY <1>4, MirrorsPop
<1> QED
  BY <1>4, <1>5 DEF ex, e

LEMMA PushJump ==
  ASSUME NEW bs \in Seq(Blocks), NEW b \in Blocks, NEW c \in Contexts,
         Mirrors(bs, c.exc_jmp_stack)
  PROVE  /\ Mirrors(Append(bs, b), Append(c.exc_jmp_stack, Jmp(Len(bs), b)))
         /\ Append(c.exc_jmp_stack, Jmp(Len(bs), b))[1] = c.exc_jmp_stack[1]
<1>1. c.exc_jmp_stack \in Seq(Jmps) /\ Jmp(Len(bs), b) \in Jmps
  BY ContextTypes, JmpType
<1> QED
  BY <1>1, MirrorsPush, MirrorsRoot

(* An sCATCH block or a guard is entered; its jump is pushed.              *)
LEMMA StacksPush ==
  ASSUME NEW bs \in Seq(Blocks), NEW b \in Blocks, NEW c \in Contexts, NEW d,
         NEW p, NEW q, p # "visited", q # "visited", Stacks(bs, c, p),
         b.kind \notin {"try", "trace", "scope"},
         d.exc_jmp_stack = Append(c.exc_jmp_stack, Jmp(Len(bs), b)),
         d.try_jmp_stack = c.try_jmp_stack, d.scope_jmp_stack = c.scope_jmp_stack,
         d.debug_depth = c.debug_depth
  PROVE  Stacks(Append(bs, b), d, q)
<1>1. /\ Mirrors(bs, c.exc_jmp_stack) /\ TriesListed(bs, c.try_jmp_stack)
      /\ GuardsListed(bs, c.scope_jmp_stack, p)
      /\ TracesSaved(bs, c.try_jmp_stack, c.scope_jmp_stack)
      /\ DepthsSaved(bs, c.debug_depth)
      /\ c.try_jmp_stack \in Seq(Nat) /\ c.scope_jmp_stack \in Seq(ScopeJmps)
  BY ContextTypes DEF Stacks
<1>2. Mirrors(Append(bs, b), d.exc_jmp_stack)
  BY <1>1, PushJump
<1>3. TriesListed(Append(bs, b), d.try_jmp_stack)
  BY <1>1, TriesPush
<1>4. GuardsListed(Append(bs, b), d.scope_jmp_stack, q)
  BY <1>1, GuardsPush
<1>5. TracesSaved(Append(bs, b), d.try_jmp_stack, d.scope_jmp_stack)
  BY <1>1, TracesPush
<1>6. DepthsSaved(Append(bs, b), d.debug_depth)
  BY <1>1, AppendGrows, DepthsStay
<1> QED
  BY <1>2, <1>3, <1>4, <1>5, <1>6 DEF Stacks

(* It is left; its jump is popped.                                         *)
LEMMA StacksPop ==
  ASSUME NEW bs \in Seq(Blocks), NEW b \in Blocks, NEW c \in Contexts, NEW d,
         NEW p, NEW q, p # "visited", q # "visited", Stacks(Append(bs, b), c, p),
         b.kind \notin {"try", "trace", "scope"},
         d.exc_jmp_stack = Front(c.exc_jmp_stack),
         d.try_jmp_stack = c.try_jmp_stack, d.scope_jmp_stack = c.scope_jmp_stack,
         d.debug_depth = c.debug_depth
  PROVE  Stacks(bs, d, q)
<1>1. /\ Mirrors(Append(bs, b), c.exc_jmp_stack) /\ TriesListed(Append(bs, b), c.try_jmp_stack)
      /\ GuardsListed(Append(bs, b), c.scope_jmp_stack, p)
      /\ TracesSaved(Append(bs, b), c.try_jmp_stack, c.scope_jmp_stack)
      /\ DepthsSaved(Append(bs, b), c.debug_depth)
      /\ c.try_jmp_stack \in Seq(Nat) /\ c.scope_jmp_stack \in Seq(ScopeJmps)
  BY ContextTypes DEF Stacks
<1>2. Mirrors(bs, d.exc_jmp_stack)
  BY <1>1, PopJump
<1>3. TriesListed(bs, d.try_jmp_stack)
  BY <1>1, TriesPop
<1>4. GuardsListed(bs, d.scope_jmp_stack, q)
  BY <1>1, GuardsPop
<1>5. TracesSaved(bs, d.try_jmp_stack, d.scope_jmp_stack)
  BY <1>1, TracesPop
<1>6. DepthsSaved(bs, d.debug_depth)
  BY <1>1, AppendGrows, DepthsStay
<1> QED
  BY <1>2, <1>3, <1>4, <1>5, <1>6 DEF Stacks

(* sTRY                                                                    *)
LEMMA StacksPushTry ==
  ASSUME NEW bs \in Seq(Blocks), NEW b \in Blocks, NEW c \in Contexts, NEW d,
         Stacks(bs, c, "run"), b.kind = "try",
         d.exc_jmp_stack = Append(c.exc_jmp_stack, Jmp(Len(bs), b)),
         d.try_jmp_stack = Append(c.try_jmp_stack, Len(bs) + 1),
         d.scope_jmp_stack = c.scope_jmp_stack, d.debug_depth = c.debug_depth
  PROVE  Stacks(Append(bs, b), d, "run")
<1>1. /\ Mirrors(bs, c.exc_jmp_stack) /\ TriesListed(bs, c.try_jmp_stack)
      /\ GuardsListed(bs, c.scope_jmp_stack, "run")
      /\ TracesSaved(bs, c.try_jmp_stack, c.scope_jmp_stack)
      /\ DepthsSaved(bs, c.debug_depth)
      /\ c.try_jmp_stack \in Seq(Nat) /\ c.scope_jmp_stack \in Seq(ScopeJmps)
  BY ContextTypes DEF Stacks
<1>2. Mirrors(Append(bs, b), d.exc_jmp_stack)
  BY <1>1, PushJump
<1>3. TriesListed(Append(bs, b), d.try_jmp_stack)
  BY <1>1, TryPush
<1>4. GuardsListed(Append(bs, b), d.scope_jmp_stack, "run")
  BY <1>1, GuardsPush
<1>5. TracesSaved(Append(bs, b), d.try_jmp_stack, d.scope_jmp_stack)
  <2>1. TracesSaved(Append(bs, b), c.try_jmp_stack, c.scope_jmp_stack)
    BY <1>1, TracesPush
  <2>2. Append(bs, b) \in Seq(Blocks) /\ Len(bs) + 1 \in Nat /\ Len(bs) + 1 >= Len(Append(bs, b))
    BY AppendFacts
  <2> QED
    BY <1>1, <2>1, <2>2, TracesTryPush
<1>6. DepthsSaved(Append(bs, b), d.debug_depth)
  BY <1>1, AppendGrows, DepthsStay
<1> QED
  BY <1>2, <1>3, <1>4, <1>5, <1>6 DEF Stacks

(* SKIT__TRY_EXCEPTION_CLEANUP                                             *)
LEMMA StacksPopTry ==
  ASSUME NEW bs \in Seq(Blocks), NEW b \in Blocks, NEW c \in Contexts, NEW d,
         NEW p, NEW q, p # "visited", q # "visited",
         Stacks(Append(bs, b), c, p), b.kind = "try",
         d.exc_jmp_stack = Front(c.exc_jmp_stack),
         d.try_jmp_stack = Front(c.try_jmp_stack),
         d.scope_jmp_stack = c.scope_jmp_stack, d.debug_depth = c.debug_depth
  PROVE  Stacks(bs, d, q)
<1>1. /\ Mirrors(Append(bs, b), c.exc_jmp_stack) /\ TriesListed(Append(bs, b), c.try_jmp_stack)
      /\ GuardsListed(Append(bs, b), c.scope_jmp_stack, p)
      /\ TracesSaved(Append(bs, b), c.try_jmp_stack, c.scope_jmp_stack)
      /\ DepthsSaved(Append(bs, b), c.debug_depth)
      /\ c.try_jmp_stack \in Seq(Nat) /\ c.scope_jmp_stack \in Seq(ScopeJmps)
  BY ContextTypes DEF Stacks
<1>2. Mirrors(bs, d.exc_jmp_stack)
  BY <1>1, PopJump
<1> DEFINE ty == Front(c.try_jmp_stack)
           t  == Last(c.try_jmp_stack)
<1>3. c.try_jmp_stack # << >>
  <2>1. Len(bs) + 1 \in 1 .. Len(Append(bs, b)) /\ Append(bs, b)[Len(bs) + 1].kind = "try"
    OBVIOUS
  <2>2. PICK k \in 1 .. Len(c.try_jmp_stack) : TRUE
    BY <1>1, <2>1 DEF TriesListed
  <2> QED
    BY <2>2
<1>4. ty \in Seq(Nat) /\ t \in Nat /\ c.try_jmp_stack = Append(ty, t)
  BY <1>1, <1>3, FrontLast
<1> HIDE DEF ty, t
<1>5. TriesListed(bs, ty) /\ t = Len(bs) + 1
  BY <1>1, <1>4, TryPop
<1>6. GuardsListed(bs, d.scope_jmp_stack, q)
  BY <1>1, GuardsPop
<1>7. TracesSaved(bs, ty, c.scope_jmp_stack)
  <2>1. TracesSaved(bs, c.try_jmp_stack, c.scope_jmp_stack) /\ t >= Len(bs)
    BY <1>1, <1>5, TracesPop
  <2> QED
    BY <1>4, <2>1, TracesTryPop
<1>8. DepthsSaved(bs, d.debug_depth)
  BY <1>1, AppendGrows, DepthsStay
<1> QED
  BY <1>2, <1>5, <1>6, <1>7, <1>8 DEF Stacks, ty

(* sTRACE                                                                  *)
LEMMA StacksPushTrace ==
  ASSUME NEW bs \in Seq(Blocks), NEW b \in Blocks, NEW c \in Contexts, NEW d,
         Stacks(bs, c, "run"), b.kind = "trace", b.pos = Position(c),
         d.exc_jmp_stack = Append(c.exc_jmp_stack, Jmp(Len(bs), b)),
         d.try_jmp_stack = c.try_jmp_stack, d.scope_jmp_stack = c.scope_jmp_stack,
         d.debug_depth = c.debug_depth + 1
  PROVE  Stacks(Append(bs, b), d, "run")
<1>1. /\ Mirrors(bs, c.exc_jmp_stack) /\ TriesListed(bs, c.try_jmp_stack)
      /\ GuardsListed(bs, c.scope_jmp_stack, "run")
      /\ TracesSaved(bs, c.try_jmp_stack, c.scope_jmp_stack)
      /\ DepthsSaved(bs, c.debug_depth)
      /\ c.try_jmp_stack \in Seq(Nat) /\ c.scope_jmp_stack \in Seq(ScopeJmps)
      /\ c.debug_depth \in Int
  BY ContextTypes DEF Stacks
<1>2. Mirrors(Append(bs, b), d.exc_jmp_stack)
  BY <1>1, PushJump
<1>3. TriesListed(Append(bs, b), d.try_jmp_stack)
  BY <1>1, TriesPush
<1>4. GuardsListed(Append(bs, b), d.scope_jmp_stack, "run")
  BY <1>1, GuardsPush
<1>5. /\ b.pos.exc = Len(bs) + 1 /\ b.pos.try = Len(c.try_jmp_stack)
      /\ b.pos.scope = Len(c.scope_jmp_stack) /\ b.pos.debug = c.debug_depth
  BY <1>1 DEF Position, Mirrors
<1>6. /\ \A k \in 1 .. Len(c.try_jmp_stack) : c.try_jmp_stack[k] \in 1 .. Len(bs)
      /\ \A k \in 1 .. Len(c.scope_jmp_stack) : c.scope_jmp_stack[k].at \in 1 .. Len(bs)
  BY <1>1 DEF TriesListed, GuardsListed, InScope
<1>7. TracesSaved(Append(bs, b), d.try_jmp_stack, d.scope_jmp_stack)
  <2>1. Len(bs) \in Nat
    OBVIOUS
  <2>2. TraceSaved(b, Len(bs) + 1, c.try_jmp_stack, c.scope_jmp_stack)
    BY <1>1, <1>5, <1>6, <2>1, LengthsSaved
  <2> QED
    BY <1>1, <2>2, TracesPush
<1>8. DepthsSaved(Append(bs, b), d.debug_depth)
  BY <1>1, <1>5, AppendGrows, DepthsPush
<1> QED
  BY <1>2, <1>3, <1>4, <1>7, <1>8 DEF Stacks

(* Both ends of an sTRACE: the lengths are what it saved.                  *)
LEMMA StacksPopTrace ==
  ASSUME NEW bs \in Seq(Blocks), NEW b \in Blocks, NEW c \in Contexts, NEW d,
         NEW p, NEW q, p # "visited", q # "visited",
         Stacks(Append(bs, b), c, p), b.kind = "trace",
         d.exc_jmp_stack = Front(c.exc_jmp_stack),
         d.try_jmp_stack = c.try_jmp_stack, d.scope_jmp_stack = c.scope_jmp_stack,
         d.debug_depth = c.debug_depth - 1
  PROVE  Stacks(bs, d, q) /\ Position(d) = b.pos
<1>1. /\ Mirrors(Append(bs, b), c.exc_jmp_stack) /\ TriesListed(Append(bs, b), c.try_jmp_stack)
      /\ GuardsListed(Append(bs, b), c.scope_jmp_stack, p)
      /\ TracesSaved(Append(bs, b), c.try_jmp_stack, c.scope_jmp_stack)
      /\ DepthsSaved(Append(bs, b), c.debug_depth)
      /\ c.try_jmp_stack \in Seq(Nat) /\ c.scope_jmp_stack \in Seq(ScopeJmps)
      /\ c.debug_depth \in Int /\ b.pos \in Positions
  BY ContextTypes DEF Stacks, Blocks
<1>2. Mirrors(bs, d.exc_jmp_stack)
  BY <1>1, PopJump
<1>3. TriesListed(bs, d.try_jmp_stack)
  BY <1>1, TriesPop
<1>4. GuardsListed(bs, d.scope_jmp_stack, q)
  BY <1>1, GuardsPop
<1>5. TracesSaved(bs, d.try_jmp_stack, d.scope_jmp_stack)
      /\ TraceSaved(b, Len(bs) + 1, c.try_jmp_stack, c.scope_jmp_stack)
  BY <1>1, TracesPop
<1>6. b.pos.debug \in Int
  BY <1>1 DEF Positions
<1>7. c.debug_depth = b.pos.debug + 1 /\ DepthsSaved(bs, d.debug_depth)
  BY <1>1, <1>6, AppendGrows, DepthsPop
<1>8. /\ \A k \in 1 .. Len(c.try_jmp_stack) : c.try_jmp_stack[k] \in 1 .. Len(bs)
      /\ \A k \in 1 .. Len(c.scope_jmp_stack) : c.scope_jmp_stack[k].at \in 1 .. Len(bs)
  BY <1>3, <1>4 DEF TriesListed, GuardsListed, InScope
<1>9. b.pos.exc = Len(bs) + 1 /\ b.pos.try = Len(c.try_jmp_stack)
      /\ b.pos.scope = Len(c.scope_jmp_stack)
  <2>1. Len(bs) \in Nat
    OBVIOUS
  <2> QED
    BY <1>1, <1>5, <1>8, <2>1, LengthsRestored
<1>10. Len(d.exc_jmp_stack) = Len(bs) + 1 /\ d.debug_depth = b.pos.debug
  BY <1>1, <1>2, <1>6, <1>7 DEF Mirrors
<1>11. Position(d) = b.pos
  BY <1>1, <1>9, <1>10 DEF Position, Positions
<1> QED
  BY <1>2, <1>3, <1>4, <1>5, <1>7, <1>11 DEF Stacks

(* The first guard of a function.                                          *)
LEMMA StacksPushScope ==
  ASSUME NEW bs \in Seq(Blocks), NEW b \in Blocks, NEW c \in Contexts, NEW d,
         NEW exit \in ScopeJmps, NEW guard \in ScopeJmps,
         Stacks(bs, c, "run"), b.kind = "scope",
         exit.at = Len(bs) + 1, exit.fr = b.fr, exit.exit,
         guard.at = Len(bs) + 1, guard.fr = b.fr, ~ guard.exit,
         d.exc_jmp_stack = Append(c.exc_jmp_stack, Jmp(Len(bs), b)),
         d.scope_jmp_stack = Append(Append(c.scope_jmp_stack, exit), guard),
         d.try_jmp_stack = c.try_jmp_stack, d.debug_depth = c.debug_depth
  PROVE  Stacks(Append(bs, b), d, "run")
<1>1. /\ Mirrors(bs, c.exc_jmp_stack) /\ TriesListed(bs, c.try_jmp_stack)
      /\ GuardsListed(bs, c.scope_jmp_stack, "run")
      /\ TracesSaved(bs, c.try_jmp_stack, c.scope_jmp_stack)
      /\ DepthsSaved(bs, c.debug_depth)
      /\ c.try_jmp_stack \in Seq(Nat) /\ c.scope_jmp_stack \in Seq(ScopeJmps)
  BY ContextTypes DEF Stacks
<1>2. Mirrors(Append(bs, b), d.exc_jmp_stack)
  BY <1>1, PushJump
<1>3. TriesListed(Append(bs, b), d.try_jmp_stack)
  BY <1>1, TriesPush
<1>4. GuardsListed(Append(bs, b), d.scope_jmp_stack, "run")
  BY <1>1, GuardsPushScope
<1>5. TracesSaved(Append(bs, b), d.try_jmp_stack, d.scope_jmp_stack)
  <2>1. Append(bs, b) \in Seq(Blocks) /\ Len(Append(bs, b)) = Len(bs) + 1 /\ Len(bs) \in Nat
    BY AppendFacts
  <2>2. exit.at >= Len(Append(bs, b)) /\ guard.at >= Len(Append(bs, b))
    BY <2>1
  <2>3. TracesSaved(Append(bs, b), c.try_jmp_stack, c.scope_jmp_stack)
    BY <1>1, TracesPush
  <2>4. TracesSaved(Append(bs, b), c.try_jmp_stack, Append(c.scope_jmp_stack, exit))
    BY <1>1, <2>1, <2>2, <2>3, TracesGuardPush
  <2>5. Append(c.scope_jmp_stack, exit) \in Seq(ScopeJmps)
    BY <1>1, AppendFacts
  <2> QED
    BY <2>1, <2>2, <2>4, <2>5, TracesGuardPush
<1>6. DepthsSaved(Append(bs, b), d.debug_depth)
  BY <1>1, AppendGrows, DepthsStay
<1> QED
  BY <1>2, <1>3, <1>4, <1>5, <1>6 DEF Stacks

(* A further guard.                                                        *)
LEMMA StacksPushGuard ==
  ASSUME NEW bs \in Seq(Blocks), NEW c \in Contexts, NEW d, NEW guard \in ScopeJmps,
         Stacks(bs, c, "run"), bs # << >>, bs[Len(bs)].kind = "scope",
         guard.at = Len(bs), guard.fr = bs[Len(bs)].fr, ~ guard.exit,
         d.exc_jmp_stack = c.exc_jmp_stack, d.try_jmp_stack = c.try_jmp_stack,
         d.scope_jmp_stack = Append(c.scope_jmp_stack, guard), d.debug_depth = c.debug_depth
  PROVE  Stacks(bs, d, "run")
<1>1. /\ GuardsListed(bs, c.scope_jmp_stack, "run")
      /\ TracesSaved(bs, c.try_jmp_stack, c.scope_jmp_stack)
      /\ c.scope_jmp_stack \in Seq(ScopeJmps)
  BY ContextTypes DEF Stacks
<1>2. GuardsListed(bs, d.scope_jmp_stack, "run")
  BY <1>1, GuardsPushGuard
<1>3. TracesSaved(bs, d.try_jmp_stack, d.scope_jmp_stack)
  <2>1. guard.at >= Len(bs)
    OBVIOUS
  <2> QED
    BY <1>1, <2>1, TracesGuardPush
<1> QED
  BY <1>2, <1>3 DEF Stacks

(* A scan of the innermost construct, a scope, visits the top of           *)
(* scope_jmp_stack: a guard of that scope or, last, its exit.              *)
LEMMA StacksPopGuard ==
  ASSUME NEW bs \in Seq(Blocks), NEW c \in Contexts, NEW d, Stacks(bs, c, "visit"),
         bs # << >>, bs[Len(bs)].kind = "scope",
         d.exc_jmp_stack = c.exc_jmp_stack, d.try_jmp_stack = c.try_jmp_stack,
         d.scope_jmp_stack = Front(c.scope_jmp_stack), d.debug_depth = c.debug_depth
  PROVE  /\ c.scope_jmp_stack # << >>
         /\ Last(c.scope_jmp_stack).at = Len(bs)
         /\ Last(c.scope_jmp_stack).fr = bs[Len(bs)].fr
         /\ ~ Last(c.scope_jmp_stack).exit => Stacks(bs, d, "visit")
         /\ Last(c.scope_jmp_stack).exit => Stacks(bs, d, "visited")
<1> DEFINE gs == Front(c.scope_jmp_stack)
           g  == Last(c.scope_jmp_stack)
<1>1. /\ GuardsListed(bs, c.scope_jmp_stack, "visit")
      /\ TracesSaved(bs, c.try_jmp_stack, c.scope_jmp_stack)
      /\ c.scope_jmp_stack \in Seq(ScopeJmps)
  BY ContextTypes DEF Stacks
<1>2. c.scope_jmp_stack # << >>
  <2>1. Len(bs) \in 1 .. Len(bs)
    OBVIOUS
  <2>2. ScopeListed(c.scope_jmp_stack, Len(bs))
    BY <1>1, <2>1 DEF GuardsListed
  <2>3. PICK k \in 1 .. Len(c.scope_jmp_stack) : TRUE
    BY <2>2 DEF ScopeListed
  <2> QED
    BY <2>3
<1>3. gs \in Seq(ScopeJmps) /\ g \in ScopeJmps /\ c.scope_jmp_stack = Append(gs, g)
  BY <1>1, <1>2, FrontLast
<1> HIDE DEF gs, g
<1>4. /\ g.at = Len(bs) /\ g.fr = bs[Len(bs)].fr
      /\ ~ g.exit => GuardsListed(bs, gs, "visit")
      /\ g.exit => GuardsListed(bs, gs, "visited")
  BY <1>1, <1>3, GuardsPopGuard
<1>5. TracesSaved(bs, c.try_jmp_stack, gs)
  <2>1. g.at >= Len(bs)
    BY <1>4
  <2> QED
    BY <1>1, <1>3, <2>1, TracesGuardPop
<1>6. g.exit \in BOOLEAN
  BY <1>3 DEF ScopeJmps
<1> QED
  BY <1>2, <1>4, <1>5, <1>6 DEF Stacks, gs, g

(* The end of a scan closes the scope.                                     *)
LEMMA StacksPopScope ==
  ASSUME NEW bs \in Seq(Blocks), NEW b \in Blocks, NEW c \in Contexts, NEW d,
         NEW q, q # "visited", Stacks(Append(bs, b), c, "visited"), b.kind = "scope",
         d.exc_jmp_stack = Front(c.exc_jmp_stack),
         d.try_jmp_stack = c.try_jmp_stack, d.scope_jmp_stack = c.scope_jmp_stack,
         d.debug_depth = c.debug_depth
  PROVE  Stacks(bs, d, q)
<1>1. /\ Mirrors(Append(bs, b), c.exc_jmp_stack) /\ TriesListed(Append(bs, b), c.try_jmp_stack)
      /\ GuardsListed(Append(bs, b), c.scope_jmp_stack, "visited")
      /\ TracesSaved(Append(bs, b), c.try_jmp_stack, c.scope_jmp_stack)
      /\ DepthsSaved(Append(bs, b), c.debug_depth)
      /\ c.try_jmp_stack \in Seq(Nat) /\ c.scope_jmp_stack \in Seq(ScopeJmps)
  BY ContextTypes DEF Stacks
<1>2. Mirrors(bs, d.exc_jmp_stack)
  BY <1>1, PopJump
<1>3. TriesListed(bs, d.try_jmp_stack)
  BY <1>1, TriesPop
<1>4. GuardsListed(bs, d.scope_jmp_stack, q)
  BY <1>1, GuardsPopScope
<1>5. TracesSaved(bs, d.try_jmp_stack, d.scope_jmp_stack)
  BY <1>1, TracesPop
<1>6. DepthsSaved(bs, d.debug_depth)
  BY <1>1, AppendGrows, DepthsStay
<1> QED
  BY <1>2, <1>3, <1>4, <1>5, <1>6 DEF Stacks

(* A context is made without constructs.                                   *)
LEMMA StacksMade ==
  ASSUME NEW c, NEW p, c.exc_jmp_stack = << Jmp(0, Block("bottom")) >>,
         c.try_jmp_stack = << >>, c.scope_jmp_stack = << >>
  PROVE  Stacks(<< >>, c, p)
<1>1. Mirrors(<< >>, << Jmp(0, Block("bottom")) >>)
  BY DEF Mirrors, Jmp, Block
<1>2. TriesListed(<< >>, << >>) /\ TracesSaved(<< >>, << >>, << >>)
  BY DEF TriesListed, TracesSaved
<1>3. GuardsListed(<< >>, << >>, p)
  BY DEF GuardsListed, GuardsOrdered
<1>4. DepthsSaved(<< >>, c.debug_depth)
  BY DEF DepthsSaved
<1> QED
  BY <1>1, <1>2, <1>3, <1>4 DEF Stacks

-----------------------------------------------------------------------------
(* All of it: control, with functions fs (the innermost n), constructs bs  *)
(* and context c, is at place p, k entry checks beyond what it owes.       *)
Empty(bs, c) == bs = << >> /\ c.try_jmp_stack = << >> /\ c.scope_jmp_stack = << >>

StacksFit(bs, c, p) == IF c.live THEN Stacks(bs, c, p) ELSE Empty(bs, c)

(* The function that made the context.                                     *)
Root(c) == c.exc_jmp_stack[1].blk.fr

Core(fs, n, bs, c, p, k) ==
  /\ Nested(bs, n)
  /\ StacksFit(bs, c, p)
  /\ ScopesFit(fs, n, bs, p)
  /\ PointersFit(fs, n, bs, c.live, Root(c))
  /\ Counted(fs, n, bs, c, p, k)
  /\ ThrowsFit(fs, bs, c.exc_nodes)

(* fs and gs differ in the nesting level of the innermost function.        *)
Nests(fs, gs, n, d) ==
  /\ \A f \in 1 .. n :
       SamePointer(fs[f], gs[f]) /\ gs[f].scope_fn_exit = fs[f].scope_fn_exit
  /\ \A f \in 1 .. n - 1 : gs[f].nesting_level = fs[f].nesting_level
  /\ gs[n].nesting_level = fs[n].nesting_level + d

(* What a construct counts as an entry check.                              *)
CheckOf(b) == IF b.kind \in CheckedKinds THEN 1 ELSE 0

LEMMA OfTypes ==
  ASSUME NEW b
  PROVE  TryOf(b) \in {0, 1} /\ CheckOf(b) \in {0, 1}
  BY DEF TryOf, CheckOf

LEMMA OwedGrows ==
  ASSUME NEW bs, NEW b, NEW cs, Grows(bs, b, cs), NEW p, NEW q
  PROVE  Owed(cs, q) = Owed(bs, p) + CheckOf(b) + Propagates(q) - Propagates(p)
<1>1. Checked(bs) \in Nat /\ Checked(cs) = Checked(bs) + CheckOf(b)
  BY CheckedGrows DEF CheckOf
<1>2. Propagates(p) \in {0, 1} /\ Propagates(q) \in {0, 1} /\ CheckOf(b) \in {0, 1}
  BY PlaceTypes, OfTypes
<1> HIDE DEF Propagates, CheckOf
<1> QED
  BY <1>1, <1>2 DEF Owed

(* The places where a construct begins or ends.                            *)
Plain(p) == p \in {"run", "break", "land"}

LEMMA PlainPlaces ==
  ASSUME NEW p, Plain(p)
  PROVE  /\ p \notin Leaves /\ p \notin Visits /\ p # "visited" /\ p # "propagate"
         /\ Propagates(p) = 0
  BY DEF Plain, Leaves, Visits, Propagates

(* Control enters a construct other than a scope and a guard.              *)
LEMMA CorePush ==
  ASSUME NEW fs, NEW gs, NEW n \in Nat \ {0}, NEW bs \in Seq(Blocks), NEW b \in Blocks,
         NEW c \in Contexts, NEW d \in Contexts, NEW p, Plain(p), NEW k \in Int, NEW l \in Int,
         Core(fs, n, bs, c, p, k), c.live, d.live, Len(bs) = 0 => b.fr = Root(c),
         b.fr = n, b.kind \notin {"scope", "guard"}, Nests(fs, gs, n, TryOf(b)),
         Nested(Append(bs, b), n), Stacks(Append(bs, b), d, "run"),
         Root(d) = Root(c), d.exc_nodes = c.exc_nodes, CatchFits(fs, b),
         d.entry_check_count = c.entry_check_count, k = l + CheckOf(b),
         c.exc_used = d.exc_used + Unwinds(p), Need(gs, n, Append(bs, b), "run") + l > 0
  PROVE  Core(gs, n, Append(bs, b), d, "run", l)
<1> DEFINE cs == Append(bs, b)
<1>1. Grows(bs, b, cs) /\ Len(bs) \in Nat /\ Len(cs) \in Nat
  BY AppendGrows
<1> HIDE DEF cs
<1>2. /\ Nested(bs, n) /\ ScopesFit(fs, n, bs, p) /\ ThrowsFit(fs, bs, c.exc_nodes)
      /\ PointersFit(fs, n, bs, TRUE, Root(c)) /\ Counted(fs, n, bs, c, p, k)
  BY DEF Core
<1>3. /\ \A f \in 1 .. n : SamePointer(fs[f], gs[f])
      /\ \A f \in 1 .. n : gs[f].guards_used = fs[f].guards_used
                           /\ gs[f].scope_fn_exit = fs[f].scope_fn_exit
      /\ SameScans(fs, gs, n)
  BY DEF Nests, SamePointer, SameScans
<1>4. \A i \in 1 .. Len(bs) : bs[i].fr \in 1 .. n
  BY <1>2 DEF Nested
<1>5. ScopesFit(gs, n, cs, "run")
  <2>1. "run" \notin Visits \cup Leaves /\ p \notin Leaves /\ p \notin Visits
    BY PlainPlaces DEF Visits, Leaves
  <2>2. /\ gs[n].nesting_level = fs[n].nesting_level + TryOf(b)
        /\ \A f \in 1 .. n - 1 : gs[f].nesting_level = fs[f].nesting_level
    BY DEF Nests
  <2> QED
    BY <1>1, <1>2, <1>3, <1>4, <2>1, <2>2, ScopesPush
<1>6. PointersFit(gs, n, cs, TRUE, Root(c))
  BY <1>1, <1>2, <1>3, PointersPush
<1>7. ThrowsFit(gs, cs, d.exc_nodes)
  <2>1. ThrowsFit(fs, cs, c.exc_nodes)
    BY <1>1, <1>2, ThrowsPush
  <2>2. \A i \in 1 .. Len(cs) : cs[i].fr \in 1 .. n
    BY DEF Nested, cs
  <2> QED
    BY <1>3, <2>1, <2>2, ThrowsStay
<1>8. Counted(gs, n, cs, d, "run", l)
  <2>1. ChecksFit(fs, n, bs, c, p, k) /\ UsedFits(fs, n, c, p)
    BY <1>2 DEF Counted
  <2>2. Owed(cs, "run") = Owed(bs, p) + CheckOf(b)
    <3>1. Propagates(p) = 0 /\ Propagates("run") = 0
      BY PlainPlaces DEF Plain
    <3>2. Owed(bs, p) \in Nat /\ CheckOf(b) \in {0, 1}
      BY <1>1, OwedType, OfTypes
    <3>3. Owed(cs, "run") = Owed(bs, p) + CheckOf(b) + Propagates("run") - Propagates(p)
      BY <1>1, OwedGrows
    <3> HIDE DEF Propagates, CheckOf, Owed
    <3> QED
      BY <3>1, <3>2, <3>3
  <2>3. Owed(bs, p) \in Nat /\ CheckOf(b) \in {0, 1}
    BY <1>1, OwedType, OfTypes
  <2>4. Owed(cs, "run") + l = Owed(bs, p) + k + 0
    BY <2>2, <2>3
  <2>5. c.entry_check_count \in Int /\ d.entry_check_count = c.entry_check_count + 0
    BY DEF Contexts
  <2>6. ChecksFit(gs, n, cs, d, "run", l)
    BY <1>1, <1>3, <2>1, <2>4, <2>5, ChecksMove
  <2>7. d.exc_used \in Int /\ d.exc_used + Unwinds(p) = c.exc_used + Unwinds("run")
    <3>1. c.exc_used \in Int /\ d.exc_used \in Int
      BY BoundsAssumption DEF Contexts
    <3>2. Unwinds("run") = 0
      BY DEF Unwinds, Unwound
    <3> QED
      BY <3>1, <3>2
  <2>9. UsedFits(gs, n, d, "run")
    BY <1>3, <2>1, <2>7, UsedMoves
  <2> QED
    BY <2>6, <2>9 DEF Counted, cs
<1> QED
  BY <1>5, <1>6, <1>7, <1>8 DEF Core, StacksFit, cs

(* Control leaves one: what it checked on entry is checked on leaving.     *)
PoppedCore(gs, n, bs, d, p, l) ==
  Core(gs, n, bs, d, p, l) /\ (Len(bs) = 0 => n = Root(d))

LEMMA CorePop ==
  ASSUME NEW fs, NEW gs, NEW n \in Nat \ {0}, NEW bs \in Seq(Blocks), NEW b \in Blocks,
         NEW c \in Contexts, NEW d \in Contexts, NEW p, Plain(p), NEW x \in Int,
         Core(fs, n, Append(bs, b), c, p, 0), c.live, d.live,
         b.fr = n, b.kind \notin {"scope", "guard"}, Nests(fs, gs, n, x),
         fs[n].guards_used => x = 0 - TryOf(b),
         Stacks(bs, d, p), Root(d) = Root(c), ThrowsFit(fs, bs, d.exc_nodes),
         d.entry_check_count = c.entry_check_count, d.exc_used = c.exc_used,
         NEW l, l = CheckOf(b)
  PROVE  PoppedCore(gs, n, bs, d, p, l)
<1> DEFINE cs == Append(bs, b)
<1>1. Grows(bs, b, cs) /\ Len(bs) \in Nat /\ Len(cs) \in Nat
  BY AppendGrows
<1>2. /\ Nested(cs, n) /\ ScopesFit(fs, n, cs, p)
      /\ PointersFit(fs, n, cs, TRUE, Root(c)) /\ Counted(fs, n, cs, c, p, 0)
  BY DEF Core
<1>2a. Nested(bs, n)
  BY <1>2, NestedPop
<1> HIDE DEF cs
<1>3. /\ \A f \in 1 .. n : SamePointer(fs[f], gs[f])
      /\ \A f \in 1 .. n : gs[f].guards_used = fs[f].guards_used
                           /\ gs[f].scope_fn_exit = fs[f].scope_fn_exit
      /\ SameScans(fs, gs, n)
  BY DEF Nests, SamePointer, SameScans
<1>4. \A i \in 1 .. Len(bs) : bs[i].fr \in 1 .. n
  BY <1>2a DEF Nested
<1>5. ScopesFit(gs, n, bs, p)
  <2>1. p \notin Leaves /\ p \notin Visits
    BY PlainPlaces
  <2>2. /\ fs[n].guards_used =>
             gs[n].nesting_level = fs[n].nesting_level + x /\ x = 0 - TryOf(b)
        /\ \A f \in 1 .. n - 1 : gs[f].nesting_level = fs[f].nesting_level
    BY DEF Nests
  <2>2a. fs[n].guards_used => fs[n].nesting_level = TriesOf(cs, n) /\ TriesOf(cs, n) \in Int
    <3>1. FrameFits(fs, n, cs, p, n)
      BY <1>2 DEF ScopesFit
    <3>2. TriesOf(bs, n) \in Nat /\ TriesOf(cs, n) = TriesOf(bs, n) + TryOf(b)
      BY <1>1, TriesOfGrows DEF TryOf
    <3>3. TryOf(b) \in Int
      BY OfTypes
    <3> QED
      BY <3>1, <3>2, <3>3 DEF FrameFits
  <2>3. fs[n].guards_used =>
          gs[n].nesting_level = fs[n].nesting_level - TryOf(b)
    BY <2>2, <2>2a, OfTypes
  <2> QED
    BY <1>1, <1>2, <1>3, <1>4, <2>1, <2>2, <2>3, ScopesPop
<1>6. PointersFit(gs, n, bs, TRUE, Root(c)) /\ (Len(bs) = 0 => b.fr = Root(c))
  <2>1. \A f \in 1 .. n : SamePointer(fs[f], gs[f])
    BY <1>3
  <2>2. PointersFit(fs, n, cs, TRUE, Root(c)) /\ n \in Nat
    BY <1>2
  <2>3. PointersFit(gs, n, bs, TRUE, Root(c))
    BY <1>1, <2>1, <2>2, PointersPop
  <2>4. Len(bs) = 0 => b.fr = Root(c)
    BY <1>1, <2>2, RootPop
  <2> QED
    BY <2>3, <2>4
<1>7. ThrowsFit(gs, bs, d.exc_nodes)
  BY <1>3, <1>4, ThrowsStay
<1>8. Counted(gs, n, bs, d, p, CheckOf(b))
  <2>1. ChecksFit(fs, n, cs, c, p, 0) /\ UsedFits(fs, n, c, p)
        /\ (Need(fs, n, cs, p) + 0 > 0 \/ p = "land")
    BY <1>2 DEF Counted
  <2>2. Owed(bs, p) \in Nat /\ CheckOf(b) \in {0, 1}
    BY <1>1, OwedType, OfTypes
  <2>3. Owed(cs, p) = Owed(bs, p) + CheckOf(b)
    <3>1. Propagates(p) = 0
      BY PlainPlaces
    <3>3. Owed(cs, p) = Owed(bs, p) + CheckOf(b) + Propagates(p) - Propagates(p)
      BY <1>1, OwedGrows
    <3> HIDE DEF Propagates, CheckOf, Owed
    <3> QED
      BY <2>2, <3>1, <3>3
  <2>4. Owed(bs, p) + CheckOf(b) = Owed(cs, p) + 0 + 0
    BY <2>2, <2>3
  <2>5. c.entry_check_count \in Int /\ d.entry_check_count = c.entry_check_count + 0
    BY DEF Contexts
  <2>6. ChecksFit(gs, n, bs, d, p, CheckOf(b))
    BY <1>1, <1>3, <2>1, <2>2, <2>4, <2>5, ChecksMove
  <2>7. Unwinds(p) \in {0, 1}
    BY PlaceTypes
  <2>8. d.exc_used \in Int /\ d.exc_used + Unwinds(p) = c.exc_used + Unwinds(p)
    BY BoundsAssumption DEF Contexts
  <2>9. UsedFits(gs, n, d, p)
    BY <1>3, <2>1, <2>8, UsedMoves
  <2>10. Need(gs, n, bs, p) + CheckOf(b) > 0 \/ p = "land"
    <3>1. Rank(gs, Throws, n) = Rank(fs, Throws, n) /\ Rank(gs, Throws, n) \in Nat
      BY <1>3, SameRank, RankType
    <3> QED
      BY <2>1, <2>2, <2>3, <3>1 DEF Need
  <2> QED
    BY <2>6, <2>9, <2>10 DEF Counted
<1> QED
  BY <1>2a, <1>5, <1>6, <1>7, <1>8 DEF Core, StacksFit, PoppedCore

-----------------------------------------------------------------------------
(* The checks on entry and on leaving.                                     *)

(* gs is fs with other pointers to the context.                            *)
Repointed(fs, gs, n) ==
  \A f \in 1 .. n :
    /\ gs[f].nesting_level = fs[f].nesting_level
    /\ gs[f].guards_used = fs[f].guards_used
    /\ gs[f].scope_fn_exit = fs[f].scope_fn_exit

LEMMA FrType ==
  ASSUME FramesOK(frames)
  PROVE  Fr \in Nat \ {0} /\ Fr = Len(frames) /\ frames \in Seq(Frames)
  BY DEF FramesOK, Fr

LEMMA PointToFrame ==
  ASSUME NEW fs, fs \in Seq(Frames), NEW pointer, NEW f \in 1 .. Len(fs)
  PROVE  LET p == IF f = Len(fs) THEN pointer ELSE Outdated(fs[f].skit_thread_ctx)
             g == PointTo(fs, pointer)[f]
         IN  /\ g.skit_thread_ctx = p /\ g.nesting_level = fs[f].nesting_level
             /\ g.guards_used = fs[f].guards_used
             /\ g.scope_fn_exit = fs[f].scope_fn_exit
<1> DEFINE p == IF f = Len(fs) THEN pointer ELSE Outdated(fs[f].skit_thread_ctx)
<1>1. fs[f] \in Frames /\ f \in DOMAIN fs
  OBVIOUS
<1>2. PointTo(fs, pointer)[f] = [fs[f] EXCEPT !.skit_thread_ctx = p]
  BY <1>1 DEF PointTo, Frames
<1> HIDE DEF p
<1>3. LET g == PointTo(fs, pointer)[f]
      IN  /\ g.skit_thread_ctx = p /\ g.nesting_level = fs[f].nesting_level
          /\ g.guards_used = fs[f].guards_used
          /\ g.scope_fn_exit = fs[f].scope_fn_exit
  BY <1>1, <1>2 DEF Frames
<1> QED
  BY <1>3 DEF p

LEMMA PointToFacts ==
  ASSUME NEW fs, fs \in Seq(Frames), NEW n \in Nat \ {0}, n = Len(fs), NEW pointer
  PROVE  /\ Repointed(fs, PointTo(fs, pointer), n)
         /\ PointTo(fs, pointer)[n].skit_thread_ctx = pointer
         /\ \A f \in 1 .. n - 1 :
              fs[f].skit_thread_ctx = "null" => PointTo(fs, pointer)[f].skit_thread_ctx = "null"
<1>1. Repointed(fs, PointTo(fs, pointer), n)
  BY PointToFrame DEF Repointed
<1>2. PointTo(fs, pointer)[n].skit_thread_ctx = pointer
  <2>1. n \in 1 .. Len(fs)
    OBVIOUS
  <2> QED
    BY <2>1, PointToFrame
<1>3. ASSUME NEW f \in 1 .. n - 1, fs[f].skit_thread_ctx = "null"
      PROVE  PointTo(fs, pointer)[f].skit_thread_ctx = "null"
  <2>1. f \in 1 .. Len(fs) /\ f # Len(fs)
    OBVIOUS
  <2> QED
    BY <1>3, <2>1, PointToFrame DEF Outdated
<1> QED
  BY <1>1, <1>2, <1>3

LEMMA ScopesRepointed ==
  ASSUME NEW fs, NEW gs, NEW n \in Nat \ {0}, NEW bs, NEW p, ScopesFit(fs, n, bs, p),
         \A i \in 1 .. Len(bs) : bs[i].fr \in 1 .. n, Repointed(fs, gs, n)
  PROVE  ScopesFit(gs, n, bs, p)
<1>1. \A f \in 1 .. n : FrameFits(gs, n, bs, p, f)
  BY DEF ScopesFit, FrameFits, Repointed
<1>2. \A i \in 1 .. Len(bs) : BlockFits(gs, bs[i])
  BY DEF ScopesFit, BlockFits, Repointed
<1>3. p \in Visits => VisitFits(gs, n, bs)
  BY DEF ScopesFit, VisitFits, Repointed
<1> QED
  BY <1>1, <1>2, <1>3 DEF ScopesFit

(* What does not depend on the pointers.                                   *)
LEMMA RepointedFacts ==
  ASSUME NEW fs, NEW gs, NEW n \in Nat \ {0}, NEW bs, NEW c, NEW p, NEW k, Core(fs, n, bs, c, p, k),
         Repointed(fs, gs, n)
  PROVE  /\ Nested(bs, n) /\ ScopesFit(gs, n, bs, p) /\ ThrowsFit(gs, bs, c.exc_nodes)
         /\ SameScans(fs, gs, n)
<1>1. Nested(bs, n) /\ ScopesFit(fs, n, bs, p) /\ ThrowsFit(fs, bs, c.exc_nodes)
  BY DEF Core
<1>2. \A i \in 1 .. Len(bs) : bs[i].fr \in 1 .. n
  BY <1>1 DEF Nested
<1>3. SameScans(fs, gs, n)
  BY DEF SameScans, Repointed
<1>4. \A f \in 1 .. n : gs[f].scope_fn_exit \in Targets <=> fs[f].scope_fn_exit \in Targets
  BY DEF Repointed
<1> QED
  BY <1>1, <1>2, <1>3, <1>4, ScopesRepointed, ThrowsStay

(* Outside a propagation, a context without constructs is not needed.      *)
LEMMA LiveHasBlocks ==
  ASSUME NEW fs, NEW n \in Nat, NEW bs \in Seq(Blocks), NEW c, NEW p, p \notin {"propagate", "land"},
         Core(fs, n, bs, c, p, 0), c.live
  PROVE  Len(bs) > 0 /\ RootFits(n, bs, Root(c)) /\ bs[1].fr = Root(c)
<1>1. Need(fs, n, bs, p) + 0 > 0 /\ ScopesFit(fs, n, bs, p)
  BY DEF Core, Counted
<1>2. Propagates(p) = 0
  BY DEF Propagates
<1>3. Len(bs) # 0
  <2> SUFFICES ASSUME Len(bs) = 0
               PROVE  FALSE
    OBVIOUS
  <2>1. Checked(bs) = 0 /\ Rank(fs, Throws, n) = 0
    BY <1>1, NeedNone
  <2> QED
    BY <1>1, <1>2, <2>1 DEF Need, Owed
<1>4. RootFits(n, bs, Root(c))
  BY DEF Core, PointersFit
<1> QED
  BY <1>3, <1>4 DEF RootFits

(* d is c with another count of entry checks.                              *)
SameBut(c, d) ==
  /\ SameStacks(c, d) /\ d.live = c.live /\ Root(d) = Root(c)
  /\ d.exc_nodes = c.exc_nodes /\ d.exc_used = c.exc_used

LEMMA CountIs ==
  ASSUME NEW c \in Contexts, NEW y \in Int
  PROVE  LET d == [c EXCEPT !.entry_check_count = y]
         IN  d \in Contexts /\ d.entry_check_count = y /\ SameBut(c, d)
<1> DEFINE d == [c EXCEPT !.entry_check_count = y]
<1>1. /\ d.exc_jmp_stack = c.exc_jmp_stack /\ d.try_jmp_stack = c.try_jmp_stack
      /\ d.scope_jmp_stack = c.scope_jmp_stack /\ d.debug_depth = c.debug_depth
  BY DEF Contexts
<1>2. /\ d.entry_check_count = y /\ d.live = c.live
      /\ d.exc_nodes = c.exc_nodes /\ d.exc_used = c.exc_used
  BY DEF Contexts
<1>3. d \in Contexts
  BY CountType
<1> QED
  BY <1>1, <1>2, <1>3 DEF SameBut, SameStacks, Root

(* More or fewer entry checks, the place in the program being the same.    *)
LEMMA CoreCounts ==
  ASSUME NEW fs, NEW n \in Nat \ {0}, NEW bs \in Seq(Blocks), NEW c \in Contexts, NEW d \in Contexts,
         NEW p, p # "visited", NEW k \in Int, NEW l \in Int,
         Core(fs, n, bs, c, p, k), c.live, d.entry_check_count + k = c.entry_check_count + l,
         SameBut(c, d),
         Need(fs, n, bs, p) + l > 0 \/ p = "land"
  PROVE  Core(fs, n, bs, d, p, l)
<1>1. /\ Nested(bs, n) /\ Stacks(bs, c, p) /\ ScopesFit(fs, n, bs, p)
      /\ PointersFit(fs, n, bs, c.live, Root(c)) /\ Counted(fs, n, bs, c, p, k)
      /\ ThrowsFit(fs, bs, c.exc_nodes)
  BY DEF Core, StacksFit
<1>2. StacksFit(bs, d, p)
  BY <1>1, StacksStay DEF StacksFit, SameBut
<1>3. Counted(fs, n, bs, d, p, l)
  <2>1. ChecksFit(fs, n, bs, c, p, k) /\ UsedFits(fs, n, c, p) /\ SameScans(fs, fs, n)
    BY <1>1 DEF Counted, SameScans
  <2>2. Owed(bs, p) \in Nat
    BY OwedType
  <2>2a. c.entry_check_count \in Int /\ d.entry_check_count \in Int
    BY DEF Contexts
  <2>3. /\ l - k \in Int /\ Len(bs) \in Nat
        /\ d.entry_check_count = c.entry_check_count + (l - k)
    BY <2>2a
  <2>3a. Owed(bs, p) + l = Owed(bs, p) + k + (l - k)
    BY <2>2
  <2>4. ChecksFit(fs, n, bs, d, p, l)
    BY <2>1, <2>3, <2>3a, ChecksMove
  <2>5. UsedFits(fs, n, d, p)
    BY <2>1 DEF UsedFits, SameBut
  <2> QED
    BY <2>4, <2>5 DEF Counted, SameBut
<1> QED
  BY <1>1, <1>2, <1>3 DEF Core, SameBut

(* SKIT_THREAD_CHECK_ENTRY counts a check that the construct about to be   *)
(* entered will owe.                                                       *)
EnteredFits(p) ==
  /\ Core(EnteredFrames, Fr, blocks, Entered, p, 1)
  /\ Entered.live /\ (Len(blocks) = 0 => Root(Entered) = Fr)

EnteredAlike ==
  /\ Entered \in Contexts /\ Entered.exc_used = ctx.exc_used
  /\ Repointed(frames, EnteredFrames, Fr)
  /\ ctx.live => Entered.exc_nodes = ctx.exc_nodes /\ EnteredFrames = frames

(* A function enters a construct within others: the context is there.      *)
LEMMA EnterLive ==
  ASSUME FramesOK(frames), blocks \in Seq(Blocks), ctx \in Contexts,
         NEW p \in {"run", "break", "leaving"}, Core(frames, Fr, blocks, ctx, p, 0),
         ctx.live
  PROVE  EnteredFits(p) /\ EnteredAlike
<1>1. Fr \in Nat \ {0} /\ Fr = Len(frames) /\ frames \in Seq(Frames)
  BY FrType
<1>2. Len(blocks) > 0 /\ RootFits(Fr, blocks, Root(ctx))
  BY <1>1, LiveHasBlocks
<1>3. Me.skit_thread_ctx = "live"
  <2>1. \A f \in 1 .. Fr : PointerFits(f, frames[f], TRUE, Root(ctx))
    BY DEF Core, PointersFit
  <2>2. Fr \in 1 .. Fr
    BY <1>1
  <2>3. PointerFits(Fr, frames[Fr], TRUE, Root(ctx))
    BY <2>1, <2>2
  <2> QED
    BY <1>1, <1>2, <2>3 DEF PointerFits, RootFits, Me
<1>4. EnteredFrames = frames
  BY <1>3 DEF EnteredFrames
<1>5. Entered = [ctx EXCEPT !.entry_check_count = ctx.entry_check_count + 1]
  BY <1>3 DEF Entered
<1>6. Need(frames, Fr, blocks, p) + 1 > 0
  <2>1. Nested(blocks, Fr) /\ Fr \in Nat
    BY <1>1 DEF Core
  <2>2. Need(frames, Fr, blocks, p) \in Nat
    BY <2>1, NeedSome
  <2> QED
    BY <2>2
<1>7. Entered \in Contexts /\ Entered.entry_check_count = ctx.entry_check_count + 1
      /\ SameBut(ctx, Entered)
  <2>1. ctx.entry_check_count + 1 \in Int
    BY DEF Contexts
  <2> QED
    BY <1>5, <2>1, CountIs
<1>8. Core(frames, Fr, blocks, Entered, p, 1)
  <2>1. Entered.entry_check_count + 0 = ctx.entry_check_count + 1
    BY <1>7 DEF Contexts
  <2> QED
    BY <1>1, <1>6, <1>7, <2>1, CoreCounts
<1>9. EnteredFits(p)
  BY <1>2, <1>4, <1>7, <1>8 DEF EnteredFits, SameBut
<1> QED
  BY <1>4, <1>7, <1>9 DEF EnteredAlike, Repointed, SameBut

(* The context a function makes.                                           *)
LEMMA NewContextFacts ==
  ASSUME NEW d, d = [NewContext EXCEPT !.entry_check_count = @ + 1]
  PROVE  /\ d.live /\ d.entry_check_count = 1 /\ d.exc_used = 0
         /\ d.exc_jmp_stack = << Jmp(0, Block("bottom")) >> /\ Root(d) = Fr
         /\ d.try_jmp_stack = << >> /\ d.scope_jmp_stack = << >>
<1> DEFINE bottom == Jmp(0, Block("bottom"))
<1>1. bottom.blk.fr = Fr
  BY DEF Jmp, Block
<1> HIDE DEF bottom
<1>2. /\ d.live /\ d.entry_check_count = 1 /\ d.exc_used = 0 /\ d.exc_jmp_stack = << bottom >>
      /\ d.try_jmp_stack = << >> /\ d.scope_jmp_stack = << >>
  BY DEF NewContext, bottom
<1>3. Root(d) = Fr
  BY <1>1, <1>2 DEF Root
<1> QED
  BY <1>2, <1>3 DEF bottom

(* A function enters a construct and no other is open: it makes one.       *)
LEMMA EnterMakes ==
  ASSUME FramesOK(frames), blocks \in Seq(Blocks), ctx \in Contexts,
         NEW p \in {"run", "break", "leaving"}, Core(frames, Fr, blocks, ctx, p, 0),
         ~ ctx.live
  PROVE  EnteredFits(p) /\ EnteredAlike
<1>1. Fr \in Nat \ {0} /\ Fr = Len(frames) /\ frames \in Seq(Frames)
  BY FrType
<1>2. /\ PointersFit(frames, Fr, blocks, FALSE, Root(ctx)) /\ StacksFit(blocks, ctx, p)
      /\ ScopesFit(frames, Fr, blocks, p) /\ Counted(frames, Fr, blocks, ctx, p, 0)
  BY DEF Core, Contexts
<1>3. /\ Len(blocks) = 0 /\ blocks = << >>
      /\ \A f \in 1 .. Fr : frames[f].skit_thread_ctx = "null"
  BY <1>2 DEF PointersFit, PointerFits, StacksFit, Empty
<1>4. Me.skit_thread_ctx = "null"
  BY <1>1, <1>3 DEF Me
<1>5. EnteredFrames = PointTo(frames, "live")
  BY <1>4 DEF EnteredFrames
<1>6. Entered = [NewContext EXCEPT !.entry_check_count = @ + 1]
  BY <1>4 DEF Entered
<1>7. /\ Entered.live /\ Entered.entry_check_count = 1 /\ Entered.exc_used = 0
      /\ Entered.exc_jmp_stack = << Jmp(0, Block("bottom")) >> /\ Root(Entered) = Fr
      /\ Entered.try_jmp_stack = << >> /\ Entered.scope_jmp_stack = << >>
  BY <1>6, NewContextFacts
<1>8. /\ Repointed(frames, EnteredFrames, Fr)
      /\ EnteredFrames[Fr].skit_thread_ctx = "live"
      /\ \A f \in 1 .. Fr - 1 : EnteredFrames[f].skit_thread_ctx = "null"
  <2>1. \A f \in 1 .. Fr - 1 : f \in 1 .. Fr
    BY <1>1
  <2> QED
    BY <1>1, <1>3, <1>5, <2>1, PointToFacts
<1>9. PointersFit(EnteredFrames, Fr, blocks, TRUE, Fr)
  <2>1. \A f \in 1 .. Fr : EnteredFrames[f].guards_used = frames[f].guards_used
    BY <1>8 DEF Repointed
  <2>2. \A f \in 1 .. Fr - 1 : EnteredFrames[f].skit_thread_ctx = frames[f].skit_thread_ctx
    BY <1>1, <1>3, <1>8
  <2> QED
    BY <1>1, <1>2, <1>8, <2>1, <2>2, PointersMade
<1>10. /\ Nested(blocks, Fr) /\ ScopesFit(EnteredFrames, Fr, blocks, p)
       /\ SameScans(frames, EnteredFrames, Fr)
  BY <1>1, <1>8, RepointedFacts
<1>11. Stacks(blocks, Entered, p)
  BY <1>3, <1>7, StacksMade
<1>12. ThrowsFit(EnteredFrames, blocks, Entered.exc_nodes)
  BY <1>3 DEF ThrowsFit
<1>13. Propagates(p) = 0 /\ p \in {"run", "break"} /\ Unwinds(p) = 0
  BY <1>2 DEF Propagates, Counted, Unwinds, Unwound
<1>14. /\ Checked(blocks) = 0
       /\ Rank(frames, Throws, Fr) = 0 /\ Rank(EnteredFrames, Throws, Fr) = 0
       /\ Rank(frames, Targets, Fr) = 0 /\ Rank(EnteredFrames, Targets, Fr) = 0
  BY <1>1, <1>2, <1>3, <1>10, NeedNone
<1>15. Counted(EnteredFrames, Fr, blocks, Entered, p, 1)
  BY <1>7, <1>13, <1>14 DEF Counted, ChecksFit, UsedFits, Need, Owed
<1>16. ctx.exc_used = 0
  BY <1>2, <1>13, <1>14 DEF Counted, UsedFits
<1>17. EnteredFits(p)
  BY <1>7, <1>9, <1>10, <1>11, <1>12, <1>15 DEF EnteredFits, Core, StacksFit
<1>18. Entered \in Contexts
  BY EnteredType DEF FramesOK
<1> QED
  BY <1>7, <1>8, <1>16, <1>17, <1>18 DEF EnteredAlike

LEMMA Enter ==
  ASSUME FramesOK(frames), blocks \in Seq(Blocks), ctx \in Contexts,
         NEW p \in {"run", "break", "leaving"}, Core(frames, Fr, blocks, ctx, p, 0)
  PROVE  EnteredFits(p) /\ EnteredAlike
<1>1. ctx.live \in BOOLEAN
  BY DEF Contexts
<1> QED
  BY <1>1, EnterLive, EnterMakes

(* SKIT_THREAD_CHECK_EXIT pays the check of the construct just left.       *)
LeftFits(fs, n, bs, c, p) ==
  /\ Core(LeftFrames(fs, c), n, bs, Left(c), p, 0)
  /\ Repointed(fs, LeftFrames(fs, c), n) /\ Left(c).exc_used = c.exc_used

(* The last construct of all is left: the context goes with it.            *)
LEMMA LeaveLast ==
  ASSUME NEW fs, fs \in Seq(Frames), NEW n \in Nat \ {0}, n = Len(fs), NEW bs \in Seq(Blocks),
         NEW c \in Contexts, NEW p \in {"run", "break"}, Core(fs, n, bs, c, p, 1), c.live,
         Len(bs) = 0 => n = Root(c), c.entry_check_count = 1
  PROVE  LeftFits(fs, n, bs, c, p)
<1>1. /\ PointersFit(fs, n, bs, TRUE, Root(c)) /\ Nested(bs, n)
      /\ ScopesFit(fs, n, bs, p) /\ Counted(fs, n, bs, c, p, 1)
  BY DEF Core, Contexts
<1>2. Need(fs, n, bs, p) = 0
  <2>1. Need(fs, n, bs, p) \in Nat
    BY <1>1, NeedSome
  <2> QED
    BY <1>1, <2>1 DEF Counted, ChecksFit
<1>3. Len(bs) = 0 /\ bs = << >>
  BY <1>1, <1>2, NeedSome
<1>4. Left(c) = NoContext /\ LeftFrames(fs, c) = PointTo(fs, "null")
  BY DEF Left, LeftFrames
<1> DEFINE gs == PointTo(fs, "null")
           d == NoContext
<1>5. /\ d.live = FALSE /\ d.exc_used = 0 /\ d.try_jmp_stack = << >> /\ d.scope_jmp_stack = << >>
  BY DEF NoContext, NewContext
<1>6. /\ Repointed(fs, gs, n) /\ gs[n].skit_thread_ctx = "null"
      /\ \A f \in 1 .. n - 1 : fs[f].skit_thread_ctx = "null" => gs[f].skit_thread_ctx = "null"
  BY PointToFacts
<1> HIDE DEF d, gs
<1>7. PointersFit(gs, n, bs, FALSE, Root(d))
  <2>1. \A f \in 1 .. n : gs[f].guards_used = fs[f].guards_used
    BY <1>6 DEF Repointed
  <2>2. PointersFit(fs, n, bs, TRUE, n)
    BY <1>1, <1>3
  <2> QED
    BY <1>3, <1>6, <2>1, <2>2, PointersFreed
<1>8. /\ Nested(bs, n) /\ ScopesFit(gs, n, bs, p) /\ SameScans(fs, gs, n)
  BY <1>6, RepointedFacts
<1>9. StacksFit(bs, d, p)
  BY <1>3, <1>5 DEF StacksFit, Empty
<1>10. ThrowsFit(gs, bs, d.exc_nodes)
  BY <1>3 DEF ThrowsFit
<1>11. Propagates(p) = 0 /\ Unwinds(p) = 0 /\ p # "land"
  BY DEF Propagates, Unwinds, Unwound
<1>12. /\ Checked(bs) = 0
       /\ Rank(gs, Throws, n) = 0 /\ Rank(gs, Targets, n) = 0 /\ Rank(fs, Targets, n) = 0
  BY <1>1, <1>3, <1>8, NeedNone
<1>13. Counted(gs, n, bs, d, p, 0)
  BY <1>5, <1>11, <1>12 DEF Counted, ChecksFit, UsedFits, Need, Owed
<1>14. c.exc_used = 0
  BY <1>1, <1>11, <1>12 DEF Counted, UsedFits
<1>15. Core(gs, n, bs, d, p, 0)
  BY <1>5, <1>7, <1>8, <1>9, <1>10, <1>13 DEF Core
<1> QED
  BY <1>4, <1>5, <1>6, <1>14, <1>15 DEF LeftFits, gs, d

LEMMA LeaveOne ==
  ASSUME NEW fs, fs \in Seq(Frames), NEW n \in Nat \ {0}, n = Len(fs), NEW bs \in Seq(Blocks),
         NEW c \in Contexts, NEW p \in {"run", "break"}, Core(fs, n, bs, c, p, 1), c.live,
         c.entry_check_count # 1
  PROVE  LeftFits(fs, n, bs, c, p)
<1>1. /\ Nested(bs, n) /\ Counted(fs, n, bs, c, p, 1)
  BY DEF Core
<1>2. c.entry_check_count \in Int
  BY DEF Contexts
<1>3. Need(fs, n, bs, p) + 0 > 0
  <2>1. Need(fs, n, bs, p) \in Nat
    BY <1>1, NeedSome
  <2> QED
    BY <1>1, <2>1 DEF Counted, ChecksFit
<1>4. /\ LeftFrames(fs, c) = fs
      /\ Left(c) = [c EXCEPT !.entry_check_count = c.entry_check_count - 1]
  BY DEF Left, LeftFrames
<1>5. c.entry_check_count - 1 \in Int
  BY <1>2
<1>6. Left(c) \in Contexts /\ Left(c).entry_check_count = c.entry_check_count - 1
      /\ SameBut(c, Left(c))
  BY <1>4, <1>5, CountIs
<1>7. Left(c).entry_check_count + 1 = c.entry_check_count + 0
  BY <1>2, <1>6
<1>8. Core(fs, n, bs, Left(c), p, 0)
  BY <1>3, <1>6, <1>7, CoreCounts
<1> QED
  BY <1>4, <1>6, <1>8 DEF LeftFits, SameBut, Repointed

LEMMA Leave ==
  ASSUME NEW fs, fs \in Seq(Frames), NEW n \in Nat \ {0}, n = Len(fs), NEW bs \in Seq(Blocks),
         NEW c \in Contexts, NEW p \in {"run", "break"}, Core(fs, n, bs, c, p, 1), c.live,
         Len(bs) = 0 => n = Root(c)
  PROVE  LeftFits(fs, n, bs, c, p)
  BY LeaveLast, LeaveOne

-----------------------------------------------------------------------------
(* A scan of scope guards begins.                                          *)

(* The scope of function n is the innermost construct, its only one.       *)
ScopeTop(bs, n) ==
  /\ Len(bs) > 0 /\ bs[Len(bs)].kind = "scope" /\ bs[Len(bs)].fr = n
  /\ \A i \in 1 .. Len(bs) - 1 : bs[i].fr \in 1 .. n - 1

LEMMA InnermostOwn ==
  ASSUME NEW bs \in Seq(Blocks), NEW n \in Nat, Nested(bs, n), Owns(bs, n)
  PROVE  Len(bs) > 0 /\ bs[Len(bs)].fr = n
<1>1. PICK i \in 1 .. Len(bs) : bs[i].fr = n
  BY DEF Owns
<1>2. Len(bs) \in 1 .. Len(bs) /\ (i < Len(bs) \/ i = Len(bs))
  OBVIOUS
<1>3. bs[Len(bs)].fr \in 1 .. n /\ bs[i].fr <= bs[Len(bs)].fr
  BY <1>1, <1>2 DEF Nested
<1> QED
  BY <1>1, <1>2, <1>3

LEMMA OnlyScope ==
  ASSUME NEW bs \in Seq(Blocks), NEW n \in Nat, Nested(bs, n), Len(bs) > 0,
         bs[Len(bs)].kind = "scope", bs[Len(bs)].fr = n
  PROVE  ScopeTop(bs, n)
<1>1. \A i \in 1 .. Len(bs) - 1 : bs[i].fr < n
  BY NoGuardUnderScope
<1>2. \A i \in 1 .. Len(bs) - 1 : i \in 1 .. Len(bs)
  OBVIOUS
<1>3. \A i \in 1 .. Len(bs) - 1 : bs[i].fr \in 1 .. n
  BY <1>2 DEF Nested
<1>4. \A i \in 1 .. Len(bs) - 1 : bs[i].fr \in 1 .. n - 1
  BY <1>1, <1>3
<1> QED
  BY <1>4 DEF ScopeTop

(* A function with guards and outside its sTRYs is in its scope, if not in *)
(* an sTRACE or one of the guards.                                         *)
LEMMA ScopeOnTop ==
  ASSUME NEW bs \in Seq(Blocks), NEW n \in Nat \ {0}, Nested(bs, n), NEW fs, NEW p, Plain(p),
         ScopesFit(fs, n, bs, p), fs[n].guards_used, fs[n].nesting_level = 0,
         Len(bs) > 0 /\ bs[Len(bs)].fr = n => bs[Len(bs)].kind \notin {"trace", "guard"}
  PROVE  ScopeTop(bs, n)
<1>1. ScopeOpen(bs, n) /\ TriesOf(bs, n) = 0
  <2>1. FrameFits(fs, n, bs, p, n)
    BY DEF ScopesFit
  <2>2. p \notin Leaves
    BY PlainPlaces
  <2> QED
    BY <2>1, <2>2 DEF FrameFits
<1>2. Owns(bs, n)
  BY <1>1 DEF ScopeOpen, Owns
<1>3. Len(bs) > 0 /\ bs[Len(bs)].fr = n
  BY <1>2, InnermostOwn
<1>4. \A i \in 1 .. Len(bs) : ~ (bs[i].kind = "try" /\ bs[i].fr = n)
  <2> DEFINE A == {i \in 1 .. Len(bs) : bs[i].kind = "try" /\ bs[i].fr = n}
  <2>1. Len(bs) \in Nat /\ A \subseteq 1 .. Len(bs)
    OBVIOUS
  <2>2. Cardinality(A) = 0
    BY <1>1 DEF TriesOf
  <2> HIDE DEF A
  <2>3. A = {}
    BY <2>1, <2>2, CountNone
  <2> QED
    BY <2>3 DEF A
<1>5. bs[Len(bs)].kind = "scope"
  <2>1. bs[Len(bs)] \in Blocks /\ Len(bs) \in 1 .. Len(bs)
    BY <1>3
  <2>2. bs[Len(bs)].kind \in Kinds
    BY <2>1 DEF Blocks
  <2>3. bs[Len(bs)].kind \notin {"bottom", "try"}
    BY <1>3, <1>4, <2>1 DEF Nested
  <2>4. bs[Len(bs)].kind # "catch"
    <3> SUFFICES ASSUME bs[Len(bs)].kind = "catch"
                 PROVE  FALSE
      OBVIOUS
    <3>1. Len(bs) > 1 /\ bs[Len(bs) - 1].kind = "try" /\ bs[Len(bs) - 1].fr = n
      BY <1>3, <2>1 DEF Nested
    <3>2. Len(bs) - 1 \in 1 .. Len(bs)
      BY <3>1
    <3> QED
      BY <1>4, <3>1, <3>2
  <2> QED
    BY <1>3, <2>2, <2>3, <2>4 DEF Kinds
<1> QED
  BY <1>3, <1>5, OnlyScope

(* No scan is under way in a function that may begin one.                  *)
LEMMA NotScanning ==
  ASSUME NEW bs \in Seq(Blocks), NEW n \in Nat \ {0}, ScopeTop(bs, n), NEW fs, NEW p, Plain(p),
         ScopesFit(fs, n, bs, p)
  PROVE  fs[n].scope_fn_exit = "none"
<1>1. FrameFits(fs, n, bs, p, n) /\ p \notin Visits
  BY PlainPlaces DEF ScopesFit
<1>2. ~ GuardRuns(bs, n)
  <2> SUFFICES ASSUME NEW i \in 1 .. Len(bs), bs[i].kind = "guard", bs[i].fr = n
               PROVE  FALSE
    BY DEF GuardRuns
  <2>1. i \in 1 .. Len(bs) - 1
    BY DEF ScopeTop
  <2> QED
    BY <2>1 DEF ScopeTop
<1> QED
  BY <1>1, <1>2 DEF FrameFits

(* gs is fs when the scan for target is on in the innermost function.      *)
Scanned(fs, gs, n, target) ==
  /\ \A f \in 1 .. n : SamePointer(fs[f], gs[f]) /\ gs[f].nesting_level = fs[f].nesting_level
  /\ \A f \in 1 .. n - 1 : gs[f].scope_fn_exit = fs[f].scope_fn_exit
  /\ gs[n].scope_fn_exit = target

LEMMA ScanningFacts ==
  ASSUME NEW fs, fs \in Seq(Frames), NEW n \in Nat \ {0}, n = Len(fs), NEW status, NEW target
  PROVE  /\ Scans(fs) <=> fs[n].nesting_level = 0 /\ fs[n].guards_used
         /\ Scans(fs) => Scanned(fs, Scanning(fs, status, target), n, target)
         /\ ~ Scans(fs) => Scanning(fs, status, target) = fs
<1>1. Last(fs) = fs[n]
  BY DEF Last
<1>2. Scans(fs) <=> fs[n].nesting_level = 0 /\ fs[n].guards_used
  BY <1>1 DEF Scans
<1>3. ASSUME Scans(fs)
      PROVE  Scanned(fs, Scanning(fs, status, target), n, target)
  <2> DEFINE g == [fs[n] EXCEPT !.exit_status = status, !.scope_fn_exit = target]
  <2>1. n \in DOMAIN fs /\ fs[n] \in Frames
    OBVIOUS
  <2>2. Scanning(fs, status, target) = [fs EXCEPT ![n] = g]
    BY <1>3, <2>1 DEF Scanning
  <2>3. /\ SamePointer(fs[n], g) /\ g.nesting_level = fs[n].nesting_level
        /\ g.scope_fn_exit = target
    BY <2>1 DEF Frames, SamePointer
  <2> HIDE DEF g
  <2>4. /\ [fs EXCEPT ![n] = g][n] = g
        /\ \A f \in 1 .. n : f # n => [fs EXCEPT ![n] = g][f] = fs[f]
    BY <2>1
  <2>5. \A f : SamePointer(fs[f], fs[f])
    BY DEF SamePointer
  <2>6. \A f \in 1 .. n - 1 : f \in 1 .. n /\ f # n
    OBVIOUS
  <2> QED
    BY <2>2, <2>3, <2>4, <2>5, <2>6 DEF Scanned
<1>4. ~ Scans(fs) => Scanning(fs, status, target) = fs
  BY DEF Scanning
<1> QED
  BY <1>2, <1>3, <1>4

RanksOneMore(fs, gs, n, T) ==
  /\ Rank(fs, T, n) \in Nat
  /\ gs[n].scope_fn_exit \in T => Rank(gs, T, n) = Rank(fs, T, n) + 1
  /\ gs[n].scope_fn_exit \notin T => Rank(gs, T, n) = Rank(fs, T, n)

LEMMA ScanRank ==
  ASSUME NEW fs, NEW gs, NEW n \in Nat \ {0}, NEW T, "none" \notin T,
         fs[n].scope_fn_exit = "none",
         \A f \in 1 .. n - 1 : gs[f].scope_fn_exit = fs[f].scope_fn_exit
  PROVE  RanksOneMore(fs, gs, n, T)
<1>1. n - 1 \in Nat /\ n \in Nat
  OBVIOUS
<1>2. Rank(fs, T, n - 1) = Rank(gs, T, n - 1)
  BY <1>1, RankAgrees
<1>3. /\ Rank(fs, T, n - 1) \in Nat
      /\ Rank(fs, T, n) = Rank(fs, T, n - 1) + 0
  BY RankStep
<1>4. Rank(gs, T, n) = Rank(gs, T, n - 1) + IF gs[n].scope_fn_exit \in T THEN 1 ELSE 0
  BY RankStep
<1> QED
  BY <1>2, <1>3, <1>4 DEF RanksOneMore

(* What the scan's target adds: a throw waits until the guards have run,   *)
(* with its exception; a return does not.                                  *)
WaitsOf(target) == IF target \in Throws THEN 1 ELSE 0
ThrownOf(target) == IF target \in Targets THEN 1 ELSE 0

LEMMA CoreScan ==
  ASSUME NEW fs, NEW gs, NEW n \in Nat \ {0}, NEW bs \in Seq(Blocks), NEW c \in Contexts,
         NEW p, Plain(p), NEW k \in Int, Core(fs, n, bs, c, p, k), c.live, ScopeTop(bs, n),
         NEW target, target # "none", Scanned(fs, gs, n, target), k = WaitsOf(target),
         Unwinds(p) = ThrownOf(target),
         target \in Targets => Clear(c.exc_nodes[c.exc_used].code, bs, Len(bs))
  PROVE  Core(gs, n, bs, c, "visit", 0)
<1>1. /\ Nested(bs, n) /\ Stacks(bs, c, p) /\ ScopesFit(fs, n, bs, p)
      /\ PointersFit(fs, n, bs, c.live, Root(c)) /\ Counted(fs, n, bs, c, p, k)
      /\ ThrowsFit(fs, bs, c.exc_nodes)
  BY DEF Core, StacksFit
<1>2. /\ p \notin Visits /\ p # "visited" /\ Propagates(p) = 0
      /\ "visit" # "visited" /\ Propagates("visit") = 0 /\ Unwinds("visit") = 0
  BY PlainPlaces DEF Propagates, Unwinds, Unwound
<1>3. SameStacks(c, c)
  BY DEF SameStacks
<1>4. StacksFit(bs, c, "visit")
  BY <1>1, <1>2, <1>3, StacksStay DEF StacksFit
<1>5. \A i \in 1 .. Len(bs) : bs[i].fr \in 1 .. n
  BY <1>1 DEF Nested
<1>6. fs[n].scope_fn_exit = "none" /\ gs[n].scope_fn_exit = target
  BY <1>1, NotScanning DEF Scanned
<1>7. /\ \A f \in 1 .. n : gs[f].nesting_level = fs[f].nesting_level
                           /\ gs[f].guards_used = fs[f].guards_used
      /\ \A f \in 1 .. n - 1 : gs[f].scope_fn_exit = fs[f].scope_fn_exit
      /\ \A f \in 1 .. n : gs[f].skit_thread_ctx = fs[f].skit_thread_ctx
  BY DEF Scanned, SamePointer
<1>8. ScopesFit(gs, n, bs, "visit")
  <2>1. Len(bs) \in Nat /\ Len(bs) > 0 /\ bs[Len(bs)].kind = "scope" /\ bs[Len(bs)].fr = n
    BY DEF ScopeTop
  <2> QED
    BY <1>1, <1>2, <1>5, <1>6, <1>7, <2>1, ScopesScan
<1>9. PointersFit(gs, n, bs, c.live, Root(c))
  BY <1>1, <1>7 DEF PointersFit, PointerFits
<1>10. /\ Rank(fs, Throws, n) \in Nat /\ Rank(gs, Throws, n) = Rank(fs, Throws, n) + WaitsOf(target)
       /\ Rank(fs, Targets, n) \in Nat
       /\ Rank(gs, Targets, n) = Rank(fs, Targets, n) + ThrownOf(target)
  <2>1. "none" \notin Throws /\ "none" \notin Targets
    BY DEF Throws, Targets
  <2>2. RanksOneMore(fs, gs, n, Throws) /\ RanksOneMore(fs, gs, n, Targets)
    BY <1>6, <1>7, <2>1, ScanRank
  <2>4. Rank(gs, Throws, n) = Rank(fs, Throws, n) + WaitsOf(target)
    BY <1>6, <2>2 DEF WaitsOf, RanksOneMore
  <2>5. Rank(gs, Targets, n) = Rank(fs, Targets, n) + ThrownOf(target)
    BY <1>6, <2>2 DEF ThrownOf, RanksOneMore
  <2> QED
    BY <2>2, <2>4, <2>5 DEF RanksOneMore
<1>11. c.exc_used = Rank(gs, Targets, n)
  BY <1>1, <1>10 DEF Counted, UsedFits
<1>12. Counted(gs, n, bs, c, "visit", 0)
  <2>1. Owed(bs, p) = Owed(bs, "visit") /\ Owed(bs, "visit") \in Nat
    BY <1>2, OwedType DEF Owed
  <2>2. k \in {0, 1} /\ c.entry_check_count = Owed(bs, p) + Rank(fs, Throws, n) + k
    BY <1>1 DEF Counted, ChecksFit, Need, WaitsOf
  <2>3. c.entry_check_count = Owed(bs, "visit") + Rank(gs, Throws, n) + 0
    BY <1>10, <2>1, <2>2
  <2>4. Need(gs, n, bs, "visit") + 0 > 0
    <3>1. Len(bs) > 0
      BY DEF ScopeTop
    <3>2. Need(gs, n, bs, "visit") \in Nat /\ Need(gs, n, bs, "visit") > 0
      BY <1>1, <3>1, NeedSome
    <3> QED
      BY <3>2
  <2>5. ChecksFit(gs, n, bs, c, "visit", 0)
    BY <2>3 DEF ChecksFit, Need
  <2>6. UsedFits(gs, n, c, "visit")
    BY <1>2, <1>10, <1>11 DEF UsedFits, ThrownOf
  <2> QED
    BY <2>4, <2>5, <2>6 DEF Counted
<1>13. ThrowsFit(gs, bs, c.exc_nodes)
  <2>1. CASE target \in Targets
    <3> DEFINE cs == Front(bs)
               b == Last(bs)
    <3>1. bs # << >>
      BY DEF ScopeTop
    <3>2. bs = Append(cs, b) /\ Len(cs) = Len(bs) - 1 /\ cs \in Seq(Blocks) /\ b \in Blocks
          /\ b = bs[Len(bs)]
      BY <3>1, FrontLast
    <3>3. Grows(cs, b, bs)
      BY <3>2, AppendGrows
    <3> HIDE DEF cs, b
    <3>4. b.kind = "scope" /\ b.fr = n
      BY <3>2 DEF ScopeTop
    <3>5. \A i \in 1 .. Len(cs) : cs[i].fr \in 1 .. n - 1
      BY <3>2, <3>3 DEF ScopeTop, Grows
    <3>6. Clear(c.exc_nodes[Rank(gs, Targets, n)].code, bs, Len(bs))
      BY <1>11, <2>1
    <3> QED
      BY <1>1, <1>7, <3>3, <3>4, <3>5, <3>6, ThrowsScan
  <2>2. CASE target \notin Targets
    <3>1. \A f \in 1 .. n : f # n => f \in 1 .. n - 1
      OBVIOUS
    <3>2. \A f \in 1 .. n : gs[f].scope_fn_exit \in Targets <=> fs[f].scope_fn_exit \in Targets
      BY <1>6, <1>7, <2>2, <3>1 DEF Targets
    <3> QED
      BY <1>1, <1>5, <3>2, ThrowsStay
  <2> QED
    BY <2>1, <2>2
<1> QED
  BY <1>1, <1>4, <1>8, <1>9, <1>12, <1>13 DEF Core

-----------------------------------------------------------------------------
(* From place p to place q, functions and constructs staying as they are.  *)
LEMMA CoreMoves ==
  ASSUME NEW fs, NEW n \in Nat \ {0}, NEW bs \in Seq(Blocks), NEW c \in Contexts,
         NEW d \in Contexts, NEW p, NEW q, NEW k \in Int, NEW l \in Int, Core(fs, n, bs, c, p, k),
         c.live, d.live = c.live, SameStacks(c, d), Root(d) = Root(c),
         p \notin Visits, q \notin Visits, p \in Leaves => q \in Leaves,
         ThrowsFit(fs, bs, d.exc_nodes),
         d.entry_check_count + Propagates(p) + k = c.entry_check_count + Propagates(q) + l,
         d.exc_used + Unwinds(p) = c.exc_used + Unwinds(q),
         Need(fs, n, bs, q) + l > 0 \/ q = "land"
  PROVE  Core(fs, n, bs, d, q, l)
<1>1. /\ Nested(bs, n) /\ Stacks(bs, c, p) /\ ScopesFit(fs, n, bs, p)
      /\ PointersFit(fs, n, bs, c.live, Root(c)) /\ Counted(fs, n, bs, c, p, k)
  BY DEF Core, StacksFit
<1>2. p # "visited" /\ q # "visited"
  BY DEF Visits
<1>3. StacksFit(bs, d, q)
  BY <1>1, <1>2, StacksStay DEF StacksFit
<1>4. ScopesFit(fs, n, bs, q)
  BY <1>1, ScopesStay
<1>5. ChecksFit(fs, n, bs, d, q, l)
  <2>1. /\ ChecksFit(fs, n, bs, c, p, k) /\ SameScans(fs, fs, n) /\ Len(bs) \in Nat
    BY <1>1 DEF Counted, SameScans
  <2>2. c.entry_check_count \in Int /\ d.entry_check_count \in Int
    BY DEF Contexts
  <2>3. Propagates(p) \in Int /\ Propagates(q) \in Int
    BY PlaceTypes
  <2> DEFINE x == Propagates(q) + l - Propagates(p) - k
  <2>4. x \in Int
    BY <2>3
  <2>5. d.entry_check_count = c.entry_check_count + x
    BY ONLY <2>2, <2>3, k \in Int, l \in Int,
       d.entry_check_count + Propagates(p) + k = c.entry_check_count + Propagates(q) + l
  <2>6. Owed(bs, q) + l = Owed(bs, p) + k + x
    <3>1. Checked(bs) \in Nat
      BY <2>1, CheckedSome
    <3> QED
      BY <2>3, <3>1 DEF Owed
  <2> HIDE DEF x
  <2> QED
    BY <2>1, <2>4, <2>5, <2>6, ChecksMove
<1>6. UsedFits(fs, n, d, q)
  <2>1. UsedFits(fs, n, c, p) /\ SameScans(fs, fs, n)
    BY <1>1 DEF Counted, SameScans
  <2>2. d.exc_used \in Int
    BY BoundsAssumption DEF Contexts
  <2> QED
    BY <2>1, <2>2, UsedMoves
<1>7. Counted(fs, n, bs, d, q, l)
  BY <1>5, <1>6 DEF Counted
<1> QED
  BY <1>1, <1>3, <1>4, <1>7 DEF Core

LEMMA NeedFits ==
  ASSUME NEW fs, NEW n \in Nat \ {0}, NEW bs \in Seq(Blocks), NEW c, NEW p, NEW q, NEW k,
         Core(fs, n, bs, c, p, k)
  PROVE  /\ Need(fs, n, bs, q) \in Nat
         /\ Len(bs) > 0 \/ q = "propagate" => Need(fs, n, bs, q) > 0
<1>1. Nested(bs, n) /\ n \in Nat
  BY DEF Core
<1> QED
  BY <1>1, NeedSome

LEMMA SameItself ==
  ASSUME NEW c
  PROVE  SameStacks(c, c) /\ SameBut(c, c)
  BY DEF SameStacks, SameBut

(* The entry check of the function that is left becomes the propagation's. *)
LEMMA ToPropagate ==
  ASSUME NEW fs, NEW n \in Nat \ {0}, NEW bs \in Seq(Blocks), NEW c \in Contexts,
         NEW p \in {"land", "leaving"}, Core(fs, n, bs, c, p, 1)
  PROVE  Core(fs, n, bs, c, "propagate", 0)
<1>1. c.live /\ ThrowsFit(fs, bs, c.exc_nodes)
  BY DEF Core, Counted
<1>2. /\ Propagates(p) = 0 /\ Propagates("propagate") = 1
      /\ Unwinds(p) = 1 /\ Unwinds("propagate") = 1
      /\ p \notin Visits /\ "propagate" \notin Visits /\ "propagate" \in Leaves
  BY DEF Propagates, Unwinds, Unwound, Visits, Leaves
<1>3. c.entry_check_count \in Int /\ c.exc_used \in Int
  BY BoundsAssumption DEF Contexts
<1>4. /\ c.entry_check_count + Propagates(p) + 1 = c.entry_check_count + Propagates("propagate") + 0
      /\ c.exc_used + Unwinds(p) = c.exc_used + Unwinds("propagate")
  BY <1>2, <1>3
<1>5. Need(fs, n, bs, "propagate") + 0 > 0
  BY NeedFits
<1> QED
  BY <1>1, <1>2, <1>4, <1>5, SameItself, CoreMoves

(* An exception is pushed.                                                 *)
LEMMA Push ==
  ASSUME NEW fs, NEW n \in Nat \ {0}, NEW bs \in Seq(Blocks), NEW c \in Contexts,
         c.exc_used < MaxExceptions, NEW e \in Exceptions,
         Core(fs, n, bs, c, "run", 1), c.live
  PROVE  /\ Core(fs, n, bs, Pushed(c, e), "land", 1)
         /\ Pushed(c, e) \in Contexts /\ Pushed(c, e).live
         /\ Pushed(c, e).exc_nodes[Pushed(c, e).exc_used] = e
<1> DEFINE d == Pushed(c, e)
<1>1. d \in Contexts
  BY PushedType
<1>2. c.exc_used + 1 \in 1 .. MaxExceptions
  BY BoundsAssumption DEF Contexts
<1>3. /\ SameStacks(c, d) /\ Root(d) = Root(c) /\ d.live = c.live
      /\ d.entry_check_count = c.entry_check_count /\ d.exc_used = c.exc_used + 1
      /\ d.exc_nodes = [c.exc_nodes EXCEPT ![c.exc_used + 1] = e]
  BY DEF Pushed, Contexts, SameStacks, Root
<1> HIDE DEF d
<1>4. /\ d.exc_nodes[c.exc_used + 1] = e
      /\ \A j \in 1 .. c.exc_used : d.exc_nodes[j] = c.exc_nodes[j]
  <2>1. c.exc_nodes \in [1 .. MaxExceptions -> Exceptions] /\ c.exc_used \in Nat
    BY BoundsAssumption DEF Contexts
  <2>2. \A j \in 1 .. c.exc_used : j \in 1 .. MaxExceptions /\ j # c.exc_used + 1
    BY <1>2, <2>1, BoundsAssumption
  <2> QED
    BY <1>2, <1>3, <2>1, <2>2
<1>5. /\ Propagates("run") = 0 /\ Propagates("land") = 0
      /\ Unwinds("run") = 0 /\ Unwinds("land") = 1
      /\ "run" \notin Visits /\ "land" \notin Visits /\ "run" \notin Leaves
  BY DEF Propagates, Unwinds, Unwound, Visits, Leaves
<1>6. /\ Nested(bs, n) /\ ThrowsFit(fs, bs, c.exc_nodes) /\ UsedFits(fs, n, c, "run")
  BY DEF Core, Counted
<1>7. Rank(fs, Targets, n) = c.exc_used
  <2>1. Rank(fs, Targets, n) \in Nat
    BY RankType
  <2> QED
    BY <1>5, <1>6, <2>1 DEF UsedFits
<1>8. ThrowsFit(fs, bs, d.exc_nodes)
  <2>1. \A i \in 1 .. Len(bs) : bs[i].fr \in 1 .. n
    BY <1>6 DEF Nested
  <2> QED
    BY <1>4, <1>6, <1>7, <2>1, ThrowsNodes
<1>9. /\ d.entry_check_count + Propagates("run") + 1 = c.entry_check_count + Propagates("land") + 1
      /\ d.exc_used + Unwinds("run") = c.exc_used + Unwinds("land")
  <2>1. c.entry_check_count \in Int /\ c.exc_used \in Int
    BY BoundsAssumption DEF Contexts
  <2> QED
    BY <1>3, <1>5, <2>1
<1>10. Core(fs, n, bs, d, "land", 1)
  <2> DEFINE k == 1
             p == "run"
             q == "land"
  <2>1. /\ Core(fs, n, bs, c, p, k) /\ k \in Int /\ d.live = c.live /\ SameStacks(c, d)
        /\ Root(d) = Root(c) /\ p \notin Visits /\ q \notin Visits /\ p \notin Leaves
        /\ d.entry_check_count + Propagates(p) + k = c.entry_check_count + Propagates(q) + k
        /\ d.exc_used + Unwinds(p) = c.exc_used + Unwinds(q) /\ q = "land"
    BY <1>3, <1>5, <1>9
  <2> HIDE DEF k, p, q
  <2>2. Core(fs, n, bs, d, q, k)
    BY <1>1, <1>8, <2>1, CoreMoves
  <2> QED
    BY <2>2 DEF k, p, q
<1> QED
  BY <1>1, <1>3, <1>4, <1>10 DEF d

(* Core, and an exception on its way is one that no running guard lets out. *)
Consistent(fs, n, bs, c, p) == Core(fs, n, bs, c, p, 0) /\ ThrownClear(bs, c, p)

(* SKIT__PROPOGATE_THROWN_EXCEPTIONS: outside an sTRY, the guards first.   *)
LEMMA PropagateFits ==
  ASSUME NEW fs, fs \in Seq(Frames), NEW n \in Nat \ {0}, n = Len(fs), NEW bs \in Seq(Blocks),
         NEW c \in Contexts, Core(fs, n, bs, c, "land", 1),
         Clear(c.exc_nodes[c.exc_used].code, bs, Len(bs)),
         fs[n].guards_used /\ Len(bs) > 0 /\ bs[Len(bs)].fr = n =>
           bs[Len(bs)].kind \notin {"trace", "guard"}
  PROVE  Consistent(Scanning(fs, "failure", "throw"), n, bs, c,
                      IF Scans(fs) THEN "visit" ELSE "propagate")
<1>1. CASE Scans(fs)
  <2> DEFINE gs == Scanning(fs, "failure", "throw")
  <2>1. fs[n].nesting_level = 0 /\ fs[n].guards_used /\ Scanned(fs, gs, n, "throw")
    BY <1>1, ScanningFacts
  <2>2. Nested(bs, n) /\ ScopesFit(fs, n, bs, "land") /\ c.live /\ Plain("land")
    BY DEF Core, Counted, Plain
  <2>3. ScopeTop(bs, n)
    BY <2>1, <2>2, ScopeOnTop
  <2>4. "throw" # "none" /\ WaitsOf("throw") = 1 /\ Unwinds("land") = ThrownOf("throw")
    BY DEF WaitsOf, ThrownOf, Throws, Targets, Unwinds, Unwound
  <2> HIDE DEF gs
  <2>5. Core(gs, n, bs, c, "visit", 0)
    BY <2>1, <2>2, <2>3, <2>4, CoreScan
  <2> QED
    BY <1>1, <2>5 DEF gs, Consistent, ThrownClear, Unwound
<1>2. CASE ~ Scans(fs)
  <2>1. Scanning(fs, "failure", "throw") = fs
    BY <1>2, ScanningFacts
  <2>2. Core(fs, n, bs, c, "propagate", 0)
    BY ToPropagate
  <2> QED
    BY <1>2, <2>1, <2>2 DEF Consistent, ThrownClear
<1> QED
  BY <1>1, <1>2

-----------------------------------------------------------------------------
(* The ends of the constructs, by running off them or by a throw.          *)
Popped(fs, n, bs, d, p, k) ==
  /\ Core(fs, n, bs, d, p, k) /\ (Len(bs) = 0 => n = Root(d))
  /\ d \in Contexts /\ d.live

SameExceptions(c, d) == d.exc_nodes = c.exc_nodes /\ d.exc_used = c.exc_used

LEMMA RootStays ==
  ASSUME NEW bs \in Seq(Blocks), NEW b \in Blocks, NEW c \in Contexts, NEW d,
         Mirrors(Append(bs, b), c.exc_jmp_stack),
         d.exc_jmp_stack = Front(c.exc_jmp_stack)
  PROVE  Root(d) = Root(c)
  BY PopJump DEF Root

LEMMA ReconciledSame ==
  ASSUME NEW d \in Contexts, NEW pos, Position(d) = pos
  PROVE  Reconciled(d, pos) = d /\ ~ PoppedTooFar(d, pos)
<1>1. /\ pos.try = Len(d.try_jmp_stack) /\ pos.exc = Len(d.exc_jmp_stack)
      /\ pos.scope = Len(d.scope_jmp_stack) /\ pos.debug = d.debug_depth
  BY DEF Position
<1>2. /\ Len(d.try_jmp_stack) \in Nat /\ Len(d.exc_jmp_stack) \in Nat
      /\ Len(d.scope_jmp_stack) \in Nat /\ d.debug_depth \in Int
  BY ContextTypes
<1>3. /\ Trimmed(d.try_jmp_stack, pos.try) = d.try_jmp_stack
      /\ Trimmed(d.exc_jmp_stack, pos.exc) = d.exc_jmp_stack
      /\ Trimmed(d.scope_jmp_stack, pos.scope) = d.scope_jmp_stack
      /\ (IF d.debug_depth > pos.debug THEN pos.debug ELSE d.debug_depth) = d.debug_depth
  BY <1>1, <1>2 DEF Trimmed
<1>4. Reconciled(d, pos) = [d EXCEPT !.try_jmp_stack = d.try_jmp_stack,
                                     !.exc_jmp_stack = d.exc_jmp_stack,
                                     !.scope_jmp_stack = d.scope_jmp_stack,
                                     !.debug_depth = d.debug_depth]
  BY <1>3 DEF Reconciled, Contexts
<1>5. Reconciled(d, pos) = d
  BY <1>4 DEF Contexts
<1>6. ~ PoppedTooFar(d, pos)
  <2>1. \A s \in DOMAIN pos : pos[s] \in Int
    BY <1>2 DEF Position
  <2>2. \A s \in DOMAIN pos : ~ (pos[s] < pos[s])
    BY <2>1
  <2> QED
    BY <2>2 DEF PoppedTooFar
<1> QED
  BY <1>5, <1>6

LEMMA NestsSame ==
  ASSUME NEW fs, NEW n \in Nat \ {0}, fs \in Seq(Frames), n = Len(fs)
  PROVE  Nests(fs, fs, n, 0)
<1>1. fs[n] \in Frames
  OBVIOUS
<1>2. fs[n].nesting_level + 0 = fs[n].nesting_level
  BY <1>1 DEF Frames
<1> QED
  BY <1>2 DEF Nests, SamePointer

(* sTRACE.                                                                 *)
PopTraceResult(fs, n, bs, b, c, d, p) ==
  /\ Popped(fs, n, bs, d, p, 1) /\ SameExceptions(c, d)
  /\ Reconciled(d, b.pos) = d /\ ~ PoppedTooFar(d, b.pos)

LEMMA PopTrace ==
  ASSUME NEW fs, fs \in Seq(Frames), NEW n \in Nat \ {0}, n = Len(fs), NEW bs \in Seq(Blocks),
         NEW b \in Blocks, NEW c \in Contexts, NEW p, Plain(p), c.live,
         Core(fs, n, Append(bs, b), c, p, 0), b.kind = "trace", b.fr = n
  PROVE  PopTraceResult(fs, n, bs, b, c,
           [c EXCEPT !.debug_depth = @ - 1, !.exc_jmp_stack = Front(@)], p)
<1> DEFINE d == [c EXCEPT !.debug_depth = @ - 1, !.exc_jmp_stack = Front(@)]
<1>1. /\ d.exc_jmp_stack = Front(c.exc_jmp_stack)
      /\ d.try_jmp_stack = c.try_jmp_stack /\ d.scope_jmp_stack = c.scope_jmp_stack
      /\ d.debug_depth = c.debug_depth - 1
  BY DEF Contexts
<1>2. /\ d.live = c.live /\ SameExceptions(c, d) /\ d.entry_check_count = c.entry_check_count
  BY DEF Contexts, SameExceptions
<1>3. d \in Contexts
  <2>1. Front(c.exc_jmp_stack) \in Seq(Jmps) /\ c.debug_depth - 1 \in Int
    BY ContextTypes, FrontType
  <2> QED
    BY <2>1 DEF Contexts
<1> HIDE DEF d
<1>4. Stacks(Append(bs, b), c, p) /\ p # "visited" /\ ThrowsFit(fs, Append(bs, b), c.exc_nodes)
  BY PlainPlaces DEF Core, StacksFit
<1>5. Stacks(bs, d, p) /\ Position(d) = b.pos
  BY <1>1, <1>4, StacksPopTrace
<1>6. Root(d) = Root(c)
  BY <1>1, <1>4, RootStays DEF Stacks
<1>7. ThrowsFit(fs, bs, d.exc_nodes)
  <2>1. Grows(bs, b, Append(bs, b))
    BY AppendGrows
  <2>2. ThrowsFit(fs, bs, c.exc_nodes)
    BY <1>4, <2>1, ThrowsPop
  <2> QED
    BY <1>2, <2>2 DEF SameExceptions
<1>8. TryOf(b) = 0 /\ CheckOf(b) = 1 /\ b.kind \notin {"scope", "guard"}
  BY DEF TryOf, CheckOf, CheckedKinds
<1> DEFINE x == 0
<1>9. Nests(fs, fs, n, x) /\ (fs[n].guards_used => x = 0 - TryOf(b)) /\ x \in Int
  BY <1>8, NestsSame
<1>9a. x = 0
  OBVIOUS
<1> HIDE DEF x
<1>9b. Core(fs, n, Append(bs, b), c, p, 0) /\ Plain(p)
  OBVIOUS
<1>10. d.entry_check_count = c.entry_check_count /\ d.exc_used = c.exc_used /\ d.live
  BY <1>2 DEF SameExceptions
<1>11. PoppedCore(fs, n, bs, d, p, CheckOf(b))
  BY <1>3, <1>5, <1>6, <1>7, <1>8, <1>9, <1>10, CorePop
<1>12. Reconciled(d, b.pos) = d /\ ~ PoppedTooFar(d, b.pos)
  BY <1>3, <1>5, ReconciledSame
<1> QED
  BY <1>2, <1>3, <1>8, <1>10, <1>11, <1>12 DEF d, PopTraceResult, Popped, PoppedCore

(* sTRY.                                                                   *)
LEMMA CleanUpFacts ==
  ASSUME NEW c \in Contexts
  PROVE  LET d == CleanUp(c)
         IN  /\ d \in Contexts /\ d.live = c.live /\ SameExceptions(c, d)
             /\ d.entry_check_count = c.entry_check_count
             /\ d.exc_jmp_stack = Front(c.exc_jmp_stack)
             /\ d.try_jmp_stack = Front(c.try_jmp_stack)
             /\ d.scope_jmp_stack = c.scope_jmp_stack /\ d.debug_depth = c.debug_depth
<1> DEFINE d == CleanUp(c)
<1>1. /\ d.exc_jmp_stack = Front(c.exc_jmp_stack) /\ d.try_jmp_stack = Front(c.try_jmp_stack)
      /\ d.scope_jmp_stack = c.scope_jmp_stack /\ d.debug_depth = c.debug_depth
  BY DEF Contexts, CleanUp
<1>2. /\ d.live = c.live /\ SameExceptions(c, d) /\ d.entry_check_count = c.entry_check_count
  BY DEF Contexts, SameExceptions, CleanUp
<1> QED
  BY <1>1, <1>2, CleanUpType

LEMMA PopTry ==
  ASSUME NEW fs, NEW gs, NEW n \in Nat \ {0}, NEW bs \in Seq(Blocks),
         NEW b \in Blocks, NEW c \in Contexts, NEW p, Plain(p), c.live,
         Core(fs, n, Append(bs, b), c, p, 0), b.kind = "try", b.fr = n,
         NEW x \in Int, Nests(fs, gs, n, x), fs[n].guards_used => x = 0 - 1
  PROVE  Popped(gs, n, bs, CleanUp(c), p, 1) /\ SameExceptions(c, CleanUp(c))
<1> DEFINE d == CleanUp(c)
<1>1. /\ d \in Contexts /\ d.live = c.live /\ SameExceptions(c, d)
      /\ d.entry_check_count = c.entry_check_count
      /\ d.exc_jmp_stack = Front(c.exc_jmp_stack)
      /\ d.try_jmp_stack = Front(c.try_jmp_stack)
      /\ d.scope_jmp_stack = c.scope_jmp_stack /\ d.debug_depth = c.debug_depth
  BY CleanUpFacts
<1> HIDE DEF d
<1>4. Stacks(Append(bs, b), c, p) /\ p # "visited" /\ ThrowsFit(fs, Append(bs, b), c.exc_nodes)
  BY PlainPlaces DEF Core, StacksFit
<1>5. Stacks(bs, d, p)
  BY <1>1, <1>4, StacksPopTry
<1>6. Root(d) = Root(c)
  BY <1>1, <1>4, RootStays DEF Stacks
<1>7. ThrowsFit(fs, bs, d.exc_nodes)
  <2>1. Grows(bs, b, Append(bs, b))
    BY AppendGrows
  <2>2. ThrowsFit(fs, bs, c.exc_nodes)
    BY <1>4, <2>1, ThrowsPop
  <2> QED
    BY <1>1, <2>2 DEF SameExceptions
<1>8. TryOf(b) = 1 /\ CheckOf(b) = 1 /\ b.kind \notin {"scope", "guard"}
  BY DEF TryOf, CheckOf, CheckedKinds
<1>9. fs[n].guards_used => x = 0 - TryOf(b)
  BY <1>8
<1>10. d.exc_used = c.exc_used /\ d.live
  BY <1>1 DEF SameExceptions
<1>11. PoppedCore(gs, n, bs, d, p, CheckOf(b))
  BY <1>1, <1>5, <1>6, <1>7, <1>8, <1>9, <1>10, CorePop
<1> QED
  BY <1>1, <1>8, <1>10, <1>11 DEF d, Popped, PoppedCore

(* sCATCH, which is within its sTRY.                                       *)
LEMMA PopCatch ==
  ASSUME NEW fs, fs \in Seq(Frames), NEW n \in Nat \ {0}, n = Len(fs), NEW bs \in Seq(Blocks),
         NEW b \in Blocks, NEW c \in Contexts, NEW d \in Contexts, NEW p, Plain(p), c.live,
         Core(fs, n, Append(bs, b), c, p, 0), b.kind = "catch", b.fr = n,
         d.exc_jmp_stack = Front(c.exc_jmp_stack), d.try_jmp_stack = c.try_jmp_stack,
         d.scope_jmp_stack = c.scope_jmp_stack, d.debug_depth = c.debug_depth,
         d.live = c.live, d.exc_used = c.exc_used, d.entry_check_count = c.entry_check_count,
         \A j \in 1 .. Rank(fs, Targets, n) : d.exc_nodes[j] = c.exc_nodes[j]
  PROVE  Core(fs, n, bs, d, p, 0)
<1>4. Stacks(Append(bs, b), c, p) /\ p # "visited" /\ ThrowsFit(fs, Append(bs, b), c.exc_nodes)
      /\ Nested(Append(bs, b), n)
  BY PlainPlaces DEF Core, StacksFit
<1>5. Stacks(bs, d, p)
  <2>1. b.kind \notin {"try", "trace", "scope"}
    OBVIOUS
  <2> QED
    BY <1>4, <2>1, StacksPop
<1>6. Root(d) = Root(c)
  BY <1>4, RootStays DEF Stacks
<1>7. ThrowsFit(fs, bs, d.exc_nodes)
  <2>1. Grows(bs, b, Append(bs, b))
    BY AppendGrows
  <2>2. ThrowsFit(fs, bs, c.exc_nodes)
    BY <1>4, <2>1, ThrowsPop
  <2>3. Nested(bs, n)
    BY <1>4, NestedPop
  <2>4. \A i \in 1 .. Len(bs) : bs[i].fr \in 1 .. n
    BY <2>3 DEF Nested
  <2> QED
    BY <2>2, <2>4, ThrowsNodes
<1>8. TryOf(b) = 0 /\ CheckOf(b) = 0 /\ b.kind \notin {"scope", "guard"}
  BY DEF TryOf, CheckOf, CheckedKinds
<1> DEFINE x == 0
<1>9. Nests(fs, fs, n, x) /\ (fs[n].guards_used => x = 0 - TryOf(b)) /\ x \in Int
  BY <1>8, NestsSame
<1>9a. x = 0
  OBVIOUS
<1> HIDE DEF x
<1>9b. Core(fs, n, Append(bs, b), c, p, 0) /\ Plain(p)
  OBVIOUS
<1>11. PoppedCore(fs, n, bs, d, p, CheckOf(b))
  BY <1>5, <1>6, <1>7, <1>8, <1>9, CorePop
<1> QED
  BY <1>8, <1>11 DEF PoppedCore

-----------------------------------------------------------------------------
(* The whole invariant.  Control lands in the function whose construct it  *)
(* is, and a break only leaves an sTRY of a function without guards, where *)
(* the throw it turns into is one the program may make.                    *)
LandsRight ==
  pc = "land" =>
    IF Len(blocks) = 0 THEN Fr = Root(ctx) ELSE blocks[Len(blocks)].fr = Fr

BreaksRight ==
  pc = "break" => ~ Me.guards_used /\ \A code \in BreakCodes : MayThrow(code, blocks)

Control ==
  /\ Consistent(frames, Fr, blocks, ctx, pc)
  /\ LandsRight
  /\ BreaksRight

(* What is left of it where the program stops.                             *)
AtRest ==
  /\ IF ctx.live THEN Mirrors(blocks, ctx.exc_jmp_stack) ELSE blocks = << >>
  /\ TriesListed(blocks, ctx.try_jmp_stack)
  /\ \A k \in 1 .. Len(ctx.scope_jmp_stack) :
       InScope(blocks, ctx.scope_jmp_stack[k]) /\ ctx.scope_jmp_stack[k].fr <= Fr

CInv ==
  /\ IInv
  /\ pc # "crashed"
  /\ IF pc = "dead" THEN AtRest ELSE Control

(* Statements that leave control running.                                  *)
LEMMA RunsOn ==
  ASSUME Core(frames', Fr', blocks', ctx', pc', 0), pc' = "run"
  PROVE  Control'
  BY DEF Control, Consistent, ThrownClear, Unwound, LandsRight, BreaksRight

LEMMA TopOf ==
  ASSUME IInv, NEW kind, Inside(kind)
  PROVE  /\ Front(blocks) \in Seq(Blocks) /\ Last(blocks) \in Blocks
         /\ blocks = Append(Front(blocks), Last(blocks))
         /\ Last(blocks).kind = kind /\ Last(blocks).fr = Fr
         /\ Len(blocks) > 0 /\ blocks[Len(blocks)] = Last(blocks)
         /\ Len(Front(blocks)) = Len(blocks) - 1
  BY FrontLast DEF Inside, Own, IInv

LEMMA TopNotOf ==
  ASSUME IInv, NEW kind, ~ Inside(kind), Nested(blocks, Fr)
  PROVE  Len(blocks) > 0 /\ blocks[Len(blocks)].kind = kind => blocks[Len(blocks)].fr < Fr
<1> SUFFICES ASSUME Len(blocks) > 0, blocks[Len(blocks)].kind = kind
             PROVE  blocks[Len(blocks)].fr < Fr
  OBVIOUS
<1>1. blocks # << >> /\ blocks \in Seq(Blocks)
  BY DEF IInv
<1>2. Last(blocks) = blocks[Len(blocks)] /\ Len(blocks) \in Nat
  BY <1>1, FrontLast
<1>3. blocks[Len(blocks)].fr # Fr
  BY <1>1, <1>2 DEF Inside, Own
<1>4. blocks[Len(blocks)].fr \in 1 .. Fr
  BY <1>2 DEF Nested
<1>5. Fr \in Nat
  BY FrType DEF IInv
<1> QED
  BY <1>3, <1>4, <1>5

LEMMA NestsUp ==
  ASSUME NEW fs, fs \in Seq(Frames), NEW n \in Nat \ {0}, n = Len(fs)
  PROVE  Nests(fs, [fs EXCEPT ![n].nesting_level = @ + 1], n, 1)
<1> DEFINE gs == [fs EXCEPT ![n].nesting_level = @ + 1]
<1>1. \A f \in 1 .. n - 1 : gs[f] = fs[f]
  OBVIOUS
<1>2. fs[n] \in Frames /\ gs[n] = [fs[n] EXCEPT !.nesting_level = @ + 1]
  OBVIOUS
<1>3. /\ gs[n].nesting_level = fs[n].nesting_level + 1
      /\ gs[n].skit_thread_ctx = fs[n].skit_thread_ctx
      /\ gs[n].guards_used = fs[n].guards_used /\ gs[n].scope_fn_exit = fs[n].scope_fn_exit
  BY <1>2 DEF Frames
<1>4. \A f \in 1 .. n : f \in 1 .. n - 1 \/ f = n
  OBVIOUS
<1> HIDE DEF gs
<1>5. Nests(fs, gs, n, 1)
  BY <1>1, <1>3, <1>4 DEF Nests, SamePointer
<1> QED
  BY <1>5 DEF gs

LEMMA NestsDown ==
  ASSUME NEW fs, fs \in Seq(Frames), NEW n \in Nat \ {0}, n = Len(fs)
  PROVE  Nests(fs, [fs EXCEPT ![n].nesting_level = @ - 1], n, 0 - 1)
<1> DEFINE gs == [fs EXCEPT ![n].nesting_level = @ - 1]
<1>1. \A f \in 1 .. n - 1 : gs[f] = fs[f]
  OBVIOUS
<1>2. fs[n] \in Frames /\ gs[n] = [fs[n] EXCEPT !.nesting_level = @ - 1]
  OBVIOUS
<1>3. /\ gs[n].nesting_level = fs[n].nesting_level + (0 - 1)
      /\ gs[n].skit_thread_ctx = fs[n].skit_thread_ctx
      /\ gs[n].guards_used = fs[n].guards_used /\ gs[n].scope_fn_exit = fs[n].scope_fn_exit
  BY <1>2 DEF Frames
<1>4. \A f \in 1 .. n : f \in 1 .. n - 1 \/ f = n
  OBVIOUS
<1> HIDE DEF gs
<1>5. Nests(fs, gs, n, 0 - 1)
  BY <1>1, <1>3, <1>4 DEF Nests, SamePointer
<1> QED
  BY <1>5 DEF gs

(* sTRY and sTRACE enter.                                                  *)
LEMMA Open ==
  ASSUME NEW fs, NEW gs, NEW n \in Nat \ {0}, NEW bs \in Seq(Blocks), NEW b \in Blocks,
         NEW c \in Contexts, NEW d \in Contexts, Core(fs, n, bs, c, "run", 1),
         c.live, Len(bs) = 0 => Root(c) = n, b.fr = n, b.kind \in {"try", "trace"},
         Len(bs) > 0 /\ bs[Len(bs)].kind = "trace" => bs[Len(bs)].fr < n,
         Nests(fs, gs, n, TryOf(b)), Stacks(Append(bs, b), d, "run"),
         d.exc_jmp_stack = Append(c.exc_jmp_stack, Jmp(Len(bs), b)),
         d.live = c.live, d.exc_nodes = c.exc_nodes, d.exc_used = c.exc_used,
         d.entry_check_count = c.entry_check_count
  PROVE  Core(gs, n, Append(bs, b), d, "run", 0)
<1> DEFINE p == "run"  k == 1  l == 0
<1>1. Nested(bs, n) /\ Stacks(bs, c, p)
  BY DEF Core, StacksFit
<1>2. Nested(Append(bs, b), n)
  BY <1>1, NestedPush
<1>3. CheckOf(b) = 1 /\ b.kind \notin {"scope", "guard"} /\ Unwinds(p) = 0 /\ Plain(p)
  BY DEF CheckOf, CheckedKinds, Unwinds, Unwound, Plain
<1>4. k \in Int /\ l \in Int /\ k = l + CheckOf(b)
  BY <1>3
<1>5. Root(d) = Root(c)
  <2>1. Mirrors(bs, c.exc_jmp_stack)
    BY <1>1 DEF Stacks
  <2> QED
    BY <2>1, PushJump DEF Root
<1>6. CatchFits(fs, b)
  BY DEF CatchFits
<1>7. c.exc_used = d.exc_used + Unwinds(p)
  BY <1>3, BoundsAssumption DEF Contexts
<1>8. Need(gs, n, Append(bs, b), "run") + l > 0
  <2>1. Append(bs, b) \in Seq(Blocks) /\ Len(Append(bs, b)) > 0
    BY AppendFacts
  <2>2. Need(gs, n, Append(bs, b), "run") \in Nat /\ Need(gs, n, Append(bs, b), "run") > 0
    BY <1>2, <2>1, NeedSome
  <2> QED
    BY <2>2
<1>9. Core(fs, n, bs, c, p, k) /\ d.live /\ (Len(bs) = 0 => b.fr = Root(c))
  OBVIOUS
<1>10. Stacks(Append(bs, b), d, "run")
  OBVIOUS
<1> HIDE DEF k, l, p
<1>11. Core(gs, n, Append(bs, b), d, "run", l)
  BY <1>2, <1>3, <1>4, <1>5, <1>6, <1>7, <1>8, <1>9, <1>10, CorePush
<1> QED
  BY <1>11 DEF l

LEMMA EnteredFrom ==
  ASSUME IInv, Control, NEW p \in {"run", "break", "leaving"}, pc = p
  PROVE  /\ EnteredFits(p) /\ EnteredAlike /\ Core(frames, Fr, blocks, ctx, p, 0)
         /\ Fr \in Nat \ {0} /\ Nested(blocks, Fr)
         /\ EnteredFrames \in Seq(Frames) /\ Len(EnteredFrames) = Fr
<1>1. Core(frames, Fr, blocks, ctx, p, 0)
  BY DEF Control, Consistent
<1>2. EnteredFits(p) /\ EnteredAlike
  BY <1>1, Enter DEF IInv
<1>3. FramesOK(EnteredFrames) /\ Len(EnteredFrames) = Fr
  BY EnteredFramesType DEF IInv
<1> QED
  BY <1>1, <1>2, <1>3, FrType DEF IInv, Core, FramesOK

-----------------------------------------------------------------------------
(* sTRACE and sTRY                                                         *)
LEMMA TraceControl == ASSUME IInv, Control, sTRACE PROVE Control'
<1> DEFINE b == [Block("trace") EXCEPT !.pos = Position(Entered)]
           c == Entered
           d == [Guarded(c, b) EXCEPT !.debug_depth = @ + 1]
<1>1. /\ pc = "run" /\ ~ Inside("trace") /\ ctx' = d /\ blocks' = Append(blocks, b)
      /\ frames' = EnteredFrames /\ pc' = "run"
  BY DEF sTRACE, AtStatement
<1>2. /\ EnteredFits("run") /\ EnteredAlike /\ Nested(blocks, Fr) /\ Fr \in Nat \ {0}
      /\ EnteredFrames \in Seq(Frames) /\ Len(EnteredFrames) = Fr
  BY <1>1, EnteredFrom
<1>3. c \in Contexts /\ blocks \in Seq(Blocks)
  BY <1>2 DEF EnteredAlike, IInv
<1>4. b \in Blocks /\ b.kind = "trace" /\ b.fr = Fr /\ b.pos = Position(c)
  <2>1. Block("trace") \in Blocks /\ Position(c) \in Positions
    BY <1>3, BlockType, PositionType DEF IInv, FramesOK, Kinds
  <2>2. b \in Blocks
    BY <2>1 DEF Blocks
  <2>3. b.kind = "trace" /\ b.fr = Fr
    BY DEF Block
  <2>4. b.pos = Position(c)
    BY <2>1 DEF Blocks
  <2> QED
    BY <2>2, <2>3, <2>4
<1> HIDE DEF c, b
<1>5. /\ d.exc_jmp_stack = Append(c.exc_jmp_stack, Jmp(Len(blocks), b))
      /\ d.try_jmp_stack = c.try_jmp_stack /\ d.scope_jmp_stack = c.scope_jmp_stack
      /\ d.debug_depth = c.debug_depth + 1 /\ d.live = c.live
      /\ d.exc_nodes = c.exc_nodes /\ d.exc_used = c.exc_used
      /\ d.entry_check_count = c.entry_check_count
  BY <1>3 DEF Guarded, Contexts
<1>6. d \in Contexts
  <2>1. Guarded(c, b) \in Contexts
    BY <1>3, <1>4, GuardedType
  <2>2. Guarded(c, b).debug_depth + 1 \in Int
    BY <2>1 DEF Contexts
  <2> QED
    BY <2>1, <2>2, DepthType
<1> HIDE DEF d
<1>7. /\ Core(EnteredFrames, Fr, blocks, c, "run", 1) /\ c.live
      /\ (Len(blocks) = 0 => Root(c) = Fr)
  BY <1>2 DEF EnteredFits, c
<1>8. Stacks(Append(blocks, b), d, "run")
  <2>1. Stacks(blocks, c, "run")
    BY <1>7 DEF Core, StacksFit
  <2> QED
    BY <1>3, <1>4, <1>5, <2>1, StacksPushTrace
<1>9. Nests(EnteredFrames, EnteredFrames, Fr, TryOf(b))
  BY <1>2, <1>4, NestsSame DEF TryOf
<1>10. Len(blocks) > 0 /\ blocks[Len(blocks)].kind = "trace" => blocks[Len(blocks)].fr < Fr
  BY <1>1, <1>2, TopNotOf
<1>11. Core(EnteredFrames, Fr, Append(blocks, b), d, "run", 0)
  <2>1. b.kind \in {"try", "trace"}
    BY <1>4
  <2> QED
    BY <1>2, <1>3, <1>4, <1>5, <1>6, <1>7, <1>8, <1>9, <1>10, <2>1, Open
<1>12. Fr' = Fr
  BY <1>1, <1>2 DEF Fr
<1> QED
  BY <1>1, <1>11, <1>12, RunsOn

LEMMA TryControl ==
  ASSUME IInv, Control, NEW catches \in CatchLists, sTRY(catches)
  PROVE  Control'
<1> DEFINE b == [Block("try") EXCEPT !.catches = catches]
           c == Entered
           d == [Guarded(c, b) EXCEPT !.try_jmp_stack = Append(@, Len(blocks) + 1)]
           gs == [EnteredFrames EXCEPT ![Fr].nesting_level = @ + 1]
<1>1. /\ pc = "run" /\ ~ Inside("trace") /\ ctx' = d /\ blocks' = Append(blocks, b)
      /\ frames' = gs /\ pc' = "run"
  BY DEF sTRY, AtStatement
<1>2. /\ EnteredFits("run") /\ EnteredAlike /\ Nested(blocks, Fr) /\ Fr \in Nat \ {0}
      /\ EnteredFrames \in Seq(Frames) /\ Len(EnteredFrames) = Fr
  BY <1>1, EnteredFrom
<1>3. c \in Contexts /\ blocks \in Seq(Blocks)
  BY <1>2 DEF EnteredAlike, IInv
<1>4. b \in Blocks /\ b.kind = "try" /\ b.fr = Fr
  <2>1. Block("try") \in Blocks /\ catches \in SUBSET Codes
    BY BlockType, CodesAssumption DEF IInv, FramesOK, Kinds
  <2>2. b \in Blocks
    BY <2>1 DEF Blocks
  <2>3. b.kind = "try" /\ b.fr = Fr
    BY DEF Block
  <2> QED
    BY <2>2, <2>3
<1> HIDE DEF c, b
<1>5. /\ d.exc_jmp_stack = Append(c.exc_jmp_stack, Jmp(Len(blocks), b))
      /\ d.try_jmp_stack = Append(c.try_jmp_stack, Len(blocks) + 1)
      /\ d.scope_jmp_stack = c.scope_jmp_stack
      /\ d.debug_depth = c.debug_depth /\ d.live = c.live
      /\ d.exc_nodes = c.exc_nodes /\ d.exc_used = c.exc_used
      /\ d.entry_check_count = c.entry_check_count
  BY <1>3 DEF Guarded, Contexts
<1>6. d \in Contexts
  <2>1. Guarded(c, b) \in Contexts
    BY <1>3, <1>4, GuardedType
  <2>2. Append(Guarded(c, b).try_jmp_stack, Len(blocks) + 1) \in Seq(Nat)
    BY <1>3, <2>1 DEF Contexts
  <2> QED
    BY <2>1, <2>2 DEF Contexts
<1>7. /\ Core(EnteredFrames, Fr, blocks, c, "run", 1) /\ c.live
      /\ (Len(blocks) = 0 => Root(c) = Fr)
  BY <1>2 DEF EnteredFits, c
<1> HIDE DEF d
<1>8. Stacks(Append(blocks, b), d, "run")
  <2>1. Stacks(blocks, c, "run")
    BY <1>7 DEF Core, StacksFit
  <2> QED
    BY <1>3, <1>4, <1>5, <2>1, StacksPushTry
<1>9. Nests(EnteredFrames, gs, Fr, TryOf(b))
  BY <1>2, <1>4, NestsUp DEF TryOf
<1>9a. Len(gs) = Fr
  BY <1>2
<1> HIDE DEF gs
<1>10. Len(blocks) > 0 /\ blocks[Len(blocks)].kind = "trace" => blocks[Len(blocks)].fr < Fr
  BY <1>1, <1>2, TopNotOf
<1>11. Core(gs, Fr, Append(blocks, b), d, "run", 0)
  <2>1. b.kind \in {"try", "trace"}
    BY <1>4
  <2> QED
    BY <1>2, <1>3, <1>4, <1>5, <1>6, <1>7, <1>8, <1>9, <1>10, <2>1, Open
<1>12. Fr' = Fr
  BY <1>1, <1>9a DEF Fr
<1> QED
  BY <1>1, <1>11, <1>12, RunsOn

-----------------------------------------------------------------------------
(* The ways out of sTRACE and sTRY without a throw.                        *)
LEMMA InsideFacts ==
  ASSUME IInv, Control, pc = "run", NEW kind, Inside(kind)
  PROVE  /\ Core(frames, Fr, Append(Front(blocks), Last(blocks)), ctx, "run", 0)
         /\ ctx.live /\ Fr \in Nat \ {0} /\ frames \in Seq(Frames) /\ ctx \in Contexts
         /\ Plain("run")
<1>1. blocks = Append(Front(blocks), Last(blocks)) /\ Len(blocks) > 0 /\ Len(blocks) \in Nat
  BY TopOf, FrontLast DEF IInv
<1>2. Core(frames, Fr, blocks, ctx, "run", 0)
  BY DEF Control, Consistent
<1>3. PointersFit(frames, Fr, blocks, ctx.live, Root(ctx))
  BY <1>2 DEF Core
<1>4. ctx.live
  BY <1>1, <1>3 DEF PointersFit
<1> QED
  BY <1>1, <1>2, <1>4, FrType DEF IInv, FramesOK, Plain

(* A construct is left and its entry check undone: c is the context then.  *)
LEMMA LeavesOn ==
  ASSUME NEW fs, FramesOK(fs), Len(fs) = Fr, Fr \in Nat \ {0}, NEW bs \in Seq(Blocks),
         NEW c, Popped(fs, Fr, bs, c, "run", 1),
         frames' = LeftFrames(fs, c), ctx' = Left(c), blocks' = bs
  PROVE  /\ Core(frames', Fr', blocks', ctx', "run", 0) /\ Fr' = Fr
         /\ Repointed(fs, frames', Fr)
<1> DEFINE p == "run"
<1>1. p \in {"run", "break"} /\ fs \in Seq(Frames)
  BY DEF FramesOK
<1>2. Core(fs, Fr, bs, c, p, 1) /\ (Len(bs) = 0 => Fr = Root(c)) /\ c \in Contexts /\ c.live
  BY DEF Popped
<1> HIDE DEF p
<1>3. LeftFits(fs, Fr, bs, c, p)
  BY <1>1, <1>2, Leave
<1>4. Len(LeftFrames(fs, c)) = Fr
  BY LeftFramesType
<1>5. Fr' = Fr
  BY <1>4 DEF Fr
<1> QED
  BY <1>3, <1>5 DEF LeftFits, p

LEMMA TraceEndControl == ASSUME IInv, Control, sTRACE_End PROVE Control'
<1> DEFINE bs == Front(blocks)
           b == Last(blocks)
           c == Reconciled(Untraced, b.pos)
<1>1. /\ pc = "run" /\ Inside("trace") /\ ctx' = Left(c) /\ frames' = LeftFrames(frames, c)
      /\ blocks' = bs /\ pc' = IF PoppedTooFar(Untraced, b.pos) THEN "dead" ELSE "run"
  BY DEF sTRACE_End
<1>2. bs \in Seq(Blocks) /\ b \in Blocks /\ b.kind = "trace" /\ b.fr = Fr
  BY <1>1, TopOf
<1>3. /\ Core(frames, Fr, Append(bs, b), ctx, "run", 0) /\ ctx.live /\ Fr \in Nat \ {0}
      /\ frames \in Seq(Frames) /\ ctx \in Contexts /\ Plain("run")
  BY <1>1, InsideFacts
<1>4. Len(frames) = Fr
  BY DEF Fr
<1> HIDE DEF bs, b
<1>5. PopTraceResult(frames, Fr, bs, b, ctx, Untraced, "run")
  <2> DEFINE p == "run"
  <2>1. Plain(p) /\ Core(frames, Fr, Append(bs, b), ctx, p, 0)
    BY <1>3
  <2> HIDE DEF p
  <2>2. PopTraceResult(frames, Fr, bs, b, ctx,
           [ctx EXCEPT !.debug_depth = @ - 1, !.exc_jmp_stack = Front(@)], p)
    BY <1>2, <1>3, <1>4, <2>1, PopTrace
  <2> QED
    BY <2>2 DEF p, Untraced
<1>6. Popped(frames, Fr, bs, c, "run", 1) /\ ~ PoppedTooFar(Untraced, b.pos)
  BY <1>5 DEF PopTraceResult
<1>7. Core(frames', Fr', blocks', ctx', "run", 0)
  BY <1>1, <1>2, <1>3, <1>4, <1>6, LeavesOn DEF IInv
<1> QED
  BY <1>1, <1>6, <1>7, RunsOn

LEMMA EndOfTryControl == ASSUME IInv, Control, EndOfTry PROVE Control'
<1> DEFINE bs == Front(blocks)
           b == Last(blocks)
           c == CleanUp(ctx)
           gs == [frames EXCEPT ![Fr].nesting_level = @ - 1]
           x == 0 - 1
<1>1. /\ pc = "run" /\ Inside("try") /\ ctx' = Left(c) /\ frames' = LeftFrames(gs, c)
      /\ blocks' = bs /\ pc' = "run"
  BY DEF EndOfTry, LeaveTry
<1>2. bs \in Seq(Blocks) /\ b \in Blocks /\ b.kind = "try" /\ b.fr = Fr
  BY <1>1, TopOf
<1>3. /\ Core(frames, Fr, Append(bs, b), ctx, "run", 0) /\ ctx.live /\ Fr \in Nat \ {0}
      /\ frames \in Seq(Frames) /\ ctx \in Contexts /\ Plain("run")
  BY <1>1, InsideFacts
<1>4. Len(frames) = Fr
  BY DEF Fr
<1>5. Nests(frames, gs, Fr, x)
  BY <1>3, <1>4, NestsDown
<1>5a. x \in Int /\ x = 0 - 1
  OBVIOUS
<1>6. FramesOK(gs) /\ Len(gs) = Fr
  <2>1. FramesOK(frames)
    BY DEF IInv
  <2>2. FramesOK(gs)
    BY <1>4, <2>1, NestingDown
  <2> QED
    BY <1>3, <1>4, <2>2
<1> HIDE DEF bs, b, gs, x
<1>7. Popped(gs, Fr, bs, c, "run", 1)
  BY <1>2, <1>3, <1>5, <1>5a, PopTry
<1>8. Core(frames', Fr', blocks', ctx', "run", 0)
  BY <1>1, <1>2, <1>3, <1>6, <1>7, LeavesOn
<1> QED
  BY <1>1, <1>8, RunsOn

(* An sCATCH is the body of the sTRY below it.                             *)
LEMMA CatchOnTry ==
  ASSUME NEW bs \in Seq(Blocks), NEW b \in Blocks, NEW n \in Nat, Nested(Append(bs, b), n),
         b.kind = "catch", b.fr = n
  PROVE  /\ bs = Append(Front(bs), Last(bs)) /\ Front(bs) \in Seq(Blocks)
         /\ Last(bs) \in Blocks /\ Last(bs).kind = "try" /\ Last(bs).fr = n
<1> DEFINE cs == Append(bs, b)
<1>1. /\ Len(cs) = Len(bs) + 1 /\ Len(bs) \in Nat /\ cs[Len(bs) + 1] = b
      /\ \A i \in 1 .. Len(bs) : cs[i] = bs[i]
  BY AppendFacts
<1>2. Nested(cs, n)
  OBVIOUS
<1> HIDE DEF cs
<1>3. /\ Len(bs) + 1 > 1 /\ cs[Len(bs) + 1 - 1].kind = "try"
      /\ cs[Len(bs) + 1 - 1].fr = n
  BY <1>1, <1>2 DEF Nested
<1>4. Len(bs) > 0 /\ bs[Len(bs)].kind = "try" /\ bs[Len(bs)].fr = n
  BY <1>1, <1>3
<1>5. bs # << >>
  BY <1>4
<1> QED
  BY <1>4, <1>5, FrontLast

LEMMA PoppedNode ==
  ASSUME NEW c \in Contexts, NEW n \in 1 .. MaxExceptions
  PROVE  LET d == [c EXCEPT !.exc_jmp_stack = Front(@), !.exc_nodes[n] = NoException]
         IN  /\ d \in Contexts /\ d.exc_jmp_stack = Front(c.exc_jmp_stack)
             /\ d.try_jmp_stack = c.try_jmp_stack /\ d.scope_jmp_stack = c.scope_jmp_stack
             /\ d.debug_depth = c.debug_depth /\ d.live = c.live /\ d.exc_used = c.exc_used
             /\ d.entry_check_count = c.entry_check_count
             /\ \A j \in 1 .. n - 1 : d.exc_nodes[j] = c.exc_nodes[j]
<1> DEFINE d == [c EXCEPT !.exc_jmp_stack = Front(@), !.exc_nodes[n] = NoException]
<1>1. Front(c.exc_jmp_stack) \in Seq(Jmps)
  BY ContextTypes, FrontType
<1>2. /\ c.exc_nodes \in [1 .. MaxExceptions -> Exceptions] /\ NoException \in Exceptions
      /\ [c.exc_nodes EXCEPT ![n] = NoException] \in [1 .. MaxExceptions -> Exceptions]
  BY ContextTypes, NoExceptionType
<1>3. d \in Contexts
  BY <1>1, <1>2 DEF Contexts
<1>4. d.exc_nodes = [c.exc_nodes EXCEPT ![n] = NoException]
  BY DEF Contexts
<1>5. \A j \in 1 .. n - 1 : d.exc_nodes[j] = c.exc_nodes[j]
  BY <1>2, <1>4, BoundsAssumption
<1>6. /\ d.exc_jmp_stack = Front(c.exc_jmp_stack)
      /\ d.try_jmp_stack = c.try_jmp_stack /\ d.scope_jmp_stack = c.scope_jmp_stack
      /\ d.debug_depth = c.debug_depth /\ d.live = c.live /\ d.exc_used = c.exc_used
      /\ d.entry_check_count = c.entry_check_count
  BY DEF Contexts
<1> QED
  BY <1>3, <1>5, <1>6

LEMMA EndOfCatchControl == ASSUME IInv, Control, EndOfCatch PROVE Control'
<1> DEFINE cs == Front(blocks)
           b == Last(blocks)
           bs == Front(cs)
           t == Last(cs)
           c == [ctx EXCEPT !.exc_jmp_stack = Front(@), !.exc_nodes[b.node] = NoException]
           gs == [frames EXCEPT ![Fr].nesting_level = @ - 1]
           x == 0 - 1
           p == "run"
<1>1. /\ pc = "run" /\ Inside("catch") /\ ctx' = Left(CleanUp(c))
      /\ frames' = LeftFrames(gs, CleanUp(c)) /\ blocks' = bs /\ pc' = "run"
  BY DEF EndOfCatch, LeaveTry
<1>2. cs \in Seq(Blocks) /\ b \in Blocks /\ b.kind = "catch" /\ b.fr = Fr
  BY <1>1, TopOf
<1>3. /\ Core(frames, Fr, Append(cs, b), ctx, p, 0) /\ ctx.live /\ Fr \in Nat \ {0}
      /\ frames \in Seq(Frames) /\ ctx \in Contexts /\ Plain(p)
  BY <1>1, InsideFacts
<1>4. Len(frames) = Fr
  BY DEF Fr
<1>5. Nests(frames, gs, Fr, x)
  BY <1>3, <1>4, NestsDown
<1>5a. x \in Int /\ x = 0 - 1
  OBVIOUS
<1>6. FramesOK(gs) /\ Len(gs) = Fr
  <2>1. FramesOK(frames)
    BY DEF IInv
  <2>2. FramesOK(gs)
    BY <1>4, <2>1, NestingDown
  <2> QED
    BY <1>3, <1>4, <2>2
<1> HIDE DEF cs, b, gs, x, p
<1>7. /\ cs = Append(bs, t) /\ bs \in Seq(Blocks)
      /\ t \in Blocks /\ t.kind = "try" /\ t.fr = Fr
  <2>1. Nested(Append(cs, b), Fr)
    BY <1>3 DEF Core
  <2> QED
    BY <1>2, <1>3, <2>1, CatchOnTry
<1>8. b.node \in 1 .. MaxExceptions /\ b.node > Rank(frames, Targets, Fr)
  <2>1. b.node \in 1 .. MaxExceptions
    BY <1>2, BoundsAssumption DEF Blocks
  <2>2. ThrowsFit(frames, Append(cs, b), ctx.exc_nodes) /\ Grows(cs, b, Append(cs, b))
    BY <1>2, <1>3, AppendGrows DEF Core
  <2>3. CatchFits(frames, b)
    BY <2>2, ThrowsPop
  <2> QED
    BY <1>2, <2>1, <2>3 DEF CatchFits
<1>9. /\ c \in Contexts /\ c.exc_jmp_stack = Front(ctx.exc_jmp_stack)
      /\ c.try_jmp_stack = ctx.try_jmp_stack /\ c.scope_jmp_stack = ctx.scope_jmp_stack
      /\ c.debug_depth = ctx.debug_depth /\ c.live = ctx.live /\ c.exc_used = ctx.exc_used
      /\ c.entry_check_count = ctx.entry_check_count
      /\ \A j \in 1 .. b.node - 1 : c.exc_nodes[j] = ctx.exc_nodes[j]
  BY <1>3, <1>8, PoppedNode
<1> HIDE DEF c, bs, t
<1>10. \A j \in 1 .. Rank(frames, Targets, Fr) : c.exc_nodes[j] = ctx.exc_nodes[j]
  <2>1. Rank(frames, Targets, Fr) \in Nat
    BY <1>3, RankType
  <2> QED
    BY <1>8, <1>9, <2>1, BoundsAssumption
<1>11. Core(frames, Fr, cs, c, p, 0)
  BY <1>2, <1>3, <1>4, <1>9, <1>10, PopCatch
<1>12. Popped(gs, Fr, bs, CleanUp(c), p, 1)
  <2>1. Core(frames, Fr, Append(bs, t), c, p, 0) /\ c.live
    BY <1>3, <1>7, <1>9, <1>11
  <2> QED
    BY <1>3, <1>5, <1>5a, <1>7, <1>9, <2>1, PopTry
<1>13. Core(frames', Fr', blocks', ctx', "run", 0)
  BY <1>1, <1>3, <1>6, <1>7, <1>12, LeavesOn DEF p
<1> QED
  BY <1>1, <1>13, RunsOn

-----------------------------------------------------------------------------
(* Breaks and throws.                                                      *)
LEMMA BreakIsRun ==
  ASSUME NEW fs, NEW n, NEW bs, NEW c, NEW p \in {"run", "break"}, NEW q \in {"run", "break"},
         NEW k, Core(fs, n, bs, c, p, k)
  PROVE  Core(fs, n, bs, c, q, k)
<1>1. /\ p # "visited" /\ q # "visited" /\ Propagates(p) = Propagates(q)
      /\ Unwinds(p) = Unwinds(q) /\ p \notin Leaves /\ (p \in Visits <=> q \in Visits)
      /\ p # "land" /\ q # "land"
  BY DEF Propagates, Unwinds, Unwound, Leaves, Visits
<1>2. StacksFit(bs, c, q)
  BY <1>1, StacksStay, SameItself DEF Core, StacksFit
<1>3. ScopesFit(fs, n, bs, q)
  BY <1>1, ScopesStay DEF Core
<1>4. Counted(fs, n, bs, c, q, k)
  <2>1. Need(fs, n, bs, p) = Need(fs, n, bs, q)
    BY <1>1 DEF Need, Owed
  <2> QED
    BY <1>1, <2>1 DEF Core, Counted, ChecksFit, UsedFits
<1> QED
  BY <1>2, <1>3, <1>4 DEF Core

LEMMA BreakOutControl == ASSUME PlainUses, IInv, Control, BreakOut PROVE Control'
<1> DEFINE bs == Front(blocks)
           b == Last(blocks)
           c == CleanUp(ctx)
           x == 0
<1>1. /\ pc = "run" /\ Inside("try") /\ ctx' = Left(c) /\ frames' = LeftFrames(frames, c)
      /\ blocks' = bs /\ pc' = "break" /\ ~ frames[Fr].guards_used
      /\ \A code \in BreakCodes : MayThrow(code, bs)
  BY DEF BreakOut, PlainUses, Me
<1>2. bs \in Seq(Blocks) /\ b \in Blocks /\ b.kind = "try" /\ b.fr = Fr
  BY <1>1, TopOf
<1>3. /\ Core(frames, Fr, Append(bs, b), ctx, "run", 0) /\ ctx.live /\ Fr \in Nat \ {0}
      /\ frames \in Seq(Frames) /\ ctx \in Contexts /\ Plain("run")
  BY <1>1, InsideFacts
<1>4. Len(frames) = Fr
  BY DEF Fr
<1>5. Nests(frames, frames, Fr, x)
  BY <1>3, <1>4, NestsSame
<1>6. x \in Int /\ (frames[Fr].guards_used => x = 0 - 1)
  BY <1>1
<1> HIDE DEF bs, b, x
<1>7. Popped(frames, Fr, bs, c, "run", 1)
  BY <1>2, <1>3, <1>5, <1>6, PopTry
<1>8. /\ Core(frames', Fr', blocks', ctx', "run", 0) /\ Fr' = Fr
      /\ Repointed(frames, frames', Fr)
  BY <1>1, <1>2, <1>3, <1>4, <1>7, LeavesOn DEF IInv
<1>9. Core(frames', Fr', blocks', ctx', pc', 0)
  BY <1>1, <1>8, BreakIsRun
<1>10. LandsRight' /\ ThrownClear(blocks', ctx', pc')
  BY <1>1 DEF LandsRight, ThrownClear, Unwound
<1>11. BreaksRight'
  <2>1. ~ Me'.guards_used
    BY <1>1, <1>3, <1>8 DEF Me, Repointed
  <2>2. \A code \in BreakCodes : MayThrow(code, blocks)'
    BY <1>1, <1>8 DEF MayThrow, CaughtSince
  <2> QED
    BY <2>1, <2>2 DEF BreaksRight
<1> QED
  BY <1>9, <1>10, <1>11 DEF Control, Consistent

(* A throw that is under way, with or without guards to run first.         *)
LEMMA GoesOn ==
  ASSUME Consistent(frames', Fr', blocks', ctx', pc'), pc' \notin {"land", "break"}
  PROVE  Control'
  BY DEF Control, LandsRight, BreaksRight

LEMMA ScanningLength ==
  ASSUME NEW fs, FramesOK(fs), NEW status, NEW target
  PROVE  Len(Scanning(fs, status, target)) = Len(fs)
<1>1. fs \in Seq(Frames)
  BY DEF FramesOK
<1> QED
  BY <1>1 DEF Scanning

(* What is thrown is clear of guards, and a function with guards throws it *)
(* at one of its statements.                                               *)
MayRaise(e) ==
  /\ e \in Exceptions /\ ctx.exc_used < MaxExceptions
  /\ Clear(e.code, blocks, Len(blocks))
  /\ frames[Fr].guards_used /\ Len(blocks) > 0 /\ blocks[Len(blocks)].fr = Fr =>
       blocks[Len(blocks)].kind \notin {"trace", "guard"}

LEMMA RaiseControl ==
  ASSUME IInv, Control, pc \in {"run", "break"}, NEW e, MayRaise(e), Raise(e)
  PROVE  Control'
<1> DEFINE c == Entered
           d == Pushed(c, e)
           gs == Scanning(EnteredFrames, "failure", "throw")
<1>1. /\ ctx' = d /\ frames' = gs /\ blocks' = blocks
      /\ pc' = IF Scans(EnteredFrames) THEN "visit" ELSE "propagate"
  BY DEF Raise, PropagateFrom
<1>2. /\ EnteredFits(pc) /\ EnteredAlike /\ Fr \in Nat \ {0}
      /\ EnteredFrames \in Seq(Frames) /\ Len(EnteredFrames) = Fr
  BY EnteredFrom
<1>3. Core(EnteredFrames, Fr, blocks, c, "run", 1) /\ c.live
  BY <1>2, BreakIsRun DEF EnteredFits
<1>4. c \in Contexts /\ c.exc_used < MaxExceptions /\ blocks \in Seq(Blocks) /\ e \in Exceptions
  BY <1>2 DEF EnteredAlike, MayRaise, IInv
<1> HIDE DEF c
<1>5. /\ Core(EnteredFrames, Fr, blocks, d, "land", 1) /\ d \in Contexts
      /\ d.exc_nodes[d.exc_used] = e
  BY <1>2, <1>3, <1>4, Push
<1>6. /\ Clear(d.exc_nodes[d.exc_used].code, blocks, Len(blocks))
      /\ EnteredFrames[Fr].guards_used /\ Len(blocks) > 0 /\ blocks[Len(blocks)].fr = Fr =>
           blocks[Len(blocks)].kind \notin {"trace", "guard"}
  BY <1>2, <1>5 DEF MayRaise, EnteredAlike, Repointed
<1> HIDE DEF d
<1>7. Consistent(gs, Fr, blocks, d, IF Scans(EnteredFrames) THEN "visit" ELSE "propagate")
  BY <1>2, <1>4, <1>5, <1>6, PropagateFits
<1>8. Fr' = Fr
  <2>1. FramesOK(EnteredFrames)
    BY EnteredFramesType DEF IInv
  <2>2. Len(gs) = Fr
    BY <1>2, <2>1, ScanningLength
  <2> QED
    BY <1>1, <2>2 DEF Fr
<1> HIDE DEF gs
<1>9. Consistent(frames', Fr', blocks', ctx', pc')
  BY <1>1, <1>7, <1>8
<1>10. pc' \notin {"land", "break"}
  BY <1>1
<1> QED
  BY <1>9, <1>10, GoesOn

LEMMA AtStatementMayRaise ==
  ASSUME PlainUses, IInv, Control, AtStatement, NEW e \in Exceptions,
         ctx.exc_used < MaxExceptions, MayThrow(e.code, blocks)
  PROVE  MayRaise(e)
<1>1. blocks \in Seq(Blocks) /\ pc = "run" /\ ~ Inside("trace")
  BY DEF IInv, AtStatement
<1>2. /\ Clear(e.code, blocks, Len(blocks))
      /\ Len(blocks) > 0 /\ blocks[Len(blocks)].fr = Fr => blocks[Len(blocks)].kind # "guard"
  BY <1>1, MayThrowIsClear
<1>3. Nested(blocks, Fr) /\ Fr \in Nat
  BY <1>1, EnteredFrom
<1>4. Len(blocks) > 0 /\ blocks[Len(blocks)].kind = "trace" => blocks[Len(blocks)].fr < Fr
  BY <1>1, <1>3, TopNotOf
<1>5. Len(blocks) > 0 /\ blocks[Len(blocks)].fr = Fr => blocks[Len(blocks)].kind # "trace"
  BY <1>3, <1>4
<1> QED
  BY <1>2, <1>5 DEF MayRaise

LEMMA ThrowControl ==
  ASSUME PlainUses, IInv, Control, NEW code \in ThrowCodes, sTHROW(code)
  PROVE  Control'
<1> DEFINE e == [code |-> code, text |-> TRUE]
<1>1. /\ AtStatement /\ pc = "run" /\ ctx.exc_used < MaxExceptions /\ MayThrow(code, blocks)
      /\ Raise(e)
  BY DEF sTHROW, AtStatement
<1>2. e \in Exceptions /\ e.code = code
  BY CodesAssumption DEF Exceptions
<1> HIDE DEF e
<1>3. MayRaise(e)
  BY <1>1, <1>2, AtStatementMayRaise
<1> QED
  BY <1>1, <1>3, RaiseControl

LEMMA RethrowControl ==
  ASSUME PlainUses, IInv, Control, SKIT_THROW_EXCEPTION
  PROVE  Control'
<1>1. PICK i \in DOMAIN blocks :
        /\ blocks[i].kind = "catch" /\ MayThrow(ctx.exc_nodes[blocks[i].node].code, blocks)
        /\ Raise(ctx.exc_nodes[blocks[i].node])
  BY DEF SKIT_THROW_EXCEPTION
<1>2. AtStatement /\ pc = "run" /\ ctx.exc_used < MaxExceptions
  BY DEF SKIT_THROW_EXCEPTION, AtStatement
<1>3. ctx.exc_nodes[blocks[i].node] \in Exceptions
  <2>1. blocks[i] \in Blocks /\ ctx.exc_nodes \in [1 .. MaxExceptions -> Exceptions]
    BY Types, ContextTypes
  <2>2. blocks[i].node \in 1 .. MaxExceptions
    BY <1>1, <2>1, BoundsAssumption DEF Blocks
  <2> QED
    BY <2>1, <2>2
<1>4. MayRaise(ctx.exc_nodes[blocks[i].node])
  BY <1>1, <1>2, <1>3, AtStatementMayRaise
<1> QED
  BY <1>1, <1>2, <1>4, RaiseControl

LEMMA ThrowBreakControl ==
  ASSUME PlainUses, IInv, Control, ThrowBreak
  PROVE  Control'
<1>1. PICK code \in BreakCodes : Raise([code |-> code, text |-> TRUE])
  BY DEF ThrowBreak
<1> DEFINE e == [code |-> code, text |-> TRUE]
<1>2. e \in Exceptions /\ e.code = code
  BY CodesAssumption DEF Exceptions
<1>3. Raise(e)
  BY <1>1
<1> HIDE DEF e
<1>4. /\ pc = "break" /\ ~ frames[Fr].guards_used /\ MayThrow(code, blocks)
      /\ ctx.exc_used < MaxExceptions /\ blocks \in Seq(Blocks)
  BY DEF ThrowBreak, Control, BreaksRight, Me, IInv
<1>5. Clear(e.code, blocks, Len(blocks))
  BY <1>2, <1>4, MayThrowIsClear
<1>6. MayRaise(e)
  BY <1>2, <1>4, <1>5 DEF MayRaise
<1> QED
  BY <1>3, <1>4, <1>6, RaiseControl

-----------------------------------------------------------------------------
(* The jump: the functions entered since the setjmp are gone, and none of  *)
(* them was running its guards.                                            *)
LandsIn(n, bs, c, m) ==
  /\ m \in 1 .. n /\ \A i \in 1 .. Len(bs) : bs[i].fr \in 1 .. m
  /\ IF Len(bs) = 0 THEN m = Root(c) ELSE bs[Len(bs)].fr = m

LEMMA CutCounts ==
  ASSUME NEW fs, NEW gs, NEW n \in Nat \ {0}, NEW m \in 1 .. n, NEW bs \in Seq(Blocks),
         NEW p, p \notin Visits, ScopesFit(fs, n, bs, p), \A f \in 1 .. m : gs[f] = fs[f],
         \A i \in 1 .. Len(bs) : bs[i].fr \in 1 .. m, NEW T, "none" \notin T
  PROVE  Rank(gs, T, m) = Rank(fs, T, n)
<1>1. ASSUME NEW f \in m + 1 .. n
      PROVE  fs[f].scope_fn_exit \notin T
  <2>1. f \in 1 .. n /\ ~ Owns(bs, f)
    BY DEF Owns
  <2> QED
    BY <2>1, NoScan
<1>2. m \in Nat /\ n \in Nat /\ m <= n
  OBVIOUS
<1>3. Rank(fs, T, m) = Rank(fs, T, n)
  BY <1>1, <1>2, RankGrows
<1>4. Rank(fs, T, m) = Rank(gs, T, m)
  BY <1>2, RankAgrees
<1> QED
  BY <1>3, <1>4

LEMMA CoreJump ==
  ASSUME NEW fs, NEW gs, NEW n \in Nat \ {0}, NEW bs \in Seq(Blocks), NEW c \in Contexts,
         NEW d \in Contexts, Core(fs, n, bs, c, "propagate", 0), NEW m, LandsIn(n, bs, c, m),
         \A f \in 1 .. m : gs[f] = fs[f], SameBut(c, d),
         d.entry_check_count = c.entry_check_count - 1
  PROVE  Core(gs, m, bs, d, "land", 0)
<1>1. /\ Nested(bs, n) /\ ScopesFit(fs, n, bs, "propagate") /\ c.live /\ d.live
      /\ PointersFit(fs, n, bs, TRUE, Root(c)) /\ Stacks(bs, c, "propagate")
      /\ Counted(fs, n, bs, c, "propagate", 0) /\ ThrowsFit(fs, bs, c.exc_nodes)
      /\ Root(d) = Root(c) /\ SameStacks(c, d) /\ d.exc_nodes = c.exc_nodes
      /\ d.exc_used = c.exc_used
  BY DEF Core, Counted, StacksFit, SameBut
<1>2. /\ m \in Nat \ {0} /\ m <= n /\ m \in 1 .. n /\ n \in Nat
      /\ \A i \in 1 .. Len(bs) : bs[i].fr \in 1 .. m
  BY DEF LandsIn
<1>3. Nested(bs, m)
  <2>1. \A i \in 1 .. Len(bs) : bs[i].fr <= m
    BY <1>2
  <2> QED
    BY <1>1, <1>2, <2>1, NestedIn
<1>4. Stacks(bs, d, "land")
  BY <1>1, StacksStay
<1>5. RootFits(n, bs, Root(c)) /\ \A f \in 1 .. n : PointerFits(f, fs[f], TRUE, Root(c))
  BY <1>1 DEF PointersFit
<1>6. Root(c) \in 1 .. m
  <2>1. CASE Len(bs) = 0
    BY <1>2, <2>1 DEF LandsIn
  <2>2. CASE Len(bs) # 0
    <3>1. Len(bs) > 0 /\ 1 \in 1 .. Len(bs)
      BY <2>2
    <3> QED
      BY <1>2, <1>5, <3>1 DEF RootFits
  <2> QED
    BY <2>1, <2>2
<1>7. fs[n].guards_used => m < n \/ Owns(bs, n)
  <2>1. CASE Len(bs) = 0
    <3>1. n \in 1 .. n
      OBVIOUS
    <3>2. PointerFits(n, fs[n], TRUE, Root(c))
      BY <1>5, <3>1
    <3>3. m = Root(c)
      BY <2>1 DEF LandsIn
    <3>4. fs[n].guards_used => n > Root(c)
      BY <3>2 DEF PointerFits
    <3> QED
      BY <1>2, <3>3, <3>4
  <2>2. CASE Len(bs) # 0
    <3>1. Len(bs) \in 1 .. Len(bs) /\ bs[Len(bs)].fr = m
      BY <2>2 DEF LandsIn
    <3> QED
      BY <1>2, <3>1 DEF Owns
  <2> QED
    BY <2>1, <2>2
<1>8. ScopesFit(gs, m, bs, "land")
  <2> DEFINE p == "propagate"  q == "land"
  <2>1. p \notin Visits /\ q \notin Visits /\ ScopesFit(fs, n, bs, p)
    BY <1>1 DEF Visits
  <2> HIDE DEF p, q
  <2>2. ScopesFit(gs, m, bs, q)
    BY <1>2, <1>7, <2>1, ScopesCut
  <2> QED
    BY <2>2 DEF q
<1>9. PointersFit(gs, m, bs, TRUE, Root(c))
  <2> DEFINE live == TRUE
  <2>1. PointersFit(fs, n, bs, live, Root(c))
    BY <1>1
  <2>1a. Root(c) <= m
    BY <1>2, <1>6
  <2>2. live = TRUE
    OBVIOUS
  <2> HIDE DEF live
  <2>3. PointersFit(gs, m, bs, live, Root(c))
    BY <1>2, <2>1, <2>1a, PointersCut
  <2> QED
    BY <2>2, <2>3
<1>10. ThrowsFit(gs, bs, d.exc_nodes)
  BY <1>1, <1>2, ThrowsStay
<1>11. /\ Rank(gs, Throws, m) = Rank(fs, Throws, n) /\ Rank(gs, Throws, m) \in Nat
       /\ Rank(gs, Targets, m) = Rank(fs, Targets, n)
  <2> DEFINE p == "propagate"  T == Throws  U == Targets
  <2>1. /\ "none" \notin T /\ "none" \notin U /\ p \notin Visits
        /\ ScopesFit(fs, n, bs, p)
    BY <1>1 DEF Throws, Targets, Visits
  <2> HIDE DEF p, T, U
  <2>2. ASSUME NEW V, "none" \notin V
        PROVE  Rank(gs, V, m) = Rank(fs, V, n)
    BY ONLY <1>2, <2>1, <2>2, CutCounts, n \in Nat \ {0}, bs \in Seq(Blocks),
            \A f \in 1 .. m : gs[f] = fs[f]
  <2>3. Rank(gs, T, m) \in Nat
    BY <1>2, RankType
  <2>4. Rank(gs, T, m) = Rank(fs, T, n) /\ Rank(gs, U, m) = Rank(fs, U, n)
    BY <2>1, <2>2
  <2> QED
    BY <2>3, <2>4 DEF T, U
<1>12. Need(gs, m, bs, "land") + 1 = Need(fs, n, bs, "propagate") /\ Need(gs, m, bs, "land") \in Nat
  <2>1. Checked(bs) \in Nat /\ Propagates("land") = 0 /\ Propagates("propagate") = 1
    BY CheckedSome DEF Propagates
  <2> QED
    BY <1>11, <2>1 DEF Need, Owed
<1>13. ChecksFit(gs, m, bs, d, "land", 0)
  <2>1. c.entry_check_count = Need(fs, n, bs, "propagate") + 0
    BY <1>1 DEF Counted, ChecksFit
  <2> QED
    BY <1>12, <2>1 DEF ChecksFit
<1>14. UsedFits(gs, m, d, "land")
  BY <1>1, <1>11 DEF Counted, UsedFits, Unwinds, Unwound
<1>15. Counted(gs, m, bs, d, "land", 0)
  BY <1>1, <1>13, <1>14 DEF Counted
<1>16. d.live = TRUE
  BY <1>1 DEF Contexts
<1> QED
  BY <1>1, <1>3, <1>4, <1>8, <1>9, <1>10, <1>15, <1>16 DEF Core, StacksFit

(* Where the jump leads.                                                   *)
LEMMA TargetIs ==
  ASSUME IInv, NEW p \in {"propagate", "land"}, Core(frames, Fr, blocks, ctx, p, 0)
  PROVE  /\ ctx.exc_jmp_stack # << >> /\ ctx.exc_used > 0
         /\ Len(blocks) = 0 => Target.blk.kind = "bottom" /\ Target.at = 0 /\ Target.blk.fr = Root(ctx)
         /\ Len(blocks) > 0 => Target = Jmp(Len(blocks) - 1, blocks[Len(blocks)])
<1>1. /\ Mirrors(blocks, ctx.exc_jmp_stack) /\ UsedFits(frames, Fr, ctx, p)
  BY DEF Core, StacksFit, Stacks, Counted
<1>2. /\ ctx.exc_jmp_stack \in Seq(Jmps) /\ Len(blocks) \in Nat /\ Fr \in Nat
      /\ ctx.exc_used \in 0 .. MaxExceptions
  BY FrType, ContextTypes DEF IInv
<1>3. Len(ctx.exc_jmp_stack) = Len(blocks) + 1
  BY <1>1 DEF Mirrors
<1>4. ctx.exc_jmp_stack # << >>
  BY <1>2, <1>3
<1>5. Target = ctx.exc_jmp_stack[Len(blocks) + 1]
  BY <1>2, <1>3, <1>4, FrontLast DEF Target
<1>6. ctx.exc_used > 0
  <2>1. Rank(frames, Targets, Fr) \in Nat
    BY <1>2, RankType
  <2> QED
    BY <1>1, <1>2, <2>1 DEF UsedFits, Unwinds, Unwound
<1>7. Len(blocks) = 0 => Target.blk.kind = "bottom" /\ Target.at = 0 /\ Target.blk.fr = Root(ctx)
  BY <1>1, <1>5 DEF Mirrors, Root
<1>8. Len(blocks) > 0 => Target = Jmp(Len(blocks) - 1, blocks[Len(blocks)])
  <2>1. Len(blocks) > 0 => Len(blocks) \in 1 .. Len(blocks)
    BY <1>2
  <2> QED
    BY <1>1, <1>5, <2>1 DEF Mirrors
<1> QED
  BY <1>4, <1>6, <1>7, <1>8

LEMMA LandsThere ==
  ASSUME IInv, Core(frames, Fr, blocks, ctx, "propagate", 0)
  PROVE  LandsIn(Fr, blocks, ctx, Target.blk.fr)
<1>1. /\ Nested(blocks, Fr) /\ RootFits(Fr, blocks, Root(ctx))
  BY DEF Core, Counted, PointersFit
<1>2. Len(blocks) \in Nat /\ Fr \in Nat
  BY FrType DEF IInv
<1>3. CASE Len(blocks) = 0
  <2>1. Target.blk.fr = Root(ctx)
    BY <1>3, TargetIs
  <2> QED
    BY <1>1, <1>3, <2>1 DEF LandsIn, RootFits
<1>4. CASE Len(blocks) > 0
  <2>1. Target.blk.fr = blocks[Len(blocks)].fr /\ Len(blocks) \in 1 .. Len(blocks)
    BY <1>2, <1>4, TargetIs DEF Jmp
  <2>2. Target.blk.fr \in 1 .. Fr
    BY <1>1, <2>1 DEF Nested
  <2>3. ASSUME NEW i \in 1 .. Len(blocks)
        PROVE  blocks[i].fr \in 1 .. Target.blk.fr
    <3>1. blocks[i].fr \in 1 .. Fr /\ (i < Len(blocks) \/ i = Len(blocks))
      BY <1>1, <1>2 DEF Nested
    <3>2. i < Len(blocks) => blocks[i].fr <= blocks[Len(blocks)].fr
      BY <1>1, <2>1 DEF Nested
    <3> QED
      BY <1>2, <2>1, <2>2, <3>1, <3>2
  <2> QED
    BY <1>4, <2>1, <2>2, <2>3 DEF LandsIn
<1> QED
  BY <1>2, <1>3, <1>4

LEMMA JumpDefined ==
  ASSUME IInv, Control, pc = "propagate"
  PROVE  JumpIsDefined
<1>1. Core(frames, Fr, blocks, ctx, "propagate", 0) /\ Len(blocks) \in Nat
  BY DEF Control, Consistent, IInv
<1>2. Target.blk.fr \in 1 .. Fr
  BY <1>1, LandsThere DEF LandsIn
<1>3. Target.at \in 0 .. Len(blocks)
  BY <1>1, TargetIs DEF Jmp
<1> QED
  BY <1>1, <1>2, <1>3, TargetIs DEF JumpIsDefined, Reachable

LEMMA PropagateControl == ASSUME IInv, Control, skit_propogate_exceptions PROVE Control'
<1> DEFINE d == [ctx EXCEPT !.entry_check_count = ctx.entry_check_count - 1]
           m == Target.blk.fr
<1>1. pc = "propagate"
  BY DEF skit_propogate_exceptions
<1>2. /\ ctx' = d /\ frames' = SubSeq(frames, 1, m) /\ pc' = "land"
      /\ blocks' = IF Target.blk.kind = "bottom" THEN << >>
                   ELSE Append(SubSeq(blocks, 1, Target.at), Target.blk)
  BY <1>1, JumpDefined DEF skit_propogate_exceptions
<1>3. /\ Core(frames, Fr, blocks, ctx, "propagate", 0) /\ blocks \in Seq(Blocks)
      /\ ctx \in Contexts /\ frames \in Seq(Frames) /\ Fr \in Nat \ {0} /\ Len(frames) = Fr
      /\ ThrownClear(blocks, ctx, "propagate")
  BY <1>1, FrType DEF Control, Consistent, IInv
<1>4. blocks' = blocks
  <2>1. CASE Len(blocks) = 0
    BY <1>2, <1>3, <2>1, TargetIs
  <2>2. CASE Len(blocks) > 0
    <3>1. /\ Target.blk = blocks[Len(blocks)] /\ Target.at = Len(blocks) - 1
      BY <1>3, <2>2, TargetIs DEF Jmp
    <3>2. blocks[Len(blocks)].kind # "bottom"
      BY <1>3, <2>2 DEF Core, Nested
    <3>3. blocks = Append(SubSeq(blocks, 1, Len(blocks) - 1), blocks[Len(blocks)])
      BY <1>3, <2>2
    <3> QED
      BY <1>2, <3>1, <3>2, <3>3
  <2> QED
    BY <1>3, <2>1, <2>2
<1>5. LandsIn(Fr, blocks, ctx, m)
  BY <1>3, LandsThere
<1>6. Len(frames') = m /\ \A f \in 1 .. m : frames'[f] = frames[f]
  <2>1. m \in 0 .. Len(frames)
    BY <1>3, <1>5 DEF LandsIn
  <2> QED
    BY <1>2, <1>3, <2>1, PrefixType
<1>7. /\ d \in Contexts /\ d.entry_check_count = ctx.entry_check_count - 1
      /\ SameBut(ctx, d)
  <2>1. ctx.entry_check_count - 1 \in Int
    BY <1>3 DEF Contexts
  <2> QED
    BY <1>3, <2>1, CountIs
<1> HIDE DEF d, m
<1>8. Core(frames', m, blocks, d, "land", 0)
  BY <1>3, <1>5, <1>6, <1>7, CoreJump
<1>9. Fr' = m
  BY <1>6 DEF Fr
<1>10. ThrownClear(blocks, d, "land")
  BY <1>3, <1>7 DEF ThrownClear, SameBut, Unwound
<1>11. LandsRight'
  BY <1>2, <1>4, <1>5, <1>7, <1>9 DEF LandsRight, LandsIn, SameBut
<1>12. BreaksRight'
  BY <1>2 DEF BreaksRight
<1> QED
  BY <1>2, <1>4, <1>8, <1>9, <1>10, <1>11, <1>12 DEF Control, Consistent

-----------------------------------------------------------------------------
(* Where a throw lands.                                                    *)
LEMMA CoreRests ==
  ASSUME IInv, NEW p, Core(frames, Fr, blocks, ctx, p, 0)
  PROVE  AtRest
<1>1. Nested(blocks, Fr) /\ StacksFit(blocks, ctx, p) /\ blocks \in Seq(Blocks)
      /\ ctx.scope_jmp_stack \in Seq(ScopeJmps)
  BY ContextTypes DEF Core, IInv
<1>2. CASE ctx.live
  <2>1. Stacks(blocks, ctx, p)
    BY <1>1, <1>2 DEF StacksFit
  <2>2. ASSUME NEW k \in 1 .. Len(ctx.scope_jmp_stack)
        PROVE  InScope(blocks, ctx.scope_jmp_stack[k]) /\ ctx.scope_jmp_stack[k].fr <= Fr
    <3>1. InScope(blocks, ctx.scope_jmp_stack[k])
      BY <2>1 DEF Stacks, GuardsListed
    <3>2. ctx.scope_jmp_stack[k].fr \in 1 .. Fr
      BY <1>1, <3>1 DEF InScope, Nested
    <3> QED
      BY <3>1, <3>2
  <2> QED
    BY <1>2, <2>1, <2>2 DEF Stacks, AtRest
<1>3. CASE ~ ctx.live
  <2>1. blocks = << >> /\ ctx.try_jmp_stack = << >> /\ ctx.scope_jmp_stack = << >>
    BY <1>1, <1>3 DEF StacksFit, Empty
  <2> QED
    BY <1>3, <2>1 DEF AtRest, TriesListed
<1> QED
  BY <1>2, <1>3

LEMMA LandsOn ==
  ASSUME IInv, Control, NEW kind, Lands(kind)
  PROVE  /\ pc = "land" /\ Core(frames, Fr, blocks, ctx, "land", 0) /\ ctx.live
         /\ kind = "bottom" => Len(blocks) = 0
         /\ kind # "bottom" =>
              /\ Front(blocks) \in Seq(Blocks) /\ Last(blocks) \in Blocks
              /\ blocks = Append(Front(blocks), Last(blocks)) /\ Len(blocks) > 0
              /\ blocks[Len(blocks)] = Last(blocks) /\ Target.blk = Last(blocks)
              /\ Last(blocks).kind = kind /\ Last(blocks).fr = Fr
<1>1. pc = "land" /\ Target.blk.kind = kind
  BY DEF Lands
<1>2. /\ Core(frames, Fr, blocks, ctx, "land", 0) /\ blocks \in Seq(Blocks) /\ Len(blocks) \in Nat
  BY <1>1 DEF Control, Consistent, IInv
<1>3. ctx.live /\ Nested(blocks, Fr)
  BY <1>2 DEF Core, Counted
<1>4. ASSUME Len(blocks) > 0
      PROVE  /\ Front(blocks) \in Seq(Blocks) /\ Last(blocks) \in Blocks
             /\ blocks = Append(Front(blocks), Last(blocks))
             /\ blocks[Len(blocks)] = Last(blocks) /\ Target.blk = Last(blocks)
             /\ Last(blocks).fr = Fr /\ Last(blocks).kind # "bottom"
  <2>1. blocks # << >>
    BY <1>2, <1>4
  <2>2. /\ Front(blocks) \in Seq(Blocks) /\ Last(blocks) \in Blocks
        /\ blocks = Append(Front(blocks), Last(blocks)) /\ blocks[Len(blocks)] = Last(blocks)
    BY <1>2, <2>1, FrontLast
  <2>3. Target.blk = Last(blocks)
    BY <1>2, <1>4, <2>2, TargetIs DEF Jmp
  <2>4. Last(blocks).fr = Fr
    BY <1>1, <1>4, <2>2 DEF Control, LandsRight
  <2>5. Last(blocks).kind # "bottom"
    BY <1>2, <1>3, <1>4, <2>2 DEF Nested
  <2> QED
    BY <2>2, <2>3, <2>4, <2>5
<1>5. Len(blocks) = 0 => Target.blk.kind = "bottom"
  BY <1>2, TargetIs
<1> QED
  BY <1>1, <1>2, <1>3, <1>4, <1>5

LEMMA LandsOnTop ==
  ASSUME IInv, Control, NEW kind, Lands(kind), kind # "bottom"
  PROVE  /\ Front(blocks) \in Seq(Blocks) /\ Last(blocks) \in Blocks
         /\ Last(blocks).kind = kind /\ Last(blocks).fr = Fr
         /\ Core(frames, Fr, Append(Front(blocks), Last(blocks)), ctx, "land", 0)
         /\ ctx.live /\ Target.blk = Last(blocks)
         /\ blocks = Append(Front(blocks), Last(blocks)) /\ pc = "land"
  BY LandsOn

LEMMA BottomControl == ASSUME IInv, Control, LandAtBottom PROVE AtRest' /\ pc' = "dead"
<1>1. Lands("bottom") /\ ctx' = NoContext /\ pc' = "dead" /\ blocks' = blocks
  BY DEF LandAtBottom
<1>2. blocks = << >>
  BY <1>1, LandsOn DEF IInv
<1>3. ctx'.live = FALSE /\ ctx'.try_jmp_stack = << >> /\ ctx'.scope_jmp_stack = << >>
  BY <1>1 DEF NoContext, NewContext
<1> QED
  BY <1>1, <1>2, <1>3 DEF AtRest, TriesListed

LEMMA GuardControl == ASSUME IInv, Control, LandInGuard PROVE AtRest' /\ pc' = "dead"
<1>1. /\ Lands("guard") /\ pc' = "dead" /\ frames' = frames /\ blocks' = blocks /\ ctx' = ctx
  BY DEF LandInGuard
<1>2. AtRest
  BY <1>1, LandsOn, CoreRests
<1>3. Fr' = Fr
  BY <1>1 DEF Fr
<1> QED
  BY <1>1, <1>2, <1>3 DEF AtRest, TriesListed, InScope

(* A construct that does not catch passes the exception on.                *)
LEMMA NoTraceUnder ==
  ASSUME NEW bs \in Seq(Blocks), NEW b \in Blocks, NEW n, Nested(Append(bs, b), n), b.fr = n,
         Len(bs) > 0, bs[Len(bs)].fr = n
  PROVE  bs[Len(bs)].kind # "trace"
<1> DEFINE cs == Append(bs, b)
<1>1. /\ Len(cs) = Len(bs) + 1 /\ Len(bs) \in Nat /\ cs[Len(bs) + 1] = b
      /\ \A i \in 1 .. Len(bs) : cs[i] = bs[i]
  BY AppendFacts
<1>2. Nested(cs, n)
  OBVIOUS
<1> HIDE DEF cs
<1>3. cs[Len(bs)].kind = "trace" => cs[Len(bs)].fr < cs[Len(bs) + 1].fr
  BY <1>1, <1>2 DEF Nested
<1>4. cs[Len(bs)] = bs[Len(bs)]
  BY <1>1
<1>5. bs[Len(bs)].kind = "trace" => bs[Len(bs)].fr < b.fr
  BY <1>1, <1>3, <1>4
<1>6. b.fr \in Nat
  BY DEF Blocks
<1> QED
  BY <1>5, <1>6

LEMMA PassesOn ==
  ASSUME NEW fs, FramesOK(fs), Len(fs) = Fr, Fr \in Nat \ {0}, NEW bs \in Seq(Blocks),
         NEW c, Popped(fs, Fr, bs, c, "land", 1),
         Clear(c.exc_nodes[c.exc_used].code, bs, Len(bs)),
         Len(bs) > 0 /\ bs[Len(bs)].fr = Fr => bs[Len(bs)].kind \notin {"trace", "guard"},
         ctx' = c, blocks' = bs, PropagateFrom(fs)
  PROVE  Control'
<1> DEFINE gs == Scanning(fs, "failure", "throw")
<1>1. Core(fs, Fr, bs, c, "land", 1) /\ c \in Contexts /\ fs \in Seq(Frames)
  BY DEF Popped, FramesOK
<1>2. Consistent(gs, Fr, bs, c, IF Scans(fs) THEN "visit" ELSE "propagate")
  BY <1>1, PropagateFits
<1>3. frames' = gs /\ pc' = (IF Scans(fs) THEN "visit" ELSE "propagate")
  BY DEF PropagateFrom
<1>4. Fr' = Fr
  BY <1>3, ScanningLength DEF Fr
<1> HIDE DEF gs
<1>5. Consistent(frames', Fr', blocks', ctx', pc')
  BY <1>2, <1>3, <1>4
<1>6. pc' \notin {"land", "break"}
  BY <1>3
<1> QED
  BY <1>5, <1>6, GoesOn

LEMMA InTraceControl == ASSUME IInv, Control, LandInTrace PROVE Control'
<1> DEFINE bs == Front(blocks)
           b == Last(blocks)
           p == "land"
           code == ctx.exc_nodes[ctx.exc_used].code
<1>1. Lands("trace")
  BY DEF LandInTrace
<1>2. /\ bs \in Seq(Blocks) /\ b \in Blocks /\ b.kind = "trace" /\ b.fr = Fr
      /\ Core(frames, Fr, Append(bs, b), ctx, p, 0) /\ ctx.live /\ Target.blk = b
      /\ blocks = Append(bs, b) /\ pc = p
  BY <1>1, LandsOnTop
<1>3. Fr \in Nat \ {0} /\ frames \in Seq(Frames) /\ ctx \in Contexts /\ Plain(p)
      /\ FramesOK(frames)
  BY FrType DEF IInv, FramesOK, Plain
<1>4. Len(frames) = Fr
  BY DEF Fr
<1>4a. Clear(code, Append(bs, b), Len(Append(bs, b)))
  BY <1>2 DEF Control, Consistent, ThrownClear, Unwound
<1> HIDE DEF bs, b, p
<1>5. PopTraceResult(frames, Fr, bs, b, ctx, Untraced, p)
  <2>1. PopTraceResult(frames, Fr, bs, b, ctx,
           [ctx EXCEPT !.debug_depth = @ - 1, !.exc_jmp_stack = Front(@)], p)
    BY <1>2, <1>3, <1>4, PopTrace
  <2> QED
    BY <2>1 DEF Untraced
<1>6. /\ Popped(frames, Fr, bs, Untraced, "land", 1) /\ SameExceptions(ctx, Untraced)
      /\ Reconciled(Untraced, b.pos) = Untraced /\ ~ PoppedTooFar(Untraced, b.pos)
  BY <1>5 DEF PopTraceResult, p
<1>7. ctx' = Untraced /\ blocks' = bs /\ PropagateFrom(frames)
  BY <1>2, <1>6 DEF LandInTrace, bs
<1> HIDE DEF code
<1>8. Grows(bs, b, Append(bs, b))
  BY <1>2, AppendGrows
<1>9. Clear(code, bs, Len(bs))
  BY <1>2, <1>4a, <1>8, ClearPop
<1>10. Clear(Untraced.exc_nodes[Untraced.exc_used].code, bs, Len(bs))
  BY <1>6, <1>9 DEF SameExceptions, code
<1>11. Len(bs) > 0 /\ bs[Len(bs)].fr = Fr => bs[Len(bs)].kind \notin {"trace", "guard"}
  <2> SUFFICES ASSUME Len(bs) > 0, bs[Len(bs)].fr = Fr
               PROVE  bs[Len(bs)].kind # "trace" /\ bs[Len(bs)].kind # "guard"
    OBVIOUS
  <2>1. Nested(Append(bs, b), Fr)
    BY <1>2 DEF Core
  <2>2. bs[Len(bs)].kind # "trace"
    BY <1>2, <2>1, NoTraceUnder
  <2>3. bs[Len(bs)].kind # "guard"
    BY <1>2, <1>4a, <1>8, NoGuardUnder
  <2> QED
    BY <2>2, <2>3
<1> QED
  BY <1>2, <1>3, <1>4, <1>6, <1>7, <1>10, <1>11, PassesOn

LEMMA UnhandledControl == ASSUME IInv, Control, LandInTryUnhandled PROVE Control'
<1> DEFINE bs == Front(blocks)
           b == Last(blocks)
           p == "land"
           c == CleanUp(ctx)
           gs == [frames EXCEPT ![Fr].nesting_level = @ - 1]
           x == 0 - 1
           code == ctx.exc_nodes[ctx.exc_used].code
<1>1. /\ Lands("try") /\ ctx' = c /\ blocks' = bs /\ PropagateFrom(gs)
      /\ ~ Matches(code, Target.blk.catches)
  BY DEF LandInTryUnhandled, Unhandled
<1>2. /\ bs \in Seq(Blocks) /\ b \in Blocks /\ b.kind = "try" /\ b.fr = Fr
      /\ Core(frames, Fr, Append(bs, b), ctx, p, 0) /\ ctx.live /\ Target.blk = b
      /\ blocks = Append(bs, b) /\ pc = p
  BY <1>1, LandsOnTop
<1>3. Fr \in Nat \ {0} /\ frames \in Seq(Frames) /\ ctx \in Contexts /\ Plain(p)
      /\ FramesOK(frames)
  BY FrType DEF IInv, FramesOK, Plain
<1>4. Len(frames) = Fr
  BY DEF Fr
<1>4a. Clear(code, Append(bs, b), Len(Append(bs, b)))
  BY <1>2 DEF Control, Consistent, ThrownClear, Unwound
<1>5. Nests(frames, gs, Fr, x)
  BY <1>3, <1>4, NestsDown
<1>5a. x \in Int /\ x = 0 - 1
  OBVIOUS
<1>6. FramesOK(gs)
  BY <1>3, <1>4, NestingDown
<1>6a. Len(gs) = Fr
  BY <1>3, <1>4
<1> HIDE DEF bs, b, gs, x, p, code
<1>7. Popped(gs, Fr, bs, c, p, 1) /\ SameExceptions(ctx, c)
  BY <1>2, <1>3, <1>5, <1>5a, PopTry
<1> HIDE DEF c
<1>8. Grows(bs, b, Append(bs, b)) /\ ~ Matches(code, b.catches)
  BY <1>1, <1>2, AppendGrows
<1>9. Clear(code, bs, Len(bs))
  BY <1>4a, <1>8, ClearPop
<1>10. Clear(c.exc_nodes[c.exc_used].code, bs, Len(bs))
  BY <1>7, <1>9 DEF SameExceptions, code
<1>11. Len(bs) > 0 /\ bs[Len(bs)].fr = Fr => bs[Len(bs)].kind \notin {"trace", "guard"}
  <2> SUFFICES ASSUME Len(bs) > 0, bs[Len(bs)].fr = Fr
               PROVE  bs[Len(bs)].kind # "trace" /\ bs[Len(bs)].kind # "guard"
    OBVIOUS
  <2>1. Nested(Append(bs, b), Fr)
    BY <1>2 DEF Core
  <2>2. bs[Len(bs)].kind # "trace"
    BY <1>2, <2>1, NoTraceUnder
  <2>3. bs[Len(bs)].kind # "guard"
    BY <1>2, <1>4a, <1>8, NoGuardUnder
  <2> QED
    BY <2>2, <2>3
<1>12. Popped(gs, Fr, bs, c, "land", 1)
  BY <1>7 DEF p
<1> QED
  BY <1>1, <1>2, <1>3, <1>6, <1>6a, <1>10, <1>11, <1>12, PassesOn

-----------------------------------------------------------------------------
LEMMA InCatchControl == ASSUME IInv, Control, LandInCatch PROVE Control'
<1> DEFINE cs == Front(blocks)
           b == Last(blocks)
           bs == Front(cs)
           t == Last(cs)
           p == "land"
           c == [ctx EXCEPT !.exc_jmp_stack = Front(@)]
           d == CleanUp(c)
           gs == [frames EXCEPT ![Fr].nesting_level = @ - 1]
           x == 0 - 1
           code == ctx.exc_nodes[ctx.exc_used].code
<1>1. /\ Lands("catch") /\ ctx' = d /\ blocks' = bs /\ PropagateFrom(gs)
  BY DEF LandInCatch, Unhandled
<1>2. /\ cs \in Seq(Blocks) /\ b \in Blocks /\ b.kind = "catch" /\ b.fr = Fr
      /\ Core(frames, Fr, Append(cs, b), ctx, p, 0) /\ ctx.live /\ Target.blk = b
      /\ blocks = Append(cs, b) /\ pc = p
  BY <1>1, LandsOnTop
<1>3. Fr \in Nat \ {0} /\ frames \in Seq(Frames) /\ ctx \in Contexts /\ Plain(p)
      /\ FramesOK(frames)
  BY FrType DEF IInv, FramesOK, Plain
<1>4. Len(frames) = Fr
  BY DEF Fr
<1>4a. Clear(code, Append(cs, b), Len(Append(cs, b)))
  BY <1>2 DEF Control, Consistent, ThrownClear, Unwound
<1>5. Nests(frames, gs, Fr, x)
  BY <1>3, <1>4, NestsDown
<1>5a. x \in Int /\ x = 0 - 1
  OBVIOUS
<1>6. FramesOK(gs)
  BY <1>3, <1>4, NestingDown
<1>6a. Len(gs) = Fr
  BY <1>3, <1>4
<1> HIDE DEF cs, b, gs, x, p, code
<1>7. /\ cs = Append(bs, t) /\ bs \in Seq(Blocks)
      /\ t \in Blocks /\ t.kind = "try" /\ t.fr = Fr
  <2>1. Nested(Append(cs, b), Fr)
    BY <1>2 DEF Core
  <2> QED
    BY <1>2, <1>3, <2>1, CatchOnTry
<1>8. /\ c \in Contexts /\ c.exc_jmp_stack = Front(ctx.exc_jmp_stack)
      /\ c.try_jmp_stack = ctx.try_jmp_stack /\ c.scope_jmp_stack = ctx.scope_jmp_stack
      /\ c.debug_depth = ctx.debug_depth /\ c.live = ctx.live /\ c.exc_used = ctx.exc_used
      /\ c.entry_check_count = ctx.entry_check_count /\ c.exc_nodes = ctx.exc_nodes
  BY <1>3, PoppedType DEF Contexts
<1> HIDE DEF c, bs, t
<1>9. Core(frames, Fr, cs, c, p, 0)
  <2>1. \A j \in 1 .. Rank(frames, Targets, Fr) : c.exc_nodes[j] = ctx.exc_nodes[j]
    BY <1>8
  <2> QED
    BY <1>2, <1>3, <1>4, <1>8, <2>1, PopCatch
<1>10. Popped(gs, Fr, bs, d, p, 1) /\ SameExceptions(c, d)
  <2>1. Core(frames, Fr, Append(bs, t), c, p, 0) /\ c.live
    BY <1>2, <1>7, <1>8, <1>9
  <2> QED
    BY <1>3, <1>5, <1>5a, <1>7, <1>8, <2>1, PopTry
<1> HIDE DEF d
<1>11. Grows(bs, t, cs) /\ Grows(cs, b, Append(cs, b))
  BY <1>2, <1>7, AppendGrows
<1>12. Clear(code, bs, Len(bs))
  BY <1>2, <1>4a, <1>11, ClearPopCatch
<1>13. Clear(d.exc_nodes[d.exc_used].code, bs, Len(bs))
  BY <1>8, <1>10, <1>12 DEF SameExceptions, code
<1>14. Len(bs) > 0 /\ bs[Len(bs)].fr = Fr => bs[Len(bs)].kind \notin {"trace", "guard"}
  <2> SUFFICES ASSUME Len(bs) > 0, bs[Len(bs)].fr = Fr
               PROVE  bs[Len(bs)].kind # "trace" /\ bs[Len(bs)].kind # "guard"
    OBVIOUS
  <2>1. Nested(Append(bs, t), Fr)
    BY <1>7, <1>9 DEF Core
  <2>2. bs[Len(bs)].kind # "trace"
    BY <1>7, <2>1, NoTraceUnder
  <2>3. bs[Len(bs)].fr = t.fr
    BY <1>7
  <2>4. bs[Len(bs)].kind # "guard"
    BY <1>2, <1>4a, <1>11, <2>3, NoGuardUnderCatch
  <2> QED
    BY <2>2, <2>4
<1>15. Popped(gs, Fr, bs, d, "land", 1)
  BY <1>10 DEF p
<1> QED
  BY <1>1, <1>3, <1>6, <1>6a, <1>7, <1>13, <1>14, <1>15, PassesOn

(* An sCATCH takes the exception over.                                     *)
LEMMA CaughtFacts ==
  ASSUME NEW c \in Contexts, NEW b \in Blocks, blocks \in Seq(Blocks), c.exc_used > 0
  PROVE  LET d == Caught(c, b)
         IN  /\ d \in Contexts
             /\ d.exc_jmp_stack = Append(c.exc_jmp_stack, Jmp(Len(blocks), b))
             /\ d.try_jmp_stack = c.try_jmp_stack /\ d.scope_jmp_stack = c.scope_jmp_stack
             /\ d.debug_depth = c.debug_depth /\ d.live = c.live
             /\ d.exc_used = c.exc_used - 1 /\ d.exc_nodes = c.exc_nodes
             /\ d.entry_check_count = c.entry_check_count
<1> DEFINE d == Caught(c, b)
           g == Guarded(c, b)
<1>1. g \in Contexts /\ g.exc_used = c.exc_used
  BY GuardedType
<1>2. g.exc_used - 1 \in 0 .. MaxExceptions
  BY <1>1, BoundsAssumption DEF Contexts
<1>3. d = [g EXCEPT !.exc_used = g.exc_used - 1]
  BY DEF Caught
<1>4. d \in Contexts
  BY <1>1, <1>2, <1>3 DEF Contexts
<1>5. /\ d.exc_jmp_stack = Append(c.exc_jmp_stack, Jmp(Len(blocks), b))
      /\ d.try_jmp_stack = c.try_jmp_stack /\ d.scope_jmp_stack = c.scope_jmp_stack
      /\ d.debug_depth = c.debug_depth /\ d.live = c.live
      /\ d.exc_used = c.exc_used - 1 /\ d.exc_nodes = c.exc_nodes
      /\ d.entry_check_count = c.entry_check_count
  BY DEF Caught, Guarded, Contexts
<1> QED
  BY <1>4, <1>5

LEMMA CatchControl == ASSUME IInv, Control, sCATCH PROVE Control'
<1> DEFINE node == ctx.exc_used
           b == [Block("catch") EXCEPT !.node = node, !.caught = ctx.exc_nodes[node]]
           d == Caught(ctx, b)
           p == "land"
           k == 0
<1>1. /\ Lands("try") /\ node > 0 /\ ctx' = d /\ blocks' = Append(blocks, b)
      /\ pc' = "run" /\ frames' = frames
  BY DEF sCATCH
<1>2. /\ Core(frames, Fr, blocks, ctx, p, k) /\ ctx.live /\ Len(blocks) > 0
      /\ blocks[Len(blocks)].kind = "try" /\ blocks[Len(blocks)].fr = Fr
  BY <1>1, LandsOn
<1>3. /\ Fr \in Nat \ {0} /\ frames \in Seq(Frames) /\ ctx \in Contexts /\ Plain(p)
      /\ blocks \in Seq(Blocks)
  BY FrType DEF IInv, FramesOK, Plain
<1>4. node \in 1 .. MaxExceptions /\ ctx.exc_nodes[node] \in Exceptions
  BY <1>1, BoundsAssumption, Types, ContextTypes
<1>5. b \in Blocks /\ b.kind = "catch" /\ b.fr = Fr /\ b.node = node
  <2>1. b \in Blocks
    BY <1>4, CatchBlockType
  <2>2. b.kind = "catch" /\ b.fr = Fr /\ b.node = node
    BY DEF Block
  <2> QED
    BY <2>1, <2>2
<1> HIDE DEF b
<1>6. /\ d \in Contexts
      /\ d.exc_jmp_stack = Append(ctx.exc_jmp_stack, Jmp(Len(blocks), b))
      /\ d.try_jmp_stack = ctx.try_jmp_stack /\ d.scope_jmp_stack = ctx.scope_jmp_stack
      /\ d.debug_depth = ctx.debug_depth /\ d.live = ctx.live
      /\ d.exc_used = ctx.exc_used - 1 /\ d.exc_nodes = ctx.exc_nodes
      /\ d.entry_check_count = ctx.entry_check_count
  BY <1>1, <1>3, <1>5, CaughtFacts
<1> HIDE DEF d
<1>7. /\ Unwinds(p) = 1 /\ CheckOf(b) = 0 /\ TryOf(b) = 0
      /\ b.kind \notin {"scope", "guard"} /\ k = 0
  BY <1>5 DEF Unwinds, Unwound, CheckOf, CheckedKinds, TryOf
<1>8. k \in Int /\ k = k + CheckOf(b)
  BY <1>7
<1> HIDE DEF k, p
<1>9. Nested(blocks, Fr) /\ Stacks(blocks, ctx, p) /\ UsedFits(frames, Fr, ctx, p)
  BY <1>2 DEF Core, StacksFit, Counted
<1>10. Nested(Append(blocks, b), Fr)
  <2>1. b.kind # "bottom" /\ b.kind # "guard" /\ b.kind # "scope" /\ blocks # << >>
        /\ blocks[Len(blocks)].kind # "trace" /\ Fr \in Nat /\ Fr > 0
    BY <1>2, <1>3, <1>5
  <2> QED
    BY <1>2, <1>3, <1>5, <1>9, <2>1, NestedPush
<1>11. Stacks(Append(blocks, b), d, "run")
  <2> DEFINE q == "run"
  <2>1. b.kind \notin {"try", "trace", "scope"} /\ p # "visited" /\ q # "visited"
    BY <1>3, <1>5, PlainPlaces
  <2> HIDE DEF q
  <2>2. Stacks(Append(blocks, b), d, q)
    BY <1>3, <1>5, <1>6, <1>9, <2>1, StacksPush
  <2> QED
    BY <2>2 DEF q
<1>12. Root(d) = Root(ctx)
  <2>1. Mirrors(blocks, ctx.exc_jmp_stack)
    BY <1>9 DEF Stacks
  <2> QED
    BY <1>3, <1>5, <1>6, <2>1, PushJump DEF Root
<1>13. CatchFits(frames, b)
  <2>1. Rank(frames, Targets, Fr) \in Nat
    BY <1>3, RankType
  <2>2. ctx.exc_used = Rank(frames, Targets, Fr) + 1
    BY <1>7, <1>9 DEF UsedFits
  <2> QED
    BY <1>5, <2>1, <2>2 DEF CatchFits
<1>14. ctx.exc_used = d.exc_used + Unwinds(p)
  BY <1>3, <1>6, <1>7, BoundsAssumption DEF Contexts
<1>15. Need(frames, Fr, Append(blocks, b), "run") + k > 0
  <2>1. Append(blocks, b) \in Seq(Blocks) /\ Len(Append(blocks, b)) > 0
    BY <1>3, <1>5, AppendFacts
  <2>2. /\ Need(frames, Fr, Append(blocks, b), "run") \in Nat
        /\ Need(frames, Fr, Append(blocks, b), "run") > 0
    BY <1>3, <1>10, <2>1, NeedSome
  <2> QED
    BY <1>7, <2>2
<1>16. Nests(frames, frames, Fr, TryOf(b))
  <2>1. Fr = Len(frames)
    BY DEF Fr
  <2> QED
    BY <1>3, <1>7, <2>1, NestsSame
<1>17. d.live /\ (Len(blocks) = 0 => b.fr = Root(ctx))
  BY <1>2, <1>6
<1>18. Core(frames, Fr, Append(blocks, b), d, "run", k)
  BY <1>2, <1>3, <1>5, <1>6, <1>7, <1>8, <1>10, <1>11, <1>12, <1>13, <1>14, <1>15, <1>16,
     <1>17, CorePush
<1>19. Fr' = Fr
  BY <1>1 DEF Fr
<1> QED
  BY <1>1, <1>7, <1>18, <1>19, RunsOn

-----------------------------------------------------------------------------
(* Functions and their scopes.  A scope on top is scanned.                 *)
LEMMA ScopeIsScanned ==
  ASSUME NEW fs, fs \in Seq(Frames), NEW n \in Nat \ {0}, n = Len(fs), NEW bs \in Seq(Blocks),
         Nested(bs, n), NEW p, ScopesFit(fs, n, bs, p), Len(bs) > 0,
         bs[Len(bs)].kind = "scope", bs[Len(bs)].fr = n
  PROVE  ScopeTop(bs, n) /\ Scans(fs)
<1> DEFINE ls == Front(bs)
           b == Last(bs)
<1>1. ScopeTop(bs, n)
  BY OnlyScope
<1>2. bs # << >> /\ Len(bs) \in Nat
  OBVIOUS
<1>3. /\ ls \in Seq(Blocks) /\ b \in Blocks /\ bs = Append(ls, b) /\ Len(ls) = Len(bs) - 1
      /\ b = bs[Len(bs)]
  BY <1>2, FrontLast
<1> HIDE DEF ls, b
<1>4. Grows(ls, b, bs) /\ Len(ls) \in Nat
  <2>1. Grows(ls, b, Append(ls, b)) /\ Len(ls) \in Nat
    BY ONLY <1>3, AppendGrows
  <2> QED
    BY ONLY <1>3, <2>1
<1>5. \A i \in 1 .. Len(ls) : ls[i].fr # n
  <2>1. ASSUME NEW i \in 1 .. Len(ls)
        PROVE  i \in 1 .. Len(bs) - 1 /\ ls[i] = bs[i]
    BY ONLY <1>2, <1>3, <1>4, <2>1 DEF Grows
  <2> QED
    BY <1>1, <2>1 DEF ScopeTop
<1>6. TriesOf(ls, n) = 0
  BY <1>4, <1>5, TriesNone
<1>7. TriesOf(bs, n) = 0
  <2>1. b.kind # "try"
    BY <1>3
  <2>2. TriesOf(bs, n) = TriesOf(ls, n) + 0
    BY ONLY <1>4, <2>1, TriesOfGrows
  <2> QED
    BY <1>6, <2>2
<1>8. fs[n].guards_used
  <2>1. BlockFits(fs, bs[Len(bs)])
    BY <1>2 DEF ScopesFit
  <2> QED
    BY <2>1 DEF BlockFits
<1>9. fs[n].nesting_level = 0
  <2>1. FrameFits(fs, n, bs, p, n)
    BY DEF ScopesFit
  <2> QED
    BY <1>7, <1>8, <2>1 DEF FrameFits
<1> QED
  BY <1>1, <1>8, <1>9, ScanningFacts

LEMMA InScopeControl == ASSUME IInv, Control, LandInScope PROVE Control'
<1> DEFINE p == "land"
           k == 0
           target == "scope"
           gs == Scanning(frames, "failure", target)
           code == ctx.exc_nodes[ctx.exc_used].code
<1>1. /\ Lands("scope") /\ frames' = gs /\ blocks' = blocks /\ ctx' = ctx
      /\ pc' = IF Scans(frames) THEN "visit" ELSE "leaving"
  BY DEF LandInScope
<1>2. /\ Core(frames, Fr, blocks, ctx, p, k) /\ ctx.live /\ Len(blocks) > 0
      /\ blocks[Len(blocks)].kind = "scope" /\ blocks[Len(blocks)].fr = Fr /\ pc = p
  BY <1>1, LandsOn
<1>3. /\ Fr \in Nat \ {0} /\ frames \in Seq(Frames) /\ ctx \in Contexts /\ Plain(p)
      /\ blocks \in Seq(Blocks) /\ FramesOK(frames)
  BY FrType DEF IInv, FramesOK, Plain
<1>4. Clear(code, blocks, Len(blocks))
  BY <1>2 DEF Control, Consistent, ThrownClear, Unwound
<1>5. /\ target # "none" /\ k = WaitsOf(target) /\ Unwinds(p) = ThrownOf(target) /\ k \in Int
  BY DEF WaitsOf, ThrownOf, Throws, Targets, Unwinds, Unwound
<1>6. Fr = Len(frames)
  BY DEF Fr
<1> HIDE DEF p, k, target, code
<1>7. ScopeTop(blocks, Fr) /\ Scans(frames)
  BY <1>2, <1>3, <1>6, ScopeIsScanned DEF Core
<1>8. Scanned(frames, gs, Fr, target)
  BY <1>3, <1>6, <1>7, ScanningFacts
<1>8a. Len(gs) = Fr
  BY <1>3, <1>6, ScanningLength
<1> HIDE DEF gs
<1>9. Core(gs, Fr, blocks, ctx, "visit", 0)
  BY <1>2, <1>3, <1>4, <1>5, <1>7, <1>8, CoreScan DEF code
<1>10. pc' = "visit" /\ Fr' = Fr
  BY <1>1, <1>7, <1>8a DEF Fr
<1>11. Consistent(frames', Fr', blocks', ctx', pc')
  BY <1>1, <1>9, <1>10 DEF Consistent, ThrownClear, Unwound
<1> QED
  BY <1>10, <1>11, GoesOn

LEMMA LeaveScopeControl == ASSUME IInv, Control, LeaveScope PROVE Control'
<1>1. /\ pc = "leaving" /\ ctx' = Entered /\ frames' = EnteredFrames /\ pc' = "propagate"
      /\ blocks' = blocks
  BY DEF LeaveScope
<1>2. /\ EnteredFits("leaving") /\ EnteredAlike /\ Core(frames, Fr, blocks, ctx, "leaving", 0)
      /\ Fr \in Nat \ {0} /\ Len(EnteredFrames) = Fr
  BY <1>1, EnteredFrom
<1>3. Core(EnteredFrames, Fr, blocks, Entered, "leaving", 1) /\ Entered \in Contexts
      /\ blocks \in Seq(Blocks)
  BY <1>2 DEF EnteredFits, EnteredAlike, IInv
<1>4. Core(EnteredFrames, Fr, blocks, Entered, "propagate", 0)
  BY <1>2, <1>3, ToPropagate
<1>5. ThrownClear(blocks, Entered, "propagate")
  <2>1. ctx.live
    BY <1>2 DEF Core, Counted
  <2>2. Entered.exc_nodes = ctx.exc_nodes /\ Entered.exc_used = ctx.exc_used
    BY <1>2, <2>1 DEF EnteredAlike
  <2>3. Clear(ctx.exc_nodes[ctx.exc_used].code, blocks, Len(blocks))
    BY <1>1 DEF Control, Consistent, ThrownClear, Unwound
  <2> QED
    BY <2>2, <2>3 DEF ThrownClear
<1>6. Fr' = Fr
  BY <1>1, <1>2 DEF Fr
<1>7. Consistent(frames', Fr', blocks', ctx', pc')
  BY <1>1, <1>4, <1>5, <1>6 DEF Consistent
<1> QED
  BY <1>1, <1>7, GoesOn

(* A call.                                                                 *)
LEMMA CoreCall ==
  ASSUME NEW fs, NEW gs, NEW n \in Nat \ {0}, NEW bs \in Seq(Blocks), NEW c,
         Core(fs, n, bs, c, "run", 0), \A f \in 1 .. n : gs[f] = fs[f],
         gs[n + 1].skit_thread_ctx = IF c.live THEN "live" ELSE "null",
         ~ gs[n + 1].guards_used, gs[n + 1].scope_fn_exit = "none"
  PROVE  Core(gs, n + 1, bs, c, "run", 0)
<1> DEFINE m == n + 1
           live == c.live
           r == Root(c)
<1>1. /\ Nested(bs, n) /\ ScopesFit(fs, n, bs, "run") /\ PointersFit(fs, n, bs, live, r)
      /\ Counted(fs, n, bs, c, "run", 0) /\ ThrowsFit(fs, bs, c.exc_nodes)
  BY DEF Core
<1>2. \A i \in 1 .. Len(bs) : bs[i].fr \in 1 .. n
  BY <1>1 DEF Nested
<1>3. Nested(bs, m)
  BY <1>1, NestedIn
<1>4. ScopesFit(gs, m, bs, "run")
  BY <1>1, <1>2, ScopesCall
<1>5. PointersFit(gs, m, bs, live, r)
  <2>1. gs[n + 1].skit_thread_ctx = IF live THEN "live" ELSE "null"
    OBVIOUS
  <2> HIDE DEF live, r
  <2> QED
    BY <1>1, <2>1, PointersCall
<1>6. ThrowsFit(gs, bs, c.exc_nodes)
  BY <1>1, <1>2, ThrowsStay
<1>7. ASSUME NEW T, "none" \notin T
      PROVE  Rank(gs, T, m) = Rank(fs, T, n)
  <2>1. Rank(gs, T, n) = Rank(fs, T, n) /\ Rank(gs, T, n) \in Nat
    BY RankAgrees, RankType
  <2>2. gs[m].scope_fn_exit \notin T /\ m \in Nat \ {0} /\ m - 1 = n
    BY <1>7
  <2>3. Rank(gs, T, m) = Rank(gs, T, n) + 0
    <3> HIDE DEF m
    <3> QED
      BY <2>2, RankStep
  <2> QED
    BY <2>1, <2>3
<1>8. Rank(gs, Throws, m) = Rank(fs, Throws, n) /\ Rank(gs, Targets, m) = Rank(fs, Targets, n)
  <2>1. "none" \notin Throws /\ "none" \notin Targets
    BY DEF Throws, Targets
  <2> QED
    BY <1>7, <2>1
<1> HIDE DEF m
<1>9. Counted(gs, m, bs, c, "run", 0)
  BY <1>1, <1>8 DEF Counted, ChecksFit, UsedFits, Need
<1>10. Core(gs, m, bs, c, "run", 0)
  BY <1>3, <1>4, <1>5, <1>6, <1>9 DEF Core, live, r
<1> QED
  BY <1>10 DEF m

LEMMA CallControl == ASSUME IInv, Control, Call PROVE Control'
<1> DEFINE g == NewFrame(IF ctx.live THEN "live" ELSE "null")
<1>1. /\ pc = "run" /\ frames' = Append(frames, g) /\ blocks' = blocks /\ ctx' = ctx /\ pc' = "run"
  BY DEF Call
<1>2. Core(frames, Fr, blocks, ctx, "run", 0) /\ blocks \in Seq(Blocks)
  BY <1>1 DEF Control, Consistent, IInv
<1>3. Fr \in Nat \ {0} /\ Fr = Len(frames) /\ frames \in Seq(Frames)
  BY FrType DEF IInv
<1>4. /\ g.skit_thread_ctx = (IF ctx.live THEN "live" ELSE "null")
      /\ ~ g.guards_used /\ g.scope_fn_exit = "none"
  BY DEF NewFrame
<1>4a. g \in Frames
  BY <1>4 DEF NewFrame, Frames
<1> HIDE DEF g
<1>5. /\ Len(frames') = Fr + 1 /\ frames'[Fr + 1] = g
      /\ \A f \in 1 .. Fr : frames'[f] = frames[f]
  BY <1>1, <1>3, <1>4a, AppendFacts
<1>6. Fr' = Fr + 1
  BY <1>5 DEF Fr
<1>7. Core(frames', Fr + 1, blocks, ctx, "run", 0)
  BY <1>2, <1>3, <1>4, <1>5, CoreCall
<1> QED
  BY <1>1, <1>6, <1>7, RunsOn

-----------------------------------------------------------------------------
(* A return, with guards to run first or without.                          *)
LEMMA CoreReturn ==
  ASSUME NEW fs, NEW gs, NEW n \in Nat \ {0}, n > 1, NEW bs \in Seq(Blocks), NEW c,
         Core(fs, n, bs, c, "run", 0), ~ Owns(bs, n), \A f \in 1 .. n - 1 : gs[f] = fs[f]
  PROVE  Core(gs, n - 1, bs, c, "run", 0)
<1> DEFINE m == n - 1
           live == c.live
           r == Root(c)
           p == "run"
<1>1. /\ Nested(bs, n) /\ ScopesFit(fs, n, bs, p) /\ PointersFit(fs, n, bs, live, r)
      /\ Counted(fs, n, bs, c, p, 0) /\ ThrowsFit(fs, bs, c.exc_nodes)
  BY DEF Core
<1>2. m \in 1 .. n /\ m \in Nat /\ n \in Nat /\ m <= n /\ m + 1 = n
  OBVIOUS
<1>3. \A i \in 1 .. Len(bs) : bs[i].fr \in 1 .. m
  <2>1. \A i \in 1 .. Len(bs) : bs[i].fr \in 1 .. n /\ bs[i].fr # n
    BY <1>1 DEF Nested, Owns
  <2> QED
    BY <1>2, <2>1
<1>3a. \A f \in 1 .. m : gs[f] = fs[f]
  OBVIOUS
<1>3b. p \notin Visits /\ p \notin Leaves
  BY DEF Visits, Leaves
<1>4. live => r \in 1 .. m
  <2>1. ASSUME c.live
        PROVE  Root(c) \in 1 .. m
    <3>1. Len(bs) > 0 /\ bs[1].fr = Root(c)
      BY <2>1, LiveHasBlocks
    <3> QED
      BY <1>3, <3>1
  <2> QED
    BY <2>1
<1> HIDE DEF m, live, r, p
<1>5. Nested(bs, m)
  <2>1. \A i \in 1 .. Len(bs) : bs[i].fr <= m
    BY <1>2, <1>3
  <2> QED
    BY <1>1, <1>2, <2>1, NestedIn
<1>6. ScopesFit(gs, m, bs, p)
  BY <1>1, <1>2, <1>3, <1>3a, <1>3b, ScopesCut
<1>7. PointersFit(gs, m, bs, live, r)
  <2>1. live => r <= m
    BY <1>2, <1>4
  <2> QED
    BY <1>1, <1>2, <1>3a, <2>1, PointersCut
<1>8. ThrowsFit(gs, bs, c.exc_nodes)
  BY <1>1, <1>2, <1>3, <1>3a, ThrowsStay
<1>9. Rank(gs, Throws, m) = Rank(fs, Throws, n) /\ Rank(gs, Targets, m) = Rank(fs, Targets, n)
  <2> DEFINE T == Throws  U == Targets
  <2>1. "none" \notin T /\ "none" \notin U
    BY DEF Throws, Targets
  <2> HIDE DEF T, U
  <2>2. ScopesFit(fs, n, bs, p) /\ n \in Nat \ {0}
    BY <1>1
  <2>3. Rank(gs, T, m) = Rank(fs, T, n)
    BY ONLY <1>2, <1>3, <1>3a, <1>3b, <2>1, <2>2, CutCounts
  <2>4. Rank(gs, U, m) = Rank(fs, U, n)
    BY ONLY <1>2, <1>3, <1>3a, <1>3b, <2>1, <2>2, CutCounts
  <2> QED
    BY <2>3, <2>4 DEF T, U
<1>10. Counted(gs, m, bs, c, p, 0)
  BY <1>1, <1>9 DEF Counted, ChecksFit, UsedFits, Need
<1>11. Core(gs, m, bs, c, "run", 0)
  BY <1>5, <1>6, <1>7, <1>8, <1>10 DEF Core, live, r, p
<1> QED
  BY <1>11 DEF m

LEMMA NotOwning ==
  ASSUME IInv, ~ Own, Nested(blocks, Fr)
  PROVE  ~ Owns(blocks, Fr)
<1> SUFFICES ASSUME Owns(blocks, Fr)
             PROVE  FALSE
  OBVIOUS
<1>1. blocks \in Seq(Blocks) /\ Fr \in Nat
  BY FrType DEF IInv
<1>2. Len(blocks) > 0 /\ blocks[Len(blocks)].fr = Fr
  BY <1>1, InnermostOwn
<1>3. blocks # << >>
  BY <1>1, <1>2
<1>4. Last(blocks) = blocks[Len(blocks)]
  BY <1>1, <1>3, FrontLast
<1> QED
  BY <1>2, <1>3, <1>4 DEF Own

LEMMA ReturnControl == ASSUME IInv, Control, Return PROVE Control'
<1>1. /\ pc = "run" /\ Fr > 1 /\ (Own => Inside("scope"))
      /\ blocks' = blocks /\ ctx' = ctx
  BY DEF Return, AtStatement
<1>2. /\ Core(frames, Fr, blocks, ctx, "run", 0) /\ blocks \in Seq(Blocks)
      /\ ctx \in Contexts /\ FramesOK(frames) /\ frames \in Seq(Frames)
      /\ Fr \in Nat \ {0} /\ Fr = Len(frames)
  BY <1>1, FrType DEF Control, Consistent, IInv, FramesOK
<1>3. Nested(blocks, Fr) /\ ScopesFit(frames, Fr, blocks, "run")
      /\ PointersFit(frames, Fr, blocks, ctx.live, Root(ctx))
  BY <1>2 DEF Core
<1>4. CASE Scans(frames)
  <2> DEFINE p == "run"
             k == 0
             target == "return"
             gs == Scanning(frames, "success", target)
  <2>1. frames' = gs /\ pc' = "visit"
    BY <1>4 DEF Return
  <2>2. /\ frames[Fr].nesting_level = 0 /\ frames[Fr].guards_used
        /\ Scanned(frames, gs, Fr, target)
    BY <1>2, <1>4, ScanningFacts
  <2>3. /\ target # "none" /\ k = WaitsOf(target) /\ Unwinds(p) = ThrownOf(target) /\ k \in Int
        /\ Plain(p) /\ target \notin Targets
    BY DEF WaitsOf, ThrownOf, Throws, Targets, Unwinds, Unwound, Plain
  <2>4. Core(frames, Fr, blocks, ctx, p, k) /\ ScopesFit(frames, Fr, blocks, p)
    BY <1>2, <1>3
  <2>5. Len(gs) = Fr
    BY <1>2, ScanningLength
  <2> HIDE DEF p, k, target, gs
  <2>6. ctx.live
    <3>1. Fr \in 1 .. Fr
      BY <1>2
    <3>2. ~ ctx.live => ~ frames[Fr].guards_used
      BY <1>3, <3>1 DEF PointersFit, PointerFits
    <3> QED
      BY <2>2, <3>2
  <2>7. Len(blocks) > 0 /\ blocks[Len(blocks)].fr = Fr =>
          blocks[Len(blocks)].kind \notin {"trace", "guard"}
    <3>1. ASSUME Len(blocks) > 0, blocks[Len(blocks)].fr = Fr
          PROVE  blocks[Len(blocks)].kind = "scope"
      <4>1. blocks # << >>
        BY <1>2, <3>1
      <4>2. Last(blocks) = blocks[Len(blocks)]
        BY <1>2, <4>1, FrontLast
      <4> QED
        BY <1>1, <3>1, <4>1, <4>2 DEF Own, Inside
    <3> QED
      BY <3>1
  <2>8. ScopeTop(blocks, Fr)
    BY <1>2, <1>3, <2>2, <2>3, <2>4, <2>7, ScopeOnTop
  <2>9. Core(gs, Fr, blocks, ctx, "visit", 0)
    BY <1>2, <2>2, <2>3, <2>4, <2>6, <2>8, CoreScan
  <2>10. Fr' = Fr
    BY <2>1, <2>5 DEF Fr
  <2>11. Consistent(frames', Fr', blocks', ctx', pc')
    BY <1>1, <2>1, <2>9, <2>10 DEF Consistent, ThrownClear, Unwound
  <2> QED
    BY <2>1, <2>11, GoesOn
<1>5. CASE ~ Scans(frames)
  <2>1. frames' = Front(frames) /\ pc' = "run"
    BY <1>5 DEF Return
  <2>2. ~ Own
    <3>1. ASSUME Inside("scope")
          PROVE  FALSE
      <4>1. Len(blocks) > 0 /\ blocks[Len(blocks)].kind = "scope" /\ blocks[Len(blocks)].fr = Fr
        BY <3>1, TopOf
      <4> QED
        BY <1>2, <1>3, <1>5, <4>1, ScopeIsScanned
    <3> QED
      BY <1>1, <3>1
  <2>3. ~ Owns(blocks, Fr)
    BY <1>3, <2>2, NotOwning
  <2>4. Len(frames') = Fr - 1 /\ \A f \in 1 .. Fr - 1 : frames'[f] = frames[f]
    <3>1. Fr - 1 \in 0 .. Len(frames)
      BY <1>1, <1>2
    <3>2. frames' = SubSeq(frames, 1, Fr - 1)
      BY <1>2, <2>1 DEF Front
    <3> QED
      BY <1>2, <3>1, <3>2, PrefixType
  <2>5. Fr' = Fr - 1
    BY <2>4 DEF Fr
  <2>6. Core(frames', Fr - 1, blocks, ctx, "run", 0)
    BY <1>1, <1>2, <2>3, <2>4, CoreReturn
  <2> QED
    BY <1>1, <2>1, <2>5, <2>6, RunsOn
<1> QED
  BY <1>4, <1>5

-----------------------------------------------------------------------------
(* Scope guards are registered: function n, outside of any construct of    *)
(* its own, opens its scope.                                               *)
ScopeEntered(fs, gs, n) ==
  /\ \A f \in 1 .. n : /\ gs[f].nesting_level = fs[f].nesting_level
                        /\ gs[f].skit_thread_ctx = fs[f].skit_thread_ctx
                        /\ gs[f].scope_fn_exit = fs[f].scope_fn_exit
  /\ \A f \in 1 .. n - 1 : gs[f].guards_used = fs[f].guards_used
  /\ gs[n].guards_used /\ gs[n].nesting_level = 0

LEMMA CorePushScope ==
  ASSUME NEW fs, NEW gs, NEW n \in Nat \ {0}, NEW bs \in Seq(Blocks), NEW b \in Blocks,
         NEW c \in Contexts, NEW d \in Contexts, Core(fs, n, bs, c, "run", 1), c.live, d.live,
         Len(bs) > 0, n > Root(c), ~ Owns(bs, n), b.fr = n, b.kind = "scope",
         Stacks(Append(bs, b), d, "run"), Root(d) = Root(c), d.exc_nodes = c.exc_nodes,
         d.exc_used = c.exc_used, d.entry_check_count = c.entry_check_count,
         ScopeEntered(fs, gs, n)
  PROVE  Core(gs, n, Append(bs, b), d, "run", 0)
<1>0. /\ \A f \in 1 .. n : gs[f].nesting_level = fs[f].nesting_level
                           /\ gs[f].skit_thread_ctx = fs[f].skit_thread_ctx
                           /\ gs[f].scope_fn_exit = fs[f].scope_fn_exit
      /\ \A f \in 1 .. n - 1 : gs[f].guards_used = fs[f].guards_used
      /\ gs[n].guards_used /\ gs[n].nesting_level = 0
  BY DEF ScopeEntered
<1> DEFINE cs == Append(bs, b)
           r == Root(c)
<1>1. /\ Nested(bs, n) /\ ScopesFit(fs, n, bs, "run") /\ PointersFit(fs, n, bs, TRUE, r)
      /\ Counted(fs, n, bs, c, "run", 1) /\ ThrowsFit(fs, bs, c.exc_nodes)
  BY DEF Core
<1>2. \A i \in 1 .. Len(bs) : bs[i].fr \in 1 .. n /\ bs[i].fr # n
  BY <1>1 DEF Nested, Owns
<1>3. Nested(cs, n)
  <2>1. bs # << >> /\ \A j \in 1 .. Len(bs) : bs[j].fr < n
    BY <1>2
  <2>2. Len(bs) \in 1 .. Len(bs)
    OBVIOUS
  <2>3. /\ bs[Len(bs)].fr < n /\ n > 0 /\ n \in Nat
        /\ b.kind # "bottom" /\ b.kind # "catch" /\ b.kind # "guard"
    BY <2>1, <2>2
  <2> QED
    BY <1>1, <2>1, <2>3, NestedPush
<1>4. Grows(bs, b, cs) /\ Len(bs) \in Nat /\ Len(cs) \in Nat
  BY AppendGrows, AppendFacts
<1>4a. \A i \in 1 .. Len(bs) : bs[i].fr \in 1 .. n - 1
  BY <1>2
<1>4b. Stacks(cs, d, "run")
  OBVIOUS
<1> HIDE DEF cs, r
<1>5. ScopesFit(gs, n, cs, "run")
  BY <1>0, <1>1, <1>4, <1>4a, ScopesPushScope
<1>6. PointersFit(gs, n, cs, TRUE, r)
  <2>1. \A f \in 1 .. n - 1 : SamePointer(fs[f], gs[f])
    BY <1>0 DEF SamePointer
  <2>2. n > r /\ gs[n].skit_thread_ctx = fs[n].skit_thread_ctx /\ n \in Nat
    BY <1>0 DEF r
  <2> QED
    BY <1>1, <1>4, <2>1, <2>2, PointersPushScope
<1>7. ThrowsFit(gs, cs, d.exc_nodes)
  <2>1. fs[n].scope_fn_exit = "none"
    <3>1. n \in 1 .. n /\ "run" \notin Visits
      BY DEF Visits
    <3> QED
      BY <1>1, <3>1, NoScan
  <2>2. CatchFits(fs, b) /\ (b.kind = "scope" => fs[b.fr].scope_fn_exit \notin Targets)
    BY <2>1 DEF CatchFits, Targets
  <2>3. ThrowsFit(fs, cs, c.exc_nodes)
    BY <1>1, <1>4, <2>2, ThrowsPush
  <2>4. \A i \in 1 .. Len(cs) : cs[i].fr \in 1 .. n
    BY <1>3 DEF Nested
  <2> QED
    BY <1>0, <2>3, <2>4, ThrowsStay
<1>8. /\ Rank(gs, Throws, n) = Rank(fs, Throws, n) /\ Rank(gs, Targets, n) = Rank(fs, Targets, n)
      /\ Rank(gs, Throws, n) \in Nat
  <2>1. SameScans(fs, gs, n) /\ n \in 0 .. n
    BY <1>0 DEF SameScans
  <2> QED
    BY <2>1, SameRank, RankType
<1>9. Need(gs, n, cs, "run") = Need(fs, n, bs, "run") + 1 /\ Need(fs, n, bs, "run") \in Nat
  <2>1. Checked(cs) = Checked(bs) + 1 /\ Checked(bs) \in Nat
    BY <1>4, CheckedGrows DEF CheckedKinds
  <2>2. Propagates("run") = 0
    BY DEF Propagates
  <2> QED
    BY <1>8, <2>1, <2>2 DEF Need, Owed
<1>10. Counted(gs, n, cs, d, "run", 0)
  BY <1>1, <1>8, <1>9 DEF Counted, ChecksFit, UsedFits
<1>11. d.live = TRUE
  BY DEF Contexts
<1> QED
  BY <1>3, <1>4b, <1>5, <1>6, <1>7, <1>10, <1>11 DEF Core, StacksFit, cs, r

(* Only the stack of guards changes.                                       *)
LEMMA CoreRestack ==
  ASSUME NEW fs, NEW n, NEW bs, NEW c, NEW d, NEW p \in {"run"} \cup Visits,
         NEW q \in {"run"} \cup Visits, p \in Visits <=> q \in Visits, NEW k,
         Core(fs, n, bs, c, p, k), c.live, d.live = c.live, Stacks(bs, d, q),
         d.exc_jmp_stack = c.exc_jmp_stack, d.exc_nodes = c.exc_nodes,
         d.exc_used = c.exc_used, d.entry_check_count = c.entry_check_count
  PROVE  Core(fs, n, bs, d, q, k)
<1>1. /\ p \notin Leaves /\ Propagates(p) = Propagates(q) /\ Unwinds(p) = Unwinds(q)
      /\ p # "land" /\ q # "land"
  BY DEF Propagates, Unwinds, Unwound, Leaves, Visits
<1>2. ScopesFit(fs, n, bs, q)
  BY <1>1, ScopesStay DEF Core
<1>3. Counted(fs, n, bs, d, q, k)
  <2>1. Need(fs, n, bs, p) = Need(fs, n, bs, q)
    BY <1>1 DEF Need, Owed
  <2> QED
    BY <1>1, <2>1 DEF Core, Counted, ChecksFit, UsedFits
<1>4. Root(d) = Root(c)
  BY DEF Root
<1> QED
  BY <1>2, <1>3, <1>4 DEF Core, StacksFit

LEMMA ScopeJmpsMade ==
  ASSUME IInv, NEW mask \in Masks, NEW at \in Nat
  PROVE  LET exit == ScopeJmp(at, TRUE, {})
             guard == ScopeJmp(at, FALSE, mask)
         IN  /\ exit \in ScopeJmps /\ exit.at = at /\ exit.fr = Fr /\ exit.exit
             /\ guard \in ScopeJmps /\ guard.at = at /\ guard.fr = Fr /\ ~ guard.exit
<1>1. {} \in SUBSET {"success", "failure"} /\ mask \in SUBSET {"success", "failure"}
  BY MasksAssumption
<1>2. ScopeJmp(at, TRUE, {}) \in ScopeJmps /\ ScopeJmp(at, FALSE, mask) \in ScopeJmps
  BY <1>1, ScopeJmpType
<1> QED
  BY <1>2 DEF ScopeJmp

GuardsUsedIn(fs, gs, n) ==
  /\ Len(gs) = n
  /\ \A f \in 1 .. n : gs[f].nesting_level = fs[f].nesting_level
                       /\ gs[f].skit_thread_ctx = fs[f].skit_thread_ctx
                       /\ gs[f].scope_fn_exit = fs[f].scope_fn_exit
  /\ \A f \in 1 .. n - 1 : gs[f].guards_used = fs[f].guards_used
  /\ gs[n].guards_used

LEMMA GuardsUsedFacts ==
  ASSUME NEW fs, fs \in Seq(Frames), NEW n \in Nat \ {0}, n = Len(fs)
  PROVE  GuardsUsedIn(fs, [fs EXCEPT ![n].guards_used = TRUE], n)
<1> DEFINE gs == [fs EXCEPT ![n].guards_used = TRUE]
<1>1. Len(gs) = n /\ \A f \in 1 .. n - 1 : gs[f] = fs[f]
  OBVIOUS
<1>2. n \in DOMAIN fs /\ fs[n] \in Frames
  OBVIOUS
<1>2a. gs[n] = [fs[n] EXCEPT !.guards_used = TRUE]
  BY <1>2, Zenon
<1>3. /\ gs[n].nesting_level = fs[n].nesting_level
      /\ gs[n].skit_thread_ctx = fs[n].skit_thread_ctx
      /\ gs[n].scope_fn_exit = fs[n].scope_fn_exit /\ gs[n].guards_used = TRUE
  <2>1. \A f \in Frames : LET g == [f EXCEPT !.guards_used = TRUE]
                          IN  /\ g.nesting_level = f.nesting_level
                              /\ g.skit_thread_ctx = f.skit_thread_ctx
                              /\ g.scope_fn_exit = f.scope_fn_exit /\ g.guards_used = TRUE
    BY DEF Frames
  <2> QED
    BY <1>2, <1>2a, <2>1
<1>4. \A f \in 1 .. n : f \in 1 .. n - 1 \/ f = n
  OBVIOUS
<1> HIDE DEF gs
<1>5. /\ \A f \in 1 .. n : gs[f].nesting_level = fs[f].nesting_level
                           /\ gs[f].skit_thread_ctx = fs[f].skit_thread_ctx
                           /\ gs[f].scope_fn_exit = fs[f].scope_fn_exit
      /\ \A f \in 1 .. n - 1 : gs[f].guards_used = fs[f].guards_used
  BY <1>1, <1>3, <1>4
<1> QED
  BY <1>1, <1>3, <1>5 DEF gs, GuardsUsedIn

(* A function registers its first guard below the construct that made the  *)
(* context, and outside of any construct of its own.                       *)
LEMMA FirstGuardPlace ==
  ASSUME PlainUses, IInv, Control, MayGuard, ~ Me.guards_used
  PROVE  /\ ctx.live /\ Len(blocks) > 0 /\ ~ Owns(blocks, Fr) /\ Fr > Root(ctx)
         /\ frames[Fr].nesting_level = 0
<1>1. /\ pc = "run" /\ (Own => Inside("scope")) /\ frames[Fr].skit_thread_ctx # "null"
      /\ frames[Fr].nesting_level = 0 /\ ~ frames[Fr].guards_used
  BY DEF MayGuard, AtStatement, PlainUses, Me
<1>2. /\ Core(frames, Fr, blocks, ctx, "run", 0) /\ blocks \in Seq(Blocks)
      /\ Fr \in Nat \ {0} /\ Fr \in 1 .. Fr
  BY <1>1, FrType DEF Control, Consistent, IInv
<1>3. Nested(blocks, Fr) /\ ScopesFit(frames, Fr, blocks, "run")
      /\ PointersFit(frames, Fr, blocks, ctx.live, Root(ctx))
  BY <1>2 DEF Core
<1>4. ctx.live
  BY <1>1, <1>2, <1>3 DEF PointersFit, PointerFits
<1>5. ~ Own
  <2>1. ASSUME Inside("scope")
        PROVE  FALSE
    <3>1. Len(blocks) > 0 /\ blocks[Len(blocks)].kind = "scope" /\ blocks[Len(blocks)].fr = Fr
      BY <2>1, TopOf
    <3>2. Len(blocks) \in 1 .. Len(blocks)
      BY <1>2, <3>1
    <3>3. BlockFits(frames, blocks[Len(blocks)])
      BY <1>3, <3>2 DEF ScopesFit
    <3> QED
      BY <1>1, <3>1, <3>3 DEF BlockFits
  <2> QED
    BY <1>1, <2>1
<1>6. ~ Owns(blocks, Fr)
  BY <1>3, <1>5, NotOwning
<1>7. Len(blocks) > 0 /\ RootFits(Fr, blocks, Root(ctx)) /\ blocks[1].fr = Root(ctx)
  <2> DEFINE p == "run"
  <2>1. p \notin {"propagate", "land"} /\ Core(frames, Fr, blocks, ctx, p, 0)
    BY <1>2
  <2> HIDE DEF p
  <2> QED
    BY <1>2, <1>4, <2>1, LiveHasBlocks
<1>8. Fr > Root(ctx)
  <2>1. 1 \in 1 .. Len(blocks) /\ Root(ctx) \in 1 .. Fr
    BY <1>2, <1>7 DEF RootFits
  <2>2. Root(ctx) # Fr
    BY <1>6, <1>7, <2>1 DEF Owns
  <2> QED
    BY <1>2, <2>1, <2>2
<1> QED
  BY <1>1, <1>4, <1>6, <1>7, <1>8

LEMMA FirstGuardControl ==
  ASSUME PlainUses, IInv, Control, NEW mask \in Masks, FirstGuard(mask)
  PROVE  Control'
<1> DEFINE at == Len(blocks) + 1
           b == Block("scope")
           c == Entered
           exit == ScopeJmp(at, TRUE, {})
           guard == ScopeJmp(at, FALSE, mask)
           d == [Guarded(c, b) EXCEPT !.scope_jmp_stack = @ \o <<exit, guard>>]
           gs == [frames EXCEPT ![Fr].guards_used = TRUE]
<1>1. /\ MayGuard /\ ~ Me.guards_used /\ pc = "run" /\ ctx' = d /\ pc' = "run"
      /\ blocks' = Append(blocks, b)
      /\ frames' = [EnteredFrames EXCEPT ![Fr].guards_used = TRUE]
  BY DEF FirstGuard, MayGuard, AtStatement
<1>2. /\ ctx.live /\ Len(blocks) > 0 /\ ~ Owns(blocks, Fr) /\ Fr > Root(ctx)
      /\ frames[Fr].nesting_level = 0
  BY <1>1, FirstGuardPlace
<1>3. /\ EnteredFits("run") /\ EnteredAlike /\ Nested(blocks, Fr) /\ Fr \in Nat \ {0}
      /\ frames \in Seq(Frames) /\ EnteredFrames = frames
  <2>1. EnteredFits("run") /\ EnteredAlike /\ Nested(blocks, Fr) /\ Fr \in Nat \ {0}
    BY <1>1, EnteredFrom
  <2> QED
    BY <1>2, <2>1 DEF EnteredAlike, IInv, FramesOK
<1>4. Len(frames) = Fr
  BY DEF Fr
<1>5. /\ Core(frames, Fr, blocks, c, "run", 1) /\ c.live /\ c \in Contexts
      /\ blocks \in Seq(Blocks)
  BY <1>3 DEF EnteredFits, EnteredAlike, IInv
<1>5a. Root(c) = Root(ctx)
  <2>1. frames[Fr].skit_thread_ctx # "null"
    BY <1>1 DEF MayGuard, PlainUses, Me
  <2>2. c.exc_jmp_stack = ctx.exc_jmp_stack
    BY <2>1 DEF Entered, Me, IInv, Contexts
  <2> QED
    BY <2>2 DEF Root
<1>6. b \in Blocks /\ b.kind = "scope" /\ b.fr = Fr
  BY <1>3, BlockType DEF Block, Kinds
<1>7. at \in Nat
  BY <1>5
<1>8. /\ exit \in ScopeJmps /\ exit.at = at /\ exit.fr = Fr /\ exit.exit
      /\ guard \in ScopeJmps /\ guard.at = at /\ guard.fr = Fr /\ ~ guard.exit
  BY <1>7, ScopeJmpsMade
<1>9. /\ Len(gs) = Fr
      /\ \A f \in 1 .. Fr : gs[f].nesting_level = frames[f].nesting_level
                            /\ gs[f].skit_thread_ctx = frames[f].skit_thread_ctx
                            /\ gs[f].scope_fn_exit = frames[f].scope_fn_exit
      /\ \A f \in 1 .. Fr - 1 : gs[f].guards_used = frames[f].guards_used
      /\ gs[Fr].guards_used
  <2>1. GuardsUsedIn(frames, gs, Fr)
    BY <1>3, <1>4, GuardsUsedFacts
  <2> HIDE DEF gs
  <2> QED
    BY <2>1 DEF GuardsUsedIn
<1>10. frames' = gs
  BY <1>1, <1>3
<1> HIDE DEF b, c, exit, guard, gs
<1>11. /\ d.exc_jmp_stack = Append(c.exc_jmp_stack, Jmp(Len(blocks), b))
       /\ d.try_jmp_stack = c.try_jmp_stack /\ d.debug_depth = c.debug_depth /\ d.live = c.live
       /\ d.exc_nodes = c.exc_nodes /\ d.exc_used = c.exc_used
       /\ d.entry_check_count = c.entry_check_count
       /\ d.scope_jmp_stack = c.scope_jmp_stack \o <<exit, guard>>
  BY <1>5 DEF Guarded, Contexts
<1>12. /\ c.scope_jmp_stack \o <<exit, guard>> = Append(Append(c.scope_jmp_stack, exit), guard)
       /\ c.scope_jmp_stack \o <<exit, guard>> \in Seq(ScopeJmps)
  <2>1. c.scope_jmp_stack \in Seq(ScopeJmps)
    BY <1>5, ContextTypes
  <2>2. <<exit, guard>> \in Seq(ScopeJmps)
    BY <1>8
  <2>3. c.scope_jmp_stack \o <<exit, guard>> \in Seq(ScopeJmps)
    BY <2>1, <2>2
  <2> QED
    BY <1>8, <2>1, <2>3
<1>13. d \in Contexts
  <2>1. Guarded(c, b) \in Contexts /\ Guarded(c, b).scope_jmp_stack = c.scope_jmp_stack
    BY <1>5, <1>6, GuardedType DEF Guarded, Contexts
  <2> QED
    BY <1>12, <2>1, ScopeStackType
<1> HIDE DEF d
<1>14. Stacks(Append(blocks, b), d, "run")
  <2>1. Stacks(blocks, c, "run") /\ at = Len(blocks) + 1
    BY <1>5 DEF Core, StacksFit
  <2>2. d.scope_jmp_stack = Append(Append(c.scope_jmp_stack, exit), guard)
    BY <1>11, <1>12
  <2> QED
    BY <1>5, <1>6, <1>8, <1>11, <2>1, <2>2, StacksPushScope
<1>15. Root(d) = Root(c)
  <2>1. Mirrors(blocks, c.exc_jmp_stack)
    BY <1>5 DEF Core, StacksFit, Stacks
  <2> QED
    BY <1>5, <1>6, <1>11, <2>1, PushJump DEF Root
<1>16. Core(gs, Fr, Append(blocks, b), d, "run", 0)
  <2>1. gs[Fr].nesting_level = 0 /\ Fr > Root(c) /\ d.live
    BY <1>2, <1>3, <1>5, <1>5a, <1>9, <1>11
  <2>2. ScopeEntered(frames, gs, Fr)
    BY <1>9, <2>1 DEF ScopeEntered
  <2>3. /\ Len(blocks) > 0 /\ ~ Owns(blocks, Fr) /\ d.exc_nodes = c.exc_nodes
        /\ d.exc_used = c.exc_used /\ d.entry_check_count = c.entry_check_count
    BY <1>2, <1>11
  <2> QED
    BY ONLY <1>3, <1>5, <1>6, <1>13, <1>14, <1>15, <2>1, <2>2, <2>3, CorePushScope
<1>17. Fr' = Fr
  BY <1>9, <1>10 DEF Fr
<1> QED
  BY <1>1, <1>10, <1>16, <1>17, RunsOn

LEMMA NextGuardControl ==
  ASSUME IInv, Control, NEW mask \in Masks, NextGuard(mask)
  PROVE  Control'
<1> DEFINE guard == ScopeJmp(Len(blocks), FALSE, mask)
           d == [ctx EXCEPT !.scope_jmp_stack = Append(@, guard)]
<1>1. /\ pc = "run" /\ (Own => Inside("scope")) /\ frames[Fr].guards_used
      /\ ctx' = d /\ pc' = "run" /\ blocks' = blocks /\ frames' = frames
  BY DEF NextGuard, MayGuard, AtStatement, Me
<1>2. /\ Core(frames, Fr, blocks, ctx, "run", 0) /\ blocks \in Seq(Blocks)
      /\ Fr \in Nat \ {0} /\ Fr \in 1 .. Fr /\ ctx \in Contexts
  BY <1>1, FrType DEF Control, Consistent, IInv
<1>3. Nested(blocks, Fr) /\ ScopesFit(frames, Fr, blocks, "run")
      /\ PointersFit(frames, Fr, blocks, ctx.live, Root(ctx))
  BY <1>2 DEF Core
<1>4. Owns(blocks, Fr)
  <2>1. FrameFits(frames, Fr, blocks, "run", Fr)
    BY <1>2, <1>3 DEF ScopesFit
  <2>2. ScopeOpen(blocks, Fr)
    BY <1>1, <2>1 DEF FrameFits, Leaves
  <2> QED
    BY <2>2 DEF ScopeOpen, Owns
<1>5. Inside("scope")
  <2>1. ~ Own => ~ Owns(blocks, Fr)
    BY <1>3, NotOwning
  <2> QED
    BY <1>1, <1>4, <2>1
<1>6. Len(blocks) > 0 /\ blocks[Len(blocks)].kind = "scope" /\ blocks[Len(blocks)].fr = Fr
  BY <1>5, TopOf
<1>7. blocks # << >> /\ Len(blocks) \in Nat
  BY <1>2, <1>6
<1>8. ctx.live
  BY <1>3, <1>6 DEF PointersFit
<1>9. guard \in ScopeJmps /\ guard.at = Len(blocks) /\ guard.fr = Fr /\ ~ guard.exit
  BY <1>7, ScopeJmpsMade
<1> HIDE DEF guard
<1>10. /\ d.exc_jmp_stack = ctx.exc_jmp_stack /\ d.try_jmp_stack = ctx.try_jmp_stack
       /\ d.debug_depth = ctx.debug_depth /\ d.live = ctx.live
       /\ d.exc_nodes = ctx.exc_nodes /\ d.exc_used = ctx.exc_used
       /\ d.entry_check_count = ctx.entry_check_count
       /\ d.scope_jmp_stack = Append(ctx.scope_jmp_stack, guard)
  BY <1>2 DEF Contexts
<1> HIDE DEF d
<1>11. Stacks(blocks, d, "run")
  <2>1. Stacks(blocks, ctx, "run")
    BY <1>2, <1>8 DEF Core, StacksFit
  <2> QED
    BY <1>2, <1>6, <1>7, <1>9, <1>10, <2>1, StacksPushGuard
<1>12. Core(frames, Fr, blocks, d, "run", 0)
  <2> DEFINE p == "run"
  <2>1. p \in {"run"} \cup Visits /\ Core(frames, Fr, blocks, ctx, p, 0) /\ Stacks(blocks, d, p)
    BY <1>2, <1>11
  <2> HIDE DEF p
  <2>2. Core(frames, Fr, blocks, d, p, 0)
    BY <1>8, <1>10, <2>1, CoreRestack
  <2> QED
    BY <2>2 DEF p
<1>13. Fr' = Fr
  BY <1>1 DEF Fr
<1> QED
  BY <1>1, <1>12, <1>13, RunsOn

-----------------------------------------------------------------------------
(* Scope guards run, while control is right inside of their function's     *)
(* scope.                                                                  *)
InItsScope(fs, n, bs, c, p) ==
  /\ Len(bs) > 0 /\ bs[Len(bs)].kind = "scope" /\ bs[Len(bs)].fr = n
  /\ fs[n].scope_fn_exit # "none" /\ c.live /\ Stacks(bs, c, p)

LEMMA OpenScope ==
  ASSUME NEW fs, NEW n, NEW bs, NEW c, NEW p \in Visits, NEW k, Core(fs, n, bs, c, p, k)
  PROVE  InItsScope(fs, n, bs, c, p)
<1>1. ScopesFit(fs, n, bs, p) /\ Counted(fs, n, bs, c, p, k) /\ StacksFit(bs, c, p)
  BY DEF Core
<1>2. VisitFits(fs, n, bs)
  BY <1>1 DEF ScopesFit
<1>3. p \notin {"run", "break"}
  BY DEF Visits
<1>4. c.live
  BY <1>1, <1>3 DEF Counted
<1> QED
  BY <1>1, <1>2, <1>4 DEF VisitFits, StacksFit, InItsScope

LEMMA PoppedScopeFacts ==
  ASSUME IInv
  PROVE  /\ PoppedScope \in Contexts
         /\ PoppedScope.scope_jmp_stack = Front(ctx.scope_jmp_stack)
         /\ PoppedScope.exc_jmp_stack = ctx.exc_jmp_stack
         /\ PoppedScope.try_jmp_stack = ctx.try_jmp_stack
         /\ PoppedScope.debug_depth = ctx.debug_depth /\ PoppedScope.live = ctx.live
         /\ PoppedScope.exc_nodes = ctx.exc_nodes /\ PoppedScope.exc_used = ctx.exc_used
         /\ PoppedScope.entry_check_count = ctx.entry_check_count
<1>1. PoppedScope \in Contexts
  BY PoppedScopeType
<1> QED
  BY <1>1 DEF PoppedScope, IInv, Contexts

(* The jump to the next guard stays in the function whose guards are       *)
(* visited, and drops no construct.                                        *)
VisitsHere ==
  /\ VisitIsDefined /\ Visited.fr = Fr /\ Visited.at = Len(blocks)
  /\ VisitFrames = frames /\ VisitBlocks = blocks
  /\ ~ Visited.exit => Stacks(blocks, PoppedScope, "visit")
  /\ Visited.exit => Stacks(blocks, PoppedScope, "visited")

LEMMA VisitDefined ==
  ASSUME IInv, Control, pc = "visit"
  PROVE  VisitsHere
<1>1. /\ blocks \in Seq(Blocks) /\ ctx \in Contexts /\ Fr \in Nat \ {0}
      /\ frames \in Seq(Frames) /\ Len(frames) = Fr
  BY FrType DEF IInv
<1>2. /\ Len(blocks) > 0 /\ blocks[Len(blocks)].kind = "scope" /\ blocks[Len(blocks)].fr = Fr
      /\ Stacks(blocks, ctx, "visit")
  <2> DEFINE p == "visit"  k == 0
  <2>1. p \in Visits /\ Core(frames, Fr, blocks, ctx, p, k)
    BY DEF Visits, Control, Consistent
  <2> HIDE DEF p, k
  <2>2. InItsScope(frames, Fr, blocks, ctx, p)
    BY ONLY <2>1, OpenScope
  <2> QED
    BY <2>2 DEF p, InItsScope
<1>3. blocks # << >> /\ Len(blocks) \in Nat
  BY <1>1, <1>2
<1>4. /\ ctx.scope_jmp_stack # << >> /\ Visited.at = Len(blocks) /\ Visited.fr = Fr
      /\ ~ Visited.exit => Stacks(blocks, PoppedScope, "visit")
      /\ Visited.exit => Stacks(blocks, PoppedScope, "visited")
  BY <1>1, <1>2, <1>3, PoppedScopeFacts, StacksPopGuard DEF Visited
<1>5. VisitIsDefined
  BY <1>1, <1>3, <1>4 DEF VisitIsDefined, Reachable
<1>6. VisitFrames = frames /\ VisitBlocks = blocks
  BY <1>1, <1>4, WholeSequence DEF VisitFrames, VisitBlocks
<1> QED
  BY <1>4, <1>5, <1>6 DEF VisitsHere

LEMMA CorePushGuard ==
  ASSUME NEW fs, NEW n \in Nat \ {0}, NEW bs \in Seq(Blocks), NEW b \in Blocks,
         NEW c \in Contexts, NEW d \in Contexts, Core(fs, n, bs, c, "visit", 0), d.live,
         b.fr = n, b.kind = "guard", Stacks(Append(bs, b), d, "run"), Root(d) = Root(c),
         d.exc_nodes = c.exc_nodes, d.exc_used = c.exc_used,
         d.entry_check_count = c.entry_check_count
  PROVE  Core(fs, n, Append(bs, b), d, "run", 0)
<1> DEFINE cs == Append(bs, b)
           r == Root(c)
<1>1. /\ Len(bs) > 0 /\ bs[Len(bs)].kind = "scope" /\ bs[Len(bs)].fr = n /\ c.live
  <2> DEFINE p == "visit"  k == 0
  <2>1. p \in Visits /\ Core(fs, n, bs, c, p, k)
    BY DEF Visits
  <2> HIDE DEF p, k
  <2>2. InItsScope(fs, n, bs, c, p)
    BY ONLY <2>1, OpenScope
  <2> QED
    BY <2>2 DEF InItsScope
<1>2. d.live = TRUE /\ c.live = TRUE
  BY <1>1 DEF Contexts
<1>3. /\ Nested(bs, n) /\ ScopesFit(fs, n, bs, "visit") /\ PointersFit(fs, n, bs, TRUE, r)
      /\ Counted(fs, n, bs, c, "visit", 0) /\ ThrowsFit(fs, bs, c.exc_nodes)
  BY <1>2 DEF Core
<1>4. Nested(cs, n)
  <2>1. bs # << >> /\ n > 0 /\ n \in Nat /\ b.kind # "bottom" /\ b.kind # "catch" /\ b.kind # "scope"
    BY <1>1
  <2> QED
    BY <1>1, <1>3, <2>1, NestedPush
<1>5. Grows(bs, b, cs) /\ Stacks(cs, d, "run")
  BY AppendGrows
<1> HIDE DEF cs, r
<1>6. ScopesFit(fs, n, cs, "run")
  BY <1>3, <1>5, ScopesPushGuard
<1>7. PointersFit(fs, n, cs, TRUE, r)
  <2>1. \A f \in 1 .. n : SamePointer(fs[f], fs[f])
    BY DEF SamePointer
  <2>2. n \in Nat /\ (Len(bs) = 0 => b.fr = r)
    BY <1>1
  <2> QED
    BY ONLY <1>3, <1>5, <2>1, <2>2, PointersPush
<1>8. ThrowsFit(fs, cs, d.exc_nodes)
  <2>1. CatchFits(fs, b) /\ (b.kind = "scope" => fs[b.fr].scope_fn_exit \notin Targets)
    BY DEF CatchFits
  <2> QED
    BY <1>3, <1>5, <2>1, ThrowsPush
<1>9. Need(fs, n, cs, "run") = Need(fs, n, bs, "visit")
  <2>1. Checked(cs) = Checked(bs) /\ Checked(bs) \in Nat
    BY <1>5, CheckedGrows DEF CheckedKinds
  <2> QED
    BY <2>1 DEF Need, Owed, Propagates
<1>10. Counted(fs, n, cs, d, "run", 0)
  BY <1>2, <1>3, <1>9 DEF Counted, ChecksFit, UsedFits, Unwinds, Unwound
<1> QED
  BY <1>2, <1>4, <1>5, <1>6, <1>7, <1>8, <1>10 DEF Core, StacksFit, cs, r

LEMMA CorePopGuard ==
  ASSUME NEW fs, NEW n \in Nat \ {0}, NEW bs \in Seq(Blocks), NEW b \in Blocks,
         NEW c \in Contexts, NEW d \in Contexts, Core(fs, n, Append(bs, b), c, "run", 0),
         c.live, d.live, b.fr = n, b.kind = "guard", Stacks(bs, d, "visit"), Root(d) = Root(c),
         d.exc_nodes = c.exc_nodes, d.exc_used = c.exc_used,
         d.entry_check_count = c.entry_check_count
  PROVE  Core(fs, n, bs, d, "visit", 0)
<1> DEFINE cs == Append(bs, b)
           r == Root(c)
<1>1. d.live = TRUE /\ c.live = TRUE
  BY DEF Contexts
<1>2. Nested(bs, n)
  <2>1. Nested(cs, n) /\ n \in Nat
    BY DEF Core
  <2> QED
    BY <2>1, NestedPop
<1>3. /\ ScopesFit(fs, n, cs, "run") /\ PointersFit(fs, n, cs, TRUE, r)
      /\ Counted(fs, n, cs, c, "run", 0) /\ ThrowsFit(fs, cs, c.exc_nodes) /\ Nested(cs, n)
  BY <1>1 DEF Core
<1>4. Grows(bs, b, cs)
  BY AppendGrows
<1> HIDE DEF cs, r
<1>5. Len(bs) > 0 /\ bs[Len(bs)].kind = "scope" /\ bs[Len(bs)].fr = n
  <2> DEFINE i == Len(cs)
  <2>1. i \in 1 .. Len(cs) /\ cs[i] = b /\ i - 1 = Len(bs) /\ Len(bs) \in Nat
    BY <1>4 DEF Grows
  <2>2. i > 1 /\ cs[i - 1].kind = "scope" /\ cs[i - 1].fr = cs[i].fr
    BY <1>3, <2>1 DEF Nested
  <2>3. Len(bs) \in 1 .. Len(bs)
    BY <2>1, <2>2
  <2>4. cs[Len(bs)] = bs[Len(bs)]
    BY <1>4, <2>3 DEF Grows
  <2> HIDE DEF i
  <2> QED
    BY <2>1, <2>2, <2>3, <2>4
<1>6. ScopesFit(fs, n, bs, "visit")
  BY <1>3, <1>4, <1>5, ScopesPopGuard
<1>7. PointersFit(fs, n, bs, TRUE, r)
  <2>1. \A f \in 1 .. n : SamePointer(fs[f], fs[f])
    BY DEF SamePointer
  <2> QED
    BY <1>3, <1>4, <2>1, PointersPop
<1>8. ThrowsFit(fs, bs, d.exc_nodes)
  BY <1>3, <1>4, ThrowsPop
<1>9. Need(fs, n, cs, "run") = Need(fs, n, bs, "visit")
  <2>1. Checked(cs) = Checked(bs) /\ Checked(bs) \in Nat
    BY <1>4, CheckedGrows DEF CheckedKinds
  <2> QED
    BY <2>1 DEF Need, Owed, Propagates
<1>10. Counted(fs, n, bs, d, "visit", 0)
  BY <1>1, <1>3, <1>9 DEF Counted, ChecksFit, UsedFits, Unwinds, Unwound
<1> QED
  BY <1>1, <1>2, <1>6, <1>7, <1>8, <1>10 DEF Core, StacksFit, r

LEMMA RunGuardControl == ASSUME IInv, Control, RunGuard PROVE Control'
<1> DEFINE b == [Block("guard") EXCEPT !.fr = Visited.fr]
           d == [PoppedScope EXCEPT !.exc_jmp_stack = Append(@, Jmp(Visited.at, b))]
<1>1. /\ pc = "visit" /\ ~ Visited.exit /\ ctx' = d /\ pc' = "run"
      /\ blocks' = Append(VisitBlocks, b) /\ frames' = VisitFrames
  BY DEF RunGuard
<1>2. /\ Visited.fr = Fr /\ Visited.at = Len(blocks) /\ VisitFrames = frames
      /\ VisitBlocks = blocks /\ Stacks(blocks, PoppedScope, "visit")
  BY <1>1, VisitDefined DEF VisitsHere
<1>3. /\ blocks \in Seq(Blocks) /\ ctx \in Contexts /\ Fr \in Nat \ {0}
      /\ frames \in Seq(Frames) /\ Core(frames, Fr, blocks, ctx, "visit", 0)
  BY <1>1, FrType DEF IInv, Control, Consistent
<1>4. b \in Blocks /\ b.kind = "guard" /\ b.fr = Fr
  <2>1. Block("guard") \in Blocks
    BY <1>3, BlockType DEF Kinds
  <2>2. b = Block("guard")
    BY <1>2 DEF Block
  <2> QED
    BY <2>1, <2>2 DEF Block
<1> HIDE DEF b
<1>5. PoppedScope \in Contexts
  BY PoppedScopeFacts
<1>6. /\ d.exc_jmp_stack = Append(PoppedScope.exc_jmp_stack, Jmp(Len(blocks), b))
      /\ d.try_jmp_stack = PoppedScope.try_jmp_stack
      /\ d.scope_jmp_stack = PoppedScope.scope_jmp_stack
      /\ d.debug_depth = PoppedScope.debug_depth /\ d.live = PoppedScope.live
      /\ d.exc_nodes = PoppedScope.exc_nodes /\ d.exc_used = PoppedScope.exc_used
      /\ d.entry_check_count = PoppedScope.entry_check_count
  BY <1>2, <1>5 DEF Contexts
<1>7. d \in Contexts
  <2>1. Guarded(PoppedScope, b) \in Contexts
    BY <1>3, <1>4, <1>5, GuardedType
  <2> QED
    BY <1>2, <2>1 DEF Guarded
<1> HIDE DEF d
<1>8. Stacks(Append(blocks, b), d, "run")
  <2> DEFINE p == "visit"  q == "run"
  <2>1. p # "visited" /\ q # "visited" /\ Stacks(blocks, PoppedScope, p)
    BY <1>2
  <2>2. b.kind \notin {"try", "trace", "scope"}
    BY <1>4
  <2> HIDE DEF p, q
  <2>3. Stacks(Append(blocks, b), d, q)
    BY <1>3, <1>4, <1>5, <1>6, <2>1, <2>2, StacksPush
  <2> QED
    BY <2>3 DEF q
<1>9. Root(d) = Root(ctx)
  <2>1. Mirrors(blocks, PoppedScope.exc_jmp_stack)
    BY <1>2 DEF Stacks
  <2>2. d.exc_jmp_stack[1] = PoppedScope.exc_jmp_stack[1]
    BY <1>3, <1>4, <1>5, <1>6, <2>1, PushJump
  <2> QED
    BY <2>2, PoppedScopeFacts DEF Root
<1>10. d.live /\ d.exc_nodes = ctx.exc_nodes /\ d.exc_used = ctx.exc_used
       /\ d.entry_check_count = ctx.entry_check_count
  <2>1. ctx.live
    BY <1>1 DEF Control, Consistent, Core, Counted
  <2> QED
    BY <1>6, <2>1, PoppedScopeFacts
<1>11. Core(frames, Fr, Append(blocks, b), d, "run", 0)
  BY ONLY <1>3, <1>4, <1>7, <1>8, <1>9, <1>10, CorePushGuard
<1>12. Fr' = Fr
  BY <1>1, <1>2 DEF Fr
<1> QED
  BY <1>1, <1>2, <1>11, <1>12, RunsOn

LEMMA RestackControl ==
  ASSUME IInv, Control, pc = "visit", NEW q \in Visits, pc' = q, ctx' = PoppedScope,
         Stacks(blocks, PoppedScope, q), frames' = frames, blocks' = blocks
  PROVE  Control'
<1>1. Core(frames, Fr, blocks, PoppedScope, q, 0)
  <2> DEFINE p == "visit"  k == 0
  <2>1. Core(frames, Fr, blocks, ctx, p, k) /\ p \in Visits
    BY DEF Control, Consistent, Visits
  <2>2. ctx.live
    BY <2>1, OpenScope DEF InItsScope
  <2>3. p \in {"run"} \cup Visits /\ q \in {"run"} \cup Visits /\ (p \in Visits <=> q \in Visits)
    BY <2>1
  <2> HIDE DEF p, k
  <2>4. Core(frames, Fr, blocks, PoppedScope, q, k)
    BY <2>1, <2>2, <2>3, PoppedScopeFacts, CoreRestack
  <2> QED
    BY <2>4 DEF k
<1>2. Fr' = Fr
  BY DEF Fr
<1>3. q \notin Unwound /\ q \notin {"land", "break"}
  BY DEF Visits, Unwound
<1>4. Consistent(frames', Fr', blocks', ctx', pc')
  BY <1>1, <1>2, <1>3 DEF Consistent, ThrownClear
<1> QED
  BY <1>3, <1>4, GoesOn

LEMMA PassGuardControl == ASSUME IInv, Control, PassGuard PROVE Control'
<1>1. /\ pc = "visit" /\ ~ Visited.exit /\ ctx' = PoppedScope /\ pc' = "visit"
      /\ blocks' = VisitBlocks /\ frames' = VisitFrames
  BY DEF PassGuard
<1>2. VisitsHere
  BY <1>1, VisitDefined
<1> QED
  BY <1>1, <1>2, RestackControl DEF VisitsHere, Visits

LEMMA EndVisitControl == ASSUME IInv, Control, EndVisit PROVE Control' /\ pc' = "visited"
<1>1. pc = "visit"
  BY DEF EndVisit
<1>2. VisitsHere
  BY <1>1, VisitDefined
<1>3. /\ Visited.exit /\ ctx' = PoppedScope /\ frames' = frames /\ blocks' = blocks
      /\ pc' = "visited"
  BY <1>2 DEF EndVisit, VisitsHere
<1> QED
  BY <1>1, <1>2, <1>3, RestackControl DEF VisitsHere, Visits

LEMMA EndGuardControl == ASSUME IInv, Control, sEND_SCOPE_GUARD PROVE Control'
<1> DEFINE d == [ctx EXCEPT !.exc_jmp_stack = Front(@)]
           bs == Front(blocks)
           b == Last(blocks)
<1>1. /\ pc = "run" /\ Inside("guard") /\ ctx' = d /\ blocks' = bs /\ pc' = "visit"
      /\ frames' = frames
  BY DEF sEND_SCOPE_GUARD
<1>2. /\ bs \in Seq(Blocks) /\ b \in Blocks /\ b.kind = "guard" /\ b.fr = Fr
  BY <1>1, TopOf
<1>3. /\ Core(frames, Fr, Append(bs, b), ctx, "run", 0)
      /\ ctx.live /\ Fr \in Nat \ {0} /\ ctx \in Contexts
  <2> DEFINE k == "guard"
  <2>1. Inside(k)
    BY <1>1
  <2> HIDE DEF k
  <2> QED
    BY <1>1, <2>1, InsideFacts
<1>4. /\ d.exc_jmp_stack = Front(ctx.exc_jmp_stack) /\ d.try_jmp_stack = ctx.try_jmp_stack
      /\ d.scope_jmp_stack = ctx.scope_jmp_stack /\ d.debug_depth = ctx.debug_depth
      /\ d.live = ctx.live /\ d.exc_nodes = ctx.exc_nodes /\ d.exc_used = ctx.exc_used
      /\ d.entry_check_count = ctx.entry_check_count
  BY <1>3 DEF Contexts
<1>5. d \in Contexts
  BY <1>3, PoppedType
<1> HIDE DEF d, bs, b
<1>6. Stacks(Append(bs, b), ctx, "run")
  BY <1>3 DEF Core, StacksFit
<1>7. Stacks(bs, d, "visit")
  <2> DEFINE p == "run"  q == "visit"
  <2>1. p # "visited" /\ q # "visited" /\ Stacks(Append(bs, b), ctx, p)
    BY <1>6
  <2>2. b.kind \notin {"try", "trace", "scope"}
    BY <1>2
  <2> HIDE DEF p, q
  <2>3. Stacks(bs, d, q)
    BY <1>2, <1>3, <1>4, <2>1, <2>2, StacksPop
  <2> QED
    BY <2>3 DEF q
<1>8. Root(d) = Root(ctx)
  <2>1. Mirrors(Append(bs, b), ctx.exc_jmp_stack)
    BY <1>6 DEF Stacks
  <2> QED
    BY <1>2, <1>3, <1>4, <2>1, RootStays
<1>9. d.live
  BY <1>3, <1>4
<1>10. Core(frames, Fr, bs, d, "visit", 0)
  BY ONLY <1>2, <1>3, <1>4, <1>5, <1>7, <1>8, <1>9, CorePopGuard
<1>11. Fr' = Fr
  BY <1>1 DEF Fr
<1>12. Consistent(frames', Fr', blocks', ctx', pc')
  BY <1>1, <1>10, <1>11 DEF Consistent, ThrownClear, Unwound
<1> QED
  BY <1>1, <1>12, GoesOn

-----------------------------------------------------------------------------
(* A scan ends.  Its target says which function goes on, and where.        *)
Resumes(target, n, m, q) ==
  \/ target = "return" /\ m = n - 1 /\ q = "run"
  \/ target = "throw" /\ m = n /\ q = "propagate"
  \/ target = "scope" /\ m = n /\ q = "leaving"

ScanEnded(fs, gs, n) ==
  /\ \A f \in 1 .. n : SamePointer(fs[f], gs[f]) /\ gs[f].nesting_level = fs[f].nesting_level
  /\ \A f \in 1 .. n - 1 : gs[f].scope_fn_exit = fs[f].scope_fn_exit
  /\ gs[n].scope_fn_exit = "none"

LEMMA EndedRank ==
  ASSUME NEW fs, NEW gs, NEW n \in Nat \ {0}, ScanEnded(fs, gs, n), NEW T, "none" \notin T
  PROVE  /\ Rank(gs, T, n) = Rank(gs, T, n - 1) /\ Rank(gs, T, n) \in Nat
         /\ fs[n].scope_fn_exit \in T => Rank(fs, T, n) = Rank(gs, T, n) + 1
         /\ fs[n].scope_fn_exit \notin T => Rank(fs, T, n) = Rank(gs, T, n)
<1>1. n - 1 \in Nat
  OBVIOUS
<1>2. \A i \in 1 .. n - 1 : fs[i].scope_fn_exit \in T <=> gs[i].scope_fn_exit \in T
  BY DEF ScanEnded
<1>3. Rank(fs, T, n - 1) = Rank(gs, T, n - 1)
  <2> DEFINE m == n - 1
  <2>1. m \in Nat /\ \A i \in 1 .. m : fs[i].scope_fn_exit \in T <=> gs[i].scope_fn_exit \in T
    BY <1>1, <1>2
  <2> HIDE DEF m
  <2>2. Rank(fs, T, m) = Rank(gs, T, m)
    BY <2>1, RankAgrees
  <2> QED
    BY <2>2 DEF m
<1>4. gs[n].scope_fn_exit \notin T
  BY DEF ScanEnded
<1>5. /\ Rank(gs, T, n - 1) \in Nat
      /\ Rank(gs, T, n) = Rank(gs, T, n - 1) + IF gs[n].scope_fn_exit \in T THEN 1 ELSE 0
      /\ Rank(fs, T, n - 1) \in Nat
      /\ Rank(fs, T, n) = Rank(fs, T, n - 1) + IF fs[n].scope_fn_exit \in T THEN 1 ELSE 0
  BY RankStep
<1> QED
  BY ONLY <1>3, <1>4, <1>5

LEMMA CoreAlike ==
  ASSUME NEW fs, NEW gs, NEW n \in Nat \ {0}, NEW bs \in Seq(Blocks), NEW c, NEW p, NEW k,
         Core(fs, n, bs, c, p, k), \A f \in 1 .. n : gs[f] = fs[f]
  PROVE  Core(gs, n, bs, c, p, k)
<1>1. Repointed(fs, gs, n)
  BY DEF Repointed
<1>2. /\ Nested(bs, n) /\ ScopesFit(gs, n, bs, p) /\ ThrowsFit(gs, bs, c.exc_nodes)
      /\ SameScans(fs, gs, n)
  BY <1>1, RepointedFacts
<1>3. PointersFit(gs, n, bs, c.live, Root(c))
  BY DEF Core, PointersFit
<1>4. Rank(gs, Throws, n) = Rank(fs, Throws, n) /\ Rank(gs, Targets, n) = Rank(fs, Targets, n)
  <2>1. n \in 0 .. n /\ n \in Nat
    OBVIOUS
  <2> QED
    BY <1>2, <2>1, SameRank
<1>5. Counted(gs, n, bs, c, p, k)
  BY <1>4 DEF Core, Counted, ChecksFit, UsedFits, Need
<1> QED
  BY <1>2, <1>3, <1>5 DEF Core

LEMMA EndScanCounts ==
  ASSUME NEW fs, NEW gs, NEW n \in Nat \ {0}, NEW bs, NEW b, NEW cs, Grows(bs, b, cs),
         b.kind = "scope", Checked(bs) > 0, NEW c, NEW d, c.live, d.live,
         Counted(fs, n, cs, c, "visited", 0), d.exc_used = c.exc_used,
         d.entry_check_count = c.entry_check_count - 1,
         ScanEnded(fs, gs, n), NEW m, NEW q, Resumes(fs[n].scope_fn_exit, n, m, q)
  PROVE  /\ Counted(gs, m, bs, d, q, 0)
         /\ c.entry_check_count > 1 /\ c.entry_check_count \in Int
<1>1. Checked(cs) = Checked(bs) + 1 /\ Checked(bs) \in Nat
  BY CheckedGrows DEF CheckedKinds
<1>2. /\ Rank(gs, Throws, n) = Rank(gs, Throws, n - 1) /\ Rank(gs, Throws, n) \in Nat
      /\ fs[n].scope_fn_exit \in Throws => Rank(fs, Throws, n) = Rank(gs, Throws, n) + 1
      /\ fs[n].scope_fn_exit \notin Throws => Rank(fs, Throws, n) = Rank(gs, Throws, n)
  <2>1. "none" \notin Throws
    BY DEF Throws
  <2> QED
    BY <2>1, EndedRank
<1>3. /\ Rank(gs, Targets, n) = Rank(gs, Targets, n - 1) /\ Rank(gs, Targets, n) \in Nat
      /\ fs[n].scope_fn_exit \in Targets => Rank(fs, Targets, n) = Rank(gs, Targets, n) + 1
      /\ fs[n].scope_fn_exit \notin Targets => Rank(fs, Targets, n) = Rank(gs, Targets, n)
  <2>1. "none" \notin Targets
    BY DEF Targets
  <2> QED
    BY <2>1, EndedRank
<1>4. /\ c.entry_check_count = Checked(bs) + 1 + Rank(fs, Throws, n)
      /\ c.exc_used = Rank(fs, Targets, n)
  BY <1>1, <1>2, <1>3 DEF Counted, ChecksFit, UsedFits, Need, Owed, Propagates, Unwinds, Unwound
<1>5. /\ Rank(gs, Throws, m) = Rank(gs, Throws, n) /\ Rank(gs, Targets, m) = Rank(gs, Targets, n)
  BY <1>2, <1>3 DEF Resumes
<1>6. /\ d.entry_check_count = Need(gs, m, bs, q)
      /\ d.exc_used = Rank(gs, Targets, m) + Unwinds(q)
  <2>1. CASE fs[n].scope_fn_exit = "return"
    <3>1. q = "run" /\ Propagates(q) = 0 /\ Unwinds(q) = 0
      BY <2>1 DEF Resumes, Propagates, Unwinds, Unwound
    <3>2. fs[n].scope_fn_exit \notin Throws /\ fs[n].scope_fn_exit \notin Targets
      BY <2>1 DEF Throws, Targets
    <3> QED
      BY <1>1, <1>2, <1>3, <1>4, <1>5, <3>1, <3>2 DEF Need, Owed
  <2>2. CASE fs[n].scope_fn_exit = "throw"
    <3>1. q = "propagate" /\ Propagates(q) = 1 /\ Unwinds(q) = 1
      BY <2>2 DEF Resumes, Propagates, Unwinds, Unwound
    <3>2. fs[n].scope_fn_exit \in Throws /\ fs[n].scope_fn_exit \in Targets
      BY <2>2 DEF Throws, Targets
    <3> QED
      BY <1>1, <1>2, <1>3, <1>4, <1>5, <3>1, <3>2 DEF Need, Owed
  <2>3. CASE fs[n].scope_fn_exit = "scope"
    <3>1. q = "leaving" /\ Propagates(q) = 0 /\ Unwinds(q) = 1
      BY <2>3 DEF Resumes, Propagates, Unwinds, Unwound
    <3>2. fs[n].scope_fn_exit \notin Throws /\ fs[n].scope_fn_exit \in Targets
      BY <2>3 DEF Throws, Targets
    <3> QED
      BY <1>1, <1>2, <1>3, <1>4, <1>5, <3>1, <3>2 DEF Need, Owed
  <2> QED
    BY <2>1, <2>2, <2>3 DEF Resumes
<1>7. Need(gs, m, bs, q) > 0 /\ Need(gs, m, bs, q) \in Nat
  <2>1. Propagates(q) \in {0, 1}
    BY PlaceTypes
  <2> QED
    BY <1>1, <1>2, <1>5, <2>1 DEF Need, Owed
<1>8. Counted(gs, m, bs, d, q, 0)
  BY <1>6, <1>7 DEF Counted, ChecksFit, UsedFits
<1>9. c.entry_check_count > 1 /\ c.entry_check_count \in Int
  <2>1. Rank(fs, Throws, n) \in Nat
    BY RankType
  <2> QED
    BY <1>1, <1>4, <2>1
<1> QED
  BY <1>8, <1>9

LEMMA CorePopScope ==
  ASSUME NEW fs, NEW gs, NEW n \in Nat \ {0}, NEW bs \in Seq(Blocks), NEW b \in Blocks,
         NEW c \in Contexts, NEW d \in Contexts, Core(fs, n, Append(bs, b), c, "visited", 0),
         c.live, d.live, b.fr = n, b.kind = "scope", NEW q, NEW m \in Nat, Stacks(bs, d, q),
         Root(d) = Root(c), d.exc_nodes = c.exc_nodes, d.exc_used = c.exc_used,
         d.entry_check_count = c.entry_check_count - 1,
         ScanEnded(fs, gs, n), Resumes(fs[n].scope_fn_exit, n, m, q)
  PROVE  /\ Consistent(gs, m, bs, d, q) /\ m > 0
         /\ c.entry_check_count > 1 /\ c.entry_check_count \in Int
<1> DEFINE cs == Append(bs, b)
           r == Root(c)
<1>1. d.live = TRUE /\ c.live = TRUE
  BY DEF Contexts
<1>2. /\ ScopesFit(fs, n, cs, "visited") /\ PointersFit(fs, n, cs, TRUE, r) /\ Nested(cs, n)
      /\ Counted(fs, n, cs, c, "visited", 0) /\ ThrowsFit(fs, cs, c.exc_nodes)
  BY <1>1 DEF Core
<1>3. Grows(bs, b, cs)
  BY AppendGrows
<1>4. Nested(bs, n)
  <2>1. n \in Nat
    OBVIOUS
  <2> QED
    BY <1>2, <2>1, NestedPop
<1> HIDE DEF cs, r
<1>5. /\ Len(bs) \in Nat /\ Len(cs) = Len(bs) + 1 /\ Len(cs) \in 1 .. Len(cs) /\ cs[Len(cs)] = b
      /\ \A i \in 1 .. Len(bs) : i \in 1 .. Len(cs) /\ i < Len(cs) /\ cs[i] = bs[i]
  BY <1>3 DEF Grows
<1>6. Len(bs) > 0 /\ \A i \in 1 .. Len(bs) : bs[i].fr \in 1 .. n - 1
  <2>1. Len(cs) > 1
    BY <1>2, <1>5 DEF Nested
  <2>2. ASSUME NEW i \in 1 .. Len(bs)
        PROVE  bs[i].fr \in 1 .. n - 1
    <3>1. cs[i].fr < cs[Len(cs)].fr /\ cs[i].fr \in 1 .. n
      BY <1>2, <1>5 DEF Nested
    <3> QED
      BY <1>5, <3>1
  <2> QED
    BY <1>5, <2>1, <2>2
<1>7. fs[n].guards_used
  BY <1>2, <1>5 DEF ScopesFit, BlockFits
<1>8. n > r /\ r \in 1 .. n
  <2>1. n \in 1 .. n
    OBVIOUS
  <2>2. PointerFits(n, fs[n], TRUE, r) /\ RootFits(n, cs, r)
    BY <1>2, <2>1 DEF PointersFit
  <2> QED
    BY <1>7, <2>2 DEF PointerFits, RootFits
<1>9. m \in {n - 1, n} /\ m > 0 /\ r <= m /\ m <= n
  BY <1>8 DEF Resumes
<1>10. \A i \in 1 .. Len(bs) : bs[i].fr \in 1 .. m
  BY <1>6, <1>9
<1>11. Nested(bs, m)
  <2>1. n \in Nat
    OBVIOUS
  <2> QED
    BY <1>4, <1>10, <2>1, NestedIn
<1>12. ScopesFit(gs, m, bs, q)
  <2>1. /\ \A f \in 1 .. n : gs[f].nesting_level = fs[f].nesting_level
                             /\ gs[f].guards_used = fs[f].guards_used
        /\ \A f \in 1 .. n - 1 : gs[f].scope_fn_exit = fs[f].scope_fn_exit
        /\ gs[n].scope_fn_exit = "none"
    BY DEF ScanEnded, SamePointer
  <2>2. (m = n /\ q \in Leaves) \/ (m = n - 1 /\ q = "run")
    <3>1. Resumes(fs[n].scope_fn_exit, n, m, q)
      OBVIOUS
    <3> QED
      BY ONLY <3>1 DEF Resumes, Leaves
  <2> QED
    BY ONLY n \in Nat \ {0}, b.fr = n, b.kind = "scope", <1>2, <1>3, <1>6, <2>1, <2>2, ScopesPopScope
<1>13. PointersFit(gs, m, bs, TRUE, r)
  <2>1. \A f \in 1 .. n : SamePointer(fs[f], gs[f])
    BY DEF ScanEnded
  <2>2. PointersFit(gs, n, bs, TRUE, r)
    BY <1>2, <1>3, <2>1, PointersPop
  <2> DEFINE live == TRUE
  <2>3. PointersFit(gs, n, bs, live, r) /\ (live => r <= m) /\ m <= n /\ n \in Nat
    BY <1>9, <2>2
  <2>4. \A f \in 1 .. m : gs[f] = gs[f]
    OBVIOUS
  <2> HIDE DEF live
  <2>5. PointersFit(gs, m, bs, live, r)
    BY <2>3, <2>4, PointersCut
  <2> QED
    BY <2>5 DEF live
<1>14. /\ Counted(gs, m, bs, d, q, 0)
       /\ c.entry_check_count > 1 /\ c.entry_check_count \in Int
  <2>1. Checked(bs) > 0
    <3>1. /\ Need(fs, m, bs, "run") \in Nat
          /\ Len(bs) > 0 \/ "run" = "propagate" => Need(fs, m, bs, "run") > 0
      BY <1>11, NeedSome
    <3>2. CheckedKinds \subseteq CheckedKinds /\ bs[1].kind \in CheckedKinds
      <4>1. 1 \in 1 .. Len(bs)
        BY <1>5, <1>6
      <4>2. bs[1] \in Blocks /\ bs[1].kind \notin {"bottom", "catch", "guard"}
        BY <1>11, <4>1 DEF Nested
      <4>3. \A x \in Blocks : x.kind \in Kinds
        BY DEF Blocks
      <4> QED
        BY <4>2, <4>3 DEF Kinds, CheckedKinds
    <3>3. 1 \in 1 .. Len(bs)
      BY <1>5, <1>6
    <3> QED
      BY <1>5, <3>2, <3>3, CheckedSome
  <2> QED
    BY <1>2, <1>3, <2>1, EndScanCounts
<1>15. ThrowsFit(fs, bs, c.exc_nodes)
       /\ (fs[n].scope_fn_exit \in Targets =>
             Clear(c.exc_nodes[Rank(fs, Targets, n)].code, bs, Len(bs)))
  BY <1>2, <1>3, ThrowsPop
<1>16. ThrowsFit(gs, bs, d.exc_nodes)
  <2>1. n - 1 \in Nat /\ \A f \in 1 .. n - 1 :
          gs[f].scope_fn_exit \in Targets <=> fs[f].scope_fn_exit \in Targets
    BY DEF ScanEnded
  <2> DEFINE l == n - 1
  <2>2. /\ l \in Nat /\ \A i \in 1 .. Len(bs) : bs[i].fr \in 1 .. l
        /\ \A f \in 1 .. l : gs[f].scope_fn_exit \in Targets <=> fs[f].scope_fn_exit \in Targets
    BY <1>6, <2>1
  <2> HIDE DEF l
  <2> QED
    BY <1>15, <2>2, ThrowsStay
<1>17. ThrownClear(bs, d, q)
  <2>1. c.exc_used = Rank(fs, Targets, n)
    <3>1. Rank(fs, Targets, n) \in Nat
      BY RankType
    <3> QED
      BY <1>2, <3>1 DEF Counted, UsedFits, Unwinds, Unwound
  <2>2. q \in Unwound => fs[n].scope_fn_exit \in Targets
    BY DEF Resumes, Unwound, Targets
  <2> QED
    BY <1>15, <2>1, <2>2 DEF ThrownClear
<1>18. Core(gs, m, bs, d, q, 0)
  BY <1>1, <1>11, <1>12, <1>13, <1>14, <1>16 DEF Core, StacksFit, r
<1> QED
  BY <1>9, <1>14, <1>17, <1>18 DEF Consistent

LEMMA ScanEndedFacts ==
  ASSUME NEW fs, fs \in Seq(Frames), NEW n \in Nat \ {0}, n = Len(fs)
  PROVE  LET gs == [fs EXCEPT ![n].scope_fn_exit = "none"]
         IN  gs \in Seq(Frames) /\ Len(gs) = n /\ ScanEnded(fs, gs, n)
<1> DEFINE gs == [fs EXCEPT ![n].scope_fn_exit = "none"]
<1>1. n \in DOMAIN fs /\ fs[n] \in Frames /\ Len(gs) = n
  OBVIOUS
<1>2. \A f \in 1 .. n - 1 : gs[f] = fs[f]
  OBVIOUS
<1>3. gs[n] = [fs[n] EXCEPT !.scope_fn_exit = "none"]
  BY <1>1, Zenon
<1>4. \A f \in Frames : LET g == [f EXCEPT !.scope_fn_exit = "none"]
                        IN  /\ g \in Frames /\ g.nesting_level = f.nesting_level
                            /\ g.skit_thread_ctx = f.skit_thread_ctx
                            /\ g.guards_used = f.guards_used /\ g.scope_fn_exit = "none"
  BY DEF Frames
<1>5. /\ gs[n] \in Frames /\ gs[n].nesting_level = fs[n].nesting_level
      /\ gs[n].skit_thread_ctx = fs[n].skit_thread_ctx
      /\ gs[n].guards_used = fs[n].guards_used /\ gs[n].scope_fn_exit = "none"
  BY <1>1, <1>3, <1>4
<1>6. \A f \in 1 .. n : f \in 1 .. n - 1 \/ f = n
  OBVIOUS
<1>7. gs \in Seq(Frames)
  BY <1>1, <1>3, <1>5
<1> HIDE DEF gs
<1>8. ScanEnded(fs, gs, n)
  BY <1>2, <1>5, <1>6 DEF ScanEnded, SamePointer
<1> QED
  BY <1>1, <1>7, <1>8 DEF gs

LEMMA EndScanControl ==
  ASSUME IInv, Control, EndScan
  PROVE  Control' /\ pc' \in {"run", "propagate", "leaving"} /\ ctx.entry_check_count > 1
<1> DEFINE c == [ctx EXCEPT !.exc_jmp_stack = Front(@)]
           gs == [frames EXCEPT ![Fr].scope_fn_exit = "none"]
           d == [c EXCEPT !.entry_check_count = @ - 1]
           bs == Front(blocks)
           b == Last(blocks)
           target == frames[Fr].scope_fn_exit
           m == IF target = "return" THEN Fr - 1 ELSE Fr
<1>1. /\ pc = "visited" /\ ctx' = Left(c) /\ blocks' = bs
      /\ frames' = IF target = "return" THEN Front(LeftFrames(gs, c)) ELSE LeftFrames(gs, c)
      /\ pc' = CASE target = "return" -> "run"
                 [] target = "throw"  -> "propagate"
                 [] OTHER             -> "leaving"
  BY DEF EndScan, Me
<1>2. /\ blocks \in Seq(Blocks) /\ ctx \in Contexts /\ Fr \in Nat \ {0}
      /\ frames \in Seq(Frames) /\ Len(frames) = Fr /\ Fr = Len(frames)
      /\ Core(frames, Fr, blocks, ctx, "visited", 0)
  BY <1>1, FrType DEF IInv, Control, Consistent
<1>3. /\ Len(blocks) > 0 /\ blocks[Len(blocks)].kind = "scope" /\ blocks[Len(blocks)].fr = Fr
      /\ target # "none" /\ ctx.live /\ Stacks(blocks, ctx, "visited")
  <2> DEFINE p == "visited"  k == 0
  <2>1. p \in Visits /\ Core(frames, Fr, blocks, ctx, p, k)
    BY <1>2 DEF Visits
  <2> HIDE DEF p, k
  <2>2. InItsScope(frames, Fr, blocks, ctx, p)
    BY ONLY <2>1, OpenScope
  <2> QED
    BY <2>2 DEF p, InItsScope
<1>4. /\ bs \in Seq(Blocks) /\ b \in Blocks /\ blocks = Append(bs, b)
      /\ b.kind = "scope" /\ b.fr = Fr
  <2>1. blocks # << >>
    BY <1>2, <1>3
  <2>2. /\ bs \in Seq(Blocks) /\ b \in Blocks /\ blocks = Append(bs, b)
        /\ blocks[Len(blocks)] = b
    BY <1>2, <2>1, FrontLast
  <2> QED
    BY <1>3, <2>2
<1>5. target \in {"return", "throw", "scope"}
  <2>1. frames[Fr] \in Frames
    BY <1>2
  <2> QED
    BY <1>3, <2>1 DEF Frames
<1>6. gs \in Seq(Frames) /\ Len(gs) = Fr /\ ScanEnded(frames, gs, Fr)
  BY <1>2, ScanEndedFacts
<1>7. Resumes(target, Fr, m, pc') /\ m \in Nat
  BY <1>1, <1>2, <1>5 DEF Resumes
<1>8. /\ c.exc_jmp_stack = Front(ctx.exc_jmp_stack) /\ c.try_jmp_stack = ctx.try_jmp_stack
      /\ c.scope_jmp_stack = ctx.scope_jmp_stack /\ c.debug_depth = ctx.debug_depth
      /\ c.live = ctx.live /\ c.exc_nodes = ctx.exc_nodes /\ c.exc_used = ctx.exc_used
      /\ c.entry_check_count = ctx.entry_check_count /\ c \in Contexts
  BY <1>2, PoppedType DEF Contexts
<1>9. ctx.entry_check_count \in Int
  BY <1>2, ContextTypes
<1>10. /\ d \in Contexts /\ d.entry_check_count = ctx.entry_check_count - 1 /\ SameBut(c, d)
  <2>1. c.entry_check_count - 1 \in Int
    BY <1>8, <1>9
  <2> QED
    BY <1>8, <2>1, CountIs
<1> HIDE DEF c, d, gs, bs, b, m
<1>11. /\ d.exc_jmp_stack = Front(ctx.exc_jmp_stack) /\ d.try_jmp_stack = ctx.try_jmp_stack
       /\ d.scope_jmp_stack = ctx.scope_jmp_stack /\ d.debug_depth = ctx.debug_depth
       /\ d.live /\ d.exc_nodes = ctx.exc_nodes /\ d.exc_used = ctx.exc_used
  BY <1>3, <1>8, <1>10 DEF SameBut, SameStacks
<1>12. Stacks(bs, d, pc')
  <2>1. pc' # "visited"
    BY <1>7 DEF Resumes
  <2>2. Stacks(Append(bs, b), ctx, "visited")
    BY <1>3, <1>4
  <2> QED
    BY <1>2, <1>4, <1>11, <2>1, <2>2, StacksPopScope
<1>13. Root(d) = Root(ctx)
  <2>1. Mirrors(Append(bs, b), ctx.exc_jmp_stack)
    BY <1>3, <1>4 DEF Stacks
  <2> QED
    BY <1>2, <1>4, <1>11, <2>1, RootStays
<1>14. /\ Consistent(gs, m, bs, d, pc') /\ m > 0
       /\ ctx.entry_check_count > 1 /\ ctx.entry_check_count \in Int
  <2>1. Core(frames, Fr, Append(bs, b), ctx, "visited", 0) /\ ctx.live
    BY <1>2, <1>3, <1>4
  <2>2. frames[Fr].scope_fn_exit = target
    OBVIOUS
  <2> HIDE DEF target
  <2> QED
    BY ONLY <1>2, <1>4, <1>6, <1>7, <1>10, <1>11, <1>12, <1>13, <2>1, <2>2, CorePopScope
<1>15. ctx' = d /\ LeftFrames(gs, c) = gs
  <2>1. c.entry_check_count # 1
    BY <1>8, <1>14
  <2> QED
    BY <1>1, <2>1 DEF Left, LeftFrames, d
<1>16. Len(frames') = m /\ \A f \in 1 .. m : frames'[f] = gs[f]
  <2>1. CASE target = "return"
    <3>1. frames' = Front(gs) /\ m = Fr - 1
      BY <1>1, <1>15, <2>1 DEF m
    <3>2. gs # << >>
      BY <1>2, <1>6
    <3>3. Front(gs) = SubSeq(gs, 1, Len(gs) - 1)
      BY DEF Front
    <3> QED
      BY <1>2, <1>6, <3>1, <3>2, <3>3
  <2>2. CASE target # "return"
    BY <1>1, <1>6, <1>15, <2>2 DEF m
  <2> QED
    BY <2>1, <2>2
<1>17. Fr' = m /\ m \in Nat \ {0}
  BY <1>7, <1>14, <1>16 DEF Fr
<1>18. Consistent(frames', m, bs, d, pc')
  <2> DEFINE k == 0
  <2>1. Core(gs, m, bs, d, pc', k) /\ ThrownClear(bs, d, pc')
    BY <1>14 DEF Consistent
  <2> HIDE DEF k
  <2>2. Core(frames', m, bs, d, pc', k)
    BY <1>4, <1>16, <1>17, <2>1, CoreAlike
  <2> QED
    BY <2>1, <2>2 DEF Consistent, k
<1>19. pc' \in {"run", "propagate", "leaving"}
  BY <1>7 DEF Resumes
<1>20. Control'
  <2>1. Consistent(frames', Fr', blocks', ctx', pc') /\ pc' \notin {"land", "break"}
    BY <1>1, <1>15, <1>17, <1>18, <1>19
  <2> QED
    BY <2>1, GoesOn
<1> QED
  BY <1>14, <1>19, <1>20

-----------------------------------------------------------------------------
(* Every step.                                                             *)
LEMMA InitControl == Init => CInv
<1> SUFFICES ASSUME Init
             PROVE  CInv
  OBVIOUS
<1>1. /\ frames = <<NewFrame("null")>> /\ blocks = << >> /\ ctx = NoContext /\ pc = "run"
  BY DEF Init
<1>2. IInv
  BY InitIInv
<1>3. Len(frames) = 1 /\ Fr = 1 /\ Len(blocks) = 0
  BY <1>1 DEF Fr
<1>4. /\ frames[1].guards_used = FALSE /\ frames[1].scope_fn_exit = "none"
      /\ frames[1].skit_thread_ctx = "null"
  BY <1>1 DEF NewFrame
<1>5. /\ ctx.live = FALSE /\ ctx.exc_used = 0 /\ ctx.try_jmp_stack = << >>
      /\ ctx.scope_jmp_stack = << >>
  BY <1>1 DEF NoContext, NewContext
<1>6. Nested(blocks, 1)
  BY <1>3 DEF Nested
<1>7. StacksFit(blocks, ctx, "run")
  BY <1>1, <1>5 DEF StacksFit, Empty
<1>8. \A f \in 1 .. 1 : f = 1
  OBVIOUS
<1>9. ScopesFit(frames, 1, blocks, "run")
  BY <1>3, <1>4, <1>8 DEF ScopesFit, FrameFits, Visits
<1>10. PointersFit(frames, 1, blocks, ctx.live, Root(ctx))
  BY <1>3, <1>4, <1>5, <1>8 DEF PointersFit, PointerFits
<1>11. /\ Checked(blocks) = 0 /\ Rank(frames, Throws, 1) = 0 /\ Rank(frames, Targets, 1) = 0
  BY <1>3, <1>9, NeedNone
<1>12. Counted(frames, 1, blocks, ctx, "run", 0)
  BY <1>5, <1>11 DEF Counted, UsedFits, Need, Owed, Propagates, Unwinds, Unwound
<1>13. ThrowsFit(frames, blocks, ctx.exc_nodes)
  BY <1>3 DEF ThrowsFit
<1>14. Core(frames, 1, blocks, ctx, "run", 0)
  BY <1>6, <1>7, <1>9, <1>10, <1>12, <1>13 DEF Core
<1>15. Control
  BY <1>1, <1>3, <1>14 DEF Control, Consistent, ThrownClear, Unwound, LandsRight, BreaksRight
<1> QED
  BY <1>1, <1>2, <1>15 DEF CInv

LEMMA ControlRests == IInv /\ Control => AtRest
<1> SUFFICES ASSUME IInv, Control
             PROVE  AtRest
  OBVIOUS
<1>1. Core(frames, Fr, blocks, ctx, pc, 0)
  BY DEF Control, Consistent
<1> QED
  BY <1>1, CoreRests

LEMMA GoesOnWell == IInv' /\ Control' /\ pc' # "crashed" => CInv'
<1>1. IInv' /\ Control' => AtRest'
  BY ControlRests, PTL
<1> QED
  BY <1>1 DEF CInv

LEMMA StaysAtRest == CInv /\ UNCHANGED vars => CInv'
<1> SUFFICES ASSUME CInv, UNCHANGED vars
             PROVE  CInv'
  OBVIOUS
<1>1. frames' = frames /\ blocks' = blocks /\ ctx' = ctx /\ pc' = pc
  BY DEF vars
<1>2. IInv'
  BY IInvInductive DEF CInv
<1>3. Fr' = Fr
  BY <1>1 DEF Fr
<1>4. Me' = Me
  BY <1>1, <1>3 DEF Me
<1>5. AtRest => AtRest'
  BY <1>1, <1>3 DEF AtRest
<1>6. BreaksRight => BreaksRight'
  <2>1. \A code : MayThrow(code, blocks) => MayThrow(code, blocks)'
    BY <1>1, <1>3 DEF MayThrow
  <2> QED
    BY <1>1, <1>4, <2>1 DEF BreaksRight
<1>7. LandsRight => LandsRight'
  BY <1>1, <1>3 DEF LandsRight
<1>8. Control => Control'
  BY <1>1, <1>3, <1>6, <1>7 DEF Control
<1> QED
  BY <1>1, <1>2, <1>5, <1>8 DEF CInv

LEMMA DeadStops == pc = "dead" /\ [Next]_vars => UNCHANGED vars
<1> SUFFICES ASSUME pc = "dead", Next
             PROVE  UNCHANGED vars
  OBVIOUS
<1>1. ~ Program
  BY DEF Program, Call, Return, sTRACE, sTRACE_End, sTRY, EndOfTry, EndOfCatch, BreakOut, sTHROW,
         SKIT_THROW_EXCEPTION, FirstGuard, NextGuard, MayGuard, sEND_SCOPE_GUARD, AtStatement
<1>2. ~ Machine
  BY DEF Machine, ThrowBreak, skit_propogate_exceptions, LandAtBottom, LandInTrace, sCATCH,
         LandInTryUnhandled, LandInCatch, LandInScope, LeaveScope, LandInGuard, RunGuard,
         PassGuard, EndVisit, EndScan, Lands
<1> QED
  BY <1>1, <1>2 DEF Next

(* The program's own steps, from a state that is not at rest.              *)
LEMMA ProgramControl ==
  ASSUME PlainUses, IInv, Control, Program
  PROVE  Control' /\ pc' # "crashed"
<1>1. CASE Call
  BY <1>1, CallControl DEF Call
<1>2. CASE Return
  BY <1>2, ReturnControl DEF Return
<1>3. CASE sTRACE
  BY <1>3, TraceControl DEF sTRACE, AtStatement
<1>4. CASE sTRACE_End
  BY <1>4, TraceEndControl DEF sTRACE_End
<1>5. ASSUME NEW catches \in CatchLists, sTRY(catches)
      PROVE  Control' /\ pc' # "crashed"
  BY <1>5, TryControl DEF sTRY, AtStatement
<1>6. CASE EndOfTry
  BY <1>6, EndOfTryControl DEF EndOfTry, LeaveTry
<1>7. CASE EndOfCatch
  BY <1>7, EndOfCatchControl DEF EndOfCatch, LeaveTry
<1>8. CASE BreakOut
  BY <1>8, BreakOutControl DEF BreakOut
<1>9. ASSUME NEW code \in ThrowCodes, sTHROW(code)
      PROVE  Control' /\ pc' # "crashed"
  BY <1>9, ThrowControl DEF sTHROW, Raise, PropagateFrom
<1>10. CASE SKIT_THROW_EXCEPTION
  BY <1>10, RethrowControl DEF SKIT_THROW_EXCEPTION, Raise, PropagateFrom
<1>11. ASSUME NEW mask \in Masks, FirstGuard(mask) \/ NextGuard(mask)
       PROVE  Control' /\ pc' # "crashed"
  BY <1>11, FirstGuardControl, NextGuardControl DEF FirstGuard, NextGuard, MayGuard, AtStatement
<1>12. CASE sEND_SCOPE_GUARD
  BY <1>12, EndGuardControl DEF sEND_SCOPE_GUARD
<1> QED
  BY <1>1, <1>2, <1>3, <1>4, <1>5, <1>6, <1>7, <1>8, <1>9, <1>10, <1>11, <1>12 DEF Program

(* The steps of the macros, save the two that stop the program.            *)
LEMMA MachineControl ==
  ASSUME PlainUses, IInv, Control, Machine, ~ LandAtBottom, ~ LandInGuard
  PROVE  Control' /\ pc' # "crashed"
<1>1. CASE ThrowBreak
  BY <1>1, ThrowBreakControl DEF ThrowBreak, Raise, PropagateFrom
<1>2. CASE skit_propogate_exceptions
  <2>1. JumpIsDefined
    BY <1>2, JumpDefined DEF skit_propogate_exceptions
  <2> QED
    BY <1>2, <2>1, PropagateControl DEF skit_propogate_exceptions
<1>3. CASE LandInTrace
  BY <1>3, InTraceControl DEF LandInTrace, PropagateFrom, Lands
<1>4. CASE sCATCH
  BY <1>4, CatchControl DEF sCATCH
<1>5. CASE LandInTryUnhandled
  BY <1>5, UnhandledControl DEF LandInTryUnhandled, Unhandled, PropagateFrom
<1>6. CASE LandInCatch
  BY <1>6, InCatchControl DEF LandInCatch, Unhandled, PropagateFrom
<1>7. CASE LandInScope
  BY <1>7, InScopeControl DEF LandInScope
<1>8. CASE LeaveScope
  BY <1>8, LeaveScopeControl DEF LeaveScope
<1>9. CASE RunGuard
  BY <1>9, RunGuardControl DEF RunGuard
<1>10. CASE PassGuard
  BY <1>10, PassGuardControl DEF PassGuard
<1>11. CASE EndVisit
  BY <1>11, EndVisitControl
<1>12. CASE EndScan
  BY <1>12, EndScanControl
<1> QED
  BY <1>1, <1>2, <1>3, <1>4, <1>5, <1>6, <1>7, <1>8, <1>9, <1>10, <1>11, <1>12 DEF Machine

LEMMA CInvInductive == ASSUME PlainUses PROVE CInv /\ [Next]_vars => CInv'
<1> SUFFICES ASSUME CInv, [Next]_vars
             PROVE  CInv'
  OBVIOUS
<1>1. IInv' /\ IInv
  BY IInvInductive DEF CInv
<1>2. CASE UNCHANGED vars
  BY <1>2, StaysAtRest
<1>3. CASE pc = "dead"
  BY <1>3, DeadStops, StaysAtRest
<1>4. CASE pc # "dead" /\ Program
  BY <1>1, <1>4, ProgramControl, GoesOnWell DEF CInv
<1>5. CASE pc # "dead" /\ LandAtBottom
  BY <1>1, <1>5, BottomControl DEF CInv
<1>6. CASE pc # "dead" /\ LandInGuard
  BY <1>1, <1>6, GuardControl DEF CInv
<1>7. CASE pc # "dead" /\ Machine /\ ~ LandAtBottom /\ ~ LandInGuard
  BY <1>1, <1>7, MachineControl, GoesOnWell DEF CInv
<1> QED
  BY <1>2, <1>3, <1>4, <1>5, <1>6, <1>7 DEF Next

-----------------------------------------------------------------------------
(* What the invariant says.                                                *)
LEMMA ControlInvariant == PlainUses => (Spec => []CInv)
<1> SUFFICES ASSUME PlainUses
             PROVE  Spec => []CInv
  OBVIOUS
<1>1. Init => CInv
  BY InitControl
<1>2. CInv /\ [Next]_vars => CInv'
  BY CInvInductive
<1> QED
  BY <1>1, <1>2, PTL DEF Spec

LEMMA CountsOfFrames ==
  ASSUME IInv, NEW T
  PROVE  Cardinality(ScansFor(T)) = Rank(frames, T, Fr)
<1>1. DOMAIN frames = 1 .. Fr
  BY FrType DEF IInv
<1> QED
  BY <1>1 DEF ScansFor, Rank

LEMMA CountsOfBlocks ==
  ASSUME IInv
  PROVE  /\ Cardinality({i \in DOMAIN blocks : blocks[i].kind \in {"try", "trace", "scope"}})
              = Checked(blocks)
         /\ \A f : CountBlocks({"try"}, f) = TriesOf(blocks, f)
<1>1. DOMAIN blocks = 1 .. Len(blocks)
  BY DEF IInv
<1>2. \A f : {i \in DOMAIN blocks : blocks[i].kind \in {"try"} /\ blocks[i].fr = f}
               = {i \in 1 .. Len(blocks) : blocks[i].kind = "try" /\ blocks[i].fr = f}
  BY <1>1
<1>3. {i \in DOMAIN blocks : blocks[i].kind \in {"try", "trace", "scope"}}
        = {i \in 1 .. Len(blocks) : blocks[i].kind \in CheckedKinds}
  BY <1>1 DEF CheckedKinds
<1> QED
  BY <1>2, <1>3 DEF CountBlocks, TriesOf, Checked

LEMMA NeverCrashesHolds == CInv => NeverCrashes
<1> SUFFICES ASSUME CInv
             PROVE  NeverCrashes
  OBVIOUS
<1>1. IInv /\ pc # "crashed" /\ (pc # "dead" => Control)
  BY DEF CInv
<1>2. pc = "propagate" => JumpIsDefined
  BY <1>1, JumpDefined
<1>3. pc = "visit" => VisitIsDefined
  BY <1>1, VisitDefined DEF VisitsHere
<1> QED
  BY <1>1, <1>2, <1>3 DEF NeverCrashes

LEMMA PendingHolds == CInv => PendingExceptions
<1> SUFFICES ASSUME CInv, ~ Stopped
             PROVE  ctx.exc_used = Cardinality(ScansFor({"throw", "scope"}))
                      + IF pc \in {"propagate", "land", "leaving"} THEN 1 ELSE 0
  BY DEF PendingExceptions
<1>1. IInv /\ Control
  BY DEF CInv, Stopped
<1>2. ctx.exc_used = Rank(frames, Targets, Fr) + Unwinds(pc)
  BY <1>1 DEF Control, Consistent, Core, Counted, UsedFits
<1>3. Cardinality(ScansFor({"throw", "scope"})) = Rank(frames, Targets, Fr)
  BY <1>1, CountsOfFrames DEF Targets
<1> QED
  BY <1>2, <1>3 DEF Unwinds, Unwound

LEMMA ChecksHolds == CInv => EntryChecksBalanced
<1> SUFFICES ASSUME CInv, ~ Stopped
             PROVE  /\ ctx.live => ctx.entry_check_count = Checks
                    /\ ctx.live <=> Checks > 0 \/ pc = "land"
                    /\ \A i \in DOMAIN frames :
                         /\ frames[i].skit_thread_ctx # "stale"
                         /\ frames[i].skit_thread_ctx = "live" => ctx.live
                         /\ frames[i].guards_used =>
                              frames[i].nesting_level = CountBlocks({"try"}, i)
  BY DEF EntryChecksBalanced
<1>1. IInv /\ Control
  BY DEF CInv, Stopped
<1>2. /\ Counted(frames, Fr, blocks, ctx, pc, 0) /\ ScopesFit(frames, Fr, blocks, pc)
      /\ PointersFit(frames, Fr, blocks, ctx.live, Root(ctx))
  BY <1>1 DEF Control, Consistent, Core
<1>3. Checks = Need(frames, Fr, blocks, pc)
  <2>1. Cardinality(ScansFor({"throw"})) = Rank(frames, Throws, Fr)
    BY <1>1, CountsOfFrames DEF Throws
  <2>2. Checked(blocks) \in Nat /\ Rank(frames, Throws, Fr) \in Nat
    <3>1. Len(blocks) \in Nat /\ Fr \in Nat
      BY <1>1, Types
    <3> QED
      BY <3>1, NeedIsTyped DEF NeedType
  <2> QED
    BY <1>1, <2>1, <2>2, CountsOfBlocks DEF Checks, Need, Owed, Propagates
<1>4. Need(frames, Fr, blocks, pc) \in Nat
  <2>1. Nested(blocks, Fr) /\ Fr \in Nat /\ blocks \in Seq(Blocks)
    BY <1>1, Types DEF Control, Consistent, Core
  <2> QED
    BY <2>1, NeedSome
<1>5. DOMAIN frames = 1 .. Fr
  BY <1>1, FrType DEF IInv
<1>6. ASSUME NEW i \in DOMAIN frames
      PROVE  /\ frames[i].skit_thread_ctx # "stale"
             /\ frames[i].skit_thread_ctx = "live" => ctx.live
             /\ frames[i].guards_used => frames[i].nesting_level = CountBlocks({"try"}, i)
  <2>1. /\ FrameFits(frames, Fr, blocks, pc, i)
        /\ PointerFits(i, frames[i], ctx.live, Root(ctx))
    BY <1>2, <1>5 DEF ScopesFit, PointersFit
  <2>2. frames[i].guards_used => frames[i].nesting_level = CountBlocks({"try"}, i)
    BY <1>1, <2>1, CountsOfBlocks DEF FrameFits
  <2> QED
    BY <2>1, <2>2 DEF PointerFits
<1>7. /\ ctx.live => ctx.entry_check_count = Checks
      /\ ctx.live <=> Checks > 0 \/ pc = "land"
  BY <1>2, <1>3, <1>4 DEF Counted, ChecksFit
<1> QED
  BY <1>6, <1>7

LEMMA GuardsHolds == CInv => GuardsBelongToActiveFrames
<1> SUFFICES ASSUME CInv
             PROVE  GuardsBelongToActiveFrames
  OBVIOUS
<1>1. IInv /\ AtRest /\ (pc # "dead" => Control)
  BY ControlRests DEF CInv
<1>2. ctx \in Contexts /\ blocks \in Seq(Blocks) /\ Len(blocks) \in Nat /\ Fr \in Nat \ {0}
  BY <1>1, FrType DEF IInv
<1>3. ctx.scope_jmp_stack \in Seq(ScopeJmps)
  BY <1>2, ContextTypes
<1>4. ASSUME NEW i \in DOMAIN ctx.scope_jmp_stack
      PROVE  LET guard == ctx.scope_jmp_stack[i]
             IN  /\ guard.fr <= Fr
                 /\ guard.at <= Len(blocks)
                 /\ blocks[guard.at].kind = "scope"
                 /\ blocks[guard.at].fr = guard.fr
  <2>1. i \in 1 .. Len(ctx.scope_jmp_stack)
    BY <1>3
  <2>2. InScope(blocks, ctx.scope_jmp_stack[i]) /\ ctx.scope_jmp_stack[i].fr <= Fr
    BY <1>1, <2>1 DEF AtRest
  <2> QED
    BY <1>2, <2>2 DEF InScope
<1>5. ASSUME pc \in Visits
      PROVE  CountBlocks({"guard"}, Fr) = 0
  <2>1. Core(frames, Fr, blocks, ctx, pc, 0)
    BY <1>1, <1>5 DEF Visits, Control, Consistent
  <2>2. InItsScope(frames, Fr, blocks, ctx, pc)
    <3> DEFINE k == 0
    <3>1. Core(frames, Fr, blocks, ctx, pc, k)
      BY <2>1
    <3> HIDE DEF k
    <3> QED
      BY ONLY <1>5, <3>1, OpenScope
  <2>3. ScopeTop(blocks, Fr)
    BY <1>2, <2>1, <2>2, OnlyScope DEF Core, InItsScope
  <2>4. {i \in DOMAIN blocks : blocks[i].kind \in {"guard"} /\ blocks[i].fr = Fr} = {}
    <3>1. ASSUME NEW i \in DOMAIN blocks, blocks[i].kind = "guard", blocks[i].fr = Fr
          PROVE  FALSE
      <4>1. i \in 1 .. Len(blocks) - 1 \/ i = Len(blocks)
        BY <1>2
      <4> QED
        BY <1>2, <2>2, <2>3, <3>1, <4>1 DEF ScopeTop, InItsScope
    <3> QED
      BY <3>1
  <2> QED
    BY <2>4, FS_EmptySet DEF CountBlocks
<1> QED
  BY <1>4, <1>5 DEF GuardsBelongToActiveFrames, Visits

LEMMA MirrorHolds == CInv => JmpStacksMirrorControl
<1> SUFFICES ASSUME CInv
             PROVE  JmpStacksMirrorControl
  OBVIOUS
<1>1. IInv /\ AtRest /\ (pc # "dead" => Control)
  BY ControlRests DEF CInv
<1>2. ASSUME pc = "run", Inside("trace")
      PROVE  Position(Untraced) = Last(blocks).pos
  <2> DEFINE bs == Front(blocks)
             b == Last(blocks)
             kind == "trace"
  <2>1. Control
    BY <1>1, <1>2
  <2>2. Inside(kind)
    BY <1>2
  <2> HIDE DEF kind
  <2>3. bs \in Seq(Blocks) /\ b \in Blocks /\ b.kind = kind
    BY <1>1, <2>2, TopOf
  <2>4. Core(frames, Fr, Append(bs, b), ctx, "run", 0) /\ ctx.live /\ ctx \in Contexts
    BY <1>1, <1>2, <2>1, <2>2, InsideFacts
  <2>5. Stacks(Append(bs, b), ctx, "run")
    BY <2>4 DEF Core, StacksFit
  <2>6. /\ Untraced.exc_jmp_stack = Front(ctx.exc_jmp_stack)
        /\ Untraced.try_jmp_stack = ctx.try_jmp_stack
        /\ Untraced.scope_jmp_stack = ctx.scope_jmp_stack
        /\ Untraced.debug_depth = ctx.debug_depth - 1
    BY <2>4 DEF Untraced, Contexts
  <2> HIDE DEF bs, b
  <2> DEFINE p == "run"  d == Untraced
  <2>7. p # "visited" /\ Stacks(Append(bs, b), ctx, p) /\ b.kind = "trace"
    BY <2>3, <2>5 DEF kind
  <2>8. /\ d.exc_jmp_stack = Front(ctx.exc_jmp_stack)
        /\ d.try_jmp_stack = ctx.try_jmp_stack
        /\ d.scope_jmp_stack = ctx.scope_jmp_stack
        /\ d.debug_depth = ctx.debug_depth - 1
    BY <2>6
  <2> HIDE DEF p, d
  <2>9. Position(d) = b.pos
    BY <2>3, <2>4, <2>7, <2>8, StacksPopTrace
  <2> QED
    BY <2>9 DEF d, b
<1> QED
  BY <1>1, <1>2 DEF JmpStacksMirrorControl, AtRest

(***************************************************************************)
(* For every program of the plain uses, however many functions, constructs *)
(* guards and exceptions: exc_jmp_stack holds one jump per construct       *)
(* control is inside of, in their order, try_jmp_stack one per open sTRY,  *)
(* and at the end of an sTRACE the stacks are as they were at its start,   *)
(* so that skit_reconcile_thread_context has nothing to do.                *)
(***************************************************************************)
THEOREM JmpStacksMirror == PlainUses => (Spec => []JmpStacksMirrorControl)
  BY ControlInvariant, MirrorHolds, PTL

(***************************************************************************)
(* entry_check_count is at every step what the open constructs, the        *)
(* interrupted functions and the propagation account for, so that the      *)
(* context is freed exactly when the last of them ends and no function is  *)
(* left with a pointer to a context that was freed; and the nesting level  *)
(* of a function with guards counts its open sTRYs.                        *)
(***************************************************************************)
THEOREM EntryChecks == PlainUses => (Spec => []EntryChecksBalanced)
  BY ControlInvariant, ChecksHolds, PTL

(***************************************************************************)
(* exc_instance_stack holds one exception for the propagation under way    *)
(* and one for every function whose guards run because of one: none leaks, *)
(* none is popped twice.                                                   *)
(***************************************************************************)
THEOREM PendingCounted == PlainUses => (Spec => []PendingExceptions)
  BY ControlInvariant, PendingHolds, PTL

(***************************************************************************)
(* A guard that waits belongs to an active function whose scope is open,   *)
(* and no scan starts in a function while one of its guards runs.          *)
(***************************************************************************)
THEOREM GuardsBelong == PlainUses => (Spec => []GuardsBelongToActiveFrames)
  BY ControlInvariant, GuardsHolds, PTL

(***************************************************************************)
(* No longjmp leads to a function that returned, none is made without an   *)
(* exception, and neither exc_jmp_stack nor scope_jmp_stack runs empty.    *)
(***************************************************************************)
THEOREM Crashless == PlainUses => (Spec => []NeverCrashes)
  BY ControlInvariant, NeverCrashesHolds, PTL
=============================================================================
