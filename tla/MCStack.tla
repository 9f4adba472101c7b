------------------------------ MODULE MCStack ------------------------------
(***************************************************************************)
(* Four interchangeable nodes, of which a program makes two stacks.  When  *)
(* they are empty it may give the nodes, with whatever is left in them, to *)
(* a free stack.                                                           *)
(***************************************************************************)
EXTENDS Stack, TLC

VARIABLES used, unused

Free == INSTANCE Fstack

NodeSymmetry == Permutations(Nodes)

NothingIn(structs) == \A s \in DOMAIN structs : structs[s] = stack_ctor
ProgramInit == Init /\ Free!fstack_ctor
ProgramNext ==
  \/ Next /\ NothingIn(<<used, unused>>) /\ UNCHANGED <<used, unused>>
  \/ Free!Next /\ NothingIn(stacks) /\ UNCHANGED stacks
ProgramSpec == ProgramInit /\ [][ProgramNext]_<<vars, used, unused>>

(* What Fstack promises of the free stack, under its name here.            *)
FreeWalksOneRange == Free!WalksOneRange
FreeImplementsArray == Free!ImplementsArray
=============================================================================
