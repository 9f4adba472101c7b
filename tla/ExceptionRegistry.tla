------------------------- MODULE ExceptionRegistry -------------------------
(***************************************************************************)
(* skit__register_exception (feature_emulation/exception.c): error codes   *)
(* are indices of one inheritance table, skit__exc_inheritance_table; two  *)
(* C arrays beside it, grown by skit__exc_resize, hold each code's name    *)
(* and its default message.  The two arrays are treated alike, so one of   *)
(* them is modelled.                                                       *)
(***************************************************************************)
EXTENDS InheritanceTable

CONSTANTS
  SKIT_FATAL_EXCEPTION,  (* the variable skit_init_exceptions registers first *)
  ParentsFirst           (* are parents registered before they are used?      *)

ASSUME FatalAssumption == SKIT_FATAL_EXCEPTION \in Vars
ASSUME ParentsFirstAssumption == ParentsFirst \in BOOLEAN

VARIABLES
  msgs,          (* skit__exc_default_msgs: what each element holds        *)
  overran        (* has an element outside the allocation been written?    *)

regVars == <<tbl, id, msgs, overran>>

Capacity(array) == Cardinality(DOMAIN array)

-----------------------------------------------------------------------------

(***************************************************************************)
(* skit__exc_resize: the first allocation is of one element whatever       *)
(* new_size is, later ones are of new_size; the elements from old_size on  *)
(* are set to NULL, those a reallocation added below old_size are not set. *)
(***************************************************************************)
(* Bugs the runs must catch: one element too few, and clearing too much.    *)
AllocatedShort(array, new_size) == IF Capacity(array) = 0 THEN 1 ELSE new_size - 1
ResizeClears(array, old_size, new_size) == [i \in 0 .. new_size - 1 |-> "NULL"]

Allocated(array, new_size) == IF Capacity(array) = 0 THEN 1 ELSE new_size

skit__exc_resize(array, old_size, new_size) ==
  [ i \in 0 .. Allocated(array, new_size) - 1 |->
      IF i \in old_size .. new_size - 1 THEN "NULL"
      ELSE IF i < Capacity(array) THEN array[i] ELSE "garbage" ]

ResizeOverruns(array, new_size) == new_size > Allocated(array, new_size)

(***************************************************************************)
(* skit__register_exception: the arrays are resized only when the child's  *)
(* own code is beyond the old table, then the child's element is written.  *)
(* skit_init_exceptions makes the first registration ever, a root of code  *)
(* 0 for the unrecoverable exception.                                      *)
(***************************************************************************)
skit__register_exception(ecode, parent) ==
  /\ tbl.table_size = 0 => ecode = SKIT_FATAL_EXCEPTION /\ parent = SKIT_FATAL_EXCEPTION
  /\ skit_register_parent_child_rel(ecode, parent)
  /\ ParentsFirst => ecode = parent \/ IsInitialized(tbl, id, parent)
  /\ LET old_size == tbl.table_size
         new_size == id'[ecode] + 1
         grows    == new_size > old_size
         array    == IF grows THEN skit__exc_resize(msgs, old_size, new_size) ELSE msgs
     IN  /\ msgs' = [ i \in DOMAIN array |->
                        IF i = id'[ecode] THEN "message" ELSE array[i] ]
         /\ overran' = \/ overran
                       \/ grows /\ ResizeOverruns(msgs, new_size)
                       \/ id'[ecode] >= Capacity(array)

RegInit ==
  /\ Init
  /\ msgs = NoElements
  /\ overran = FALSE

RegNext == \E ecode, parent \in Vars : skit__register_exception(ecode, parent)

RegSpec == RegInit /\ [][RegNext]_regVars

-----------------------------------------------------------------------------
(* skit_exception_default_msg may be asked about any code of the table     *)
(* (sTHROW with one argument does): the element is there and was written.  *)
EveryCodeHasAMessage ==
  \A i \in Indices(tbl) : i \in DOMAIN msgs /\ msgs[i] = "message"

(* No registration writes beyond the arrays, whatever codes are registered *)
(* again, under whatever parent.                                           *)
NeverOverruns == ~ overran
=============================================================================
