------------------------------ MODULE MCThreads ------------------------------
(***************************************************************************)
(* Three threads, the first of which initialises the library, with the index *)
(* of the process and one of a caller.                                     *)
(***************************************************************************)
EXTENDS Threads, TLC

CONSTANTS t1, t2, t3
MCThreads == {t1, t2, t3}
MCEarlyThreads == {t1}
(* Two are enough to overlap in every way.                                 *)
MCTracers == {t1, t2}
=============================================================================
