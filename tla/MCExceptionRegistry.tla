------------------------ MODULE MCExceptionRegistry ------------------------
(* Model-checking instance of ExceptionRegistry: four error-code variables, *)
(* as static variables of C (0) or with SKIT_EXCEPTION_INITIAL_VAL, which is *)
(* out of every table's range.                                               *)
EXTENDS ExceptionRegistry

CONSTANTS a, b, c, d

MCVars       == {a, b, c, d}
MCInitialIds == {0, 99}
=============================================================================
