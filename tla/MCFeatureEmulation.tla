------------------------- MODULE MCFeatureEmulation -------------------------
(***************************************************************************)
(* TLC instances of FeatureEmulation: the error codes are those of         *)
(* skit_init_exceptions that matter to a catch (0 SKIT_FATAL_EXCEPTION,    *)
(* 1 SKIT_EXCEPTION, 2 an error that is an SKIT_EXCEPTION).                *)
(***************************************************************************)
EXTENDS FeatureEmulation

MCExcTable == (0 :> 0) @@ (1 :> 1) @@ (2 :> 1)

(* sSCOPE_SUCCESS, sSCOPE_FAILURE and sSCOPE_EXIT.                          *)
MCMasks == {{"success"}, {"failure"}, {"success", "failure"}}

MCCatchLists == {{0}, {1}}
=============================================================================
