--------------------------- MODULE MCModifyRetry ---------------------------
(***************************************************************************)
(* ModifyRetry with two calls of Modify and one of ModifyStatus.           *)
(***************************************************************************)
EXTENDS ModifyRetry

CONSTANTS a, b, s

MCCallers == {a, b, s}
MCStatusCallers == {s}

=============================================================================
