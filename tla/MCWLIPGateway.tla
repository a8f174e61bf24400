--------------------------- MODULE MCWLIPGateway ---------------------------
(***************************************************************************)
(* Model checking of WLIPGateway.  The constants come from WL.cfg: the     *)
(* code's one slot and three attempts, three call ids that wrap around,    *)
(* two strays.                                                             *)
(***************************************************************************)
EXTENDS WLIPGateway

=============================================================================
