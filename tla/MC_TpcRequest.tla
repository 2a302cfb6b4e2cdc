---------------------------- MODULE MC_TpcRequest ----------------------------
(* Model values for the TpcRequest runs.                                   *)
EXTENDS TpcRequest

CONSTANTS w1, w2, c1

=============================================================================
