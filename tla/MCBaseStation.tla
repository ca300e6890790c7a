--------------------------- MODULE MCBaseStation ----------------------------
(* BaseStation for TLC. *)
EXTENDS BaseStation

=============================================================================
