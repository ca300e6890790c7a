---------------------------- MODULE MCJsonWriter ----------------------------
(* JsonWriter for TLC. *)
EXTENDS JsonWriter

=============================================================================
