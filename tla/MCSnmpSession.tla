--------------------------- MODULE MCSnmpSession ---------------------------
(* Instances of SnmpSession for TLC. *)
EXTENDS SnmpSession
=============================================================================
