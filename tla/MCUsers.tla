------------------------------ MODULE MCUsers ------------------------------
(* Instances of Users for TLC. *)
EXTENDS Users
=============================================================================
