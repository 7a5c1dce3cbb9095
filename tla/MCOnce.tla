------------------------------- MODULE MCOnce -------------------------------
(* Instances of Once for TLC. *)
EXTENDS Once
=============================================================================
