------------------------ MODULE MCFixedWindowLimiter ------------------------
(* FixedWindowLimiter for TLC. *)
EXTENDS FixedWindowLimiter
=============================================================================
