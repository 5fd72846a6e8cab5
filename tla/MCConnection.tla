---------------------------- MODULE MCConnection ----------------------------
(* Connection for TLC: messages are model values of the cfg.                   *)
EXTENDS Connection
=============================================================================
