--------------------------- MODULE MCLineFraming ---------------------------
(* LineFraming for TLC: all its constants are numbers, given in the cfg. *)
EXTENDS LineFraming
=============================================================================
