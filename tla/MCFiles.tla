------------------------------ MODULE MCFiles ------------------------------
(* Two processes and three slots, one of them for the standard streams.      *)
EXTENDS Files
=============================================================================
