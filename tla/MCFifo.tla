------------------------------ MODULE MCFifo ------------------------------
(* Two byte values, rings of one to four bytes, and indices that wrap at 8:  *)
(* a ring that is never emptied passes the wrap after two rounds.            *)
EXTENDS Fifo
=============================================================================
