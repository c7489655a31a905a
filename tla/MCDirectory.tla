---------------------------- MODULE MCDirectory -----------------------------
(***************************************************************************)
(* Five names, one with a long record and two with equal hashes, in blocks *)
(* of two records; index roots of two entries and nodes of three.          *)
(***************************************************************************)
EXTENDS Directory

MCRecLen(n) == IF n = "e" THEN 4 ELSE 3
MCHash(n) == CASE n \in {"a", "c"} -> 4 [] n = "b" -> 8 [] n = "d" -> 12
               [] n = "e" -> 2 [] OTHER -> 6
=============================================================================
