------------------------------ MODULE MCFsAlloc -----------------------------
(***************************************************************************)
(* Two groups of 12 blocks, the second short by two; two i-nodes to create *)
(* files and directories in; tree nodes of 2 and 3 entries, block maps     *)
(* with one direct slot and tables of two.                                 *)
(***************************************************************************)
EXTENDS FsAlloc

MCMetaBits == [g \in {0, 1} |-> 0 .. 2]
=============================================================================
