------------------------------- MODULE MCProc -------------------------------
(* Three processes: a parent, a child and a sibling or init (proc_la.cfg,   *)
(* proc_rv.cfg, rv_wait4.cfg).                                              *)
EXTENDS Proc
=============================================================================
