------------------------------ MODULE MCJournal -----------------------------
(* Two blocks and a log of six. *)
EXTENDS JournalFs
=============================================================================
