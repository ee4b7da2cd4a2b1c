----------------------------- MODULE SealedLog -----------------------------
(***************************************************************************)
(* What a private game recording promises to the code that reads it, with  *)
(* processes, crashes and storage left out: a log that only grows, is      *)
(* sealed once by a terminal row, and is published only after that and     *)
(* only once.                                                              *)
(***************************************************************************)
EXTENDS JournalRows

VARIABLES
  log,        (* the durable rows                                          *)
  published   (* TRUE once the finalized manifest exists                   *)

logVars == <<log, published>>

LogInit == log = <<>> /\ published = FALSE

(* One or several rows become durable; the last of them may be terminal.   *)
Extend ==
  /\ ~Sealed(log)
  /\ Len(log) < Len(log')
  /\ log = SubSeq(log', 1, Len(log))
  /\ NothingAfterTerminalIn(log')
  /\ UNCHANGED published

Publish ==
  /\ Sealed(log)
  /\ ~published
  /\ published' = TRUE
  /\ UNCHANGED log

LogNext == Extend \/ Publish

LogSpec == LogInit /\ [][LogNext]_logVars
=============================================================================
