----------------------------- MODULE MCConsole -----------------------------
(***************************************************************************)
(* An instance of Console for TLC: a byte of each kind of memory.          *)
(***************************************************************************)
EXTENDS Console
=============================================================================
