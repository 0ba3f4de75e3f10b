------------------------------- MODULE MCClient -------------------------------
(***************************************************************************)
(* Client on a small instance.                                             *)
(***************************************************************************)
EXTENDS Client

NumCmds == 2
Commands == 1..NumCmds
=============================================================================
