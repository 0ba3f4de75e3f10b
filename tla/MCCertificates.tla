---------------------------- MODULE MCCertificates ----------------------------
(***************************************************************************)
(* Certificates on a small instance.                                       *)
(***************************************************************************)
EXTENDS Certificates

CONSTANTS a, b
Items == {a, b}
=============================================================================
