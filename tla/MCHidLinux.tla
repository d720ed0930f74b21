----------------------------- MODULE MCHidLinux -----------------------------
(***************************************************************************)
(* HidLinux with a queue of two reports.                                   *)
(***************************************************************************)
EXTENDS HidLinux
=============================================================================
