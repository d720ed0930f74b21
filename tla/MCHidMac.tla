------------------------------ MODULE MCHidMac ------------------------------
(***************************************************************************)
(* HidMac with two readers and a queue of two reports.                     *)
(***************************************************************************)
EXTENDS HidMac
=============================================================================
