----------------------------- MODULE MCDiskRead -----------------------------
(***************************************************************************)
(* DiskRead with a small buffer and few packet numbers (DiskRead.cfg).     *)
(***************************************************************************)
EXTENDS DiskRead
=============================================================================
