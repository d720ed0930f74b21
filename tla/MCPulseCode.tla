----------------------------- MODULE MCPulseCode -----------------------------
(***************************************************************************)
(* PulseCode for every image of L bits.                                    *)
(***************************************************************************)
EXTENDS PulseCodeProofs

MCImages == [1 .. L -> {0, 1}]
=============================================================================
