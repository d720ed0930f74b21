---------------------------- MODULE MCDiskWrite -----------------------------
(***************************************************************************)
(* DiskWrite with two sides, the longer of which fills the SRAM.           *)
(***************************************************************************)
EXTENDS DiskWrite

CONSTANTS long, short

MCSides == {long, short}
MCLength == [s \in MCSides |-> IF s = long THEN Cells ELSE 1]
MCGames == {<<long, short>>, <<short, Bad>>}
MCAlways == {"enter", "run"}
=============================================================================
