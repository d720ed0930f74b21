----------------------------- MODULE MCSpiFlash -----------------------------
(***************************************************************************)
(* SpiFlash on a chip of two slots of two pages, with the commands a user  *)
(* can type, grouped by the question a run asks.                           *)
(***************************************************************************)
EXTENDS SpiFlash

CONSTANTS a, b

Run(kind, page, data) == [kind |-> kind, page |-> page, data |-> data]

MCImages == {a, b}

\* a game of two sides, one whose first side fds_to_bin rejects, a file of one
\* page, a firmware image, the slot -e refuses, and -e all
MCTwoSides == Run("flash", 0, << <<a, b>>, <<b, a>> >>)
MCBadSide == Run("flash", 0, << <<>>, <<b, a>> >>)
MCFile == Run("file", 2, << <<b>> >>)
MCFirmware == Run("firmware", 1, << <<a>> >>)
MCEraseSlot0 == Run("erase", 0, << <<>> >>)
MCEraseAll == Run("eraseall", 0, << <<>>, <<>> >>)

MCCommands == {MCTwoSides, MCBadSide, MCFile, MCFirmware, MCEraseSlot0, MCEraseAll}
=============================================================================
