---------------------------- MODULE MCPageWriter ----------------------------
(***************************************************************************)
(* PageWriter at every address of a small flash and in front of its end,   *)
(* for every size, over an erased flash, an old one and a mixed one.       *)
(***************************************************************************)
EXTENDS PageWriter

CONSTANTS Units, MaxAddr

MCWrites == [addr : 0 .. MaxAddr, size : 0 .. FlashSize, unit : Units]
MCContents ==
    {[c \in Bytes |-> Erased], [c \in Bytes |-> Garbled],
     [c \in Bytes |-> IF c % 3 = 0 THEN Erased ELSE c]}

\* What the comment on pageWriteSize says, "bytes left in page": a piece never
\* runs over the end of the page it is for.
PiecesFit == pc = "page" /\ wrote < call.size => ~Overflows
=============================================================================
