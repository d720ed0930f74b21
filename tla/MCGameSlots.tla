----------------------------- MODULE MCGameSlots -----------------------------
(***************************************************************************)
(* GameSlots on a flash of four slots: a game of two sides, one of one     *)
(* side, one whose first side fds_to_bin rejects, and one whose first side *)
(* it takes but raw03_to_fds does not.                                     *)
(***************************************************************************)
EXTENDS GameSlotsProofs

TwoSides == <<"good", "good">>
OneSide == <<"good">>
BadFirst == <<"rejected", "good">>
OddFirst == <<"odd", "good">>

MCGames == {TwoSides, OneSide, BadFirst, OddFirst}

\* with and without room, beside and across each other
MCFlashes == {<<TwoSides, 1>>, <<TwoSides, 2>>, <<BadFirst, 1>>, <<OddFirst, 2>>,
              <<TwoSides, 3>>, <<OneSide, 0>>}
MCErasures == {0, 1, 2}
=============================================================================
