---------------------------- MODULE MCMinesweeper ----------------------------
(* Boards of Minesweeper for TLC. *)
EXTENDS Minesweeper

\* Mines in a corner: one region, which a flag at <<1, 3>> cuts in two.  Mines
\* in opposite corners: the region lies between them.
mc_Layouts == { {<<0, 0>>, <<0, 1>>}, {<<0, 0>>, <<3, 3>>} }
=============================================================================
