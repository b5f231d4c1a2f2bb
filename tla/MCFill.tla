------------------------------- MODULE MCFill -------------------------------
(***************************************************************************)
(* A small instance of Fill for TLC.                                       *)
(***************************************************************************)
EXTENDS Fill

Halving == <<4, 2, 1>>
Floors == <<1, 1, 1, 1, 1, 8>>
Columns == <<2, 2, 4, 2, 2, 3>>
=============================================================================
