----------------------- MODULE MCSeriesGeneralization -----------------------
(* Two untouched cases of different weight, with room for their calls or not. *)
EXTENDS SeriesGeneralization, TLC

CONSTANTS p1, p2

MCOrder == <<"future1", "future2">>
MCWeight == ("future1" :> 1) @@ ("future2" :> 2)
Symmetry == Permutations(Procs)
=============================================================================
