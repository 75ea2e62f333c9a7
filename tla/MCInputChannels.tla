--------------------------- MODULE MCInputChannels ---------------------------
(* Any name is as good as another: Names is symmetric.  The monitors are    *)
(* not, since Messages puts them in some order.                             *)
EXTENDS InputChannels, TLC

NamesSymmetry == Permutations(Names)
=============================================================================
