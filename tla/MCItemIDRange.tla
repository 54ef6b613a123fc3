---------------------------- MODULE MCItemIDRange ----------------------------
\* ItemIDRange for TLC: the cores are interchangeable.
EXTENDS ItemIDRange, TLC

CoreSymmetry == Permutations(Core)
=============================================================================
