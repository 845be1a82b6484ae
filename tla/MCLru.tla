------------------------------- MODULE MCLru --------------------------------
(* A small instance of ParseCache and of its refinement mapping: two threads, *)
(* two files, an empty file's size, one within the caps and one larger than a *)
(* cap.                                                                       *)
EXTENDS ParseCacheLru, TLC

CONSTANTS w1, w2, p1, p2

MCWorkers == {w1, w2}
MCParses == {p1, p2}
MCSizes == {0, 3}
MCCaps == {0, 1, 4}

Symmetry == Permutations(MCWorkers) \cup Permutations(MCParses)
=============================================================================
