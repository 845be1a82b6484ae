------------------------------ MODULE MCRelease ------------------------------
(* A small instance of Release: two clones; one version in up to three runs, *)
(* or two versions in two.                                                   *)
EXTENDS Release, TLC

CONSTANTS a, b

MCClones == {a, b}
MCVersions == 1..3
MCPlans == {[versions |-> {2}, runs |-> 3], [versions |-> {2, 3}, runs |-> 2]}
Symmetry == Permutations(MCClones)
=============================================================================
