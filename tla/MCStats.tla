------------------------------- MODULE MCStats -------------------------------
(* Two threads that charge allocations of one or two bytes to one Stats.   *)
EXTENDS Stats, TLC

CONSTANTS t1, t2

ThreadsMC == {t1, t2}
SizesMC == {1, 2}
Symmetry == Permutations(ThreadsMC)
=============================================================================
