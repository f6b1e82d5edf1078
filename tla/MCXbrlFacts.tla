------------------------------ MODULE MCXbrlFacts ------------------------------
(* Model values and symmetry for the runs of XbrlFacts. *)
EXTENDS XbrlFacts, TLC
XbrlSymmetry == Permutations(Companies) \cup Permutations(Runs)
================================================================================
