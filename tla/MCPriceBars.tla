------------------------------ MODULE MCPriceBars ------------------------------
(* Model values and symmetry for the runs of PriceBars. *)
EXTENDS PriceBars, TLC
SecuritySymmetry == Permutations(Securities)
================================================================================
