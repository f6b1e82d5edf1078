-------------------------- MODULE MCUniverseMembership --------------------------
(* Model values and symmetry for the runs of UniverseMembership. *)
EXTENDS UniverseMembership, TLC
UniverseSymmetry ==
    Permutations(Companies) \cup Permutations(Securities) \cup Permutations(Runs)
================================================================================
