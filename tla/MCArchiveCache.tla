----------------------------- MODULE MCArchiveCache -----------------------------
(* Deployments for the run of ArchiveCache. *)
EXTENDS ArchiveCache, TLC
CONSTANTS r1, r2
OneForced == (r1 :> "normal") @@ (r2 :> "force")
================================================================================
