---------------------------- MODULE MCXbrlPipeline ----------------------------
(* Archives and deployments for the run of XbrlPipeline. *)
EXTENDS XbrlPipeline, TLC
CONSTANTS c1, c2, r1, r2
\* A member that appears later, then a second filing.
Growing == <<(c1 :> 1) @@ (c2 :> 0), (c1 :> 2) @@ (c2 :> 1)>>
OneNormal == (r1 :> "normal")
================================================================================
