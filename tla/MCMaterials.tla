------------------------------ MODULE MCMaterials ------------------------------
(* One file, shown in two projects, one of which has a ticket.                *)
EXTENDS Materials, TLC

CONSTANTS p1, t1

MCProjectOf == (t1 :> p1)
==============================================================================
