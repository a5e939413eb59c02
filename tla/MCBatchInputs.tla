---------------------------- MODULE MCBatchInputs ----------------------------
(* Instances of BatchInputs for TLC.                                       *)
EXTENDS BatchInputs

\* The whole catalog of shapes.
AllShapes == WORKFLOW_CATALOG
=============================================================================
