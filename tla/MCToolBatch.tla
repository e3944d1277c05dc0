----------------------------- MODULE MCToolBatch -----------------------------
(* Finite values for ToolBatch are in its configurations.                  *)
EXTENDS ToolBatch
=============================================================================
