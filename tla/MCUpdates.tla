------------------------------ MODULE MCUpdates ------------------------------
(* Updates for TLC, alone; the .cfg file gives the constants. *)
EXTENDS Updates
=============================================================================
