--------------------------- MODULE MCDeferredFrontier ---------------------------
(***************************************************************************)
(* Instances of DeferredFrontier for TLC.  The leases and waits keep the     *)
(* order of the code's 30 s, 120 s and 600 s.                                *)
(***************************************************************************)
EXTENDS DeferredFrontier
================================================================================
