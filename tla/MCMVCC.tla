------------------------------- MODULE MCMVCC -------------------------------
(* The MVCC layer and its refinement, for model checking. *)
EXTENDS MVCCRefinement
=============================================================================
