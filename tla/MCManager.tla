------------------------------ MODULE MCManager ------------------------------
(* A few pods, one after another. *)
EXTENDS Manager
==============================================================================
