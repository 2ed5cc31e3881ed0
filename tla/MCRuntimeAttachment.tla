---------------------------- MODULE MCRuntimeAttachment ----------------------------
(* RuntimeAttachment with interchangeable clients. *)
EXTENDS RuntimeAttachment, TLC

Symmetry == Permutations(Clients)
====================================================================================
