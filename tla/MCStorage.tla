---- MODULE MCStorage ----
(* Storage for TLC, with the application of MCParams. *)
EXTENDS Storage, MCParams
====
