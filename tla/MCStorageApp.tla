---- MODULE MCStorageApp ----
(* StorageApp for TLC, with applications of MCParams that satisfy the      *)
(* hypotheses of its theorems.                                             *)
EXTENDS StorageApp, MCParams

ASSUME UseCrc => TornSavesAreDetected /\ NoRom \notin Content
ASSUME ~UseCrc /\ (\A i \in IntIdx : 0 <= IntDesc[i].min) => TornIntegersAreDetected
====
