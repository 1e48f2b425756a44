---- MODULE MCStorageHistory ----
(* StorageHistory for TLC, with an application of MCParams that satisfies  *)
(* the hypotheses of its theorems.                                         *)
EXTENDS StorageHistory, MCParams

ASSUME TornSavesAreDetected
====
