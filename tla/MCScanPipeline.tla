---------------------------- MODULE MCScanPipeline -----------------------------
(* Small instances of ScanPipeline for TLC. *)
EXTENDS ScanPipeline
================================================================================
