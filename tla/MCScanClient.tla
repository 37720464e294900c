------------------------------ MODULE MCScanClient ------------------------------
(* Small instances of ScanClient for TLC. *)
EXTENDS ScanClient
================================================================================
