------------------------------- MODULE MCSandbox -------------------------------
(* Small instances of Sandbox for TLC. *)
EXTENDS Sandbox
================================================================================
