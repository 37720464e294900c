--------------------------- MODULE MCPaymentWatcher ----------------------------
(* Small instances of PaymentWatcher for TLC. *)
EXTENDS PaymentWatcher, TLC

ScanSymmetry == Permutations(Scans)
================================================================================
