---------------------------- MODULE MCScanAdmission ----------------------------
(* Small instances of ScanAdmission for TLC. *)
EXTENDS ScanAdmission, TLC
AdmissionSymmetry ==
    Permutations(Requests) \cup Permutations(Clients) \cup Permutations(Sources)
================================================================================
