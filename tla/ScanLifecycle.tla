----------------------------- MODULE ScanLifecycle -----------------------------
(***************************************************************************)
(* What the service promises about one paid scan, whatever polls, crashes,  *)
(* retries and reorganisations happen underneath: an analysis starts only   *)
(* for a scan whose payment is settled, it starts once, a scan is declared  *)
(* ready only after its report is stored, and an end state is final.        *)
(* PaymentWatcher implements the part up to "started", ScanPipeline the     *)
(* part from there on.                                                      *)
(***************************************************************************)
CONSTANT Scans

VARIABLES
    settled,   \* scans with a confirmed payment on the chain
    phase,     \* how far each scan is
    reports    \* scans whose report is stored

lifecycleVars == <<settled, phase, reports>>

Phases == {"absent", "awaiting", "paid", "started", "ready", "failed"}

LifecycleInit ==
    /\ settled \in SUBSET Scans
    /\ phase = [s \in Scans |-> "absent"]
    /\ reports = {}

Move(s, from, next) ==
    /\ phase[s] = from
    /\ phase' = [phase EXCEPT ![s] = next]

\* A payment that is settled stays settled.
Settle(scans) == settled' = settled \cup scans /\ UNCHANGED <<phase, reports>>

Open(s) == Move(s, "absent", "awaiting") /\ UNCHANGED <<settled, reports>>

Claim(s) ==
    /\ s \in settled
    /\ Move(s, "awaiting", "paid")
    /\ UNCHANGED <<settled, reports>>

Start(s) == Move(s, "paid", "started") /\ UNCHANGED <<settled, reports>>

StoreReport(s) ==
    /\ phase[s] = "started"
    /\ reports' = reports \cup {s}
    /\ UNCHANGED <<settled, phase>>

Deliver(s) ==
    /\ s \in reports
    /\ Move(s, "started", "ready")
    /\ UNCHANGED <<settled, reports>>

GiveUp(s) == Move(s, "started", "failed") /\ UNCHANGED <<settled, reports>>

LifecycleNext ==
    \/ \E scans \in SUBSET Scans : Settle(scans)
    \/ \E s \in Scans :
          Open(s) \/ Claim(s) \/ Start(s) \/ StoreReport(s) \/ Deliver(s) \/ GiveUp(s)

LifecycleSpec == LifecycleInit /\ [][LifecycleNext]_lifecycleVars
================================================================================
