----------------------------- MODULE ScanAdmission -----------------------------
(***************************************************************************)
(* Admission of a scan: create_scan (src/services/scan_service.rs) and the  *)
(* sliding window of the rate limiter (src/infra/rate_limit.rs).  A request *)
(* looks for a recent scan of the same client and source, asks the limiter  *)
(* and inserts a row; requests run concurrently and may be interrupted      *)
(* between any two of these.  The limiter reads its clock before it takes   *)
(* its lock, so requests can reach it out of time order.                    *)
(***************************************************************************)
EXTENDS Naturals, Sequences, FiniteSets

CONSTANTS
    Requests,       \* requests to POST /api/scans; a scan is named by its request
    Clients,        \* values of ip_hash
    Sources,        \* values of source_hash
    PerWindow,      \* RATE_LIMIT_PER_HOUR
    Window,         \* the limiter's window, an hour
    IdemWindow,     \* IDEMPOTENCY_WINDOW_SECS; 0 turns the look-up off
    MaxSkew,        \* how long a request can wait for the limiter's lock
    Faults,         \* the kinds of fault that may happen
    MaxFaults,      \* bound: failed statements and restarts
    MaxTime         \* bound: the clock stops here

ASSUME AdmissionAssumption ==
    /\ PerWindow \in Nat \ {0}
    /\ Window \in Nat \ {0}
    /\ IdemWindow \in Nat
    /\ MaxSkew \in Nat
    /\ Faults \subseteq {"db_error", "restart"}
    /\ MaxFaults \in Nat
    /\ MaxTime \in Nat

VARIABLES
    now,      \* the clock
    pc,       \* where create_scan is, or how it answered
    client,   \* of a request: who sent it,
    source,   \* what it submits,
    stamp,    \* the instant it read for the limiter
    created,  \* scans: the request that inserted each, and when
    hits,     \* the limiter's deque per client
    quota,    \* bookkeeping: whether a request took quota of this server or of one before
    before,   \* bookkeeping: the same submission's scans answered before a request began
    faults    \* faults so far

vars == <<now, pc, client, source, stamp, created, hits, quota, before, faults>>
requestVars == <<client, source, before>>

Working == {"lookup", "clock", "limit", "insert"}
Answers == {"created", "duplicate", "limited", "error", "invalid"}

TypeOK ==
    /\ now \in Nat
    /\ pc \in [Requests -> Working \cup Answers \cup {"idle"}]
    /\ client \in [Requests -> Clients]
    /\ source \in [Requests -> Sources]
    /\ stamp \in [Requests -> Nat]
    /\ created \subseteq [id : Requests, at : Nat]
    /\ hits \in [Clients -> Seq(Requests)]
    /\ \A c \in Clients : Len(hits[c]) <= PerWindow
    /\ quota \in [Requests -> {"none", "live", "forgotten"}]
    /\ before \in [Requests -> SUBSET Requests]
    /\ faults \in Nat

Init ==
    /\ now = 0
    /\ pc = [r \in Requests |-> "idle"]
    /\ client \in [Requests -> Clients]
    /\ source \in [Requests -> Sources]
    /\ stamp = [r \in Requests |-> 0]
    /\ created = {}
    /\ hits = [c \in Clients |-> <<>>]
    /\ quota = [r \in Requests |-> "none"]
    /\ before = [r \in Requests |-> {}]
    /\ faults = 0

Goto(r, label) == pc' = [pc EXCEPT ![r] = label]

Fault(kind) ==
    /\ kind \in Faults
    /\ faults < MaxFaults
    /\ faults' = faults + 1

-----------------------------------------------------------------------------
(* create_scan *)

\* Mutant: the limiter is asked before the look-up.
Then_LimiterFirst(step) ==
    CASE step = "begin" -> "clock"
      [] step = "limit" -> "lookup"
      [] step = "lookup" -> "insert"

\* The order of create_scan; without an idempotency window there is no look-up.
Then(step) ==
    CASE step = "begin" -> IF IdemWindow > 0 THEN "lookup" ELSE "clock"
      [] step = "lookup" -> "clock"
      [] step = "limit" -> "insert"

\* The same client submits the same source.
Same(q, r) == client[q] = client[r] /\ source[q] = source[r]

\* A valid submission arrives.
Begin(r) ==
    /\ pc[r] = "idle"
    /\ Goto(r, Then("begin"))
    /\ before' = [before EXCEPT ![r] =
          {row.id : row \in {x \in created : Same(x.id, r) /\ pc[x.id] \in Answers}}]
    /\ UNCHANGED <<now, client, source, stamp, created, hits, quota, faults>>

\* A submission arrives that validate() refuses: its text is empty, too large, no .sol
\* upload, or does not look like Solidity.
Refuse(r) ==
    /\ pc[r] = "idle"
    /\ Goto(r, "invalid")
    /\ UNCHANGED <<now, requestVars, stamp, created, hits, quota, faults>>

\* Mutant: only scans of the same instant count as recent.
Recent_SameInstant(r) ==
    {row \in created : Same(row.id, r) /\ row.at = now}

\* The rows find_recent_by_hash selects from.
Recent(r) ==
    {row \in created : Same(row.id, r) /\ row.at + IdemWindow > now}

\* find_recent_by_hash: a recent scan of the same submission answers the request.
Lookup(r) ==
    /\ pc[r] = "lookup"
    /\ \/ /\ Recent(r) # {}
          /\ Goto(r, "duplicate")
          /\ UNCHANGED faults
       \/ /\ Recent(r) = {}
          /\ Goto(r, Then("lookup"))
          /\ UNCHANGED faults
       \/ /\ Fault("db_error")
          /\ Goto(r, "error")
    /\ UNCHANGED <<now, requestVars, stamp, created, hits, quota>>

\* check_and_record reads the clock ...
ReadClock(r) ==
    /\ pc[r] = "clock"
    /\ stamp' = [stamp EXCEPT ![r] = now]
    /\ Goto(r, "limit")
    /\ UNCHANGED <<now, requestVars, created, hits, quota, faults>>

\* Mutant: a hit leaves the window one instant early.
Inside_Early(deque, t) == {i \in DOMAIN deque : stamp[deque[i]] + Window > t + 1}

\* Mutant: a hit never leaves the window.
Inside_Forever(deque, t) == DOMAIN deque

\* The hits of the deque that are within the window of instant t.
Inside(deque, t) == {i \in DOMAIN deque : stamp[deque[i]] + Window > t}

\* ... then, under its lock, drops hits from the front of the deque up to the first
\* that is within the window of the instant read,
Pruned(deque, t) ==
    LET inside == Inside(deque, t)
        first  == CHOOSE i \in inside : \A j \in inside : i <= j
    IN  IF inside = {} THEN <<>> ELSE SubSeq(deque, first, Len(deque))

\* Mutant: one hit too many.
Full_OffByOne(deque) == Len(deque) > PerWindow

Full(deque) == Len(deque) >= PerWindow

\* and rejects the request if the deque is full, or records its hit.
CheckAndRecord(r) ==
    LET c == client[r]
        deque == Pruned(hits[c], stamp[r])
    IN  /\ pc[r] = "limit"
        /\ \/ /\ Full(deque)
              /\ hits' = [hits EXCEPT ![c] = deque]
              /\ stamp' = [stamp EXCEPT ![r] = 0]
              /\ Goto(r, "limited")
              /\ UNCHANGED quota
           \/ /\ ~Full(deque)
              /\ hits' = [hits EXCEPT ![c] = Append(deque, r)]
              /\ quota' = [quota EXCEPT ![r] = "live"]
              /\ Goto(r, Then("limit"))
              /\ UNCHANGED stamp
        /\ UNCHANGED <<now, requestVars, created, faults>>

\* The INSERT; an error is answered as such, applied or not, and the hit stays.
Insert(r) ==
    /\ pc[r] = "insert"
    /\ \/ /\ created' = created \cup {[id |-> r, at |-> now]}
          /\ Goto(r, "created")
          /\ UNCHANGED faults
       \/ /\ Fault("db_error")
          /\ created' \in {created, created \cup {[id |-> r, at |-> now]}}
          /\ Goto(r, "error")
    /\ UNCHANGED <<now, requestVars, stamp, hits, quota>>

-----------------------------------------------------------------------------
\* Time passes; a request does not wait for the limiter's lock longer than MaxSkew.
Tick ==
    /\ now < MaxTime
    /\ \A r \in Requests : pc[r] = "limit" => now < stamp[r] + MaxSkew
    /\ now' = now + 1
    /\ UNCHANGED <<pc, requestVars, stamp, created, hits, quota, faults>>

\* The server is restarted: requests break off and the limiter forgets its hits.
Restart ==
    /\ Fault("restart")
    /\ pc' = [r \in Requests |-> IF pc[r] \in Working THEN "error" ELSE pc[r]]
    /\ hits' = [c \in Clients |-> <<>>]
    /\ quota' = [r \in Requests |-> IF quota[r] = "live" THEN "forgotten" ELSE quota[r]]
    /\ stamp' = [r \in Requests |-> 0]
    /\ UNCHANGED <<now, requestVars, created>>

Next ==
    \/ \E r \in Requests :
          \/ Begin(r) \/ Refuse(r) \/ Lookup(r)
          \/ ReadClock(r) \/ CheckAndRecord(r) \/ Insert(r)
    \/ Tick
    \/ Restart

Spec == Init /\ [][Next]_vars

-----------------------------------------------------------------------------
(* Properties. *)

Live(c) == {r \in Requests : client[r] = c /\ quota[r] = "live"}

\* Between two restarts no client is admitted more than PerWindow times within any
\* span shorter than the window less the time a request can wait for the lock: a
\* request that read its clock early must not profit from the pruning of a later one
\* (check_and_record).
WindowBound ==
    \A c \in Clients : \A start \in {stamp[r] : r \in Live(c)} :
        Cardinality({r \in Live(c) :
            start <= stamp[r] /\ stamp[r] + MaxSkew < start + Window}) <= PerWindow

\* A request is turned away only if its own client was admitted PerWindow times
\* since the window, give or take the wait for the lock, began: hits out of time
\* order in the deque and other clients' hits do not count (check_and_record).
RejectionJustified ==
    [][\A r \in Requests : pc[r] = "limit" /\ pc'[r] = "limited" =>
          Cardinality({q \in Live(client[r]) :
              stamp[q] + Window + MaxSkew > stamp[r]}) >= PerWindow]_vars

\* Once a submission has been answered, sending it again makes no second scan until
\* the idempotency window is over, in spite of restarts, of inserts reported as
\* failed, and of other requests (create_scan, find_recent_by_hash).
NoSequentialDuplicate ==
    IdemWindow > 0 =>
        \A old, new \in created :
            old.id \in before[new.id] => new.at >= old.at + IdemWindow

\* "does NOT consume rate-limit quota": neither a duplicate nor a refused input takes
\* any, and no scan is made without (create_scan).
QuotaIsForNewScans ==
    /\ \A r \in Requests : pc[r] \in {"duplicate", "invalid"} => quota[r] = "none"
    /\ \A row \in created : quota[row.id] # "none"

-----------------------------------------------------------------------------
(* A claim of the repository the code does not keep. *)

\* "an accidental double-submit never causes the user to pay twice": a client gets
\* one scan for one source within the idempotency window.
NoDoubleSubmit ==
    \A a, b \in created :
        a # b /\ Same(a.id, b.id) => a.at >= b.at + IdemWindow \/ b.at >= a.at + IdemWindow
=============================================================================
