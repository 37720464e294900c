-------------------------------- MODULE Sandbox --------------------------------
(***************************************************************************)
(* A sandbox run and what it leaves behind: SlitherRunner::analyze, the     *)
(* docker client under its timeout, the scan folder removed on Drop, and    *)
(* the reaper that removes folders by their age.  Docker runs the container *)
(* apart from the client the server started: when the client is killed or   *)
(* lost, or the server dies, the container goes on, and may hang for ever.  *)
(*                                                                          *)
(* Time is relative: a run has an elapsed time, a folder an age by the wall *)
(* clock (since its last new entry), the reaper a countdown.  The wall      *)
(* clock may be set once, forward or back, by MaxJump.                      *)
(***************************************************************************)
EXTENDS Integers, FiniteSets

CONSTANTS
    Scans,
    Permits,       \* MAX_CONCURRENT_SCANS
    Timeout,       \* SLITHER_TIMEOUT_SECS
    MinThreshold,  \* the 120 s of main.rs below which the threshold never goes
    Interval,      \* the reaper's interval
    Slack,         \* how late the runtime can wake a task
    MaxJump,       \* by how much the wall clock can be set
    MaxStops,      \* bound: crashes and shutdowns of the server
    MaxFailures    \* bound: times a removal fails

\* main.rs: twice the timeout, or the minimum
Threshold == IF 2 * Timeout > MinThreshold THEN 2 * Timeout ELSE MinThreshold

\* "threshold should comfortably exceed the longest possible scan"
ASSUME SandboxAssumption ==
    /\ Permits \in Nat \ {0}
    /\ Timeout \in Nat \ {0}
    /\ {MinThreshold, Interval, Slack, MaxJump, MaxStops, MaxFailures} \subseteq Nat
    /\ Timeout + Slack + MaxJump <= Threshold

VARIABLES
    pc,         \* where the analysis of a scan is
    result,     \* what analyze() returned, until the task is over
    elapsed,    \* time since the docker client was started
    box,        \* the container
    abandoned,  \* bookkeeping: scans whose container runs without its client
    folder,     \* the scan folder
    age,        \* its age
    reapIn,     \* time until the reaper runs, negative if it is late
    up,         \* the server runs
    jumped,     \* the wall clock was set
    stops,      \* crashes and shutdowns so far
    failures    \* failed removals so far

folderVars == <<folder, age, failures>>
clockVars == <<reapIn, up, jumped, stops>>
vars == <<pc, result, elapsed, box, abandoned, folderVars, clockVars>>

\* What analyze() returns: raw results, or an error.  Which error makes no difference
\* here: run_pipeline fails the scan on each.
Results == {"raws", "error"}
\* No folder, or what slither-output.json is in it.
Folders == {"absent", "no_output", "partial", "complete"}
Oldest == Threshold + 1  \* ages from here on are alike

TypeOK ==
    /\ pc \in [Scans -> {"idle", "docker", "reporting", "ended"}]
    /\ result \in [Scans -> Results \cup {"none"}]
    /\ elapsed \in [Scans -> 0..(Timeout + Slack)]
    /\ box \in [Scans -> {"none", "running", "gone"}]
    /\ abandoned \subseteq Scans
    /\ folder \in [Scans -> Folders]
    /\ age \in [Scans -> (-MaxJump)..Oldest]
    /\ reapIn \in (-Slack)..Interval
    /\ up \in BOOLEAN
    /\ jumped \in BOOLEAN
    /\ stops \in 0..MaxStops
    /\ failures \in 0..MaxFailures
    /\ \A s \in Scans : pc[s] = "reporting" <=> result[s] # "none"

Init ==
    /\ pc = [s \in Scans |-> "idle"]
    /\ result = [s \in Scans |-> "none"]
    /\ elapsed = [s \in Scans |-> 0]
    /\ box = [s \in Scans |-> "none"]
    /\ abandoned = {}
    /\ folder = [s \in Scans |-> "absent"]
    /\ age = [s \in Scans |-> 0]
    /\ reapIn = 0
    /\ up = TRUE
    /\ jumped = FALSE
    /\ stops = 0
    /\ failures = 0

-----------------------------------------------------------------------------
(* The folders. *)

RemovalFails ==
    /\ failures < MaxFailures
    /\ failures' = failures + 1

\* remove_dir_all of these folders.  It leaves nothing; or the output that a container
\* creates at the same moment, in a folder that is new again; or, when it fails for
\* another reason, all of the folder, or the rest of it after its first entries.
Removed(gone, left) ==
    /\ \A s \in gone : left[s] = "output" => box[s] = "running" /\ folder[s] = "no_output"
    /\ folder' = [s \in Scans |-> IF s \notin gone \/ left[s] = "all" THEN folder[s]
                                  ELSE IF left[s] = "output" THEN "partial"
                                  ELSE IF left[s] = "rest" THEN "no_output"
                                  ELSE "absent"]
    /\ age' = [s \in Scans |-> IF s \notin gone \/ left[s] = "all" THEN age[s] ELSE 0]
    /\ IF \E s \in gone : left[s] \in {"all", "rest"}
       THEN RemovalFails
       ELSE UNCHANGED failures

\* Drop of TempScanDir, and reap_once: both ignore the error.
DropFolders(gone) ==
    \E left \in [gone -> {"nothing", "output", "all", "rest"}] : Removed(gone, left)

-----------------------------------------------------------------------------
(* SlitherRunner::analyze *)

\* Mutant: the permit is taken for the report only.
Holding_Reporting == {s \in Scans : pc[s] = "reporting"}

\* The permit of run_pipeline is held from before the analysis until the task returns.
Holding == {s \in Scans : pc[s] \in {"docker", "reporting"}}

\* Mutant: an error is not passed on.
Return_ErrorDropped(s, res) ==
    /\ pc' = [pc EXCEPT ![s] = "reporting"]
    /\ result' = [result EXCEPT ![s] = IF res = "error" THEN "none" ELSE res]
    /\ elapsed' = [elapsed EXCEPT ![s] = 0]

\* analyze() returns; the folder is dropped, and so is the client if it still runs.
Return(s, res) ==
    /\ pc' = [pc EXCEPT ![s] = "reporting"]
    /\ result' = [result EXCEPT ![s] = res]
    /\ elapsed' = [elapsed EXCEPT ![s] = 0]

\* The folder is created, the source written, the docker client started.  A client
\* that cannot start its container exits at once.  If one of these steps fails, the
\* folder is removed again, if that does not fail too.
Start(s) ==
    /\ up /\ pc[s] = "idle" /\ Cardinality(Holding) < Permits
    /\ \/ /\ pc' = [pc EXCEPT ![s] = "docker"]
          /\ folder' = [folder EXCEPT ![s] = "no_output"]
          /\ age' = [age EXCEPT ![s] = 0]
          /\ \E b \in {"running", "gone"} : box' = [box EXCEPT ![s] = b]
          /\ UNCHANGED <<result, elapsed, failures>>
       \/ /\ Return(s, "error")
          /\ \/ UNCHANGED folderVars
             \/ /\ RemovalFails
                /\ folder' = [folder EXCEPT ![s] = "no_output"]
                /\ age' = [age EXCEPT ![s] = 0]
          /\ UNCHANGED box
    /\ UNCHANGED <<abandoned, clockVars>>

\* What read_output and the adapter make of the folder: a complete output may hold
\* results, or a failed compilation, or be unreadable; the other folders give an error.
Outcomes(s) == {"error"} \cup (IF folder[s] = "complete" THEN {"raws"} ELSE {})

\* The docker client exits, normally after its container, or waiting for it fails.
ClientReturns(s) ==
    /\ up /\ pc[s] = "docker"
    /\ \E r \in Outcomes(s) : Return(s, r)
    /\ DropFolders({s})
    /\ abandoned' = IF box[s] = "running" THEN abandoned \cup {s} ELSE abandoned
    /\ UNCHANGED <<box, clockVars>>

\* Mutant: the output is awaited without a timeout.
TimesOut_Never(s) == FALSE /\ UNCHANGED vars

\* The timeout elapses; kill_on_drop kills the client, not the container.
TimesOut(s) ==
    /\ up /\ pc[s] = "docker" /\ elapsed[s] >= Timeout
    /\ Return(s, "error")
    /\ DropFolders({s})
    /\ abandoned' = IF box[s] = "running" THEN abandoned \cup {s} ELSE abandoned
    /\ UNCHANGED <<box, clockVars>>

\* The rest of run_pipeline; the permit is given back.
Finish(s) ==
    /\ up /\ pc[s] = "reporting"
    /\ pc' = [pc EXCEPT ![s] = "ended"]
    /\ result' = [result EXCEPT ![s] = "none"]
    /\ UNCHANGED <<elapsed, box, abandoned, folderVars, clockVars>>

-----------------------------------------------------------------------------
(* The container. *)

\* It creates its output, or completes it; it cannot if the folder is gone.
BoxWrites(s) ==
    /\ box[s] = "running"
    /\ \/ /\ folder[s] = "no_output"
          /\ folder' = [folder EXCEPT ![s] = "partial"]
          /\ age' = [age EXCEPT ![s] = 0]
       \/ /\ folder[s] = "partial"
          /\ folder' = [folder EXCEPT ![s] = "complete"]
          /\ UNCHANGED age
    /\ UNCHANGED <<pc, result, elapsed, box, abandoned, failures, clockVars>>

\* It ends, at any point, and --rm removes it.
BoxEnds(s) ==
    /\ box[s] = "running"
    /\ box' = [box EXCEPT ![s] = "gone"]
    /\ abandoned' = abandoned \ {s}
    /\ UNCHANGED <<pc, result, elapsed, folderVars, clockVars>>

-----------------------------------------------------------------------------
(* The reaper and the server. *)

\* Mutant: a folder of exactly the threshold's age is old.
AgedOut_NotStrict(s) == age[s] >= Threshold

\* Mutant: only folders with an output are looked at.
AgedOut_WithOutput(s) == folder[s] = "complete" /\ age[s] > Threshold

\* A folder from the future, after the clock was set back, has no age.
AgedOut(s) == age[s] > Threshold

\* reap_once, at start-up and then at every interval
Reap ==
    /\ up /\ reapIn <= 0
    /\ DropFolders({s \in Scans : folder[s] # "absent" /\ AgedOut(s)})
    /\ reapIn' = Interval
    /\ UNCHANGED <<pc, result, elapsed, box, abandoned, up, jumped, stops>>

\* The server stops: tasks are gone and containers go on.  A shutdown drops the
\* tasks, and with them the folders; a crash does not.
Stop ==
    /\ up /\ stops < MaxStops
    /\ up' = FALSE
    /\ stops' = stops + 1
    /\ pc' = [s \in Scans |-> IF s \in Holding THEN "ended" ELSE pc[s]]
    /\ result' = [s \in Scans |-> "none"]
    /\ elapsed' = [s \in Scans |-> 0]
    /\ abandoned' = abandoned \cup {s \in Holding : box[s] = "running"}
    /\ \/ UNCHANGED folderVars
       \/ DropFolders({s \in Holding : pc[s] = "docker"})
    /\ UNCHANGED <<box, reapIn, jumped>>

\* main(): the reaper starts with the server.
Restart ==
    /\ ~up
    /\ up' = TRUE
    /\ reapIn' = 0
    /\ UNCHANGED <<pc, result, elapsed, box, abandoned, folderVars, jumped, stops>>

Older(a, n) == IF a + n > Oldest THEN Oldest ELSE a + n

\* Time passes, but not beyond the slack of a timer of the server.
Tick ==
    /\ up => /\ \A s \in Scans : pc[s] = "docker" => elapsed[s] < Timeout + Slack
             /\ reapIn > -Slack
    /\ elapsed' = [s \in Scans |-> IF pc[s] = "docker" THEN elapsed[s] + 1 ELSE elapsed[s]]
    /\ age' = [s \in Scans |-> IF folder[s] = "absent" THEN age[s] ELSE Older(age[s], 1)]
    /\ reapIn' = IF up THEN reapIn - 1 ELSE reapIn
    /\ UNCHANGED <<pc, result, box, abandoned, folder, failures, up, jumped, stops>>

\* The wall clock is set.
SetClock ==
    /\ ~jumped
    /\ jumped' = TRUE
    /\ \E n \in {-MaxJump, MaxJump} :
          age' = [s \in Scans |-> IF folder[s] = "absent" THEN age[s] ELSE Older(age[s], n)]
    /\ UNCHANGED <<pc, result, elapsed, box, abandoned, folder, failures, reapIn, up, stops>>

Next ==
    \/ \E s \in Scans : Start(s) \/ ClientReturns(s) \/ TimesOut(s) \/ Finish(s)
                        \/ BoxWrites(s) \/ BoxEnds(s)
    \/ Reap \/ Stop \/ Restart \/ Tick \/ SetClock

Spec == Init /\ [][Next]_vars

\* Timers fire, the runtime polls ready tasks, and a stopped server is started again.
\* Nothing is promised of the container or its client.
FairSpec ==
    /\ Spec
    /\ WF_vars(Tick) /\ WF_vars(Reap) /\ WF_vars(Restart)
    /\ \A s \in Scans : WF_vars(TimesOut(s)) /\ WF_vars(Finish(s))

-----------------------------------------------------------------------------
(* Properties. *)

\* "active workspaces are never reaped mid-run": while an analysis waits for its
\* container its folder is there, although the reaper looks at nothing but ages and
\* the wall clock may be set meanwhile (reap_once, main's threshold).
LiveFolderKept == \A s \in Scans : pc[s] = "docker" => folder[s] # "absent"

\* At most Permits containers run besides those whose client was killed or lost, and
\* a container still tied to its client is one an analysis waits for: abandonment is
\* the only way past the limit (run_slither, _permit).
OnlyAbandonedExceedPermits ==
    LET tied == {s \in Scans : box[s] = "running"} \ abandoned
    IN  Cardinality(tied) <= Permits /\ \A s \in tied : pc[s] = "docker"

\* Every analysis comes to an end and gives its permit back, also when the container
\* and the docker client hang (run_slither's timeout).
EveryAnalysisEnds == \A s \in Scans : s \in Holding ~> s \notin Holding

\* Submitted source does not stay on the disk: every folder is removed in the end,
\* after a crash, a shutdown, or removals that failed or that a container interfered
\* with, if only finitely many fail (Drop of TempScanDir, reap_once).
EveryFolderGoes == \A s \in Scans : folder[s] # "absent" ~> folder[s] = "absent"
================================================================================
