----------------------------- MODULE SandboxProofs -----------------------------
(***************************************************************************)
(* Proofs about Sandbox, for every set of scans, number of permits, timeout, *)
(* reaper interval, slack and jump of the wall clock for which the reaper's  *)
(* threshold exceeds the longest run: no folder in use is reaped, and only   *)
(* abandoned containers exceed the permits.                                  *)
(***************************************************************************)
EXTENDS Sandbox, FiniteSetTheorems, TLAPS

\* By how much a folder can look older than it is
Jumped == IF jumped THEN MaxJump ELSE 0

\* The folder of a waiting analysis is there, and no older than its run but for a jump
\* of the clock: this is what the reaper, which looks at ages only, relies on.
FolderInv ==
    \A s \in Scans : pc[s] = "docker" => folder[s] # "absent" /\ age[s] <= elapsed[s] + Jumped

\* Ages are negative only after the clock was set.
AgeInv == ~jumped => \A s \in Scans : age[s] >= 0

\* A stopped server runs no task.
DownInv == ~up => \A s \in Scans : pc[s] \in {"idle", "ended"}

\* A container runs for an analysis that waits for it, or abandoned.
BoxInv == \A s \in Scans : box[s] = "running" => s \in abandoned \/ pc[s] = "docker"

PermitInv == IsFiniteSet(Holding) /\ Cardinality(Holding) <= Permits

IInv == TypeOK /\ FolderInv /\ AgeInv /\ DownInv /\ BoxInv /\ PermitInv

-----------------------------------------------------------------------------
\* Tasks that return or end do not take permits.
LEMMA PermitsReturned ==
    ASSUME PermitInv, Holding' \subseteq Holding, Permits \in Nat
    PROVE  PermitInv'
<1>1. IsFiniteSet(Holding') /\ Cardinality(Holding') <= Cardinality(Holding)
  BY FS_Subset DEF PermitInv
<1>2. Cardinality(Holding') \in Nat /\ Cardinality(Holding) \in Nat
  BY <1>1, FS_CardinalityType DEF PermitInv
<1> QED BY <1>1, <1>2 DEF PermitInv

\* A task that finds a permit free takes one.
LEMMA PermitTaken ==
    ASSUME PermitInv, NEW s, Holding' = Holding \cup {s},
           Cardinality(Holding) < Permits, Permits \in Nat
    PROVE  PermitInv'
<1>1. /\ IsFiniteSet(Holding')
      /\ Cardinality(Holding') \in {Cardinality(Holding), Cardinality(Holding) + 1}
  BY FS_AddElement DEF PermitInv
<1>2. Cardinality(Holding) \in Nat
  BY FS_CardinalityType DEF PermitInv
<1> QED BY <1>1, <1>2 DEF PermitInv

\* A folder that is removed is gone, or new, or as it was; the others stay as they are.
LEMMA Dropped ==
    ASSUME TypeOK, NEW gone \in SUBSET Scans, DropFolders(gone), MaxJump \in Nat,
           Threshold \in Nat, MaxFailures \in Nat
    PROVE  /\ folder' \in [Scans -> Folders]
           /\ age' \in [Scans -> (-MaxJump)..Oldest]
           /\ failures' \in 0..MaxFailures
           /\ \A s \in Scans : s \notin gone => folder'[s] = folder[s] /\ age'[s] = age[s]
           /\ \A s \in Scans : age'[s] = age[s] \/ age'[s] = 0
<1>1. PICK left \in [gone -> {"nothing", "output", "all", "rest"}] : Removed(gone, left)
  BY DEF DropFolders
<1>2. {"partial", "absent", "no_output"} \subseteq Folders
  BY DEF Folders
<1>3. 0 \in (-MaxJump)..Oldest
  BY DEF Oldest
<1>4. failures' \in 0..MaxFailures
  BY <1>1 DEF Removed, RemovalFails, TypeOK
<1> QED BY <1>1, <1>2, <1>3, <1>4 DEF Removed, TypeOK

LEMMA ThresholdType ==
    Threshold \in Nat /\ Timeout + Slack + MaxJump <= Threshold
BY SandboxAssumption DEF Threshold

LEMMA Ranges ==
    /\ 0 \in 0..(Timeout + Slack)
    /\ 0 \in (-MaxJump)..Oldest
    /\ 0 \in (-Slack)..Interval
    /\ 0 \in 0..MaxStops
    /\ 0 \in 0..MaxFailures
BY SandboxAssumption, ThresholdType DEF Oldest

LEMMA InitEstablishes == Init => IInv
<1> SUFFICES ASSUME Init PROVE IInv OBVIOUS
<1> USE SandboxAssumption, ThresholdType DEF Init
<1>1. TypeOK
  <2>1. \A s \in Scans : pc[s] # "reporting" /\ result[s] = "none" OBVIOUS
  <2>2. /\ folder \in [Scans -> Folders]
        /\ result \in [Scans -> Results \cup {"none"}]
        /\ pc \in [Scans -> {"idle", "docker", "reporting", "ended"}]
        /\ box \in [Scans -> {"none", "running", "gone"}]
    BY DEF Folders
  <2>3. /\ elapsed \in [Scans -> 0..(Timeout + Slack)]
        /\ age \in [Scans -> (-MaxJump)..Oldest]
        /\ reapIn \in (-Slack)..Interval
        /\ stops \in 0..MaxStops
        /\ failures \in 0..MaxFailures
    BY Ranges
  <2> QED BY <2>1, <2>2, <2>3 DEF TypeOK
<1>2. FolderInv /\ AgeInv /\ DownInv /\ BoxInv BY DEF FolderInv, AgeInv, DownInv, BoxInv
<1>3. Holding = {} BY DEF Holding
<1>4. PermitInv BY <1>3, FS_EmptySet DEF PermitInv
<1> QED BY <1>1, <1>2, <1>4 DEF IInv

LEMMA StartKeeps ==
    ASSUME IInv, NEW s \in Scans, Start(s)
    PROVE  IInv'
<1> USE SandboxAssumption, ThresholdType DEF IInv
<1>1. Holding' = Holding \cup {s}
  BY DEF Start, Return, Holding, TypeOK
<1>2. PermitInv' BY <1>1, PermitTaken DEF Start
<1>3. TypeOK'
  <2>1. CASE pc'[s] = "docker"
    <3>1. /\ pc' = [pc EXCEPT ![s] = "docker"]
          /\ folder' = [folder EXCEPT ![s] = "no_output"]
          /\ age' = [age EXCEPT ![s] = 0]
          /\ \E b \in {"running", "gone"} : box' = [box EXCEPT ![s] = b]
          /\ UNCHANGED <<result, elapsed, failures, abandoned, clockVars>>
      BY <2>1 DEF TypeOK, Start, Return
    <3>2. pc[s] = "idle" BY DEF Start
    <3> QED BY <3>1, <3>2, Ranges DEF TypeOK, Folders, clockVars
  <2>2. CASE pc'[s] # "docker"
    <3>1. Return(s, "error") /\ UNCHANGED <<box, abandoned, clockVars>>
      BY <2>2 DEF TypeOK, Start
    <3>2. /\ folder' \in [Scans -> Folders]
          /\ age' \in [Scans -> (-MaxJump)..Oldest]
          /\ failures' \in 0..MaxFailures
      BY <2>2, Ranges DEF TypeOK, Start, RemovalFails, Folders, folderVars
    <3>3. "error" \in Results /\ "error" # "none" BY DEF Results
    <3> QED BY <3>1, <3>2, <3>3, Ranges DEF TypeOK, Return, clockVars
  <2> QED BY <2>1, <2>2
<1>4. FolderInv'
  BY DEF FolderInv, TypeOK, Start, Return, folderVars, clockVars, Jumped
<1>5. (AgeInv /\ DownInv /\ BoxInv)'
  BY DEF AgeInv, DownInv, BoxInv, TypeOK, Start, Return, folderVars, clockVars
<1> QED BY <1>2, <1>3, <1>4, <1>5

\* The end of a run, by its client or by the timeout
LEMMA ReturnKeeps ==
    ASSUME IInv, NEW s \in Scans, pc[s] = "docker", up,
           NEW r \in Results, Return(s, r), DropFolders({s}),
           abandoned' = IF box[s] = "running" THEN abandoned \cup {s} ELSE abandoned,
           UNCHANGED <<box, clockVars>>
    PROVE  IInv'
<1> USE SandboxAssumption, ThresholdType DEF IInv
<1>1. /\ folder' \in [Scans -> Folders]
      /\ age' \in [Scans -> (-MaxJump)..Oldest]
      /\ failures' \in 0..MaxFailures
      /\ \A t \in Scans : t # s => folder'[t] = folder[t] /\ age'[t] = age[t]
      /\ age'[s] = age[s] \/ age'[s] = 0
  BY Dropped
<1>2. Holding' \subseteq Holding BY DEF Return, Holding, TypeOK
<1>3. PermitInv' BY <1>2, PermitsReturned
<1>4. TypeOK'
  <2>1. r # "none" BY DEF Results
  <2>2. elapsed' \in [Scans -> 0..(Timeout + Slack)] BY Ranges DEF TypeOK, Return
  <2>3. \A t \in Scans : pc'[t] = "reporting" <=> result'[t] # "none"
    BY <2>1 DEF TypeOK, Return
  <2>4. /\ pc' \in [Scans -> {"idle", "docker", "reporting", "ended"}]
        /\ result' \in [Scans -> Results \cup {"none"}]
        /\ abandoned' \subseteq Scans
    BY DEF TypeOK, Return
  <2> QED BY <1>1, <2>2, <2>3, <2>4 DEF TypeOK, clockVars
<1>5. FolderInv' BY <1>1 DEF FolderInv, TypeOK, Return, clockVars, Jumped
<1>6. (AgeInv /\ DownInv /\ BoxInv)'
  BY <1>1 DEF AgeInv, DownInv, BoxInv, TypeOK, Return, clockVars
<1> QED BY <1>3, <1>4, <1>5, <1>6

LEMMA FinishKeeps ==
    ASSUME IInv, NEW s \in Scans, Finish(s)
    PROVE  IInv'
<1> USE SandboxAssumption, ThresholdType DEF IInv
<1>1. Holding' \subseteq Holding BY DEF Finish, Holding, TypeOK
<1>2. PermitInv' BY <1>1, PermitsReturned
<1>3. TypeOK' BY DEF TypeOK, Finish, folderVars, clockVars
<1>4. (FolderInv /\ AgeInv /\ DownInv /\ BoxInv)'
  BY DEF FolderInv, AgeInv, DownInv, BoxInv, TypeOK, Finish, folderVars, clockVars, Jumped
<1> QED BY <1>2, <1>3, <1>4

LEMMA BoxKeeps ==
    ASSUME IInv, NEW s \in Scans, BoxWrites(s) \/ BoxEnds(s)
    PROVE  IInv'
<1> USE SandboxAssumption, ThresholdType DEF IInv
<1>1. Holding' \subseteq Holding BY DEF BoxWrites, BoxEnds, Holding
<1>2. PermitInv' BY <1>1, PermitsReturned
<1>3. CASE BoxWrites(s)
  <2>1. TypeOK' BY <1>3 DEF TypeOK, BoxWrites, clockVars, Folders, Oldest
  <2>2. FolderInv' BY <1>3 DEF FolderInv, TypeOK, BoxWrites, clockVars, Jumped
  <2>3. (AgeInv /\ DownInv /\ BoxInv)'
    BY <1>3 DEF AgeInv, DownInv, BoxInv, TypeOK, BoxWrites, clockVars
  <2> QED BY <1>2, <2>1, <2>2, <2>3
<1>4. CASE BoxEnds(s)
  <2>1. TypeOK' BY <1>4 DEF TypeOK, BoxEnds, folderVars, clockVars
  <2>2. (FolderInv /\ AgeInv /\ DownInv /\ BoxInv)'
    BY <1>4 DEF FolderInv, AgeInv, DownInv, BoxInv, TypeOK, BoxEnds, folderVars, clockVars, Jumped
  <2> QED BY <1>2, <2>1, <2>2
<1> QED BY <1>3, <1>4

\* The reaper passes over the folders in use: they are younger than its threshold.
LEMMA ReapKeeps ==
    ASSUME IInv, Reap
    PROVE  IInv'
<1> USE SandboxAssumption, ThresholdType DEF IInv
<1> DEFINE gone == {s \in Scans : folder[s] # "absent" /\ AgedOut(s)}
<1>1. \A s \in Scans : pc[s] = "docker" => s \notin gone
  BY DEF FolderInv, TypeOK, AgedOut, Jumped
<1>2. /\ folder' \in [Scans -> Folders]
      /\ age' \in [Scans -> (-MaxJump)..Oldest]
      /\ failures' \in 0..MaxFailures
      /\ \A s \in Scans : s \notin gone => folder'[s] = folder[s] /\ age'[s] = age[s]
      /\ \A s \in Scans : age'[s] = age[s] \/ age'[s] = 0
  BY Dropped DEF Reap
<1> HIDE DEF gone
<1>3. Holding' \subseteq Holding BY DEF Reap, Holding
<1>4. PermitInv' BY <1>3, PermitsReturned
<1>5. TypeOK' BY <1>2 DEF TypeOK, Reap
<1>6. FolderInv' BY <1>1, <1>2 DEF FolderInv, Reap, Jumped
<1>7. AgeInv' BY <1>2 DEF AgeInv, Reap
<1>8. (DownInv /\ BoxInv)' BY DEF DownInv, BoxInv, Reap
<1> QED BY <1>4, <1>5, <1>6, <1>7, <1>8

LEMMA StopKeeps ==
    ASSUME IInv, Stop
    PROVE  IInv'
<1> USE SandboxAssumption, ThresholdType DEF IInv
<1> DEFINE gone == {s \in Holding : pc[s] = "docker"}
<1>1. /\ folder' \in [Scans -> Folders]
      /\ age' \in [Scans -> (-MaxJump)..Oldest]
      /\ failures' \in 0..MaxFailures
      /\ \A s \in Scans : age'[s] = age[s] \/ age'[s] = 0
  <2>1. CASE UNCHANGED folderVars BY <2>1 DEF TypeOK, folderVars
  <2>2. CASE DropFolders(gone)
    <3>1. gone \in SUBSET Scans BY DEF Holding
    <3> HIDE DEF gone
    <3> QED BY <2>2, <3>1, Dropped
  <2> QED BY <2>1, <2>2 DEF Stop
<1>2. \A s \in Scans : pc'[s] \in {"idle", "ended"} BY DEF Stop, Holding, TypeOK
<1>3. Holding' = {} BY <1>2 DEF Holding
<1>4. PermitInv' BY <1>3, PermitsReturned
<1>5. TypeOK'
  <2>1. elapsed' \in [Scans -> 0..(Timeout + Slack)] BY Ranges DEF Stop
  <2>2. /\ pc' \in [Scans -> {"idle", "docker", "reporting", "ended"}]
        /\ result' \in [Scans -> Results \cup {"none"}]
        /\ \A s \in Scans : result'[s] = "none"
        /\ abandoned' \subseteq Scans
    BY DEF TypeOK, Stop, Holding
  <2>3. stops' \in 0..MaxStops BY DEF TypeOK, Stop
  <2>4. \A s \in Scans : pc'[s] = "reporting" <=> result'[s] # "none" BY <1>2, <2>2
  <2> QED BY <1>1, <2>1, <2>2, <2>3, <2>4 DEF TypeOK, Stop
<1>6. (FolderInv /\ AgeInv /\ DownInv)'
  BY <1>1, <1>2 DEF FolderInv, AgeInv, DownInv, Stop
<1>7. BoxInv' BY DEF BoxInv, Stop, Holding
<1> QED BY <1>4, <1>5, <1>6, <1>7

LEMMA TickKeeps ==
    ASSUME IInv, Tick
    PROVE  IInv'
<1> USE SandboxAssumption, ThresholdType DEF IInv
<1>1. Holding' \subseteq Holding BY DEF Tick, Holding
<1>2. PermitInv' BY <1>1, PermitsReturned
<1>3. \A s \in Scans : /\ age'[s] \in (-MaxJump)..Oldest
                       /\ age'[s] \in {age[s], age[s] + 1, Oldest}
                       /\ age'[s] <= age[s] + 1
  BY DEF Tick, TypeOK, Older, Oldest
<1>4. \A s \in Scans : elapsed'[s] \in 0..(Timeout + Slack)
  BY DEF Tick, TypeOK, DownInv
<1>5. reapIn' \in (-Slack)..Interval
  BY DEF Tick, TypeOK
<1>6. TypeOK'
  <2>1. age' \in [Scans -> (-MaxJump)..Oldest] BY <1>3 DEF Tick
  <2>2. elapsed' \in [Scans -> 0..(Timeout + Slack)] BY <1>4 DEF Tick
  <2> QED BY <2>1, <2>2, <1>5 DEF TypeOK, Tick
<1>7. FolderInv'
  BY <1>3 DEF FolderInv, Tick, TypeOK, Jumped, Oldest
<1>8. AgeInv' BY <1>3 DEF AgeInv, Tick, TypeOK, Oldest
<1>9. (DownInv /\ BoxInv)' BY DEF DownInv, BoxInv, Tick
<1> QED BY <1>2, <1>6, <1>7, <1>8, <1>9

LEMMA ClockKeeps ==
    ASSUME IInv, SetClock
    PROVE  IInv'
<1> USE SandboxAssumption, ThresholdType DEF IInv
<1>1. Holding' \subseteq Holding BY DEF SetClock, Holding
<1>2. PermitInv' BY <1>1, PermitsReturned
<1>3. \A s \in Scans : age'[s] \in (-MaxJump)..Oldest /\ age'[s] <= age[s] + MaxJump
  BY DEF SetClock, TypeOK, AgeInv, Older, Oldest
<1>4. TypeOK'
  <2>1. age' \in [Scans -> (-MaxJump)..Oldest] BY <1>3 DEF SetClock
  <2> QED BY <2>1 DEF TypeOK, SetClock
<1>5. FolderInv' BY <1>3 DEF FolderInv, SetClock, TypeOK, Jumped
<1>6. (AgeInv /\ DownInv /\ BoxInv)' BY DEF AgeInv, DownInv, BoxInv, SetClock
<1> QED BY <1>2, <1>4, <1>5, <1>6

LEMMA RestartKeeps ==
    ASSUME IInv, Restart
    PROVE  IInv'
<1> USE SandboxAssumption, ThresholdType DEF IInv
<1>1. Holding' \subseteq Holding BY DEF Restart, Holding
<1>2. PermitInv' BY <1>1, PermitsReturned
<1>3. TypeOK' BY DEF TypeOK, Restart, folderVars
<1>4. (FolderInv /\ AgeInv /\ DownInv /\ BoxInv)'
  BY DEF FolderInv, AgeInv, DownInv, BoxInv, Restart, folderVars, Jumped
<1> QED BY <1>2, <1>3, <1>4

LEMMA StepKeeps == IInv /\ [Next]_vars => IInv'
<1> SUFFICES ASSUME IInv, [Next]_vars PROVE IInv' OBVIOUS
<1>1. ASSUME NEW s \in Scans, Start(s) PROVE IInv' BY <1>1, StartKeeps
<1>2. ASSUME NEW s \in Scans, ClientReturns(s) PROVE IInv'
  <2>1. PICK r \in Outcomes(s) : Return(s, r) BY <1>2 DEF ClientReturns
  <2>2. r \in Results BY DEF Outcomes, Results
  <2> QED BY <1>2, <2>1, <2>2, ReturnKeeps DEF ClientReturns
<1>3. ASSUME NEW s \in Scans, TimesOut(s) PROVE IInv'
  <2>1. "error" \in Results BY DEF Results
  <2> QED BY <1>3, <2>1, ReturnKeeps DEF TimesOut
<1>4. ASSUME NEW s \in Scans, Finish(s) PROVE IInv' BY <1>4, FinishKeeps
<1>5. ASSUME NEW s \in Scans, BoxWrites(s) \/ BoxEnds(s) PROVE IInv' BY <1>5, BoxKeeps
<1>6. CASE Reap BY <1>6, ReapKeeps
<1>7. CASE Stop BY <1>7, StopKeeps
<1>8. CASE Restart BY <1>8, RestartKeeps
<1>9. CASE Tick BY <1>9, TickKeeps
<1>10. CASE SetClock BY <1>10, ClockKeeps
<1>11. CASE UNCHANGED vars
  <2>1. Holding' = Holding BY <1>11 DEF Holding, vars
  <2> QED BY <1>11, <2>1 DEF IInv, TypeOK, FolderInv, AgeInv, DownInv, BoxInv, PermitInv,
                             Jumped, vars, folderVars, clockVars
<1> QED BY <1>1, <1>2, <1>3, <1>4, <1>5, <1>6, <1>7, <1>8, <1>9, <1>10, <1>11 DEF Next

-----------------------------------------------------------------------------
\* The inductive invariant holds in every state of every instance.
THEOREM Invariance == Spec => []IInv
BY InitEstablishes, StepKeeps, PTL DEF Spec

\* Runs, ages and timers stay within the bounds the threshold is made for.
THEOREM TypeCorrect == Spec => []TypeOK
<1>1. IInv => TypeOK BY DEF IInv
<1> QED BY <1>1, Invariance, PTL

\* The reaper and a clock set by at most MaxJump never take the folder of an analysis
\* that waits for its container (reap_once, main's threshold).
THEOREM LiveFolderKeptHolds == Spec => []LiveFolderKept
<1>1. IInv => LiveFolderKept BY DEF IInv, FolderInv, LiveFolderKept
<1> QED BY <1>1, Invariance, PTL

\* Abandonment by a timeout, a lost client or a stopped server is the only way to more
\* containers than permits (run_slither, _permit).
THEOREM OnlyAbandonedExceedPermitsHolds == Spec => []OnlyAbandonedExceedPermits
<1>1. ASSUME IInv PROVE OnlyAbandonedExceedPermits
  <2> DEFINE tied == {s \in Scans : box[s] = "running"} \ abandoned
  <2>1. \A s \in tied : pc[s] = "docker" BY <1>1 DEF IInv, BoxInv
  <2>2. tied \subseteq Holding BY <2>1 DEF Holding
  <2>3. Cardinality(tied) <= Cardinality(Holding) /\ IsFiniteSet(tied)
    BY <1>1, <2>2, FS_Subset DEF IInv, PermitInv
  <2>4. Cardinality(tied) \in Nat /\ Cardinality(Holding) \in Nat
    BY <1>1, <2>3, FS_CardinalityType DEF IInv, PermitInv
  <2>5. Cardinality(tied) <= Permits
    BY <1>1, <2>3, <2>4, SandboxAssumption DEF IInv, PermitInv
  <2> QED BY <2>1, <2>5 DEF OnlyAbandonedExceedPermits
<1> QED BY <1>1, Invariance, PTL
================================================================================
