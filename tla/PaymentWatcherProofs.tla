------------------------- MODULE PaymentWatcherProofs --------------------------
(***************************************************************************)
(* Proofs about PaymentWatcher, for every chain, price, window size and     *)
(* mixture of faults: type correctness, the two safety invariants about     *)
(* spawned pipelines, the account of missed payments, the action properties *)
(* of the cursor, and that the watcher implements ScanLifecycle.            *)
(***************************************************************************)
EXTENDS PaymentWatcher, TLAPS

\* Only the last ReorgDepth blocks of the chain may be missing, and it holds no
\* payment the contract would have refused.
ChainInv ==
    /\ height <= tip
    /\ SaturatingSub(tip, ReorgDepth) <= height
    /\ \A e \in events : 1 <= e.block /\ e.block <= height /\ e.amount >= ContractPrice

\* The cursor and the window stay among the confirmed blocks, and the window
\* starts past the cursor.
PollInv ==
    /\ lastProcessed <= Confirmed
    /\ safeTo <= Confirmed
    /\ pc = "initCursor" => lastProcessed = 0
    /\ pc = "getLogs" => lastProcessed < cursor /\ cursor <= safeTo
    /\ pc = "handleLogs" => lastProcessed < cursor /\ cursor <= to /\ to <= safeTo
    /\ pc # "handleLogs" => pending = {} /\ claimed = {}
    /\ \A e \in pending : e \in events /\ cursor <= e.block /\ e.block <= to

\* The window starts right behind the cursor, unless the poll fast-forwarded.
JumpInv ==
    pc \in {"getLogs", "handleLogs"} =>
        cursor = lastProcessed + 1 \/ cursor + LookbackMax <= safeTo

\* A pipeline is spawned once, for a row that mark_paid moved.
SpawnInv ==
    /\ \A s \in Scans : spawned[s] <= 1
    /\ \A s \in Scans : spawned[s] > 0 => status[s] = "queued"
    /\ \A s \in claimed : status[s] = "queued" /\ spawned[s] = 0

\* A queued scan has its payment in a confirmed block.
PaidInv ==
    \A s \in Scans : status[s] = "queued" =>
        \E e \in events : e.scan = s /\ e.block <= Confirmed

\* Every payment the watcher is done with is accounted for.
Accounted(e) ==
    status[e.scan] = "none" \/ spawned[e.scan] > 0 \/ ExcusedLoss(e)

LossInv ==
    /\ \A s \in Scans : status[s] = "queued" =>
          spawned[s] > 0 \/ s \in claimed \/ s \in lost
    /\ \A e \in events : e.block <= lastProcessed => Accounted(e)
    /\ pc = "handleLogs" =>
          \A e \in events : cursor <= e.block /\ e.block <= to =>
              e \in pending \/ e.scan \in claimed \/ Accounted(e)

IInv == TypeOK /\ ChainInv /\ PollInv /\ JumpInv /\ SpawnInv /\ PaidInv /\ LossInv

\* Every step keeps every variable within its type.
LEMMA TypeStep ==
    ASSUME TypeOK, [Next]_vars
    PROVE  TypeOK'
<1> USE ConstantsAssumption, FinalityAssumption DEF TypeOK, Log, SaturatingSub, Lesser, chainVars,
    dbVars, localVars, ghostVars
<1>1. CASE PollHead
  BY <1>1 DEF PollHead, NodeViews
<1>2. CASE ReadCursor
  BY <1>2 DEF ReadCursor, FirstBlock, Return, localVars
<1>3. CASE InitCursor
  BY <1>3 DEF InitCursor, StoreInitialCursor, Return
<1>4. CASE GetLogs
  BY <1>4 DEF GetLogs, WindowEnd, LogsIn, NodeViews
<1>5. ASSUME NEW e \in pending, IgnoreUnderpaid(e) PROVE TypeOK'
  BY <1>5 DEF IgnoreUnderpaid, NextLog
<1>6. ASSUME NEW e \in pending, MarkPaid(e) PROVE TypeOK'
  BY <1>6 DEF MarkPaid, NextLog
<1>7. ASSUME NEW e \in pending, MarkPaidNoRow(e) PROVE TypeOK'
  BY <1>7 DEF MarkPaidNoRow, NextLog
<1>8. ASSUME NEW s \in claimed, Spawn(s) PROVE TypeOK'
  BY <1>8 DEF Spawn
<1>9. CASE SaveCursor
  BY <1>9 DEF SaveCursor, WindowDone, StoreCursor, Return
<1>10. ASSUME NEW payments \in SUBSET Payments, Mine(payments) PROVE TypeOK'
  BY <1>10 DEF Mine, Payments
<1>11. ASSUME NEW k \in 0..height, Reorg(k) PROVE TypeOK'
  BY <1>11 DEF Reorg
<1>12. ASSUME NEW s \in Scans, Create(s) PROVE TypeOK'
  BY <1>12 DEF Create
<1>13. CASE PollFails
  BY <1>13 DEF PollFails, Fault, Return
<1>14. CASE CursorUpdateFails
  <2>1. 1..safeTo \subseteq Nat /\ (lastProcessed + 1)..(cursor - 1) \subseteq Nat
    OBVIOUS
  <2>2. lastProcessed' \in Nat /\ skipped' \subseteq Nat
    BY <1>14, <2>1 DEF CursorUpdateFails, StoreCursor, StoreInitialCursor
  <2> QED BY <1>14, <2>2 DEF CursorUpdateFails, Fault, Return
<1>15. CASE GetLogsNull
  BY <1>15 DEF GetLogsNull, Fault, WindowEnd, LogsIn
<1>16. ASSUME NEW e \in pending, MarkPaidFails(e) PROVE TypeOK'
  BY <1>16 DEF MarkPaidFails, Fault, NextLog
<1>17. ASSUME NEW p \in ConfigPrices, Crash(p) PROVE TypeOK'
  BY <1>17 DEF Crash, Fault, Return
<1>18. CASE RpcHangs
  BY <1>18 DEF RpcHangs, Fault
<1>19. CASE HungCallFails
  BY <1>19 DEF HungCallFails, Return
<1>20. CASE UNCHANGED vars
  BY <1>20 DEF vars
<1> QED
  BY <1>1, <1>2, <1>3, <1>4, <1>5, <1>6, <1>7, <1>8, <1>9, <1>10, <1>11, <1>12, <1>13, <1>14,
     <1>15, <1>16, <1>17, <1>18, <1>19, <1>20 DEF Next, Watcher, HandleLog

\* Blocks are only added on top and only removed from the top ReorgDepth.
LEMMA ChainStep ==
    ASSUME TypeOK, ChainInv, [Next]_vars
    PROVE  ChainInv'
<1> USE ConstantsAssumption, FinalityAssumption DEF TypeOK, Log, ChainInv, SaturatingSub,
    chainVars, dbVars, localVars, ghostVars
<1>1. CASE PollHead
  BY <1>1 DEF PollHead, NodeViews
<1>2. CASE ReadCursor
  BY <1>2 DEF ReadCursor, FirstBlock, Return, localVars
<1>3. CASE InitCursor
  BY <1>3 DEF InitCursor, StoreInitialCursor, Return
<1>4. CASE GetLogs
  BY <1>4 DEF GetLogs, WindowEnd, LogsIn, NodeViews
<1>5. ASSUME NEW e \in pending, IgnoreUnderpaid(e) PROVE ChainInv'
  BY <1>5 DEF IgnoreUnderpaid, NextLog
<1>6. ASSUME NEW e \in pending, MarkPaid(e) PROVE ChainInv'
  BY <1>6 DEF MarkPaid, NextLog
<1>7. ASSUME NEW e \in pending, MarkPaidNoRow(e) PROVE ChainInv'
  BY <1>7 DEF MarkPaidNoRow, NextLog
<1>8. ASSUME NEW s \in claimed, Spawn(s) PROVE ChainInv'
  BY <1>8 DEF Spawn
<1>9. CASE SaveCursor
  BY <1>9 DEF SaveCursor, WindowDone, StoreCursor, Return
<1>10. ASSUME NEW payments \in SUBSET Payments, Mine(payments) PROVE ChainInv'
  BY <1>10 DEF Mine, Payments
<1>11. ASSUME NEW k \in 0..height, Reorg(k) PROVE ChainInv'
  BY <1>11 DEF Reorg
<1>12. ASSUME NEW s \in Scans, Create(s) PROVE ChainInv'
  BY <1>12 DEF Create
<1>13. CASE PollFails
  BY <1>13 DEF PollFails, Fault, Return
<1>14. CASE CursorUpdateFails
  BY <1>14 DEF CursorUpdateFails, Fault, Return, WindowDone, StoreCursor, StoreInitialCursor
<1>15. CASE GetLogsNull
  BY <1>15 DEF GetLogsNull, Fault, WindowEnd, LogsIn
<1>16. ASSUME NEW e \in pending, MarkPaidFails(e) PROVE ChainInv'
  BY <1>16 DEF MarkPaidFails, Fault, NextLog
<1>17. ASSUME NEW p \in ConfigPrices, Crash(p) PROVE ChainInv'
  BY <1>17 DEF Crash, Fault, Return
<1>18. CASE RpcHangs
  BY <1>18 DEF RpcHangs, Fault
<1>19. CASE HungCallFails
  BY <1>19 DEF HungCallFails, Return
<1>20. CASE UNCHANGED vars
  BY <1>20 DEF vars
<1> QED
  BY <1>1, <1>2, <1>3, <1>4, <1>5, <1>6, <1>7, <1>8, <1>9, <1>10, <1>11, <1>12, <1>13, <1>14,
     <1>15, <1>16, <1>17, <1>18, <1>19, <1>20 DEF Next, Watcher, HandleLog

\* The poll never leaves the confirmed blocks, which no reorganisation reaches.
LEMMA PollStep ==
    ASSUME TypeOK, TypeOK', ChainInv, PollInv, [Next]_vars
    PROVE  PollInv'
<1> USE ConstantsAssumption, FinalityAssumption DEF TypeOK, Log, ChainInv, PollInv, Confirmed,
    SaturatingSub, Lesser, chainVars, dbVars, localVars, ghostVars
<1>1. CASE PollHead
  BY <1>1 DEF PollHead, NodeViews
<1>2. CASE ReadCursor
  BY <1>2 DEF ReadCursor, FirstBlock, Return, localVars
<1>3. CASE InitCursor
  BY <1>3 DEF InitCursor, StoreInitialCursor, Return
<1>4. CASE GetLogs
  BY <1>4 DEF GetLogs, WindowEnd, LogsIn, NodeViews
<1>5. ASSUME NEW e \in pending, IgnoreUnderpaid(e) PROVE PollInv'
  BY <1>5 DEF IgnoreUnderpaid, NextLog
<1>6. ASSUME NEW e \in pending, MarkPaid(e) PROVE PollInv'
  BY <1>6 DEF MarkPaid, NextLog
<1>7. ASSUME NEW e \in pending, MarkPaidNoRow(e) PROVE PollInv'
  BY <1>7 DEF MarkPaidNoRow, NextLog
<1>8. ASSUME NEW s \in claimed, Spawn(s) PROVE PollInv'
  BY <1>8 DEF Spawn
<1>9. CASE SaveCursor
  BY <1>9 DEF SaveCursor, WindowDone, StoreCursor, Return
<1>10. ASSUME NEW payments \in SUBSET Payments, Mine(payments) PROVE PollInv'
  BY <1>10 DEF Mine, Payments
<1>11. ASSUME NEW k \in 0..height, Reorg(k) PROVE PollInv'
  BY <1>11 DEF Reorg
<1>12. ASSUME NEW s \in Scans, Create(s) PROVE PollInv'
  BY <1>12 DEF Create
<1>13. CASE PollFails
  BY <1>13 DEF PollFails, Fault, Return
<1>14. CASE CursorUpdateFails
  BY <1>14 DEF CursorUpdateFails, Fault, Return, WindowDone, StoreCursor, StoreInitialCursor
<1>15. CASE GetLogsNull
  BY <1>15 DEF GetLogsNull, Fault, WindowEnd, LogsIn
<1>16. ASSUME NEW e \in pending, MarkPaidFails(e) PROVE PollInv'
  BY <1>16 DEF MarkPaidFails, Fault, NextLog
<1>17. ASSUME NEW p \in ConfigPrices, Crash(p) PROVE PollInv'
  BY <1>17 DEF Crash, Fault, Return
<1>18. CASE RpcHangs
  BY <1>18 DEF RpcHangs, Fault
<1>19. CASE HungCallFails
  BY <1>19 DEF HungCallFails, Return
<1>20. CASE UNCHANGED vars
  BY <1>20 DEF vars
<1> QED
  BY <1>1, <1>2, <1>3, <1>4, <1>5, <1>6, <1>7, <1>8, <1>9, <1>10, <1>11, <1>12, <1>13, <1>14,
     <1>15, <1>16, <1>17, <1>18, <1>19, <1>20 DEF Next, Watcher, HandleLog

\* A poll leaves blocks out only to start LookbackMax behind the confirmed head.
LEMMA JumpStep ==
    ASSUME TypeOK, JumpInv, PollInv, [Next]_vars
    PROVE  JumpInv'
<1> USE ConstantsAssumption DEF TypeOK, JumpInv, localVars, dbVars
<1>1. CASE ReadCursor
  <2>1. CASE pc' = "getLogs"
    BY <1>1, <2>1 DEF ReadCursor, FirstBlock, SaturatingSub, Return
  <2>2. CASE pc' # "getLogs"
    BY <1>1, <2>2 DEF ReadCursor, Return
  <2> QED BY <2>1, <2>2
<1>2. CASE SaveCursor
  BY <1>2 DEF SaveCursor, StoreCursor, Return
<1>3. CASE Return
  BY <1>3 DEF Return
<1>4. CASE pc' = pc /\ UNCHANGED <<cursor, lastProcessed, safeTo>>
  BY <1>4
<1>5. CASE pc = "getLogs" /\ UNCHANGED <<cursor, lastProcessed, safeTo>>
  BY <1>5
<1>6. CASE pc' = "readCursor"
  BY <1>6
<1> QED
  BY <1>1, <1>2, <1>3, <1>4, <1>5, <1>6
     DEF Next, Watcher, HandleLog, PollHead, InitCursor, GetLogs, IgnoreUnderpaid, MarkPaid,
         MarkPaidNoRow, NextLog, Spawn, Mine, Reorg, Create, PollFails, RpcHangs,
         HungCallFails, CursorUpdateFails, GetLogsNull, MarkPaidFails, Crash, vars

\* A second mark_paid finds no row, so nothing is spawned twice.
LEMMA SpawnStep ==
    ASSUME TypeOK, SpawnInv, PollInv, [Next]_vars
    PROVE  SpawnInv'
<1> USE ConstantsAssumption, FinalityAssumption DEF TypeOK, Log, SpawnInv, PollInv, chainVars,
    dbVars, localVars, ghostVars
<1>1. CASE PollHead
  BY <1>1 DEF PollHead, NodeViews
<1>2. CASE ReadCursor
  BY <1>2 DEF ReadCursor, FirstBlock, Return, localVars
<1>3. CASE InitCursor
  BY <1>3 DEF InitCursor, StoreInitialCursor, Return
<1>4. CASE GetLogs
  BY <1>4 DEF GetLogs, WindowEnd, LogsIn, NodeViews
<1>5. ASSUME NEW e \in pending, IgnoreUnderpaid(e) PROVE SpawnInv'
  BY <1>5 DEF IgnoreUnderpaid, NextLog
<1>6. ASSUME NEW e \in pending, MarkPaid(e) PROVE SpawnInv'
  BY <1>6 DEF MarkPaid, NextLog
<1>7. ASSUME NEW e \in pending, MarkPaidNoRow(e) PROVE SpawnInv'
  BY <1>7 DEF MarkPaidNoRow, NextLog
<1>8. ASSUME NEW s \in claimed, Spawn(s) PROVE SpawnInv'
  BY <1>8 DEF Spawn
<1>9. CASE SaveCursor
  BY <1>9 DEF SaveCursor, WindowDone, StoreCursor, Return
<1>10. ASSUME NEW payments \in SUBSET Payments, Mine(payments) PROVE SpawnInv'
  BY <1>10 DEF Mine, Payments
<1>11. ASSUME NEW k \in 0..height, Reorg(k) PROVE SpawnInv'
  BY <1>11 DEF Reorg
<1>12. ASSUME NEW s \in Scans, Create(s) PROVE SpawnInv'
  BY <1>12 DEF Create
<1>13. CASE PollFails
  BY <1>13 DEF PollFails, Fault, Return
<1>14. CASE CursorUpdateFails
  BY <1>14 DEF CursorUpdateFails, Fault, Return, WindowDone, StoreCursor, StoreInitialCursor
<1>15. CASE GetLogsNull
  BY <1>15 DEF GetLogsNull, Fault, WindowEnd, LogsIn
<1>16. ASSUME NEW e \in pending, MarkPaidFails(e) PROVE SpawnInv'
  BY <1>16 DEF MarkPaidFails, Fault, NextLog
<1>17. ASSUME NEW p \in ConfigPrices, Crash(p) PROVE SpawnInv'
  BY <1>17 DEF Crash, Fault, Return
<1>18. CASE RpcHangs
  BY <1>18 DEF RpcHangs, Fault
<1>19. CASE HungCallFails
  BY <1>19 DEF HungCallFails, Return
<1>20. CASE UNCHANGED vars
  BY <1>20 DEF vars
<1> QED
  BY <1>1, <1>2, <1>3, <1>4, <1>5, <1>6, <1>7, <1>8, <1>9, <1>10, <1>11, <1>12, <1>13, <1>14,
     <1>15, <1>16, <1>17, <1>18, <1>19, <1>20 DEF Next, Watcher, HandleLog

\* Confirmed payments are permanent, so a queued scan stays paid for.
LEMMA PaidStep ==
    ASSUME TypeOK, ChainInv, PollInv, PaidInv, [Next]_vars
    PROVE  PaidInv'
<1> USE ConstantsAssumption, FinalityAssumption DEF TypeOK, Log, ChainInv, PollInv, PaidInv,
    Confirmed, SaturatingSub, Lesser, chainVars, dbVars, localVars, ghostVars
<1>1. CASE PollHead
  BY <1>1 DEF PollHead, NodeViews
<1>2. CASE ReadCursor
  BY <1>2 DEF ReadCursor, FirstBlock, Return, localVars
<1>3. CASE InitCursor
  BY <1>3 DEF InitCursor, StoreInitialCursor, Return
<1>4. CASE GetLogs
  BY <1>4 DEF GetLogs, WindowEnd, LogsIn, NodeViews
<1>5. ASSUME NEW e \in pending, IgnoreUnderpaid(e) PROVE PaidInv'
  BY <1>5 DEF IgnoreUnderpaid, NextLog
<1>6. ASSUME NEW e \in pending, MarkPaid(e) PROVE PaidInv'
  BY <1>6 DEF MarkPaid, NextLog
<1>7. ASSUME NEW e \in pending, MarkPaidNoRow(e) PROVE PaidInv'
  BY <1>7 DEF MarkPaidNoRow, NextLog
<1>8. ASSUME NEW s \in claimed, Spawn(s) PROVE PaidInv'
  BY <1>8 DEF Spawn
<1>9. CASE SaveCursor
  BY <1>9 DEF SaveCursor, WindowDone, StoreCursor, Return
<1>10. ASSUME NEW payments \in SUBSET Payments, Mine(payments) PROVE PaidInv'
  BY <1>10 DEF Mine, Payments
<1>11. ASSUME NEW k \in 0..height, Reorg(k) PROVE PaidInv'
  BY <1>11 DEF Reorg
<1>12. ASSUME NEW s \in Scans, Create(s) PROVE PaidInv'
  BY <1>12 DEF Create
<1>13. CASE PollFails
  BY <1>13 DEF PollFails, Fault, Return
<1>14. CASE CursorUpdateFails
  BY <1>14 DEF CursorUpdateFails, Fault, Return, WindowDone, StoreCursor, StoreInitialCursor
<1>15. CASE GetLogsNull
  BY <1>15 DEF GetLogsNull, Fault, WindowEnd, LogsIn
<1>16. ASSUME NEW e \in pending, MarkPaidFails(e) PROVE PaidInv'
  BY <1>16 DEF MarkPaidFails, Fault, NextLog
<1>17. ASSUME NEW p \in ConfigPrices, Crash(p) PROVE PaidInv'
  BY <1>17 DEF Crash, Fault, Return
<1>18. CASE RpcHangs
  BY <1>18 DEF RpcHangs, Fault
<1>19. CASE HungCallFails
  BY <1>19 DEF HungCallFails, Return
<1>20. CASE UNCHANGED vars
  BY <1>20 DEF vars
<1> QED
  BY <1>1, <1>2, <1>3, <1>4, <1>5, <1>6, <1>7, <1>8, <1>9, <1>10, <1>11, <1>12, <1>13, <1>14,
     <1>15, <1>16, <1>17, <1>18, <1>19, <1>20 DEF Next, Watcher, HandleLog

\* Nothing but the listed losses lets the watcher pass a payment by.
LEMMA LossStep ==
    ASSUME TypeOK, TypeOK', ChainInv, PollInv, SpawnInv, LossInv, [Next]_vars
    PROVE  LossInv'
<1> USE ConstantsAssumption, FinalityAssumption DEF TypeOK, Log, ChainInv, PollInv, SpawnInv,
    LossInv, Accounted, ExcusedLoss, Confirmed, SaturatingSub, Lesser, chainVars, dbVars,
    localVars, ghostVars
<1>1. CASE PollHead
  BY <1>1 DEF PollHead, NodeViews
<1>2. CASE ReadCursor
  BY <1>2 DEF ReadCursor, FirstBlock, Return, localVars
<1>3. CASE InitCursor
  BY <1>3 DEF InitCursor, StoreInitialCursor, Return
<1>4. CASE GetLogs
  BY <1>4 DEF GetLogs, WindowEnd, LogsIn, NodeViews
<1>5. ASSUME NEW e \in pending, IgnoreUnderpaid(e) PROVE LossInv'
  BY <1>5 DEF IgnoreUnderpaid, NextLog
<1>6. ASSUME NEW e \in pending, MarkPaid(e) PROVE LossInv'
  BY <1>6 DEF MarkPaid, NextLog
<1>7. ASSUME NEW e \in pending, MarkPaidNoRow(e) PROVE LossInv'
  BY <1>7 DEF MarkPaidNoRow, NextLog
<1>8. ASSUME NEW s \in claimed, Spawn(s) PROVE LossInv'
  BY <1>8 DEF Spawn
<1>9. CASE SaveCursor
  BY <1>9 DEF SaveCursor, WindowDone, StoreCursor, Return
<1>10. ASSUME NEW payments \in SUBSET Payments, Mine(payments) PROVE LossInv'
  BY <1>10 DEF Mine, Payments
<1>11. ASSUME NEW k \in 0..height, Reorg(k) PROVE LossInv'
  BY <1>11 DEF Reorg
<1>12. ASSUME NEW s \in Scans, Create(s) PROVE LossInv'
  BY <1>12 DEF Create
<1>13. CASE PollFails
  BY <1>13 DEF PollFails, Fault, Return
<1>14. CASE CursorUpdateFails
  BY <1>14 DEF CursorUpdateFails, Fault, Return, WindowDone, StoreCursor, StoreInitialCursor
<1>15. CASE GetLogsNull
  BY <1>15 DEF GetLogsNull, Fault, WindowEnd, LogsIn
<1>16. ASSUME NEW e \in pending, MarkPaidFails(e) PROVE LossInv'
  BY <1>16 DEF MarkPaidFails, Fault, NextLog
<1>17. ASSUME NEW p \in ConfigPrices, Crash(p) PROVE LossInv'
  BY <1>17 DEF Crash, Fault, Return
<1>18. CASE RpcHangs
  BY <1>18 DEF RpcHangs, Fault
<1>19. CASE HungCallFails
  BY <1>19 DEF HungCallFails, Return
<1>20. CASE UNCHANGED vars
  BY <1>20 DEF vars
<1> QED
  BY <1>1, <1>2, <1>3, <1>4, <1>5, <1>6, <1>7, <1>8, <1>9, <1>10, <1>11, <1>12, <1>13, <1>14,
     <1>15, <1>16, <1>17, <1>18, <1>19, <1>20 DEF Next, Watcher, HandleLog

\* The invariant holds at the start and is kept by every step.
LEMMA InitIInv == Init => IInv
BY ConstantsAssumption
   DEF Init, IInv, TypeOK, Log, ChainInv, PollInv, JumpInv, SpawnInv, PaidInv, LossInv, Accounted,
       Confirmed, SaturatingSub

LEMMA NextIInv == IInv /\ [Next]_vars => IInv'
<1> SUFFICES ASSUME IInv, [Next]_vars PROVE IInv'
  OBVIOUS
<1>1. TypeOK'   BY TypeStep DEF IInv
<1>2. ChainInv' BY ChainStep DEF IInv
<1>3. PollInv'  BY <1>1, PollStep DEF IInv
<1>4. JumpInv'  BY JumpStep DEF IInv
<1>5. SpawnInv' BY SpawnStep DEF IInv
<1>6. PaidInv'  BY PaidStep DEF IInv
<1>7. LossInv'  BY <1>1, LossStep DEF IInv
<1> QED BY <1>1, <1>2, <1>3, <1>4, <1>5, <1>6, <1>7 DEF IInv

\* The watcher's inductive invariant.
THEOREM Invariance == Spec => []IInv
<1>1. Init => IInv BY InitIInv
<1>2. IInv /\ [Next]_vars => IInv' BY NextIInv
<1> QED BY <1>1, <1>2, PTL DEF Spec

\* Type correctness: heights, cursors and counters stay natural numbers (every
\* subtraction of poll_once saturates).
THEOREM TypeCorrect == Spec => []TypeOK
<1>1. IInv => TypeOK BY DEF IInv
<1> QED BY <1>1, Invariance, PTL

\* An analysis is spawned only for a scan with a payment in a confirmed block of
\* the canonical chain (handle_log, mark_paid).
THEOREM PaidBeforeSpawnHolds == Spec => []PaidBeforeSpawn
<1>1. IInv => PaidBeforeSpawn
  BY DEF IInv, TypeOK, ChainInv, SpawnInv, PaidInv, PaidBeforeSpawn
<1> QED BY <1>1, Invariance, PTL

\* Replays and retries never spawn a second pipeline for a scan (mark_paid).
THEOREM AtMostOnePipelineHolds == Spec => []AtMostOnePipeline
<1>1. IInv => AtMostOnePipeline BY DEF IInv, SpawnInv, AtMostOnePipeline
<1> QED BY <1>1, Invariance, PTL

\* A payment behind the cursor has started its scan or is one of the losses the
\* code admits (poll_once).
THEOREM NoOtherPaymentMissedHolds == Spec => []NoOtherPaymentMissed
<1>1. IInv => NoOtherPaymentMissed
  BY DEF IInv, LossInv, Accounted, NoOtherPaymentMissed
<1> QED BY <1>1, Invariance, PTL

\* The saved cursor never goes back (set_last_processed_block).
THEOREM CursorNeverGoesBackHolds == Spec => CursorNeverGoesBack
<1>1. IInv /\ [Next]_vars => [lastProcessed' >= lastProcessed]_vars
  <2> SUFFICES ASSUME IInv, Next PROVE lastProcessed' >= lastProcessed
    BY DEF vars
  <2> USE DEF IInv, TypeOK, PollInv, dbVars
  <2>1. CASE InitCursor BY <2>1 DEF InitCursor, StoreInitialCursor
  <2>2. CASE SaveCursor BY <2>2 DEF SaveCursor, WindowDone, StoreCursor
  <2>3. CASE CursorUpdateFails
    BY <2>3 DEF CursorUpdateFails, StoreInitialCursor, WindowDone, StoreCursor
  <2>4. CASE UNCHANGED lastProcessed BY <2>4
  <2> QED
    BY <2>1, <2>2, <2>3, <2>4
       DEF Next, Watcher, HandleLog, PollHead, ReadCursor, GetLogs, IgnoreUnderpaid, MarkPaid,
           MarkPaidNoRow, Spawn, Mine, Reorg, Create, PollFails, RpcHangs,
           HungCallFails, GetLogsNull, MarkPaidFails, Crash
<1> QED BY <1>1, Invariance, PTL DEF Spec, CursorNeverGoesBack

\* Past the first poll, only the fast-forward leaves blocks out, and those are more
\* than LookbackMax behind the confirmed head (poll_once).
THEOREM OnlyOldBlocksSkippedHolds == Spec => OnlyOldBlocksSkipped
<1> DEFINE OldOnly ==
      lastProcessed > 0 => \A b \in skipped' \ skipped : b + LookbackMax < Confirmed
<1>1. IInv /\ [Next]_vars => [OldOnly]_vars
  <2> SUFFICES ASSUME IInv, Next PROVE OldOnly
    BY DEF vars
  <2> USE ConstantsAssumption DEF IInv, TypeOK, PollInv, JumpInv
  <2>0. Confirmed \in Nat
    BY DEF Confirmed, SaturatingSub
  <2>1. CASE InitCursor
    BY <2>1 DEF InitCursor
  <2>2. ASSUME WindowDone, StoreCursor PROVE OldOnly
    BY <2>0, <2>2 DEF WindowDone, StoreCursor
  <2>3. CASE SaveCursor
    BY <2>2, <2>3 DEF SaveCursor
  <2>4. CASE CursorUpdateFails
    BY <2>2, <2>4 DEF CursorUpdateFails
  <2>5. CASE UNCHANGED skipped
    BY <2>5
  <2> QED
    BY <2>1, <2>3, <2>4, <2>5
       DEF Next, Watcher, HandleLog, PollHead, ReadCursor, GetLogs, IgnoreUnderpaid, MarkPaid,
           MarkPaidNoRow, Spawn, Mine, Reorg, Create, PollFails, RpcHangs,
           HungCallFails, GetLogsNull, MarkPaidFails, Crash, ghostVars
<1> QED BY <1>1, Invariance, PTL DEF Spec, OnlyOldBlocksSkipped

-----------------------------------------------------------------------------
(* Refinement. *)

\* What a step does to the settled scans depends on the chain alone.
LEMMA SettledGrows ==
    ASSUME TypeOK, ChainInv, [Next]_vars
    PROVE  SettledScans \subseteq SettledScans'
<1> USE ConstantsAssumption, FinalityAssumption
    DEF TypeOK, Log, ChainInv, SettledScans, Confirmed, SaturatingSub, chainVars
<1>1. ASSUME NEW payments \in SUBSET Payments, Mine(payments)
      PROVE  SettledScans \subseteq SettledScans'
  BY <1>1 DEF Mine
<1>2. ASSUME NEW k \in 0..height, Reorg(k)
      PROVE  SettledScans \subseteq SettledScans'
  BY <1>2 DEF Reorg
<1>3. CASE UNCHANGED chainVars
  BY <1>3
<1> QED
  BY <1>1, <1>2, <1>3
     DEF Next, Watcher, HandleLog, PollHead, ReadCursor, InitCursor, GetLogs, IgnoreUnderpaid,
         MarkPaid, MarkPaidNoRow, Spawn, SaveCursor, Create, PollFails, RpcHangs,
         HungCallFails, CursorUpdateFails, GetLogsNull, MarkPaidFails, Crash, vars


\* Only four kinds of step change a phase: each is one abstract step.
LEMMA LifecycleStep ==
    ASSUME IInv, [Next]_vars
    PROVE  [Lifecycle!LifecycleNext]_(Lifecycle!lifecycleVars)
<1> DEFINE P == [s \in Scans |-> Phase(s)]
<1> USE DEF IInv, TypeOK, Log, Phase
<1>1. SettledScans \subseteq SettledScans' /\ SettledScans' \subseteq Scans
  <2>1. TypeOK' BY TypeStep
  <2> QED BY <2>1, SettledGrows DEF SettledScans
<1>2. ASSUME UNCHANGED <<status, spawned>>
      PROVE  [Lifecycle!LifecycleNext]_(Lifecycle!lifecycleVars)
  <2>1. UNCHANGED P BY <1>2
  <2>2. Lifecycle!Settle(SettledScans') BY <1>1, <2>1 DEF Lifecycle!Settle
  <2> QED BY <1>1, <2>2 DEF Lifecycle!LifecycleNext
<1>3. ASSUME NEW s \in Scans, s \in SettledScans, UNCHANGED <<chainVars, spawned>>,
             status[s] = "awaiting_payment", status' = [status EXCEPT ![s] = "queued"]
      PROVE  Lifecycle!LifecycleNext
  <2>1. spawned[s] = 0 BY <1>3 DEF SpawnInv
  <2>2. P[s] = "awaiting" /\ P' = [P EXCEPT ![s] = "paid"]
    <3>1. \A x \in Scans : Phase(x)' = IF x = s THEN "paid" ELSE Phase(x) BY <1>3, <2>1
    <3> QED BY <1>3, <2>1, <3>1
  <2>3. UNCHANGED SettledScans BY <1>3 DEF SettledScans, Confirmed, chainVars
  <2>4. Lifecycle!Claim(s) BY <1>3, <2>2, <2>3 DEF Lifecycle!Claim, Lifecycle!Move
  <2> QED BY <2>4 DEF Lifecycle!LifecycleNext
<1>4. ASSUME NEW e \in pending, NextLog(e)
      PROVE  e.scan \in Scans /\ e.scan \in SettledScans
  BY <1>4, ConstantsAssumption DEF NextLog, PollInv, SettledScans, Confirmed, SaturatingSub
<1>5. ASSUME NEW e \in pending, MarkPaid(e)
      PROVE  Lifecycle!LifecycleNext
  BY <1>3, <1>4, <1>5 DEF MarkPaid, ghostVars
<1>6. ASSUME NEW e \in pending, MarkPaidFails(e)
      PROVE  [Lifecycle!LifecycleNext]_(Lifecycle!lifecycleVars)
  BY <1>2, <1>3, <1>4, <1>6 DEF MarkPaidFails
<1>7. ASSUME NEW s \in claimed, Spawn(s)
      PROVE  Lifecycle!LifecycleNext
  <2>1. s \in Scans /\ status[s] = "queued" /\ spawned[s] = 0 BY DEF SpawnInv
  <2>2. UNCHANGED status /\ spawned' = [spawned EXCEPT ![s] = @ + 1]
    BY <1>7 DEF Spawn, dbVars
  <2>3. P[s] = "paid" /\ P' = [P EXCEPT ![s] = "started"]
    <3>1. \A x \in Scans : Phase(x)' = IF x = s THEN "started" ELSE Phase(x) BY <2>1, <2>2
    <3>2. P[s] = "paid" BY <2>1
    <3> HIDE DEF Phase
    <3> QED BY <2>1, <3>1, <3>2
  <2>4. UNCHANGED SettledScans BY <1>7 DEF Spawn, SettledScans, Confirmed, chainVars
  <2>5. Lifecycle!Start(s) BY <2>3, <2>4 DEF Lifecycle!Start, Lifecycle!Move
  <2> QED BY <2>1, <2>5 DEF Lifecycle!LifecycleNext
<1>8. ASSUME NEW s \in Scans, Create(s)
      PROVE  Lifecycle!LifecycleNext
  <2>1. status[s] = "none" /\ spawned[s] = 0 BY <1>8 DEF Create, SpawnInv
  <2>2. UNCHANGED spawned /\ status' = [status EXCEPT ![s] = "awaiting_payment"]
    BY <1>8 DEF Create, ghostVars
  <2>3. P[s] = "absent" /\ P' = [P EXCEPT ![s] = "awaiting"]
    <3>1. \A x \in Scans : Phase(x)' = IF x = s THEN "awaiting" ELSE Phase(x) BY <2>1, <2>2
    <3> QED BY <2>1, <2>2, <3>1
  <2>4. UNCHANGED SettledScans BY <1>8 DEF Create, SettledScans, Confirmed, chainVars
  <2>5. Lifecycle!Open(s) BY <2>3, <2>4 DEF Lifecycle!Open, Lifecycle!Move
  <2> QED BY <2>5 DEF Lifecycle!LifecycleNext
<1> QED
  BY <1>2, <1>5, <1>6, <1>7, <1>8
     DEF Next, Watcher, HandleLog, PollHead, ReadCursor, InitCursor, GetLogs, IgnoreUnderpaid,
         MarkPaidNoRow, SaveCursor, Mine, Reorg, PollFails, RpcHangs, HungCallFails,
         CursorUpdateFails, GetLogsNull, Crash, vars, dbVars, ghostVars

\* The watcher implements ScanLifecycle: whatever the chain, the RPC nodes, the
\* database and crashes do, a scan moves only from awaiting to paid when its
\* payment is settled, and only once from there to started.
THEOREM ImplementsLifecycleHolds == Spec => ImplementsLifecycle
<1>1. Init => Lifecycle!LifecycleInit
  BY DEF Init, Lifecycle!LifecycleInit, SettledScans, Phase
<1>2. IInv /\ [Next]_vars => [Lifecycle!LifecycleNext]_(Lifecycle!lifecycleVars)
  BY LifecycleStep
<1> QED
  BY <1>1, <1>2, Invariance, PTL DEF Spec, ImplementsLifecycle, Lifecycle!LifecycleSpec
================================================================================
