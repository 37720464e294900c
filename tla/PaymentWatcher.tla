---------------------------- MODULE PaymentWatcher ----------------------------
(***************************************************************************)
(* The payment watcher (src/infra/payment_watcher.rs): a polling task that  *)
(* reads ScanPaid logs of the ScanPayments contract over JSON-RPC and, for  *)
(* each one that is deep enough in the chain, marks the scan paid and       *)
(* spawns its analysis (scan_service.rs, on_payment_observed).  The cursor  *)
(* `lastProcessed` and the scans table live in Postgres and survive a crash *)
(* of the server; everything else the task knows is lost with it.           *)
(*                                                                          *)
(* One action per await point of poll_once.  The chain is a height and the  *)
(* set of ScanPaid events it holds: it grows, and its last ReorgDepth       *)
(* blocks may be replaced.  An RPC node answers from a prefix that lags the *)
(* chain by up to RpcLag blocks.                                            *)
(***************************************************************************)
EXTENDS Naturals, FiniteSets

CONSTANTS
    Scans,          \* scan ids
    Amounts,        \* amounts a payer may attach to pay()
    ContractPrice,  \* PRICE of the contract
    ConfigPrices,   \* values SCAN_PRICE_WEI may have when the server starts
    Confirmations,  \* PAYMENT_CONFIRMATIONS
    ReorgDepth,     \* how many of the highest blocks may still be replaced
    RpcLag,         \* how far an RPC node may be behind the chain
    MaxBlockRange,  \* MAX_BLOCK_RANGE (99 in the code)
    LookbackMax,    \* LOOKBACK_MAX (5000 in the code)
    MaxWindows,     \* getLogs windows per poll (200 in the code)
    Faults,         \* the kinds of fault that may happen
    MaxHeight,      \* bound: the chain stops growing here
    MaxFaults       \* bound: number of faults

FaultKinds == {"rpc_error", "rpc_null", "rpc_hang", "cursor_db", "mark_paid_db", "crash"}

\* A block the watcher looks at is Confirmations deep; the code is meant for
\* chains, and RPC nodes, for which that makes the block permanent and visible.
ASSUME ConstantsAssumption ==
    /\ Amounts \subseteq Nat
    /\ ConfigPrices \subseteq Nat
    /\ ConfigPrices # {}
    /\ ContractPrice \in Nat
    /\ Confirmations \in Nat
    /\ ReorgDepth \in Nat
    /\ RpcLag \in Nat
    /\ MaxBlockRange \in Nat
    /\ LookbackMax \in Nat
    /\ MaxWindows \in Nat \ {0}
    /\ Faults \subseteq FaultKinds
    /\ MaxHeight \in Nat
    /\ MaxFaults \in Nat

ASSUME FinalityAssumption == ReorgDepth + RpcLag <= Confirmations

VARIABLES
    \* the chain and the contract
    height,         \* number of the newest block
    tip,            \* the greatest height ever reached
    events,         \* ScanPaid logs of the canonical chain
    \* Postgres
    status,         \* scans.status, as far as payment goes
    price,          \* scans.price_amount: the price when the scan was created
    lastProcessed,  \* chain_watcher_state.last_processed_block
    \* the server process
    configPrice,    \* price the running server was configured with
    pc,             \* where poll_once is
    safeTo,         \* locals of poll_once ...
    cursor,
    to,
    windows,
    pending,        \* logs of the current window not handled yet
    claimed,        \* scans mark_paid moved, whose pipeline is not spawned yet
    \* bookkeeping
    spawned,        \* how many pipelines were ever spawned for the scan
    skipped,        \* blocks the cursor jumped over without a getLogs
    lost,           \* scans whose payment met a failed mark_paid, an empty RPC
                    \* reply, or a crash between mark_paid and spawn
    faults          \* faults so far

chainVars == <<height, tip, events>>
dbVars    == <<status, price, lastProcessed>>
localVars == <<safeTo, cursor, to, windows, pending>>
ghostVars == <<spawned, skipped, lost>>
vars == <<chainVars, dbVars, configPrice, pc, localVars, claimed, ghostVars, faults>>

Log == [block : Nat, scan : Scans, amount : Nat]

TypeOK ==
    /\ height \in Nat
    /\ tip \in Nat
    /\ events \subseteq Log
    /\ status \in [Scans -> {"none", "awaiting_payment", "queued"}]
    /\ price \in [Scans -> Nat]
    /\ lastProcessed \in Nat
    /\ configPrice \in ConfigPrices
    /\ pc \in {"sleep", "readCursor", "initCursor", "getLogs", "handleLogs", "hung"}
    /\ safeTo \in Nat
    /\ cursor \in Nat
    /\ to \in Nat
    /\ windows \in Nat
    /\ pending \subseteq Log
    /\ claimed \subseteq Scans
    /\ spawned \in [Scans -> Nat]
    /\ skipped \subseteq Nat
    /\ lost \subseteq Scans
    /\ faults \in Nat

\* Mutant: a plain subtraction.
SaturatingSub_Plain(a, b) == a - b

SaturatingSub(a, b) == IF a > b THEN a - b ELSE 0
Lesser(a, b) == IF a < b THEN a ELSE b

\* The deepest block a poll may look at, whichever node answers.
Confirmed == SaturatingSub(tip, Confirmations)

Init ==
    /\ height = 0 /\ tip = 0 /\ events = {}
    /\ status = [s \in Scans |-> "none"]
    /\ price = [s \in Scans |-> 0]
    /\ lastProcessed = 0
    /\ configPrice \in ConfigPrices
    /\ pc = "sleep"
    /\ safeTo = 0 /\ cursor = 0 /\ to = 0 /\ windows = 0 /\ pending = {}
    /\ claimed = {}
    /\ spawned = [s \in Scans |-> 0]
    /\ skipped = {} /\ lost = {}
    /\ faults = 0

Fault(kind) ==
    /\ kind \in Faults
    /\ faults < MaxFaults
    /\ faults' = faults + 1

-----------------------------------------------------------------------------
(* The chain. *)

\* pay(): reverts on underpayment and on a second payment of the same scan.
Payments ==
    [scan : Scans \ {e.scan : e \in events},
     amount : {a \in Amounts : a >= ContractPrice}]

\* A block with at most one payment per scan is appended.
Mine(payments) ==
    /\ height < MaxHeight
    /\ \A p, q \in payments : p.scan = q.scan => p = q
    /\ height' = height + 1
    /\ tip' = IF height + 1 > tip THEN height + 1 ELSE tip
    /\ events' = events \cup
          {[block |-> height + 1, scan |-> p.scan, amount |-> p.amount] : p \in payments}
    /\ UNCHANGED <<dbVars, configPrice, pc, localVars, claimed, ghostVars, faults>>

\* The blocks above k, and the payments in them, are abandoned.
Reorg(k) ==
    /\ k < height
    /\ k >= SaturatingSub(tip, ReorgDepth)
    /\ height' = k
    /\ events' = {e \in events : e.block <= k}
    /\ UNCHANGED <<tip, dbVars, configPrice, pc, localVars, claimed, ghostVars, faults>>

\* The heights an RPC node may answer from.
NodeViews == SaturatingSub(height, RpcLag) .. height

-----------------------------------------------------------------------------
(* The API: a scan row is inserted with the configured price (PAYMENT_BYPASS is
   off).  Scan ids are fresh: nobody has paid for one before its row exists. *)

Create(s) ==
    /\ status[s] = "none"
    /\ \A e \in events \cup pending : e.scan # s
    /\ status' = [status EXCEPT ![s] = "awaiting_payment"]
    /\ price' = [price EXCEPT ![s] = configPrice]
    /\ UNCHANGED <<chainVars, lastProcessed, configPrice, pc, localVars, claimed,
                   ghostVars, faults>>

-----------------------------------------------------------------------------
(* poll_once, one action per await point. *)

\* Returning from poll_once drops its locals.
Return ==
    /\ pc' = "sleep"
    /\ safeTo' = 0 /\ cursor' = 0 /\ to' = 0 /\ windows' = 0 /\ pending' = {}

\* Mutant: the newest block is trusted at once.
PollHead_Unconfirmed ==
    /\ pc = "sleep"
    /\ \E latest \in NodeViews : safeTo' = latest
    /\ pc' = "readCursor"
    /\ UNCHANGED <<chainVars, dbVars, configPrice, cursor, to, windows, pending, claimed,
                   ghostVars, faults>>

\* eth_blockNumber
PollHead ==
    /\ pc = "sleep"
    /\ \E latest \in NodeViews : safeTo' = SaturatingSub(latest, Confirmations)
    /\ pc' = "readCursor"
    /\ UNCHANGED <<chainVars, dbVars, configPrice, cursor, to, windows, pending, claimed,
                   ghostVars, faults>>

\* Mutant: the head block is read again when the cursor is past it.
FirstBlock_Clamped ==
    IF lastProcessed = 0 THEN safeTo + 1 ELSE Lesser(lastProcessed + 1, safeTo)

\* Mutant: the block after the cursor is left out.
FirstBlock_SkipsOne == IF lastProcessed = 0 THEN safeTo + 1 ELSE lastProcessed + 2

\* Where the poll starts: after the saved cursor, or just past the confirmed
\* head when there is none (0), or LookbackMax behind it when far behind.
FirstBlock ==
    LET next == IF lastProcessed = 0 THEN safeTo + 1 ELSE lastProcessed + 1
    IN  IF SaturatingSub(safeTo, next) > LookbackMax THEN safeTo - LookbackMax ELSE next

\* get_last_processed_block
ReadCursor ==
    /\ pc = "readCursor"
    /\ \/ /\ FirstBlock <= safeTo
          /\ cursor' = FirstBlock
          /\ pc' = "getLogs"
          /\ UNCHANGED <<safeTo, to, windows, pending>>
       \/ /\ FirstBlock > safeTo
          /\ lastProcessed = 0
          /\ pc' = "initCursor"
          /\ UNCHANGED localVars
       \/ /\ FirstBlock > safeTo
          /\ lastProcessed # 0
          /\ Return
    /\ UNCHANGED <<chainVars, dbVars, configPrice, claimed, ghostVars, faults>>

\* set_last_processed_block(safe_to) of the first poll
StoreInitialCursor ==
    /\ lastProcessed' = safeTo
    /\ skipped' = skipped \cup 1..safeTo

InitCursor ==
    /\ pc = "initCursor"
    /\ StoreInitialCursor
    /\ Return
    /\ UNCHANGED <<chainVars, status, price, configPrice, claimed, spawned, lost, faults>>

WindowEnd == Lesser(cursor + MaxBlockRange, safeTo)
LogsIn(from, last) == {e \in events : from <= e.block /\ e.block <= last}

\* eth_getLogs, answered by a node that knows the chain up to `view`
GetLogs ==
    /\ pc = "getLogs"
    /\ to' = WindowEnd
    /\ \E view \in NodeViews : pending' = LogsIn(cursor, Lesser(WindowEnd, view))
    /\ pc' = "handleLogs"
    /\ UNCHANGED <<chainVars, dbVars, configPrice, safeTo, cursor, windows, claimed,
                   ghostVars, faults>>

\* handle_log takes the logs of a window in block order, one at a time.
NextLog(e) ==
    /\ pc = "handleLogs"
    /\ claimed = {}
    /\ e \in pending
    /\ \A other \in pending : e.block <= other.block
    /\ pending' = pending \ {e}

\* handle_log: an amount below the configured price is ignored.
IgnoreUnderpaid(e) ==
    /\ NextLog(e)
    /\ e.amount < configPrice
    /\ UNCHANGED <<chainVars, dbVars, configPrice, pc, safeTo, cursor, to, windows, claimed,
                   ghostVars, faults>>

\* Mutant: the UPDATE has no condition on the status.
MarkPaid_AnyStatus(e) ==
    /\ NextLog(e)
    /\ e.amount >= configPrice
    /\ status' = [status EXCEPT ![e.scan] = "queued"]
    /\ claimed' = {e.scan}
    /\ UNCHANGED <<chainVars, price, lastProcessed, configPrice, pc, safeTo, cursor, to,
                   windows, ghostVars, faults>>

\* mark_paid: UPDATE ... WHERE status = 'awaiting_payment' changes the row.
MarkPaid(e) ==
    /\ NextLog(e)
    /\ e.amount >= configPrice
    /\ status[e.scan] = "awaiting_payment"
    /\ status' = [status EXCEPT ![e.scan] = "queued"]
    /\ claimed' = {e.scan}
    /\ UNCHANGED <<chainVars, price, lastProcessed, configPrice, pc, safeTo, cursor, to,
                   windows, ghostVars, faults>>

\* mark_paid matches no row: the scan is unknown or already past payment.
MarkPaidNoRow(e) ==
    /\ NextLog(e)
    /\ e.amount >= configPrice
    /\ status[e.scan] # "awaiting_payment"
    /\ UNCHANGED <<chainVars, dbVars, configPrice, pc, safeTo, cursor, to, windows, claimed,
                   ghostVars, faults>>

\* on_payment_observed spawns the pipeline of the scan mark_paid moved.
Spawn(s) ==
    /\ s \in claimed
    /\ claimed' = claimed \ {s}
    /\ spawned' = [spawned EXCEPT ![s] = @ + 1]
    /\ UNCHANGED <<chainVars, dbVars, configPrice, pc, localVars, skipped, lost, faults>>

\* Mutant: the cursor is saved at the end of the poll's range, not the window's.
StoreCursor_AtHead ==
    /\ lastProcessed' = safeTo
    /\ skipped' = skipped \cup (lastProcessed + 1)..(cursor - 1)

\* set_last_processed_block(to) at the end of a window
StoreCursor ==
    /\ lastProcessed' = to
    /\ skipped' = skipped \cup (lastProcessed + 1)..(cursor - 1)

WindowDone == pc = "handleLogs" /\ claimed = {} /\ pending = {}

SaveCursor ==
    /\ WindowDone
    /\ StoreCursor
    /\ \/ /\ to + 1 <= safeTo
          /\ windows + 1 < MaxWindows
          /\ cursor' = to + 1
          /\ windows' = windows + 1
          /\ pc' = "getLogs"
          /\ UNCHANGED <<safeTo, to, pending>>
       \/ /\ to + 1 > safeTo \/ windows + 1 >= MaxWindows
          /\ Return
    /\ UNCHANGED <<chainVars, status, price, configPrice, claimed, spawned, lost, faults>>

-----------------------------------------------------------------------------
(* Faults. *)

\* An RPC call or the cursor query fails: poll_once returns the error and the
\* loop in run tries again after its sleep.
PollFails ==
    /\ \/ pc = "readCursor" /\ Fault("cursor_db")
       \/ pc = "getLogs" /\ Fault("rpc_error")
    /\ Return
    /\ UNCHANGED <<chainVars, dbVars, configPrice, claimed, ghostVars>>

\* An RPC call is never answered: the client has no timeout, so that run() waits
\* for it, and with it every later poll.
RpcHangs ==
    /\ pc \in {"sleep", "getLogs"}
    /\ Fault("rpc_hang")
    /\ pc' = "hung"
    /\ UNCHANGED <<chainVars, dbVars, configPrice, localVars, claimed, ghostVars>>

\* The connection of the call breaks after all, which nothing guarantees.
HungCallFails ==
    /\ pc = "hung"
    /\ Return
    /\ UNCHANGED <<chainVars, dbVars, configPrice, claimed, ghostVars, faults>>

\* A cursor update reports an error; the database may have applied it or not.
CursorUpdateFails ==
    /\ Fault("cursor_db")
    /\ \/ pc = "initCursor" /\ StoreInitialCursor
       \/ WindowDone /\ StoreCursor
       \/ (pc = "initCursor" \/ WindowDone) /\ UNCHANGED <<lastProcessed, skipped>>
    /\ Return
    /\ UNCHANGED <<chainVars, status, price, configPrice, claimed, spawned, lost>>

\* A reply without an array in `result` counts as a window without logs.
GetLogsNull ==
    /\ pc = "getLogs"
    /\ Fault("rpc_null")
    /\ to' = WindowEnd
    /\ pending' = {}
    /\ lost' = lost \cup {e.scan : e \in LogsIn(cursor, WindowEnd)}
    /\ pc' = "handleLogs"
    /\ UNCHANGED <<chainVars, dbVars, configPrice, safeTo, cursor, windows, claimed,
                   spawned, skipped>>

\* mark_paid reports an error, applied or not: it is logged, and the window
\* goes on to its next log and to its cursor update.
MarkPaidFails(e) ==
    /\ NextLog(e)
    /\ e.amount >= configPrice
    /\ Fault("mark_paid_db")
    /\ lost' = lost \cup {e.scan}
    /\ \/ UNCHANGED status
       \/ /\ status[e.scan] = "awaiting_payment"
          /\ status' = [status EXCEPT ![e.scan] = "queued"]
    /\ UNCHANGED <<chainVars, price, lastProcessed, configPrice, pc, safeTo, cursor, to,
                   windows, claimed, spawned, skipped>>

\* The server dies and is started again, with a price of the operator's.
Crash(newPrice) ==
    /\ Fault("crash")
    /\ Return
    /\ claimed' = {}
    /\ lost' = lost \cup claimed
    /\ configPrice' = newPrice
    /\ UNCHANGED <<chainVars, dbVars, spawned, skipped>>

-----------------------------------------------------------------------------
HandleLog(e) == IgnoreUnderpaid(e) \/ MarkPaid(e) \/ MarkPaidNoRow(e)

Watcher ==
    \/ PollHead
    \/ ReadCursor
    \/ InitCursor
    \/ GetLogs
    \/ \E e \in pending : HandleLog(e)
    \/ \E s \in claimed : Spawn(s)
    \/ SaveCursor

Next ==
    \/ Watcher
    \/ \E payments \in SUBSET Payments : Mine(payments)
    \/ \E k \in 0..height : Reorg(k)
    \/ \E s \in Scans : Create(s)
    \/ PollFails
    \/ RpcHangs
    \/ HungCallFails
    \/ CursorUpdateFails
    \/ GetLogsNull
    \/ \E e \in pending : MarkPaidFails(e)
    \/ \E p \in ConfigPrices : Crash(p)

Spec == Init /\ [][Next]_vars

\* The watcher task is polled by the runtime as long as the server lives; while a
\* call hangs, no action of Watcher is enabled and nothing is promised.  The chain
\* keeps producing blocks, and reorganisations do not keep it from ever
\* reaching a new greatest height.
NewTip == height = tip /\ \E payments \in SUBSET Payments : Mine(payments)

FairSpec ==
    /\ Spec
    /\ WF_vars(Watcher)
    /\ WF_vars(\E payments \in SUBSET Payments : Mine(payments))
    /\ SF_vars(NewTip)
-----------------------------------------------------------------------------
(* Properties. *)

\* No analysis is spawned for a scan without a payment in a confirmed block of
\* the canonical chain, in spite of reorganisations and lagging nodes
\* (poll_once stays `confirmations` behind the head; handle_log).
PaidBeforeSpawn ==
    \A s \in Scans : spawned[s] > 0 =>
        \E e \in events :
            e.scan = s /\ e.block <= Confirmed /\ e.amount >= ContractPrice

\* A payment is worth one analysis: replaying a window after a crash or a failed
\* cursor update never spawns a second pipeline for the scan (mark_paid).
AtMostOnePipeline == \A s \in Scans : spawned[s] <= 1

\* The ways a confirmed payment can fail to start its scan.
ExcusedLoss(e) ==
    \/ e.block \in skipped
    \/ e.scan \in lost
    \/ \E p \in ConfigPrices : e.amount < p

\* Once the cursor has passed a payment of a known scan, the scan's pipeline was
\* spawned, except for the losses the code does admit: blocks the first poll or
\* the fast-forward jumps over, a failed mark_paid, an empty RPC reply, a crash
\* between mark_paid and spawn, an amount under a configured price (poll_once).
NoOtherPaymentMissed ==
    \A e \in events :
        e.block <= lastProcessed /\ status[e.scan] # "none" =>
            spawned[e.scan] > 0 \/ ExcusedLoss(e)

\* The saved cursor never goes back, although nodes answer with stale heads and
\* cursor updates fail half-way (set_last_processed_block in poll_once).
CursorNeverGoesBack == [][lastProcessed' >= lastProcessed]_vars

\* After the first poll the cursor jumps only over blocks more than LookbackMax
\* behind the confirmed head (fast-forward in poll_once).
OnlyOldBlocksSkipped ==
    [][lastProcessed > 0 =>
          \A b \in skipped' \ skipped : b + LookbackMax < Confirmed]_vars

\* A payment the watcher has not passed yet, enough for any configured price and
\* out of the reach of reorganisations.
PendingPayment(s) ==
    /\ status[s] = "awaiting_payment"
    /\ lastProcessed > 0
    /\ \E e \in events :
          /\ e.scan = s
          /\ lastProcessed < e.block
          /\ e.block <= SaturatingSub(tip, ReorgDepth)
          /\ e.block + Confirmations + RpcLag + ReorgDepth <= MaxHeight
          /\ \A p \in ConfigPrices : e.amount >= p

PaymentSkipped(s) == \E e \in events : e.scan = s /\ e.block \in skipped

\* If the chain goes on, faults are finitely many and no RPC call hangs for ever,
\* a pending payment starts its scan in the end, whatever polls failed before or
\* stopped after MaxWindows; unless the fast-forward jumps over its block, or the
\* payment meets a fault that loses it (run, poll_once).
PendingPaymentStartsScan ==
    []<>(pc # "hung") =>
        \A s \in Scans :
            PendingPayment(s) ~> (spawned[s] > 0 \/ PaymentSkipped(s) \/ s \in lost)

\* The watcher implements the lifecycle's promise up to the start of the analysis.
SettledScans == {e.scan : e \in {f \in events : f.block <= Confirmed}}

Phase(s) ==
    IF spawned[s] > 0 THEN "started"
    ELSE IF status[s] = "queued" THEN "paid"
    ELSE IF status[s] = "awaiting_payment" THEN "awaiting"
    ELSE "absent"

Lifecycle == INSTANCE ScanLifecycle WITH
    settled <- SettledScans,
    phase   <- [s \in Scans |-> Phase(s)],
    reports <- {}

\* Every behaviour of the watcher, mapped to phases, is one ScanLifecycle allows
\* (mark_paid, spawn_pipeline).
ImplementsLifecycle == Lifecycle!LifecycleSpec

-----------------------------------------------------------------------------
(* Claims of the repository the code does not keep. *)

\* "a silently missed event would otherwise leave a scan stuck in
\* awaiting_payment forever": a payment the watcher has passed has left that
\* status, or is in a block the first poll or the fast-forward skipped.
NoPaymentSilentlyMissed ==
    \A e \in events :
        e.block <= lastProcessed /\ status[e.scan] = "awaiting_payment" =>
            e.block \in skipped

\* "payments older than the window are expired anyway": no scan still awaits a
\* payment that lies in a block the fast-forward skipped, that is, a skipped
\* block after one that was read.
SkippedPaymentsAreExpired ==
    \A e \in events :
        e.block \in skipped /\ (\E b \in 1..e.block : b \notin skipped) =>
            status[e.scan] # "awaiting_payment"

\* "Snapshotted at creation so verification is independent of later config
\* changes": a passed payment of the snapshotted price has been accepted.
SnapshotPriceDecides ==
    \A e \in events :
        e.block <= lastProcessed /\ e.block \notin skipped
        /\ status[e.scan] = "awaiting_payment" => e.amount < price[e.scan]
=============================================================================
