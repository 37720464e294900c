------------------------------- MODULE ScanClient -------------------------------
(***************************************************************************)
(* The page (static/index.html) and the API it polls.  Of the service the   *)
(* page can see no more than ScanLifecycle promises, which PaymentWatcher   *)
(* and ScanPipeline implement: its steps are those of the rows here.        *)
(* Requests are answered at any time after they are sent and the answers    *)
(* come in any order, some after the page has moved on to another scan.     *)
(*                                                                          *)
(* A call of startPolling is named by a member of Starts and so is the      *)
(* interval it sets; a name is used again when nothing refers to it.  A     *)
(* request is named by its sender: a start and a slot, or the report button.*)
(***************************************************************************)
EXTENDS Naturals, FiniteSets

CONSTANTS
    Scans,
    Starts,       \* bound: calls of startPolling in use at a time
    Slots,        \* bound: unanswered requests of one interval
    MaxClicks,    \* bound: submissions, and clicks on the progress and report buttons
    MaxFaults,    \* bound: requests that fail, and reloads of the page
    None          \* null

ASSUME ClientAssumption ==
    /\ 1 \in Slots
    /\ {MaxClicks, MaxFaults} \subseteq Nat
    /\ None \notin Scans \cup Starts

VARIABLES
    settled, phase, reports,  \* the service, as in ScanLifecycle
    scanId,      \* state.scanId, which localStorage keeps
    view,        \* the status last rendered
    report,      \* state.report
    poll,        \* state.poll
    live,        \* the intervals the browser runs
    starting,    \* calls of startPolling that await their first tick
    overlapped,  \* bookkeeping: those that did while another did
    calls,       \* requests of ticks and of loadReport
    create,      \* POST /api/scans: none, sent, refused, or the scan answered
    cut,         \* bookkeeping: since polling last started a request failed, the answer
                 \* for another scan cleared the interval, or the page was reloaded
    clicks, faults

serviceVars == <<settled, phase, reports>>
displayVars == <<scanId, view, report>>
pollVars == <<poll, live, starting, overlapped, cut>>
boundVars == <<clicks, faults>>
vars == <<serviceVars, displayVars, pollVars, calls, create, boundVars>>

Service == INSTANCE ScanLifecycle

Senders == (Starts \X Slots) \cup {<<None, 1>>}

\* What the page tells apart in a status, and the screens it shows are left out.
Statuses == {"pending", "ready", "failed"}
NoCall == [kind |-> "none", scan |-> None, answer |-> "none"]
Call(kind, s) == [kind |-> kind, scan |-> s, answer |-> "none"]
Shown(s, status) == [scan |-> s, status |-> status]
Nothing(why) == Shown(None, why)

TypeOK ==
    /\ settled \subseteq Scans
    /\ phase \in [Scans -> Service!Phases]
    /\ reports \subseteq Scans
    /\ scanId \in Scans \cup {None}
    /\ view \in [scan : Scans \cup {None}, status : Statuses \cup {"none"}]
    /\ report \in Scans \cup {None}
    /\ poll \in Starts \cup {None}
    /\ live \subseteq Starts
    /\ starting \subseteq Starts \ live
    /\ overlapped \subseteq Starts
    /\ calls \in [Senders -> [
          kind : {"none", "status", "report"}, scan : Scans \cup {None},
          answer : Statuses \cup {"none", "not_found", "error", "report", "refused"}]]
    /\ \A i \in starting : calls[<<i, 1>>].kind # "none"
    /\ create \in [scan : Scans \cup {None},
                   status : Statuses \cup {"none", "sent", "refused"}]
    /\ cut \in BOOLEAN
    /\ clicks \in Nat
    /\ faults \in Nat

Init ==
    /\ settled = {}
    /\ phase = [s \in Scans |-> "absent"]
    /\ reports = {}
    /\ scanId = None
    /\ view = Nothing("none")
    /\ report = None
    /\ poll = None
    /\ live = {}
    /\ starting = {}
    /\ overlapped = {}
    /\ calls = [c \in Senders |-> NoCall]
    /\ create = Nothing("none")
    /\ cut = FALSE
    /\ clicks = 0
    /\ faults = 0

Click == clicks < MaxClicks /\ clicks' = clicks + 1
Fault == faults < MaxFaults /\ faults' = faults + 1

-----------------------------------------------------------------------------
(* The API. *)

\* parse_status, as far as the page tells statuses apart
StatusOf(s) ==
    IF phase[s] \in {"ready", "failed"} THEN phase[s] ELSE "pending"

\* get_status: 404 without the row
GetStatus(s) == IF phase[s] = "absent" THEN "not_found" ELSE StatusOf(s)

\* Mutant: whatever report is stored is served.
GetReport_AnyStatus(s) == IF s \in reports THEN "report" ELSE "refused"

\* get_report: 404 without the row, 409 unless the scan is ready, 500 without a report
GetReport(s) ==
    IF GetStatus(s) = "ready" /\ s \in reports THEN "report" ELSE "refused"

\* A request is handled, or fails on its way there or back.
Answer(c) ==
    /\ calls[c].kind # "none" /\ calls[c].answer = "none"
    /\ \/ /\ calls' = [calls EXCEPT ![c].answer =
                IF calls[c].kind = "status" THEN GetStatus(calls[c].scan)
                                            ELSE GetReport(calls[c].scan)]
          /\ UNCHANGED faults
       \/ /\ calls' = [calls EXCEPT ![c].answer = "error"]
          /\ Fault
    /\ UNCHANGED <<serviceVars, displayVars, pollVars, create, clicks>>

\* create_scan: a new row, a recent scan of the same source, or a refusal; the answer
\* may be lost.
AnswerCreate ==
    /\ create.status = "sent"
    /\ \/ \E s \in Scans :
             /\ Service!Open(s)
             /\ \/ create' = Shown(s, "pending") /\ UNCHANGED faults
                \/ create' = Nothing("refused") /\ Fault
       \/ \E s \in Scans :
             /\ phase[s] # "absent"
             /\ create' = Shown(s, StatusOf(s))
             /\ UNCHANGED <<serviceVars, faults>>
       \/ create' = Nothing("refused") /\ UNCHANGED <<serviceVars, faults>>
    /\ UNCHANGED <<displayVars, pollVars, calls, clicks>>

\* Payments, the watcher and the pipeline
Serve(s) ==
    /\ \/ s \notin settled /\ phase[s] # "absent" /\ Service!Settle({s})
       \/ Service!Claim(s) \/ Service!Start(s)
       \/ s \notin reports /\ Service!StoreReport(s)
       \/ Service!Deliver(s) \/ Service!GiveUp(s)
    /\ UNCHANGED <<displayVars, pollVars, calls, create, boundVars>>

-----------------------------------------------------------------------------
(* Polling. *)

Free(i) ==
    /\ i \notin starting \cup live \cup {poll}
    /\ \A k \in Slots : calls[<<i, k>>].kind = "none"

\* Mutant: the interval there is goes on.
Cleared_Kept == live

\* clearInterval(state.poll)
Cleared == live \ {poll}

\* startPolling for scan s, up to the request of its first tick
StartPolling(i, s) ==
    /\ Free(i)
    /\ live' = Cleared
    /\ starting' = starting \cup {i}
    /\ overlapped' = (overlapped \ {i}) \cup
                     (IF starting = {} THEN {} ELSE starting \cup {i})
    /\ cut' = FALSE
    /\ calls' = [calls EXCEPT ![<<i, 1>>] = Call("status", s)]
    /\ UNCHANGED poll

\* setInterval calls tick.
Fire(i) ==
    /\ i \in live
    /\ \E k \in Slots :
          /\ calls[<<i, k>>].kind = "none"
          /\ calls' = [calls EXCEPT ![<<i, k>>] = Call("status", scanId)]
    /\ UNCHANGED <<serviceVars, displayVars, pollVars, create, boundVars>>

\* Mutant: startPolling counts as running until the interval ends.
TickEnds_StillStarting(c, running) ==
    /\ calls' = [calls EXCEPT ![c] = NoCall]
    /\ live' = running \cup (starting \cap {c[1]})
    /\ poll' = IF c[1] \in starting THEN c[1] ELSE poll
    /\ UNCHANGED starting

\* A tick is over, with these intervals running; startPolling sets its own now,
\* whatever its first tick has found.
TickEnds(c, running) ==
    /\ calls' = [calls EXCEPT ![c] = NoCall]
    /\ live' = running \cup (starting \cap {c[1]})
    /\ poll' = IF c[1] \in starting THEN c[1] ELSE poll
    /\ starting' = starting \ {c[1]}

\* Mutant: the answer that says report_ready ends the polling and no more.
OnReady_NoLoad(c) == TickEnds(c, Cleared)

\* The interval is cleared and the report of what is now the page's scan fetched.
OnReady(c) ==
    /\ calls' = [calls EXCEPT ![c] = Call("report", scanId)]
    /\ live' = Cleared
    /\ UNCHANGED <<poll, starting>>

\* Mutant: a failed scan is polled on.
EndsPolling_ReadyOnly(answer) == answer \in {"ready", "error", "not_found"}

\* The answers on which tick clears the interval
EndsPolling(answer) == answer \in {"ready", "failed", "error", "not_found"}

Receives(c, kind) == calls[c].kind = kind /\ calls[c].answer # "none"

\* The rest of tick when its answer arrives; an error is only shown as a toast.
OnStatus(c) ==
    LET s == calls[c].scan
        answer == calls[c].answer
    IN  /\ Receives(c, "status")
        /\ view' = IF answer \in Statuses THEN Shown(s, answer) ELSE view
        /\ IF answer = "ready"
           THEN OnReady(c)
           ELSE TickEnds(c, IF EndsPolling(answer) THEN Cleared ELSE live)
        /\ cut' = \/ cut
                  \/ answer \notin Statuses
                  \/ EndsPolling(answer) /\ s # scanId /\ poll \in live
        /\ UNCHANGED <<serviceVars, scanId, report, overlapped, create, boundVars>>

\* The rest of loadReport, and of the tick that called it
OnReport(c) ==
    /\ Receives(c, "report")
    /\ report' = IF calls[c].answer = "report" THEN calls[c].scan ELSE report
    /\ TickEnds(c, live)
    /\ cut' = (cut \/ calls[c].answer = "error")
    /\ UNCHANGED <<serviceVars, scanId, view, overlapped, create, boundVars>>

Request(c) == Answer(c) \/ OnStatus(c) \/ OnReport(c)

-----------------------------------------------------------------------------
(* The user. *)

\* createScan, up to its request; the button is disabled until it has come back.
Submit ==
    /\ create = Nothing("none")
    /\ Click
    /\ create' = Nothing("sent")
    /\ UNCHANGED <<serviceVars, displayVars, pollVars, calls, faults>>

\* The rest of createScan: the scan is shown and polled.
OnCreated ==
    /\ create.scan # None
    /\ create' = Nothing("none")
    /\ scanId' = create.scan
    /\ view' = create
    /\ \E i \in Starts : StartPolling(i, create.scan)
    /\ UNCHANGED <<serviceVars, report, boundVars>>

OnRefused ==
    /\ create.status = "refused"
    /\ create' = Nothing("none")
    /\ UNCHANGED <<serviceVars, displayVars, pollVars, calls, boundVars>>

ClickProgress ==
    /\ scanId # None
    /\ Click
    /\ \E i \in Starts : StartPolling(i, scanId)
    /\ UNCHANGED <<serviceVars, displayVars, create, faults>>

ClickReport ==
    /\ scanId # None
    /\ calls[<<None, 1>>] = NoCall
    /\ Click
    /\ calls' = [calls EXCEPT ![<<None, 1>>] = Call("report", scanId)]
    /\ UNCHANGED <<serviceVars, displayVars, pollVars, create, faults>>

\* A new page: scanId alone is kept, and answers to the old one are lost.
Reload ==
    /\ Fault
    /\ view' = Nothing("none")
    /\ report' = None
    /\ poll' = None
    /\ live' = {}
    /\ starting' = {}
    /\ overlapped' = {}
    /\ cut' = TRUE
    /\ calls' = [c \in Senders |-> NoCall]
    /\ create' = Nothing("none")
    /\ UNCHANGED <<serviceVars, scanId, clicks>>

Next ==
    \/ \E c \in Senders : Request(c)
    \/ \E i \in Starts : Fire(i)
    \/ \E s \in Scans : Serve(s)
    \/ AnswerCreate \/ OnCreated \/ OnRefused
    \/ Submit \/ ClickProgress \/ ClickReport \/ Reload

Spec == Init /\ [][Next]_vars

\* Requests are answered, answers are received and intervals fire; nothing is promised
\* of the user or of the service.
FairSpec ==
    /\ Spec
    /\ \A c \in Senders : WF_vars(Request(c))
    /\ \A i \in Starts : WF_vars(Fire(i))

-----------------------------------------------------------------------------
(* Properties. *)

\* A report is shown only of a scan that was paid for and delivered, although it is
\* stored before the scan is ready and may yet fail, and although the page fetches the
\* report of whatever scan it has come to when a tick is answered (get_report, tick).
ShownReportIsDelivered ==
    report # None =>
        phase[report] = "ready" /\ report \in reports /\ report \in settled

\* An interval that state.poll no longer names, so that nothing can stop it
Leaked == live \ {poll}

\* Intervals leak only from calls of startPolling that awaited their first tick at the
\* same time; otherwise clearInterval(state.poll) stops whatever runs, though it is
\* called by ticks of earlier intervals too (startPolling).
LeaksComeFromOverlap == Leaked \subseteq overlapped

Ended(s) == phase[s] \in {"ready", "failed"}

\* The page comes to show the end of the scan it polls, the report or the failure,
\* unless it is given another scan, a request fails, or the answer for an earlier scan
\* stops the polling (tick, loadReport).
EndReachesThePage ==
    \A s \in Scans :
        (scanId = s /\ Ended(s) /\ poll \in live /\ ~cut) ~>
            \/ phase[s] = "ready" /\ report = s
            \/ view = Shown(s, "failed")
            \/ scanId # s
            \/ cut

\* "Stop polling on report_ready or failed": once the scan has ended nothing polls any
\* more, be it after another round, unless an interval has leaked (tick, startPolling).
PollingStops ==
    \A s \in Scans :
        (scanId = s /\ Ended(s)) ~> (live = {} \/ scanId # s \/ Leaked # {})
================================================================================
