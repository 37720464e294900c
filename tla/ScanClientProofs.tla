---------------------------- MODULE ScanClientProofs ----------------------------
(***************************************************************************)
(* Proofs about ScanClient, for every set of scans and intervals, any number *)
(* of unanswered requests of one interval, and any number of clicks, faults  *)
(* and reloads: what report the page can show, and which intervals can leak. *)
(***************************************************************************)
EXTENDS ScanClient, TLAPS

\* What the page relies on of the service, here a consequence of ScanLifecycle's steps
ServiceInv ==
    \A s \in Scans :
        /\ phase[s] \in {"paid", "started", "ready", "failed"} => s \in settled
        /\ phase[s] = "ready" => s \in reports

Delivered(s) == s \in Scans /\ phase[s] = "ready"

\* A report shown, or on its way, is of a scan that was ready when it was served.
ReportInv ==
    /\ report # None => Delivered(report)
    /\ \A c \in Senders :
          calls[c].answer = "report" /\ calls[c].scan # None => Delivered(calls[c].scan)

CreateInv == create.scan # None => create.status \in Statuses

\* While a call of startPolling awaits its first tick, an interval that state.poll names
\* was set by a call that overlapped it: the call itself cleared any other.
PollInv ==
    /\ Leaked \subseteq overlapped
    /\ starting # {} /\ poll \in live => poll \in overlapped
    /\ \A i, j \in starting : i # j => i \in overlapped

IInv == TypeOK /\ ServiceInv /\ ReportInv /\ CreateInv /\ PollInv

Service_Steps(s) ==
    \/ Service!Settle({s}) \/ Service!Open(s) \/ Service!Claim(s) \/ Service!Start(s)
    \/ Service!StoreReport(s) \/ Service!Deliver(s) \/ Service!GiveUp(s)

CallType ==
    [kind : {"none", "status", "report"}, scan : Scans \cup {None},
     answer : Statuses \cup {"none", "not_found", "error", "report", "refused"}]

-----------------------------------------------------------------------------
\* A step of the service keeps its types and promises, and a ready scan ready.
LEMMA ServiceKeeps ==
    ASSUME TypeOK, ServiceInv, NEW s \in Scans, Service_Steps(s)
    PROVE  /\ settled' \subseteq Scans
           /\ phase' \in [Scans -> Service!Phases]
           /\ reports' \subseteq Scans
           /\ ServiceInv'
           /\ \A t \in Scans : phase[t] = "ready" => phase'[t] = "ready"
<1> USE DEF TypeOK, ServiceInv, Service!Phases
<1>1. CASE Service!Settle({s}) BY <1>1 DEF Service!Settle
<1>2. CASE Service!Open(s) BY <1>2 DEF Service!Open, Service!Move
<1>3. CASE Service!Claim(s) BY <1>3 DEF Service!Claim, Service!Move
<1>4. CASE Service!Start(s) BY <1>4 DEF Service!Start, Service!Move
<1>5. CASE Service!StoreReport(s) BY <1>5 DEF Service!StoreReport
<1>6. CASE Service!Deliver(s) BY <1>6 DEF Service!Deliver, Service!Move
<1>7. CASE Service!GiveUp(s) BY <1>7 DEF Service!GiveUp, Service!Move
<1> QED BY <1>1, <1>2, <1>3, <1>4, <1>5, <1>6, <1>7 DEF Service_Steps

LEMMA CallTypes ==
    /\ NoCall \in CallType
    /\ \A s \in Scans \cup {None}, k \in {"none", "status", "report"} : Call(k, s) \in CallType
    /\ \A s : Call("status", s).kind # "none" /\ Call("report", s).kind # "none"
    /\ NoCall.answer # "report"
    /\ \A s : Call("status", s).answer # "report" /\ Call("report", s).answer # "report"
BY DEF NoCall, Call, CallType

LEMMA Answers ==
    ASSUME NEW s
    PROVE  /\ GetStatus(s) \in Statuses \cup {"not_found"}
           /\ GetReport(s) \in {"report", "refused"}
           /\ GetStatus(s) # "report"
           /\ GetReport(s) = "report" => phase[s] = "ready"
<1>1. StatusOf(s) \in Statuses /\ (StatusOf(s) = "ready" => phase[s] = "ready")
  BY DEF StatusOf, Statuses
<1>2. GetStatus(s) \in Statuses \cup {"not_found"} /\ (GetStatus(s) = "ready" => phase[s] = "ready")
  BY <1>1 DEF GetStatus
<1>3. GetReport(s) \in {"report", "refused"} /\ (GetReport(s) = "report" => phase[s] = "ready")
  BY <1>2 DEF GetReport
<1> QED BY <1>2, <1>3 DEF Statuses

LEMMA InitEstablishes == Init => IInv
<1> SUFFICES ASSUME Init PROVE IInv OBVIOUS
<1> USE DEF Init
<1>1. TypeOK
  BY CallTypes DEF TypeOK, CallType, Service!Phases, Nothing, Shown, Statuses
<1>2. ServiceInv BY DEF ServiceInv
<1>3. ReportInv BY CallTypes DEF ReportInv
<1>4. CreateInv BY DEF CreateInv, Nothing, Shown
<1>5. PollInv BY DEF PollInv, Leaked
<1> QED BY <1>1, <1>2, <1>3, <1>4, <1>5 DEF IInv

\* Steps that leave the page alone keep what it shows.
LEMMA ReportKeeps ==
    ASSUME ReportInv, \A t \in Scans : phase[t] = "ready" => phase'[t] = "ready",
           UNCHANGED report,
           \A c \in Senders : \/ calls'[c] = calls[c]
                              \/ calls'[c].answer # "report"
                              \/ calls'[c].scan # None => Delivered(calls[c].scan)'
    PROVE  ReportInv'
BY DEF ReportInv, Delivered

LEMMA AnswerKeeps ==
    ASSUME IInv, NEW c \in Senders, Answer(c)
    PROVE  IInv'
<1> USE DEF IInv
<1> DEFINE answer == IF calls[c].kind = "status" THEN GetStatus(calls[c].scan)
                                                 ELSE GetReport(calls[c].scan)
<1>1. calls \in [Senders -> CallType] BY DEF TypeOK, CallType
<1>2. \E a : /\ calls' = [calls EXCEPT ![c].answer = a]
             /\ a \in Statuses \cup {"none", "not_found", "error", "report", "refused"}
             /\ a = "report" => phase[calls[c].scan] = "ready"
  <2>1. /\ answer \in Statuses \cup {"not_found", "report", "refused"}
        /\ answer = "report" => phase[calls[c].scan] = "ready"
    BY Answers DEF Statuses
  <2> HIDE DEF answer
  <2>2. CASE calls' = [calls EXCEPT ![c].answer = answer] BY <2>1, <2>2
  <2>3. CASE calls' = [calls EXCEPT ![c].answer = "error"]
    <3>1. "error" # "report" OBVIOUS
    <3> WITNESS "error"
    <3> QED BY <2>3, <3>1
  <2>4. \/ calls' = [calls EXCEPT ![c].answer = answer]
        \/ calls' = [calls EXCEPT ![c].answer = "error"]
    BY DEF Answer, answer
  <2> QED BY <2>2, <2>3, <2>4
<1>3. /\ calls' \in [Senders -> CallType]
      /\ \A d \in Senders : calls'[d].kind = calls[d].kind /\ calls'[d].scan = calls[d].scan
      /\ \A d \in Senders : calls'[d] = calls[d] \/
            (calls'[d].answer = "report" => phase[calls[d].scan] = "ready")
  BY <1>1, <1>2 DEF CallType
<1>4. \A i \in starting : <<i, 1>> \in Senders
  BY ClientAssumption DEF TypeOK, Senders
<1>5. TypeOK'
  <2>1. faults' \in Nat BY DEF Answer, Fault, TypeOK
  <2>2. \A i \in starting' : calls'[<<i, 1>>].kind # "none"
    BY <1>3, <1>4 DEF Answer, TypeOK, pollVars
  <2> QED BY <1>3, <2>1, <2>2 DEF Answer, TypeOK, CallType, serviceVars, displayVars, pollVars
<1>6. ReportInv'
  <2>1. UNCHANGED <<phase, report>> BY DEF Answer, serviceVars, displayVars
  <2>2. \A d \in Senders : calls[d].scan \in Scans \cup {None} BY <1>1 DEF CallType
  <2>3. \A d \in Senders : \/ calls'[d] = calls[d]
                           \/ calls'[d].answer # "report"
                           \/ calls'[d].scan # None => Delivered(calls[d].scan)'
    BY <1>3, <2>1, <2>2 DEF Delivered
  <2> QED BY <2>1, <2>3, ReportKeeps
<1>7. (ServiceInv /\ CreateInv /\ PollInv)'
  BY DEF ServiceInv, CreateInv, PollInv, Leaked, Answer, serviceVars, displayVars, pollVars
<1> QED BY <1>5, <1>6, <1>7

LEMMA AnswerCreateKeeps ==
    ASSUME IInv, AnswerCreate
    PROVE  IInv'
<1> USE DEF IInv
<1>1. /\ settled' \subseteq Scans
      /\ phase' \in [Scans -> Service!Phases]
      /\ reports' \subseteq Scans
      /\ ServiceInv'
      /\ \A t \in Scans : phase[t] = "ready" => phase'[t] = "ready"
  <2>1. ASSUME NEW s \in Scans, Service!Open(s)
        PROVE  <1>1!1 /\ <1>1!2 /\ <1>1!3 /\ <1>1!4 /\ <1>1!5
    BY <2>1, ServiceKeeps DEF Service_Steps
  <2>2. CASE UNCHANGED serviceVars BY <2>2 DEF TypeOK, ServiceInv, serviceVars
  <2> QED BY <2>1, <2>2 DEF AnswerCreate
<1>2. create' \in {Shown(s, x) : s \in Scans, x \in Statuses} \cup {Nothing("refused")}
  BY DEF AnswerCreate, StatusOf, Statuses
<1>3. faults' \in Nat BY DEF AnswerCreate, Fault, TypeOK
<1>4. TypeOK'
  BY <1>1, <1>2, <1>3 DEF TypeOK, AnswerCreate, Shown, Nothing, displayVars, pollVars
<1>5. ReportInv' BY <1>1, ReportKeeps DEF AnswerCreate, displayVars
<1>6. CreateInv' BY <1>2 DEF CreateInv, Shown, Nothing
<1>7. PollInv' BY DEF PollInv, Leaked, AnswerCreate, pollVars
<1> QED BY <1>1, <1>4, <1>5, <1>6, <1>7

LEMMA ServeKeeps ==
    ASSUME IInv, NEW s \in Scans, Serve(s)
    PROVE  IInv'
<1> USE DEF IInv
<1>1. Service_Steps(s) BY DEF Serve, Service_Steps
<1>2. TypeOK' BY <1>1, ServiceKeeps DEF TypeOK, Serve, displayVars, pollVars, boundVars
<1>3. ReportInv' BY <1>1, ServiceKeeps, ReportKeeps DEF Serve, displayVars
<1>4. ServiceInv' BY <1>1, ServiceKeeps
<1>5. (CreateInv /\ PollInv)' BY DEF CreateInv, PollInv, Leaked, Serve, pollVars
<1> QED BY <1>2, <1>3, <1>4, <1>5

-----------------------------------------------------------------------------
\* One call of calls is replaced.
LEMMA Replaced ==
    ASSUME TypeOK, NEW c \in Senders, NEW new \in CallType,
           calls' = [calls EXCEPT ![c] = new]
    PROVE  /\ calls' \in [Senders -> CallType]
           /\ calls'[c] = new
           /\ \A d \in Senders : d # c => calls'[d] = calls[d]
BY DEF TypeOK, CallType

LEMMA SenderOfStart ==
    ASSUME NEW i \in Starts
    PROVE  <<i, 1>> \in Senders
BY ClientAssumption DEF Senders

\* What startPolling leaves of the intervals, and its first request
LEMMA StartPollingKeeps ==
    ASSUME TypeOK, PollInv, NEW i \in Starts, NEW s \in Scans \cup {None}, StartPolling(i, s)
    PROVE  /\ live' \subseteq Starts
           /\ starting' \subseteq Starts \ live'
           /\ overlapped' \subseteq Starts
           /\ poll' \in Starts \cup {None}
           /\ cut' \in BOOLEAN
           /\ calls' \in [Senders -> CallType]
           /\ \A j \in starting' : calls'[<<j, 1>>].kind # "none"
           /\ \A c \in Senders : calls'[c] = calls[c] \/ calls'[c].answer # "report"
           /\ PollInv'
<1> USE DEF StartPolling
<1>1. Call("status", s) \in CallType BY CallTypes
<1>2. /\ calls' \in [Senders -> CallType]
      /\ calls'[<<i, 1>>] = Call("status", s)
      /\ \A d \in Senders : d # <<i, 1>> => calls'[d] = calls[d]
  BY <1>1, Replaced, SenderOfStart
<1>3. \A j \in starting' : calls'[<<j, 1>>].kind # "none"
  BY <1>2, CallTypes, SenderOfStart DEF TypeOK
<1>4. \A c \in Senders : calls'[c] = calls[c] \/ calls'[c].answer # "report"
  BY <1>2, CallTypes
<1>5. PollInv' BY DEF PollInv, Leaked, Cleared, Free, TypeOK
<1> QED BY <1>2, <1>3, <1>4, <1>5 DEF TypeOK, Cleared, Free

\* What the end of a tick leaves of them; running is what its answer left running.
LEMMA TickEndsKeeps ==
    ASSUME TypeOK, PollInv, NEW c \in Senders, NEW running \in {live, Cleared},
           TickEnds(c, running), UNCHANGED overlapped
    PROVE  /\ live' \subseteq Starts
           /\ starting' \subseteq Starts \ live'
           /\ poll' \in Starts \cup {None}
           /\ calls' \in [Senders -> CallType]
           /\ \A j \in starting' : calls'[<<j, 1>>].kind # "none"
           /\ \A d \in Senders : calls'[d] = calls[d] \/ calls'[d].answer # "report"
           /\ PollInv'
<1> USE DEF TickEnds
<1>1. /\ calls' \in [Senders -> CallType]
      /\ calls'[c] = NoCall
      /\ \A d \in Senders : d # c => calls'[d] = calls[d]
  BY CallTypes, Replaced
<1>2. \A j \in starting' : calls'[<<j, 1>>].kind # "none"
  <2> SUFFICES ASSUME NEW j \in starting' PROVE calls'[<<j, 1>>].kind # "none" OBVIOUS
  <2>1. j \in starting /\ j # c[1] /\ j \in Starts BY DEF TypeOK
  <2>2. <<j, 1>> # c BY <2>1
  <2> QED BY <1>1, <2>1, <2>2, SenderOfStart DEF TypeOK
<1>3. \A d \in Senders : calls'[d] = calls[d] \/ calls'[d].answer # "report"
  BY <1>1, CallTypes
<1>4. PollInv'
  <2>1. running \subseteq live BY DEF Cleared
  <2>2. CASE c[1] \in starting
    <3>1. poll' = c[1] /\ live' = running \cup {c[1]} /\ starting' = starting \ {c[1]}
      BY <2>2
    <3>2. Leaked' \subseteq overlapped BY <3>1, <2>1, <2>2 DEF PollInv, Leaked
    <3> QED BY <3>1, <3>2, <2>2 DEF PollInv
  <2>3. CASE c[1] \notin starting
    <3>1. poll' = poll /\ live' = running /\ starting' = starting BY <2>3
    <3> QED BY <3>1, <2>1 DEF PollInv, Leaked
  <2> QED BY <2>2, <2>3
<1> QED BY <1>1, <1>2, <1>3, <1>4 DEF TypeOK, Cleared

LEMMA OnStatusKeeps ==
    ASSUME IInv, NEW c \in Senders, OnStatus(c)
    PROVE  IInv'
<1> USE DEF IInv
<1>1. calls[c] \in CallType BY DEF TypeOK, CallType
<1>2. view' \in [scan : Scans \cup {None}, status : Statuses \cup {"none"}]
  BY <1>1 DEF OnStatus, Shown, CallType, TypeOK
<1>3. cut' \in BOOLEAN BY DEF OnStatus
<1>4. /\ live' \subseteq Starts
      /\ starting' \subseteq Starts \ live'
      /\ poll' \in Starts \cup {None}
      /\ calls' \in [Senders -> CallType]
      /\ \A j \in starting' : calls'[<<j, 1>>].kind # "none"
      /\ \A d \in Senders : calls'[d] = calls[d] \/ calls'[d].answer # "report"
      /\ PollInv'
  <2>1. CASE OnReady(c)
    <3>1. Call("report", scanId) \in CallType BY CallTypes DEF TypeOK
    <3>2. /\ calls' \in [Senders -> CallType]
          /\ calls'[c] = Call("report", scanId)
          /\ \A d \in Senders : d # c => calls'[d] = calls[d]
      BY <2>1, <3>1, Replaced DEF OnReady
    <3>3. \A j \in starting' : calls'[<<j, 1>>].kind # "none"
      BY <2>1, <3>2, CallTypes, SenderOfStart DEF OnReady, TypeOK
    <3>4. \A d \in Senders : calls'[d] = calls[d] \/ calls'[d].answer # "report"
      BY <3>2, CallTypes
    <3>5. PollInv' BY <2>1 DEF PollInv, Leaked, OnReady, Cleared, OnStatus
    <3> QED BY <2>1, <3>2, <3>3, <3>4, <3>5 DEF OnReady, TypeOK, Cleared
  <2>2. CASE TickEnds(c, Cleared) \/ TickEnds(c, live)
    BY <2>2, TickEndsKeeps DEF OnStatus
  <2> QED BY <2>1, <2>2 DEF OnStatus
<1>5. TypeOK'
  BY <1>2, <1>3, <1>4 DEF TypeOK, OnStatus, CallType, serviceVars, boundVars
<1>6. ReportInv' BY <1>4, ReportKeeps DEF OnStatus, serviceVars
<1>7. (ServiceInv /\ CreateInv)' BY DEF ServiceInv, CreateInv, OnStatus, serviceVars
<1> QED BY <1>4, <1>5, <1>6, <1>7

LEMMA OnReportKeeps ==
    ASSUME IInv, NEW c \in Senders, OnReport(c)
    PROVE  IInv'
<1> USE DEF IInv
<1>1. calls[c].scan \in Scans \cup {None} BY DEF TypeOK
<1>2. report' \in Scans \cup {None} BY <1>1 DEF OnReport, TypeOK
<1>3. cut' \in BOOLEAN BY DEF OnReport, TypeOK
<1>4. /\ live' \subseteq Starts
      /\ starting' \subseteq Starts \ live'
      /\ poll' \in Starts \cup {None}
      /\ calls' \in [Senders -> CallType]
      /\ \A j \in starting' : calls'[<<j, 1>>].kind # "none"
      /\ \A d \in Senders : calls'[d] = calls[d] \/ calls'[d].answer # "report"
      /\ PollInv'
  BY TickEndsKeeps DEF OnReport
<1>5. TypeOK'
  BY <1>2, <1>3, <1>4 DEF TypeOK, OnReport, CallType, serviceVars, boundVars
<1>6. ReportInv'
  <2>1. UNCHANGED phase BY DEF OnReport, serviceVars
  <2>2. report' # None => Delivered(report')
    BY DEF OnReport, ReportInv
  <2> QED BY <1>4, <2>1, <2>2 DEF ReportInv, Delivered
<1>7. (ServiceInv /\ CreateInv)' BY DEF ServiceInv, CreateInv, OnReport, serviceVars
<1> QED BY <1>4, <1>5, <1>6, <1>7

-----------------------------------------------------------------------------
LEMMA FireKeeps ==
    ASSUME IInv, NEW i \in Starts, Fire(i)
    PROVE  IInv'
<1> USE DEF IInv
<1>1. PICK k \in Slots : calls' = [calls EXCEPT ![<<i, k>>] = Call("status", scanId)]
  BY DEF Fire
<1>2. <<i, k>> \in Senders /\ Call("status", scanId) \in CallType
  BY CallTypes DEF Senders, TypeOK
<1>3. /\ calls' \in [Senders -> CallType]
      /\ calls'[<<i, k>>] = Call("status", scanId)
      /\ \A d \in Senders : d # <<i, k>> => calls'[d] = calls[d]
  BY <1>1, <1>2, Replaced
<1>4. \A j \in starting' : calls'[<<j, 1>>].kind # "none"
  BY <1>3, CallTypes, SenderOfStart DEF TypeOK, Fire, pollVars
<1>5. TypeOK'
  BY <1>3, <1>4 DEF TypeOK, Fire, CallType, serviceVars, displayVars, pollVars, boundVars
<1>6. ReportInv'
  BY <1>3, CallTypes, ReportKeeps DEF Fire, serviceVars, displayVars
<1>7. (ServiceInv /\ CreateInv /\ PollInv)'
  BY DEF ServiceInv, CreateInv, PollInv, Leaked, Fire, serviceVars, pollVars
<1> QED BY <1>5, <1>6, <1>7

LEMMA UserKeeps ==
    ASSUME IInv, Submit \/ OnRefused \/ ClickReport
    PROVE  IInv'
<1> USE DEF IInv
<1>1. CASE Submit \/ OnRefused
  <2>1. create' \in {Nothing("sent"), Nothing("none")} BY <1>1 DEF Submit, OnRefused
  <2>2. clicks' \in Nat /\ UNCHANGED <<serviceVars, displayVars, pollVars, calls, faults>>
    BY <1>1 DEF Submit, OnRefused, Click, TypeOK, boundVars
  <2>3. TypeOK'
    BY <2>1, <2>2 DEF TypeOK, Nothing, Shown, serviceVars, displayVars, pollVars
  <2>4. CreateInv' BY <2>1 DEF CreateInv, Nothing, Shown
  <2>5. ReportInv' BY <2>2, ReportKeeps DEF serviceVars, displayVars
  <2>6. (ServiceInv /\ PollInv)' BY <2>2 DEF ServiceInv, PollInv, Leaked, serviceVars, pollVars
  <2> QED BY <2>3, <2>4, <2>5, <2>6
<1>2. CASE ClickReport
  <2>1. <<None, 1>> \in Senders /\ Call("report", scanId) \in CallType
    BY CallTypes DEF Senders, TypeOK
  <2>2. /\ calls' \in [Senders -> CallType]
        /\ calls'[<<None, 1>>] = Call("report", scanId)
        /\ \A d \in Senders : d # <<None, 1>> => calls'[d] = calls[d]
    BY <1>2, <2>1, Replaced DEF ClickReport
  <2>3. \A j \in starting' : calls'[<<j, 1>>].kind # "none"
    BY <1>2, <2>2, CallTypes, SenderOfStart DEF TypeOK, ClickReport, pollVars
  <2>4. clicks' \in Nat BY <1>2 DEF ClickReport, Click, TypeOK
  <2>5. TypeOK'
    BY <1>2, <2>2, <2>3, <2>4 DEF TypeOK, ClickReport, CallType, serviceVars, displayVars,
                                  pollVars
  <2>6. ReportInv'
    BY <1>2, <2>2, CallTypes, ReportKeeps DEF ClickReport, serviceVars, displayVars
  <2>7. (ServiceInv /\ CreateInv /\ PollInv)'
    BY <1>2 DEF ServiceInv, CreateInv, PollInv, Leaked, ClickReport, serviceVars, pollVars
  <2> QED BY <2>5, <2>6, <2>7
<1> QED BY <1>1, <1>2

LEMMA ShowKeeps ==
    ASSUME IInv, OnCreated \/ ClickProgress
    PROVE  IInv'
<1> USE DEF IInv
<1>1. CASE OnCreated
  <2>1. PICK i \in Starts : StartPolling(i, create.scan) BY <1>1 DEF OnCreated
  <2>2. create.scan \in Scans /\ create.status \in Statuses
    BY <1>1 DEF OnCreated, TypeOK, CreateInv
  <2>3. /\ scanId' \in Scans \cup {None}
        /\ view' \in [scan : Scans \cup {None}, status : Statuses \cup {"none"}]
        /\ create' = Nothing("none")
    <3>1. create = [scan |-> create.scan, status |-> create.status] BY DEF TypeOK
    <3> QED BY <1>1, <2>2, <3>1 DEF OnCreated
  <2>4. TypeOK'
    BY <1>1, <2>1, <2>2, <2>3, StartPollingKeeps
    DEF TypeOK, OnCreated, CallType, Nothing, Shown, serviceVars, boundVars
  <2>5. ReportInv'
    BY <1>1, <2>1, <2>2, StartPollingKeeps, ReportKeeps DEF OnCreated, serviceVars
  <2>6. CreateInv' BY <2>3 DEF CreateInv, Nothing, Shown
  <2>7. PollInv' BY <2>1, <2>2, StartPollingKeeps
  <2>8. ServiceInv' BY <1>1 DEF ServiceInv, OnCreated, serviceVars
  <2> QED BY <2>4, <2>5, <2>6, <2>7, <2>8
<1>2. CASE ClickProgress
  <2>1. PICK i \in Starts : StartPolling(i, scanId) BY <1>2 DEF ClickProgress
  <2>2. scanId \in Scans \cup {None} BY DEF TypeOK
  <2>3. clicks' \in Nat BY <1>2 DEF ClickProgress, Click, TypeOK
  <2>4. TypeOK'
    BY <1>2, <2>1, <2>2, <2>3, StartPollingKeeps
    DEF TypeOK, ClickProgress, CallType, serviceVars, displayVars
  <2>5. ReportInv'
    BY <1>2, <2>1, <2>2, StartPollingKeeps, ReportKeeps
    DEF ClickProgress, serviceVars, displayVars
  <2>6. PollInv' BY <2>1, <2>2, StartPollingKeeps
  <2>7. (ServiceInv /\ CreateInv)' BY <1>2 DEF ServiceInv, CreateInv, ClickProgress, serviceVars
  <2> QED BY <2>4, <2>5, <2>6, <2>7
<1> QED BY <1>1, <1>2

LEMMA ReloadKeeps ==
    ASSUME IInv, Reload
    PROVE  IInv'
<1> USE DEF IInv
<1>1. faults' \in Nat BY DEF Reload, Fault, TypeOK
<1>2. calls' \in [Senders -> CallType] BY CallTypes DEF Reload
<1>3. TypeOK'
  BY <1>1, <1>2 DEF TypeOK, Reload, CallType, Nothing, Shown, Statuses, serviceVars
<1>4. ReportInv' BY CallTypes DEF ReportInv, Reload
<1>5. (ServiceInv /\ CreateInv /\ PollInv)'
  BY DEF ServiceInv, CreateInv, PollInv, Leaked, Reload, Nothing, Shown, serviceVars
<1> QED BY <1>3, <1>4, <1>5

LEMMA StepKeeps == IInv /\ [Next]_vars => IInv'
<1> SUFFICES ASSUME IInv, [Next]_vars PROVE IInv' OBVIOUS
<1>1. ASSUME NEW c \in Senders, Request(c) PROVE IInv'
  BY <1>1, AnswerKeeps, OnStatusKeeps, OnReportKeeps DEF Request
<1>2. ASSUME NEW i \in Starts, Fire(i) PROVE IInv' BY <1>2, FireKeeps
<1>3. ASSUME NEW s \in Scans, Serve(s) PROVE IInv' BY <1>3, ServeKeeps
<1>4. CASE AnswerCreate BY <1>4, AnswerCreateKeeps
<1>5. CASE OnCreated \/ ClickProgress BY <1>5, ShowKeeps
<1>6. CASE Submit \/ OnRefused \/ ClickReport BY <1>6, UserKeeps
<1>7. CASE Reload BY <1>7, ReloadKeeps
<1>8. CASE UNCHANGED vars
  BY <1>8 DEF IInv, TypeOK, ServiceInv, ReportInv, Delivered, CreateInv, PollInv, Leaked,
              vars, serviceVars, displayVars, pollVars, boundVars
<1> QED BY <1>1, <1>2, <1>3, <1>4, <1>5, <1>6, <1>7, <1>8 DEF Next

-----------------------------------------------------------------------------
\* The inductive invariant holds in every state of every instance.
THEOREM Invariance == Spec => []IInv
BY InitEstablishes, StepKeeps, PTL DEF Spec

\* The page and its requests keep their types, and no interval is set before the call
\* that sets it has had its first answer (startPolling).
THEOREM TypeCorrect == Spec => []TypeOK
<1>1. IInv => TypeOK BY DEF IInv
<1> QED BY <1>1, Invariance, PTL

\* Whatever order answers come in and however often the page moves on, a report it shows
\* is that of a scan that was paid for and delivered (get_report, tick).
THEOREM ShownReportIsDeliveredHolds == Spec => []ShownReportIsDelivered
<1>1. IInv => ShownReportIsDelivered
  BY DEF IInv, ReportInv, Delivered, ServiceInv, ShownReportIsDelivered
<1> QED BY <1>1, Invariance, PTL

\* Only overlapping calls of startPolling leak an interval, however many intervals there
\* are and however many requests each has under way (startPolling).
THEOREM LeaksComeFromOverlapHolds == Spec => []LeaksComeFromOverlap
<1>1. IInv => LeaksComeFromOverlap BY DEF IInv, PollInv, LeaksComeFromOverlap
<1> QED BY <1>1, Invariance, PTL
================================================================================
