--------------------------- MODULE AosRegistration ---------------------------
(***************************************************************************)
(* AosRegistration: decides when a REGISTER is sent, again or at all.  It   *)
(* stands between the application (AosApplication), the Registration of    *)
(* the engine that sends the requests, and the radio (AosTransaction).     *)
(*                                                                         *)
(* All of them run on one thread with one queue of messages, while calls   *)
(* between them are direct.  A handler is an operator from the state of    *)
(* all of them to the next.  An operator that the code gives a result      *)
(* leaves it in the field ok; what the environment decides in a handler    *)
(* (a request that is refused, another P-CSCF to try) is the field luck,   *)
(* chosen with the handler.                                                *)
(*                                                                         *)
(* The registration of type NORMAL, with the retry rules of RFC 5626       *)
(* (AWT_POLICY_RFC_RULE), without IPsec, without the subscription to the   *)
(* reg event package and with the other carrier switches off.              *)
(***************************************************************************)
EXTENDS AosTransaction, FiniteSets, Sequences

CONSTANTS
    CREATE_REG_FAILURE_MAX_COUNT,  \* attempts to restart a failed creation
    MaxQueue,                      \* bound: messages in the queue
    MaxFaults                      \* bound: requests refused before sending

ASSUME AosBounds ==
    {CREATE_REG_FAILURE_MAX_COUNT, MaxQueue, MaxFaults} \subseteq Nat

States == {"OFFLINE", "REGISTERING", "REGSTOP", "REGISTERED", "REFRESHING",
           "REFRESHSTOP", "DEREGISTERING"}
PendingKinds == {"START", "STOP", "TRAFFIC", "TRANSACTION", "UPDATE"}
Timers == {"STOP_RETRY", "OFFLINE_RECOVER", "DEREG_TRAFFIC"}

\* The Registration of the engine: its state, the request it has sent, and
\* the refresh timer, at half of the expiration and then at the rest.
EngineStates == {"CREATED", "INIT", "ACTIVE", "TERMINATED"}
Engines == [state : EngineStates,
            sub : {"IDLE", "REGISTERING", "REFRESHING", "DEREGISTERING"},
            refresh : {"OFF", "HALF", "REST"}]
NoEngine == [state |-> "NONE", sub |-> "IDLE", refresh |-> "OFF"]
NewEngine == [state |-> "CREATED", sub |-> "IDLE", refresh |-> "OFF"]

Results == {"SUCCESS", "TRYING_START", "TRYING_UPDATE", "TRYING_STOP",
            "GENERAL", "INTERNAL", "TERMINATED", "FORBIDDEN",
            "PDN_RECONNECT_WITH_AWT", "PDN_RECONNECT"}
FailureReasons == {"STATUS", "403_408_504", "PERMANENT", "TIMEOUT", "OTHER"}

Messages ==
    [to : {"APP"}, what : {"START", "UPDATE", "STOP", "RECOVER", "ACTIVATED",
                           "DEACTIVATED"}]
    \cup [to : {"REPORT"}, what : Results]
    \cup [to : {"REG"}, what : {"RESTART", "UPDATE"}]
    \cup [to : {"ENGINE"}, what : {"STARTED", "UPDATED", "REMOVED",
                                   "TERMINATED"}]
    \cup [to : {"START_FAILED", "UPDATE_FAILED"}, what : FailureReasons]

FromEngine(m) == m.to \in {"ENGINE", "START_FAILED", "UPDATE_FAILED"}

\* create, send: the code's own checks pass; next: the list of P-CSCFs has
\* another one; retryAfter: the response carried Retry-After.
Lucks == [create : BOOLEAN, send : BOOLEAN, next : BOOLEAN,
          retryAfter : BOOLEAN]
NoLuck == [create |-> FALSE, send |-> FALSE, next |-> FALSE,
           retryAfter |-> FALSE]

Post(s, to, what) == [s EXCEPT !.queue = Append(@, [to |-> to, what |-> what])]
Report(s, result) == Post(s, "REPORT", result)

(***************************************************************************)
(* State, traffic and what holds a transaction back.                       *)
(***************************************************************************)
IsRegTrying(s) == s.state \in {"REGISTERING", "REFRESHING"}
IsRefreshing(s) == s.state \in {"REFRESHING", "REFRESHSTOP"}
IsRegistered(s) == IsRefreshing(s) \/ s.state = "REGISTERED"
IsRetryHeld(s) == s.state \in {"REGSTOP", "REFRESHSTOP"}
IsRetryTimer(s) == s.timers \cap {"STOP_RETRY", "OFFLINE_RECOVER"} # {}
IsAppReady(s) == s.app \in {"CONNECTING", "CONNECTED", "UPDATING"}

HeldBack(s) ==
    s.blocked \/ s.heldByCall \/ s.radioWaiting \/ s.priorityBlocked

Mut_NotForRadio(s) ==   \* mutant of UpdateTransactionStarted
    [s EXCEPT !.started = ~(s.blocked \/ s.heldByCall \/ s.priorityBlocked)]

UpdateTransactionStarted(s) == [s EXCEPT !.started = ~HeldBack(s)]

AddPending(s, kind) == [s EXCEPT !.pending = @ \cup {kind}]
StartTimer(s, timer) == [s EXCEPT !.timers = @ \cup {timer}]
StopTimer(s, timer) == [s EXCEPT !.timers = @ \ {timer}]
Off(s, type) == [s EXCEPT !.txn = StopTraffic(@, type)]

StopDeregTraffic(s) ==
    IF "DEREG_TRAFFIC" \in s.timers
    THEN Off(StopTimer(s, "DEREG_TRAFFIC"), "DEREG")
    ELSE s

\* Leaving the trying states gives the traffic up.
SetState(s, new) ==
    LET a == [s EXCEPT !.state = new]
        b == Off(a, "REG") IN
    CASE s.state = new -> s
      [] s.state # new /\ IsRegTrying(a) -> a
      [] OTHER -> IF s.state = "DEREGISTERING" THEN StopDeregTraffic(b) ELSE b

SetRetryState(s) ==
    SetState(s, IF s.state = "REFRESHSTOP" THEN "REFRESHING"
                                           ELSE "REGISTERING")
SetFailureState(s) ==
    SetState(s, IF s.state = "REFRESHING" THEN "REFRESHSTOP" ELSE "REGSTOP")

ReportTryingState(s) ==
    Report(s, CASE s.state = "REFRESHING" -> "TRYING_UPDATE"
                [] s.state = "DEREGISTERING" -> "TRYING_STOP"
                [] OTHER -> "TRYING_START")

ClearRetryTimers(s) ==
    [s EXCEPT !.timers = @ \ {"STOP_RETRY", "OFFLINE_RECOVER"}]
ClearTimers(s) == StopDeregTraffic(StopTimer(s, "STOP_RETRY"))

\* The messages that no engine object has posted, in their order.
NotFromEngine(queue) ==
    LET kept[i \in 0 .. Len(queue)] ==
            IF i = 0 THEN << >>
            ELSE IF FromEngine(queue[i]) THEN kept[i - 1]
            ELSE Append(kept[i - 1], queue[i])
    IN  kept[Len(queue)]

\* The messages of an engine object go with it.
DestroyEngine(s) ==
    [s EXCEPT !.engine = NoEngine, !.queue = NotFromEngine(@)]

DestroyRegistration(s) ==
    LET a == [s EXCEPT !.pending = {}, !.radioWaiting = FALSE] IN
    DestroyEngine(Off(UpdateTransactionStarted(a), "REG"))

\* DestroyEx differs in what it keeps of the P-CSCFs.
Destroy(s) == SetState(DestroyRegistration(ClearTimers(s)), "OFFLINE")

UnpredictableFailure(s) == Report(Destroy(s), "INTERNAL")

(***************************************************************************)
(* Sending.                                                                *)
(***************************************************************************)
\* Register() of the engine: one request at a time, and not before the
\* response to the first or after the end.
SendRegister(s, restore) ==
    LET e == IF restore THEN NewEngine ELSE s.engine
        ready == s.engine # NoEngine /\ e.sub = "IDLE"
                 /\ e.state \in {"CREATED", "ACTIVE"} IN
    CASE s.engine = NoEngine -> [s EXCEPT !.ok = FALSE]
      [] s.engine # NoEngine /\ ready /\ s.luck.send ->
           [s EXCEPT !.ok = TRUE,
                     !.engine = [e EXCEPT
                         !.state = IF @ = "CREATED" THEN "INIT" ELSE @,
                         !.sub = "REGISTERING"]]
      [] OTHER ->
           [s EXCEPT !.ok = FALSE, !.engine = e,
                     !.faults = IF ready THEN @ + 1 ELSE @]

\* PrepareRegistration destroys the engine object there is.
CreateRegistration(s) ==
    LET a == DestroyEngine(s) IN
    IF s.luck.create
    THEN SendRegister([a EXCEPT !.engine = NewEngine], FALSE)
    ELSE [a EXCEPT !.ok = FALSE, !.faults = @ + 1]

SendDeregister(s) ==
    LET ready == s.engine.state = "ACTIVE" /\ s.engine.sub = "IDLE" IN
    IF ready /\ s.luck.send
    THEN [s EXCEPT !.ok = TRUE, !.engine.sub = "DEREGISTERING"]
    ELSE [s EXCEPT !.ok = FALSE, !.faults = IF ready THEN @ + 1 ELSE @]

\* The transaction may start now, or the radio or its priority is awaited.
CheckRadioReadyAndSetTxnPending(s) ==
    LET t == [s EXCEPT !.txn = StartTraffic(@, "REG")] IN
    CASE ~s.allowed ->
           [AddPending(UpdateTransactionStarted(
                [s EXCEPT !.priorityBlocked = TRUE]), "TRAFFIC")
            EXCEPT !.ok = FALSE]
      [] s.allowed /\ GoesAhead(s.txn, "REG") -> [t EXCEPT !.ok = TRUE]
      [] OTHER ->
           [AddPending(UpdateTransactionStarted(
                [t EXCEPT !.radioWaiting = TRUE]), "TRANSACTION")
            EXCEPT !.ok = FALSE]

Mut_OneMoreTime(s) ==   \* mutant of CreationFailed
    IF s.failures <= CREATE_REG_FAILURE_MAX_COUNT
    THEN Post([s EXCEPT !.failures = @ + 1], "REG", "RESTART")
    ELSE UnpredictableFailure([s EXCEPT !.failures = 0])

\* A registration that could not be created is tried again from the queue.
CreationFailed(s) ==
    IF s.failures < CREATE_REG_FAILURE_MAX_COUNT
    THEN Post([s EXCEPT !.failures = @ + 1], "REG", "RESTART")
    ELSE UnpredictableFailure([s EXCEPT !.failures = 0])

Trying(s) == ReportTryingState(SetState(s, "REGISTERING"))

\* Create the registration anew, and give up at the first failure.
Recreate(s) ==
    LET a == CreateRegistration(s) IN
    IF a.ok THEN Trying(a) ELSE UnpredictableFailure(a)

ProcessReinitiate(s) == Recreate(Destroy(s))

Start(s) ==
    LET a == StopTimer(IF s.state = "OFFLINE" THEN s ELSE Destroy(s),
                       "OFFLINE_RECOVER")
        b == CheckRadioReadyAndSetTxnPending(a)
        c == CreateRegistration(b) IN
    CASE ~a.started -> AddPending(a, "START")
      [] a.started /\ ~b.ok -> b
      [] a.started /\ b.ok /\ ~c.ok -> CreationFailed(c)
      [] OTHER -> Trying([c EXCEPT !.failures = 0])

Mut_NoTimerOnDereg(s) ==   \* mutant of PrepareTrafficForDeregister
    IF s.allowed THEN [s EXCEPT !.txn = StartTraffic(@, "DEREG")]
    ELSE AddPending([s EXCEPT !.priorityBlocked = TRUE], "STOP")

PrepareTrafficForDeregister(s) ==
    IF s.allowed
    THEN StartTimer([s EXCEPT !.txn = StartTraffic(@, "DEREG")],
                    "DEREG_TRAFFIC")
    ELSE AddPending([s EXCEPT !.priorityBlocked = TRUE], "STOP")

ProcessStop(s) ==
    LET a == SendDeregister(s) IN
    IF a.ok
    THEN ReportTryingState(PrepareTrafficForDeregister(
             SetState(a, "DEREGISTERING")))
    ELSE Report(Destroy(a), "SUCCESS")

Stop(s) ==
    CASE s.state \in {"OFFLINE", "REGISTERING", "REGSTOP", "REFRESHING"} ->
           Report(Destroy(s), "SUCCESS")
      [] s.state \in {"REGISTERED", "REFRESHSTOP"} -> ProcessStop(s)
      [] OTHER -> s

\* A failed update during a call waits for the end of the call.
HeldByCall(s) == IsRegistered(s) /\ s.call
HoldByCall(s) ==
    SetState(AddPending(UpdateTransactionStarted(
        [s EXCEPT !.heldByCall = TRUE]), "TRANSACTION"), "REFRESHSTOP")

\* The registration is held back: by the radio, whose traffic is kept, or by
\* something else.
HoldRefresh(s) ==
    IF s.radioWaiting THEN [s EXCEPT !.state = "REFRESHSTOP"]
                      ELSE SetState(s, "REFRESHSTOP")

ProcessReregister(s) ==
    LET a == CheckRadioReadyAndSetTxnPending(s)
        b == SendRegister(a, FALSE) IN
    CASE s.state # "REGISTERED" -> s
      [] s.state = "REGISTERED" /\ ~s.started ->
           SetState(AddPending(s, "TRAFFIC"), "REFRESHSTOP")
      [] s.state = "REGISTERED" /\ s.started /\ ~a.ok -> HoldRefresh(a)
      [] s.state = "REGISTERED" /\ s.started /\ a.ok /\ b.ok ->
           ReportTryingState(SetState(b, "REFRESHING"))
      [] OTHER -> IF HeldByCall(b) THEN HoldByCall(b)
                                   ELSE UnpredictableFailure(b)

ProcessRetryInRegStopped(s, ignoreTimer) ==
    LET a == ClearRetryTimers(s)
        b == CheckRadioReadyAndSetTxnPending(a)
        c == SendRegister(b, s.state = "REGSTOP") IN
    CASE ~IsRetryHeld(s) \/ (~ignoreTimer /\ IsRetryTimer(s)) -> s
      [] IsRetryHeld(s) /\ (ignoreTimer \/ ~IsRetryTimer(s)) ->
           CASE ~a.started -> AddPending(a, "TRAFFIC")
             [] a.started /\ ~b.ok -> b
             [] a.started /\ b.ok /\ ~c.ok -> UnpredictableFailure(c)
             [] OTHER -> ReportTryingState(SetRetryState(c))

Update(s, ignoreTimer, explicit) ==
    CASE IsRetryHeld(s) -> ProcessRetryInRegStopped(s, ignoreTimer)
      [] s.state = "REGISTERED" -> ProcessReregister(s)
      [] IsRegTrying(s) /\ explicit -> AddPending(s, "UPDATE")
      [] OTHER -> s

\* A result has been handled: what was asked for meanwhile comes next.
CheckPending(s) ==
    IF "UPDATE" \in s.pending THEN Post(s, "REG", "UPDATE") ELSE s

ProcessUpdatePending(s) ==
    IF "UPDATE" \in s.pending
    THEN Update([s EXCEPT !.pending = @ \ {"UPDATE"}], FALSE, TRUE)
    ELSE s

ProcessReStart(s) ==
    LET a == Destroy(s) IN
    IF IsAppReady(a) THEN Start(a) ELSE [a EXCEPT !.failures = 0]

(***************************************************************************)
(* What was held back goes on.                                             *)
(***************************************************************************)
RetryPending(s) ==
    LET a == SendRegister(s, s.state # "REFRESHSTOP")
        b == CreateRegistration(s) IN
    CASE IsRetryTimer(s) -> s
      [] ~IsRetryTimer(s) /\ IsRetryHeld(s) ->
           IF a.ok THEN ReportTryingState(SetRetryState(a))
                   ELSE UnpredictableFailure(a)
      [] ~IsRetryTimer(s) /\ s.state = "OFFLINE" ->
           IF b.ok THEN Trying([b EXCEPT !.failures = 0])
                   ELSE CreationFailed(b)
      [] OTHER -> s

ProcessPendingTransaction(s) ==
    LET a == [s EXCEPT !.pending = @ \ {"STOP"}]
        b == [a EXCEPT !.pending = @ \ {"START"}]
        c == [b EXCEPT !.pending = @ \ {"TRAFFIC", "TRANSACTION"}] IN
    CASE "STOP" \in s.pending /\ s.state = "DEREGISTERING" ->
           [StartTimer(a, "DEREG_TRAFFIC")
            EXCEPT !.txn = StartTraffic(@, "DEREG")]
      [] "STOP" \notin s.pending \/ s.state # "DEREGISTERING" ->
           CASE "START" \in a.pending -> Start(b)
             [] "START" \notin a.pending /\ "TRAFFIC" \in a.pending ->
                  IF IsRetryHeld(s) THEN Update(c, TRUE, TRUE) ELSE Start(c)
             [] "START" \notin a.pending /\ "TRAFFIC" \notin a.pending
                  /\ "TRANSACTION" \in a.pending -> RetryPending(c)
             [] OTHER -> a

(***************************************************************************)
(* Failures.                                                               *)
(***************************************************************************)
Mut_StaysTrying(s) ==   \* mutant of AwtRecovery
    Report(StartTimer(s, "STOP_RETRY"), "GENERAL")

\* ProcessAwtRecovery: wait and register again.
AwtRecovery(s) ==
    Report(SetFailureState(StartTimer(s, "STOP_RETRY")), "GENERAL")

\* All P-CSCFs have failed: the data connection is set up anew.
NoPcscfLeft(s) ==
    Report(SetState(s, "REGSTOP"), "PDN_RECONNECT_WITH_AWT")

\* TryNextPcscf: at once.
TryNextPcscf(s) ==
    LET a == SendRegister(Report(SetState(s, "REGSTOP"), "GENERAL"), TRUE) IN
    CASE s.luck.next /\ a.ok -> Trying(a)
      [] s.luck.next /\ ~a.ok -> NoPcscfLeft(a)
      [] OTHER -> NoPcscfLeft(s)

\* ProcessDefaultFlowRecovery_StartWithRfcRule.
StartFailedByStatus(s) ==
    CASE s.luck.retryAfter -> TryNextPcscf(s)
      [] ~s.luck.retryAfter /\ s.luck.next ->
           Report(SetState(StartTimer(s, "STOP_RETRY"), "REGSTOP"), "GENERAL")
      [] OTHER -> NoPcscfLeft(s)

\* ProcessForbiddenFailed, for the codes of RegPermanentErrCode.
PermanentlyFailed(s) == Report(Destroy(s), "FORBIDDEN")

\* ProcessRegRequiredWithAvailableNextPcscf.
RegRequiredWithAvailableNextPcscf(s) ==
    LET a == Destroy(s) IN
    IF s.luck.next
    THEN StartTimer(Report(a, "TRYING_START"), "OFFLINE_RECOVER")
    ELSE Report(a, "PDN_RECONNECT")

Registration_Started(s) ==
    CheckPending(Report(SetState(ClearRetryTimers(s), "REGISTERED"),
                        "SUCCESS"))

Mut_PendingForgotten(s) ==   \* mutant of Registration_Updated
    Report(SetState(ClearRetryTimers(s), "REGISTERED"), "SUCCESS")

Registration_Updated(s) == Registration_Started(s)

Registration_StartFailed(s, reason) ==
    CheckPending(CASE reason = "PERMANENT" -> PermanentlyFailed(s)
                   [] reason \in {"STATUS", "403_408_504"} ->
                        StartFailedByStatus(s)
                   [] reason = "TIMEOUT" -> TryNextPcscf(s)
                   [] OTHER -> AwtRecovery(s))

Registration_UpdateFailed(s, reason) ==
    CheckPending(CASE reason = "OTHER" -> AwtRecovery(s)
                   [] reason # "OTHER" /\ HeldByCall(s) -> HoldByCall(s)
                   [] OTHER ->
                        CASE reason = "PERMANENT" -> PermanentlyFailed(s)
                          [] reason = "403_408_504" -> ProcessReinitiate(s)
                          [] OTHER -> RegRequiredWithAvailableNextPcscf(s))

Registration_Removed(s) ==
    IF s.state = "DEREGISTERING" THEN Report(Destroy(s), "SUCCESS")
                                 ELSE Destroy(s)

\* ProcessRegTerminated: a call keeps the registration for its end.
Registration_Terminated(s) ==
    CASE s.call ->
           AddPending(UpdateTransactionStarted(
               [SetState(ClearTimers(s), "OFFLINE")
                EXCEPT !.heldByCall = TRUE]), "TRANSACTION")
      [] ~s.call /\ IsRetryTimer(s) -> Destroy(s)
      [] OTHER -> Report(Destroy(s), "TERMINATED")

\* The listener of the engine's refresh timer; ok: refresh now.
Registration_RefreshTimerExpired(s) ==
    LET a == CheckRadioReadyAndSetTxnPending(s) IN
    CASE s.state # "REGISTERED" -> [s EXCEPT !.ok = FALSE]
      [] s.state = "REGISTERED" /\ ~s.started ->
           [SetState(AddPending(s, "TRAFFIC"), "REFRESHSTOP")
            EXCEPT !.ok = FALSE]
      [] s.state = "REGISTERED" /\ s.started /\ ~a.started ->
           [HoldRefresh(AddPending(a, "TRANSACTION")) EXCEPT !.ok = FALSE]
      [] OTHER ->
           [ReportTryingState(SetState(a, "REFRESHING")) EXCEPT !.ok = TRUE]

(***************************************************************************)
(* Timers.                                                                 *)
(***************************************************************************)
\* A retry during a call waits for its end.
HeldAtRetry(s) ==
    IF s.call THEN UpdateTransactionStarted([s EXCEPT !.heldByCall = TRUE])
              ELSE s

OfflineRecoverTimerExpired(s) ==
    LET a == HeldAtRetry(StopTimer(s, "OFFLINE_RECOVER"))
        b == CheckRadioReadyAndSetTxnPending(a) IN
    CASE s.state # "OFFLINE" \/ ~IsAppReady(s) ->
           StopTimer(s, "OFFLINE_RECOVER")
      [] s.state = "OFFLINE" /\ IsAppReady(s) ->
           CASE ~a.started -> AddPending(a, "TRAFFIC")
             [] a.started /\ ~b.started -> b
             [] OTHER -> Recreate(b)

StopRetryTimerExpired(s) ==
    LET a == HeldAtRetry(StopTimer(s, "STOP_RETRY"))
        b == CheckRadioReadyAndSetTxnPending(a)
        c == SendRegister(b, b.state # "REFRESHSTOP") IN
    CASE ~IsRetryHeld(s) -> StopTimer(s, "STOP_RETRY")
      [] IsRetryHeld(s) ->
           CASE ~a.started -> AddPending(a, "TRAFFIC")
             [] a.started /\ ~b.started -> b
             [] a.started /\ b.started /\ c.ok ->
                  ReportTryingState(SetRetryState(c))
             [] OTHER -> UnpredictableFailure(c)

DeregTrafficTimerExpired(s) == StopDeregTraffic(s)

(***************************************************************************)
(* What holds transactions back changes.                                   *)
(***************************************************************************)
GoOnIfStarted(s) ==
    IF s.started THEN ProcessPendingTransaction(s) ELSE s

Block_Changed(s) ==
    GoOnIfStarted(UpdateTransactionStarted([s EXCEPT !.blocked = ~@]))

CallTracker_StateChanged(s) ==
    LET a == [s EXCEPT !.call = ~@] IN
    IF ~a.call /\ a.heldByCall
    THEN GoOnIfStarted(UpdateTransactionStarted(
             [a EXCEPT !.heldByCall = FALSE]))
    ELSE a

Transaction_OnConnectionSetupPrepared(s) ==
    IF s.radioWaiting
    THEN GoOnIfStarted(UpdateTransactionStarted(
             [s EXCEPT !.radioWaiting = FALSE]))
    ELSE s

Mut_DeniedStillWaiting(s) ==   \* mutant of Transaction_OnConnectionFailed
    IF s.state = "REFRESHSTOP"
    THEN Off([s EXCEPT !.pending = @ \ {"TRANSACTION"}], "REG")
    ELSE StartTimer(Report(Destroy(s), "TRYING_START"), "OFFLINE_RECOVER")

\* The radio denies access: the registration that is still valid waits, any
\* other begins anew after a while.
Transaction_OnConnectionFailed(s) ==
    IF s.state = "REFRESHSTOP"
    THEN StartTimer(Off(UpdateTransactionStarted(
             [s EXCEPT !.pending = @ \ {"TRANSACTION"},
                       !.radioWaiting = FALSE]), "REG"), "STOP_RETRY")
    ELSE StartTimer(Report(Destroy(s), "TRYING_START"), "OFFLINE_RECOVER")

Transaction_OnTrafficPriorityChanged(s) ==
    LET a == UpdateTransactionStarted([s EXCEPT !.priorityBlocked = FALSE]) IN
    CASE ~s.priorityBlocked \/ ~s.allowed -> s
      [] s.priorityBlocked /\ s.allowed ->
           IF a.started \/ "STOP" \in a.pending
           THEN ProcessPendingTransaction(a)
           ELSE a

\* The radio's answer is told to the registration if it is the type that
\* asked, and again if it has come to wait for it; the listener of
\* de-registration does not care.
ToldOfAnswer(s, prepared) ==
    IF prepared THEN Transaction_OnConnectionSetupPrepared(s)
                ELSE Transaction_OnConnectionFailed(s)

RadioAnswer(s, prepared) ==
    LET a == [s EXCEPT !.txn.asked = FALSE]
        b == IF a.txn.startType # "DEREG" THEN ToldOfAnswer(a, prepared)
                                          ELSE a
        c == IF "REG" \in b.txn.waiting THEN ToldOfAnswer(b, prepared)
                                         ELSE b IN
    [c EXCEPT !.txn = AnswerTold(@)]
=============================================================================
