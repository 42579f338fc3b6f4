--------------------------- MODULE AosApplication ---------------------------
(***************************************************************************)
(* AosApplication above AosRegistration: the states of the access to IMS,  *)
(* the messages of the one thread both run on, and the actors around them: *)
(* the engine's Registration, the radio, the connector of the data         *)
(* connection, the block conditions, calls and the services' requests.     *)
(*                                                                         *)
(* The connector, the conditions and the engine are external: they are     *)
(* modelled by what the code here is told of them.                         *)
(***************************************************************************)
EXTENDS AosRegistration

CONSTANTS
    MaxEvents,   \* bound: requests of services, blocks, calls, ...
    Events       \* which of EventKinds may happen

EventKinds == {"Start", "Update", "Stop", "Recover", "Deactivated", "Block",
               "Call", "Priority", "Denied"}

ASSUME AosEvents == MaxEvents \in Nat /\ Events \subseteq EventKinds

VARIABLE aos

AppStates == {"NOTREADY", "READY", "CONNECTING", "CONNECTED", "UPDATING",
              "DISCONNECTING"}

Init ==
    aos = [app |-> "READY", recoveryHeld |-> FALSE, connected |-> FALSE,
           state |-> "OFFLINE", pending |-> {}, timers |-> {},
           started |-> TRUE, blocked |-> FALSE, heldByCall |-> FALSE,
           radioWaiting |-> FALSE, priorityBlocked |-> FALSE,
           call |-> FALSE, allowed |-> TRUE, failures |-> 0,
           engine |-> NoEngine, txn |-> NoTraffic, queue |-> << >>,
           events |-> 0, faults |-> 0, ok |-> FALSE, luck |-> NoLuck]

(***************************************************************************)
(* Messages to the application.                                            *)
(***************************************************************************)
SetAppState(s, new) == [s EXCEPT !.app = new]

CleanAll(s) ==
    Destroy([s EXCEPT !.app = "NOTREADY", !.recoveryHeld = FALSE])

\* The connector tells its end at once; an application that is not ready
\* does not listen.
StopConnector(s) ==
    LET a == [s EXCEPT !.connected = FALSE] IN
    IF s.app = "NOTREADY" THEN a ELSE Post(a, "APP", "DEACTIVATED")

ProcessRegStop(s) ==
    CASE s.app # "DISCONNECTING" -> CleanAll(s)
      [] s.app = "DISCONNECTING" /\ s.state = "DEREGISTERING" -> s
      [] OTHER -> Stop(s)

\* A call holds the recovery back until it ends.
ProcessRegRecovery(s) ==
    CASE s.call -> [s EXCEPT !.recoveryHeld = TRUE]
      [] ~s.call /\ IsAppReady(s) ->
           Start(SetAppState(CleanAll(s), "CONNECTING"))
      [] OTHER -> s

OnConnection(s, what) ==
    CASE what = "ACTIVATED" /\ s.app = "READY" ->
           Start(SetAppState(s, "CONNECTING"))
      [] what = "DEACTIVATED"
         /\ s.app \in {"CONNECTING", "CONNECTED", "UPDATING",
                       "DISCONNECTING"} -> CleanAll(s)
      [] OTHER -> s

OnRequest(s, what) ==
    CASE what = "START" -> IF IsAppReady(s) THEN Start(s) ELSE s
      [] what = "UPDATE" ->
           IF IsAppReady(s) THEN Update(s, FALSE, TRUE) ELSE s
      [] what = "STOP" -> ProcessRegStop(s)
      [] what = "RECOVER" -> ProcessRegRecovery(s)
      [] OTHER -> OnConnection(s, what)

ProcessRegTrying(s, result) ==
    CASE s.app \in {"CONNECTED", "UPDATING"} /\ result = "TRYING_START" ->
           SetAppState(s, "CONNECTING")
      [] s.app = "CONNECTED" /\ result = "TRYING_UPDATE" ->
           SetAppState(s, "UPDATING")
      [] s.app \in {"CONNECTED", "UPDATING"} /\ result = "TRYING_STOP" ->
           SetAppState(s, "DISCONNECTING")
      [] OTHER -> s

\* ProcessRegFailed_Terminated: during a call the recovery waits.
ProcessRegFailed_Terminated(s) ==
    IF s.call /\ s.app # "CONNECTING"
    THEN [SetAppState(s, "CONNECTING") EXCEPT !.recoveryHeld = TRUE]
    ELSE CleanAll(s)

ProcessRegFailed(s, result) ==
    CASE result = "INTERNAL" -> CleanAll(s)
      [] result = "TERMINATED" -> ProcessRegFailed_Terminated(s)
      [] result \in {"PDN_RECONNECT", "PDN_RECONNECT_WITH_AWT"} ->
           StopConnector(s)
      [] result = "FORBIDDEN" ->
           IF s.app = "CONNECTED" THEN s ELSE CleanAll(s)
      [] OTHER ->
           IF s.app = "UPDATING" /\ ~IsRefreshing(s)
           THEN SetAppState(s, "CONNECTING") ELSE s

OnReport(s, result) ==
    CASE s.app \in {"NOTREADY", "READY"} -> s
      [] s.app = "DISCONNECTING" ->
           IF result \in {"TRYING_START", "TRYING_UPDATE", "TRYING_STOP"}
           THEN s ELSE CleanAll(s)
      [] s.app \in {"CONNECTING", "CONNECTED", "UPDATING"} ->
           CASE result = "SUCCESS" -> SetAppState(s, "CONNECTED")
             [] result \in {"TRYING_START", "TRYING_UPDATE", "TRYING_STOP"} ->
                  ProcessRegTrying(s, result)
             [] OTHER -> ProcessRegFailed(s, result)

(***************************************************************************)
(* Steps.                                                                  *)
(***************************************************************************)
\* Every handler ends with the choices made for it forgotten.
Handled(s) == aos' = [s EXCEPT !.ok = FALSE, !.luck = NoLuck]

\* The code's own checks may fail as often as MaxFaults says.
WithLuck(s) ==
    {[s EXCEPT !.luck = l] :
        l \in {l \in Lucks : s.faults < MaxFaults \/ (l.create /\ l.send)}}

Disturb(kind) == kind \in Events /\ aos.events < MaxEvents
Disturbed(s) == [s EXCEPT !.events = @ + 1]

HeadIs(to) == aos.queue # << >> /\ Head(aos.queue).to \in to
Taken(s) == [s EXCEPT !.queue = Tail(@)]

ApplicationRequest ==
    /\ HeadIs({"APP"})
    /\ \E s \in WithLuck(aos) :
          Handled(OnRequest(Taken(s), Head(s.queue).what))

RegistrationReport ==
    /\ HeadIs({"REPORT"})
    /\ Handled(OnReport(Taken(aos), Head(aos.queue).what))

RegistrationMessage ==
    /\ HeadIs({"REG"})
    /\ \E s \in WithLuck(aos) :
          Handled(IF Head(s.queue).what = "RESTART"
                  THEN ProcessReStart(Taken(s))
                  ELSE ProcessUpdatePending(Taken(s)))

EngineSucceeded(s, what) ==
    CASE what = "STARTED" -> Registration_Started(s)
      [] what = "UPDATED" -> Registration_Updated(s)
      [] what = "REMOVED" -> Registration_Removed(s)
      [] OTHER -> Registration_Terminated(s)

EngineMessage ==
    /\ HeadIs({"ENGINE", "START_FAILED", "UPDATE_FAILED"})
    /\ \E s \in WithLuck(aos) :
          LET m == Head(s.queue) IN
          Handled(CASE m.to = "ENGINE" -> EngineSucceeded(Taken(s), m.what)
                    [] m.to = "START_FAILED" ->
                         Registration_StartFailed(Taken(s), m.what)
                    [] OTHER -> Registration_UpdateFailed(Taken(s), m.what))

\* CallListener: the message for a request that ended with success or why.
CallListener(s, before, success, reason) ==
    CASE before.state = "INIT" ->
           IF success THEN Post(s, "ENGINE", "STARTED")
                      ELSE Post(s, "START_FAILED", reason)
      [] before.state = "ACTIVE" /\ before.sub = "DEREGISTERING" ->
           Post(s, "ENGINE", "REMOVED")
      [] before.state = "ACTIVE" /\ before.sub # "DEREGISTERING" ->
           IF success THEN Post(s, "ENGINE", "UPDATED")
                      ELSE Post(s, "UPDATE_FAILED", reason)
      [] OTHER -> s

\* A response with the bindings of this client.
RegisterSucceeds ==
    /\ aos.engine.sub \in {"REGISTERING", "REFRESHING"}
    /\ Handled(CallListener(
           [aos EXCEPT !.engine = [state |-> "ACTIVE", sub |-> "IDLE",
                                   refresh |-> "HALF"]],
           aos.engine, TRUE, "OTHER"))

\* A response without them: OTHER.  A failure status: the reasons between.
\* A timeout, or an error of the transport (OTHER again).
RegisterFails ==
    /\ aos.engine.sub \in {"REGISTERING", "REFRESHING"}
    /\ \E reason \in FailureReasons, response \in BOOLEAN :
          LET e == aos.engine
              gone == reason = "OTHER" /\ response IN
          /\ reason = "TIMEOUT" => ~response
          /\ reason \in {"STATUS", "403_408_504", "PERMANENT"} => response
          /\ Handled(CallListener(
                 [aos EXCEPT !.engine =
                     [e EXCEPT !.sub = "IDLE",
                               !.refresh = IF gone THEN "OFF" ELSE @,
                               !.state = CASE @ = "INIT" /\ response ->
                                                "CREATED"
                                           [] @ # "INIT" /\ gone ->
                                                "TERMINATED"
                                           [] OTHER -> @]],
                 e, FALSE, reason))

\* A failure status leaves the bindings, anything else ends them.
DeregisterEnds ==
    /\ aos.engine.sub = "DEREGISTERING"
    /\ \E refused \in BOOLEAN :
          Handled(CallListener(
              [aos EXCEPT !.engine.sub = "IDLE",
                          !.engine.state = IF refused THEN @
                                                      ELSE "TERMINATED"],
              aos.engine, TRUE, "OTHER"))

EngineTerminates(s) ==
    Post([s EXCEPT !.engine.state = "TERMINATED"], "ENGINE", "TERMINATED")

\* Refreshable_RefreshStarted: half of the expiration has passed.
RefreshTimerExpires ==
    /\ aos.engine.refresh = "HALF"
    /\ \E s \in WithLuck([aos EXCEPT !.engine.refresh = "REST"]) :
          LET a == Registration_RefreshTimerExpired(s) IN
          Handled(CASE s.engine.sub # "IDLE" -> s
                    [] s.engine.sub = "IDLE" /\ ~a.ok -> a
                    [] s.engine.sub = "IDLE" /\ a.ok /\ s.luck.send ->
                         [a EXCEPT !.engine.sub = "REFRESHING"]
                    [] OTHER ->
                         EngineTerminates([a EXCEPT !.faults = @ + 1]))

RegistrationExpires ==
    /\ aos.engine.refresh = "REST"
    /\ Handled(EngineTerminates([aos EXCEPT !.engine.refresh = "OFF"]))

RadioPrepared ==
    /\ aos.txn.asked
    /\ \E s \in WithLuck(aos) :
          Handled(RadioAnswer(s, TRUE))

RadioDenied ==
    /\ aos.txn.asked
    /\ Disturb("Denied")
    /\ Handled(RadioAnswer(Disturbed(aos), FALSE))

TrafficStopTimer ==
    /\ aos.txn.stopTimer
    /\ Handled([aos EXCEPT !.txn = StopTimerExpired(@)])

StopRetryTimer ==
    /\ "STOP_RETRY" \in aos.timers
    /\ \E s \in WithLuck(aos) : Handled(StopRetryTimerExpired(s))

OfflineRecoverTimer ==
    /\ "OFFLINE_RECOVER" \in aos.timers
    /\ \E s \in WithLuck(aos) : Handled(OfflineRecoverTimerExpired(s))

DeregTrafficTimer ==
    /\ "DEREG_TRAFFIC" \in aos.timers
    /\ Handled(DeregTrafficTimerExpired(aos))

TrafficPriorityChanged ==
    /\ Disturb("Priority")
    /\ \E s \in WithLuck([Disturbed(aos) EXCEPT !.allowed = ~@]) :
          Handled(Transaction_OnTrafficPriorityChanged(s))

BlockChanges ==
    /\ Disturb("Block")
    /\ \E s \in WithLuck(Disturbed(aos)) : Handled(Block_Changed(s))

\* The registration is told before or after the application, which takes up
\* a recovery that the call held back.
CallChanges ==
    /\ Disturb("Call")
    /\ \E s \in WithLuck(Disturbed(aos)) :
          LET a == CallTracker_StateChanged(s) IN
          Handled(IF ~a.call /\ a.recoveryHeld
                  THEN Post([a EXCEPT !.recoveryHeld = FALSE], "APP",
                            "RECOVER")
                  ELSE a)

\* m_pCondition is ready again and the connector is started.
ConditionReady ==
    /\ aos.app = "NOTREADY"
    /\ Handled(SetAppState(aos, "READY"))

ConnectorActivated ==
    /\ aos.app = "READY"
    /\ [to |-> "APP", what |-> "ACTIVATED"] \notin
          {aos.queue[i] : i \in DOMAIN aos.queue}
    /\ Handled(Post([aos EXCEPT !.connected = TRUE], "APP", "ACTIVATED"))

ConnectorDeactivated ==
    /\ aos.connected
    /\ Disturb("Deactivated")
    /\ Handled(StopConnector(Disturbed(aos)))

\* RequestCmd.  A stop takes a registered application to DISCONNECTING at
\* once, whatever report is on its way.
RequestStart ==
    /\ Disturb("Start") /\ Len(aos.queue) < MaxQueue
    /\ aos.state = "OFFLINE"
    /\ Handled(Post(Disturbed(aos), "APP", "START"))

RequestUpdate ==
    /\ Disturb("Update") /\ Len(aos.queue) < MaxQueue
    /\ Handled(Post(Disturbed(aos), "APP", "UPDATE"))

RequestStop ==
    /\ Disturb("Stop") /\ Len(aos.queue) < MaxQueue
    /\ LET a == Disturbed(aos) IN
       Handled(Post(IF IsRegistered(a) THEN SetAppState(a, "DISCONNECTING")
                                       ELSE a, "APP", "STOP"))

RequestRecover ==
    /\ Disturb("Recover") /\ Len(aos.queue) < MaxQueue
    /\ Handled(Post(Disturbed(aos), "APP", "RECOVER"))

Next ==
    \/ ApplicationRequest \/ RegistrationReport \/ RegistrationMessage
    \/ EngineMessage
    \/ RegisterSucceeds \/ RegisterFails \/ DeregisterEnds
    \/ RefreshTimerExpires \/ RegistrationExpires
    \/ RadioPrepared \/ RadioDenied \/ TrafficStopTimer
    \/ StopRetryTimer \/ OfflineRecoverTimer \/ DeregTrafficTimer
    \/ TrafficPriorityChanged \/ BlockChanges \/ CallChanges
    \/ ConditionReady \/ ConnectorActivated \/ ConnectorDeactivated
    \/ RequestStart \/ RequestUpdate \/ RequestStop \/ RequestRecover

Spec == Init /\ [][Next]_aos

(***************************************************************************)
(* Properties.                                                             *)
(***************************************************************************)
InQueue(to) == \E i \in DOMAIN aos.queue : aos.queue[i].to \in to
EngineSpoke == InQueue({"ENGINE", "START_FAILED", "UPDATE_FAILED"})

\* Every part of the state keeps its type.
AosTypeOK ==
    /\ aos.app \in AppStates
    /\ aos.state \in States
    /\ aos.pending \subseteq PendingKinds
    /\ aos.timers \subseteq Timers
    /\ aos.engine \in Engines \cup {NoEngine}
    /\ aos.txn \in Traffic
    /\ \A i \in DOMAIN aos.queue : aos.queue[i] \in Messages
    /\ aos.failures \in 0 .. CREATE_REG_FAILURE_MAX_COUNT
    /\ aos.events \in 0 .. MaxEvents
    /\ aos.ok = FALSE /\ aos.luck = NoLuck

\* The radio is asked to start once for all kinds of traffic: it is never
\* left on for nobody, and the traffic of a de-registration, which no answer
\* ends, is given up by a timer.
RadioReleased ==
    /\ RadioIsReleased(aos.txn)
    /\ "DEREG" \in aos.txn.traffics => "DEREG_TRAFFIC" \in aos.timers

\* m_bIsTransactionStarted caches four conditions that change at different
\* places; only a de-registration, which it does not hold back, leaves it.
StartedIsCurrent ==
    aos.state # "DEREGISTERING" => aos.started = ~HeldBack(aos)

\* While it says that it is trying, a request is on its way or its result is.
TryingHasRequest ==
    aos.state \in {"REGISTERING", "REFRESHING", "DEREGISTERING"} =>
        aos.engine.sub # "IDLE" \/ EngineSpoke

\* An update that is asked for while the registration is trying is made when
\* that is done (IAosRegistration.h): a registration that has come to rest
\* owes none.
UpdateIsKept ==
    "UPDATE" \in aos.pending /\ (aos.state = "REGISTERED" \/ IsRetryHeld(aos))
    => [to |-> "REG", what |-> "UPDATE"]
           \in {aos.queue[i] : i \in DOMAIN aos.queue}

\* A registration that waits is not forgotten: something is under way, or what
\* holds it back will let it go on.
Waiting ==
    /\ aos.queue = << >> /\ aos.timers = {} /\ aos.engine.sub = "IDLE"
    /\ ~aos.txn.asked
HeldGoesOn ==
    IsRetryHeld(aos) /\ Waiting => HeldBack(aos) /\ aos.pending # {}

\* A registration that is lost while a retry timer runs is made again when the
\* timer expires.
RestoredAfterTimer ==
    IsAppReady(aos) /\ aos.state = "OFFLINE" /\ Waiting =>
        \/ HeldBack(aos) /\ aos.pending # {}
        \/ aos.recoveryHeld
=============================================================================
