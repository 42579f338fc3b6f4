---------------------------- MODULE SessionCallee ----------------------------
(***************************************************************************)
(* The called side of a session (engine/core/Session.cpp, SessionEx.cpp)   *)
(* from the INVITE, whose offer has been handed to the application, to the *)
(* end: the answer, the retransmission of a 2xx by RetryTaskHelper, ACK,   *)
(* re-INVITE, UPDATE, CANCEL and BYE in any order the dialog lets through, *)
(* and the queue of messages to the application.  One thread runs every    *)
(* handler; requests, timers, queued messages and calls of the application *)
(* interleave.                                                             *)
(*                                                                         *)
(* No provisional response is sent, no session timer is negotiated, and of *)
(* the session's own requests only BYE occurs.  A handler is an operator   *)
(* from a session to the set of its possible successors.                   *)
(***************************************************************************)
EXTENDS Naturals, Sequences

CONSTANTS
    MaxInvites,     \* bound: INVITEs of the peer, the first included
    MaxFailing,     \* bound: INVITEs of the peer where sends fail
    MaxUpdates,     \* bound: UPDATEs of the peer
    MaxTerminates,  \* bound: calls of Terminate()
    Intervals,      \* intervals of the 2xx retransmission (RetryTimer)
    Faults          \* sends that may fail: "respond", "bye", "retransmit"

ASSUME SessionBoundsAssumption ==
    /\ MaxInvites \in Nat \ {0} /\ MaxFailing \in 1 .. MaxInvites
    /\ Intervals \in Nat \ {0}
    /\ MaxUpdates \in Nat /\ MaxTerminates \in Nat
    /\ Faults \subseteq {"respond", "bye", "retransmit"}

VARIABLES
    s,      \* the session
    peer,   \* what the peer has sent, and the state of the dialog
    again,  \* the INVITE whose 2xx this step retransmitted, or 0
    faults  \* the sends that fail in this behaviour: none, or any of Faults

vars == <<s, peer, again, faults>>

Requests ==
    [m : {"INVITE"}, n : 1 .. MaxInvites, sdp : BOOLEAN]
        \cup [m : {"UPDATE"}, n : 1 .. MaxUpdates, sdp : BOOLEAN]
NoReq == [m |-> "none", n |-> 0, sdp |-> FALSE]
FirstInvite == [m |-> "INVITE", n |-> 1, sdp |-> TRUE]

States == {"NEGOTIATING", "ESTABLISHING", "ESTABLISHED", "RENEGOTIATING",
           "REESTABLISHING", "TERMINATING", "TERMINATED"}
CallStates == {"INVITE_RECEIVED", "INVITE_2XX_SENT", "INVITE_NON2XX_SENT",
               "ESTABLISHED", "REINVITE_RECEIVED", "REINVITE_2XX_SENT"}
OaStates == {"IDLE", "OFFER_RECEIVED", "ESTABLISHED", "CHANGE_SENT", "CHANGE_RECEIVED"}
(* A server connection: not answered, answered, or dropped by the session. *)
Connections == {"open", "answered", "closed"}
Messages == {"STARTED", "START_FAILED", "UPDATE_RECEIVED", "UPDATED", "UPDATE_FAILED",
             "CANCELED_ON_ACCEPTED", "DELAYED", "TERMINATED"}
Once == {"STARTED", "START_FAILED", "TERMINATED"}   \* CheckNSetListenerCall

SessionTypeOK ==
    /\ s.state \in States /\ s.call \in CallStates /\ s.oa \in OaStates
    /\ s.pending \in BOOLEAN /\ s.notif \in BOOLEAN
    /\ s.start \in Connections
    /\ s.upd.req \in Requests \cup {NoReq} /\ s.upd.conn \in Connections
    /\ s.upd.responded \in BOOLEAN
    /\ s.task \in 0 .. MaxInvites /\ s.tracker \in 0 .. Intervals
    /\ s.queue \in Seq([name : Messages, req : Requests \cup {NoReq}])
    /\ s.told \subseteq Once /\ s.bye \in {"none", "sent", "done"}
    /\ s.open \subseteq Requests
    /\ s.ok \subseteq 1 .. MaxInvites /\ s.offers \subseteq s.ok
    /\ again \in 0 .. MaxInvites

Init ==
    /\ s = [state   |-> "NEGOTIATING",
            call    |-> "INVITE_RECEIVED",
            oa      |-> "OFFER_RECEIVED",
            pending |-> FALSE,           \* m_bTerminatePending
            notif   |-> FALSE,           \* m_bSessionUpdateNotificationInProgress
            start   |-> "open",          \* the connection of SESSION_START
            upd     |-> [req |-> NoReq, conn |-> "closed", responded |-> FALSE],
            task    |-> 0,               \* the INVITE whose 2xx is retransmitted
            tracker |-> 0,               \* RetryTimer::m_nTracker
            queue   |-> <<>>,
            told    |-> {},              \* m_nCompletedListenerCalls
            bye     |-> "none",          \* the session's own BYE
            open    |-> {FirstInvite},   \* (history) requests without a final response
            ok      |-> {},              \* (history) INVITEs answered by a 2xx
            offers  |-> {}]              \* (history) those whose 2xx carries an offer
    /\ peer = [invites |-> 1, updates |-> 0, acked |-> {}, cancelled |-> {},
               bye |-> FALSE, terminates |-> 0, dialog |-> "confirmed"]
    /\ again = 0
    /\ faults \in {{}, Faults}

-----------------------------------------------------------------------------
(* Parts of the handlers.                                                  *)

Outcomes(fault) == {TRUE} \cup IF fault \in faults THEN {FALSE} ELSE {}

PostMessage(t, name) ==
    [t EXCEPT !.queue = Append(@, [name |-> name, req |-> NoReq])]
Enter(t, state) == [t EXCEPT !.state = state]
Answered(t, r) == [t EXCEPT !.open = @ \ {r}]
CloseUpdate(t) == [t EXCEPT !.upd.conn = "closed"]
Terminated(t) == PostMessage(Enter(t, "TERMINATED"), "TERMINATED")

(* The tables of CallState for what the called side sends and receives.    *)
CallOnSent2xx(call) ==
    CASE call = "INVITE_RECEIVED"   -> "INVITE_2XX_SENT"
      [] call = "REINVITE_RECEIVED" -> "REINVITE_2XX_SENT"
      [] OTHER                      -> call
CallOnSentFailure(call) ==
    CASE call = "INVITE_RECEIVED"   -> "INVITE_NON2XX_SENT"
      [] call = "REINVITE_RECEIVED" -> "ESTABLISHED"
      [] OTHER                      -> call
CallOnAck(call) ==
    IF call \in {"INVITE_2XX_SENT", "REINVITE_2XX_SENT"} THEN "ESTABLISHED" ELSE call
CallOnInvite(call) == IF call = "ESTABLISHED" THEN "REINVITE_RECEIVED" ELSE call

(* SdpOaState: the rows the called side uses, and RestoreState.            *)
OaOnOffer(oa) == IF oa = "ESTABLISHED" THEN "CHANGE_RECEIVED" ELSE oa
OaOnFailure(oa) ==
    CASE oa = "OFFER_RECEIVED"  -> "IDLE"
      [] oa = "CHANGE_RECEIVED" -> "ESTABLISHED"
      [] OTHER                  -> oa
Mut_RestoresOnlyReceived(t) ==   \* mutant of RestoreOfferAnswerState
    [t EXCEPT !.oa = IF @ = "CHANGE_RECEIVED" THEN "ESTABLISHED" ELSE @]
RestoreOfferAnswerState(t) ==
    [t EXCEPT !.oa = IF @ \in {"CHANGE_SENT", "CHANGE_RECEIVED"} THEN "ESTABLISHED"
                     ELSE IF @ = "OFFER_RECEIVED" THEN "IDLE" ELSE @]

Stop2xxRetransmission(t) == [t EXCEPT !.task = 0, !.tracker = 0]
Start2xxRetransmission(t, n) == [t EXCEPT !.task = n, !.tracker = 1]

(* SendRequestToBye, with the two states its callers enter after it.       *)
SendRequestToBye(t) ==
    {IF sent THEN Enter([t EXCEPT !.bye = "sent"], "TERMINATING") ELSE Terminated(t) :
        sent \in Outcomes("bye")}

(* UpdateRequestOnReceived(SESSION_UPDATE): the entry is not replaced      *)
(* while its request waits for a response on a connection; the callers     *)
(* do not look at the result.                                              *)
UpdateRequestOnReceived(t, r) ==
    IF t.upd.req # NoReq /\ ~t.upd.responded /\ t.upd.conn # "closed"
    THEN t
    ELSE [t EXCEPT !.upd = [req |-> r, conn |-> "open", responded |-> FALSE]]

PutToUser(t, r) ==
    PostMessage(Enter(UpdateRequestOnReceived(t, r), "RENEGOTIATING"), "UPDATE_RECEIVED")

-----------------------------------------------------------------------------
(* Calls of the application.                                               *)

AcceptSession(t) ==
    {IF sent
     THEN Start2xxRetransmission(Stop2xxRetransmission(Enter(
              [Answered(t, FirstInvite) EXCEPT
                  !.start = "answered", !.call = CallOnSent2xx(@),
                  !.oa = "ESTABLISHED", !.ok = @ \cup {1}], "ESTABLISHING")), 1)
     ELSE PostMessage(Enter([t EXCEPT !.start = "closed"], "TERMINATED"), "START_FAILED") :
        sent \in Outcomes("respond")}

(* A 2xx to a re-INVITE without SDP carries an offer from the current view *)
(* unless another offer or answer is under way.                            *)
AcceptUpdate(t) ==
    LET r == t.upd.req
        isInvite == r.m = "INVITE"
        offers == isInvite /\ ~r.sdp /\ t.oa = "ESTABLISHED"
        answered ==
            Stop2xxRetransmission(Enter(
                [Answered(t, r) EXCEPT
                    !.upd.conn = "answered", !.upd.responded = TRUE,
                    !.call = IF isInvite THEN CallOnSent2xx(@) ELSE @,
                    !.oa = IF offers THEN "CHANGE_SENT"
                           ELSE IF @ = "CHANGE_RECEIVED" THEN "ESTABLISHED" ELSE @,
                    !.ok = IF isInvite THEN @ \cup {r.n} ELSE @,
                    !.offers = IF offers THEN @ \cup {r.n} ELSE @],
                IF isInvite THEN "REESTABLISHING" ELSE "ESTABLISHED")) IN
    {IF sent THEN IF isInvite THEN Start2xxRetransmission(answered, r.n) ELSE answered
     ELSE PostMessage(Enter(CloseUpdate(t), "ESTABLISHED"), "UPDATE_FAILED") :
        sent \in Outcomes("respond")}

Accept(t) ==
    CASE t.state = "NEGOTIATING" -> AcceptSession(t)
      [] t.state = "RENEGOTIATING" /\ t.upd.conn = "open" -> AcceptUpdate(t)
      [] OTHER -> {}

RejectSession(t) ==
    {PostMessage(Enter([IF sent THEN [Answered(t, FirstInvite) EXCEPT
                                         !.call = CallOnSentFailure(@), !.oa = OaOnFailure(@)]
                        ELSE t EXCEPT !.start = "closed"], "TERMINATED"), "START_FAILED") :
        sent \in Outcomes("respond")}

(* When the response cannot be sent the offer stays open.                  *)
RejectUpdate(t) ==
    {PostMessage(Enter(CloseUpdate(
        IF sent THEN [Answered(t, t.upd.req) EXCEPT
                         !.upd.responded = TRUE, !.oa = OaOnFailure(@),
                         !.call = IF t.upd.req.m = "INVITE" THEN CallOnSentFailure(@) ELSE @]
        ELSE t), "ESTABLISHED"), "UPDATE_FAILED") :
        sent \in Outcomes("respond")}

Reject(t) ==
    CASE t.state = "NEGOTIATING" -> RejectSession(t)
      [] t.state = "RENEGOTIATING" /\ t.upd.conn = "open" -> RejectUpdate(t)
      [] OTHER -> {}

TerminateOnNegotiating(t) ==
    {IF sent
     THEN Enter([Answered(t, FirstInvite) EXCEPT
                    !.start = "answered", !.call = CallOnSentFailure(@)], "TERMINATING")
     ELSE Terminated(t) : sent \in Outcomes("respond")}

TerminateOnReNegotiating(t) ==
    IF t.upd.conn = "closed" THEN {Terminated(t)}
    ELSE UNION {IF sent
                THEN SendRequestToBye([Answered(t, t.upd.req) EXCEPT
                         !.upd.conn = "answered", !.upd.responded = TRUE,
                         !.call = IF t.upd.req.m = "INVITE" THEN CallOnSentFailure(@) ELSE @])
                ELSE {Terminated(t)} : sent \in Outcomes("respond")}

Terminate(t0) ==
    LET t == Stop2xxRetransmission(t0) IN
    CASE t.state = "NEGOTIATING"   -> TerminateOnNegotiating(t)
      [] t.state = "ESTABLISHED"   -> SendRequestToBye(t)
      [] t.state = "RENEGOTIATING" -> TerminateOnReNegotiating(t)
      [] t.state \in {"ESTABLISHING", "REESTABLISHING"} -> {[t EXCEPT !.pending = TRUE]}
      [] OTHER -> {}

-----------------------------------------------------------------------------
(* Requests of the peer, as Dialog_NotifyRequest hands them on.            *)

(* A response the engine sends by itself; the outcome is not looked at.    *)
Refuse(t, r) ==
    [Answered(t, r) EXCEPT !.call = IF r.m = "INVITE" THEN CallOnSentFailure(@) ELSE @]

(* The re-INVITE overtook the ACK of the INVITE before it, which is        *)
(* reported as if the ACK had arrived.                                     *)
OvertakeAck(t) ==
    CASE t.state = "ESTABLISHING" ->
            PostMessage([Stop2xxRetransmission(t) EXCEPT !.start = "closed"], "STARTED")
      [] t.state = "REESTABLISHING" /\ t.upd.req.m = "INVITE" ->
            PostMessage(CloseUpdate(Stop2xxRetransmission(t)), "UPDATED")
      [] OTHER -> t

(* Mutant of HandleRequestToInviteWithinDialog: nothing is refused while   *)
(* an update waits for the application.                                    *)
Mut_NotRefusedWhileUpdating(t0, r) ==
    LET t == [t0 EXCEPT !.call = CallOnInvite(@)] IN
    IF t.state \in {"TERMINATING", "TERMINATED"} THEN {Answered(t, r)}
    ELSE {PutToUser(OvertakeAck([t EXCEPT !.oa = IF r.sdp THEN OaOnOffer(@) ELSE @]), r)}

(* An offer that cannot be used is refused and forgotten.                  *)
HandleRequestToInviteWithinDialog(t0, r) ==
    LET t == [t0 EXCEPT !.call = CallOnInvite(@)]
        isNewOffer == r.sdp /\ t.oa = "ESTABLISHED" IN
    CASE t.state \in {"TERMINATING", "TERMINATED"} -> {Answered(t, r)}
      [] \/ t.state \in {"NEGOTIATING", "RENEGOTIATING"}
         \/ t.state = "REESTABLISHING" /\ t.oa = "CHANGE_SENT" /\ r.sdp -> {Refuse(t, r)}
      [] OTHER ->
            {PutToUser(OvertakeAck([t EXCEPT !.oa = IF r.sdp THEN OaOnOffer(@) ELSE @]), r)}
                \cup (IF isNewOffer THEN {Refuse(t, r)} ELSE {})

(* SessionEx: the UPDATEs refused because an offer, an UPDATE or a 2xx is  *)
(* still under way.                                                        *)
IsUpdateRefused(t, r) ==
    IF t.oa \in {"OFFER_RECEIVED", "CHANGE_RECEIVED", "CHANGE_SENT"} THEN r.sdp
    ELSE \/ t.state = "RENEGOTIATING" /\ t.upd.req.m = "UPDATE"
         \/ t.state = "REESTABLISHING" /\ r.sdp

(* While a re-INVITE is under way an UPDATE is answered by itself.         *)
HandleRequestToUpdate(t, r) ==
    LET isNewOffer == r.sdp /\ t.oa = "ESTABLISHED" IN
    CASE \/ t.state \in {"TERMINATING", "TERMINATED"}
         \/ IsUpdateRefused(t, r)
         \/ t.upd.req.m = "INVITE" /\ (~t.upd.responded \/ t.state = "REESTABLISHING")
                -> {Answered(t, r)}
      [] OTHER -> {PutToUser([t EXCEPT !.oa = IF r.sdp THEN OaOnOffer(@) ELSE @], r)}
                      \cup (IF isNewOffer THEN {Answered(t, r)} ELSE {})

(* Requests with SDP wait until the application has been told the outcome  *)
(* of the update before them; the message that delays them is handled like *)
(* the request itself.                                                     *)
Dialog_NotifyRequest(t, r) ==
    IF t.notif /\ r.sdp
    THEN {[t EXCEPT !.queue = Append(@, [name |-> "DELAYED", req |-> r])]}
    ELSE IF r.m = "INVITE" THEN HandleRequestToInviteWithinDialog(t, r)
    ELSE HandleRequestToUpdate(t, r)

Mut_IgnoresTheLastAck(t, n) ==   \* mutant of IsStrayAck: the comparison swapped
    /\ t.state \in {"RENEGOTIATING", "REESTABLISHING"}
    /\ t.upd.req.m = "INVITE" /\ t.upd.req.n = n
(* With a re-INVITE under way the ACK of another INVITE is ignored.        *)
IsStrayAck(t, n) ==
    /\ t.state \in {"RENEGOTIATING", "REESTABLISHING"}
    /\ t.upd.req.m = "INVITE" /\ t.upd.req.n # n

(* An ACK that finds Terminate() pending releases the BYE.                 *)
HandleRequestToAck(t0, n, sdp) ==
    LET t == [t0 EXCEPT !.call = CallOnAck(@)]
        reInvite == t.upd.req.m = "INVITE"
        a == [t EXCEPT !.oa = IF sdp /\ @ = "CHANGE_SENT" THEN "ESTABLISHED" ELSE @]
        updated(state) ==
            CloseUpdate(PostMessage([Stop2xxRetransmission(a) EXCEPT
                                        !.state = state, !.notif = TRUE], "UPDATED"))
        started(state) ==
            PostMessage([Stop2xxRetransmission(a) EXCEPT
                            !.state = state, !.start = "closed"], "STARTED") IN
    CASE IsStrayAck(t, n) -> {t}
      [] OTHER ->
         CASE a.pending -> SendRequestToBye([a EXCEPT !.pending = FALSE])
           [] ~a.pending /\ a.state = "ESTABLISHING"   -> {started("ESTABLISHED")}
           [] ~a.pending /\ a.state = "REESTABLISHING" -> {updated("ESTABLISHED")}
           [] ~a.pending /\ a.state = "RENEGOTIATING"  ->
                {IF reInvite \/ "STARTED" \in a.told
                 THEN updated(a.state) ELSE started(a.state)}
           [] ~a.pending /\ a.state = "TERMINATING" -> {Terminated(a)}
           [] OTHER -> {a}

(* Mutant of HandleRequestToBye: a pending Terminate() is not told of.     *)
Mut_ByeInPendingUntold(t) ==
    IF t.bye = "sent" \/ t.state = "TERMINATED" THEN t
    ELSE IF t.pending THEN Enter(Stop2xxRetransmission(t), "TERMINATED")
    ELSE Terminated(Stop2xxRetransmission(t))

(* With a BYE of its own under way the session only answers.               *)
HandleRequestToBye(t) ==
    IF t.bye = "sent" THEN t
    ELSE LET e == [Stop2xxRetransmission(t) EXCEPT !.pending = FALSE] IN
         IF t.state = "TERMINATED" THEN e ELSE Terminated(e)

(* Cancellable_Compare: the CANCEL finds the INVITE through its connection.*)
Cancellable_Compare(t, n) ==
    \/ t.state \in {"NEGOTIATING", "ESTABLISHING"} /\ t.start # "closed" /\ n = 1
    \/ /\ t.state = "RENEGOTIATING" /\ t.upd.conn # "closed"
       /\ t.upd.req.m = "INVITE" /\ t.upd.req.n = n

HandleRequestToCancel(t0) ==
    LET t == [t0 EXCEPT !.pending = FALSE]
        r == IF t.call = "INVITE_RECEIVED" THEN FirstInvite ELSE t.upd.req
        refused == [Answered(t, r) EXCEPT
                        !.call = CallOnSentFailure(@),
                        !.start = IF r = FirstInvite THEN "answered" ELSE @,
                        !.upd = IF r = FirstInvite THEN @
                                ELSE [@ EXCEPT !.conn = "answered", !.responded = TRUE]]
        ends(u) == IF t.state = "NEGOTIATING" THEN Terminated(u)
                   ELSE PostMessage(Enter(RestoreOfferAnswerState(u), "ESTABLISHED"),
                                    "UPDATE_FAILED") IN
    {ends(IF sent THEN refused ELSE t) : sent \in Outcomes("respond")}
        \cup (IF "respond" \in faults THEN {t} ELSE {})   \* no 200 to the CANCEL

Cancellable_NotifyRequest(t) ==
    IF t.call \in {"INVITE_RECEIVED", "REINVITE_RECEIVED"}
    THEN HandleRequestToCancel(t)
    ELSE {PostMessage(t, "CANCELED_ON_ACCEPTED")}

-----------------------------------------------------------------------------
(* The retransmission of a 2xx.                                            *)

(* Mutant of InviteToRetransmit: any final response may be sent again.     *)
Mut_AnyResponse(t) ==
    CASE t.state = "ESTABLISHING" /\ t.start = "answered" -> 1
      [] t.upd.req.m = "INVITE" /\ t.upd.conn = "answered" -> t.upd.req.n
      [] OTHER -> 0

(* The connection is chosen by the state of the session, not by the INVITE *)
(* the task was started for; SipServerConnection::Send fails unless it     *)
(* answered an INVITE by a 2xx (0).                                        *)
InviteToRetransmit(t) ==
    CASE t.state = "ESTABLISHING" /\ t.start = "answered" -> 1
      [] /\ t.state # "ESTABLISHING"
         /\ t.upd.req.m = "INVITE" /\ t.upd.conn = "answered"
         /\ t.upd.req.n \in t.ok -> t.upd.req.n
      [] OTHER -> 0

(* Mutant of RetryTaskHelper_OnCompleted: the wait of a re-INVITE goes on. *)
Mut_OnlyFirstAckAwaited(t0) ==
    LET t == Stop2xxRetransmission(t0) IN
    IF t.state = "ESTABLISHING"
    THEN {PostMessage(Enter(t, "ESTABLISHED"), "START_FAILED")} ELSE {t}

RetryTaskHelper_OnCompleted(t0) ==
    LET t == Stop2xxRetransmission(t0) IN
    CASE t.state = "ESTABLISHING" ->
            IF t.pending THEN SendRequestToBye([t EXCEPT !.pending = FALSE])
            ELSE {PostMessage(Enter(t, "ESTABLISHED"), "START_FAILED")}
      [] t.state = "REESTABLISHING" ->
            LET u == RestoreOfferAnswerState(CloseUpdate(t)) IN
            IF t.pending THEN SendRequestToBye([u EXCEPT !.pending = FALSE])
            ELSE {PostMessage(Enter(u, "ESTABLISHED"), "UPDATE_FAILED")}
      [] OTHER -> {t}

-----------------------------------------------------------------------------
(* Steps.                                                                  *)

Step(T) == s' \in T /\ again' = 0 /\ UNCHANGED faults

Queued(names) == \E i \in DOMAIN s.queue : s.queue[i].name \in names
OpenInvites == {r \in s.open : r.m = "INVITE"}
OpenOffers == {r \in s.open : r.sdp}

(* The application answers what it has been told of, and nothing once it   *)
(* has called Terminate().                                                 *)
MayAnswer == peer.terminates = 0 /\ ~Queued({"UPDATE_RECEIVED"})
AppAccept == MayAnswer /\ Step(Accept(s)) /\ UNCHANGED peer
AppReject == MayAnswer /\ Step(Reject(s)) /\ UNCHANGED peer

AppTerminate ==
    /\ peer.terminates < MaxTerminates
    /\ Step(Terminate(s))
    /\ peer' = [peer EXCEPT !.terminates = @ + 1]

(* A well-behaved peer opens one INVITE and one offer at a time; what it   *)
(* sends may arrive in another order, an ACK after the requests that       *)
(* follow it.                                                              *)
RecvRequest(r) ==
    /\ 1 \in s.ok /\ peer.dialog = "confirmed"
    /\ r.sdp => OpenOffers = {}
    /\ Step(Dialog_NotifyRequest([s EXCEPT !.open = @ \cup {r}], r))

RecvInvite ==
    /\ peer.invites < (IF faults = {} THEN MaxInvites ELSE MaxFailing)
    /\ OpenInvites = {}
    /\ \E sdp \in BOOLEAN :
          RecvRequest([m |-> "INVITE", n |-> peer.invites + 1, sdp |-> sdp])
    /\ peer' = [peer EXCEPT !.invites = @ + 1]

RecvUpdate ==
    /\ peer.updates < MaxUpdates
    /\ \E sdp \in BOOLEAN :
          RecvRequest([m |-> "UPDATE", n |-> peer.updates + 1, sdp |-> sdp])
    /\ peer' = [peer EXCEPT !.updates = @ + 1]

(* The ACK of a 2xx reaches the session once: the INVITE server            *)
(* transaction absorbs the others (SipInviteServerTxn).                    *)
RecvAck ==
    \E n \in s.ok \ peer.acked :
        /\ peer.dialog = "confirmed"
        /\ Step(HandleRequestToAck(s, n, n \in s.offers))
        /\ peer' = [peer EXCEPT !.acked = @ \cup {n}]

RecvCancel ==
    LET n == peer.invites IN
    /\ n \notin peer.cancelled \cup peer.acked
    /\ Step(IF Cancellable_Compare(s, n) THEN Cancellable_NotifyRequest(s) ELSE {s})
    /\ peer' = [peer EXCEPT !.cancelled = @ \cup {n}]

(* The 200 to the BYE ends the dialog; when it cannot be sent the dialog   *)
(* stays.                                                                  *)
RecvBye ==
    /\ 1 \in s.ok /\ peer.dialog = "confirmed" /\ ~peer.bye
    /\ Step({HandleRequestToBye(s)})
    /\ \E sent \in Outcomes("respond") :
          peer' = [peer EXCEPT !.bye = TRUE,
                               !.dialog = IF sent THEN "terminated" ELSE @]

(* The response to the session's BYE, or its timeout.                      *)
HandleResponseToBye(t) ==
    [(IF t.state = "TERMINATED" THEN t ELSE Terminated(t)) EXCEPT !.bye = "done"]
ByeOutcome ==
    /\ s.bye = "sent"
    /\ Step({HandleResponseToBye(s)})
    /\ \E dialog \in {peer.dialog, "terminated"} : peer' = [peer EXCEPT !.dialog = dialog]

Mut_IntervalsUnbounded ==   \* mutant of InterimExpired: no last interval
    /\ s.task # 0 /\ InviteToRetransmit(s) # 0
    /\ s' = [s EXCEPT !.tracker = @ + 1] /\ again' = InviteToRetransmit(s)
    /\ UNCHANGED <<peer, faults>>

(* RetryTimer: an interim expiry sends again and starts the next interval, *)
(* the final one or a failed send ends the task.                           *)
InterimExpired ==
    LET n == InviteToRetransmit(s) IN
    /\ s.task # 0 /\ s.tracker < Intervals
    /\ n # 0
    /\ s' = [s EXCEPT !.tracker = @ + 1]
    /\ again' = n
    /\ UNCHANGED <<peer, faults>>

TaskEnds ==
    /\ s.task # 0
    /\ \/ s.tracker = Intervals
       \/ InviteToRetransmit(s) = 0
       \/ "retransmit" \in faults
    /\ Step(RetryTaskHelper_OnCompleted(s))
    /\ UNCHANGED peer

TaskExpires == InterimExpired \/ TaskEnds

Mut_DelayEndsOnFailureOnly(t, name) ==   \* mutant of Told
    [t EXCEPT !.told = @ \cup ({name} \cap Once), !.notif = @ /\ name # "UPDATE_FAILED"]

(* DispatchMessage: what the application is told, once for each of Once.   *)
Told(t, name) ==
    [t EXCEPT !.told = @ \cup ({name} \cap Once),
              !.notif = @ /\ name \notin {"UPDATED", "UPDATE_FAILED"}]

Dispatch ==
    /\ s.queue # <<>>
    /\ LET msg == Head(s.queue)
           t == [s EXCEPT !.queue = Tail(@)] IN
       Step(IF msg.name = "DELAYED" THEN Dialog_NotifyRequest(t, msg.req)
            ELSE {Told(t, msg.name)})
    /\ UNCHANGED peer

Next ==
    \/ AppAccept \/ AppReject \/ AppTerminate
    \/ RecvInvite \/ RecvUpdate \/ RecvAck \/ RecvCancel \/ RecvBye
    \/ ByeOutcome \/ TaskExpires \/ Dispatch

Spec == Init /\ [][Next]_vars

(* Timers that run expire, posted messages are dispatched, and the BYE's   *)
(* transaction ends in a response or a timeout.  Neither the peer nor the  *)
(* application is fair.                                                    *)
FairSpec ==
    Spec /\ WF_vars(TaskExpires) /\ WF_vars(Dispatch) /\ WF_vars(ByeOutcome)

-----------------------------------------------------------------------------
(* Properties.                                                             *)

(* An INVITE whose ACK has arrived is never answered again by the retry    *)
(* task, whatever re-INVITE, UPDATE or delayed request came in between     *)
(* (ExecuteCmd picks the connection by the state).                         *)
AckEndsRetransmission == [][again' # 0 => again' \notin peer.acked]_vars

(* The task sends the INVITE's 2xx it was started for.                     *)
RetransmitsItsOwn == [][again' # 0 => again' = s.task]_vars

(* An offer counts as open only while something will close it: the answer  *)
(* of the application, the end of the session, or the ACK of the INVITE    *)
(* whose 2xx made the offer - unless the next re-INVITE has overtaken that *)
(* ACK, which is then ignored and the offer never closed.  A response that *)
(* could not be sent leaves its offer open.                                *)
OfferIsOpen ==
    faults = {} =>
    /\ s.oa = "CHANGE_RECEIVED" =>
          s.state \in {"RENEGOTIATING", "TERMINATING", "TERMINATED"}
    /\ s.oa = "CHANGE_SENT" =>
          \/ s.state \in {"REESTABLISHING", "TERMINATING", "TERMINATED"}
          \/ \E n \in s.offers : n < peer.invites

(* Whoever ends the session, the application is told or about to be.       *)
EndIsReported ==
    s.state = "TERMINATED" =>
        {"TERMINATED", "START_FAILED"} \cap s.told # {} \/ Queued({"TERMINATED", "START_FAILED"})

(* An INVITE without a final response is where the session will find it:   *)
(* the first INVITE, the SESSION_UPDATE entry, or a delayed message.       *)
(* Where responses cannot be sent, the INVITE stays without one.           *)
NoInviteForgotten ==
    faults = {} =>
    \A r \in OpenInvites :
        \/ r = FirstInvite /\ s.start = "open" /\ s.state = "NEGOTIATING"
        \/ r = s.upd.req /\ s.upd.conn = "open" /\ ~s.upd.responded
        \/ \E i \in DOMAIN s.queue : s.queue[i] = [name |-> "DELAYED", req |-> r]

(* An answered session that the application does not end leaves the wait   *)
(* for the ACK even if no ACK ever arrives.                                *)
AckWaitEnds ==
    s.state \in {"ESTABLISHING", "REESTABLISHING"} ~>
        s.pending \/ s.state \notin {"ESTABLISHING", "REESTABLISHING"}

(* A delayed request is handled: it does not go round the queue for ever.  *)
DelayedHandled == Queued({"DELAYED"}) ~> ~Queued({"DELAYED"})

-----------------------------------------------------------------------------
(* What the interfaces' comments say and the code does not do.             *)

(* ISession.h: "The ISession will transit to STATE_TERMINATING."           *)
TerminateGoesAhead ==
    peer.terminates > 0 ~> s.state \in {"TERMINATING", "TERMINATED"}

(* ISessionListener.h: the application is notified that the session has    *)
(* been established, once its ACK is in and nothing is left in the queue.  *)
EstablishedIsTold ==
    s.state = "ESTABLISHED" /\ 1 \in peer.acked /\ s.queue = <<>> =>
        s.told \cap {"STARTED", "START_FAILED"} # {}
=============================================================================
