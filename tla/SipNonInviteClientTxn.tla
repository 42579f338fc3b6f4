------------------------ MODULE SipNonInviteClientTxn ------------------------
(***************************************************************************)
(* The non-INVITE client transaction (SipNonInviteClientTxn.cpp) together  *)
(* with the code that drives it: SipStackManager, SipTxnHandler and the    *)
(* timer callback CbkTxnTimeout.  One action is one call into the stack,   *)
(* with everything the call does before it returns.                        *)
(*                                                                         *)
(* Unlike an INVITE, the request keeps its timer while provisional         *)
(* responses arrive, so the transaction user always gets an outcome.       *)
(***************************************************************************)
EXTENDS SipTxn

CONSTANTS TimerF, TimerK

(* Timer F bounds the retransmissions, so it is not shorter than T1.       *)
ASSUME RequestTimerAssumption ==
    TimerF \in T1 .. MaxTimerValue /\ TimerK \in 1 .. MaxTimerValue

VARIABLES
    req,   \* the transaction object
    rsent, \* what this step handed to the network
    ru     \* what the transaction user knows of its request

reqVars == <<req, rsent, ru>>

ReqStates == {"IDLE", "TRYING", "PROCEEDING", "COMPLETED", "TERMINATED"}
ReqTimers == {"E", "F", "K"}
ReqMsgs   == {"REQUEST"}
RuPending == {"waiting", "proceeding"}
RuStates  == RuPending \cup {"idle", "answered", "timedOut", "aborted"}
Codes     == {"1xx", "final"}

ReqTypeOK ==
    /\ req \in Txn(ReqStates, ReqTimers, ReqMsgs)
    /\ rsent \in ReqMsgs \cup {NoMsg}
    /\ ru \in RuStates

ReqInit == req = NewTxn /\ rsent = NoMsg /\ ru = "idle"

-----------------------------------------------------------------------------
(* Mutant: Timer F is forgotten over TCP.                                  *)
Mut_NoTimerF(p) ==
    LET t == [NewTxn EXCEPT !.state = "TRYING", !.pooled = TRUE,
                            !.max = TimerF, !.ud = TRUE]
    IN  IF p = "UDP" THEN StartTxnTimer(t, "E", T1) ELSE t

(* The object as the handler leaves it when the timer could be started.    *)
IdleState_SendNonInviteRequest(p) ==
    LET t == [NewTxn EXCEPT !.state = "TRYING", !.pooled = TRUE,
                            !.max = TimerF, !.ud = TRUE]
    IN  IF p = "UDP" THEN StartTxnTimer(t, "E", T1)
                     ELSE StartTxnTimer(t, "F", TimerF)

(* SendMsg for a new request over protocol p; a failure is the caller's.   *)
SendRequest(p) ==
    /\ ru = "idle"
    /\ LET t == IdleState_SendNonInviteRequest(p) IN
       \/ /\ req' = UpdateTranspInfo(t, "REQUEST", p)
          /\ rsent' = "REQUEST"
          /\ ru' = "waiting"
       \/ /\ "timer" \in Faults         \* not kept in the pool
          /\ rsent' = NoMsg
          /\ ru' = "aborted"
          /\ UNCHANGED req
       \/ /\ "transp" \in Faults        \* OnSendTranspError
          /\ req' = AbortTxn(t)
          /\ rsent' = NoMsg
          /\ ru' = "aborted"
       \/ /\ "net" \in Faults           \* the object stays in the pool
          /\ req' = [t EXCEPT !.ud = FALSE]
          /\ rsent' = NoMsg
          /\ ru' = "aborted"

-----------------------------------------------------------------------------
(* A response finds the object while it is in the pool and the request     *)
(* was sent.                                                               *)
ResponseMatches == req.pooled /\ req.msg # NoMsg

(* TRYING becomes PROCEEDING; the timer runs on.                           *)
Receive1xxResponse ==
    /\ req.state \in {"TRYING", "PROCEEDING"}
    /\ req' = [req EXCEPT !.state = "PROCEEDING"]
    /\ ru' = "proceeding"

(* Mutant: the state is left as it is.                                     *)
Mut_StillTrying ==
    /\ req.state \in {"TRYING", "PROCEEDING"}
    /\ UNCHANGED req
    /\ ru' = "answered"

(* Over UDP the object absorbs repeated responses for Timer K; when that   *)
(* cannot be started the response is lost and no timer is left.            *)
HandleFinalResponse ==
    /\ req.state \in {"TRYING", "PROCEEDING"}
    /\ LET t == StopTxnTimer(req) IN
       IF GetMsgSentProto(t) = "UDP"
         THEN \/ /\ req' = [StartTxnTimer(t, "K", TimerK) EXCEPT !.state = "COMPLETED"]
                 /\ ru' = "answered"
              \/ /\ "timer" \in Faults
                 /\ req' = t
                 /\ UNCHANGED ru
         ELSE /\ req' = ReleaseTransaction(t)
              /\ ru' = "answered"

(* Mutant: a final response in COMPLETED goes up.                          *)
Mut_FinalGoesUp ==
    /\ req.state = "COMPLETED"
    /\ ru' = "proceeding"
    /\ UNCHANGED req

(* STATUS_IGNORE_RESP.                                                     *)
CompletedState_ReceiveResponse ==
    /\ req.state = "COMPLETED"
    /\ UNCHANGED <<req, ru>>

RecvResponse(code) ==
    /\ ResponseMatches
    /\ \/ code = "1xx" /\ Receive1xxResponse
       \/ code = "final" /\ HandleFinalResponse
       \/ CompletedState_ReceiveResponse
    /\ rsent' = NoMsg

-----------------------------------------------------------------------------
(* Timer E over UDP: the interval doubles up to T2 in TRYING and is T2 in  *)
(* PROCEEDING, until Timer F is used up.  Timer F elsewhere.               *)
HandleTimeout(t) ==
    LET e == CountFirstInterval(t) IN
    IF GetMsgSentProto(e) = "UDP" /\ e.expired < e.max
      THEN Restart(e, "E", Clipped(e, IF e.state = "TRYING"
                                      THEN Minimum(e.cur * 2, T2) ELSE T2))
      ELSE [e EXCEPT !.state = "TERMINATED"]

(* The row of the state table for a timer event.                           *)
ReqOnTimer(t, type) ==
    CASE t.state \in {"TRYING", "PROCEEDING"} /\ type \in {"E", "F"} -> HandleTimeout(t)
      [] t.state = "COMPLETED" /\ type = "K" -> [t EXCEPT !.state = "TERMINATED"]
      [] OTHER -> t

(* NotifyTimerExpired tells the transaction user of Timers E and F, while  *)
(* the user data lead to it.                                               *)
ReqCbkTxnTimeout ==
    /\ req.pooled /\ req.timer # NoTimer
    /\ LET type == req.timer
           f == ReqOnTimer(TimerFired(req), type)
       IN
       \/ /\ f.state = "TERMINATED"
          /\ req' = ReleaseTransaction(f)
          /\ ru' = IF type \in {"E", "F"} /\ req.ud THEN "timedOut" ELSE ru
          /\ rsent' = NoMsg
       \/ /\ f.state # "TERMINATED"
          /\ req' = f
          /\ rsent' \in SendToNetwork(f.ud, f.msg)
          /\ UNCHANGED ru
       \/ /\ "timer" \in Faults /\ f.timer # NoTimer
          /\ req' = CountFirstInterval(TimerFired(req))
          /\ rsent' = NoMsg
          /\ UNCHANGED ru

(* TerminateTxn and, in every state alike, OnRecvTanspError.               *)
ReqTerminate ==
    /\ \/ req.pooled /\ req.ud
       \/ "transpErr" \in Faults /\ ResponseMatches
    /\ req' = AbortTxn(req)
    /\ ru' = IF ru \in RuPending THEN "aborted" ELSE ru
    /\ rsent' = NoMsg

ReqNext ==
    \/ \E p \in Protocols : SendRequest(p)
    \/ \E code \in Codes : RecvResponse(code)
    \/ ReqCbkTxnTimeout
    \/ ReqTerminate

(* The platform delivers the expiry of a running timer eventually.         *)
ReqSpec     == ReqInit /\ [][ReqNext]_reqVars
-----------------------------------------------------------------------------
(* Properties.                                                             *)

(* No restart in a handler overwrites a running timer and no path to the   *)
(* end of the transaction leaves one behind.                               *)
ReqNoOrphanTimer == req.running = IF req.pooled /\ req.timer # NoTimer THEN 1 ELSE 0

(* The timeout is reported when the timers have run for exactly Timer F,   *)
(* also when a provisional response has changed the interval in between    *)
(* (HandleTimeout).                                                        *)
ReqTimeoutExact == ru = "timedOut" => req.elapsed = TimerF

(* No interval between two retransmissions is longer than T2, except for   *)
(* a first one of T1.                                                      *)
ReqIntervalCapped == req.timer = "E" => req.cur <= T2 \/ req.cur = T1

(* The request is not sent again once the transaction user has its         *)
(* outcome, although the object stays in the pool to absorb responses.     *)
QuietAfterOutcome == [][rsent' = "REQUEST" => ru' \in RuPending]_reqVars

(* What the transaction user sees is what the contract allows.             *)
ReqContract ==
    INSTANCE SipTxnContract WITH
        user <- ru, Outcomes <- {"answered"}, TimeoutFrom <- RuPending
ReqImplementsContract == ReqContract!Spec

(* The transaction user is not left waiting, whatever provisional          *)
(* responses arrive.                                                       *)
RequestResolved == ru \in RuPending ~> ru \notin RuPending
=============================================================================
