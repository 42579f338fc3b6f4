------------------------- MODULE SipInviteServerTxn -------------------------
(***************************************************************************)
(* The INVITE server transaction (SipInviteServerTxn.cpp) together with    *)
(* the code that drives it: SipStackManager::SendMsg and OnRecvMessage,    *)
(* SipTxnHandler, the timer callback CbkTxnTimeout, and the PRACK request  *)
(* that reaches the INVITE transaction from its own one                    *)
(* (SipNonInviteServerTxn.cpp).  One action is one call into the stack,    *)
(* with everything the call does before it returns.                        *)
(*                                                                         *)
(* The transaction user (stu, rseq) is the session of engine/core: it      *)
(* decides once, sends a reliable provisional response only when the last  *)
(* one was acknowledged (SessionEx::SendRpr), and sends the 2xx again      *)
(* until the ACK arrives (Session::ExecuteCmd).                            *)
(*                                                                         *)
(* Copies of the INVITE are taken to be older than the object only while   *)
(* it is in the pool: one that comes later starts a new transaction.       *)
(***************************************************************************)
EXTENDS SipRSeq

CONSTANTS TimerH, TimerI, TimerL

(* Timer H bounds the retransmissions, so it is not shorter than T1.       *)
ASSUME ServerTimerAssumption ==
    /\ TimerH \in T1 .. MaxTimerValue
    /\ TimerI \in 1 .. MaxTimerValue /\ TimerL \in 1 .. MaxTimerValue

VARIABLES
    srv,     \* the transaction object
    tp,      \* the protocol the INVITE came over and the responses leave by
    rkeys,   \* s_txnKeyList: RSeq of the response a PRACK is waited for
    reply,   \* what this step handed to the network
    out,     \* (history) what was ever handed to the network
    ok,      \* what SendMsg last returned
    stu,     \* what the transaction user decided
    rseq,    \* the last RSeq the transaction user has sent
    pracked, \* the RSeq values whose PRACK the transaction user was given
    up,      \* what this step told the transaction user
    told     \* (history) what it was ever told

srvVars == <<srv, tp, rkeys, reply, out, ok, stu, rseq, pracked, up, told>>

SrvStates == {"IDLE", "PROCEEDING", "ACCEPTED", "COMPLETED", "CONFIRMED",
              "TERMINATED"}
SrvTimers == {"G", "H", "I", "L"}
SrvMsgs   == {"prov", "rpr", "2xx", "fail"}
Decisions == {"none", "invited", "accepted", "rejected", "aborted"}
News      == {"invite", "prack", "strayPrack", "ack", "rprTimeout", "ackTimeout"}
NoNews    == "nothing"

SrvTypeOK ==
    /\ srv \in Txn(SrvStates, SrvTimers, SrvMsgs)
    /\ tp \in Protocols
    /\ rkeys \subseteq 1 .. MaxRSeq
    /\ reply \in SrvMsgs \cup {NoMsg} /\ out \subseteq SrvMsgs
    /\ ok \in BOOLEAN
    /\ stu \in Decisions
    /\ rseq \in 0 .. MaxRSeq /\ pracked \subseteq 1 .. MaxRSeq
    /\ up \in News \cup {NoNews} /\ told \subseteq News

SrvInit ==
    /\ srv = NewTxn
    /\ tp \in Protocols
    /\ rkeys = {} /\ reply = NoMsg /\ out = {} /\ ok = TRUE
    /\ stu = "none" /\ rseq = 0 /\ pracked = {}
    /\ up = NoNews /\ told = {}

(* The step tells the transaction user n, or nothing.                      *)
Tell(n) == up' = n /\ told' = told \cup ({n} \ {NoNews})

(* The step hands the network m, or nothing.                               *)
Emit(m) == reply' = m /\ out' = out \cup ({m} \ {NoMsg})

-----------------------------------------------------------------------------
(* The INVITE arrives.                                                     *)

IdleState_ReceiveInviteRequest ==
    /\ stu = "none"
    /\ srv' = [NewTxn EXCEPT !.state = "PROCEEDING", !.pooled = TRUE, !.ud = TRUE]
    /\ stu' = "invited"
    /\ Tell("invite") /\ Emit(NoMsg)
    /\ UNCHANGED <<tp, rkeys, ok, rseq, pracked>>

(* A copy of it: PROCEEDING and COMPLETED send the recorded message again, *)
(* ACCEPTED ignores it, CONFIRMED has no handler for it.                   *)
RecvInviteAgain ==
    /\ srv.pooled
    /\ \/ /\ srv.state \in {"PROCEEDING", "COMPLETED"}
          /\ \E m \in SendToNetwork(srv.ud, srv.msg) : Emit(m)
       \/ /\ srv.state \notin {"PROCEEDING", "COMPLETED"}
          /\ Emit(NoMsg)
    /\ Tell(NoNews)
    /\ UNCHANGED <<srv, tp, rkeys, ok, stu, rseq, pracked>>

-----------------------------------------------------------------------------
(* The transaction user sends a response.                                  *)

(* SendMsg after the state machine has made t of the object.  The caller's *)
(* user data lead to the socket.  Only a message that left is recorded.    *)
SendMsg(t, m) ==
    \/ \E s \in SendToNetwork(TRUE, m) :
          /\ Emit(s)
          /\ ok' = (s = m)
          /\ srv' = IF s = m THEN UpdateTranspInfo(t, m, tp) ELSE t
    \/ /\ "transp" \in Faults            \* OnSendTranspError
       /\ Emit(NoMsg)
       /\ ok' = FALSE
       /\ srv' = AbortTxn(t)

(* The state machine refused the response or could not start its timer.    *)
SendRefused(t) ==
    /\ srv' = t
    /\ ok' = FALSE
    /\ Emit(NoMsg)

(* What the three responses of PROCEEDING begin with.                      *)
NewSeries == InitRetransmissionInfo(StopTxnTimer(srv))

(* Mutant: the key in the list never gets the RSeq.                        *)
Mut_KeyWithoutRSeq(r) ==
    /\ stu = "invited" /\ srv.state = "PROCEEDING"
    /\ SendMsg([StartTxnTimer(NewSeries, "G", T1) EXCEPT !.max = 64 * T1], "rpr")
    /\ rkeys' = IF srv'.pooled THEN {0} ELSE {}

(* A provisional response takes the place of the last one, whose timer and *)
(* key go.  A reliable one (r > 0) is retransmitted whatever the transport *)
(* and waits for its PRACK.                                                *)
ProceedingState_SendNon100ProvisionalResponse(r) ==
    /\ stu = "invited" /\ srv.state = "PROCEEDING"
    /\ IF r = 0
         THEN /\ SendMsg(NewSeries, "prov")
              /\ rkeys' = {}
         ELSE /\ \/ SendMsg([StartTxnTimer(NewSeries, "G", T1) EXCEPT !.max = 64 * T1],
                            "rpr")
                 \/ "timer" \in Faults /\ SendRefused(NewSeries)
              /\ rkeys' = IF srv'.pooled THEN {r} ELSE {}

(* SessionEx::SendRpr: one at a time, and the number is used up only by a  *)
(* response that was sent.                                                 *)
SendRpr(r) ==
    /\ rseq = 0 \/ rseq \in pracked
    /\ r = rseq + 1
    /\ ProceedingState_SendNon100ProvisionalResponse(r)
    /\ rseq' = IF ok' THEN r ELSE rseq
    /\ UNCHANGED <<tp, stu, pracked>>
    /\ Tell(NoNews)

SendProvisional ==
    /\ ProceedingState_SendNon100ProvisionalResponse(0)
    /\ UNCHANGED <<tp, stu, rseq, pracked>>
    /\ Tell(NoNews)

(* Mutant: the accounting of the reliable provisional response goes on.    *)
Mut_SeriesNotReset ==
    LET t == StopTxnTimer(srv) IN
    [(IF tp = "UDP" THEN StartTxnTimer(t, "G", T1)
      ELSE [StartTxnTimer(t, "H", TimerH) EXCEPT !.expired = TimerH])
        EXCEPT !.max = TimerH, !.state = "COMPLETED"]

(* Timer G over UDP, otherwise Timer H, whose time is accounted for at     *)
(* once.                                                                   *)
ProceedingState_SendFailureResponse ==
    [(IF tp = "UDP" THEN StartTxnTimer(NewSeries, "G", T1)
      ELSE [StartTxnTimer(NewSeries, "H", TimerH) EXCEPT !.expired = TimerH])
        EXCEPT !.max = TimerH, !.state = "COMPLETED"]

SendFailure ==
    /\ stu = "invited" /\ srv.state = "PROCEEDING"
    /\ rkeys' = {}
    /\ \/ /\ SendMsg(ProceedingState_SendFailureResponse, "fail")
          /\ stu' = "rejected"
       \/ /\ "timer" \in Faults
          /\ SendRefused(NewSeries)
          /\ UNCHANGED stu
    /\ UNCHANGED <<tp, rseq, pracked>>
    /\ Tell(NoNews)

ProceedingState_Send2xxResponse ==
    [StartTxnTimer(NewSeries, "L", TimerL) EXCEPT
        !.max = TimerL, !.expired = TimerL, !.state = "ACCEPTED"]

(* Without Timer L the 2xx still leaves and the object leaves the pool     *)
(* (DeleteTxn), but only when the 2xx has left.                            *)
Send2xx ==
    /\ stu = "invited" /\ srv.state = "PROCEEDING"
    /\ rkeys' = {}
    /\ \/ SendMsg(ProceedingState_Send2xxResponse, "2xx")
       \/ /\ "timer" \in Faults
          /\ LET t == [NewSeries EXCEPT !.state = "TERMINATED"] IN
             \/ /\ \E s \in SendToNetwork(TRUE, "2xx") :
                      /\ Emit(s)
                      /\ ok' = (s = "2xx")
                      /\ srv' = IF s = "2xx" THEN ReleaseTransaction(t) ELSE t
             \/ /\ "transp" \in Faults
                /\ SendRefused(AbortTxn(t))
    /\ stu' = "accepted"
    /\ UNCHANGED <<tp, rseq, pracked>>
    /\ Tell(NoNews)

(* Session::ExecuteCmd: the 2xx is sent again until the ACK arrives or a   *)
(* send fails.  Once the object has left the pool the 2xx goes directly to *)
(* the transport; then UpdateTxnDetails finds no object and SendMsg fails. *)
Send2xxAgain ==
    /\ stu = "accepted" /\ ok /\ "ack" \notin told
    /\ \/ /\ srv.state = "ACCEPTED"
          /\ SendMsg(srv, "2xx")
       \/ /\ ~srv.pooled
          /\ \E s \in SendToNetwork(TRUE, "2xx") : Emit(s)
          /\ ok' = FALSE
          /\ UNCHANGED srv
    /\ UNCHANGED <<tp, rkeys, stu, rseq, pracked>>
    /\ Tell(NoNews)

-----------------------------------------------------------------------------
(* ACK and PRACK.                                                          *)

AcceptedState_ReceiveAckRequest ==
    /\ srv.state = "ACCEPTED"
    /\ srv' = [srv EXCEPT !.ackReceived = TRUE]
    /\ Tell(IF srv.ackReceived THEN NoNews ELSE "ack")

(* The ACK of a failure response stays in the stack.  Over UDP it is       *)
(* awaited again for Timer I, otherwise the object leaves the pool.        *)
CompletedState_ReceiveAckRequest ==
    /\ srv.state = "COMPLETED"
    /\ LET t == StopTxnTimer(srv) IN
       IF GetMsgSentProto(t) = "UDP"
         THEN \/ srv' = [StartTxnTimer(t, "I", TimerI) EXCEPT !.state = "CONFIRMED"]
              \/ "timer" \in Faults /\ srv' = t
         ELSE srv' = ReleaseTransaction(t)
    /\ Tell(NoNews)

ConfirmedState_ReceiveAckRequest ==
    /\ srv.state = "CONFIRMED"
    /\ UNCHANGED srv
    /\ Tell(NoNews)

(* An ACK answers a final response that was sent.                          *)
RecvAck ==
    /\ srv.pooled /\ out \cap {"2xx", "fail"} # {}
    /\ \/ AcceptedState_ReceiveAckRequest
       \/ CompletedState_ReceiveAckRequest
       \/ ConfirmedState_ReceiveAckRequest
    /\ Emit(NoMsg)
    /\ UNCHANGED <<tp, rkeys, ok, stu, rseq, pracked>>

(* Mutant: the PRACK leaves the INVITE transaction alone.                  *)
Mut_PrackIgnored(r) ==
    /\ srv' = srv
    /\ rkeys' = rkeys \ {r}
    /\ pracked' = pracked \cup {r} /\ Tell("prack")

(* A new PRACK transaction looks for the key of the INVITE transaction     *)
(* with the RSeq of its RAck: found, the retransmission ends; another RSeq *)
(* outstanding, the PRACK is stray and is answered with a 481; no key at   *)
(* all, the PRACK just goes up.                                            *)
PrackMatches(r) ==
    /\ srv' = IF r \in rkeys THEN StopTxnTimer(srv) ELSE srv
    /\ rkeys' = IF r \in rkeys THEN {} ELSE rkeys
    /\ IF r \in rkeys \/ rkeys = {}
         THEN pracked' = pracked \cup {r} /\ Tell("prack")
         ELSE UNCHANGED pracked /\ Tell("strayPrack")

(* The peer acknowledges a reliable provisional response that was sent.    *)
RecvPrack(r) ==
    /\ r \in 1 .. rseq
    /\ PrackMatches(r)
    /\ Emit(NoMsg)
    /\ UNCHANGED <<tp, ok, stu, rseq>>

-----------------------------------------------------------------------------
(* Timers.                                                                 *)

(* Mutant: an interval is started even when 64 T1 are used up.             *)
Mut_GivesUpLate(t) ==
    LET e == CountFirstInterval(t) IN
    IF e.expired > e.max THEN [e EXCEPT !.rprTerminated = TRUE]
    ELSE Restart(e, "G", e.cur * 2)

(* A reliable provisional response: double the interval until 64 T1 are    *)
(* used up, then give up, in PROCEEDING.                                   *)
ProceedingState_Timer_G_H_Timeout(t) ==
    LET e == CountFirstInterval(t) IN
    IF e.expired >= e.max THEN [e EXCEPT !.rprTerminated = TRUE]
    ELSE Restart(e, "G", Clipped(e, e.cur * 2))

(* A failure response: over UDP double the interval up to T2 until Timer H *)
(* is used up.                                                             *)
CompletedState_Timer_G_H_Timeout(t) ==
    LET e == CountFirstInterval(t) IN
    IF GetMsgSentProto(e) = "UDP" /\ e.expired < e.max
      THEN Restart(e, "G", Clipped(e, Minimum(e.cur * 2, T2)))
      ELSE [e EXCEPT !.state = "TERMINATED"]

(* Mutant: ACCEPTED has no handler for Timer L.                            *)
Mut_TimerLIgnored(t, type) ==
    CASE t.state = "PROCEEDING" /\ type \in {"G", "H"} ->
            ProceedingState_Timer_G_H_Timeout(t)
      [] t.state = "COMPLETED" /\ type \in {"G", "H"} ->
            CompletedState_Timer_G_H_Timeout(t)
      [] OTHER -> t

(* The row of the state table for a timer event.                           *)
SrvOnTimer(t, type) ==
    CASE t.state = "PROCEEDING" /\ type \in {"G", "H"} ->
            ProceedingState_Timer_G_H_Timeout(t)
      [] t.state = "COMPLETED" /\ type \in {"G", "H"} ->
            CompletedState_Timer_G_H_Timeout(t)
      [] t.state = "ACCEPTED"  /\ type = "L" -> [t EXCEPT !.state = "TERMINATED"]
      [] t.state = "CONFIRMED" /\ type = "I" -> [t EXCEPT !.state = "TERMINATED"]
      [] OTHER -> t

(* NotifyTimerExpired: the user is told of Timers G and H, once, because   *)
(* the user data are cleared.                                              *)
Expired(type, state) ==
    Tell(IF ~srv.ud \/ type \notin {"G", "H"} THEN NoNews
         ELSE IF state = "TERMINATED" THEN "ackTimeout" ELSE "rprTimeout")

SrvCbkTxnTimeout ==
    /\ srv.pooled /\ srv.timer # NoTimer
    /\ LET type == srv.timer
           f == SrvOnTimer(TimerFired(srv), type)
           over == f.state = "TERMINATED" \/ f.rprTerminated
       IN
       \/ /\ over
          /\ srv' = IF f.state = "TERMINATED" THEN ReleaseTransaction(f)
                    ELSE [f EXCEPT !.ud = FALSE]
          /\ Expired(type, f.state)
          /\ Emit(NoMsg)
       \/ /\ ~over
          /\ srv' = f
          /\ \E m \in SendToNetwork(f.ud, f.msg) : Emit(m)
          /\ Tell(NoNews)
       \/ /\ "timer" \in Faults /\ f.timer # NoTimer
          /\ srv' = CountFirstInterval(TimerFired(srv))
          /\ Emit(NoMsg)
          /\ Tell(NoNews)
    /\ UNCHANGED <<tp, rkeys, ok, stu, rseq, pracked>>

-----------------------------------------------------------------------------
(* TerminateTxn: the transaction user aborts the transaction.              *)
SrvTerminateTxn ==
    /\ srv.pooled /\ srv.ud
    /\ srv' = AbortTxn(srv)
    /\ rkeys' = {}
    /\ stu' = IF stu = "invited" THEN "aborted" ELSE stu
    /\ Tell(NoNews) /\ Emit(NoMsg)
    /\ UNCHANGED <<tp, ok, rseq, pracked>>

(* OnRecvTanspError: a message sent over TCP is from now on one sent over  *)
(* UDP; the retry itself has empty user data and never reaches a socket.   *)
(* The state machine stays where it is.                                    *)
SrvOnRecvTranspError ==
    /\ "transpErr" \in Faults
    /\ srv.pooled /\ srv.msg # NoMsg
    /\ srv' = [srv EXCEPT !.proto = "UDP"]
    /\ Tell(NoNews) /\ Emit(NoMsg)
    /\ UNCHANGED <<tp, rkeys, ok, stu, rseq, pracked>>

SrvNext ==
    \/ IdleState_ReceiveInviteRequest
    \/ RecvInviteAgain
    \/ SendProvisional
    \/ \E r \in 1 .. MaxRSeq : SendRpr(r)
    \/ SendFailure
    \/ Send2xx
    \/ Send2xxAgain
    \/ RecvAck
    \/ \E r \in 1 .. MaxRSeq : RecvPrack(r)
    \/ SrvCbkTxnTimeout
    \/ SrvTerminateTxn
    \/ SrvOnRecvTranspError

(* The platform delivers the expiry of a running timer eventually.         *)
SrvSpec     == SrvInit /\ [][SrvNext]_srvVars
SrvFairSpec == SrvSpec /\ WF_srvVars(SrvCbkTxnTimeout)

-----------------------------------------------------------------------------
(* Properties.                                                             *)

(* The transaction user learns that a reliable provisional response was    *)
(* not acknowledged after exactly 64 T1, whatever series ran before, and   *)
(* only while the key of a response still waits for its PRACK.             *)
RprTimeoutExact ==
    [][up' = "rprTimeout" => /\ srv'.elapsed = 64 * T1
                             /\ rkeys # {} /\ rkeys \cap pracked = {}]_srvVars

(* It learns that a failure response that was sent was not acknowledged    *)
(* after exactly Timer H, whatever reliable provisional responses and      *)
(* their timers went before, and whatever the transport.                   *)
AckTimeoutExact ==
    [][up' = "ackTimeout" /\ "fail" \in out => srv'.elapsed = TimerH]_srvVars

(* Retransmission and the wait for the PRACK belong together: a response   *)
(* sent again in PROCEEDING is the last one, its PRACK was not given to    *)
(* the transaction user and can still be matched; and one whose PRACK is   *)
(* waited for is sent again until the user is told of the timeout.         *)
RprPending ==
    srv.state = "PROCEEDING" =>
        /\ srv.timer = "G" => rkeys = {rseq} /\ rseq \notin pracked
        /\ rkeys # {} => srv.timer = "G" \/ "rprTimeout" \in told

(* The first PRACK of the last reliable provisional response reaches the   *)
(* transaction user; it is never answered with a 481, whenever it arrives. *)
PrackReachesUser ==
    [][up' = "strayPrack" => rseq \in pracked \/ rseq \in rkeys']_srvVars

(* A transaction that was answered leaves the pool.                        *)
AnsweredEnds ==
    (srv.state \in {"ACCEPTED", "COMPLETED", "CONFIRMED"}) ~> ~srv.pooled

(* Over UDP a failure response is sent again whenever Timer G is           *)
(* restarted.                                                              *)
FailureRetransmitted ==
    [][srv.state = "COMPLETED" /\ srv'.state = "COMPLETED" /\ srv'.count > srv.count
          => reply' = "fail"]_srvVars
=============================================================================
