------------------------- MODULE SipInviteClientTxn -------------------------
(***************************************************************************)
(* The INVITE client transaction (SipInviteClientTxn.cpp) together with    *)
(* the code that drives it: SipStackManager::SendMsg and OnRecvMessage,    *)
(* SipTxnHandler, and the timer callback CbkTxnTimeout.  One action is one *)
(* call into the stack, with everything the call does before it returns.   *)
(*                                                                         *)
(* The transaction user (tu, seen, given) is the engine above; it only     *)
(* records what the stack hands up.  The module is open: any response may  *)
(* arrive at any time once the INVITE has left.                            *)
(***************************************************************************)
EXTENDS SipRSeq

CONSTANTS
    TimerB, TimerD, TimerM,
    Tags  \* to-tags of the user agents the INVITE may fork to

(* Timer B bounds the retransmissions, so it is not shorter than T1.       *)
ASSUME ClientTimerAssumption ==
    /\ TimerB \in T1 .. MaxTimerValue
    /\ TimerD \in 1 .. MaxTimerValue /\ TimerM \in 1 .. MaxTimerValue

VARIABLES
    cli,   \* the transaction object
    keys,  \* s_txnKeyList: the last RSeq accepted from each to-tag, 0 if none
    sent,  \* what this step handed to the network
    tu,    \* what the transaction user knows of its INVITE
    seen,  \* the last RSeq the transaction user was given, per to-tag
    given  \* history: how many of them it was given, per to-tag

vars == <<cli, keys, sent, tu, seen, given>>

CliStates == {"IDLE", "CALLING", "PROCEEDING", "ACCEPTED", "COMPLETED",
              "TERMINATED"}
CliTimers == {"A", "B", "D", "M"}
CliMsgs   == {"INVITE", "ACK"}
TuStates  == {"idle", "waiting", "proceeding", "success", "failure",
              "timedOut", "aborted"}
TuFinal   == {"success", "failure", "timedOut", "aborted"}

(* Responses: a 1xx above 100 carries an RSeq when it is reliable.         *)
Responses ==
    {m \in [code : {"100", "1xx", "2xx", "fail"}, tag : Tags, rseq : 0 .. MaxRSeq] :
        m.code # "1xx" => m.rseq = 0}

TypeOK ==
    /\ cli \in Txn(CliStates, CliTimers, CliMsgs)
    /\ keys \in [Tags -> 0 .. MaxRSeq]
    /\ sent \in CliMsgs \cup {NoMsg}
    /\ tu \in TuStates
    /\ seen \in [Tags -> 0 .. MaxRSeq]
    /\ given \in [Tags -> Nat]

NoKeys == [t \in Tags |-> 0]

Init ==
    /\ cli = NewTxn
    /\ keys = NoKeys
    /\ sent = NoMsg
    /\ tu = "idle"
    /\ seen = NoKeys
    /\ given = [t \in Tags |-> 0]

-----------------------------------------------------------------------------
(* Sending the INVITE.                                                     *)

(* Mutant: Timer B is forgotten over TCP.                                  *)
Mut_NoTimerB(p) ==
    LET t == [NewTxn EXCEPT !.state = "CALLING", !.pooled = TRUE,
                            !.max = TimerB, !.ud = TRUE]
    IN  IF p = "UDP" THEN StartTxnTimer(t, "A", T1) ELSE t

(* The object as the handler leaves it when the timer could be started.    *)
IdleState_SendInviteRequest(p) ==
    LET t == [NewTxn EXCEPT !.state = "CALLING", !.pooled = TRUE,
                            !.max = TimerB, !.ud = TRUE]
    IN  IF p = "UDP" THEN StartTxnTimer(t, "A", T1)
                     ELSE StartTxnTimer(t, "B", TimerB)

(* SendMsg for a new INVITE over protocol p.  When it fails the caller     *)
(* learns so at once; the object may stay behind, without user data, until *)
(* its timer expires.                                                      *)
SendInvite(p) ==
    /\ tu = "idle"
    /\ LET t == IdleState_SendInviteRequest(p) IN
       \/ /\ cli' = UpdateTranspInfo(t, "INVITE", p)
          /\ sent' = "INVITE"
          /\ tu' = "waiting"
       \/ /\ "timer" \in Faults         \* not kept in the pool
          /\ tu' = "aborted"
          /\ sent' = NoMsg
          /\ UNCHANGED cli
       \/ /\ "transp" \in Faults        \* OnSendTranspError
          /\ cli' = AbortTxn(t)
          /\ sent' = NoMsg
          /\ tu' = "aborted"
       \/ /\ "net" \in Faults           \* the object stays in the pool
          /\ cli' = [t EXCEPT !.ud = FALSE]
          /\ sent' = NoMsg
          /\ tu' = "aborted"
    /\ UNCHANGED <<keys, seen, given>>

-----------------------------------------------------------------------------
(* Receiving a response.  The response is matched to the object while it   *)
(* is in the pool; a response without object changes nothing here.         *)

CanReceive == cli.pooled /\ cli.msg # NoMsg

(* What the transaction user makes of a response it is handed.             *)
Indicate(m) ==
    /\ tu' = CASE m.code = "2xx"  -> "success"
               [] m.code = "fail" -> "failure"
               [] OTHER           -> "proceeding"
    /\ seen' = IF m.rseq > 0 THEN [seen EXCEPT ![m.tag] = m.rseq] ELSE seen
    /\ given' = IF m.rseq > 0 THEN [given EXCEPT ![m.tag] = @ + 1] ELSE given

Provisional(m) == m.code \in {"100", "1xx"}
CallingState_Receive1xx(m) ==
    /\ cli.state = "CALLING" /\ Provisional(m)
    /\ cli' = [StopTxnTimer(cli) EXCEPT !.state = "PROCEEDING"]
    /\ keys' = IF m.rseq > 0 THEN [keys EXCEPT ![m.tag] = m.rseq] ELSE keys
    /\ Indicate(m)
    /\ sent' = NoMsg

(* Mutant: the last one is accepted again.                                 *)
Mut_RepeatAccepted(m) ==
    keys[m.tag] = 0 \/ m.rseq \in {keys[m.tag], keys[m.tag] + 1}

(* Mutant: a response that was seen before counts as new.                  *)
Mut_OldRprNew(m) == m.rseq <= keys[m.tag] + 1

(* A reliable provisional response is new when it is the first with this   *)
(* to-tag or follows the last one without a gap.                           *)
NewRpr(m) == keys[m.tag] = 0 \/ m.rseq = keys[m.tag] + 1

ProceedingState_Receive1xx(m) ==
    /\ cli.state = "PROCEEDING" /\ Provisional(m)
    /\ IF m.rseq = 0 \/ NewRpr(m)
         THEN /\ keys' = IF m.rseq > 0 THEN [keys EXCEPT ![m.tag] = m.rseq]
                                       ELSE keys
              /\ Indicate(m)
         ELSE UNCHANGED <<keys, tu, seen, given>>  \* retransmission or stray
    /\ sent' = NoMsg
    /\ UNCHANGED cli

(* Provisional responses after the final one are absorbed.                 *)
LateProvisional(m) ==
    /\ cli.state \in {"ACCEPTED", "COMPLETED"} /\ Provisional(m)
    /\ sent' = NoMsg
    /\ UNCHANGED <<cli, keys, tu, seen, given>>

(* CALLING stops its timer, PROCEEDING has none and drops the key of the   *)
(* answering to-tag; both wait in ACCEPTED for Timer M.                    *)
Receive2xx(m) ==
    /\ cli.state \in {"CALLING", "PROCEEDING"} /\ m.code = "2xx"
    /\ keys' = IF cli.state = "PROCEEDING" THEN [keys EXCEPT ![m.tag] = 0]
                                           ELSE keys
    /\ LET t == IF cli.state = "CALLING" THEN StopTxnTimer(cli) ELSE cli IN
       \/ /\ cli' = [StartTxnTimer(t, "M", TimerM) EXCEPT !.state = "ACCEPTED"]
          /\ Indicate(m)
       \/ /\ "timer" \in Faults
          /\ cli' = t
          /\ UNCHANGED <<tu, seen, given>>
    /\ sent' = NoMsg

AcceptedState_Receive2xx(m) ==
    /\ cli.state = "ACCEPTED" /\ m.code = "2xx"
    /\ keys' = [keys EXCEPT ![m.tag] = 0]
    /\ Indicate(m)
    /\ sent' = NoMsg
    /\ UNCHANGED cli

AcceptedState_ReceiveFailure(m) ==
    /\ cli.state = "ACCEPTED" /\ m.code = "fail"
    /\ keys' = [keys EXCEPT ![m.tag] = 0]
    /\ sent' = NoMsg
    /\ UNCHANGED <<cli, tu, seen, given>>

(* Mutant: no Timer D over TCP, as RFC 3261 would have it.                 *)
Mut_TimerDOverUdpOnly(t) ==
    IF t.proto = "UDP"
      THEN [StartTxnTimer(t, "D", TimerD) EXCEPT !.state = "COMPLETED"]
      ELSE [t EXCEPT !.state = "COMPLETED"]

(* HandleFailureResponse: Timer D whatever the transport, then COMPLETED.  *)
HandleFailureResponse(t) ==
    [StartTxnTimer(t, "D", TimerD) EXCEPT !.state = "COMPLETED"]

(* Mutant: the response is acknowledged and not handed up.                 *)
Mut_AckOnly(m) ==
    /\ cli.state \in {"CALLING", "PROCEEDING"} /\ m.code = "fail"
    /\ cli' = UpdateTranspInfo(HandleFailureResponse(StopTxnTimer(cli)), "ACK", cli.proto)
    /\ sent' = "ACK"
    /\ UNCHANGED <<keys, tu, seen, given>>

(* A failure response in CALLING or PROCEEDING.  The stack sends the ACK   *)
(* itself, in the same call, and only then records it as the message to    *)
(* retransmit.                                                             *)
ReceiveFailure(m) ==
    /\ cli.state \in {"CALLING", "PROCEEDING"} /\ m.code = "fail"
    /\ keys' = IF cli.state = "PROCEEDING" THEN NoKeys ELSE keys
    /\ LET t == IF cli.state = "CALLING" THEN StopTxnTimer(cli) ELSE cli
           c == HandleFailureResponse(t)
       IN
       \/ /\ Indicate(m)
          /\ \E s \in SendToNetwork(t.ud, "ACK") :
                /\ sent' = s
                /\ cli' = IF s = "ACK" THEN UpdateTranspInfo(c, "ACK", t.proto)
                                       ELSE c
       \/ /\ Faults \cap {"timer", "ack"} # {}   \* INVALID_MESSAGE
          /\ cli' = t
          /\ sent' = NoMsg
          /\ UNCHANGED <<tu, seen, given>>
       \/ /\ "transp" \in Faults                 \* OnSendTranspError
          /\ cli' = AbortTxn(c)
          /\ sent' = NoMsg
          /\ Indicate(m)

(* A retransmitted failure response: the recorded message is sent again.   *)
CompletedState_ReceiveFailure(m) ==
    /\ cli.state = "COMPLETED" /\ m.code = "fail"
    /\ sent' \in SendToNetwork(cli.ud, cli.msg)
    /\ UNCHANGED <<cli, keys, tu, seen, given>>

(* Mutant: the 2xx is handed to the transaction user.                      *)
Mut_2xxAfterFailure(m) ==
    /\ cli.state = "COMPLETED" /\ m.code = "2xx"
    /\ Indicate(m)
    /\ sent' = NoMsg
    /\ UNCHANGED <<cli, keys>>

(* COMPLETED has no handler for a 2xx: the message is invalid.             *)
CompletedState_Receive2xx(m) ==
    /\ cli.state = "COMPLETED" /\ m.code = "2xx"
    /\ sent' = NoMsg
    /\ UNCHANGED <<cli, keys, tu, seen, given>>

OnRecvMessage(m) ==
    /\ CanReceive
    /\ \/ CallingState_Receive1xx(m)
       \/ ProceedingState_Receive1xx(m)
       \/ LateProvisional(m)
       \/ Receive2xx(m)
       \/ AcceptedState_Receive2xx(m)
       \/ AcceptedState_ReceiveFailure(m)
       \/ ReceiveFailure(m)
       \/ CompletedState_ReceiveFailure(m)
       \/ CompletedState_Receive2xx(m)

-----------------------------------------------------------------------------
(* Timers.                                                                 *)

(* Timer A or B fired: double the interval over UDP until Timer B's value  *)
(* is used up, give up otherwise.                                          *)
CallingState_Timer_A_B_Timeout(t) ==
    LET e == CountFirstInterval(t) IN
    IF GetMsgSentProto(e) = "UDP" /\ e.expired < e.max
      THEN Restart(e, "A", Clipped(e, PowerOf2[e.count + 1] * T1))
      ELSE [e EXCEPT !.state = "TERMINATED"]

(* The row of the state table for a timer event; other entries are         *)
(* HandleInvalidStateEvent.                                                *)
OnTimer(t, type) ==
    CASE t.state = "CALLING" /\ type \in {"A", "B"} ->
            CallingState_Timer_A_B_Timeout(t)
      [] t.state = "ACCEPTED" /\ type = "M" -> [t EXCEPT !.state = "TERMINATED"]
      [] t.state = "COMPLETED" /\ type = "D" -> [t EXCEPT !.state = "TERMINATED"]
      [] OTHER -> t

(* NotifyTimerExpired tells the transaction user of Timers A and B only,   *)
(* and only while the user data lead to it.                                *)
CbkTxnTimeout ==
    /\ cli.pooled /\ cli.timer # NoTimer
    /\ LET type == cli.timer
           f == OnTimer(TimerFired(cli), type)
       IN
       \/ /\ f.state = "TERMINATED"
          /\ cli' = ReleaseTransaction(f)
          /\ keys' = IF type = "M" THEN NoKeys ELSE keys
          /\ tu' = IF type \in {"A", "B"} /\ cli.ud THEN "timedOut" ELSE tu
          /\ sent' = NoMsg
       \/ /\ f.state # "TERMINATED"
          /\ cli' = f
          /\ sent' \in SendToNetwork(f.ud, f.msg)
          /\ UNCHANGED <<keys, tu>>
       \/ /\ "timer" \in Faults /\ f.timer # NoTimer
          /\ cli' = CountFirstInterval(TimerFired(cli))
          /\ sent' = NoMsg
          /\ UNCHANGED <<keys, tu>>
    /\ UNCHANGED <<seen, given>>

-----------------------------------------------------------------------------
(* The two ways to end a transaction from outside.                         *)

(* Mutant: the keys of the aborted transaction stay in the list.           *)
Mut_KeysKept ==
    /\ cli.pooled /\ cli.ud
    /\ cli' = AbortTxn(cli)
    /\ tu' = IF tu \in TuFinal THEN tu ELSE "aborted"
    /\ sent' = NoMsg
    /\ UNCHANGED <<keys, seen, given>>

(* TerminateTxn: the transaction user aborts the transaction it started.   *)
TerminateTxn ==
    /\ cli.pooled /\ cli.ud
    /\ cli' = AbortTxn(cli)
    /\ keys' = NoKeys
    /\ tu' = IF tu \in TuFinal THEN tu ELSE "aborted"
    /\ sent' = NoMsg
    /\ UNCHANGED <<seen, given>>

(* OnRecvTanspError.  Over TCP the message is first retried over UDP, with *)
(* empty user data, which never reaches a socket; then the state machine   *)
(* gets the error.                                                         *)
OnRecvTranspError ==
    /\ "transpErr" \in Faults
    /\ CanReceive
    /\ cli' = ReleaseTransaction(IF cli.state = "PROCEEDING" THEN cli
                                                             ELSE StopTxnTimer(cli))
    /\ keys' = IF cli.state = "ACCEPTED" THEN NoKeys ELSE keys
    /\ tu' = IF tu \in TuFinal THEN tu ELSE "aborted"
    /\ sent' = NoMsg
    /\ UNCHANGED <<seen, given>>

Next ==
    \/ \E p \in Protocols : SendInvite(p)
    \/ \E m \in Responses : OnRecvMessage(m)
    \/ CbkTxnTimeout
    \/ TerminateTxn
    \/ OnRecvTranspError

(* The platform delivers the expiry of a running timer eventually.  No     *)
(* fairness for the network, the transaction user or the peer.             *)
Spec     == Init /\ [][Next]_vars
FairSpec == Spec /\ WF_vars(CbkTxnTimeout)

-----------------------------------------------------------------------------
(* Properties.                                                             *)

(* Each transaction has at most one platform timer running, the one its    *)
(* identifier denotes, and none once it has left the pool: no restart in a *)
(* handler overwrites a running timer (StartTxnTimer does not stop it) and *)
(* no path to the end of the transaction leaves one behind.                *)
NoOrphanTimer == cli.running = IF cli.pooled /\ cli.timer # NoTimer THEN 1 ELSE 0

(* Every state that waits for a timer has exactly that timer running, so   *)
(* no timer event reaches a state without a handler for it and no waiting  *)
(* state is left without a way out.  PROCEEDING has no timer: it ends when *)
(* the peer or the transaction user ends it.                               *)
TimerOf(s) ==
    CASE s = "CALLING"   -> {"A", "B"}
      [] s = "ACCEPTED"  -> {"M"}
      [] s = "COMPLETED" -> {"D"}
      [] OTHER           -> {NoTimer}
TimerCoversState == cli.timer \in TimerOf(cli.state)

(* The timeout is reported when the timers have run for exactly Timer B:   *)
(* counting the first interval late and the others early, and cutting the  *)
(* last one, adds up (CallingState_Timer_A_B_Timeout).                     *)
TimeoutExact == tu = "timedOut" => cli.elapsed = TimerB

(* Retransmissions leave at T1, 3 T1, 7 T1, ...: the interval doubles      *)
(* after each of them.                                                     *)
InviteSchedule ==
    cli.state = "CALLING" /\ cli.timer = "A" =>
        cli.elapsed = (PowerOf2[cli.count] - 1) * T1

(* The transaction user is given the reliable provisional responses of a   *)
(* to-tag in order and without repetition: each one it is given is the     *)
(* first, or follows the last one, however the network duplicates and      *)
(* reorders them and however many user agents answer                       *)
(* (ProceedingState_Receive1xx).                                           *)
RprInOrder ==
    [][\A t \in Tags : given'[t] # given[t] =>
            seen[t] = 0 \/ seen'[t] = seen[t] + 1]_vars

(* The global list of keys holds nothing of a transaction that is gone, so *)
(* a later INVITE of the dialog does not meet a stale key - but for a      *)
(* transport error, after which only ACCEPTED deletes them                 *)
(* (SipTxnHandler.cpp:267).                                                *)
NoLeakedKeys ==
    [][cli.pooled /\ ~cli'.pooled /\ keys' # NoKeys => OnRecvTranspError]_vars

(* What the transaction user sees is what the contract allows: one outcome *)
(* that never changes, a timeout only while nothing was received.          *)
Contract ==
    INSTANCE SipTxnContract WITH
        user <- tu, Outcomes <- {"success", "failure"}, TimeoutFrom <- {"waiting"}
ImplementsContract == Contract!Spec

(* The transaction user does not wait for a first answer for ever.         *)
UserNotLeftWaiting == tu = "waiting" ~> tu # "waiting"
=============================================================================
