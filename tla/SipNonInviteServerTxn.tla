------------------------ MODULE SipNonInviteServerTxn ------------------------
(***************************************************************************)
(* The non-INVITE server transaction (SipNonInviteServerTxn.cpp) together  *)
(* with the code that drives it: SipStackManager, SipTxnHandler and the    *)
(* timer callback CbkTxnTimeout.  What a PRACK does to the INVITE          *)
(* transaction it acknowledges is part of SipInviteServerTxn.              *)
(*                                                                         *)
(* The transaction user (au) answers a request once, and again only when   *)
(* the stack refused the answer.                                           *)
(***************************************************************************)
EXTENDS SipTxn

CONSTANT TimerJ

ASSUME AnswerTimerAssumption == TimerJ \in 1 .. MaxTimerValue

VARIABLES
    ans,   \* the transaction object
    atp,   \* the protocol the request came over and the responses leave by
    asent, \* what this step handed to the network
    aout,  \* (history) what was ever handed to the network
    au     \* what the transaction user did

ansVars == <<ans, atp, asent, aout, au>>

AnsInit ==
    /\ ans = NewTxn
    /\ atp \in Protocols
    /\ asent = NoMsg /\ aout = {}
    /\ au = "none"

(* The step hands the network m, or nothing.                               *)
AnsEmit(m) == asent' = m /\ aout' = aout \cup ({m} \ {NoMsg})

-----------------------------------------------------------------------------
(* The request arrives and goes up to the transaction user.                *)
IdleState_ReceiveNonInviteRequest ==
    /\ au = "none"
    /\ ans' = [NewTxn EXCEPT !.state = "TRYING", !.pooled = TRUE, !.ud = TRUE]
    /\ au' = "asked"
    /\ AnsEmit(NoMsg)
    /\ UNCHANGED atp

(* A copy of it: ignored in TRYING, which has nothing to repeat, and       *)
(* answered with the recorded message in PROCEEDING and COMPLETED.         *)
RecvRequestAgain ==
    /\ ans.pooled
    /\ \/ ans.state \in {"PROCEEDING", "COMPLETED"}
          /\ \E m \in SendToNetwork(ans.ud, ans.msg) : AnsEmit(m)
       \/ ans.state \in {"TRYING", "TERMINATED"} /\ AnsEmit(NoMsg)
    /\ UNCHANGED <<ans, atp, au>>

-----------------------------------------------------------------------------
(* SendMsg after the state machine has made t of the object: what is left  *)
(* of it when the message has left, and whether it did.                    *)
SendMsgAns(t, m) ==
    \/ /\ AnsEmit(m)
       /\ ans' = IF t.state = "TERMINATED" THEN ReleaseTransaction(t)
                                           ELSE UpdateTranspInfo(t, m, atp)
    \/ /\ "net" \in Faults
       /\ AnsEmit(NoMsg)
       /\ ans' = t
    \/ /\ "transp" \in Faults            \* OnSendTranspError
       /\ AnsEmit(NoMsg)
       /\ ans' = AbortTxn(t)

Send1xxResponse ==
    /\ au = "asked" /\ ans.state \in {"TRYING", "PROCEEDING"}
    /\ SendMsgAns([ans EXCEPT !.state = "PROCEEDING"], "1xx")
    /\ UNCHANGED <<atp, au>>

(* Mutant: PROCEEDING answers without a change of state.                   *)
Mut_StateKept ==
    /\ au = "asked" /\ ans.state \in {"TRYING", "PROCEEDING"}
    /\ SendMsgAns(IF atp = "UDP" THEN StartTxnTimer(ans, "J", TimerJ)
                                 ELSE [ans EXCEPT !.state = "TERMINATED"], "final")
    /\ au' = "answered"
    /\ UNCHANGED atp

(* Over UDP the object answers repeated requests for Timer J; elsewhere it *)
(* leaves the pool (DeleteTxn), but only when the answer has left.         *)
SendFinalResponse ==
    /\ au = "asked" /\ ans.state \in {"TRYING", "PROCEEDING"}
    /\ \/ /\ SendMsgAns(IF atp = "UDP"
                          THEN [StartTxnTimer(ans, "J", TimerJ) EXCEPT !.state = "COMPLETED"]
                          ELSE [ans EXCEPT !.state = "TERMINATED"],
                        "final")
          /\ au' = "answered"
       \/ /\ "timer" \in Faults /\ atp = "UDP"   \* refused
          /\ AnsEmit(NoMsg)
          /\ UNCHANGED <<ans, au>>
    /\ UNCHANGED atp

-----------------------------------------------------------------------------
(* Timer J, the only timer; its user is not told (NotifyTimerExpired).     *)
AnsCbkTxnTimeout ==
    /\ ans.pooled /\ ans.timer = "J"
    /\ ans' = ReleaseTransaction(TimerFired(ans))
    /\ AnsEmit(NoMsg)
    /\ UNCHANGED <<atp, au>>

(* TerminateTxn, and OnRecvTanspError for a message that was sent.         *)
AnsTerminate ==
    /\ \/ ans.pooled /\ ans.ud
       \/ "transpErr" \in Faults /\ ans.pooled /\ ans.msg # NoMsg
    /\ ans' = AbortTxn(ans)
    /\ au' = IF au = "asked" THEN "aborted" ELSE au
    /\ AnsEmit(NoMsg)
    /\ UNCHANGED atp
==============================================================================
