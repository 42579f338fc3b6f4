------------------------- MODULE SipNonInviteTxnNet -------------------------
(***************************************************************************)
(* A non-INVITE client transaction and the server transaction of its peer, *)
(* both built from this stack, on a network that loses, repeats, delays    *)
(* and reorders: whatever was sent stays in net and may be received any    *)
(* number of times, or never.                                              *)
(*                                                                         *)
(* A copy of the request that comes when the server object has left the    *)
(* pool would start a new transaction; this module follows the first one.  *)
(***************************************************************************)
EXTENDS SipNonInviteClientTxn, SipNonInviteServerTxn

VARIABLE net  \* the messages that were ever sent

netVars == <<reqVars, ansVars, net>>

NetInit == ReqInit /\ AnsInit /\ net = {}

Sent(m) == net' = net \cup ({m} \ {NoMsg})

(* A step of the client; a response it receives was sent.                  *)
ClientSteps ==
    \/ SendRequest(atp)
    \/ \E code \in Codes \cap net : RecvResponse(code)
    \/ ReqCbkTxnTimeout
    \/ ReqTerminate

(* A step of the server; a request it receives was sent.                   *)
ServerSteps ==
    \/ "REQUEST" \in net /\ IdleState_ReceiveNonInviteRequest
    \/ "REQUEST" \in net /\ RecvRequestAgain
    \/ Send1xxResponse
    \/ SendFinalResponse
    \/ AnsCbkTxnTimeout
    \/ AnsTerminate

NetNext ==
    \/ ClientSteps /\ Sent(rsent') /\ UNCHANGED ansVars
    \/ ServerSteps /\ Sent(asent') /\ UNCHANGED reqVars

(* The platform delivers the expiry of the client's timers eventually.     *)
NetSpec     == NetInit /\ [][NetNext]_netVars
NetFairSpec ==
    NetSpec /\ WF_netVars(ReqCbkTxnTimeout /\ Sent(rsent') /\ UNCHANGED ansVars)

-----------------------------------------------------------------------------
(* Properties.                                                             *)

(* The two ends agree on how far the exchange has come: the client is      *)
(* PROCEEDING or COMPLETED only when the server is at least as far, and    *)
(* its user has an answer only when the peer's user has given one.         *)
Progress(s) ==
    CASE s = "IDLE" -> 0 [] s = "TRYING" -> 1 [] s = "PROCEEDING" -> 2
      [] s = "COMPLETED" -> 3 [] s = "TERMINATED" -> 3
ClientBehindServer ==
    /\ req.state \in {"PROCEEDING", "COMPLETED"} => Progress(req.state) <= Progress(ans.state)
    /\ ru = "answered" => au = "answered"
=============================================================================
