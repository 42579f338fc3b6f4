--------------------------- MODULE SipInviteTxnNet ---------------------------
(***************************************************************************)
(* An INVITE client transaction and the server transaction of its peer,    *)
(* both built from this stack, on a network that loses, repeats, delays    *)
(* and reorders: whatever was sent stays in the network and may be         *)
(* received any number of times, or never.                                 *)
(*                                                                         *)
(* The transaction user of the client acknowledges what it is given: a     *)
(* PRACK for every reliable provisional response, an ACK for a 2xx.  Both  *)
(* bypass the INVITE transaction of the client, so that they may arrive as *)
(* soon as the response was handed up.  The ACK of a failure response is   *)
(* the stack's own.                                                        *)
(***************************************************************************)
EXTENDS SipInviteClientTxn, SipInviteServerTxn

VARIABLES
    toSrv,  \* requests the client side has ever sent
    toCli   \* responses the server side has ever sent

netVars == <<vars, srvVars, toSrv, toCli>>

(* The peer is one of the user agents that may answer.                     *)
ASSUME PeerAssumption == Tags # {}
Peer == CHOOSE t \in Tags : TRUE

(* What the server hands the network, as the client reads it.              *)
AsResponse(m) ==
    [code |-> IF m \in {"prov", "rpr"} THEN "1xx" ELSE m,
     tag  |-> Peer,
     rseq |-> IF m = "rpr" THEN rseq' ELSE 0]

NetInit == Init /\ SrvInit /\ toSrv = {} /\ toCli = {}

ClientStep ==
    /\ \/ SendInvite(tp)
       \/ \E m \in toCli : OnRecvMessage(m)
       \/ CbkTxnTimeout
       \/ TerminateTxn
       \/ OnRecvTranspError
    /\ toSrv' = toSrv \cup ({sent'} \ {NoMsg})
    /\ UNCHANGED <<srvVars, toCli>>

(* The ACK the client side has sent for the response the server is in.     *)
AckArrives ==
    \/ "ACK" \in toSrv /\ srv.state \in {"COMPLETED", "CONFIRMED"}
    \/ tu = "success" /\ srv.state = "ACCEPTED"

ServerStep ==
    /\ \/ "INVITE" \in toSrv /\ IdleState_ReceiveInviteRequest
       \/ "INVITE" \in toSrv /\ RecvInviteAgain
       \/ SendProvisional
       \/ \E r \in 1 .. MaxRSeq : SendRpr(r)
       \/ SendFailure
       \/ Send2xx
       \/ Send2xxAgain
       \/ AckArrives /\ RecvAck
       \/ \E r \in 1 .. seen[Peer] : RecvPrack(r)
       \/ SrvCbkTxnTimeout
       \/ SrvTerminateTxn
       \/ SrvOnRecvTranspError
    /\ toCli' = toCli \cup (IF reply' = NoMsg THEN {} ELSE {AsResponse(reply')})
    /\ UNCHANGED <<vars, toSrv>>

NetNext == ClientStep \/ ServerStep
NetSpec == NetInit /\ [][NetNext]_netVars

(* The timer of the server transaction expires; nothing else is fair.      *)
NetFairSpec == NetSpec /\ WF_netVars(SrvCbkTxnTimeout /\ ServerStep)

-----------------------------------------------------------------------------
(* Properties.                                                             *)

(* The two transaction users never hold opposite outcomes, and the server  *)
(* waits in CONFIRMED, or has told its user of an ACK, only when the user  *)
(* of the client was given the response that was acknowledged.             *)
OutcomeAgreed ==
    /\ tu = "success" => stu = "accepted"
    /\ tu = "failure" => stu = "rejected"
    /\ srv.state = "CONFIRMED" => tu = "failure"
    /\ "ack" \in told => tu = "success"

(* Reliable provisional responses go in lockstep: the user of the client   *)
(* is at most one response behind, whatever is repeated or reordered, and  *)
(* a PRACK is never taken for that of a response it was not given.         *)
RprLockstep ==
    /\ seen[Peer] <= rseq /\ rseq <= seen[Peer] + 1
    /\ \A r \in pracked : r <= seen[Peer]
=============================================================================
