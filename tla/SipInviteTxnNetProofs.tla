------------------------ MODULE SipInviteTxnNetProofs ------------------------
(***************************************************************************)
(* Proofs about an INVITE client transaction and the server transaction of *)
(* its peer, for every timer value, every bound on RSeq and every set of   *)
(* possible faults, on a network that loses, repeats and reorders:         *)
(*                                                                         *)
(*   NetIsClientAndServer, NetOutcomeAgreed,                               *)
(*                                                                         *)
(* and NetRprLockstep and NetRprPending when the handlers complete.        *)
(*                                                                         *)
(* The network only restricts what either side meets on its own, so that   *)
(* the invariants of both hold.  What is left is what the network may      *)
(* hold: nothing in it is ahead of the side that sent it.                  *)
(***************************************************************************)
EXTENDS SipInviteTxnNet, SipInviteClientProofs, SipInviteServerProofs

(* Both invariants hold, and the network holds responses.                  *)
BothInv == Inv /\ SrvInv /\ toCli \subseteq Responses

(* The to-tag of the peer is a to-tag.                                     *)
LEMMA PeerType == Peer \in Tags
  BY PeerAssumption DEF Peer

(* The server side hands the network responses.                            *)
LEMMA AsResponseType ==
    ASSUME SrvTypeOK', reply' # NoMsg
    PROVE  AsResponse(reply') \in Responses
<1>1. reply' \in {"prov", "rpr", "2xx", "fail"} /\ rseq' \in 0 .. MaxRSeq
  BY DEF SrvTypeOK, SrvMsgs
<1>2. 0 \in 0 .. MaxRSeq
  BY ZeroRSeq
<1> QED
  BY <1>1, <1>2, PeerType DEF AsResponse, Responses

(* A step of the network is one of the client or of the server.            *)
LEMMA NetStep ==
    ASSUME BothInv, [NetNext]_netVars
    PROVE  [Next]_vars /\ [SrvNext]_srvVars
<1>1. CASE ClientStep
  <2>1. srvVars' = srvVars
    BY <1>1 DEF ClientStep
  <2>2. tp \in Protocols
    BY DEF BothInv, SrvInv, SrvTypeOK
  <2>3. Next
    BY <1>1, <2>2 DEF ClientStep, BothInv, Next
  <2> QED
    BY <2>1, <2>3
<1>2. CASE ServerStep
  <2>1. vars' = vars
    BY <1>2 DEF ServerStep
  <2>2. seen[Peer] \in 0 .. MaxRSeq
    BY PeerType DEF BothInv, Inv
  <2>3. 1 .. seen[Peer] \subseteq 1 .. MaxRSeq
    BY <2>2, RSeqAssumption
  <2>4. SrvNext
    BY <1>2, <2>3 DEF ServerStep, SrvNext
  <2> QED
    BY <2>1, <2>4
<1>3. CASE UNCHANGED netVars
  BY <1>3 DEF netVars
<1> QED
  BY <1>1, <1>2, <1>3 DEF NetNext

(* BothInv is inductive.                                                   *)
LEMMA BothNext ==
    ASSUME BothInv, [NetNext]_netVars
    PROVE  BothInv'
<1>1. Inv' /\ SrvInv'
  BY NetStep, NextInv, SrvNextInv DEF BothInv
<1>2. toCli' \subseteq Responses
  <2>1. CASE ServerStep
    <3>1. toCli' = toCli \cup (IF reply' = NoMsg THEN {} ELSE {AsResponse(reply')})
      BY <2>1 DEF ServerStep
    <3>2. reply' # NoMsg => AsResponse(reply') \in Responses
      BY <1>1, AsResponseType DEF SrvInv
    <3> QED
      BY <3>1, <3>2 DEF BothInv
  <2>2. CASE ClientStep \/ UNCHANGED netVars
    BY <2>2 DEF ClientStep, netVars, BothInv
  <2> QED
    BY <2>1, <2>2 DEF NetNext
<1> QED
  BY <1>1, <1>2 DEF BothInv

(* It holds in every state.                                                *)
LEMMA BothInvariant == NetSpec => []BothInv
<1>1. NetInit => BothInv
  BY InitInv, SrvInitInv DEF NetInit, BothInv
<1> QED
  BY <1>1, BothNext, PTL DEF NetSpec

(* Composed, either side behaves as its module lets it on its own: every   *)
(* theorem about the client and about the server holds of the call.        *)
THEOREM NetIsClientAndServer == NetSpec => Spec /\ SrvSpec
<1>1. NetInit => Init /\ SrvInit
  BY DEF NetInit
<1>2. BothInv /\ [NetNext]_netVars => [Next]_vars /\ [SrvNext]_srvVars
  BY NetStep
<1> QED
  BY <1>1, <1>2, BothInvariant, PTL DEF NetSpec, Spec, SrvSpec

-----------------------------------------------------------------------------
(* What either side may send.                                              *)

(* What the server hands the network is on record as sent.                 *)
LEMMA ReplyRecorded ==
    ASSUME SrvNext
    PROVE  out \subseteq out' /\ (reply' # NoMsg => reply' \in out')
<1>1. \E m : Emit(m)
  BY DEF SrvNext, IdleState_ReceiveInviteRequest, RecvInviteAgain, SendProvisional,
         SendRpr, ProceedingState_SendNon100ProvisionalResponse, SendFailure,
         Send2xx, Send2xxAgain, RecvAck, RecvPrack, SrvCbkTxnTimeout,
         SrvTerminateTxn, SrvOnRecvTranspError, SendMsg, SendRefused
<1> QED
  BY <1>1 DEF Emit

(* The ACK of the stack leaves only for a failure response that the        *)
(* transaction user has been given.                                        *)
LEMMA AckSent ==
    ASSUME Inv, Next, sent' = "ACK"
    PROVE  tu' = "failure"
<1>1. /\ cli \in CliTxn /\ cli.ud \in BOOLEAN /\ cli.pooled \in BOOLEAN
      /\ TimerInv(cli) /\ PoolInv(cli, tu) /\ SeriesInv(cli)
  BY SMT DEF Inv, CliInv, CliTxn, Txn
<1>2. "ACK" # NoMsg /\ "INVITE" # "ACK"
  BY DEF NoMsg
<1>3. ASSUME NEW p \in Protocols, SendInvite(p) PROVE FALSE
  BY <1>2, <1>3 DEF SendInvite
<1>4. ASSUME NEW m \in Responses, OnRecvMessage(m) PROVE tu' = "failure"
  <2>1. CanReceive /\ (ReceiveFailure(m) \/ CompletedState_ReceiveFailure(m))
    BY <1>2, <1>4
       DEF OnRecvMessage, CallingState_Receive1xx, ProceedingState_Receive1xx,
           LateProvisional, Receive2xx, AcceptedState_Receive2xx,
           AcceptedState_ReceiveFailure, CompletedState_Receive2xx
  <2>2. CASE ReceiveFailure(m)
    <3>1. Indicate(m) /\ m.code = "fail"
      BY <1>2, <2>2 DEF ReceiveFailure
    <3> QED
      BY <3>1, IndicateTypes DEF Inv
  <2>3. CASE CompletedState_ReceiveFailure(m)
    <3>1. cli.state = "COMPLETED" /\ tu' = tu
      BY <2>3 DEF CompletedState_ReceiveFailure
    <3>2. tu = View(cli.state)
      BY <1>1, <2>1 DEF CanReceive, PoolInv
    <3> QED
      BY <3>1, <3>2 DEF View
  <2> QED
    BY <2>1, <2>2, <2>3
<1>5. CASE CbkTxnTimeout
  <2> DEFINE f == OnTimer(TimerFired(cli), cli.timer)
  <2>1. /\ cli.pooled /\ cli.timer # NoTimer
        /\ f.state # "TERMINATED" /\ sent' \in SendToNetwork(f.ud, f.msg)
    BY <1>2, <1>5 DEF CbkTxnTimeout
  <2>2. f.ud = cli.ud /\ f.msg = cli.msg
    BY <1>1, SMT DEF OnTimer, CallingState_Timer_A_B_Timeout, Restart, StartTxnTimer,
                     CountFirstInterval, TimerFired, CliTxn, Txn
  <2>3. cli.state = "CALLING"
    <3>1. cli.timer \in TimerOf(cli.state) /\ cli.state \in PooledStates
      BY <1>1, <2>1 DEF TimerInv, PoolInv
    <3>2. TimerFired(cli).state = cli.state
      BY <1>1, SMT DEF TimerFired, CliTxn, Txn
    <3>3. CASE \/ cli.state = "ACCEPTED" /\ cli.timer = "M"
               \/ cli.state = "COMPLETED" /\ cli.timer = "D"
      <4> DEFINE g == TimerFired(cli)
      <4>1. f = [g EXCEPT !.state = "TERMINATED"]
        BY <3>2, <3>3 DEF OnTimer
      <4>2. g \in CliTxn
        BY <1>1, <2>1, TimerFiredLemma DEF TimerInv, CliTxn
      <4> HIDE DEF g
      <4>3. [g EXCEPT !.state = "TERMINATED"].state = "TERMINATED"
        BY <4>2, SetState, CliNames
      <4> QED
        BY <2>1, <4>1, <4>3
    <3> QED
      BY <2>1, <3>1, <3>3 DEF TimerOf, PooledStates
  <2> HIDE DEF f
  <2>4. cli.ud = TRUE
    BY <1>1, <1>2, <2>1, <2>2 DEF SendToNetwork
  <2>5. cli.msg = "INVITE"
    BY <1>1, <2>1, <2>3, <2>4 DEF SeriesInv
  <2> QED
    BY <1>2, <2>1, <2>2, <2>5 DEF SendToNetwork
<1>6. CASE TerminateTxn \/ OnRecvTranspError
  BY <1>2, <1>6 DEF TerminateTxn, OnRecvTranspError
<1> QED
  BY <1>3, <1>4, <1>5, <1>6 DEF Next

(* An outcome the transaction user was given stays.                        *)
LEMMA OutcomeStays ==
    ASSUME Inv, [Next]_vars, tu \in {"success", "failure"}
    PROVE  tu' = tu
  BY ContractStep DEF Contract!Next, Contract!Send, Contract!Provisional,
                      Contract!Final, Contract!Timeout, Contract!Abort,
                      Contract!Pending

(* It is that of a response received in this step.                         *)
LEMMA OutcomeReceived ==
    ASSUME Inv, NEW m \in Responses, OnRecvMessage(m), tu' # tu
    PROVE  /\ tu' = "success" => m.code = "2xx"
           /\ tu' = "failure" => m.code = "fail"
<1>1. Indicate(m)
  BY DEF OnRecvMessage, CallingState_Receive1xx, ProceedingState_Receive1xx,
         LateProvisional, Receive2xx, AcceptedState_Receive2xx,
         AcceptedState_ReceiveFailure, ReceiveFailure,
         CompletedState_ReceiveFailure, CompletedState_Receive2xx
<1> QED
  BY <1>1 DEF Indicate

(* What SendMsg does to the state.                                         *)
LEMMA SentState ==
    ASSUME SrvTypeOK, NEW t \in SrvTxn, NEW m \in SrvMsgs, SendMsg(t, m)
    PROVE  srv'.state \in {t.state, "TERMINATED"}
<1>1. srv' = UpdateTranspInfo(t, m, tp) \/ srv' = t \/ srv' = AbortTxn(t)
  BY DEF SendMsg
<1>2. UpdateTranspInfo(t, m, tp).state = t.state
  BY SrvRecord DEF SrvTypeOK
<1>3. AbortTxn(t).state = "TERMINATED"
  BY SMT DEF AbortTxn, ReleaseTransaction, NewTxn
<1> QED
  BY <1>1, <1>2, <1>3

(* The steps of the server but that of an ACK.                             *)
OtherThanAck ==
    \/ IdleState_ReceiveInviteRequest
    \/ RecvInviteAgain
    \/ SendProvisional
    \/ \E r \in 1 .. MaxRSeq : SendRpr(r)
    \/ SendFailure
    \/ Send2xx
    \/ Send2xxAgain
    \/ \E r \in 1 .. MaxRSeq : RecvPrack(r)
    \/ SrvCbkTxnTimeout
    \/ SrvTerminateTxn
    \/ SrvOnRecvTranspError

(* None of them leads into CONFIRMED.                                      *)
LEMMA IntoConfirmed ==
    ASSUME SrvInv, OtherThanAck, srv'.state = "CONFIRMED"
    PROVE  srv.state = "CONFIRMED"
<1>1. SrvTypeOK /\ srv \in SrvTxn
  BY DEF SrvInv, SrvObjInv
<1>2. /\ {"prov", "rpr", "2xx", "fail"} = SrvMsgs
      /\ NewSeries \in SrvTxn /\ NewSeries.state = srv.state
  BY SrvNames, NewSeriesInv DEF Kept
<1>3. CASE IdleState_ReceiveInviteRequest
  <2>1. srv'.state = "PROCEEDING"
    BY <1>3, SMT DEF IdleState_ReceiveInviteRequest, NewTxn
  <2> QED
    BY <2>1
<1>4. CASE RecvInviteAgain
  BY <1>4 DEF RecvInviteAgain
<1>5. CASE SendProvisional
  <2>1. SendMsg(NewSeries, "prov")
    BY <1>5 DEF SendProvisional, ProceedingState_SendNon100ProvisionalResponse
  <2> QED
    BY <1>1, <1>2, <2>1, SentState
<1>6. ASSUME NEW r \in 1 .. MaxRSeq, SendRpr(r) PROVE FALSE
  <2> DEFINE g == [StartTxnTimer(NewSeries, "G", T1) EXCEPT !.max = 64 * T1]
  <2>1. srv.state = "PROCEEDING" /\ (SendMsg(g, "rpr") \/ SendRefused(NewSeries))
    BY <1>6 DEF SendRpr, ProceedingState_SendNon100ProvisionalResponse
  <2>2. g \in SrvTxn /\ g.state = "PROCEEDING"
    BY <2>1, RprSeriesInv DEF SrvObjInv
  <2> HIDE DEF g
  <2>3. CASE SendMsg(g, "rpr")
    BY <1>1, <1>2, <2>2, <2>3, SentState
  <2> QED
    BY <1>2, <2>1, <2>3 DEF SendRefused
<1>7. CASE SendFailure
  <2> DEFINE g == ProceedingState_SendFailureResponse
  <2>1. srv.state = "PROCEEDING" /\ (SendMsg(g, "fail") \/ SendRefused(NewSeries))
    BY <1>7 DEF SendFailure
  <2>2. g \in SrvTxn /\ g.state = "COMPLETED"
    BY <2>1, FailureSeriesInv DEF SrvObjInv
  <2> HIDE DEF g
  <2>3. CASE SendMsg(g, "fail")
    BY <1>1, <1>2, <2>2, <2>3, SentState
  <2> QED
    BY <1>2, <2>1, <2>3 DEF SendRefused
<1>8. CASE Send2xx
  <2> DEFINE g == ProceedingState_Send2xxResponse
             t == [NewSeries EXCEPT !.state = "TERMINATED"]
  <2>1. /\ srv.state = "PROCEEDING"
        /\ \/ SendMsg(g, "2xx")
           \/ srv' = ReleaseTransaction(t) \/ srv' = t \/ srv' = AbortTxn(t)
    BY <1>8 DEF Send2xx, SendRefused
  <2>2. g \in SrvTxn /\ g.state = "ACCEPTED"
    BY <2>1, AcceptSeriesInv DEF SrvObjInv
  <2>3. t.state = "TERMINATED"
    BY <1>2, SrvSetState, SrvNames
  <2> HIDE DEF g, t
  <2>4. ReleaseTransaction(t).state = "TERMINATED" /\ AbortTxn(t).state = "TERMINATED"
    BY SMT DEF AbortTxn, ReleaseTransaction, NewTxn
  <2>5. CASE SendMsg(g, "2xx")
    BY <1>1, <1>2, <2>2, <2>5, SentState
  <2> QED
    BY <2>1, <2>3, <2>4, <2>5
<1>9. CASE Send2xxAgain
  <2>1. SendMsg(srv, "2xx") \/ srv' = srv
    BY <1>9 DEF Send2xxAgain
  <2> QED
    BY <1>1, <1>2, <2>1, SentState
<1>10. ASSUME NEW r \in 1 .. MaxRSeq, RecvPrack(r) PROVE srv.state = "CONFIRMED"
  <2>1. srv' \in {srv, StopTxnTimer(srv)}
    BY <1>10 DEF RecvPrack, PrackMatches
  <2>2. StopTxnTimer(srv).state = srv.state
    BY <1>1, SrvStop DEF SrvInv, SrvObjInv, Kept
  <2> QED
    BY <2>1, <2>2
<1>11. CASE SrvCbkTxnTimeout
  <2> DEFINE f == SrvOnTimer(TimerFired(srv), srv.timer)
             e == CountFirstInterval(TimerFired(srv))
  <2>1. /\ srv.pooled /\ srv.timer # NoTimer
        /\ \/ srv' = ReleaseTransaction(f) \/ srv' = [f EXCEPT !.ud = FALSE]
           \/ srv' = f \/ srv' = e
    BY <1>11, SrvCbkCases
  <2>2. f \in SrvTxn
    <3>1. srv.pooled = TRUE
      BY <1>1, <2>1, SrvBooleans
    <3> QED
      BY <2>1, <3>1, SrvOnTimerInv DEF TimeoutOutcome
  <2>3. f.state \in {srv.state, "TERMINATED"}
    BY <1>1, SMT DEF SrvOnTimer, ProceedingState_Timer_G_H_Timeout,
                     CompletedState_Timer_G_H_Timeout, Restart, StartTxnTimer,
                     CountFirstInterval, TimerFired, SrvTxn, Txn
  <2>4. e.state = srv.state
    BY <1>1, SMT DEF CountFirstInterval, TimerFired, SrvTxn, Txn
  <2> HIDE DEF f, e
  <2>5. /\ ReleaseTransaction(f).state = "TERMINATED"
        /\ [f EXCEPT !.ud = FALSE].state = f.state
    BY <2>2, SMT DEF ReleaseTransaction, NewTxn, SrvTxn, Txn
  <2> QED
    BY <2>1, <2>3, <2>4, <2>5
<1>12. CASE SrvTerminateTxn
  <2>1. AbortTxn(srv).state = "TERMINATED"
    BY SMT DEF AbortTxn, ReleaseTransaction, NewTxn
  <2> QED
    BY <1>12, <2>1 DEF SrvTerminateTxn
<1>13. CASE SrvOnRecvTranspError
  <2>1. srv'.state = srv.state
    BY <1>1, <1>13, SMT DEF SrvOnRecvTranspError, SrvTxn, Txn
  <2> QED
    BY <2>1
<1> QED
  BY <1>3, <1>4, <1>5, <1>6, <1>7, <1>8, <1>9, <1>10, <1>11, <1>12, <1>13
     DEF OtherThanAck

(* None of them tells of an ACK.                                           *)
LEMMA AckTold ==
    ASSUME OtherThanAck, "ack" \in told'
    PROVE  "ack" \in told
<1>1. CASE SrvCbkTxnTimeout
  BY <1>1, SrvCbkCases DEF Tell, Expired, NoNews
<1>2. CASE \/ IdleState_ReceiveInviteRequest \/ RecvInviteAgain
           \/ SendProvisional \/ SendFailure \/ Send2xx \/ Send2xxAgain
           \/ SrvTerminateTxn \/ SrvOnRecvTranspError
           \/ \E r \in 1 .. MaxRSeq : SendRpr(r) \/ RecvPrack(r)
  <2>1. Tell("invite") \/ Tell(NoNews) \/ Tell("prack") \/ Tell("strayPrack")
    BY <1>2 DEF IdleState_ReceiveInviteRequest, RecvInviteAgain, SendProvisional,
                SendFailure, Send2xx, Send2xxAgain, SrvTerminateTxn,
                SrvOnRecvTranspError, SendRpr, RecvPrack, PrackMatches
  <2> QED
    BY <2>1 DEF Tell, NoNews
<1> QED
  BY <1>1, <1>2 DEF OtherThanAck

(* An ACK leads into CONFIRMED from COMPLETED, and is told of in ACCEPTED. *)
LEMMA AckMoves ==
    ASSUME SrvInv, RecvAck
    PROVE  /\ srv'.state = "CONFIRMED" => srv.state \in {"COMPLETED", "CONFIRMED"}
           /\ "ack" \in told' => "ack" \in told \/ srv.state = "ACCEPTED"
<1>1. srv \in SrvTxn
  BY DEF SrvInv, SrvObjInv
<1>2. CASE AcceptedState_ReceiveAckRequest
  <2>1. srv.state = "ACCEPTED" /\ srv'.state = "ACCEPTED"
    BY <1>1, <1>2, SrvSetAck DEF AcceptedState_ReceiveAckRequest, Kept
  <2> QED
    BY <2>1
<1>3. CASE CompletedState_ReceiveAckRequest \/ ConfirmedState_ReceiveAckRequest
  BY <1>3 DEF CompletedState_ReceiveAckRequest, ConfirmedState_ReceiveAckRequest,
              Tell, NoNews
<1> QED
  BY <1>2, <1>3 DEF RecvAck

-----------------------------------------------------------------------------
(* One outcome for both users.                                             *)

(* A final response in the network was sent, what the user of the client   *)
(* was given was in the network, and what it acknowledged it was given.    *)
OutcomeInv ==
    /\ \A m \in toCli : /\ m.code = "2xx"  => "2xx" \in out
                        /\ m.code = "fail" => "fail" \in out
    /\ tu = "success" => "2xx" \in out
    /\ tu = "failure" => "fail" \in out
    /\ "ACK" \in toSrv => tu = "failure"
    /\ srv.state = "CONFIRMED" => tu = "failure"
    /\ "ack" \in told => tu = "success"

(* The client moves: it takes up what the network holds.                   *)
LEMMA ClientOutcome ==
    ASSUME BothInv, OutcomeInv, ClientStep
    PROVE  OutcomeInv'
<1>1. /\ UNCHANGED <<srvVars, toCli>> /\ toSrv' = toSrv \cup ({sent'} \ {NoMsg})
  BY DEF ClientStep
<1>2. Next /\ Inv
  <2>1. [Next]_vars /\ tp \in Protocols
    BY NetStep DEF NetNext, BothInv, SrvInv, SrvTypeOK
  <2> QED
    BY <2>1 DEF ClientStep, Next, BothInv
<1>3. out' = out /\ srv' = srv /\ told' = told
  BY <1>1 DEF srvVars
<1>4. tu \in {"success", "failure"} => tu' = tu
  BY <1>2, OutcomeStays
<1>5. /\ tu' = "success" => "2xx" \in out
      /\ tu' = "failure" => "fail" \in out
  <2>1. CASE tu' = tu
    BY <2>1 DEF OutcomeInv
  <2>2. ASSUME NEW m \in toCli, OnRecvMessage(m), tu' # tu
        PROVE  /\ tu' = "success" => "2xx" \in out
               /\ tu' = "failure" => "fail" \in out
    <3>1. m \in Responses
      BY DEF BothInv
    <3> QED
      BY <1>2, <2>2, <3>1, OutcomeReceived DEF OutcomeInv
  <2>3. CASE SendInvite(tp) \/ CbkTxnTimeout \/ TerminateTxn \/ OnRecvTranspError
    <3>1. tu' \in {tu, "waiting", "aborted", "timedOut"}
      BY <2>3 DEF SendInvite, CbkTxnTimeout, TerminateTxn, OnRecvTranspError
    <3> QED
      BY <2>1, <3>1
  <2> QED
    BY <2>1, <2>2, <2>3 DEF ClientStep
<1>6. "ACK" \in toSrv' => tu' = "failure"
  BY <1>1, <1>2, <1>4, AckSent DEF OutcomeInv
<1> QED
  BY <1>1, <1>3, <1>4, <1>5, <1>6 DEF OutcomeInv

(* The server moves: what it sends is on record.                           *)
LEMMA ServerOutcome ==
    ASSUME BothInv, OutcomeInv, ServerStep
    PROVE  OutcomeInv'
<1>1. /\ toCli' = toCli \cup (IF reply' = NoMsg THEN {} ELSE {AsResponse(reply')})
      /\ tu' = tu /\ toSrv' = toSrv
  BY DEF ServerStep, vars
<1>2. SrvNext /\ SrvInv
  <2>1. seen[Peer] \in 0 .. MaxRSeq
    BY PeerType DEF BothInv, Inv
  <2>2. 1 .. seen[Peer] \subseteq 1 .. MaxRSeq
    BY <2>1, RSeqAssumption
  <2> QED
    BY <2>2 DEF ServerStep, SrvNext, BothInv
<1>3. out \subseteq out' /\ (reply' # NoMsg => reply' \in out')
  BY <1>2, ReplyRecorded
<1>4. \A m \in toCli' : /\ m.code = "2xx"  => "2xx" \in out'
                        /\ m.code = "fail" => "fail" \in out'
  <2> SUFFICES ASSUME NEW m \in toCli'
               PROVE  /\ m.code = "2xx"  => "2xx" \in out'
                      /\ m.code = "fail" => "fail" \in out'
    OBVIOUS
  <2>1. CASE m \in toCli
    BY <1>3, <2>1 DEF OutcomeInv
  <2>2. CASE m = AsResponse(reply') /\ reply' # NoMsg
    <3>1. m.code = IF reply' \in {"prov", "rpr"} THEN "1xx" ELSE reply'
      BY <2>2 DEF AsResponse
    <3> QED
      BY <1>3, <2>2, <3>1
  <2> QED
    BY <1>1, <2>1, <2>2
<1>5. (AckArrives /\ RecvAck) \/ OtherThanAck
  <2>1. 1 .. seen[Peer] \subseteq 1 .. MaxRSeq
    <3>1. seen[Peer] \in 0 .. MaxRSeq
      BY PeerType DEF BothInv, Inv
    <3> QED
      BY <3>1, RSeqAssumption
  <2> QED
    BY <2>1 DEF ServerStep, OtherThanAck
<1>6. /\ srv'.state = "CONFIRMED" => tu' = "failure"
      /\ "ack" \in told' => tu' = "success"
  <2>1. CASE AckArrives /\ RecvAck
    BY <1>1, <1>2, <2>1, AckMoves DEF AckArrives, OutcomeInv
  <2>2. CASE OtherThanAck
    BY <1>1, <1>2, <2>2, IntoConfirmed, AckTold DEF OutcomeInv
  <2> QED
    BY <1>5, <2>1, <2>2
<1> QED
  BY <1>1, <1>3, <1>4, <1>6 DEF OutcomeInv

(* The two users never hold opposite outcomes, and an ACK is taken as one  *)
(* only for a response that was given to the user of the client: whatever  *)
(* is lost, repeated, late or out of order, and whatever fails.            *)
THEOREM NetOutcomeAgreed == NetSpec => []OutcomeAgreed
<1>1. NetInit => OutcomeInv
  BY DEF NetInit, Init, SrvInit, OutcomeInv, NewTxn
<1>2. BothInv /\ OutcomeInv /\ [NetNext]_netVars => OutcomeInv'
  <2> SUFFICES ASSUME BothInv, OutcomeInv, [NetNext]_netVars PROVE OutcomeInv'
    OBVIOUS
  <2>1. CASE UNCHANGED netVars
    BY <2>1 DEF netVars, vars, srvVars, OutcomeInv
  <2> QED
    BY <2>1, ClientOutcome, ServerOutcome DEF NetNext
<1>3. SrvOutInv /\ OutcomeInv => OutcomeAgreed
  BY DEF SrvOutInv, OutcomeInv, OutcomeAgreed
<1> QED
  BY <1>1, <1>2, <1>3, BothInvariant, NetIsClientAndServer, ServerSpeaksForUser, PTL
     DEF NetSpec

-----------------------------------------------------------------------------
(* Reliable provisional responses in lockstep.                             *)

(* Nothing in the network is ahead of the server, no PRACK ahead of the    *)
(* client.                                                                 *)
LockInv ==
    /\ \A m \in toCli : m.tag = Peer /\ m.rseq <= rseq
    /\ RprLockstep

(* The user of the client is given what the network holds, in order.       *)
LEMMA ClientLock ==
    ASSUME BothInv, KeyInv, OrderInv, LockInv, ClientStep
    PROVE  LockInv'
<1>1. UNCHANGED <<srvVars, toCli>> /\ rseq' = rseq /\ pracked' = pracked
  BY DEF ClientStep, srvVars
<1>2. [Next]_vars /\ Inv
  BY NetStep DEF NetNext, BothInv
<1>3. /\ seen \in [Tags -> 0 .. MaxRSeq] /\ seen' \in [Tags -> 0 .. MaxRSeq]
      /\ rseq \in 0 .. MaxRSeq /\ Peer \in Tags
  BY <1>2, NextInv, PeerType DEF Inv, BothInv, SrvInv, SrvTypeOK
<1>4. seen'[Peer] # seen[Peer] => seen[Peer] = 0 \/ seen'[Peer] = seen[Peer] + 1
  BY <1>2, <1>3, EachInOrder
<1>5. seen'[Peer] # seen[Peer] => seen'[Peer] <= rseq
  <2>1. CASE seen' = seen
    BY <2>1
  <2>2. ASSUME NEW m \in toCli, OnRecvMessage(m), seen' # seen
        PROVE  seen'[Peer] <= rseq
    <3>1. m \in Responses
      BY DEF BothInv
    <3>2. Indicate(m)
      BY <2>2 DEF OnRecvMessage, CallingState_Receive1xx, ProceedingState_Receive1xx,
                  LateProvisional, Receive2xx, AcceptedState_Receive2xx,
                  AcceptedState_ReceiveFailure, ReceiveFailure,
                  CompletedState_ReceiveFailure, CompletedState_Receive2xx
    <3>3. seen' = [seen EXCEPT ![m.tag] = m.rseq]
      BY <2>2, <3>2 DEF Indicate
    <3>4. m.tag = Peer /\ m.rseq <= rseq
      BY DEF LockInv
    <3> QED
      BY <1>3, <3>3, <3>4
  <2>3. CASE SendInvite(tp) \/ CbkTxnTimeout \/ TerminateTxn \/ OnRecvTranspError
    BY <2>3 DEF SendInvite, CbkTxnTimeout, TerminateTxn, OnRecvTranspError
  <2> QED
    BY <2>1, <2>2, <2>3 DEF ClientStep
<1>6. /\ seen[Peer] \in Nat /\ seen'[Peer] \in Nat /\ rseq \in Nat
      /\ MaxRSeq \in Nat
  BY <1>3, RSeqAssumption
<1>7. seen[Peer] <= seen'[Peer]
  BY <1>4, <1>6
<1>8. \A r \in pracked : r \in Nat
  BY RSeqAssumption DEF BothInv, SrvInv, SrvTypeOK
<1>9. RprLockstep'
  <2>1. seen'[Peer] <= rseq
    BY <1>5 DEF LockInv, RprLockstep
  <2>2. rseq <= seen'[Peer] + 1
    BY <1>6, <1>7 DEF LockInv, RprLockstep
  <2>3. \A r \in pracked : r <= seen'[Peer]
    BY <1>6, <1>7, <1>8 DEF LockInv, RprLockstep
  <2>4. Peer' = Peer
    BY DEF Peer
  <2> QED
    BY <1>1, <2>1, <2>2, <2>3, <2>4 DEF RprLockstep
<1> QED
  BY <1>1, <1>9 DEF LockInv, Peer

(* The server sends the next response when the last one was acknowledged.  *)
LEMMA ServerLock ==
    ASSUME BothInv, LockInv, ServerStep
    PROVE  LockInv'
<1>1. /\ toCli' = toCli \cup (IF reply' = NoMsg THEN {} ELSE {AsResponse(reply')})
      /\ seen' = seen /\ Peer' = Peer
  BY DEF ServerStep, vars, Peer
<1>2. /\ seen[Peer] \in Nat /\ rseq \in Nat
      /\ \A m \in toCli : m.rseq \in Nat
      /\ 1 .. seen[Peer] \subseteq 1 .. MaxRSeq
  <2>1. seen[Peer] \in 0 .. MaxRSeq /\ rseq \in 0 .. MaxRSeq
    BY PeerType DEF BothInv, Inv, SrvInv, SrvTypeOK
  <2>2. \A m \in toCli : m.rseq \in 0 .. MaxRSeq
    BY ResponseType DEF BothInv
  <2> QED
    BY <2>1, <2>2, RSeqAssumption
<1>3. \/ rseq' = rseq /\ pracked' = pracked
      \/ rseq' = rseq + 1 /\ pracked' = pracked /\ (rseq = 0 \/ rseq \in pracked)
      \/ rseq' = rseq /\ \E r \in 1 .. seen[Peer] : pracked' = pracked \cup {r}
  <2>1. ASSUME NEW r \in 1 .. MaxRSeq, SendRpr(r)
        PROVE  \/ rseq' = rseq /\ pracked' = pracked
               \/ rseq' = rseq + 1 /\ pracked' = pracked /\ (rseq = 0 \/ rseq \in pracked)
    BY <2>1 DEF SendRpr
  <2>2. ASSUME NEW r \in 1 .. seen[Peer], RecvPrack(r)
        PROVE  \/ rseq' = rseq /\ pracked' = pracked
               \/ rseq' = rseq /\ pracked' = pracked \cup {r}
    BY <2>2 DEF RecvPrack, PrackMatches
  <2>3. CASE \/ IdleState_ReceiveInviteRequest \/ RecvInviteAgain
             \/ SendProvisional \/ SendFailure \/ Send2xx \/ Send2xxAgain
             \/ RecvAck \/ SrvCbkTxnTimeout \/ SrvTerminateTxn
             \/ SrvOnRecvTranspError
    BY <2>3 DEF IdleState_ReceiveInviteRequest, RecvInviteAgain, SendProvisional,
                SendFailure, Send2xx, Send2xxAgain, RecvAck, SrvCbkTxnTimeout,
                SrvTerminateTxn, SrvOnRecvTranspError
  <2> QED
    BY <2>1, <2>2, <2>3 DEF ServerStep
<1>4. rseq' \in Nat /\ rseq <= rseq'
  BY <1>2, <1>3
<1>5. RprLockstep'
  <2>1. CASE rseq' = rseq /\ pracked' = pracked
    BY <1>1, <2>1 DEF LockInv, RprLockstep
  <2>2. CASE /\ rseq' = rseq + 1 /\ pracked' = pracked
             /\ rseq = 0 \/ rseq \in pracked
    <3>1. rseq <= seen[Peer]
      BY <1>2, <2>2 DEF LockInv, RprLockstep
    <3> QED
      BY <1>1, <1>2, <2>2, <3>1 DEF LockInv, RprLockstep
  <2>3. CASE rseq' = rseq /\ \E r \in 1 .. seen[Peer] : pracked' = pracked \cup {r}
    BY <1>1, <1>2, <2>3 DEF LockInv, RprLockstep
  <2> QED
    BY <1>3, <2>1, <2>2, <2>3
<1>6. \A m \in toCli' : m.tag = Peer /\ m.rseq <= rseq'
  <2> SUFFICES ASSUME NEW m \in toCli' PROVE m.tag = Peer /\ m.rseq <= rseq'
    OBVIOUS
  <2>1. CASE m \in toCli
    <3>1. m.rseq \in Nat /\ m.rseq <= rseq /\ m.tag = Peer
      BY <1>2, <2>1 DEF LockInv
    <3> QED
      BY <1>2, <1>4, <3>1
  <2>2. CASE m = AsResponse(reply')
    <3>1. m.tag = Peer /\ m.rseq = IF reply' = "rpr" THEN rseq' ELSE 0
      BY <2>2 DEF AsResponse
    <3> QED
      BY <1>4, <3>1
  <2> QED
    BY <1>1, <2>1, <2>2
<1> QED
  BY <1>1, <1>5, <1>6 DEF LockInv

(* The user of the client is at most one reliable provisional response     *)
(* behind, whatever is repeated and reordered, and no PRACK is taken for   *)
(* that of a response it was not given.                                    *)
THEOREM NetRprLockstep ==
    ASSUME HandlersComplete PROVE NetSpec => []RprLockstep
<1>1. NetInit => LockInv
  <2> SUFFICES ASSUME NetInit PROVE LockInv
    OBVIOUS
  <2>1. seen[Peer] = 0 /\ rseq = 0 /\ pracked = {} /\ toCli = {}
    BY PeerType DEF NetInit, Init, SrvInit, NoKeys
  <2> QED
    BY <2>1 DEF LockInv, RprLockstep
<1>2. BothInv /\ (Inv /\ KeyInv /\ OrderInv) /\ LockInv /\ [NetNext]_netVars => LockInv'
  <2> SUFFICES ASSUME BothInv, KeyInv, OrderInv, LockInv, [NetNext]_netVars
               PROVE  LockInv'
    OBVIOUS
  <2>1. CASE UNCHANGED netVars
    BY <2>1 DEF netVars, vars, srvVars, LockInv, RprLockstep, Peer
  <2> QED
    BY <2>1, ClientLock, ServerLock DEF NetNext
<1>3. LockInv => RprLockstep
  BY DEF LockInv
<1> QED
  BY <1>1, <1>2, <1>3, BothInvariant, NetIsClientAndServer, KeyInvariant, PTL
     DEF NetSpec

(* Retransmission and the wait for the PRACK belong together in the call   *)
(* as they do for the server on its own.                                   *)
THEOREM NetRprPending ==
    ASSUME SrvCallsWork PROVE NetSpec => []RprPending
  BY NetIsClientAndServer, ServerRprPending, PTL
=============================================================================
