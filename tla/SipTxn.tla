------------------------------- MODULE SipTxn -------------------------------
(***************************************************************************)
(* The SIP transaction object (class SipTxn) that the four transaction     *)
(* state machines of protocol/sip/txn share: its timer, its retransmission *)
(* accounting, and the last message it handed to the transport, which is   *)
(* the buffer every retransmission sends again.                            *)
(*                                                                         *)
(* The module has no variables.  A state machine keeps one record of the   *)
(* shape Txn(...) and its handlers compute the next record from it.        *)
(*                                                                         *)
(*   state    m_nTxnState                                                  *)
(*   pooled   is the object in the pool of SipStackState                   *)
(*   timer    the type of the timer m_pvTimerId denotes, NoTimer if null   *)
(*   running  how many timers of this object the platform is running       *)
(*   cur, max, expired, count                                              *)
(*            m_nCurrentDuration, m_nMaxDuration, m_nDurationExpired,      *)
(*            m_nRetransmissionCount                                       *)
(*   msg      the message in m_pTranspInfo, NoMsg if it is null            *)
(*   proto    the protocol in m_pTranspInfo                                *)
(*   ud       does m_pUserData still lead to the transaction user          *)
(*   rprTerminated, ackReceived                                            *)
(*            m_bRprTxnTerminated, m_bAckReceived                          *)
(*   elapsed  (history) the time the timers of the current retransmission  *)
(*            series have really run; the code has no such field           *)
(*                                                                         *)
(* Time is counted in the unit of the constants.  A timer that runs may    *)
(* expire at any moment: nothing is assumed of its order relative to       *)
(* messages or to calls of the transaction user.                           *)
(***************************************************************************)
EXTENDS Integers

CONSTANTS
    T1,     \* m_nT1Value: first retransmission interval
    T2,     \* m_nT2Value: cap of the interval (timers E and G)
    Faults  \* the calls out of the transaction layer that may fail

(* "timer": StartTimer fails; "net": SendToNetwork fails; "transp":        *)
(* OnSendTransp fails; "ack": no ACK can be built; "transpErr": the        *)
(* transport reports an error for a transaction.                           *)
FaultKinds == {"timer", "net", "transp", "ack", "transpErr"}

(* Timer values are SIP_UINT32.  Up to this one, 2^29 - 1 ticks or six     *)
(* days, the sums of the handlers do not wrap (see PowerOf2).              *)
MaxTimerValue == 536870911
ASSUME TimerAssumption == T1 \in 1 .. MaxTimerValue /\ T2 \in 1 .. MaxTimerValue
ASSUME FaultAssumption == Faults \subseteq FaultKinds

NoTimer == "noTimer"
NoMsg   == "noMsg"

(* UDP is the one unreliable transport the handlers test for.              *)
Protocols == {"UDP", "TCP"}

(* The type of a transaction record.                                       *)
Txn(States, Timers, Msgs) ==
    [state : States, pooled : BOOLEAN,
     timer : Timers \cup {NoTimer}, running : Nat,
     cur : Nat, max : Nat, expired : Nat, count : Nat,
     msg : Msgs \cup {NoMsg}, proto : Protocols \cup {"INVALID"},
     ud : BOOLEAN, rprTerminated : BOOLEAN, ackReceived : BOOLEAN,
     elapsed : Nat]

(* A transaction object as the constructor leaves it, not in the pool.     *)
NewTxn ==
    [state |-> "IDLE", pooled |-> FALSE, timer |-> NoTimer, running |-> 0,
     cur |-> 0, max |-> 0, expired |-> 0, count |-> 0,
     msg |-> NoMsg, proto |-> "INVALID",
     ud |-> FALSE, rprTerminated |-> FALSE, ackReceived |-> FALSE,
     elapsed |-> 0]

(* StartTimer succeeded: the new identifier overwrites the old one, and a  *)
(* timer that was running is not stopped.                                  *)
StartTxnTimer(t, type, d) ==
    [t EXCEPT !.timer = type, !.cur = d, !.running = @ + 1]
(* Mutant: StopTxnTimer without the test for a null timer.                 *)
Mut_StopUntested(t) == [t EXCEPT !.timer = NoTimer, !.running = @ - 1]

StopTxnTimer(t) ==
    IF t.timer = NoTimer THEN t
    ELSE [t EXCEPT !.timer = NoTimer, !.running = @ - 1]

(* The first lines of the timer callback: the identifier is cleared.       *)
TimerFired(t) ==
    [t EXCEPT !.timer = NoTimer, !.running = @ - 1, !.elapsed = @ + t.cur]

InitRetransmissionInfo(t) ==
    [t EXCEPT !.count = 0, !.max = 0, !.expired = 0, !.cur = 0, !.elapsed = 0]

(* The interval T1 of the first retransmission is accounted for when it    *)
(* has run, every later one when it is started.                            *)
CountFirstInterval(t) ==
    IF t.expired = 0 THEN [t EXCEPT !.expired = T1] ELSE t

(* SIP_ONE << n of a 32-bit word, below its sign bit.                      *)
PowerOf2 == [n \in 0 .. 30 |-> 2 ^ n]

(* Mutant: the last interval is not cut.                                   *)
Mut_NotClipped(t, d) == d

(* Mutant: the interval is cut after it has been added to the total.       *)
Mut_ClippedLate(t, d) ==
    IF t.expired + d >= t.max THEN t.max - (t.expired + d) ELSE d

(* The next interval, cut so that the series ends exactly at max.          *)
Clipped(t, d) ==
    IF t.expired + d >= t.max THEN t.max - t.expired ELSE d

(* Start the next interval of a retransmission series.                     *)
Restart(t, type, d) ==
    [StartTxnTimer(t, type, d) EXCEPT !.count = @ + 1, !.expired = @ + d]

Minimum(a, b) == IF a <= b THEN a ELSE b

GetMsgSentProto(t) == IF t.msg = NoMsg THEN "INVALID" ELSE t.proto

(* UpdateTxnDetails: m is now what a retransmission sends.                 *)
UpdateTranspInfo(t, m, p) == [t EXCEPT !.msg = m, !.proto = p]

(* The object leaves the pool.  A timer it still has keeps running.        *)
ReleaseTransaction(t) ==
    [NewTxn EXCEPT !.state = "TERMINATED", !.running = t.running,
                   !.elapsed = t.elapsed]

(* TerminateTxn: the timer is stopped before the object leaves the pool.   *)
AbortTxn(t) == ReleaseTransaction(StopTxnTimer(t))

(* What SendToNetwork may hand to the socket when asked to send m for a    *)
(* transaction whose user data is ud: m, or nothing.  Without user data    *)
(* there is no SipTransactionState and so no transport.                    *)
SendToNetwork(ud, m) ==
    IF ~ud THEN {NoMsg} ELSE {m} \cup (IF "net" \in Faults THEN {NoMsg} ELSE {})
=============================================================================
