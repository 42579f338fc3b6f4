----------------------- MODULE SipInviteClientProofs -----------------------
(***************************************************************************)
(* Proofs about the INVITE client transaction, for every timer value, set  *)
(* of to-tags, bound on RSeq values and set of possible faults:            *)
(*                                                                         *)
(*   ClientTypeCorrect, ClientTimers, ClientTimeoutExact, ClientSchedule,  *)
(*   ClientImplementsContract, ClientKeys                                  *)
(*                                                                         *)
(* and, when timers start and ACKs can be built,                           *)
(*                                                                         *)
(*   ClientRprInOrder, ClientTimerCovers                                   *)
(*                                                                         *)
(* They follow from one inductive invariant, Inv, to which the last three  *)
(* add what the list of keys holds (KeyInv, OrderInv).  The core of Inv is *)
(* CliInv, a predicate of a transaction record and a view of the           *)
(* transaction user, so that every handler is shown to keep it by looking  *)
(* at the record it computes.                                              *)
(***************************************************************************)
EXTENDS SipInviteClientTxn, SipTxnProofs

CliTxn == Txn(CliStates, CliTimers, CliMsgs)

PooledStates == {"CALLING", "PROCEEDING", "ACCEPTED", "COMPLETED"}

(* What the transaction user has been told when the transaction is in s.   *)
View(s) ==
    CASE s = "CALLING"    -> "waiting"
      [] s = "PROCEEDING" -> "proceeding"
      [] s = "ACCEPTED"   -> "success"
      [] s = "COMPLETED"  -> "failure"
      [] OTHER            -> "idle"

(* A timer that runs is one its state waits for.                           *)
TimerInv(t) ==
    /\ t.running = IF t.timer = NoTimer THEN 0 ELSE 1
    /\ t.timer # NoTimer => t.timer \in TimerOf(t.state)

(* In the pool, the user data lead to a user who knows the state; without  *)
(* user data nothing was ever sent.  Outside the pool nothing is left.     *)
PoolInv(t, u) ==
    /\ t.pooled =>
          /\ t.state \in PooledStates
          /\ t.ud  => t.msg # NoMsg /\ u = View(t.state)
          /\ ~t.ud => t.msg = NoMsg /\ t.state = "CALLING" /\ u = "aborted"
    /\ ~t.pooled =>
          /\ t.state \in {"IDLE", "TERMINATED"} /\ t.timer = NoTimer
          /\ t.msg = NoMsg /\ u \in TuFinal \cup {"idle"}

(* The accounting of a series of Timer A intervals.  The first interval is *)
(* in no field but cur; later ones are in expired from their start on, and *)
(* each is twice the one before unless it reaches Timer B.                 *)
FirstInterval(t) == t.expired = 0 /\ t.count = 0 /\ t.cur = T1
LaterInterval(t) ==
    /\ t.expired # 0 /\ t.expired = t.elapsed + t.cur /\ t.expired <= TimerB
    /\ t.expired = TimerB \/ t.cur = PowerOf2[t.count] * T1

SeriesInv(t) ==
    t.state = "CALLING" /\ t.timer # NoTimer =>
        /\ t.max = TimerB
        /\ t.ud => t.msg = "INVITE" /\ (t.timer = "A" <=> t.proto = "UDP")
        /\ t.timer = "B" => t.cur = TimerB /\ t.elapsed = 0
        /\ t.timer = "A" =>
              /\ t.count \in 0 .. 29
              /\ t.elapsed = (PowerOf2[t.count] - 1) * T1
              /\ FirstInterval(t) \/ LaterInterval(t)

CliInv(t, u) ==
    /\ t \in CliTxn /\ u \in TuStates
    /\ TimerInv(t)
    /\ PoolInv(t, u)
    /\ u = "timedOut" => t.elapsed = TimerB
    /\ SeriesInv(t)

Inv ==
    /\ CliInv(cli, tu)
    /\ keys \in [Tags -> 0 .. MaxRSeq]
    /\ sent \in CliMsgs \cup {NoMsg}
    /\ seen \in [Tags -> 0 .. MaxRSeq]

-----------------------------------------------------------------------------
(* Lemmas about the constants and the data of this module.                 *)

(* Timer B is a number not smaller than T1.                                *)
LEMMA TimerBType == TimerB \in Nat \ {0} /\ T1 <= TimerB /\ TimerB <= MaxTimerValue
  BY ClientTimerAssumption, TimerType, MaxTimerValueType

(* Timers D and M are numbers.                                             *)
LEMMA TimerDMType == TimerD \in Nat /\ TimerM \in Nat
  BY ClientTimerAssumption, MaxTimerValueType

(* The fields of a response.                                               *)
LEMMA ResponseType ==
    ASSUME NEW m \in Responses
    PROVE  /\ m.code \in {"100", "1xx", "2xx", "fail"}
           /\ m.tag \in Tags /\ m.rseq \in 0 .. MaxRSeq
  BY DEF Responses

(* Zero is an RSeq value: the one of "none".                               *)
LEMMA ZeroRSeq == 0 \in 0 .. MaxRSeq
  BY RSeqAssumption

(* Changing the state changes nothing else.                                *)
LEMMA SetState ==
    ASSUME NEW t \in CliTxn, NEW s \in CliStates
    PROVE  LET r == [t EXCEPT !.state = s] IN
           /\ r \in CliTxn /\ r.state = s
           /\ r.pooled = t.pooled /\ r.timer = t.timer /\ r.running = t.running
           /\ r.cur = t.cur /\ r.max = t.max /\ r.expired = t.expired
           /\ r.count = t.count /\ r.msg = t.msg /\ r.proto = t.proto
           /\ r.ud = t.ud /\ r.elapsed = t.elapsed
<1>1. [t EXCEPT !.state = s] \in CliTxn
  BY TxnUpdate DEF CliTxn
<1> QED
  BY <1>1, SMT DEF CliTxn, Txn

(* A response keeps the list of keys and the user's record well-typed.     *)
LEMMA KeyTypes ==
    ASSUME NEW m \in Responses, NEW k \in [Tags -> 0 .. MaxRSeq]
    PROVE  /\ [k EXCEPT ![m.tag] = m.rseq] \in [Tags -> 0 .. MaxRSeq]
           /\ [k EXCEPT ![m.tag] = 0] \in [Tags -> 0 .. MaxRSeq]
           /\ NoKeys \in [Tags -> 0 .. MaxRSeq]
  BY ResponseType, ZeroRSeq DEF NoKeys

(* Indicate: the user's new view is the one of the response.               *)
LEMMA IndicateTypes ==
    ASSUME NEW m \in Responses, seen \in [Tags -> 0 .. MaxRSeq], Indicate(m)
    PROVE  /\ seen' \in [Tags -> 0 .. MaxRSeq]
           /\ m.code = "2xx" => tu' = "success"
           /\ m.code = "fail" => tu' = "failure"
           /\ Provisional(m) => tu' = "proceeding"
  BY KeyTypes, ResponseType DEF Indicate, Provisional

-----------------------------------------------------------------------------
(* The shapes of record the handlers leave behind.                         *)

(* The states and timers of this module.                                   *)
LEMMA CliNames ==
    /\ {"IDLE", "TERMINATED"} \subseteq CliStates /\ PooledStates \subseteq CliStates
    /\ {"A", "B", "D", "M"} = CliTimers /\ NoTimer \notin CliTimers
    /\ {"INVITE", "ACK"} = CliMsgs /\ NoMsg \notin CliMsgs
  BY DEF CliStates, CliTimers, CliMsgs, NoTimer, NoMsg, PooledStates

(* A released transaction satisfies the invariant with any outcome.        *)
LEMMA ReleasedInv ==
    ASSUME NEW t \in CliTxn, NEW u \in TuFinal, t.state = "TERMINATED", ~t.pooled,
           t.timer = NoTimer, t.msg = NoMsg, t.running = 0,
           u = "timedOut" => t.elapsed = TimerB
    PROVE  CliInv(t, u)
  BY DEF CliInv, TimerInv, PoolInv, SeriesInv, TuFinal, TuStates

(* Stopping the timer keeps the invariant, and no timer runs afterwards.   *)
LEMMA StoppedInv ==
    ASSUME NEW t, NEW u, CliInv(t, u)
    PROVE  LET r == StopTxnTimer(t) IN
           /\ CliInv(r, u) /\ r.timer = NoTimer /\ r.running = 0
           /\ r.state = t.state /\ r.pooled = t.pooled /\ r.msg = t.msg
           /\ r.ud = t.ud /\ r.proto = t.proto
<1> DEFINE r == StopTxnTimer(t)
<1>1. t \in CliTxn /\ (t.timer # NoTimer => t.running >= 1)
  BY DEF CliInv, TimerInv
<1>2. /\ r \in CliTxn /\ r.timer = NoTimer
      /\ r.running = IF t.timer = NoTimer THEN t.running ELSE t.running - 1
      /\ r.state = t.state /\ r.pooled = t.pooled /\ r.msg = t.msg
      /\ r.ud = t.ud /\ r.elapsed = t.elapsed /\ r.proto = t.proto
  BY <1>1, StopTxnTimerLemma DEF CliTxn
<1>3. r.running = 0
  BY <1>2 DEF CliInv, TimerInv
<1> HIDE DEF r
<1>4. CliInv(r, u)
  BY <1>2, <1>3 DEF CliInv, TimerInv, PoolInv, SeriesInv
<1> QED
  BY <1>2, <1>3, <1>4 DEF r

(* A state entered with its own timer started: ACCEPTED and COMPLETED.     *)
LEMMA EnteredInv ==
    ASSUME NEW t, NEW u, CliInv(t, u), t.timer = NoTimer, t.pooled, t.ud,
           NEW type \in {"D", "M"}, NEW d \in Nat, NEW s \in {"ACCEPTED", "COMPLETED"},
           type \in TimerOf(s)
    PROVE  LET r == [StartTxnTimer(t, type, d) EXCEPT !.state = s] IN
           /\ CliInv(r, View(s)) /\ r.pooled /\ r.ud /\ r.state = s
<1> DEFINE v == StartTxnTimer(t, type, d)
           r == [v EXCEPT !.state = s]
<1>1. t \in CliTxn /\ t.running = 0 /\ t.msg # NoMsg
  BY DEF CliInv, TimerInv, PoolInv
<1>2. /\ v \in CliTxn /\ v.timer = type /\ v.running = 1
      /\ v.pooled /\ v.ud /\ v.msg = t.msg
  <2>1. type \in CliTimers
    BY CliNames
  <2> QED
    BY <1>1, <2>1, StartTxnTimerLemma DEF CliTxn
<1>3. s \in CliStates /\ type # NoTimer
  BY CliNames DEF PooledStates
<1> HIDE DEF v
<1>4. /\ r \in CliTxn /\ r.timer = type /\ r.running = 1 /\ r.state = s
      /\ r.pooled /\ r.ud /\ r.msg = t.msg
  BY <1>2, <1>3, SetState
<1> HIDE DEF r
<1>5. CliInv(r, View(s))
  BY <1>1, <1>3, <1>4 DEF CliInv, TimerInv, PoolInv, SeriesInv, View, PooledStates, TuStates
<1> QED
  BY <1>4, <1>5 DEF r, v

-----------------------------------------------------------------------------
(* Each action keeps the invariant.                                        *)

(* SendInvite, in all four outcomes.                                       *)
LEMMA SendInviteInv ==
    ASSUME Inv, NEW p \in Protocols, SendInvite(p)
    PROVE  Inv'
<1> DEFINE n1 == [NewTxn EXCEPT !.state = "CALLING"]
           n2 == [n1 EXCEPT !.pooled = TRUE]
           n3 == [n2 EXCEPT !.max = TimerB]
           n  == [n3 EXCEPT !.ud = TRUE]
           t  == IdleState_SendInviteRequest(p)
<1>1. n \in CliTxn
  <2>1. NewTxn \in CliTxn
    BY NewTxnType, CliNames DEF CliTxn
  <2>2. n1 \in CliTxn
    BY <2>1, SetState, CliNames DEF PooledStates
  <2>3. n2 \in CliTxn
    <3> HIDE DEF n1
    <3> QED BY <2>2, TxnUpdate DEF CliTxn
  <2>4. n3 \in CliTxn
    <3> HIDE DEF n2
    <3> QED BY <2>3, TxnUpdate, TimerBType DEF CliTxn
  <2> HIDE DEF n3
  <2> QED BY <2>4, TxnUpdate DEF CliTxn
<1>2. /\ n.state = "CALLING" /\ n.pooled /\ n.max = TimerB /\ n.ud /\ n.running = 0
      /\ n.elapsed = 0 /\ n.expired = 0 /\ n.count = 0 /\ n.msg = NoMsg
  BY SMT DEF NewTxn
<1>3. t = IF p = "UDP" THEN StartTxnTimer(n, "A", T1) ELSE StartTxnTimer(n, "B", TimerB)
  BY DEF IdleState_SendInviteRequest
<1> HIDE DEF n
<1>4. /\ t \in CliTxn /\ t.state = "CALLING" /\ t.pooled /\ t.max = TimerB /\ t.ud
      /\ t.running = 1 /\ t.elapsed = 0 /\ t.expired = 0 /\ t.count = 0 /\ t.msg = NoMsg
      /\ IF p = "UDP" THEN t.timer = "A" /\ t.cur = T1
                      ELSE t.timer = "B" /\ t.cur = TimerB
  <2> DEFINE Started(r, type, d) ==
               /\ r \in CliTxn /\ r.state = "CALLING" /\ r.pooled /\ r.max = TimerB /\ r.ud
               /\ r.running = 1 /\ r.elapsed = 0 /\ r.expired = 0 /\ r.count = 0
               /\ r.msg = NoMsg /\ r.timer = type /\ r.cur = d
  <2>1. ASSUME NEW type \in CliTimers, NEW d \in Nat
        PROVE  Started(StartTxnTimer(n, type, d), type, d)
    BY <1>1, <1>2, StartTxnTimerLemma DEF CliTxn
  <2>2. "A" \in CliTimers /\ "B" \in CliTimers /\ T1 \in Nat /\ TimerB \in Nat
    BY CliNames, TimerBType, TimerType
  <2>3. CASE p = "UDP"
    BY <1>3, <2>1, <2>2, <2>3
  <2>4. CASE p # "UDP"
    BY <1>3, <2>1, <2>2, <2>4
  <2> QED
    BY <2>3, <2>4
<1> HIDE DEF t
<1>5. 0 \in 0 .. 29 /\ 0 = (PowerOf2[0] - 1) * T1
  BY PowerValues, TimerType
<1>6. CASE cli' = UpdateTranspInfo(t, "INVITE", p) /\ tu' = "waiting"
  <2> DEFINE r == UpdateTranspInfo(t, "INVITE", p)
  <2>1. /\ r \in CliTxn /\ r.state = "CALLING" /\ r.pooled /\ r.max = TimerB /\ r.ud
        /\ r.running = 1 /\ r.elapsed = 0 /\ r.expired = 0 /\ r.count = 0
        /\ r.msg = "INVITE" /\ r.proto = p
        /\ r.timer = t.timer /\ r.cur = t.cur
    <3>1. "INVITE" \in CliMsgs /\ p \in Protocols \cup {"INVALID"}
      BY CliNames
    <3> QED
      BY <1>4, <3>1, UpdateTranspInfoLemma DEF CliTxn
  <2> HIDE DEF r
  <2>2. CliInv(r, "waiting")
    BY <1>4, <1>5, <2>1, CliNames
       DEF CliInv, TimerInv, PoolInv, SeriesInv, FirstInterval, View, PooledStates,
           TuStates, TuFinal, TimerOf, Protocols
  <2> QED
    BY <1>6, <2>2 DEF r, Inv, SendInvite, CliMsgs
<1>7. CASE cli' = cli /\ tu' = "aborted"
  <2>1. CliInv(cli, "aborted")
    BY DEF Inv, CliInv, PoolInv, SendInvite, View, PooledStates, TuFinal, TuStates
  <2> QED
    BY <1>7, <2>1 DEF Inv, SendInvite, CliMsgs
<1>8. CASE cli' = AbortTxn(t) /\ tu' = "aborted"
  <2> DEFINE r == AbortTxn(t)
  <2>1. /\ r \in CliTxn /\ r.state = "TERMINATED" /\ ~r.pooled
        /\ r.timer = NoTimer /\ r.msg = NoMsg
        /\ r.running = IF t.timer = NoTimer THEN t.running ELSE t.running - 1
    BY <1>4, AbortTxnLemma, CliNames DEF CliTxn
  <2>2. t.timer # NoTimer
    BY <1>4, CliNames
  <2> HIDE DEF r
  <2>3. r.running = 0
    BY <1>4, <2>1, <2>2
  <2>4. CliInv(r, "aborted")
    BY <2>1, <2>3, ReleasedInv DEF TuFinal
  <2> QED
    BY <1>8, <2>4 DEF r, Inv, SendInvite, CliMsgs
<1>9. CASE cli' = [t EXCEPT !.ud = FALSE] /\ tu' = "aborted"
  <2> DEFINE r == [t EXCEPT !.ud = FALSE]
  <2>1. t.msg = NoMsg
    BY <1>4
  <2>2. r \in CliTxn
    BY <1>4, TxnUpdate DEF CliTxn
  <2>3. /\ r.state = "CALLING" /\ r.pooled /\ r.max = TimerB /\ ~r.ud
        /\ r.running = 1 /\ r.elapsed = 0 /\ r.expired = 0 /\ r.count = 0
        /\ r.timer = t.timer /\ r.cur = t.cur /\ r.msg = NoMsg
    BY <1>4, <2>1, SMT DEF CliTxn, Txn
  <2> HIDE DEF r
  <2>4. CliInv(r, "aborted")
    BY <1>4, <1>5, <2>2, <2>3, CliNames
       DEF CliInv, TimerInv, PoolInv, SeriesInv, FirstInterval, PooledStates,
           TuStates, TuFinal, TimerOf, Protocols
  <2> QED
    BY <1>9, <2>4 DEF r, Inv, SendInvite, CliMsgs
<1> QED
  BY <1>6, <1>7, <1>8, <1>9 DEF SendInvite, t

(* A provisional response in CALLING.                                      *)
LEMMA Calling1xxInv ==
    ASSUME Inv, NEW m \in Responses, CanReceive, CallingState_Receive1xx(m)
    PROVE  Inv'
<1> DEFINE v == StopTxnTimer(cli)
           r == [v EXCEPT !.state = "PROCEEDING"]
<1>1. /\ CliInv(v, tu) /\ v.timer = NoTimer /\ v.running = 0
      /\ v.pooled /\ v.msg # NoMsg /\ v.ud
  <2>1. CliInv(cli, tu) /\ cli.pooled /\ cli.msg # NoMsg
    BY DEF Inv, CanReceive
  <2>2. cli.ud
    BY <2>1 DEF CliInv, PoolInv, CliTxn, Txn
  <2> QED
    BY <2>1, <2>2, StoppedInv
<1>2. cli' = r
  BY DEF CallingState_Receive1xx
<1> HIDE DEF v
<1>3. /\ r \in CliTxn /\ r.state = "PROCEEDING" /\ r.timer = NoTimer /\ r.running = 0
      /\ r.pooled /\ r.msg # NoMsg /\ r.ud
  BY <1>1, SetState, CliNames DEF PooledStates, CliInv
<1> HIDE DEF r
<1>4. tu' = "proceeding" /\ seen' \in [Tags -> 0 .. MaxRSeq]
  BY IndicateTypes DEF CallingState_Receive1xx, Inv
<1>5. CliInv(r, "proceeding")
  BY <1>3 DEF CliInv, TimerInv, PoolInv, SeriesInv, View, PooledStates, TuStates, TuFinal
<1>6. keys' \in [Tags -> 0 .. MaxRSeq] /\ sent' = NoMsg
  BY KeyTypes DEF CallingState_Receive1xx, Inv
<1> QED
  BY <1>2, <1>4, <1>5, <1>6 DEF Inv

(* A provisional response in PROCEEDING: new, repeated or stray.           *)
LEMMA Proceeding1xxInv ==
    ASSUME Inv, NEW m \in Responses, CanReceive, ProceedingState_Receive1xx(m)
    PROVE  Inv'
<1>1. cli' = cli /\ sent' = NoMsg
  BY DEF ProceedingState_Receive1xx
<1>2. tu = "proceeding"
  BY DEF Inv, CliInv, PoolInv, CanReceive, ProceedingState_Receive1xx, View, CliTxn, Txn
<1>3. /\ tu' = "proceeding"
      /\ seen' \in [Tags -> 0 .. MaxRSeq] /\ keys' \in [Tags -> 0 .. MaxRSeq]
  BY <1>2, IndicateTypes, KeyTypes DEF ProceedingState_Receive1xx, Inv
<1> QED
  BY <1>1, <1>2, <1>3 DEF Inv

(* Responses that change neither the object nor the user's view.           *)
LEMMA AbsorbedInv ==
    ASSUME Inv, NEW m \in Responses, CanReceive,
           \/ LateProvisional(m)
           \/ AcceptedState_Receive2xx(m)
           \/ AcceptedState_ReceiveFailure(m)
           \/ CompletedState_ReceiveFailure(m)
           \/ CompletedState_Receive2xx(m)
    PROVE  Inv' /\ tu' = tu
<1>1. cli' = cli
  BY DEF LateProvisional, AcceptedState_Receive2xx, AcceptedState_ReceiveFailure,
         CompletedState_ReceiveFailure, CompletedState_Receive2xx
<1>2. keys' \in [Tags -> 0 .. MaxRSeq] /\ seen' \in [Tags -> 0 .. MaxRSeq]
  BY KeyTypes, IndicateTypes
     DEF Inv, LateProvisional, AcceptedState_Receive2xx, AcceptedState_ReceiveFailure,
         CompletedState_ReceiveFailure, CompletedState_Receive2xx
<1>3. sent' \in CliMsgs \cup {NoMsg}
  <2>1. cli.msg \in CliMsgs \cup {NoMsg}
    BY SMT DEF Inv, CliInv, CliTxn, Txn
  <2> QED
    BY <2>1 DEF LateProvisional, AcceptedState_Receive2xx, AcceptedState_ReceiveFailure,
                CompletedState_ReceiveFailure, CompletedState_Receive2xx, SendToNetwork
<1>4. tu' = tu
  <2>1. CASE AcceptedState_Receive2xx(m)
    <3>1. tu = "success"
      BY <2>1 DEF Inv, CliInv, PoolInv, CanReceive, AcceptedState_Receive2xx, View, CliTxn, Txn
    <3> QED
      BY <2>1, <3>1, IndicateTypes DEF AcceptedState_Receive2xx, Inv
  <2> QED
    BY <2>1 DEF LateProvisional, AcceptedState_ReceiveFailure,
                CompletedState_ReceiveFailure, CompletedState_Receive2xx
<1> QED
  BY <1>1, <1>2, <1>3, <1>4 DEF Inv

(* The object before a final response is handled: the timer of CALLING is  *)
(* stopped, PROCEEDING has none.                                           *)
LEMMA BeforeFinal ==
    ASSUME Inv, CanReceive, cli.state \in {"CALLING", "PROCEEDING"}
    PROVE  LET t == IF cli.state = "CALLING" THEN StopTxnTimer(cli) ELSE cli IN
           /\ CliInv(t, tu) /\ t.timer = NoTimer /\ t.pooled /\ t.ud
           /\ t.state = cli.state /\ tu \in {"waiting", "proceeding"}
<1>1. CliInv(cli, tu) /\ cli.pooled /\ cli.msg # NoMsg
  BY DEF Inv, CanReceive
<1>2. cli.ud /\ tu = View(cli.state)
  BY <1>1 DEF CliInv, PoolInv, CliTxn, Txn
<1>3. CASE cli.state = "CALLING"
  BY <1>1, <1>2, <1>3, StoppedInv DEF View
<1>4. CASE cli.state = "PROCEEDING"
  <2>1. cli.timer = NoTimer
    BY <1>1, <1>4 DEF CliInv, TimerInv, TimerOf
  <2> QED
    BY <1>1, <1>2, <1>4, <2>1 DEF View
<1> QED
  BY <1>3, <1>4

(* A 2xx in CALLING or PROCEEDING.                                         *)
LEMMA Receive2xxInv ==
    ASSUME Inv, NEW m \in Responses, CanReceive, Receive2xx(m)
    PROVE  Inv'
<1> DEFINE t == IF cli.state = "CALLING" THEN StopTxnTimer(cli) ELSE cli
<1>1. /\ CliInv(t, tu) /\ t.timer = NoTimer /\ t.pooled /\ t.ud
  BY BeforeFinal DEF Receive2xx
<1>2. keys' \in [Tags -> 0 .. MaxRSeq] /\ sent' = NoMsg
  BY KeyTypes DEF Receive2xx, Inv
<1>3. \/ /\ cli' = [StartTxnTimer(t, "M", TimerM) EXCEPT !.state = "ACCEPTED"]
         /\ Indicate(m)
      \/ cli' = t /\ tu' = tu /\ seen' = seen
  BY DEF Receive2xx
<1>4. m.code = "2xx"
  BY DEF Receive2xx
<1> HIDE DEF t
<1>5. CASE cli' = t /\ tu' = tu /\ seen' = seen
  BY <1>1, <1>2, <1>5 DEF Inv
<1>6. CASE /\ cli' = [StartTxnTimer(t, "M", TimerM) EXCEPT !.state = "ACCEPTED"]
           /\ Indicate(m)
  <2>1. CliInv(cli', "success")
    BY <1>1, <1>6, EnteredInv, TimerDMType DEF TimerOf, View
  <2>2. tu' = "success" /\ seen' \in [Tags -> 0 .. MaxRSeq]
    BY <1>4, <1>6, IndicateTypes DEF Inv
  <2> QED
    BY <1>2, <2>1, <2>2 DEF Inv
<1> QED
  BY <1>3, <1>5, <1>6

(* A failure response in CALLING or PROCEEDING, and the ACK.               *)
LEMMA ReceiveFailureInv ==
    ASSUME Inv, NEW m \in Responses, CanReceive, ReceiveFailure(m)
    PROVE  Inv'
<1> DEFINE t == IF cli.state = "CALLING" THEN StopTxnTimer(cli) ELSE cli
           c == HandleFailureResponse(t)
<1>1. CliInv(t, tu) /\ t.timer = NoTimer /\ t.pooled /\ t.ud
  BY BeforeFinal DEF ReceiveFailure
<1>2. keys' \in [Tags -> 0 .. MaxRSeq]
  BY KeyTypes DEF ReceiveFailure, Inv
<1>3. \/ /\ Indicate(m)
         /\ \E s \in SendToNetwork(t.ud, "ACK") :
               /\ sent' = s
               /\ cli' = IF s = "ACK" THEN UpdateTranspInfo(c, "ACK", t.proto) ELSE c
      \/ cli' = t /\ sent' = NoMsg /\ tu' = tu /\ seen' = seen
      \/ cli' = AbortTxn(c) /\ sent' = NoMsg /\ Indicate(m)
  BY DEF ReceiveFailure
<1>4. m.code = "fail"
  BY DEF ReceiveFailure
<1>5. t.proto \in Protocols \cup {"INVALID"}
  BY <1>1, SMT DEF CliInv, CliTxn, Txn
<1> HIDE DEF t
<1>6. CliInv(c, "failure") /\ c.pooled /\ c.ud /\ c.state = "COMPLETED"
  BY <1>1, EnteredInv, TimerDMType DEF HandleFailureResponse, TimerOf, View
<1>7. c \in CliTxn /\ (c.timer # NoTimer => c.running >= 1)
  BY <1>6 DEF CliInv, TimerInv
<1> HIDE DEF c
<1>8. CASE cli' = t /\ sent' = NoMsg /\ tu' = tu /\ seen' = seen
  BY <1>1, <1>2, <1>8 DEF Inv
<1>9. CASE cli' = AbortTxn(c) /\ sent' = NoMsg /\ Indicate(m)
  <2>1. /\ cli' \in CliTxn /\ cli'.state = "TERMINATED" /\ ~cli'.pooled
        /\ cli'.timer = NoTimer /\ cli'.msg = NoMsg
        /\ cli'.running = IF c.timer = NoTimer THEN c.running ELSE c.running - 1
    BY <1>7, <1>9, AbortTxnLemma, CliNames DEF CliTxn
  <2>2. cli'.running = 0
    BY <1>6, <2>1 DEF CliInv, TimerInv
  <2>3. tu' = "failure" /\ seen' \in [Tags -> 0 .. MaxRSeq]
    BY <1>4, <1>9, IndicateTypes DEF Inv
  <2>4. CliInv(cli', "failure")
    BY <2>1, <2>2, ReleasedInv DEF TuFinal
  <2> QED
    BY <1>2, <1>9, <2>3, <2>4 DEF Inv
<1>10. CASE /\ Indicate(m)
            /\ \E s \in SendToNetwork(t.ud, "ACK") :
                  /\ sent' = s
                  /\ cli' = IF s = "ACK" THEN UpdateTranspInfo(c, "ACK", t.proto) ELSE c
  <2>1. tu' = "failure" /\ seen' \in [Tags -> 0 .. MaxRSeq]
    BY <1>4, <1>10, IndicateTypes DEF Inv
  <2>2. sent' \in CliMsgs \cup {NoMsg}
    BY <1>10 DEF SendToNetwork, CliMsgs
  <2>3. CASE cli' = c
    BY <1>2, <1>6, <2>1, <2>2, <2>3 DEF Inv
  <2>4. CASE cli' = UpdateTranspInfo(c, "ACK", t.proto)
    <3>1. /\ cli' \in CliTxn /\ cli'.state = c.state /\ cli'.pooled = c.pooled
          /\ cli'.timer = c.timer /\ cli'.running = c.running
          /\ cli'.ud = c.ud /\ cli'.msg = "ACK"
      BY <1>5, <1>7, <2>4, UpdateTranspInfoLemma, CliNames DEF CliTxn
    <3>2. CliInv(cli', "failure")
      BY <1>6, <3>1, CliNames
         DEF CliInv, TimerInv, PoolInv, SeriesInv, View, PooledStates, TuStates
    <3> QED
      BY <1>2, <2>1, <2>2, <3>2 DEF Inv
  <2> QED
    BY <1>10, <2>3, <2>4
<1> QED
  BY <1>3, <1>8, <1>9, <1>10

(* The arithmetic of one more Timer A: the time that has passed is again   *)
(* (2^n - 1) T1, and the next interval is twice the one that ran.          *)
LEMMA SeriesArithmetic ==
    ASSUME NEW n \in 0 .. 29, (PowerOf2[n + 1] - 1) * T1 < TimerB
    PROVE  /\ n + 1 \in 0 .. 29
           /\ (PowerOf2[n] - 1) * T1 + PowerOf2[n] * T1 = (PowerOf2[n + 1] - 1) * T1
           /\ PowerOf2[n + 1] * T1 \in Nat \ {0}
<1>1. n + 1 \in 0 .. 30 /\ n \in 0 .. 30
  BY SMT
<1>2. PowerOf2[n] \in Nat \ {0} /\ PowerOf2[n + 1] \in Nat \ {0}
  BY <1>1, PowerType
<1>3. (PowerOf2[n + 1] - 1) * T1 \in Nat
  BY <1>2, TimerType, SMT
<1>4. (PowerOf2[n + 1] - 1) * T1 < MaxTimerValue
  BY <1>3, TimerBType, MaxTimerValueType
<1>5. n + 1 \in 0 .. 29
  BY <1>1, <1>4, PowerBounded
<1>6. ASSUME NEW x \in Nat \ {0}, NEW y \in Nat \ {0}
      PROVE  (x - 1) * y + x * y = (2 * x - 1) * y /\ x * y \in Nat \ {0}
  BY SMT
<1> QED
  BY <1>2, <1>5, <1>6, PowerDoubles, TimerType

(* The first power, for the first interval.                                *)
LEMMA FirstPower == PowerOf2[0] * T1 = T1 /\ (PowerOf2[0] - 1) * T1 = 0
  BY PowerValues, TimerType

(* The accounting when Timer A has run: expired is what has really passed. *)
LEMMA TimerAFired ==
    ASSUME NEW t, NEW u, CliInv(t, u), t.state = "CALLING", t.timer = "A"
    PROVE  LET e == CountFirstInterval(TimerFired(t)) IN
           /\ e \in CliTxn /\ e.state = "CALLING" /\ e.pooled = t.pooled /\ e.timer = NoTimer
           /\ e.running = 0 /\ e.max = TimerB /\ e.count = t.count /\ e.ud = t.ud
           /\ e.msg = t.msg /\ e.proto = t.proto
           /\ e.expired = e.elapsed /\ e.expired <= TimerB
           /\ e.expired < TimerB =>
                 e.elapsed = (PowerOf2[t.count] - 1) * T1 + PowerOf2[t.count] * T1
<1> DEFINE f == TimerFired(t)
           e == CountFirstInterval(f)
<1>1. /\ t \in CliTxn /\ t.running = 1 /\ t.max = TimerB /\ t.count \in 0 .. 29
      /\ t.elapsed = (PowerOf2[t.count] - 1) * T1
      /\ FirstInterval(t) \/ LaterInterval(t)
  BY CliNames DEF CliInv, TimerInv, SeriesInv
<1>2. /\ f \in CliTxn /\ f.timer = NoTimer /\ f.running = 0
      /\ f.elapsed = t.elapsed + t.cur
      /\ f.state = t.state /\ f.pooled = t.pooled /\ f.max = t.max /\ f.count = t.count
      /\ f.expired = t.expired /\ f.msg = t.msg /\ f.proto = t.proto /\ f.ud = t.ud
  <2>1. t \in Txn(CliStates, CliTimers, CliMsgs) /\ t.running >= 1
    BY <1>1, SMT DEF CliTxn
  <2>2. /\ f \in Txn(CliStates, CliTimers, CliMsgs)
        /\ f.timer = NoTimer /\ f.running = t.running - 1
        /\ f.elapsed = t.elapsed + t.cur
        /\ f.state = t.state /\ f.cur = t.cur
        /\ f.max = t.max /\ f.expired = t.expired /\ f.count = t.count
        /\ f.msg = t.msg /\ f.proto = t.proto
    BY <2>1, TimerFiredLemma
  <2>3. f.pooled = t.pooled /\ f.ud = t.ud
    BY <2>1, SMT DEF TimerFired, Txn
  <2> HIDE DEF f
  <2> QED
    BY <1>1, <2>2, <2>3 DEF CliTxn
<1> HIDE DEF f
<1>3. /\ e \in CliTxn /\ e.expired = IF f.expired = 0 THEN T1 ELSE f.expired
      /\ e.timer = f.timer /\ e.running = f.running /\ e.elapsed = f.elapsed
      /\ e.state = f.state /\ e.pooled = f.pooled /\ e.max = f.max /\ e.count = f.count
      /\ e.msg = f.msg /\ e.proto = f.proto /\ e.ud = f.ud
  <2>1. f \in Txn(CliStates, CliTimers, CliMsgs)
    BY <1>2 DEF CliTxn
  <2>2. /\ e \in Txn(CliStates, CliTimers, CliMsgs)
        /\ e.expired = IF f.expired = 0 THEN T1 ELSE f.expired
        /\ e.timer = f.timer /\ e.running = f.running
        /\ e.state = f.state /\ e.pooled = f.pooled /\ e.cur = f.cur
        /\ e.max = f.max /\ e.count = f.count /\ e.msg = f.msg
        /\ e.proto = f.proto /\ e.ud = f.ud /\ e.elapsed = f.elapsed
    BY <2>1, CountFirstIntervalLemma
  <2> HIDE DEF e
  <2> QED
    BY <2>2 DEF CliTxn
<1> HIDE DEF e
<1>4. /\ e.expired = e.elapsed /\ e.expired <= TimerB
      /\ e.expired < TimerB =>
            e.elapsed = (PowerOf2[t.count] - 1) * T1 + PowerOf2[t.count] * T1
  <2>1. CASE FirstInterval(t)
    <3>1. e.expired = T1 /\ e.elapsed = (PowerOf2[t.count] - 1) * T1 + T1 /\ t.count = 0
      BY <1>1, <1>2, <1>3, <2>1 DEF FirstInterval
    <3> QED
      BY <3>1, FirstPower, TimerBType, TimerType
  <2>2. CASE LaterInterval(t)
    <3>1. e.expired = t.expired /\ e.elapsed = t.elapsed + t.cur
      BY <1>2, <1>3, <2>2 DEF LaterInterval
    <3>2. /\ t.expired = t.elapsed + t.cur /\ t.expired <= TimerB
          /\ t.expired = TimerB \/ t.cur = PowerOf2[t.count] * T1
      BY <2>2 DEF LaterInterval
    <3>3. t.expired < TimerB => t.expired # TimerB
      BY TimerBType, SMT
    <3> QED
      BY <1>1, <3>1, <3>2, <3>3
  <2> QED
    BY <1>1, <2>1, <2>2
<1> QED
  BY <1>1, <1>2, <1>3, <1>4 DEF e, f

(* CALLING after Timer A or B: the series goes on within Timer B, or it    *)
(* ends when exactly Timer B has passed.                                   *)
LEMMA CallingTimeoutInv ==
    ASSUME NEW t, NEW u, CliInv(t, u), t.state = "CALLING", t.timer # NoTimer, t.pooled
    PROVE  LET f == CallingState_Timer_A_B_Timeout(TimerFired(t)) IN
           \/ /\ f.state = "TERMINATED" /\ f \in CliTxn /\ f.running = 0
              /\ f.timer = NoTimer /\ (t.ud => f.elapsed = TimerB)
           \/ f.state = "CALLING" /\ CliInv(f, u) /\ f.timer = "A"
<1> DEFINE f0 == TimerFired(t)
           e  == CountFirstInterval(f0)
           f  == CallingState_Timer_A_B_Timeout(f0)
           d  == Clipped(e, PowerOf2[e.count + 1] * T1)
<1>1. f = IF GetMsgSentProto(e) = "UDP" /\ e.expired < e.max
            THEN Restart(e, "A", d) ELSE [e EXCEPT !.state = "TERMINATED"]
  BY DEF CallingState_Timer_A_B_Timeout
<1>2. t \in CliTxn /\ t.running = 1
  BY DEF CliInv, TimerInv
<1>3. t.timer \in {"A", "B"}
  BY DEF CliInv, TimerInv, TimerOf
<1>4. "TERMINATED" \in CliStates
  BY CliNames
<1>5. CASE t.timer = "B"
  <2>1. /\ t.cur = TimerB /\ t.elapsed = 0
        /\ t.ud => t.msg = "INVITE" /\ t.proto # "UDP"
        /\ ~t.ud => t.msg = NoMsg
    BY <1>2, <1>5, CliNames DEF CliInv, SeriesInv, PoolInv
  <2>2. /\ f0 \in CliTxn /\ f0.timer = NoTimer /\ f0.running = 0
        /\ f0.elapsed = t.elapsed + t.cur
        /\ f0.msg = t.msg /\ f0.proto = t.proto
    BY <1>2, TimerFiredLemma DEF CliTxn
  <2>3. /\ e \in CliTxn /\ e.timer = NoTimer /\ e.running = 0
        /\ e.elapsed = t.elapsed + t.cur
        /\ e.msg = t.msg /\ e.proto = t.proto
    <3> HIDE DEF f0
    <3> QED BY <2>2, CountFirstIntervalLemma DEF CliTxn
  <2>4. GetMsgSentProto(e) # "UDP"
    <3>1. t.ud \in BOOLEAN
      BY <1>2, SMT DEF CliTxn, Txn
    <3> HIDE DEF e
    <3> QED BY <2>1, <2>3, <3>1 DEF GetMsgSentProto
  <2>5. f = [e EXCEPT !.state = "TERMINATED"]
    BY <1>1, <2>4
  <2> HIDE DEF f, e, d
  <2>6. /\ f \in CliTxn /\ f.state = "TERMINATED" /\ f.timer = NoTimer /\ f.running = 0
        /\ f.elapsed = e.elapsed
    BY <1>4, <2>3, <2>5, SetState
  <2>7. e.elapsed = TimerB
    BY <2>1, <2>3, TimerBType
  <2> QED
    BY <2>6, <2>7 DEF f
<1>6. CASE t.timer = "A"
  <2>1. /\ e \in CliTxn /\ e.state = "CALLING" /\ e.pooled = t.pooled /\ e.timer = NoTimer
        /\ e.running = 0 /\ e.max = TimerB /\ e.count = t.count /\ e.ud = t.ud
        /\ e.msg = t.msg /\ e.proto = t.proto
        /\ e.expired = e.elapsed /\ e.expired <= TimerB
        /\ e.expired < TimerB =>
              e.elapsed = (PowerOf2[t.count] - 1) * T1 + PowerOf2[t.count] * T1
    BY <1>6, TimerAFired
  <2>2. /\ t.ud => t.msg = "INVITE" /\ t.proto = "UDP"
        /\ t.count \in 0 .. 29
    BY <1>6, CliNames DEF CliInv, SeriesInv
  <2>3. e.expired \in Nat /\ e.elapsed \in Nat
    <3> HIDE DEF e
    <3> QED BY <2>1, SMT DEF CliTxn, Txn
  <2>4. CASE GetMsgSentProto(e) = "UDP" /\ e.expired < e.max
    <3> DEFINE n == t.count
    <3>1. f = Restart(e, "A", d)
      BY <1>1, <2>4
    <3>2. e.elapsed = (PowerOf2[n + 1] - 1) * T1 /\ e.expired < TimerB
      <4>1. n \in 0 .. 30 /\ PowerOf2[n + 1] = 2 * PowerOf2[n]
        BY <2>2, PowerDoubles, SMT
      <4>2. PowerOf2[n] \in Nat \ {0}
        BY <4>1, PowerType
      <4>3. ASSUME NEW x \in Nat \ {0}, NEW y \in Nat \ {0}
            PROVE  (x - 1) * y + x * y = (2 * x - 1) * y
        BY SMT
      <4> HIDE DEF e, n
      <4> QED BY <2>1, <2>4, <4>1, <4>2, <4>3, TimerType DEF n
    <3>3. /\ n + 1 \in 0 .. 29 /\ PowerOf2[n + 1] * T1 \in Nat \ {0}
      <4>1. (PowerOf2[n + 1] - 1) * T1 < TimerB
        BY <2>1, <3>2
      <4> HIDE DEF e, n
      <4> QED BY <2>2, <4>1, SeriesArithmetic DEF n
    <3>4. /\ d \in Nat \ {0} /\ e.expired + d <= TimerB
          /\ d # PowerOf2[n + 1] * T1 => e.expired + d = TimerB
      <4> HIDE DEF e
      <4> QED BY <2>1, <2>4, <3>3, ClippedBound DEF CliTxn
    <3>5. /\ f \in CliTxn /\ f.timer = "A" /\ f.cur = d /\ f.running = 1
          /\ f.count = n + 1 /\ f.expired = e.expired + d
          /\ f.state = "CALLING" /\ f.pooled = t.pooled /\ f.max = TimerB
          /\ f.msg = t.msg /\ f.proto = t.proto /\ f.ud = t.ud /\ f.elapsed = e.elapsed
      <4>1. "A" \in CliTimers /\ d \in Nat
        BY <3>4, CliNames
      <4>2. e \in Txn(CliStates, CliTimers, CliMsgs)
        BY <2>1 DEF CliTxn
      <4> DEFINE r == Restart(e, "A", d)
      <4> HIDE DEF e, d
      <4>3. /\ r \in Txn(CliStates, CliTimers, CliMsgs)
            /\ r.timer = "A" /\ r.cur = d /\ r.running = e.running + 1
            /\ r.count = e.count + 1 /\ r.expired = e.expired + d
            /\ r.state = e.state /\ r.pooled = e.pooled /\ r.max = e.max
            /\ r.msg = e.msg /\ r.proto = e.proto /\ r.ud = e.ud
            /\ r.elapsed = e.elapsed
        BY <4>1, <4>2, RestartLemma
      <4>4. f = r
        BY <3>1
      <4> HIDE DEF f, r
      <4>5. /\ f \in CliTxn /\ f.timer = "A" /\ f.cur = d /\ f.running = 1
            /\ f.count = n + 1 /\ f.expired = e.expired + d
            /\ f.state = "CALLING" /\ f.max = TimerB
            /\ f.msg = t.msg /\ f.proto = t.proto /\ f.elapsed = e.elapsed
        BY <2>1, <4>3, <4>4 DEF CliTxn, n
      <4>6. f.pooled = t.pooled /\ f.ud = t.ud
        BY <2>1, <4>3, <4>4
      <4> QED BY <4>5, <4>6
    <3>6. SeriesInv(f)
      <4>1. LaterInterval(f)
        <5>1. f.expired # 0 /\ f.expired = f.elapsed + f.cur /\ f.expired <= TimerB
          <6> HIDE DEF e, d, f
          <6> QED BY <2>1, <2>3, <3>4, <3>5
        <5>2. f.expired = TimerB \/ f.cur = PowerOf2[f.count] * T1
          <6> HIDE DEF e, d, f
          <6> QED BY <3>4, <3>5
        <5> QED BY <5>1, <5>2 DEF LaterInterval
      <4> HIDE DEF e, d, f
      <4> QED BY <1>6, <2>2, <3>2, <3>3, <3>5, <4>1 DEF SeriesInv
    <3>7. CliInv(f, u)
      <4> HIDE DEF e, d, f
      <4>1. TimerInv(f)
        BY <3>5, CliNames DEF TimerInv, TimerOf
      <4>2. PoolInv(f, u)
        BY <3>5 DEF CliInv, PoolInv, PooledStates
      <4>3. u # "timedOut"
        BY <1>2 DEF CliInv, PoolInv, View, CliTxn, Txn
      <4> QED
        BY <3>5, <3>6, <4>1, <4>2, <4>3 DEF CliInv
    <3> QED
      BY <3>5, <3>7
  <2>5. CASE ~(GetMsgSentProto(e) = "UDP" /\ e.expired < e.max)
    <3>1. f = [e EXCEPT !.state = "TERMINATED"]
      BY <1>1, <2>5
    <3>2. t.ud => e.elapsed = TimerB
      <4> HIDE DEF e
      <4>1. t.ud => GetMsgSentProto(e) = "UDP"
        BY <2>1, <2>2 DEF GetMsgSentProto, NoMsg
      <4> QED BY <2>1, <2>3, <2>5, <4>1, TimerBType
    <3> HIDE DEF f, e
    <3>3. /\ f \in CliTxn /\ f.state = "TERMINATED" /\ f.timer = NoTimer /\ f.running = 0
          /\ f.elapsed = e.elapsed
      BY <1>4, <2>1, <3>1, SetState
    <3> QED
      BY <3>2, <3>3 DEF f
  <2> QED
    BY <2>4, <2>5
<1> QED
  BY <1>3, <1>5, <1>6

(* CbkTxnTimeout: the transaction ends, retransmits, or is left without a  *)
(* timer.                                                                  *)
LEMMA CbkTxnTimeoutInv ==
    ASSUME Inv, CbkTxnTimeout
    PROVE  Inv'
<1> DEFINE type == cli.timer
           g == TimerFired(cli)
           f == OnTimer(g, type)
<1>1. CliInv(cli, tu) /\ cli.pooled /\ cli.timer # NoTimer
  BY DEF Inv, CbkTxnTimeout
<1>2. cli \in CliTxn /\ cli.running = 1 /\ type \in TimerOf(cli.state)
  BY <1>1 DEF CliInv, TimerInv
<1>3. /\ g \in CliTxn /\ g.timer = NoTimer /\ g.running = 0
      /\ g.state = cli.state
  BY <1>2, TimerFiredLemma DEF CliTxn
<1>4. \/ cli.state = "CALLING" /\ type \in {"A", "B"}
      \/ cli.state = "ACCEPTED" /\ type = "M"
      \/ cli.state = "COMPLETED" /\ type = "D"
  BY <1>1, <1>2 DEF CliInv, PoolInv, PooledStates, TimerOf
<1>5. \/ /\ f.state = "TERMINATED" /\ f \in CliTxn /\ f.running = 0
         /\ type \in {"A", "B"} /\ cli.ud => f.elapsed = TimerB
      \/ f.state = "CALLING" /\ CliInv(f, tu)
  <2>1. CASE cli.state = "CALLING" /\ type \in {"A", "B"}
    <3>1. f = CallingState_Timer_A_B_Timeout(g)
      <4> HIDE DEF g
      <4> QED BY <1>3, <2>1 DEF OnTimer
    <3> QED
      BY <1>1, <2>1, <3>1, CallingTimeoutInv
  <2>2. CASE (cli.state = "ACCEPTED" /\ type = "M") \/ (cli.state = "COMPLETED" /\ type = "D")
    <3>1. f = [g EXCEPT !.state = "TERMINATED"]
      <4> HIDE DEF g
      <4> QED BY <1>3, <2>2 DEF OnTimer
    <3> HIDE DEF f, g
    <3>2. f \in CliTxn /\ f.state = "TERMINATED" /\ f.running = 0
      BY <1>3, <3>1, SetState, CliNames
    <3> QED
      BY <2>2, <3>2
  <2> QED
    BY <1>4, <2>1, <2>2
<1>6. \/ /\ f.state = "TERMINATED" /\ cli' = ReleaseTransaction(f) /\ sent' = NoMsg
         /\ keys' = IF type = "M" THEN NoKeys ELSE keys
         /\ tu' = IF type \in {"A", "B"} /\ cli.ud THEN "timedOut" ELSE tu
      \/ /\ f.state # "TERMINATED" /\ cli' = f
         /\ sent' \in SendToNetwork(f.ud, f.msg) /\ keys' = keys /\ tu' = tu
      \/ /\ cli' = CountFirstInterval(g) /\ sent' = NoMsg /\ keys' = keys /\ tu' = tu
         /\ f.timer # NoTimer
  BY DEF CbkTxnTimeout
<1>7. seen' = seen
  BY DEF CbkTxnTimeout
<1>8. NoKeys \in [Tags -> 0 .. MaxRSeq]
  BY ZeroRSeq DEF NoKeys
<1> HIDE DEF f
<1>9. CASE /\ f.state = "TERMINATED" /\ cli' = ReleaseTransaction(f) /\ sent' = NoMsg
           /\ keys' = IF type = "M" THEN NoKeys ELSE keys
           /\ tu' = IF type \in {"A", "B"} /\ cli.ud THEN "timedOut" ELSE tu
  <2>1. /\ f \in CliTxn /\ f.running = 0
        /\ type \in {"A", "B"} /\ cli.ud => f.elapsed = TimerB
    BY <1>5, <1>9
  <2>2. /\ cli' \in CliTxn /\ cli'.state = "TERMINATED" /\ ~cli'.pooled
        /\ cli'.timer = NoTimer /\ cli'.msg = NoMsg
        /\ cli'.running = 0 /\ cli'.elapsed = f.elapsed
    BY <1>9, <2>1, ReleaseTransactionLemma, CliNames DEF CliTxn
  <2>3. tu' \in TuFinal /\ (tu' = "timedOut" => type \in {"A", "B"} /\ cli.ud)
    <3>1. cli.ud \in BOOLEAN
      BY <1>2, SMT DEF CliTxn, Txn
    <3>2. CASE type \in {"A", "B"} /\ cli.ud
      BY <1>9, <3>2 DEF TuFinal
    <3>3. CASE ~(type \in {"A", "B"} /\ cli.ud)
      <4>1. tu' = tu
        BY <1>9, <3>3
      <4>2. tu \in {"aborted", "success", "failure"}
        BY <1>1, <1>4, <3>1, <3>3 DEF CliInv, PoolInv, View
      <4> QED BY <4>1, <4>2 DEF TuFinal
    <3> QED BY <3>2, <3>3
  <2>4. CliInv(cli', tu')
    BY <2>1, <2>2, <2>3, ReleasedInv
  <2> QED
    BY <1>7, <1>8, <1>9, <2>4 DEF Inv
<1>10. CASE /\ f.state # "TERMINATED" /\ cli' = f
            /\ sent' \in SendToNetwork(f.ud, f.msg) /\ keys' = keys /\ tu' = tu
  <2>1. CliInv(f, tu)
    BY <1>5, <1>10
  <2>2. f.msg \in CliMsgs \cup {NoMsg}
    BY <2>1, SMT DEF CliInv, CliTxn, Txn
  <2>3. sent' \in CliMsgs \cup {NoMsg}
    BY <1>10, <2>2 DEF SendToNetwork
  <2> QED
    BY <1>7, <1>10, <2>1, <2>3 DEF Inv
<1>11. CASE /\ cli' = CountFirstInterval(g) /\ sent' = NoMsg /\ keys' = keys /\ tu' = tu
            /\ f.timer # NoTimer
  <2>1. /\ g.pooled = cli.pooled /\ g.ud = cli.ud /\ g.msg = cli.msg
    BY <1>2, SMT DEF TimerFired, CliTxn, Txn
  <2> HIDE DEF g
  <2>2. /\ cli' \in CliTxn /\ cli'.timer = NoTimer /\ cli'.running = 0
        /\ cli'.state = g.state /\ cli'.msg = g.msg
    BY <1>3, <1>11, CountFirstIntervalLemma DEF CliTxn
  <2>3. cli'.pooled = g.pooled /\ cli'.ud = g.ud
    BY <1>3, <1>11, CountFirstIntervalLemma DEF CliTxn
  <2>4. TimerInv(cli')
    BY <2>2 DEF TimerInv
  <2>5. PoolInv(cli', tu)
    BY <1>1, <1>3, <2>1, <2>2, <2>3 DEF CliInv, PoolInv
  <2>6. SeriesInv(cli')
    BY <2>2 DEF SeriesInv
  <2>7. tu # "timedOut" /\ tu \in TuStates
    BY <1>1, <1>2 DEF CliInv, PoolInv, View, CliTxn, Txn
  <2>8. CliInv(cli', tu)
    BY <2>2, <2>4, <2>5, <2>6, <2>7 DEF CliInv
  <2> QED
    BY <1>7, <1>11, <2>8 DEF Inv, CliMsgs
<1> QED
  BY <1>6, <1>9, <1>10, <1>11

(* TerminateTxn: aborted, unless the user has its outcome already.         *)
LEMMA TerminateTxnInv ==
    ASSUME Inv, TerminateTxn
    PROVE  Inv'
<1>1. CliInv(cli, tu) /\ cli \in CliTxn /\ (cli.timer # NoTimer => cli.running >= 1)
  BY DEF Inv, CliInv, TimerInv
<1>2. /\ cli' \in CliTxn /\ cli'.state = "TERMINATED" /\ ~cli'.pooled
      /\ cli'.timer = NoTimer /\ cli'.msg = NoMsg /\ cli'.elapsed = cli.elapsed
      /\ cli'.running = IF cli.timer = NoTimer THEN cli.running ELSE cli.running - 1
  BY <1>1, AbortTxnLemma, CliNames DEF CliTxn, TerminateTxn
<1>3. cli'.running = 0
  BY <1>1, <1>2 DEF CliInv, TimerInv
<1>4. tu' \in TuFinal /\ (tu' = "timedOut" => tu = "timedOut")
  BY DEF TerminateTxn, TuFinal
<1>5. CliInv(cli', tu')
  BY <1>1, <1>2, <1>3, <1>4, ReleasedInv DEF CliInv
<1>6. keys' \in [Tags -> 0 .. MaxRSeq] /\ sent' = NoMsg /\ seen' = seen
  BY ZeroRSeq DEF TerminateTxn, NoKeys
<1> QED
  BY <1>5, <1>6 DEF Inv

(* OnRecvTranspError: PROCEEDING has no timer to stop.                     *)
LEMMA OnRecvTranspErrorInv ==
    ASSUME Inv, OnRecvTranspError
    PROVE  Inv'
<1> DEFINE t == IF cli.state = "PROCEEDING" THEN cli ELSE StopTxnTimer(cli)
<1>1. CliInv(cli, tu)
  BY DEF Inv
<1>2. CliInv(t, tu) /\ t.running = 0
  <2>1. CASE cli.state = "PROCEEDING"
    BY <1>1, <2>1 DEF CliInv, TimerInv, TimerOf
  <2>2. CASE cli.state # "PROCEEDING"
    BY <1>1, <2>2, StoppedInv
  <2> QED
    BY <2>1, <2>2
<1>3. cli' = ReleaseTransaction(t)
  BY DEF OnRecvTranspError
<1> HIDE DEF t
<1>4. /\ cli' \in CliTxn /\ cli'.state = "TERMINATED" /\ ~cli'.pooled
      /\ cli'.timer = NoTimer /\ cli'.msg = NoMsg /\ cli'.elapsed = t.elapsed
      /\ cli'.running = t.running
  BY <1>2, <1>3, ReleaseTransactionLemma, CliNames DEF CliInv, CliTxn
<1>5. tu' \in TuFinal /\ (tu' = "timedOut" => tu = "timedOut")
  BY DEF OnRecvTranspError, TuFinal
<1>6. CliInv(cli', tu')
  BY <1>2, <1>4, <1>5, ReleasedInv DEF CliInv
<1>7. keys' \in [Tags -> 0 .. MaxRSeq] /\ sent' = NoMsg /\ seen' = seen
  BY ZeroRSeq DEF OnRecvTranspError, NoKeys, Inv
<1> QED
  BY <1>6, <1>7 DEF Inv

(* A received response, whatever the state.                                *)
LEMMA OnRecvMessageInv ==
    ASSUME Inv, NEW m \in Responses, OnRecvMessage(m)
    PROVE  Inv'
  BY Calling1xxInv, Proceeding1xxInv, AbsorbedInv, Receive2xxInv, ReceiveFailureInv
     DEF OnRecvMessage

(* The initial state.                                                      *)
LEMMA InitInv == Init => Inv
<1> SUFFICES ASSUME Init PROVE Inv
  OBVIOUS
<1>1. NewTxn \in CliTxn
  BY NewTxnType, CliNames DEF CliTxn
<1>2. /\ NewTxn.state = "IDLE" /\ ~NewTxn.pooled /\ NewTxn.timer = NoTimer
      /\ NewTxn.msg = NoMsg /\ NewTxn.running = 0
  BY SMT DEF NewTxn
<1>3. CliInv(NewTxn, "idle")
  BY <1>1, <1>2 DEF CliInv, TimerInv, PoolInv, SeriesInv, TuStates, TuFinal
<1> QED
  BY <1>3, ZeroRSeq DEF Init, Inv, NoKeys, CliMsgs

(* Inv is inductive.                                                       *)
LEMMA NextInv == Inv /\ [Next]_vars => Inv'
<1> SUFFICES ASSUME Inv, [Next]_vars PROVE Inv'
  OBVIOUS
<1>1. ASSUME NEW p \in Protocols, SendInvite(p) PROVE Inv'
  BY <1>1, SendInviteInv
<1>2. ASSUME NEW m \in Responses, OnRecvMessage(m) PROVE Inv'
  BY <1>2, OnRecvMessageInv
<1>3. CASE CbkTxnTimeout
  BY <1>3, CbkTxnTimeoutInv
<1>4. CASE TerminateTxn
  BY <1>4, TerminateTxnInv
<1>5. CASE OnRecvTranspError
  BY <1>5, OnRecvTranspErrorInv
<1>6. CASE UNCHANGED vars
  BY <1>6 DEF vars, Inv
<1> QED
  BY <1>1, <1>2, <1>3, <1>4, <1>5, <1>6 DEF Next

-----------------------------------------------------------------------------
(* The theorems.                                                           *)

(* Inv holds in every state.                                               *)
THEOREM ClientInvariant == Spec => []Inv
  BY InitInv, NextInv, PTL DEF Spec

(* What is counted is a number.                                            *)
LEMMA GivenTypes == Spec => [](given \in [Tags -> Nat])
<1> DEFINE Counted == given \in [Tags -> Nat]
<1>1. Init => Counted
  BY DEF Init
<1>2. Counted /\ [Next]_vars => Counted'
  <2> SUFFICES ASSUME Counted, [Next]_vars, given' # given PROVE Counted'
    OBVIOUS
  <2>1. PICK m \in Responses : OnRecvMessage(m) /\ Indicate(m)
    BY DEF Next, SendInvite, CbkTxnTimeout, TerminateTxn, OnRecvTranspError, vars,
           OnRecvMessage, CallingState_Receive1xx, ProceedingState_Receive1xx,
           LateProvisional, Receive2xx, AcceptedState_Receive2xx,
           AcceptedState_ReceiveFailure, ReceiveFailure,
           CompletedState_ReceiveFailure, CompletedState_Receive2xx
  <2>2. given' = [given EXCEPT ![m.tag] = @ + 1] /\ m.tag \in Tags
    BY <2>1, ResponseType DEF Indicate
  <2> QED
    BY <2>2
<1> QED
  BY <1>1, <1>2, PTL DEF Spec

(* Type correctness: no field leaves its range under any sequence of       *)
(* calls, responses, timers and faults; no timer is stopped twice.         *)
THEOREM ClientTypeCorrect == Spec => []TypeOK
<1>1. Inv /\ given \in [Tags -> Nat] => TypeOK
  BY DEF Inv, CliInv, TypeOK, CliTxn
<1> QED
  BY <1>1, ClientInvariant, GivenTypes, PTL

(* StartTxnTimer never overwrites the identifier of a running timer, and   *)
(* no timer outlives its transaction.                                      *)
THEOREM ClientTimers == Spec => []NoOrphanTimer
<1>1. Inv => NoOrphanTimer
  <2> SUFFICES ASSUME Inv PROVE NoOrphanTimer
    OBVIOUS
  <2>1. cli.pooled \in BOOLEAN
    BY SMT DEF Inv, CliInv, CliTxn, Txn
  <2> QED
    BY <2>1 DEF Inv, CliInv, TimerInv, PoolInv, NoOrphanTimer
<1> QED
  BY <1>1, ClientInvariant, PTL

(* The timeout of an INVITE is reported after exactly Timer B, whatever    *)
(* the ratio of T1 and Timer B.                                            *)
THEOREM ClientTimeoutExact == Spec => []TimeoutExact
<1>1. Inv => TimeoutExact
  BY DEF Inv, CliInv, TimeoutExact
<1> QED
  BY <1>1, ClientInvariant, PTL

(* The n-th retransmission leaves (2^n - 1) T1 after the INVITE; the shift *)
(* that doubles the interval stays below the width of the word.            *)
THEOREM ClientSchedule == Spec => []InviteSchedule
<1>1. Inv => InviteSchedule
  BY CliNames DEF Inv, CliInv, SeriesInv, InviteSchedule
<1> QED
  BY <1>1, ClientInvariant, PTL

(* Every step of the transaction is a step of the contract or none.        *)
LEMMA ContractStep ==
    ASSUME Inv, [Next]_vars
    PROVE  [Contract!Next]_tu
<1> USE DEF Contract!Next, Contract!Send, Contract!Provisional, Contract!Final,
            Contract!Timeout, Contract!Abort, Contract!Pending
<1>1. ASSUME NEW p \in Protocols, SendInvite(p) PROVE [Contract!Next]_tu
  BY <1>1 DEF SendInvite
<1>2. ASSUME NEW m \in Responses, OnRecvMessage(m) PROVE [Contract!Next]_tu
  <2>1. CanReceive /\ seen \in [Tags -> 0 .. MaxRSeq]
    BY <1>2 DEF OnRecvMessage, Inv
  <2>2. CASE CallingState_Receive1xx(m) \/ ProceedingState_Receive1xx(m)
    <3>1. tu \in {"waiting", "proceeding"}
      <4>1. CliInv(cli, tu) /\ cli.pooled /\ cli.msg # NoMsg
        BY <2>1 DEF Inv, CanReceive
      <4>2. cli.ud /\ tu = View(cli.state)
        BY <4>1 DEF CliInv, PoolInv, CliTxn, Txn
      <4> QED BY <2>2, <4>2 DEF View, CallingState_Receive1xx, ProceedingState_Receive1xx
    <3>2. tu' = "proceeding" \/ tu' = tu
      BY <2>1, <2>2, IndicateTypes DEF CallingState_Receive1xx, ProceedingState_Receive1xx
    <3> QED BY <3>1, <3>2
  <2>3. CASE Receive2xx(m) \/ ReceiveFailure(m)
    <3>1. tu \in {"waiting", "proceeding"}
      BY <2>1, <2>3, BeforeFinal DEF Receive2xx, ReceiveFailure
    <3>2. tu' \in {"success", "failure"} \/ tu' = tu
      BY <2>1, <2>3, IndicateTypes DEF Receive2xx, ReceiveFailure
    <3> QED BY <3>1, <3>2
  <2>4. CASE \/ LateProvisional(m) \/ AcceptedState_Receive2xx(m)
             \/ AcceptedState_ReceiveFailure(m) \/ CompletedState_ReceiveFailure(m)
             \/ CompletedState_Receive2xx(m)
    BY <2>1, <2>4, AbsorbedInv
  <2> QED
    BY <1>2, <2>2, <2>3, <2>4 DEF OnRecvMessage
<1>3. CASE CbkTxnTimeout
  <2>1. CliInv(cli, tu) /\ cli.pooled
    BY <1>3 DEF CbkTxnTimeout, Inv
  <2>2. tu' = tu \/ (tu' = "timedOut" /\ cli.timer \in {"A", "B"} /\ cli.ud)
    BY <1>3 DEF CbkTxnTimeout
  <2>3. cli.timer \in {"A", "B"} /\ cli.ud => tu = "waiting"
    BY <2>1 DEF CliInv, TimerInv, PoolInv, PooledStates, TimerOf, View, NoTimer
  <2> QED
    BY <2>2, <2>3
<1>4. CASE TerminateTxn \/ OnRecvTranspError
  <2>1. CliInv(cli, tu) /\ cli.pooled /\ cli.ud
    BY <1>4 DEF TerminateTxn, OnRecvTranspError, CanReceive, Inv, CliInv, PoolInv, CliTxn, Txn
  <2>2. tu \in {"waiting", "proceeding", "success", "failure"}
    BY <2>1 DEF CliInv, PoolInv, PooledStates, View
  <2>3. tu' = IF tu \in TuFinal THEN tu ELSE "aborted"
    BY <1>4 DEF TerminateTxn, OnRecvTranspError
  <2> QED
    BY <2>2, <2>3 DEF TuFinal
<1>5. CASE UNCHANGED vars
  BY <1>5 DEF vars
<1> QED
  BY <1>1, <1>2, <1>3, <1>4, <1>5 DEF Next

(* The user of the transaction sees one outcome that never changes: every  *)
(* step of the transaction is a step of the contract or none.              *)
THEOREM ClientImplementsContract == Spec => ImplementsContract
<1>1. Init => Contract!Init
  BY DEF Init, Contract!Init
<1>2. Inv /\ [Next]_vars => [Contract!Next]_tu
  BY ContractStep
<1> QED
  BY <1>1, <1>2, ClientInvariant, PTL DEF Spec, ImplementsContract, Contract!Spec

-----------------------------------------------------------------------------
(* The list of keys, and the order of reliable provisional responses.      *)

(* Before a provisional response has come, and once a failure response     *)
(* has, there is no key.                                                   *)
KeyInv ==
    /\ tu = "idle" => keys = NoKeys /\ seen = NoKeys
    /\ cli.state \in {"CALLING", "COMPLETED"} => keys = NoKeys

(* No handler fails half-way: timers start and ACKs can be built.          *)
HandlersComplete == Faults \cap {"timer", "ack"} = {}

(* In PROCEEDING the list says what the user was given, and the states     *)
(* that wait for a timer have one.                                         *)
OrderInv ==
    /\ cli.state = "CALLING" => seen = NoKeys
    /\ cli.state = "PROCEEDING" => keys = seen
    /\ cli.state \in {"CALLING", "ACCEPTED", "COMPLETED"} => cli.timer # NoTimer

(* A new INVITE: the object is in CALLING with a timer, or not in the pool *)
(* as before.                                                              *)
LEMMA SendInviteState ==
    ASSUME Inv, NEW p \in Protocols, SendInvite(p)
    PROVE  /\ tu = "idle" /\ tu' # "idle" /\ keys' = keys /\ seen' = seen
           /\ ~cli.pooled
           /\ \/ cli' = cli
              \/ cli'.state = "CALLING" /\ cli'.timer # NoTimer
              \/ cli'.state = "TERMINATED"
<1> DEFINE n1 == [NewTxn EXCEPT !.state = "CALLING"]
           n2 == [n1 EXCEPT !.pooled = TRUE]
           n3 == [n2 EXCEPT !.max = TimerB]
           n  == [n3 EXCEPT !.ud = TRUE]
           t  == IdleState_SendInviteRequest(p)
<1>1. n \in CliTxn /\ n.state = "CALLING" /\ n.running = 0
  <2>1. NewTxn \in CliTxn
    BY NewTxnType, CliNames DEF CliTxn
  <2>2. n1 \in CliTxn
    BY <2>1, SetState, CliNames DEF PooledStates
  <2>3. n2 \in CliTxn
    <3> HIDE DEF n1
    <3> QED BY <2>2, TxnUpdate DEF CliTxn
  <2>4. n3 \in CliTxn
    <3> HIDE DEF n2
    <3> QED BY <2>3, TxnUpdate, TimerBType DEF CliTxn
  <2>5. n \in CliTxn
    <3> HIDE DEF n3
    <3> QED BY <2>4, TxnUpdate DEF CliTxn
  <2>6. n.state = "CALLING" /\ n.running = 0
    BY SMT DEF NewTxn
  <2> QED
    BY <2>5, <2>6
<1>2. t = IF p = "UDP" THEN StartTxnTimer(n, "A", T1) ELSE StartTxnTimer(n, "B", TimerB)
  BY DEF IdleState_SendInviteRequest
<1> HIDE DEF n
<1>3. t \in CliTxn /\ t.state = "CALLING" /\ t.timer \in CliTimers /\ t.running = 1
  <2> DEFINE Started(r) ==
               r \in CliTxn /\ r.state = "CALLING" /\ r.timer \in CliTimers /\ r.running = 1
  <2>1. ASSUME NEW type \in CliTimers, NEW d \in Nat
        PROVE  Started(StartTxnTimer(n, type, d))
    BY <1>1, StartTxnTimerLemma DEF CliTxn
  <2>2. "A" \in CliTimers /\ "B" \in CliTimers /\ T1 \in Nat /\ TimerB \in Nat
    BY CliNames, TimerBType, TimerType
  <2>3. CASE p = "UDP"
    BY <1>2, <2>1, <2>2, <2>3
  <2>4. CASE p # "UDP"
    BY <1>2, <2>1, <2>2, <2>4
  <2> QED
    BY <2>3, <2>4
<1>4. t.timer # NoTimer /\ t.running >= 1
  BY <1>3, CliNames
<1>5. \/ cli' = UpdateTranspInfo(t, "INVITE", p)
      \/ cli' = cli
      \/ cli' = AbortTxn(t)
      \/ cli' = [t EXCEPT !.ud = FALSE]
  BY DEF SendInvite
<1>6. tu = "idle" /\ tu' # "idle" /\ keys' = keys /\ seen' = seen
  BY DEF SendInvite
<1>7. ~cli.pooled
  BY <1>6 DEF Inv, CliInv, PoolInv, PooledStates, View
<1> HIDE DEF t
<1>8. ASSUME cli' = UpdateTranspInfo(t, "INVITE", p)
      PROVE  cli'.state = "CALLING" /\ cli'.timer # NoTimer
  BY <1>3, <1>4, <1>8, UpdateTranspInfoLemma, CliNames DEF CliTxn
<1>9. ASSUME cli' = AbortTxn(t)
      PROVE  cli'.state = "TERMINATED"
  BY <1>3, <1>4, <1>9, AbortTxnLemma, CliNames DEF CliTxn
<1>10. ASSUME cli' = [t EXCEPT !.ud = FALSE]
       PROVE  cli'.state = "CALLING" /\ cli'.timer # NoTimer
  BY <1>3, <1>4, <1>10, SMT DEF CliTxn, Txn
<1> QED
  BY <1>5, <1>6, <1>7, <1>8, <1>9, <1>10

(* The timer of a state entered with its own timer.                        *)
LEMMA EnteredTimer ==
    ASSUME NEW t \in CliTxn, NEW type \in {"D", "M"}, NEW d \in Nat, NEW s \in CliStates
    PROVE  LET r == [StartTxnTimer(t, type, d) EXCEPT !.state = s] IN
           r \in CliTxn /\ r.state = s /\ r.timer # NoTimer /\ r.pooled = t.pooled
<1> DEFINE v == StartTxnTimer(t, type, d)
<1>1. type \in CliTimers /\ type # NoTimer
  BY CliNames
<1>3. v \in CliTxn /\ v.timer = type /\ v.pooled = t.pooled
  BY <1>1, StartTxnTimerLemma DEF CliTxn
<1> HIDE DEF v
<1>2. /\ [v EXCEPT !.state = s] \in CliTxn
      /\ [v EXCEPT !.state = s].state = s
      /\ [v EXCEPT !.state = s].timer = v.timer
      /\ [v EXCEPT !.state = s].pooled = v.pooled
  BY <1>3, SetState
<1> QED
  BY <1>1, <1>2, <1>3 DEF v

(* A response reaches a user who has sent an INVITE.                       *)
LEMMA ReceiverWaits ==
    ASSUME Inv, CanReceive
    PROVE  cli \in CliTxn /\ cli.pooled /\ cli.ud /\ tu = View(cli.state) /\ tu # "idle"
<1>1. CliInv(cli, tu) /\ cli.pooled /\ cli.msg # NoMsg
  BY DEF Inv, CanReceive
<1>2. cli.ud /\ tu = View(cli.state) /\ cli.state \in PooledStates
  BY <1>1 DEF CliInv, PoolInv, CliTxn, Txn
<1> QED
  BY <1>1, <1>2 DEF CliInv, View, PooledStates

(* What the two lists come to when a message is handed up.                 *)
LEMMA IndicatedKeys ==
    ASSUME NEW m \in Responses, Indicate(m),
           seen \in [Tags -> 0 .. MaxRSeq]
    PROVE  /\ tu' # "idle"
           /\ m.rseq = 0 => seen' = seen
           /\ m.rseq > 0 => seen' = [seen EXCEPT ![m.tag] = m.rseq]
           /\ m.code # "1xx" => m.rseq = 0
<1>1. m.rseq \in 0 .. MaxRSeq /\ (m.code # "1xx" => m.rseq = 0)
  BY ResponseType DEF Responses
<1>2. m.rseq \in Nat
  BY <1>1, RSeqAssumption
<1>3. tu' # "idle"
  BY DEF Indicate
<1> QED
  BY <1>1, <1>2, <1>3 DEF Indicate

KeysKept ==
    /\ KeyInv'
    /\ ~cli'.pooled => keys' = NoKeys
    /\ HandlersComplete /\ OrderInv => OrderInv'

(* The first provisional response.                                         *)
LEMMA Calling1xxKeys ==
    ASSUME Inv, KeyInv, NEW m \in Responses, CanReceive, CallingState_Receive1xx(m)
    PROVE  KeysKept
<1> DEFINE v == StopTxnTimer(cli)
<1>1. /\ cli.state = "CALLING" /\ cli' = [v EXCEPT !.state = "PROCEEDING"]
      /\ keys' = (IF m.rseq > 0 THEN [keys EXCEPT ![m.tag] = m.rseq] ELSE keys)
      /\ Indicate(m)
  BY DEF CallingState_Receive1xx
<1>2. CliInv(cli, tu) /\ cli.pooled /\ seen \in [Tags -> 0 .. MaxRSeq]
  BY DEF Inv, CanReceive
<1>3. v \in CliTxn /\ v.pooled = cli.pooled
  BY <1>2, StoppedInv DEF CliInv
<1> HIDE DEF v
<1>4. cli'.state = "PROCEEDING" /\ cli'.pooled
  BY <1>1, <1>2, <1>3, SetState, CliNames DEF PooledStates
<1>5. m.rseq \in Nat
  BY ResponseType, RSeqAssumption
<1>6. /\ tu' # "idle" /\ (m.rseq = 0 => seen' = seen)
      /\ (m.rseq > 0 => seen' = [seen EXCEPT ![m.tag] = m.rseq])
  BY <1>1, <1>2, IndicatedKeys
<1>7. OrderInv => keys' = seen'
  BY <1>1, <1>5, <1>6 DEF KeyInv, OrderInv
<1> QED
  BY <1>4, <1>6, <1>7 DEF KeysKept, KeyInv, OrderInv

(* A further one.                                                          *)
LEMMA Proceeding1xxKeys ==
    ASSUME Inv, KeyInv, NEW m \in Responses, CanReceive, ProceedingState_Receive1xx(m)
    PROVE  KeysKept
<1>1. /\ cli.state = "PROCEEDING" /\ cli' = cli
      /\ \/ /\ Indicate(m)
            /\ keys' = (IF m.rseq > 0 THEN [keys EXCEPT ![m.tag] = m.rseq] ELSE keys)
         \/ keys' = keys /\ tu' = tu /\ seen' = seen
  BY DEF ProceedingState_Receive1xx
<1>2. cli.pooled /\ tu # "idle" /\ seen \in [Tags -> 0 .. MaxRSeq]
  BY ReceiverWaits DEF Inv
<1>3. m.rseq \in Nat
  BY ResponseType, RSeqAssumption
<1>4. tu' # "idle"
  BY <1>1, <1>2, IndicatedKeys
<1>5. OrderInv => keys' = seen'
  BY <1>1, <1>2, <1>3, IndicatedKeys DEF OrderInv
<1> QED
  BY <1>1, <1>2, <1>4, <1>5 DEF KeysKept, KeyInv, OrderInv

(* Responses after the final one.                                          *)
LEMMA AbsorbedKeys ==
    ASSUME Inv, KeyInv, NEW m \in Responses, CanReceive,
           \/ LateProvisional(m)
           \/ AcceptedState_Receive2xx(m)
           \/ AcceptedState_ReceiveFailure(m)
           \/ CompletedState_ReceiveFailure(m)
           \/ CompletedState_Receive2xx(m)
    PROVE  KeysKept
<1>1. cli' = cli /\ tu' = tu /\ cli.pooled /\ tu # "idle"
  BY AbsorbedInv, ReceiverWaits
     DEF LateProvisional, AcceptedState_Receive2xx, AcceptedState_ReceiveFailure,
         CompletedState_ReceiveFailure, CompletedState_Receive2xx
<1>2. \/ cli.state = "ACCEPTED"
      \/ cli.state = "COMPLETED" /\ keys' = keys
  BY DEF LateProvisional, AcceptedState_Receive2xx, AcceptedState_ReceiveFailure,
         CompletedState_ReceiveFailure, CompletedState_Receive2xx
<1> QED
  BY <1>1, <1>2 DEF KeysKept, KeyInv, OrderInv

(* A 2xx in CALLING or PROCEEDING.                                         *)
LEMMA Receive2xxKeys ==
    ASSUME Inv, KeyInv, NEW m \in Responses, CanReceive, Receive2xx(m)
    PROVE  KeysKept
<1> DEFINE t == IF cli.state = "CALLING" THEN StopTxnTimer(cli) ELSE cli
<1>1. /\ cli.state \in {"CALLING", "PROCEEDING"} /\ m.code = "2xx"
      /\ cli.state = "CALLING" => keys' = keys
      /\ \/ /\ cli' = [StartTxnTimer(t, "M", TimerM) EXCEPT !.state = "ACCEPTED"]
            /\ Indicate(m)
         \/ "timer" \in Faults /\ cli' = t /\ tu' = tu
  BY DEF Receive2xx
<1>2. t \in CliTxn /\ t.pooled /\ t.state = cli.state /\ tu # "idle"
  BY <1>1, BeforeFinal DEF CliInv
<1> HIDE DEF t
<1>3. ASSUME cli' = [StartTxnTimer(t, "M", TimerM) EXCEPT !.state = "ACCEPTED"],
             Indicate(m)
      PROVE  KeysKept
  <2>1. cli'.state = "ACCEPTED" /\ cli'.timer # NoTimer /\ cli'.pooled
    BY <1>2, <1>3, EnteredTimer, TimerDMType, CliNames DEF PooledStates
  <2>2. tu' # "idle"
    BY <1>3 DEF Indicate
  <2> QED
    BY <2>1, <2>2 DEF KeysKept, KeyInv, OrderInv
<1>4. ASSUME "timer" \in Faults, cli' = t, tu' = tu
      PROVE  KeysKept
  BY <1>1, <1>2, <1>4 DEF KeysKept, KeyInv, HandlersComplete
<1> QED
  BY <1>1, <1>3, <1>4

(* A failure response in CALLING or PROCEEDING.                            *)
LEMMA ReceiveFailureKeys ==
    ASSUME Inv, KeyInv, NEW m \in Responses, CanReceive, ReceiveFailure(m)
    PROVE  KeysKept
<1> DEFINE t == IF cli.state = "CALLING" THEN StopTxnTimer(cli) ELSE cli
           c == HandleFailureResponse(t)
<1>1. /\ cli.state \in {"CALLING", "PROCEEDING"}
      /\ keys' = IF cli.state = "PROCEEDING" THEN NoKeys ELSE keys
      /\ \/ /\ Indicate(m)
            /\ cli' = UpdateTranspInfo(c, "ACK", t.proto) \/ cli' = c
         \/ Faults \cap {"timer", "ack"} # {} /\ cli' = t /\ tu' = tu
         \/ cli' = AbortTxn(c) /\ Indicate(m)
  BY DEF ReceiveFailure
<1>2. CliInv(t, tu) /\ t \in CliTxn /\ t.timer = NoTimer /\ t.pooled /\ t.ud /\ t.state = cli.state /\ tu # "idle"
  BY <1>1, BeforeFinal DEF CliInv
<1>3. t.proto \in Protocols \cup {"INVALID"}
  BY <1>2, SMT DEF CliTxn, Txn
<1> HIDE DEF t
<1>4. keys' = NoKeys
  BY <1>1 DEF KeyInv
<1>5. /\ c \in CliTxn /\ c.state = "COMPLETED" /\ c.timer # NoTimer /\ c.pooled
  BY <1>2, EnteredTimer, TimerDMType, CliNames DEF HandleFailureResponse, PooledStates
<1>6. c.running >= 1
  BY <1>2, <1>5, EnteredInv, TimerDMType DEF HandleFailureResponse, TimerOf, CliInv, TimerInv
<1> HIDE DEF c
<1>7. ASSUME Indicate(m), cli' = UpdateTranspInfo(c, "ACK", t.proto) \/ cli' = c
      PROVE  KeysKept
  <2> DEFINE r == UpdateTranspInfo(c, "ACK", t.proto)
  <2>3. "ACK" \in CliMsgs
    BY CliNames
  <2>4. r.state = c.state /\ r.timer = c.timer
    BY <1>3, <1>5, <2>3, UpdateTranspInfoLemma DEF CliTxn
  <2> HIDE DEF r
  <2>1. cli'.state = "COMPLETED" /\ cli'.timer # NoTimer
    BY <1>5, <1>7, <2>4 DEF r
  <2>2. tu' # "idle"
    BY <1>7 DEF Indicate
  <2> QED
    BY <1>4, <2>1, <2>2 DEF KeysKept, KeyInv, OrderInv
<1>8. ASSUME Faults \cap {"timer", "ack"} # {}, cli' = t, tu' = tu
      PROVE  KeysKept
  BY <1>2, <1>4, <1>8 DEF KeysKept, KeyInv, HandlersComplete
<1>9. ASSUME cli' = AbortTxn(c), Indicate(m)
      PROVE  KeysKept
  <2>1. cli'.state = "TERMINATED"
    BY <1>5, <1>6, <1>9, AbortTxnLemma, CliNames DEF CliTxn
  <2>2. tu' # "idle"
    BY <1>9 DEF Indicate
  <2> QED
    BY <1>4, <2>1, <2>2 DEF KeysKept, KeyInv, OrderInv
<1> QED
  BY <1>1, <1>7, <1>8, <1>9

(* The timer callback.                                                     *)
LEMMA CbkTxnTimeoutKeys ==
    ASSUME Inv, KeyInv, CbkTxnTimeout
    PROVE  KeysKept
<1> DEFINE type == cli.timer
           g == TimerFired(cli)
           f == OnTimer(g, type)
<1>1. CliInv(cli, tu) /\ cli \in CliTxn /\ cli.pooled /\ cli.timer # NoTimer
  BY DEF CbkTxnTimeout, Inv, CliInv
<1>2. cli.running = 1 /\ cli.timer \in TimerOf(cli.state)
  BY <1>1 DEF CliInv, TimerInv
<1>16. cli \in Txn(CliStates, CliTimers, CliMsgs) /\ cli.running >= 1
  BY <1>1, <1>2 DEF CliTxn
<1>3. g \in CliTxn /\ g.state = cli.state /\ g.pooled = cli.pooled
  BY <1>16, TimerFiredLemma DEF CliTxn
<1>4. seen' = seen
  BY DEF CbkTxnTimeout
<1>5. tu # "idle"
  BY <1>1 DEF CliInv, PoolInv, PooledStates, View, CliTxn, Txn
<1>6. tu' \in {tu, "timedOut"} /\ tu' # "idle"
  BY <1>5 DEF CbkTxnTimeout
<1>7. /\ cli.state \in {"CALLING", "ACCEPTED", "COMPLETED"}
      /\ cli.state = "CALLING" <=> type \in {"A", "B"}
      /\ cli.state = "ACCEPTED" <=> type = "M"
      /\ cli.state = "COMPLETED" <=> type = "D"
  BY <1>1, <1>2, CliNames DEF TimerOf
<1>8. \/ /\ f.state = "TERMINATED" /\ cli' = ReleaseTransaction(f)
         /\ keys' = IF type = "M" THEN NoKeys ELSE keys
      \/ f.state # "TERMINATED" /\ cli' = f /\ keys' = keys
      \/ "timer" \in Faults /\ cli' = CountFirstInterval(g) /\ keys' = keys
  BY DEF CbkTxnTimeout
<1>9. cli.state = "CALLING" => f.state = "TERMINATED" \/ (f.state = "CALLING" /\ f.timer = "A")
  <2> SUFFICES ASSUME cli.state = "CALLING"
               PROVE  f.state = "TERMINATED" \/ (f.state = "CALLING" /\ f.timer = "A")
    OBVIOUS
  <2>1. f = CallingState_Timer_A_B_Timeout(g)
    <3> HIDE DEF g
    <3> QED BY <1>3, <1>7 DEF OnTimer
  <2>2. cli.state = "CALLING"
    OBVIOUS
  <2> QED
    BY <1>1, <2>1, <2>2, CallingTimeoutInv
<1>10. cli.state # "CALLING" => f.state = "TERMINATED"
  <2> SUFFICES ASSUME cli.state # "CALLING" PROVE f.state = "TERMINATED"
    OBVIOUS
  <2> HIDE DEF g
  <2>1. f = [g EXCEPT !.state = "TERMINATED"]
    BY <1>3, <1>7 DEF OnTimer
  <2> QED
    BY <1>3, <2>1, SetState, CliNames
<1>11. /\ CountFirstInterval(g).state = cli.state
       /\ CountFirstInterval(g).pooled = cli.pooled
  BY <1>3, CountFirstIntervalLemma DEF CliTxn
<1>12. f.state = "CALLING" => f.pooled
  <2> SUFFICES ASSUME f.state = "CALLING" PROVE f.pooled
    OBVIOUS
  <2>1. cli.state = "CALLING"
    BY <1>10
  <2>2. f = CallingState_Timer_A_B_Timeout(TimerFired(cli))
    BY <1>3, <1>7, <2>1 DEF OnTimer
  <2>3. CliInv(f, tu)
    BY <1>1, <2>1, <2>2, CallingTimeoutInv
  <2> QED
    BY <2>3 DEF CliInv, PoolInv, CliTxn, Txn
<1> HIDE DEF g, f
<1>13. ASSUME f.state = "TERMINATED", cli' = ReleaseTransaction(f),
              keys' = IF type = "M" THEN NoKeys ELSE keys
       PROVE  KeysKept
  <2>1. cli'.state = "TERMINATED"
    BY <1>13 DEF ReleaseTransaction, NewTxn
  <2>2. keys' = NoKeys
    BY <1>7, <1>13 DEF KeyInv
  <2> QED
    BY <1>6, <2>1, <2>2 DEF KeysKept, KeyInv, OrderInv
<1>14. ASSUME f.state # "TERMINATED", cli' = f, keys' = keys
       PROVE  KeysKept
  <2>1. cli.state = "CALLING" /\ f.state = "CALLING" /\ f.timer # NoTimer
    BY <1>9, <1>10, <1>14, CliNames
  <2> QED
    BY <1>4, <1>6, <1>12, <1>14, <2>1 DEF KeysKept, KeyInv, OrderInv
<1>15. ASSUME "timer" \in Faults, cli' = CountFirstInterval(g), keys' = keys
       PROVE  KeysKept
  BY <1>1, <1>6, <1>11, <1>15 DEF KeysKept, KeyInv, HandlersComplete
<1> QED
  BY <1>8, <1>13, <1>14, <1>15

(* Both ends from outside.                                                 *)
LEMMA EndedKeys ==
    ASSUME Inv, KeyInv, TerminateTxn \/ OnRecvTranspError
    PROVE  /\ KeyInv' /\ (HandlersComplete /\ OrderInv => OrderInv')
           /\ ~cli'.pooled
           /\ TerminateTxn => keys' = NoKeys
<1>1. \E t : cli' = ReleaseTransaction(t)
  BY DEF TerminateTxn, OnRecvTranspError, AbortTxn
<1>2. cli'.state = "TERMINATED" /\ ~cli'.pooled
  BY <1>1 DEF ReleaseTransaction, NewTxn
<1>3. cli.pooled
  BY DEF TerminateTxn, OnRecvTranspError, CanReceive
<1>4. tu # "idle"
  BY <1>3 DEF Inv, CliInv, PoolInv, PooledStates, View, CliTxn, Txn
<1>5. tu' # "idle"
  BY <1>4 DEF TerminateTxn, OnRecvTranspError
<1> QED
  BY <1>2, <1>5 DEF KeyInv, OrderInv, TerminateTxn

(* Every step keeps both parts, and an object that leaves the pool leaves  *)
(* no key behind unless the transport has reported an error.               *)
LEMMA NextKeys ==
    ASSUME Inv, KeyInv, [Next]_vars
    PROVE  /\ KeyInv' /\ (HandlersComplete /\ OrderInv => OrderInv')
           /\ cli.pooled /\ ~cli'.pooled /\ keys' # NoKeys => OnRecvTranspError
<1>1. ASSUME NEW p \in Protocols, SendInvite(p)
      PROVE  /\ KeyInv' /\ (OrderInv => OrderInv')
             /\ ~cli.pooled
  <2>1. /\ tu = "idle" /\ tu' # "idle" /\ keys' = keys /\ seen' = seen
        /\ ~cli.pooled
        /\ \/ cli' = cli
           \/ cli'.state = "CALLING" /\ cli'.timer # NoTimer
           \/ cli'.state = "TERMINATED"
    BY <1>1, SendInviteState
  <2>2. cli.state \in {"IDLE", "TERMINATED"}
    BY <2>1 DEF Inv, CliInv, PoolInv
  <2> QED
    BY <2>1, <2>2 DEF KeyInv, OrderInv
<1>2. ASSUME NEW m \in Responses, OnRecvMessage(m) PROVE KeysKept
  <2>1. CanReceive
    BY <1>2 DEF OnRecvMessage
  <2> QED
    BY <1>2, <2>1, Calling1xxKeys, Proceeding1xxKeys, AbsorbedKeys, Receive2xxKeys,
       ReceiveFailureKeys DEF OnRecvMessage
<1>3. CASE CbkTxnTimeout
  BY <1>3, CbkTxnTimeoutKeys DEF KeysKept
<1>4. CASE TerminateTxn \/ OnRecvTranspError
  BY <1>4, EndedKeys
<1>5. CASE UNCHANGED vars
  BY <1>5 DEF vars, KeyInv, OrderInv
<1> QED
  BY <1>1, <1>2, <1>3, <1>4, <1>5 DEF Next, KeysKept

(* A reliable provisional response handed up is the first of its to-tag or *)
(* follows the last one.                                                   *)
LEMMA HandedUpInOrder ==
    ASSUME Inv, KeyInv, OrderInv, [Next]_vars, seen' # seen \/ given' # given
    PROVE  \E t \in Tags, r \in Nat :
              /\ seen' = [seen EXCEPT ![t] = r]
              /\ given' = [given EXCEPT ![t] = @ + 1]
              /\ seen[t] = 0 \/ r = seen[t] + 1
<1>1. PICK m \in Responses : OnRecvMessage(m) /\ Indicate(m)
  BY DEF Next, SendInvite, CbkTxnTimeout, TerminateTxn, OnRecvTranspError, vars,
         OnRecvMessage, CallingState_Receive1xx, ProceedingState_Receive1xx,
         LateProvisional, Receive2xx, AcceptedState_Receive2xx,
         AcceptedState_ReceiveFailure, ReceiveFailure,
         CompletedState_ReceiveFailure, CompletedState_Receive2xx
<1>2. seen \in [Tags -> 0 .. MaxRSeq] /\ m.tag \in Tags
  BY ResponseType DEF Inv
<1>3. m.rseq \in Nat
  BY ResponseType, RSeqAssumption
<1>4. m.rseq > 0 /\ given' = [given EXCEPT ![m.tag] = @ + 1]
  BY <1>1, <1>3 DEF Indicate
<1>5. seen' = [seen EXCEPT ![m.tag] = m.rseq] /\ m.code = "1xx"
  BY <1>1, <1>2, <1>4, IndicatedKeys
<1>6. CallingState_Receive1xx(m) \/ (ProceedingState_Receive1xx(m) /\ NewRpr(m))
  BY <1>1, <1>4, <1>5
     DEF OnRecvMessage, LateProvisional, Receive2xx, AcceptedState_Receive2xx,
         AcceptedState_ReceiveFailure, ReceiveFailure, ProceedingState_Receive1xx,
         CompletedState_ReceiveFailure, CompletedState_Receive2xx
<1>7. CASE CallingState_Receive1xx(m)
  <2>1. seen[m.tag] = 0
    BY <1>2, <1>7 DEF CallingState_Receive1xx, OrderInv, NoKeys
  <2> QED
    BY <1>2, <1>3, <1>4, <1>5, <2>1
<1>8. CASE ProceedingState_Receive1xx(m) /\ NewRpr(m)
  <2>1. seen[m.tag] = 0 \/ m.rseq = seen[m.tag] + 1
    BY <1>8 DEF ProceedingState_Receive1xx, NewRpr, OrderInv
  <2> QED
    BY <1>2, <1>3, <1>4, <1>5, <2>1
<1> QED
  BY <1>6, <1>7, <1>8

(* For each to-tag.                                                        *)
LEMMA EachInOrder ==
    ASSUME Inv, KeyInv, OrderInv, [Next]_vars, NEW t \in Tags,
           \/ seen'[t] # seen[t]
           \/ given \in [Tags -> Nat] /\ given'[t] # given[t]
    PROVE  seen[t] = 0 \/ seen'[t] = seen[t] + 1
<1>1. seen \in [Tags -> 0 .. MaxRSeq]
  BY DEF Inv
<1>2. seen' # seen \/ given' # given
  OBVIOUS
<1>3. PICK u \in Tags, r \in Nat :
         /\ seen' = [seen EXCEPT ![u] = r]
         /\ given' = [given EXCEPT ![u] = @ + 1]
         /\ seen[u] = 0 \/ r = seen[u] + 1
  BY <1>2, HandedUpInOrder
<1>4. t = u
  BY <1>1, <1>3
<1> QED
  BY <1>1, <1>3, <1>4

(* The first state.                                                        *)
LEMMA InitKeys == Init => KeyInv /\ OrderInv
  BY DEF Init, NewTxn, KeyInv, OrderInv

(* A transaction that leaves the pool leaves no key in the list, by every  *)
(* way out but that of a transport error.                                  *)
THEOREM ClientKeys == Spec => NoLeakedKeys
<1>1. Inv /\ KeyInv /\ [Next]_vars => KeyInv'
  BY NextKeys
<1>2. Inv /\ KeyInv /\ [Next]_vars =>
          [cli.pooled /\ ~cli'.pooled /\ keys' # NoKeys => OnRecvTranspError]_vars
  BY NextKeys
<1>3. Init => KeyInv
  BY InitKeys
<1> QED
  BY <1>1, <1>2, <1>3, ClientInvariant, PTL DEF Spec, NoLeakedKeys

(* When timers start and ACKs can be built, the invariants of the list     *)
(* hold in every state.                                                    *)
LEMMA KeyInvariant ==
    ASSUME HandlersComplete PROVE Spec => [](Inv /\ KeyInv /\ OrderInv)
<1>1. Inv /\ KeyInv /\ OrderInv /\ [Next]_vars => Inv' /\ KeyInv' /\ OrderInv'
  BY NextKeys, NextInv
<1>2. Init => Inv /\ KeyInv /\ OrderInv
  BY InitKeys, InitInv
<1> QED
  BY <1>1, <1>2, PTL DEF Spec

(* However the network repeats and reorders them, and however many user    *)
(* agents answer, reliable provisional responses go up in order and none   *)
(* goes up twice: every one that does is the first or follows the last.    *)
THEOREM ClientRprInOrder == ASSUME HandlersComplete PROVE Spec => RprInOrder
<1>1. Inv /\ KeyInv /\ OrderInv /\ given \in [Tags -> Nat] /\ [Next]_vars =>
          [\A t \in Tags : given'[t] # given[t] =>
                seen[t] = 0 \/ seen'[t] = seen[t] + 1]_vars
  BY EachInOrder
<1> QED
  BY <1>1, KeyInvariant, GivenTypes, PTL DEF Spec, RprInOrder

(* Every state that waits for a timer has the one that ends it, and no     *)
(* other state has any.                                                    *)
THEOREM ClientTimerCovers == ASSUME HandlersComplete PROVE Spec => []TimerCoversState
<1>1. Inv /\ OrderInv => TimerCoversState
  BY DEF Inv, CliInv, TimerInv, PoolInv, OrderInv, TimerCoversState, TimerOf,
         CliTxn, Txn, CliStates
<1> QED
  BY <1>1, KeyInvariant, PTL
=============================================================================
