---------------------- MODULE SipNonInviteTxnNetProofs ----------------------
(***************************************************************************)
(* Proofs about the non-INVITE transactions, for every timer value and     *)
(* every set of possible faults.                                           *)
(*                                                                         *)
(* The client transaction, whose transport does what it likes:             *)
(*   RequestTypeCorrect, RequestTimers, RequestTimeoutExact,               *)
(*   RequestIntervalCapped, RequestQuiet, RequestImplementsContract        *)
(* They follow from one inductive invariant, ReqInv.                       *)
(*                                                                         *)
(* A client transaction and the server transaction of its peer on an       *)
(* unreliable network:                                                     *)
(*   AnswerTimers         about the server transaction                     *)
(*   NetImplementsRequest and what is shown of the client holds here,      *)
(*                        NetTimeoutExact, NetQuiet                        *)
(*   NetClientBehind      about both ends                                  *)
(* They follow from NetInv, which contains ReqInv.                         *)
(***************************************************************************)
EXTENDS SipNonInviteTxnNet, SipTxnProofs

-----------------------------------------------------------------------------
(* The client transaction.                                                 *)

ReqTxn == Txn(ReqStates, ReqTimers, ReqMsgs)

Active == {"TRYING", "PROCEEDING"}

(* What the transaction user has been told when the transaction is in s.   *)
ReqView(s) ==
    CASE s = "TRYING"     -> "waiting"
      [] s = "PROCEEDING" -> "proceeding"
      [] OTHER            -> "answered"

(* A timer that runs is one its state waits for.                           *)
ReqTimerInv(t) ==
    /\ t.running = IF t.timer = NoTimer THEN 0 ELSE 1
    /\ t.timer # NoTimer =>
          \/ t.state \in Active /\ t.timer \in {"E", "F"}
          \/ t.state = "COMPLETED" /\ t.timer = "K"

(* In the pool, the user data lead to a user who knows the state; without  *)
(* user data nothing was ever sent.  Outside the pool nothing is left.     *)
ReqPoolInv(t, u) ==
    /\ t.pooled =>
          /\ t.state \in Active \cup {"COMPLETED"}
          /\ t.ud  => t.msg = "REQUEST" /\ u = ReqView(t.state)
          /\ ~t.ud => t.msg = NoMsg /\ t.state = "TRYING" /\ u = "aborted"
    /\ ~t.pooled =>
          /\ t.state \in {"IDLE", "TERMINATED"} /\ t.timer = NoTimer
          /\ t.msg = NoMsg /\ u \notin RuPending

(* The accounting of a series of Timer E intervals: from the second one    *)
(* on, expired is the time at which the running interval will end.         *)
ReqSeriesInv(t) ==
    t.state \in Active /\ t.timer # NoTimer =>
        /\ t.max = TimerF
        /\ t.ud => (t.timer = "E" <=> t.proto = "UDP")
        /\ t.timer = "F" => t.cur = TimerF /\ t.elapsed = 0
        /\ t.timer = "E" =>
              \/ t.expired = 0 /\ t.cur = T1 /\ t.elapsed = 0
              \/ /\ t.expired # 0 /\ t.expired = t.elapsed + t.cur
                 /\ t.expired <= TimerF /\ t.cur # 0 /\ t.cur <= T2

ReqCoreInv(t, u) ==
    /\ t \in ReqTxn /\ u \in RuStates
    /\ ReqTimerInv(t)
    /\ ReqPoolInv(t, u)
    /\ u = "timedOut" => t.elapsed = TimerF
    /\ ReqSeriesInv(t)

ReqInv ==
    /\ ReqCoreInv(req, ru)
    /\ rsent \in ReqMsgs \cup {NoMsg}

-----------------------------------------------------------------------------
(* Lemmas about the constants and the names of this module.                *)

(* Timer F is a number not smaller than T1, Timer K is one.                *)
LEMMA TimerFKType == TimerF \in Nat /\ T1 <= TimerF /\ TimerK \in Nat
  BY RequestTimerAssumption, TimerType, MaxTimerValueType

(* The states, timers and messages are different names.                    *)
LEMMA ReqNames ==
    /\ {"IDLE", "TERMINATED", "TRYING", "PROCEEDING", "COMPLETED"} = ReqStates
    /\ {"E", "F", "K"} = ReqTimers /\ NoTimer \notin ReqTimers
    /\ {"REQUEST"} = ReqMsgs /\ NoMsg \notin ReqMsgs
  BY DEF ReqStates, ReqTimers, ReqMsgs, NoTimer, NoMsg

(* The Boolean fields of a record.                                         *)
LEMMA ReqBooleans ==
    ASSUME NEW t \in ReqTxn
    PROVE  t.ud \in BOOLEAN /\ t.pooled \in BOOLEAN
  BY SMT DEF ReqTxn, Txn

(* Changing the state changes nothing else.                                *)
LEMMA ReqSetState ==
    ASSUME NEW t \in ReqTxn, NEW s \in ReqStates
    PROVE  LET r == [t EXCEPT !.state = s] IN
           /\ r \in ReqTxn /\ r.state = s
           /\ r.pooled = t.pooled /\ r.timer = t.timer /\ r.running = t.running
           /\ r.cur = t.cur /\ r.max = t.max /\ r.expired = t.expired
           /\ r.count = t.count /\ r.msg = t.msg /\ r.proto = t.proto
           /\ r.ud = t.ud /\ r.elapsed = t.elapsed
<1>1. [t EXCEPT !.state = s] \in ReqTxn
  BY TxnUpdate DEF ReqTxn
<1> QED
  BY <1>1, SMT DEF ReqTxn, Txn

-----------------------------------------------------------------------------
(* The shapes of record the handlers leave behind.                         *)

(* A released transaction satisfies the invariant with any outcome.        *)
LEMMA ReqReleasedInv ==
    ASSUME NEW t \in ReqTxn, NEW u \in RuStates \ RuPending, t.state = "TERMINATED",
           ~t.pooled, t.timer = NoTimer, t.msg = NoMsg, t.running = 0,
           u = "timedOut" => t.elapsed = TimerF
    PROVE  ReqCoreInv(t, u)
  BY DEF ReqCoreInv, ReqTimerInv, ReqPoolInv, ReqSeriesInv, Active

(* Stopping the timer keeps the invariant, and no timer runs afterwards.   *)
LEMMA ReqStoppedInv ==
    ASSUME NEW t, NEW u, ReqCoreInv(t, u)
    PROVE  LET r == StopTxnTimer(t) IN
           /\ ReqCoreInv(r, u) /\ r.timer = NoTimer /\ r.running = 0
           /\ r.state = t.state /\ r.pooled = t.pooled /\ r.msg = t.msg
           /\ r.ud = t.ud /\ r.elapsed = t.elapsed
<1> DEFINE r == StopTxnTimer(t)
<1>1. t \in ReqTxn /\ (t.timer # NoTimer => t.running >= 1)
  BY DEF ReqCoreInv, ReqTimerInv
<1>2. /\ r \in ReqTxn /\ r.timer = NoTimer
      /\ r.running = IF t.timer = NoTimer THEN t.running ELSE t.running - 1
      /\ r.state = t.state /\ r.pooled = t.pooled /\ r.msg = t.msg
      /\ r.ud = t.ud /\ r.elapsed = t.elapsed
  BY <1>1, StopTxnTimerLemma DEF ReqTxn
<1>3. r.running = 0
  BY <1>2 DEF ReqCoreInv, ReqTimerInv
<1> HIDE DEF r
<1>4. ReqCoreInv(r, u)
  BY <1>2, <1>3 DEF ReqCoreInv, ReqTimerInv, ReqPoolInv, ReqSeriesInv
<1> QED
  BY <1>2, <1>3, <1>4 DEF r

(* Released after the timer was stopped: nothing runs any more.            *)
LEMMA ReqAbortedInv ==
    ASSUME NEW t, NEW u, ReqCoreInv(t, u), NEW v \in RuStates \ RuPending,
           v = "timedOut" => t.elapsed = TimerF
    PROVE  ReqCoreInv(AbortTxn(t), v) /\ ~AbortTxn(t).pooled
<1> DEFINE s == StopTxnTimer(t)
           r == ReleaseTransaction(s)
<1>1. s \in ReqTxn /\ s.running = 0 /\ s.elapsed = t.elapsed
  BY ReqStoppedInv DEF ReqCoreInv
<1> HIDE DEF s
<1>2. /\ r \in ReqTxn /\ r.state = "TERMINATED" /\ ~r.pooled /\ r.timer = NoTimer
      /\ r.msg = NoMsg /\ r.running = 0 /\ r.elapsed = t.elapsed
  BY <1>1, ReleaseTransactionLemma, ReqNames DEF ReqTxn
<1>3. AbortTxn(t) = r
  BY DEF AbortTxn, s
<1> HIDE DEF r
<1> QED
  BY <1>2, <1>3, ReqReleasedInv

-----------------------------------------------------------------------------
(* Each action keeps the invariant.                                        *)

(* SendRequest, in all four outcomes.                                      *)
LEMMA SendRequestInv ==
    ASSUME ReqInv, NEW p \in Protocols, SendRequest(p)
    PROVE  ReqInv'
<1> DEFINE n1 == [NewTxn EXCEPT !.state = "TRYING"]
           n2 == [n1 EXCEPT !.pooled = TRUE]
           n3 == [n2 EXCEPT !.max = TimerF]
           n  == [n3 EXCEPT !.ud = TRUE]
           t  == IdleState_SendNonInviteRequest(p)
<1>1. n \in ReqTxn
  <2>1. NewTxn \in ReqTxn
    BY NewTxnType, ReqNames DEF ReqTxn
  <2>2. n1 \in ReqTxn
    BY <2>1, ReqSetState, ReqNames
  <2>3. n2 \in ReqTxn
    <3> HIDE DEF n1
    <3> QED BY <2>2, TxnUpdate DEF ReqTxn
  <2>4. n3 \in ReqTxn
    <3> HIDE DEF n2
    <3> QED BY <2>3, TxnUpdate, TimerFKType DEF ReqTxn
  <2> HIDE DEF n3
  <2> QED BY <2>4, TxnUpdate DEF ReqTxn
<1>2. /\ n.state = "TRYING" /\ n.pooled /\ n.max = TimerF /\ n.ud /\ n.running = 0
      /\ n.elapsed = 0 /\ n.expired = 0 /\ n.msg = NoMsg
  BY SMT DEF NewTxn
<1>3. t = IF p = "UDP" THEN StartTxnTimer(n, "E", T1) ELSE StartTxnTimer(n, "F", TimerF)
  BY DEF IdleState_SendNonInviteRequest
<1> HIDE DEF n
<1>4. /\ t \in ReqTxn /\ t.state = "TRYING" /\ t.pooled /\ t.max = TimerF /\ t.ud
      /\ t.running = 1 /\ t.elapsed = 0 /\ t.expired = 0 /\ t.msg = NoMsg
      /\ IF p = "UDP" THEN t.timer = "E" /\ t.cur = T1
                      ELSE t.timer = "F" /\ t.cur = TimerF
  <2> DEFINE Started(r, type, d) ==
               /\ r \in ReqTxn /\ r.state = "TRYING" /\ r.pooled /\ r.max = TimerF /\ r.ud
               /\ r.running = 1 /\ r.elapsed = 0 /\ r.expired = 0
               /\ r.msg = NoMsg /\ r.timer = type /\ r.cur = d
  <2>1. ASSUME NEW type \in ReqTimers, NEW d \in Nat
        PROVE  Started(StartTxnTimer(n, type, d), type, d)
    BY <1>1, <1>2, StartTxnTimerLemma DEF ReqTxn
  <2>2. "E" \in ReqTimers /\ "F" \in ReqTimers /\ T1 \in Nat /\ TimerF \in Nat
    BY ReqNames, TimerFKType, TimerType
  <2>3. CASE p = "UDP"
    BY <1>3, <2>1, <2>2, <2>3
  <2>4. CASE p # "UDP"
    BY <1>3, <2>1, <2>2, <2>4
  <2> QED
    BY <2>3, <2>4
<1> HIDE DEF t
<1>5. ReqCoreInv(req, "aborted")
  BY DEF ReqInv, ReqCoreInv, ReqPoolInv, SendRequest, ReqView, Active, RuPending, RuStates
<1>6. CASE req' = UpdateTranspInfo(t, "REQUEST", p) /\ ru' = "waiting"
  <2> DEFINE r == UpdateTranspInfo(t, "REQUEST", p)
  <2>1. /\ r \in ReqTxn /\ r.state = "TRYING" /\ r.pooled /\ r.max = TimerF /\ r.ud
        /\ r.running = 1 /\ r.elapsed = 0 /\ r.expired = 0
        /\ r.msg = "REQUEST" /\ r.proto = p /\ r.timer = t.timer /\ r.cur = t.cur
    <3>1. "REQUEST" \in ReqMsgs /\ p \in Protocols \cup {"INVALID"}
      BY ReqNames
    <3> QED
      BY <1>4, <3>1, UpdateTranspInfoLemma DEF ReqTxn
  <2> HIDE DEF r
  <2>2. ReqCoreInv(r, "waiting")
    BY <1>4, <2>1, ReqNames
       DEF ReqCoreInv, ReqTimerInv, ReqPoolInv, ReqSeriesInv, ReqView, Active,
           RuStates, RuPending, Protocols
  <2> QED
    BY <1>6, <2>2 DEF r, ReqInv, SendRequest, ReqMsgs
<1>7. CASE req' = req /\ ru' = "aborted"
  BY <1>5, <1>7 DEF ReqInv, SendRequest, ReqMsgs
<1>8. CASE req' = AbortTxn(t) /\ ru' = "aborted"
  <2> DEFINE r == AbortTxn(t)
  <2>1. /\ r \in ReqTxn /\ r.state = "TERMINATED" /\ ~r.pooled
        /\ r.timer = NoTimer /\ r.msg = NoMsg
        /\ r.running = IF t.timer = NoTimer THEN t.running ELSE t.running - 1
    BY <1>4, AbortTxnLemma, ReqNames DEF ReqTxn
  <2>2. t.timer # NoTimer
    BY <1>4, ReqNames
  <2> HIDE DEF r
  <2>3. r.running = 0
    BY <1>4, <2>1, <2>2
  <2>4. ReqCoreInv(r, "aborted")
    BY <2>1, <2>3, ReqReleasedInv DEF RuStates, RuPending
  <2> QED
    BY <1>8, <2>4 DEF r, ReqInv, SendRequest, ReqMsgs
<1>9. CASE req' = [t EXCEPT !.ud = FALSE] /\ ru' = "aborted"
  <2> DEFINE r == [t EXCEPT !.ud = FALSE]
  <2>1. r \in ReqTxn
    BY <1>4, TxnUpdate DEF ReqTxn
  <2>2. /\ r.state = "TRYING" /\ r.pooled /\ r.max = TimerF /\ ~r.ud
        /\ r.running = 1 /\ r.elapsed = 0 /\ r.expired = 0
        /\ r.timer = t.timer /\ r.cur = t.cur /\ r.msg = NoMsg
    BY <1>4, SMT DEF ReqTxn, Txn
  <2> HIDE DEF r
  <2>3. ReqCoreInv(r, "aborted")
    BY <1>4, <2>1, <2>2, ReqNames
       DEF ReqCoreInv, ReqTimerInv, ReqPoolInv, ReqSeriesInv, Active,
           RuStates, RuPending, Protocols
  <2> QED
    BY <1>9, <2>3 DEF r, ReqInv, SendRequest, ReqMsgs
<1> QED
  BY <1>6, <1>7, <1>8, <1>9 DEF SendRequest, t

(* A response reaches an object that has user data.                        *)
LEMMA ReqMatched ==
    ASSUME ReqInv, ResponseMatches
    PROVE  /\ ReqCoreInv(req, ru) /\ req \in ReqTxn
           /\ req.pooled /\ req.ud /\ req.msg = "REQUEST"
           /\ req.state \in Active \cup {"COMPLETED"} /\ ru = ReqView(req.state)
<1>1. ReqCoreInv(req, ru) /\ req \in ReqTxn /\ req.pooled /\ req.msg # NoMsg
  BY DEF ReqInv, ReqCoreInv, ResponseMatches
<1>2. req.ud
  BY <1>1, ReqBooleans DEF ReqCoreInv, ReqPoolInv
<1> QED
  BY <1>1, <1>2 DEF ReqCoreInv, ReqPoolInv

(* A provisional response: the timer runs on.                              *)
LEMMA Receive1xxInv ==
    ASSUME ReqInv, ResponseMatches, Receive1xxResponse
    PROVE  ReqCoreInv(req', ru')
<1> DEFINE r == [req EXCEPT !.state = "PROCEEDING"]
<1>1. /\ ReqCoreInv(req, ru) /\ req \in ReqTxn
      /\ req.pooled /\ req.ud /\ req.msg = "REQUEST"
      /\ req.state \in Active /\ req' = r /\ ru' = "proceeding"
  BY ReqMatched DEF Receive1xxResponse, Active
<1>2. /\ r \in ReqTxn /\ r.state = "PROCEEDING" /\ r.pooled /\ r.ud /\ r.msg = "REQUEST"
      /\ r.timer = req.timer /\ r.running = req.running /\ r.cur = req.cur
      /\ r.max = req.max /\ r.expired = req.expired /\ r.proto = req.proto
      /\ r.elapsed = req.elapsed
  BY <1>1, ReqSetState, ReqNames
<1> HIDE DEF r
<1>3. ReqCoreInv(r, "proceeding")
  <2>1. ReqTimerInv(r)
    BY <1>1, <1>2 DEF ReqCoreInv, ReqTimerInv, Active
  <2>2. ReqPoolInv(r, "proceeding")
    BY <1>2 DEF ReqPoolInv, Active, ReqView
  <2>3. ReqSeriesInv(r)
    BY <1>1, <1>2 DEF ReqCoreInv, ReqSeriesInv, Active
  <2> QED
    BY <1>2, <2>1, <2>2, <2>3 DEF ReqCoreInv, RuStates, RuPending
<1> QED
  BY <1>1, <1>3

(* A final response: COMPLETED over UDP, the end elsewhere.                *)
LEMMA HandleFinalInv ==
    ASSUME ReqInv, ResponseMatches, HandleFinalResponse
    PROVE  ReqCoreInv(req', ru')
<1> DEFINE t == StopTxnTimer(req)
<1>1. /\ ReqCoreInv(t, ru) /\ t.timer = NoTimer /\ t.running = 0
      /\ t.pooled /\ t.ud /\ t.msg = "REQUEST" /\ t \in ReqTxn
  <2>1. ReqCoreInv(req, ru) /\ req.pooled /\ req.ud /\ req.msg = "REQUEST"
    BY ReqMatched
  <2> QED
    BY <2>1, ReqStoppedInv DEF ReqCoreInv
<1>2. \/ req' = [StartTxnTimer(t, "K", TimerK) EXCEPT !.state = "COMPLETED"]
         /\ ru' = "answered"
      \/ req' = t /\ ru' = ru
      \/ req' = ReleaseTransaction(t) /\ ru' = "answered"
  BY DEF HandleFinalResponse
<1> HIDE DEF t
<1>3. CASE /\ req' = [StartTxnTimer(t, "K", TimerK) EXCEPT !.state = "COMPLETED"]
           /\ ru' = "answered"
  <2> DEFINE v == StartTxnTimer(t, "K", TimerK)
             r == [v EXCEPT !.state = "COMPLETED"]
  <2>1. /\ v \in ReqTxn /\ v.timer = "K" /\ v.running = 1
        /\ v.pooled /\ v.ud /\ v.msg = "REQUEST"
    <3>1. t \in Txn(ReqStates, ReqTimers, ReqMsgs) /\ "K" \in ReqTimers /\ TimerK \in Nat
      BY <1>1, ReqNames, TimerFKType DEF ReqTxn
    <3>2. /\ v \in Txn(ReqStates, ReqTimers, ReqMsgs)
          /\ v.timer = "K" /\ v.running = t.running + 1
          /\ v.pooled = t.pooled /\ v.ud = t.ud /\ v.msg = t.msg
      BY <3>1, StartTxnTimerLemma
    <3> HIDE DEF v
    <3> QED
      BY <1>1, <3>2 DEF ReqTxn
  <2> HIDE DEF v
  <2>2. /\ r \in ReqTxn /\ r.timer = "K" /\ r.running = 1 /\ r.state = "COMPLETED"
        /\ r.pooled /\ r.ud /\ r.msg = "REQUEST"
    BY <2>1, ReqSetState, ReqNames
  <2> HIDE DEF r
  <2>3. ReqCoreInv(r, "answered")
    BY <2>2 DEF ReqCoreInv, ReqTimerInv, ReqPoolInv, ReqSeriesInv, ReqView, Active,
                RuStates, RuPending, NoTimer
  <2> QED
    BY <1>3, <2>3 DEF r, v
<1>4. CASE req' = t /\ ru' = ru
  BY <1>1, <1>4
<1>5. CASE req' = ReleaseTransaction(t) /\ ru' = "answered"
  <2>1. /\ req' \in ReqTxn /\ req'.state = "TERMINATED" /\ ~req'.pooled
        /\ req'.timer = NoTimer /\ req'.msg = NoMsg /\ req'.running = 0
    BY <1>1, <1>5, ReleaseTransactionLemma, ReqNames DEF ReqTxn
  <2> QED
    BY <1>5, <2>1, ReqReleasedInv DEF RuStates, RuPending
<1> QED
  BY <1>2, <1>3, <1>4, <1>5

(* A response, whatever its code.                                          *)
LEMMA RecvResponseInv ==
    ASSUME ReqInv, NEW code \in Codes, RecvResponse(code)
    PROVE  ReqInv'
<1>1. ReqCoreInv(req', ru')
  BY Receive1xxInv, HandleFinalInv
     DEF RecvResponse, CompletedState_ReceiveResponse, ReqInv
<1> QED
  BY <1>1 DEF ReqInv, RecvResponse

(* A fired timer, with its interval accounted for.                         *)
LEMMA FiredLemma ==
    ASSUME NEW t, NEW u, ReqCoreInv(t, u), t.timer # NoTimer
    PROVE  LET e == CountFirstInterval(TimerFired(t)) IN
           /\ e \in ReqTxn /\ e.timer = NoTimer /\ e.running = 0
           /\ e.state = t.state /\ e.pooled = t.pooled /\ e.ud = t.ud
           /\ e.msg = t.msg /\ e.proto = t.proto /\ e.max = t.max /\ e.cur = t.cur
           /\ e.elapsed = t.elapsed + t.cur
           /\ e.expired = IF t.expired = 0 THEN T1 ELSE t.expired
<1> DEFINE f == TimerFired(t)
           e == CountFirstInterval(f)
<1>1. t \in ReqTxn /\ t.running = 1
  BY DEF ReqCoreInv, ReqTimerInv
<1>2. /\ f \in ReqTxn /\ f.timer = NoTimer /\ f.running = 0
      /\ f.elapsed = t.elapsed + t.cur
      /\ f.state = t.state /\ f.pooled = t.pooled /\ f.ud = t.ud
      /\ f.msg = t.msg /\ f.proto = t.proto /\ f.max = t.max /\ f.cur = t.cur
      /\ f.expired = t.expired
  BY <1>1, TimerFiredLemma DEF ReqTxn
<1> HIDE DEF f
<1>3. /\ e \in ReqTxn /\ e.expired = IF f.expired = 0 THEN T1 ELSE f.expired
      /\ e.timer = f.timer /\ e.running = f.running /\ e.elapsed = f.elapsed
      /\ e.state = f.state /\ e.pooled = f.pooled /\ e.ud = f.ud
      /\ e.msg = f.msg /\ e.proto = f.proto /\ e.max = f.max /\ e.cur = f.cur
  BY <1>2, CountFirstIntervalLemma DEF ReqTxn
<1> HIDE DEF e
<1> QED
  BY <1>2, <1>3 DEF e, f

(* The interval a handler asks for is positive and not longer than T2.     *)
LEMMA NextInterval ==
    ASSUME NEW t \in ReqTxn
    PROVE  LET d == IF t.state = "TRYING" THEN Minimum(t.cur * 2, T2) ELSE T2
           IN  t.cur # 0 => d \in Nat \ {0} /\ d <= T2
<1>1. t.cur \in Nat
  BY SMT DEF ReqTxn, Txn
<1> QED
  BY <1>1, TimerType, SMT DEF Minimum

(* TRYING and PROCEEDING after Timer E or F: the series goes on within     *)
(* Timer F, or it ends when exactly Timer F has passed.                    *)
LEMMA HandleTimeoutInv ==
    ASSUME NEW t, NEW u, ReqCoreInv(t, u), t.state \in Active, t.timer # NoTimer, t.pooled
    PROVE  LET f == HandleTimeout(TimerFired(t)) IN
           \/ /\ f.state = "TERMINATED" /\ f \in ReqTxn /\ f.running = 0
              /\ t.ud => f.elapsed = TimerF
           \/ f.state = t.state /\ ReqCoreInv(f, u)
<1> DEFINE e == CountFirstInterval(TimerFired(t))
           a == IF e.state = "TRYING" THEN Minimum(e.cur * 2, T2) ELSE T2
           d == Clipped(e, a)
           f == HandleTimeout(TimerFired(t))
<1>1. f = IF GetMsgSentProto(e) = "UDP" /\ e.expired < e.max
            THEN Restart(e, "E", d) ELSE [e EXCEPT !.state = "TERMINATED"]
  BY DEF HandleTimeout
<1>2. /\ e \in ReqTxn /\ e.timer = NoTimer /\ e.running = 0
      /\ e.state = t.state /\ e.pooled = t.pooled /\ e.ud = t.ud
      /\ e.msg = t.msg /\ e.proto = t.proto /\ e.max = t.max /\ e.cur = t.cur
      /\ e.elapsed = t.elapsed + t.cur
      /\ e.expired = IF t.expired = 0 THEN T1 ELSE t.expired
  BY FiredLemma
<1>3. a = IF e.state = "TRYING" THEN Minimum(e.cur * 2, T2) ELSE T2
  OBVIOUS
<1>4. /\ t \in ReqTxn /\ t.max = TimerF /\ t.timer \in {"E", "F"}
      /\ t.ud => (t.timer = "E" <=> t.proto = "UDP") /\ t.msg = "REQUEST"
      /\ ~t.ud => t.msg = NoMsg
      /\ t.timer = "F" => t.cur = TimerF /\ t.elapsed = 0
      /\ t.timer = "E" =>
            \/ t.expired = 0 /\ t.cur = T1 /\ t.elapsed = 0
            \/ /\ t.expired # 0 /\ t.expired = t.elapsed + t.cur
               /\ t.expired <= TimerF /\ t.cur # 0 /\ t.cur <= T2
  BY DEF ReqCoreInv, ReqTimerInv, ReqPoolInv, ReqSeriesInv, Active
<1>5. e.expired \in Nat /\ e.elapsed \in Nat /\ e.cur \in Nat /\ t.cur \in Nat
  <2> HIDE DEF e
  <2>1. e.expired \in Nat /\ e.elapsed \in Nat /\ e.cur \in Nat
    BY <1>2, SMT DEF ReqTxn, Txn
  <2> QED BY <1>2, <2>1
<1> HIDE DEF e
<1>6. t.timer = "E" => e.expired = e.elapsed /\ e.expired <= TimerF
  BY <1>2, <1>4, TimerFKType, TimerType
<1>7. GetMsgSentProto(e) = "UDP" => t.timer = "E"
  BY <1>2, <1>4, ReqBooleans DEF GetMsgSentProto
<1>8. t.ud /\ t.timer = "E" => GetMsgSentProto(e) = "UDP"
  BY <1>2, <1>4, ReqNames DEF GetMsgSentProto
<1>9. CASE GetMsgSentProto(e) = "UDP" /\ e.expired < e.max
  <2>1. t.timer = "E" /\ t.cur # 0 /\ t.ud
    BY <1>2, <1>4, <1>7, <1>9, TimerType, ReqBooleans DEF GetMsgSentProto
  <2>2. a \in Nat \ {0} /\ a <= T2
    BY <1>2, <1>3, <2>1, NextInterval
  <2> HIDE DEF a
  <2>3. e.expired < TimerF /\ e.max = TimerF
    BY <1>2, <1>4, <1>9
  <2>4. /\ d \in Nat \ {0} /\ e.expired + d <= TimerF /\ d <= T2
    <3>1. /\ d \in Nat \ {0} /\ e.expired + d <= e.max
          /\ d # a => e.expired + d = e.max
      BY <1>2, <2>2, <2>3, ClippedBound DEF ReqTxn
    <3>2. d <= a
      BY <1>5, <2>2, <2>3, TimerFKType DEF Clipped
    <3> HIDE DEF d
    <3> QED BY <2>2, <2>3, <3>1, <3>2, TimerType
  <2>5. f = Restart(e, "E", d)
    BY <1>1, <1>9
  <2> HIDE DEF f, d
  <2> DEFINE r == Restart(e, "E", d)
  <2> HIDE DEF r
  <2>6. /\ r \in Txn(ReqStates, ReqTimers, ReqMsgs)
        /\ r.timer = "E" /\ r.cur = d /\ r.running = e.running + 1
        /\ r.count = e.count + 1 /\ r.expired = e.expired + d
        /\ r.state = e.state /\ r.pooled = e.pooled /\ r.max = e.max
        /\ r.msg = e.msg /\ r.proto = e.proto /\ r.ud = e.ud
        /\ r.elapsed = e.elapsed
    <3>1. e \in Txn(ReqStates, ReqTimers, ReqMsgs) /\ "E" \in ReqTimers /\ d \in Nat
      BY <1>2, <2>4, ReqNames DEF ReqTxn
    <3> QED BY <3>1, RestartLemma DEF r
  <2>7. /\ f \in ReqTxn /\ f.timer = "E" /\ f.cur = d /\ f.running = 1
        /\ f.expired = e.expired + d /\ f.elapsed = e.elapsed
        /\ f.state = t.state /\ f.max = e.max
        /\ f.msg = t.msg /\ f.proto = t.proto
    BY <1>2, <2>5, <2>6 DEF r, ReqTxn
  <2>9. f.pooled = t.pooled /\ f.ud = t.ud
    BY <1>2, <2>5, <2>6 DEF r
  <2>10. ReqTimerInv(f)
    BY <2>7, ReqNames DEF ReqTimerInv
  <2>11. ReqPoolInv(f, u)
    BY <2>7, <2>9 DEF ReqCoreInv, ReqPoolInv
  <2>12. ReqSeriesInv(f)
    <3>1. /\ f.expired # 0 /\ f.expired = f.elapsed + f.cur
          /\ f.expired <= TimerF /\ f.cur # 0 /\ f.cur <= T2 /\ f.max = TimerF
      BY <1>5, <1>6, <2>1, <2>3, <2>4, <2>7
    <3>2. f.ud => (f.timer = "E" <=> f.proto = "UDP")
      BY <1>4, <2>1, <2>7
    <3> QED
      BY <2>7, <3>1, <3>2 DEF ReqSeriesInv
  <2>13. u # "timedOut" /\ u \in RuStates
    BY <2>1 DEF ReqCoreInv, ReqPoolInv, ReqView, Active
  <2> QED
    BY <2>7, <2>10, <2>11, <2>12, <2>13 DEF ReqCoreInv, f
<1>10. CASE ~(GetMsgSentProto(e) = "UDP" /\ e.expired < e.max)
  <2>1. f = [e EXCEPT !.state = "TERMINATED"]
    BY <1>1, <1>10
  <2> HIDE DEF f
  <2>2. /\ f \in ReqTxn /\ f.state = "TERMINATED" /\ f.running = 0
        /\ f.elapsed = e.elapsed
    BY <1>2, <2>1, ReqSetState, ReqNames
  <2>3. t.ud => e.elapsed = TimerF
    <3>1. CASE t.timer = "E"
      BY <1>2, <1>4, <1>5, <1>6, <1>8, <1>10, <3>1, TimerFKType
    <3>2. CASE t.timer = "F"
      BY <1>2, <1>4, <3>2, TimerFKType
    <3> QED BY <1>4, <3>1, <3>2
  <2> QED
    BY <2>2, <2>3 DEF f
<1> QED
  BY <1>9, <1>10

(* A fired timer ends the transaction or goes on with a series in TRYING   *)
(* or PROCEEDING.                                                          *)
LEMMA ReqOnTimerInv ==
    ASSUME ReqInv, ReqCbkTxnTimeout
    PROVE  LET f == ReqOnTimer(TimerFired(req), req.timer) IN
           \/ /\ f.state = "TERMINATED" /\ f \in ReqTxn /\ f.running = 0
              /\ req.timer \in {"E", "F"} /\ req.ud => f.elapsed = TimerF
           \/ req.state \in Active /\ f.state = req.state /\ ReqCoreInv(f, ru)
<1> DEFINE type == req.timer
           g == TimerFired(req)
           f == ReqOnTimer(g, type)
<1>1. ReqCoreInv(req, ru) /\ req.pooled /\ req.timer # NoTimer /\ req \in ReqTxn
  BY DEF ReqInv, ReqCoreInv, ReqCbkTxnTimeout
<1>2. /\ req.running = 1
      /\ \/ req.state \in Active /\ type \in {"E", "F"}
         \/ req.state = "COMPLETED" /\ type = "K"
  BY <1>1 DEF ReqCoreInv, ReqTimerInv
<1>3. /\ g \in ReqTxn /\ g.timer = NoTimer /\ g.running = 0 /\ g.state = req.state
  BY <1>1, <1>2, TimerFiredLemma DEF ReqTxn
<1>4. \/ /\ f.state = "TERMINATED" /\ f \in ReqTxn /\ f.running = 0
         /\ type \in {"E", "F"} /\ req.ud => f.elapsed = TimerF
      \/ req.state \in Active /\ f.state = req.state /\ ReqCoreInv(f, ru)
  <2>1. CASE req.state \in Active /\ type \in {"E", "F"}
    <3>1. f = HandleTimeout(g)
      <4> HIDE DEF g
      <4> QED BY <1>3, <2>1 DEF ReqOnTimer, Active
    <3> QED
      BY <1>1, <2>1, <3>1, HandleTimeoutInv
  <2>2. CASE req.state = "COMPLETED" /\ type = "K"
    <3>1. f = [g EXCEPT !.state = "TERMINATED"]
      <4> HIDE DEF g
      <4> QED BY <1>3, <2>2 DEF ReqOnTimer, Active
    <3> HIDE DEF f, g
    <3>2. f \in ReqTxn /\ f.state = "TERMINATED" /\ f.running = 0
      BY <1>3, <3>1, ReqSetState, ReqNames
    <3> QED
      BY <2>2, <3>2
  <2> QED
    BY <1>2, <2>1, <2>2
<1> QED
  BY <1>4

(* CbkTxnTimeout: the transaction ends, retransmits, or is left without a  *)
(* timer.                                                                  *)
LEMMA ReqCbkTxnTimeoutInv ==
    ASSUME ReqInv, ReqCbkTxnTimeout
    PROVE  ReqInv'
<1> DEFINE type == req.timer
           g == TimerFired(req)
           f == ReqOnTimer(g, type)
<1>1. ReqCoreInv(req, ru) /\ req.pooled /\ req.timer # NoTimer /\ req \in ReqTxn
  BY DEF ReqInv, ReqCoreInv, ReqCbkTxnTimeout
<1>2. \/ req.state \in Active /\ type \in {"E", "F"}
      \/ req.state = "COMPLETED" /\ type = "K"
  BY <1>1 DEF ReqCoreInv, ReqTimerInv
<1>4. \/ /\ f.state = "TERMINATED" /\ f \in ReqTxn /\ f.running = 0
         /\ type \in {"E", "F"} /\ req.ud => f.elapsed = TimerF
      \/ req.state \in Active /\ f.state = req.state /\ ReqCoreInv(f, ru)
  BY ReqOnTimerInv
<1>5. \/ /\ f.state = "TERMINATED" /\ req' = ReleaseTransaction(f) /\ rsent' = NoMsg
         /\ ru' = IF type \in {"E", "F"} /\ req.ud THEN "timedOut" ELSE ru
      \/ /\ f.state # "TERMINATED" /\ req' = f
         /\ rsent' \in SendToNetwork(f.ud, f.msg) /\ ru' = ru
      \/ req' = CountFirstInterval(g) /\ rsent' = NoMsg /\ ru' = ru
  BY DEF ReqCbkTxnTimeout
<1> HIDE DEF f
<1>6. CASE /\ f.state = "TERMINATED" /\ req' = ReleaseTransaction(f) /\ rsent' = NoMsg
           /\ ru' = IF type \in {"E", "F"} /\ req.ud THEN "timedOut" ELSE ru
  <2>1. /\ f \in ReqTxn /\ f.running = 0
        /\ type \in {"E", "F"} /\ req.ud => f.elapsed = TimerF
    BY <1>1, <1>2, <1>4, <1>6 DEF Active
  <2>2. /\ req' \in ReqTxn /\ req'.state = "TERMINATED" /\ ~req'.pooled
        /\ req'.timer = NoTimer /\ req'.msg = NoMsg
        /\ req'.running = 0 /\ req'.elapsed = f.elapsed
    BY <1>6, <2>1, ReleaseTransactionLemma, ReqNames DEF ReqTxn
  <2>3. ru' \in RuStates \ RuPending /\ (ru' = "timedOut" => type \in {"E", "F"} /\ req.ud)
    <3>1. CASE type \in {"E", "F"} /\ req.ud
      BY <1>6, <3>1 DEF RuStates, RuPending
    <3>2. CASE ~(type \in {"E", "F"} /\ req.ud)
      <4>1. ru' = ru
        BY <1>6, <3>2
      <4>2. ru \in {"aborted", "answered"}
        BY <1>1, <1>2, <3>2, ReqBooleans DEF ReqCoreInv, ReqPoolInv, ReqView, Active
      <4> QED BY <4>1, <4>2 DEF RuStates, RuPending
    <3> QED BY <3>1, <3>2
  <2>4. ReqCoreInv(req', ru')
    BY <2>1, <2>2, <2>3, ReqReleasedInv
  <2> QED
    BY <1>6, <2>4 DEF ReqInv
<1>7. CASE /\ f.state # "TERMINATED" /\ req' = f
           /\ rsent' \in SendToNetwork(f.ud, f.msg) /\ ru' = ru
  <2>1. ReqCoreInv(f, ru)
    BY <1>4, <1>7
  <2>2. f.msg \in ReqMsgs \cup {NoMsg}
    BY <2>1, SMT DEF ReqCoreInv, ReqTxn, Txn
  <2>3. rsent' \in ReqMsgs \cup {NoMsg}
    BY <1>7, <2>2 DEF SendToNetwork
  <2> QED
    BY <1>7, <2>1, <2>3 DEF ReqInv
<1>8. CASE req' = CountFirstInterval(g) /\ rsent' = NoMsg /\ ru' = ru
  <2> HIDE DEF g
  <2>1. /\ req' \in ReqTxn /\ req'.timer = NoTimer /\ req'.running = 0
        /\ req'.state = req.state /\ req'.pooled = req.pooled /\ req'.ud = req.ud
        /\ req'.msg = req.msg
    BY <1>1, <1>8, FiredLemma DEF g
  <2>2. ru # "timedOut" /\ ru \in RuStates
    BY <1>1, ReqBooleans DEF ReqCoreInv, ReqPoolInv, ReqView, Active
  <2>3. ReqTimerInv(req') /\ ReqSeriesInv(req')
    BY <2>1 DEF ReqTimerInv, ReqSeriesInv
  <2>4. ReqPoolInv(req', ru)
    BY <1>1, <2>1 DEF ReqCoreInv, ReqPoolInv
  <2> QED
    BY <1>8, <2>1, <2>2, <2>3, <2>4 DEF ReqInv, ReqCoreInv
<1> QED
  BY <1>5, <1>6, <1>7, <1>8

(* TerminateTxn and OnRecvTanspError: the user is told nothing new unless  *)
(* it was still waiting.                                                   *)
LEMMA ReqTerminateInv ==
    ASSUME ReqInv, ReqTerminate
    PROVE  ReqInv'
<1>1. ReqCoreInv(req, ru) /\ ru \in RuStates
  BY DEF ReqInv, ReqCoreInv
<1>2. /\ req' = AbortTxn(req) /\ rsent' = NoMsg
      /\ ru' = IF ru \in RuPending THEN "aborted" ELSE ru
  BY DEF ReqTerminate
<1>3. ru' \in RuStates \ RuPending /\ (ru' = "timedOut" => req.elapsed = TimerF)
  BY <1>1, <1>2 DEF ReqCoreInv, RuStates, RuPending
<1>4. ReqCoreInv(req', ru')
  BY <1>1, <1>2, <1>3, ReqAbortedInv
<1> QED
  BY <1>2, <1>4 DEF ReqInv

(* The initial state.                                                      *)
LEMMA ReqInitInv == ReqInit => ReqInv
<1> SUFFICES ASSUME ReqInit PROVE ReqInv
  OBVIOUS
<1>1. NewTxn \in ReqTxn
  BY NewTxnType, ReqNames DEF ReqTxn
<1>2. /\ NewTxn.state = "IDLE" /\ ~NewTxn.pooled /\ NewTxn.timer = NoTimer
      /\ NewTxn.msg = NoMsg /\ NewTxn.running = 0
  BY SMT DEF NewTxn
<1>3. ReqCoreInv(NewTxn, "idle")
  BY <1>1, <1>2 DEF ReqCoreInv, ReqTimerInv, ReqPoolInv, ReqSeriesInv, RuStates,
                    RuPending, Active
<1> QED
  BY <1>3 DEF ReqInit, ReqInv

(* ReqInv is inductive.                                                    *)
LEMMA ReqNextInv == ReqInv /\ [ReqNext]_reqVars => ReqInv'
<1> SUFFICES ASSUME ReqInv, [ReqNext]_reqVars PROVE ReqInv'
  OBVIOUS
<1>1. ASSUME NEW p \in Protocols, SendRequest(p) PROVE ReqInv'
  BY <1>1, SendRequestInv
<1>2. ASSUME NEW code \in Codes, RecvResponse(code) PROVE ReqInv'
  BY <1>2, RecvResponseInv
<1>3. CASE ReqCbkTxnTimeout
  BY <1>3, ReqCbkTxnTimeoutInv
<1>4. CASE ReqTerminate
  BY <1>4, ReqTerminateInv
<1>5. CASE UNCHANGED reqVars
  BY <1>5 DEF reqVars, ReqInv
<1> QED
  BY <1>1, <1>2, <1>3, <1>4, <1>5 DEF ReqNext

-----------------------------------------------------------------------------
(* The theorems.                                                           *)

(* ReqInv holds in every state.                                            *)
THEOREM RequestInvariant == ReqSpec => []ReqInv
  BY ReqInitInv, ReqNextInv, PTL DEF ReqSpec

(* Type correctness: no field leaves its range under any sequence of       *)
(* calls, responses, timers and faults; no timer is stopped twice.         *)
THEOREM RequestTypeCorrect == ReqSpec => []ReqTypeOK
<1>1. ReqInv => ReqTypeOK
  BY DEF ReqInv, ReqCoreInv, ReqTypeOK, ReqTxn
<1> QED
  BY <1>1, RequestInvariant, PTL

(* StartTxnTimer never overwrites the identifier of a running timer, and   *)
(* no timer outlives its transaction.                                      *)
THEOREM RequestTimers == ReqSpec => []ReqNoOrphanTimer
<1>1. ReqInv => ReqNoOrphanTimer
  <2> SUFFICES ASSUME ReqInv PROVE ReqNoOrphanTimer
    OBVIOUS
  <2>1. req.pooled \in BOOLEAN
    BY ReqBooleans DEF ReqInv, ReqCoreInv
  <2> QED
    BY <2>1 DEF ReqInv, ReqCoreInv, ReqTimerInv, ReqPoolInv, ReqNoOrphanTimer
<1> QED
  BY <1>1, RequestInvariant, PTL

(* The timeout of a request is reported after exactly Timer F, whatever    *)
(* the timer values and whenever provisional responses arrive.             *)
THEOREM RequestTimeoutExact == ReqSpec => []ReqTimeoutExact
<1>1. ReqInv => ReqTimeoutExact
  BY DEF ReqInv, ReqCoreInv, ReqTimeoutExact
<1> QED
  BY <1>1, RequestInvariant, PTL

(* No interval between retransmissions exceeds T2, but a first one of T1.  *)
THEOREM RequestIntervalCapped == ReqSpec => []ReqIntervalCapped
<1>1. ReqInv => ReqIntervalCapped
  BY ReqNames DEF ReqInv, ReqCoreInv, ReqTimerInv, ReqSeriesInv, ReqIntervalCapped
<1> QED
  BY <1>1, RequestInvariant, PTL

(* Once the user has its outcome the request is not sent again.            *)
THEOREM RequestQuiet == ReqSpec => QuietAfterOutcome
<1>1. ReqInv /\ [ReqNext]_reqVars => [rsent' = "REQUEST" => ru' \in RuPending]_reqVars
  <2> SUFFICES ASSUME ReqInv, ReqNext, rsent' = "REQUEST" PROVE ru' \in RuPending
    BY DEF reqVars
  <2>1. ASSUME NEW p \in Protocols, SendRequest(p) PROVE ru' \in RuPending
    BY <2>1 DEF SendRequest, RuPending, NoMsg
  <2>2. ASSUME NEW code \in Codes, RecvResponse(code) PROVE FALSE
    BY <2>2 DEF RecvResponse, NoMsg
  <2>3. CASE ReqCbkTxnTimeout
    <3> DEFINE f == ReqOnTimer(TimerFired(req), req.timer)
    <3>1. /\ rsent' \in SendToNetwork(f.ud, f.msg) /\ ru' = ru
          /\ f.state # "TERMINATED"
      BY <2>3 DEF ReqCbkTxnTimeout, NoMsg
    <3>2. req.state \in Active /\ f.state = req.state /\ ReqCoreInv(f, ru)
      BY <2>3, <3>1, ReqOnTimerInv
    <3> HIDE DEF f
    <3>3. f.ud /\ f \in ReqTxn
      BY <3>1, <3>2 DEF SendToNetwork, NoMsg, ReqCoreInv
    <3>4. ru = ReqView(f.state)
      <4>1. f.pooled
        BY <3>2, <3>3, ReqBooleans DEF ReqCoreInv, ReqPoolInv, Active
      <4> QED BY <3>2, <3>3, <4>1 DEF ReqCoreInv, ReqPoolInv
    <3> QED
      BY <3>1, <3>2, <3>4 DEF ReqView, Active, RuPending
  <2>4. CASE ReqTerminate
    BY <2>4 DEF ReqTerminate, NoMsg
  <2> QED
    BY <2>1, <2>2, <2>3, <2>4 DEF ReqNext
<1> QED
  BY <1>1, RequestInvariant, PTL DEF ReqSpec, QuietAfterOutcome

(* The user of the request sees one outcome that never changes: every step *)
(* of the transaction is a step of the contract or none.                   *)
THEOREM RequestImplementsContract == ReqSpec => ReqImplementsContract
<1>1. ReqInit => ReqContract!Init
  BY DEF ReqInit, ReqContract!Init
<1>2. ReqInv /\ [ReqNext]_reqVars => [ReqContract!Next]_ru
  <2> SUFFICES ASSUME ReqInv, [ReqNext]_reqVars PROVE [ReqContract!Next]_ru
    OBVIOUS
  <2> USE DEF ReqContract!Next, ReqContract!Send, ReqContract!Provisional,
              ReqContract!Final, ReqContract!Timeout, ReqContract!Abort,
              ReqContract!Pending, RuPending
  <2>1. ASSUME NEW p \in Protocols, SendRequest(p) PROVE [ReqContract!Next]_ru
    BY <2>1 DEF SendRequest
  <2>2. ASSUME NEW code \in Codes, RecvResponse(code) PROVE [ReqContract!Next]_ru
    <3>1. req.state \in Active => ru \in RuPending
      BY <2>2, ReqMatched DEF RecvResponse, ReqView, Active
    <3>2. ru' = ru \/ (req.state \in Active /\ ru' \in {"proceeding", "answered"})
      BY <2>2 DEF RecvResponse, Receive1xxResponse, HandleFinalResponse,
                  CompletedState_ReceiveResponse, Active
    <3> QED
      BY <3>1, <3>2
  <2>3. CASE ReqCbkTxnTimeout
    <3>1. ReqCoreInv(req, ru) /\ req.pooled /\ req.timer # NoTimer
      BY <2>3 DEF ReqCbkTxnTimeout, ReqInv
    <3>2. ru' = ru \/ (ru' = "timedOut" /\ req.timer \in {"E", "F"} /\ req.ud)
      BY <2>3 DEF ReqCbkTxnTimeout
    <3>3. req.timer \in {"E", "F"} /\ req.ud => ru \in RuPending
      BY <3>1 DEF ReqCoreInv, ReqTimerInv, ReqPoolInv, ReqView, Active
    <3> QED
      BY <3>2, <3>3
  <2>4. CASE ReqTerminate
    BY <2>4 DEF ReqTerminate
  <2>5. CASE UNCHANGED reqVars
    BY <2>5 DEF reqVars
  <2> QED
    BY <2>1, <2>2, <2>3, <2>4, <2>5 DEF ReqNext
<1> QED
  BY <1>1, <1>2, RequestInvariant, PTL DEF ReqSpec, ReqImplementsContract, ReqContract!Spec

-----------------------------------------------------------------------------
(* The server transaction and the network.                                 *)

AnsStates == {"IDLE", "TRYING", "PROCEEDING", "COMPLETED", "TERMINATED"}
AnsMsgs   == {"1xx", "final"}
AnsTxn    == Txn(AnsStates, {"J"}, AnsMsgs)

(* The server has gone past TRYING; it is done with the request.           *)
Later == {"PROCEEDING", "COMPLETED", "TERMINATED"}
Done  == {"COMPLETED", "TERMINATED"}

(* The only timer is Timer J, in COMPLETED.                                *)
AnsTimerInv(t) ==
    /\ t.running = IF t.timer = NoTimer THEN 0 ELSE 1
    /\ t.timer # NoTimer => t.timer = "J" /\ t.state = "COMPLETED"

AnsObjInv(t) == t \in AnsTxn /\ AnsTimerInv(t)

(* What was recorded, or left, is not ahead of the state and the user.     *)
AnsMsgInv(m, t, u) ==
    /\ m = "1xx" => t.state \in Later
    /\ m = "final" => t.state \in Done /\ u = "answered"

AnsInv ==
    /\ AnsObjInv(ans) /\ atp \in Protocols
    /\ au = "none" => ans.state = "IDLE" /\ ans.pooled = FALSE
    /\ AnsMsgInv(ans.msg, ans, au)

NetInv ==
    /\ ReqInv
    /\ AnsInv
    /\ \A m \in net : AnsMsgInv(m, ans, au)
    /\ ru = "proceeding" => ans.state \in Later
    /\ ru = "answered" => ans.state \in Done /\ au = "answered"

-----------------------------------------------------------------------------
(* The records of the server transaction.                                  *)

(* Its states, timer and messages are different names.                     *)
LEMMA AnsNames ==
    /\ "IDLE" \in AnsStates /\ "TERMINATED" \in AnsStates /\ Later \subseteq AnsStates
    /\ Done \subseteq Later /\ "TRYING" \notin Later /\ "IDLE" \notin Later
    /\ "PROCEEDING" \notin Done
    /\ NoTimer # "J" /\ NoMsg \notin AnsMsgs /\ {"1xx", "final"} = AnsMsgs
    /\ TimerJ \in Nat
  BY AnswerTimerAssumption, MaxTimerValueType
     DEF AnsStates, AnsMsgs, Later, Done, NoTimer, NoMsg

(* Changing the state changes nothing else.                                *)
LEMMA AnsSetState ==
    ASSUME NEW t \in AnsTxn, NEW s \in AnsStates
    PROVE  LET r == [t EXCEPT !.state = s] IN
           /\ r \in AnsTxn /\ r.state = s /\ r.msg = t.msg
           /\ r.timer = t.timer /\ r.running = t.running
<1>1. [t EXCEPT !.state = s] \in AnsTxn
  BY TxnUpdate DEF AnsTxn
<1> QED
  BY <1>1, SMT DEF AnsTxn, Txn

(* Out of the pool nothing is left.                                        *)
LEMMA AnsReleased ==
    ASSUME NEW t \in AnsTxn, t.running = 0
    PROVE  LET r == ReleaseTransaction(t) IN
           AnsObjInv(r) /\ r.state = "TERMINATED" /\ r.msg = NoMsg
<1>1. t \in Txn(AnsStates, {"J"}, AnsMsgs) /\ {"IDLE", "TERMINATED"} \subseteq AnsStates
  BY AnsNames DEF AnsTxn
<1> DEFINE r == ReleaseTransaction(t)
<1>2. /\ r \in Txn(AnsStates, {"J"}, AnsMsgs)
      /\ r.state = "TERMINATED" /\ r.timer = NoTimer /\ r.msg = NoMsg
      /\ r.running = t.running
  BY <1>1, ReleaseTransactionLemma
<1> HIDE DEF r
<1> QED
  BY <1>2 DEF AnsObjInv, AnsTimerInv, AnsTxn, r

(* Stopped and out of the pool, nothing is left.                           *)
LEMMA AnsAborted ==
    ASSUME NEW t, AnsObjInv(t)
    PROVE  LET r == AbortTxn(t) IN
           AnsObjInv(r) /\ r.state = "TERMINATED" /\ r.msg = NoMsg
<1>1. /\ t \in Txn(AnsStates, {"J"}, AnsMsgs) /\ {"IDLE", "TERMINATED"} \subseteq AnsStates
      /\ t.timer # NoTimer => t.running >= 1
  BY AnsNames DEF AnsObjInv, AnsTimerInv, AnsTxn
<1> DEFINE r == AbortTxn(t)
<1>2. /\ r \in Txn(AnsStates, {"J"}, AnsMsgs)
      /\ r.state = "TERMINATED" /\ r.timer = NoTimer /\ r.msg = NoMsg
      /\ r.running = IF t.timer = NoTimer THEN t.running ELSE t.running - 1
  BY <1>1, AbortTxnLemma
<1> HIDE DEF r
<1> QED
  BY <1>2 DEF AnsObjInv, AnsTimerInv, AnsTxn, r

(* Recording a message changes nothing else.                               *)
LEMMA AnsRecorded ==
    ASSUME NEW t, AnsObjInv(t), NEW m \in AnsMsgs, NEW p \in Protocols
    PROVE  LET r == UpdateTranspInfo(t, m, p) IN
           AnsObjInv(r) /\ r.state = t.state /\ r.msg = m
<1>1. t \in Txn(AnsStates, {"J"}, AnsMsgs) /\ p \in Protocols \cup {"INVALID"}
  BY DEF AnsObjInv, AnsTxn
<1> DEFINE r == UpdateTranspInfo(t, m, p)
<1>2. /\ r \in Txn(AnsStates, {"J"}, AnsMsgs)
      /\ r.state = t.state /\ r.timer = t.timer /\ r.msg = m
      /\ r.running = t.running
  BY <1>1, UpdateTranspInfoLemma
<1> HIDE DEF r
<1> QED
  BY <1>2 DEF AnsObjInv, AnsTimerInv, AnsTxn, r

(* Timer J starts with COMPLETED.                                          *)
LEMMA AnsCompleted ==
    ASSUME NEW t, AnsObjInv(t), t.timer = NoTimer
    PROVE  LET r == [StartTxnTimer(t, "J", TimerJ) EXCEPT !.state = "COMPLETED"] IN
           AnsObjInv(r) /\ r.state = "COMPLETED" /\ r.msg = t.msg
<1> DEFINE u == StartTxnTimer(t, "J", TimerJ)
           r == [u EXCEPT !.state = "COMPLETED"]
<1>1. /\ t \in Txn(AnsStates, {"J"}, AnsMsgs) /\ "J" \in {"J"} /\ TimerJ \in Nat
      /\ t.running = 0 /\ "COMPLETED" \in AnsStates
  BY AnsNames DEF AnsObjInv, AnsTimerInv, AnsTxn, Later
<1>2. /\ u \in Txn(AnsStates, {"J"}, AnsMsgs)
      /\ u.timer = "J" /\ u.running = t.running + 1 /\ u.msg = t.msg
  BY <1>1, StartTxnTimerLemma
<1> HIDE DEF u
<1>3. /\ r \in AnsTxn /\ r.state = "COMPLETED" /\ r.msg = u.msg
      /\ r.timer = u.timer /\ r.running = u.running
  BY <1>1, <1>2, AnsSetState DEF AnsTxn
<1> HIDE DEF r
<1> QED
  BY <1>1, <1>2, <1>3, AnsNames DEF AnsObjInv, AnsTimerInv, r, u

(* SendMsg: what is left of the object, and what has left.                 *)
LEMMA SendMsgAnsOutcome ==
    ASSUME NEW t, AnsObjInv(t), NEW m \in AnsMsgs, atp \in Protocols,
           SendMsgAns(t, m)
    PROVE  /\ AnsObjInv(ans')
           /\ ans'.state \in {t.state, "TERMINATED"}
           /\ ans'.msg \in {m, t.msg, NoMsg}
           /\ asent' \in {m, NoMsg}
<1>1. CASE AnsEmit(m) /\ t.state = "TERMINATED" /\ ans' = ReleaseTransaction(t)
  <2>1. t \in AnsTxn /\ t.running = 0
    BY <1>1 DEF AnsObjInv, AnsTimerInv
  <2> QED
    BY <1>1, <2>1, AnsReleased DEF AnsEmit
<1>2. CASE AnsEmit(m) /\ ans' = UpdateTranspInfo(t, m, atp)
  BY <1>2, AnsRecorded DEF AnsEmit
<1>3. CASE AnsEmit(NoMsg) /\ ans' = t
  BY <1>3 DEF AnsEmit
<1>4. CASE AnsEmit(NoMsg) /\ ans' = AbortTxn(t)
  BY <1>4, AnsAborted DEF AnsEmit
<1> QED
  BY <1>1, <1>2, <1>3, <1>4 DEF SendMsgAns

-----------------------------------------------------------------------------
(* The server's steps: the invariant, and what leaves is not ahead.        *)

(* The server goes forward only.                                           *)
Forward ==
    /\ ans.state \in Later => ans'.state \in Later
    /\ ans.state \in Done => ans'.state \in Done
    /\ au = "answered" => au' = "answered"

AnsMoves == AnsInv' /\ AnsMsgInv(asent', ans', au') /\ Forward

(* The first copy of the request.                                          *)
LEMMA AnsReceive ==
    ASSUME AnsInv, IdleState_ReceiveNonInviteRequest
    PROVE  AnsMoves
<1> DEFINE n == NewTxn
           u == [n EXCEPT !.state = "TRYING"]
           v == [u EXCEPT !.pooled = TRUE]
           r == [v EXCEPT !.ud = TRUE]
<1>1. /\ au = "none" /\ ans.state = "IDLE" /\ au' = "asked" /\ atp' = atp
      /\ ans' = r /\ asent' = NoMsg
  BY SMT DEF IdleState_ReceiveNonInviteRequest, AnsEmit, AnsInv
<1>2. n \in AnsTxn /\ "TRYING" \in AnsStates
  BY AnsNames, NewTxnType DEF AnsTxn, AnsStates
<1>3. n.timer = NoTimer /\ n.running = 0 /\ n.msg = NoMsg
  BY SMT DEF NewTxn
<1> HIDE DEF n
<1>4. /\ u \in AnsTxn /\ u.state = "TRYING" /\ u.msg = n.msg
      /\ u.timer = n.timer /\ u.running = n.running
  BY <1>2, AnsSetState
<1> HIDE DEF u
<1>5. /\ v \in AnsTxn /\ v.state = u.state /\ v.msg = u.msg
      /\ v.timer = u.timer /\ v.running = u.running
  <2>1. v \in AnsTxn
    BY <1>4, TxnUpdate DEF AnsTxn
  <2> QED
    BY <1>4, <2>1, SMT DEF AnsTxn, Txn
<1> HIDE DEF v
<1>6. /\ r \in AnsTxn /\ r.state = v.state /\ r.msg = v.msg
      /\ r.timer = v.timer /\ r.running = v.running
  <2>1. r \in AnsTxn
    BY <1>5, TxnUpdate DEF AnsTxn
  <2> QED
    BY <1>5, <2>1, SMT DEF AnsTxn, Txn
<1> HIDE DEF r
<1>7. AnsObjInv(r) /\ r.state = "TRYING" /\ r.msg = NoMsg
  BY <1>3, <1>4, <1>5, <1>6 DEF AnsObjInv, AnsTimerInv
<1>8. NoMsg \notin {"1xx", "final"}
  BY AnsNames
<1> QED
  BY <1>1, <1>7, <1>8, AnsNames DEF AnsMoves, AnsInv, AnsMsgInv, Forward

(* A later copy is answered with what is on record, if anything.           *)
LEMMA AnsReceiveAgain ==
    ASSUME AnsInv, RecvRequestAgain
    PROVE  AnsMoves
<1>1. ans' = ans /\ atp' = atp /\ au' = au /\ asent' \in {ans.msg, NoMsg}
  BY DEF RecvRequestAgain, AnsEmit, SendToNetwork
<1>2. NoMsg \notin {"1xx", "final"}
  BY AnsNames
<1> QED
  BY <1>1, <1>2 DEF AnsMoves, AnsInv, AnsMsgInv, Forward

(* A provisional response leads to PROCEEDING, or nothing leaves.          *)
LEMMA AnsSendProvisional ==
    ASSUME AnsInv, Send1xxResponse
    PROVE  AnsMoves
<1> DEFINE t == [ans EXCEPT !.state = "PROCEEDING"]
<1>1. /\ au = "asked" /\ ans.state \in {"TRYING", "PROCEEDING"}
      /\ SendMsgAns(t, "1xx") /\ atp' = atp /\ au' = au
  BY DEF Send1xxResponse
<1>2. /\ ans \in AnsTxn /\ ans.timer = NoTimer /\ ans.running = 0
      /\ ans.msg # "final" /\ atp \in Protocols
  BY <1>1 DEF AnsInv, AnsObjInv, AnsTimerInv, AnsMsgInv
<1>3. "PROCEEDING" \in AnsStates
  BY AnsNames DEF Later
<1>4. /\ t \in AnsTxn /\ t.state = "PROCEEDING" /\ t.msg = ans.msg
      /\ t.timer = ans.timer /\ t.running = ans.running
  BY <1>2, <1>3, AnsSetState
<1> HIDE DEF t
<1>5. AnsObjInv(t) /\ "1xx" \in AnsMsgs
  BY <1>2, <1>4, AnsNames DEF AnsObjInv, AnsTimerInv
<1>6. /\ AnsObjInv(ans') /\ ans'.state \in {"PROCEEDING", "TERMINATED"}
      /\ ans'.msg \in {"1xx", ans.msg, NoMsg}
      /\ asent' \in {"1xx", NoMsg}
  BY <1>1, <1>2, <1>4, <1>5, SendMsgAnsOutcome
<1>7. ans'.msg # "final" /\ asent' # "final"
  BY <1>2, <1>6, AnsNames
<1> QED
  BY <1>1, <1>2, <1>6, <1>7 DEF AnsMoves, AnsInv, AnsMsgInv, Forward, Later, Done

(* A final response leads to COMPLETED or past it.                         *)
LEMMA AnsSendFinal ==
    ASSUME AnsInv, SendFinalResponse
    PROVE  AnsMoves
<1> DEFINE j == [StartTxnTimer(ans, "J", TimerJ) EXCEPT !.state = "COMPLETED"]
           e == [ans EXCEPT !.state = "TERMINATED"]
<1>1. /\ au = "asked" /\ ans.state \in {"TRYING", "PROCEEDING"} /\ atp' = atp
      /\ \/ /\ SendMsgAns(j, "final") \/ SendMsgAns(e, "final")
            /\ au' = "answered"
         \/ AnsEmit(NoMsg) /\ ans' = ans /\ au' = au
  BY DEF SendFinalResponse
<1>2. /\ ans \in AnsTxn /\ AnsObjInv(ans) /\ ans.timer = NoTimer /\ ans.running = 0
      /\ ans.msg # "final" /\ atp \in Protocols
  BY <1>1 DEF AnsInv, AnsObjInv, AnsTimerInv, AnsMsgInv
<1>3. AnsObjInv(j) /\ j.state = "COMPLETED"
  BY <1>2, AnsCompleted
<1>4. AnsObjInv(e) /\ e.state = "TERMINATED"
  <2>1. /\ e \in AnsTxn /\ e.state = "TERMINATED"
        /\ e.timer = ans.timer /\ e.running = ans.running
    BY <1>2, AnsSetState, AnsNames
  <2> QED
    BY <1>2, <2>1 DEF AnsObjInv, AnsTimerInv
<1> HIDE DEF j, e
<1>5. CASE /\ SendMsgAns(j, "final") \/ SendMsgAns(e, "final")
           /\ au' = "answered"
  <2>1. AnsObjInv(ans') /\ ans'.state \in {"COMPLETED", "TERMINATED"}
    BY <1>2, <1>3, <1>4, <1>5, AnsNames, SendMsgAnsOutcome
  <2> QED
    BY <1>1, <1>2, <1>5, <2>1 DEF AnsMoves, AnsInv, AnsMsgInv, Forward, Later, Done
<1>6. CASE AnsEmit(NoMsg) /\ ans' = ans /\ au' = au
  <2>1. asent' = NoMsg /\ NoMsg \notin {"1xx", "final"}
    BY <1>6, AnsNames DEF AnsEmit
  <2> QED
    BY <1>1, <1>6, <2>1 DEF AnsMoves, AnsInv, AnsMsgInv, Forward
<1> QED
  BY <1>1, <1>5, <1>6

(* Timer J and TerminateTxn only end it.                                   *)
LEMMA AnsEnds ==
    ASSUME AnsInv, AnsCbkTxnTimeout \/ AnsTerminate
    PROVE  AnsMoves
<1>1. /\ atp' = atp /\ asent' = NoMsg
      /\ au' = au \/ (au = "asked" /\ au' = "aborted")
      /\ AnsObjInv(ans') /\ ans'.state = "TERMINATED" /\ ans'.msg = NoMsg
      /\ au # "none"
  <2>1. CASE AnsCbkTxnTimeout
    <3> DEFINE u == TimerFired(ans)
    <3>1. /\ ans \in Txn(AnsStates, {"J"}, AnsMsgs) /\ ans.running = 1
          /\ ans.running >= 1
      BY <2>1, AnsNames DEF AnsCbkTxnTimeout, AnsInv, AnsObjInv, AnsTimerInv, AnsTxn
    <3>2. u \in Txn(AnsStates, {"J"}, AnsMsgs) /\ u.running = ans.running - 1
      BY <3>1, TimerFiredLemma
    <3> HIDE DEF u
    <3>3. LET r == ReleaseTransaction(u) IN
          AnsObjInv(r) /\ r.state = "TERMINATED" /\ r.msg = NoMsg
      BY <3>1, <3>2, AnsReleased DEF AnsTxn
    <3>4. /\ ans' = ReleaseTransaction(u) /\ atp' = atp /\ au' = au
          /\ asent' = NoMsg /\ ans.pooled
      BY <2>1 DEF AnsCbkTxnTimeout, AnsEmit, u
    <3>5. au # "none"
      BY <3>4 DEF AnsInv
    <3> QED
      BY <3>3, <3>4, <3>5
  <2>2. CASE AnsTerminate
    <3>1. /\ ans' = AbortTxn(ans) /\ atp' = atp
          /\ au' = IF au = "asked" THEN "aborted" ELSE au
          /\ asent' = NoMsg /\ ans.pooled
      BY <2>2 DEF AnsTerminate, AnsEmit
    <3>2. au # "none"
      BY <3>1 DEF AnsInv
    <3>3. LET r == AbortTxn(ans) IN
          AnsObjInv(r) /\ r.state = "TERMINATED" /\ r.msg = NoMsg
      BY AnsAborted DEF AnsInv
    <3> QED
      BY <3>1, <3>2, <3>3
  <2> QED
    BY <2>1, <2>2
<1>2. NoMsg \notin {"1xx", "final"}
  BY AnsNames
<1> QED
  BY <1>1, <1>2 DEF AnsMoves, AnsInv, AnsMsgInv, Forward, Later, Done

(* Every step of the server keeps its invariant and goes forward.          *)
LEMMA ServerMoves ==
    ASSUME AnsInv, ServerSteps
    PROVE  AnsMoves
  BY AnsReceive, AnsReceiveAgain, AnsSendProvisional, AnsSendFinal, AnsEnds
     DEF ServerSteps

-----------------------------------------------------------------------------
(* The client's steps, and both together.                                  *)

(* The client's steps are steps of its own specification.                  *)
LEMMA ClientStepsAreReq ==
    ASSUME atp \in Protocols, ClientSteps
    PROVE  ReqNext
  BY DEF ClientSteps, ReqNext

(* The user learns only what is in the network.                            *)
LEMMA ClientLearns ==
    ASSUME ClientSteps
    PROVE  /\ ru' = "proceeding" => ru = "proceeding" \/ "1xx" \in net
           /\ ru' = "answered" => ru = "answered" \/ "final" \in net
<1>1. ASSUME SendRequest(atp) PROVE ru' \in {"waiting", "aborted"}
  BY <1>1 DEF SendRequest
<1>2. ASSUME NEW code \in Codes \cap net, RecvResponse(code)
      PROVE  \/ ru' = ru
             \/ ru' = "proceeding" /\ "1xx" \in net
             \/ ru' = "answered" /\ "final" \in net
  BY <1>2 DEF RecvResponse, Receive1xxResponse, HandleFinalResponse,
              CompletedState_ReceiveResponse
<1>3. ASSUME ReqCbkTxnTimeout PROVE ru' \in {ru, "timedOut"}
  BY <1>3 DEF ReqCbkTxnTimeout
<1>4. ASSUME ReqTerminate PROVE ru' \in {ru, "aborted"}
  BY <1>4 DEF ReqTerminate
<1> QED
  BY <1>1, <1>2, <1>3, <1>4 DEF ClientSteps

(* Before the request is sent nothing is in the network.                   *)
LEMMA NetInitInv == NetInit => NetInv
<1> SUFFICES ASSUME NetInit PROVE NetInv
  OBVIOUS
<1>1. ReqInv /\ ru = "idle" /\ net = {}
  BY ReqInitInv DEF NetInit, ReqInit
<1>2. ans = NewTxn /\ NewTxn \in AnsTxn /\ au = "none" /\ atp \in Protocols
  BY AnsNames, NewTxnType DEF NetInit, AnsInit, AnsTxn
<1>3. /\ NewTxn.state = "IDLE" /\ NewTxn.pooled = FALSE /\ NewTxn.timer = NoTimer
      /\ NewTxn.running = 0 /\ NewTxn.msg = NoMsg
  BY SMT DEF NewTxn
<1>4. AnsInv
  BY <1>2, <1>3, AnsNames DEF AnsInv, AnsObjInv, AnsTimerInv, AnsMsgInv
<1> QED
  BY <1>1, <1>4 DEF NetInv

(* A step of the client leaves the server alone; what it sends is no       *)
(* response.                                                               *)
LEMMA NetClientInv ==
    ASSUME NetInv, ClientSteps, Sent(rsent'), UNCHANGED ansVars
    PROVE  NetInv'
<1>1. ReqInv /\ AnsInv /\ atp \in Protocols
  BY DEF NetInv, AnsInv
<1>2. ReqInv'
  BY <1>1, ClientStepsAreReq, ReqNextInv
<1>3. ans' = ans /\ atp' = atp /\ au' = au
  BY DEF ansVars
<1>4. rsent' \notin {"1xx", "final"}
  <2>1. rsent' \in {"REQUEST", NoMsg}
    BY <1>2 DEF ReqInv, ReqMsgs
  <2> QED
    BY <2>1 DEF NoMsg
<1>5. \A m \in net' : AnsMsgInv(m, ans', au')
  BY <1>3, <1>4 DEF NetInv, Sent, AnsMsgInv
<1>6. /\ ru' = "proceeding" => ans'.state \in Later
      /\ ru' = "answered" => ans'.state \in Done /\ au' = "answered"
  BY <1>3, ClientLearns DEF NetInv, AnsMsgInv
<1>7. AnsInv'
  BY <1>1, <1>3 DEF AnsInv
<1> QED
  BY <1>2, <1>5, <1>6, <1>7 DEF NetInv

(* A step of the server goes forward, and what it sends is not ahead.      *)
LEMMA NetServerInv ==
    ASSUME NetInv, ServerSteps, Sent(asent'), UNCHANGED reqVars
    PROVE  NetInv'
<1>1. AnsMoves
  BY ServerMoves DEF NetInv
<1>2. req' = req /\ rsent' = rsent /\ ru' = ru
  BY DEF reqVars
<1>3. ReqInv'
  BY <1>2 DEF NetInv, ReqInv
<1>4. \A m \in net' : AnsMsgInv(m, ans', au')
  BY <1>1 DEF NetInv, Sent, AnsMoves, AnsMsgInv, Forward
<1>5. /\ ru' = "proceeding" => ans'.state \in Later
      /\ ru' = "answered" => ans'.state \in Done /\ au' = "answered"
  BY <1>1, <1>2 DEF NetInv, AnsMoves, Forward
<1> QED
  BY <1>1, <1>3, <1>4, <1>5 DEF NetInv, AnsMoves

(* Every step keeps NetInv.                                                *)
LEMMA NetNextInv == NetInv /\ [NetNext]_netVars => NetInv'
<1> SUFFICES ASSUME NetInv, [NetNext]_netVars PROVE NetInv'
  OBVIOUS
<1>1. CASE ClientSteps /\ Sent(rsent') /\ UNCHANGED ansVars
  BY <1>1, NetClientInv
<1>2. CASE ServerSteps /\ Sent(asent') /\ UNCHANGED reqVars
  BY <1>2, NetServerInv
<1>3. CASE UNCHANGED netVars
  BY <1>3 DEF netVars, reqVars, ansVars, NetInv, ReqInv, AnsInv
<1> QED
  BY <1>1, <1>2, <1>3 DEF NetNext

-----------------------------------------------------------------------------
(* The theorems.                                                           *)

(* NetInv holds in every state.                                            *)
THEOREM NetInvariant == NetSpec => []NetInv
  BY NetInitInv, NetNextInv, PTL DEF NetSpec

(* The server transaction has one timer at most, the one its identifier    *)
(* denotes, and has it in COMPLETED only: no copy of the request, no       *)
(* answer and no fault leaves one behind.                                  *)
THEOREM AnswerTimers == NetSpec => []AnsObjInv(ans)
<1>1. NetInv => AnsObjInv(ans)
  BY DEF NetInv, AnsInv
<1> QED
  BY <1>1, NetInvariant, PTL

(* Behind this network, with this server at the other end, the client      *)
(* behaves as its own specification says.                                  *)
THEOREM NetImplementsRequest == NetSpec => ReqSpec
<1>1. NetInit => ReqInit
  BY DEF NetInit
<1>2. NetInv /\ [NetNext]_netVars => [ReqNext]_reqVars
  <2> SUFFICES ASSUME NetInv, [NetNext]_netVars PROVE [ReqNext]_reqVars
    OBVIOUS
  <2>1. CASE ClientSteps
    <3>1. atp \in Protocols
      BY DEF NetInv, AnsInv
    <3> QED
      BY <2>1, <3>1, ClientStepsAreReq
  <2>2. CASE UNCHANGED reqVars
    BY <2>2
  <2>3. CASE UNCHANGED netVars
    BY <2>3 DEF netVars
  <2> QED
    BY <2>1, <2>2, <2>3 DEF NetNext
<1> QED
  BY <1>1, <1>2, NetInvariant, PTL DEF NetSpec, ReqSpec

(* The timeout of the request is reported after exactly Timer F, whatever  *)
(* the network does with it and with the responses.                        *)
THEOREM NetTimeoutExact == NetSpec => []ReqTimeoutExact
  BY NetImplementsRequest, RequestTimeoutExact, PTL

(* The request is not sent again once its user has an outcome.             *)
THEOREM NetQuiet == NetSpec => QuietAfterOutcome
  BY NetImplementsRequest, RequestQuiet, PTL

(* How far the exchange has come.                                          *)
LEMMA ProgressValues ==
    /\ Progress("PROCEEDING") = 2 /\ Progress("COMPLETED") = 3
    /\ Progress("TERMINATED") = 3
  BY DEF Progress

(* The client is PROCEEDING or COMPLETED only when the server is at least  *)
(* as far, and its user has an answer only when the peer's user has given  *)
(* one, whatever is lost, repeated, delayed or fails.                      *)
THEOREM NetClientBehind == NetSpec => []ClientBehindServer
<1>1. NetInv => ClientBehindServer
  <2> SUFFICES ASSUME NetInv PROVE ClientBehindServer
    OBVIOUS
  <2>1. /\ req \in ReqTxn /\ ReqPoolInv(req, ru)
    BY DEF NetInv, ReqInv, ReqCoreInv
  <2>2. req.state \in {"PROCEEDING", "COMPLETED"} => ru = ReqView(req.state)
    BY <2>1, ReqBooleans DEF ReqPoolInv
  <2>3. req.state = "PROCEEDING" => ans.state \in Later
    BY <2>2 DEF ReqView, NetInv
  <2>4. req.state = "COMPLETED" => ans.state \in Done
    BY <2>2 DEF ReqView, NetInv
  <2>5. ru = "answered" => au = "answered"
    BY DEF NetInv
  <2>6. req.state \in {"PROCEEDING", "COMPLETED"} =>
            Progress(req.state) <= Progress(ans.state)
    BY <2>3, <2>4, ProgressValues DEF Later, Done
  <2> QED
    BY <2>5, <2>6 DEF ClientBehindServer
<1> QED
  BY <1>1, NetInvariant, PTL
=============================================================================
