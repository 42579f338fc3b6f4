----------------------- MODULE SipInviteServerProofs -----------------------
(***************************************************************************)
(* Proofs about the INVITE server transaction, for every timer value,      *)
(* every bound on RSeq and every set of possible faults:                   *)
(*                                                                         *)
(*   ServerTypeCorrect, ServerTimers, ServerRprTimeoutExact,               *)
(*   ServerAckTimeoutExact, ServerPrackReachesUser, ServerSpeaksForUser    *)
(*                                                                         *)
(* and, when timers start and sends succeed, ServerRprPending.  They       *)
(* follow from one inductive invariant, SrvInv, to which the last two add  *)
(* SrvOutInv and RprInv.                                                   *)
(***************************************************************************)
EXTENDS SipInviteServerTxn, SipTxnProofs

SrvTxn == Txn(SrvStates, SrvTimers, SrvMsgs)

(* A timer that runs is the one of its object, which is in the pool, and   *)
(* one its state waits for.                                                *)
SrvTimerInv(t) ==
    /\ t.running = IF t.timer = NoTimer THEN 0 ELSE 1
    /\ t.timer # NoTimer =>
          \/ t.state = "PROCEEDING" /\ t.timer = "G"
          \/ t.state = "COMPLETED"  /\ t.timer \in {"G", "H"}
          \/ t.state = "ACCEPTED"   /\ t.timer = "L"
          \/ t.state = "CONFIRMED"  /\ t.timer = "I"

(* Outside the pool nothing is left.                                       *)
SrvPoolInv(t) ==
    /\ t.pooled = FALSE =>
          t.state \in {"IDLE", "TERMINATED"} /\ t.timer = NoTimer /\ t.msg = NoMsg
    /\ t.rprTerminated = TRUE => t.ud = FALSE

(* A series of Timer G intervals that ends at max: from the second one on, *)
(* expired is the time at which the running interval will end.             *)
Series(t, max) ==
    /\ t.max = max
    /\ \/ t.expired = 0 /\ t.cur = T1 /\ t.elapsed = 0
       \/ /\ t.expired # 0 /\ t.expired = t.elapsed + t.cur
          /\ t.expired <= max /\ t.cur # 0

SrvSeriesInv(t) ==
    /\ t.state = "PROCEEDING" /\ t.timer = "G" => Series(t, 64 * T1)
    /\ t.state = "COMPLETED" /\ t.timer = "G" => Series(t, TimerH)
    /\ t.state = "COMPLETED" /\ t.timer = "H" =>
          /\ t.max = TimerH /\ t.expired = TimerH /\ t.cur = TimerH
          /\ t.elapsed = 0

(* What is on record for retransmission, o being what was ever sent and p  *)
(* the protocol of the transaction.                                        *)
SrvMsgInv(t, o, p) ==
    /\ t.msg # NoMsg => t.proto \in {p, "UDP"}
    /\ t.state = "PROCEEDING" => t.msg # "fail" /\ "fail" \notin o
    /\ t.state = "COMPLETED" /\ "fail" \in o => t.msg = "fail"
    /\ t.state = "COMPLETED" /\ t.timer = "G" => p = "UDP"

(* Everything but the timer and the accounting is the same.                *)
Kept(r, t) ==
    /\ r.state = t.state /\ r.pooled = t.pooled /\ r.ud = t.ud
    /\ r.msg = t.msg /\ r.proto = t.proto
    /\ r.rprTerminated = t.rprTerminated

(* The accounting is the same.                                             *)
KeptAccount(r, t) ==
    /\ r.cur = t.cur /\ r.max = t.max /\ r.expired = t.expired
    /\ r.elapsed = t.elapsed

(* No timer runs.                                                          *)
Untimed(t) == t.timer = NoTimer /\ t.running = 0

SrvObjInv(t, o, p) ==
    /\ t \in SrvTxn
    /\ SrvTimerInv(t)
    /\ SrvPoolInv(t)
    /\ SrvSeriesInv(t)
    /\ SrvMsgInv(t, o, p)

(* The key in the list is that of the last reliable response, acknowledged *)
(* only when its retransmission has ended.                                 *)
SrvKeyInv ==
    /\ pracked \subseteq 1 .. rseq
    /\ srv.state = "PROCEEDING" /\ srv.timer = "G" =>
          rkeys # {} /\ rkeys \cap pracked = {}
    /\ rkeys # {} => rseq \in rkeys \/ rseq = 0 \/ rseq \in pracked

SrvInv ==
    /\ SrvTypeOK
    /\ SrvObjInv(srv, out, tp)
    /\ SrvKeyInv
    /\ stu = "none" => srv.pooled = FALSE /\ "fail" \notin out

-----------------------------------------------------------------------------
(* Lemmas about the constants and the names of this module.                *)

(* The timers are numbers, and Timer H is not shorter than T1.             *)
LEMMA TimerHType ==
    /\ TimerH \in Nat \ {0} /\ T1 <= TimerH /\ TimerI \in Nat /\ TimerL \in Nat
    /\ 64 * T1 \in Nat \ {0} /\ T1 <= 64 * T1
<1>1. /\ TimerH \in Nat \ {0} /\ T1 <= TimerH /\ TimerI \in Nat /\ TimerL \in Nat
  BY ServerTimerAssumption, TimerType, MaxTimerValueType
<1> QED
  BY <1>1, TimerType, SMT

(* The states, timers and messages are different names.                    *)
LEMMA SrvNames ==
    /\ {"IDLE", "PROCEEDING", "ACCEPTED", "COMPLETED", "CONFIRMED", "TERMINATED"}
          = SrvStates
    /\ {"G", "H", "I", "L"} = SrvTimers /\ NoTimer \notin SrvTimers
    /\ {"prov", "rpr", "2xx", "fail"} = SrvMsgs /\ NoMsg \notin SrvMsgs
  BY DEF SrvStates, SrvTimers, SrvMsgs, NoTimer, NoMsg

(* The Boolean fields of a record.                                         *)
LEMMA SrvBooleans ==
    ASSUME NEW t \in SrvTxn
    PROVE  t.ud \in BOOLEAN /\ t.pooled \in BOOLEAN /\ t.rprTerminated \in BOOLEAN
  BY SMT DEF SrvTxn, Txn

(* What the helpers of SipTxn change in a record of this machine.          *)
LEMMA SrvStop ==
    ASSUME NEW t \in SrvTxn, SrvTimerInv(t)
    PROVE  LET r == StopTxnTimer(t) IN
           r \in SrvTxn /\ Untimed(r) /\ Kept(r, t) /\ KeptAccount(r, t)
<1> DEFINE r == StopTxnTimer(t)
<1>1. t \in Txn(SrvStates, SrvTimers, SrvMsgs) /\ (t.timer # NoTimer => t.running >= 1)
  BY DEF SrvTimerInv, SrvTxn
<1>2. /\ r \in Txn(SrvStates, SrvTimers, SrvMsgs) /\ r.timer = NoTimer
      /\ r.running = IF t.timer = NoTimer THEN t.running ELSE t.running - 1
      /\ r.state = t.state /\ r.pooled = t.pooled /\ r.cur = t.cur
      /\ r.max = t.max /\ r.expired = t.expired /\ r.msg = t.msg
      /\ r.proto = t.proto /\ r.ud = t.ud /\ r.elapsed = t.elapsed
  BY <1>1, StopTxnTimerLemma
<1>3. r.rprTerminated = t.rprTerminated
  BY <1>1, SMT DEF StopTxnTimer, Txn
<1> HIDE DEF r
<1>4. r \in SrvTxn /\ Untimed(r)
  BY <1>2 DEF SrvTimerInv, SrvTxn, Untimed
<1>5. Kept(r, t) /\ KeptAccount(r, t)
  BY <1>2, <1>3 DEF Kept, KeptAccount
<1> QED
  BY <1>4, <1>5 DEF r

(* The accounting starts again; the timer is not touched.                  *)
LEMMA SrvReset ==
    ASSUME NEW t \in SrvTxn, Untimed(t)
    PROVE  LET r == InitRetransmissionInfo(t) IN
           /\ r \in SrvTxn /\ Untimed(r) /\ Kept(r, t)
           /\ r.expired = 0 /\ r.elapsed = 0
<1> DEFINE r == InitRetransmissionInfo(t)
<1>1. t \in Txn(SrvStates, SrvTimers, SrvMsgs)
  BY DEF SrvTxn
<1>2. /\ r \in Txn(SrvStates, SrvTimers, SrvMsgs)
      /\ r.expired = 0 /\ r.elapsed = 0
      /\ r.state = t.state /\ r.pooled = t.pooled /\ r.timer = t.timer
      /\ r.running = t.running /\ r.msg = t.msg /\ r.proto = t.proto
      /\ r.ud = t.ud
  BY <1>1, InitRetransmissionInfoLemma
<1>3. r.rprTerminated = t.rprTerminated
  BY <1>1, SMT DEF InitRetransmissionInfo, Txn
<1> HIDE DEF r
<1>4. r \in SrvTxn /\ Untimed(r) /\ Kept(r, t)
  BY <1>2, <1>3 DEF SrvTxn, Untimed, Kept
<1> QED
  BY <1>2, <1>4 DEF r

(* A timer is started, unless the platform refuses one.                    *)
LEMMA SrvStart ==
    ASSUME NEW t \in SrvTxn, Untimed(t), NEW type \in SrvTimers, NEW d \in Nat
    PROVE  LET r == StartTxnTimer(t, type, d) IN
           /\ r \in SrvTxn /\ Kept(r, t)
           /\ r.timer = type /\ r.running = 1 /\ r.cur = d
           /\ r.max = t.max /\ r.expired = t.expired /\ r.elapsed = t.elapsed
<1> DEFINE r == StartTxnTimer(t, type, d)
<1>1. t \in Txn(SrvStates, SrvTimers, SrvMsgs)
  BY DEF SrvTxn
<1>2. /\ r \in Txn(SrvStates, SrvTimers, SrvMsgs)
      /\ r.timer = type /\ r.cur = d /\ r.running = t.running + 1
      /\ r.state = t.state /\ r.pooled = t.pooled /\ r.max = t.max
      /\ r.expired = t.expired /\ r.msg = t.msg
      /\ r.proto = t.proto /\ r.ud = t.ud /\ r.elapsed = t.elapsed
  BY <1>1, StartTxnTimerLemma
<1>3. r.rprTerminated = t.rprTerminated
  BY <1>1, SMT DEF StartTxnTimer, Txn
<1> HIDE DEF r
<1>4. r \in SrvTxn /\ Kept(r, t) /\ r.running = 1
  BY <1>2, <1>3 DEF SrvTxn, Untimed, Kept
<1> QED
  BY <1>2, <1>4 DEF r

(* A timer that has run is gone, and its time has passed.                  *)
LEMMA SrvFired ==
    ASSUME NEW t \in SrvTxn, SrvTimerInv(t), t.timer # NoTimer
    PROVE  LET r == CountFirstInterval(TimerFired(t)) IN
           /\ r \in SrvTxn /\ Untimed(r) /\ Kept(r, t)
           /\ r.cur = t.cur /\ r.max = t.max
           /\ r.expired = IF t.expired = 0 THEN T1 ELSE t.expired
           /\ r.elapsed = t.elapsed + t.cur
<1> DEFINE u == TimerFired(t)
           r == CountFirstInterval(u)
<1>1. t \in Txn(SrvStates, SrvTimers, SrvMsgs) /\ t.running = 1 /\ t.running >= 1
  BY DEF SrvTimerInv, SrvTxn
<1>2. /\ u \in Txn(SrvStates, SrvTimers, SrvMsgs)
      /\ u.timer = NoTimer /\ u.running = t.running - 1
      /\ u.elapsed = t.elapsed + t.cur
      /\ u.state = t.state /\ u.pooled = t.pooled /\ u.cur = t.cur
      /\ u.max = t.max /\ u.expired = t.expired
      /\ u.msg = t.msg /\ u.proto = t.proto /\ u.ud = t.ud
  BY <1>1, TimerFiredLemma
<1>3. u.rprTerminated = t.rprTerminated
  BY <1>1, SMT DEF TimerFired, Txn
<1> HIDE DEF u
<1>4. /\ r \in Txn(SrvStates, SrvTimers, SrvMsgs)
      /\ r.expired = IF u.expired = 0 THEN T1 ELSE u.expired
      /\ r.timer = u.timer /\ r.running = u.running
      /\ r.state = u.state /\ r.pooled = u.pooled /\ r.cur = u.cur
      /\ r.max = u.max /\ r.msg = u.msg
      /\ r.proto = u.proto /\ r.ud = u.ud /\ r.elapsed = u.elapsed
  BY <1>2, CountFirstIntervalLemma
<1>5. r.rprTerminated = u.rprTerminated
  BY <1>2, SMT DEF CountFirstInterval, Txn
<1> HIDE DEF r
<1>6. r \in SrvTxn /\ Untimed(r) /\ Kept(r, t)
  BY <1>1, <1>2, <1>3, <1>4, <1>5 DEF SrvTxn, Untimed, Kept
<1> QED
  BY <1>2, <1>4, <1>6 DEF r, u

(* The callback starts the next interval of the series.                    *)
LEMMA SrvRestart ==
    ASSUME NEW t \in SrvTxn, Untimed(t), NEW d \in Nat
    PROVE  LET r == Restart(t, "G", d) IN
           /\ r \in SrvTxn /\ Kept(r, t)
           /\ r.timer = "G" /\ r.running = 1 /\ r.cur = d
           /\ r.max = t.max /\ r.expired = t.expired + d /\ r.elapsed = t.elapsed
<1> DEFINE r == Restart(t, "G", d)
<1>1. t \in Txn(SrvStates, SrvTimers, SrvMsgs) /\ "G" \in SrvTimers
  BY DEF SrvTxn, SrvTimers
<1>2. /\ r \in Txn(SrvStates, SrvTimers, SrvMsgs)
      /\ r.timer = "G" /\ r.cur = d /\ r.running = t.running + 1
      /\ r.expired = t.expired + d
      /\ r.state = t.state /\ r.pooled = t.pooled /\ r.max = t.max
      /\ r.msg = t.msg /\ r.proto = t.proto /\ r.ud = t.ud
      /\ r.elapsed = t.elapsed
  BY <1>1, RestartLemma
<1>3. r.rprTerminated = t.rprTerminated
  BY <1>1, SMT DEF Restart, StartTxnTimer, Txn
<1> HIDE DEF r
<1>4. r \in SrvTxn /\ Kept(r, t) /\ r.running = 1
  BY <1>2, <1>3 DEF SrvTxn, Untimed, Kept
<1> QED
  BY <1>2, <1>4 DEF r

(* A record is the same but for one field.                                 *)
LEMMA SrvSetState ==
    ASSUME NEW t \in SrvTxn, NEW s \in SrvStates
    PROVE  LET r == [t EXCEPT !.state = s] IN
           /\ r \in SrvTxn /\ r.state = s /\ r.timer = t.timer
           /\ r.running = t.running /\ KeptAccount(r, t)
           /\ r.pooled = t.pooled /\ r.msg = t.msg /\ r.proto = t.proto
           /\ r.ud = t.ud /\ r.rprTerminated = t.rprTerminated
<1>1. [t EXCEPT !.state = s] \in SrvTxn
  BY TxnUpdate DEF SrvTxn
<1> QED
  BY <1>1, SMT DEF SrvTxn, Txn, KeptAccount

(* The maximum of the series is set.                                       *)
LEMMA SrvSetMax ==
    ASSUME NEW t \in SrvTxn, NEW n \in Nat
    PROVE  LET r == [t EXCEPT !.max = n] IN
           /\ r \in SrvTxn /\ r.max = n /\ Kept(r, t)
           /\ r.timer = t.timer /\ r.running = t.running
           /\ r.cur = t.cur /\ r.expired = t.expired /\ r.elapsed = t.elapsed
<1>1. [t EXCEPT !.max = n] \in SrvTxn
  BY TxnUpdate DEF SrvTxn
<1> QED
  BY <1>1, SMT DEF SrvTxn, Txn, Kept

(* The time accounted for is set.                                          *)
LEMMA SrvSetExpired ==
    ASSUME NEW t \in SrvTxn, NEW n \in Nat
    PROVE  LET r == [t EXCEPT !.expired = n] IN
           /\ r \in SrvTxn /\ r.expired = n /\ Kept(r, t)
           /\ r.timer = t.timer /\ r.running = t.running
           /\ r.cur = t.cur /\ r.max = t.max /\ r.elapsed = t.elapsed
<1>1. [t EXCEPT !.expired = n] \in SrvTxn
  BY TxnUpdate DEF SrvTxn
<1> QED
  BY <1>1, SMT DEF SrvTxn, Txn, Kept

(* The reliable provisional response has timed out.                        *)
LEMMA SrvSetRpr ==
    ASSUME NEW t \in SrvTxn
    PROVE  LET r == [t EXCEPT !.rprTerminated = TRUE] IN
           /\ r \in SrvTxn /\ r.rprTerminated = TRUE /\ KeptAccount(r, t)
           /\ r.timer = t.timer /\ r.running = t.running
           /\ r.state = t.state /\ r.pooled = t.pooled /\ r.msg = t.msg
           /\ r.proto = t.proto /\ r.ud = t.ud
<1>1. [t EXCEPT !.rprTerminated = TRUE] \in SrvTxn
  BY TxnUpdate DEF SrvTxn
<1> QED
  BY <1>1, SMT DEF SrvTxn, Txn, KeptAccount

(* The user data are cut.                                                  *)
LEMMA SrvClearUd ==
    ASSUME NEW t \in SrvTxn
    PROVE  LET r == [t EXCEPT !.ud = FALSE] IN
           /\ r \in SrvTxn /\ r.ud = FALSE /\ KeptAccount(r, t)
           /\ r.timer = t.timer /\ r.running = t.running
           /\ r.state = t.state /\ r.pooled = t.pooled /\ r.msg = t.msg
           /\ r.proto = t.proto
<1>1. [t EXCEPT !.ud = FALSE] \in SrvTxn
  BY TxnUpdate DEF SrvTxn
<1> QED
  BY <1>1, SMT DEF SrvTxn, Txn, KeptAccount

(* The ACK has been received.                                              *)
LEMMA SrvSetAck ==
    ASSUME NEW t \in SrvTxn
    PROVE  LET r == [t EXCEPT !.ackReceived = TRUE] IN
           /\ r \in SrvTxn /\ Kept(r, t) /\ KeptAccount(r, t)
           /\ r.timer = t.timer /\ r.running = t.running
<1>1. [t EXCEPT !.ackReceived = TRUE] \in SrvTxn
  BY TxnUpdate DEF SrvTxn
<1> QED
  BY <1>1, SMT DEF SrvTxn, Txn, Kept, KeptAccount

(* The protocol on record is set.                                          *)
LEMMA SrvSetProto ==
    ASSUME NEW t \in SrvTxn, NEW q \in Protocols
    PROVE  LET r == [t EXCEPT !.proto = q] IN
           /\ r \in SrvTxn /\ r.proto = q /\ KeptAccount(r, t)
           /\ r.timer = t.timer /\ r.running = t.running
           /\ r.state = t.state /\ r.pooled = t.pooled /\ r.msg = t.msg
           /\ r.ud = t.ud /\ r.rprTerminated = t.rprTerminated
<1>1. [t EXCEPT !.proto = q] \in SrvTxn
  BY TxnUpdate DEF SrvTxn
<1> QED
  BY <1>1, SMT DEF SrvTxn, Txn, KeptAccount

(* A message is recorded for retransmission.                               *)
LEMMA SrvRecord ==
    ASSUME NEW t \in SrvTxn, NEW m \in SrvMsgs, NEW q \in Protocols
    PROVE  LET r == UpdateTranspInfo(t, m, q) IN
           /\ r \in SrvTxn /\ r.msg = m /\ r.proto = q /\ KeptAccount(r, t)
           /\ r.timer = t.timer /\ r.running = t.running
           /\ r.state = t.state /\ r.pooled = t.pooled
           /\ r.ud = t.ud /\ r.rprTerminated = t.rprTerminated
<1> DEFINE r == UpdateTranspInfo(t, m, q)
<1>1. t \in Txn(SrvStates, SrvTimers, SrvMsgs) /\ q \in Protocols \cup {"INVALID"}
  BY DEF SrvTxn
<1>2. /\ r \in Txn(SrvStates, SrvTimers, SrvMsgs)
      /\ r.msg = m /\ r.proto = q
      /\ r.state = t.state /\ r.pooled = t.pooled /\ r.timer = t.timer
      /\ r.running = t.running /\ r.cur = t.cur /\ r.max = t.max
      /\ r.expired = t.expired /\ r.ud = t.ud /\ r.elapsed = t.elapsed
  BY <1>1, UpdateTranspInfoLemma
<1>3. r.rprTerminated = t.rprTerminated
  BY <1>1, SMT DEF UpdateTranspInfo, Txn
<1> QED
  BY <1>2, <1>3 DEF SrvTxn, KeptAccount

-----------------------------------------------------------------------------
(* The shapes of record the handlers leave behind.                         *)

(* Without a timer the invariant is about the other fields only.           *)
LEMMA SrvUntimedInv ==
    ASSUME NEW t, NEW o, NEW p, SrvObjInv(t, o, p),
           NEW r \in SrvTxn, Untimed(r), Kept(r, t)
    PROVE  SrvObjInv(r, o, p)
<1>1. SrvTimerInv(r) /\ SrvSeriesInv(r)
  BY SrvNames DEF SrvTimerInv, SrvSeriesInv, Untimed
<1>2. SrvPoolInv(r)
  BY DEF SrvObjInv, SrvPoolInv, Untimed, Kept
<1>3. SrvMsgInv(r, o, p)
  BY SrvNames DEF SrvObjInv, SrvMsgInv, Untimed, Kept
<1> QED
  BY <1>1, <1>2, <1>3 DEF SrvObjInv

(* A released transaction satisfies the invariant whatever was sent.       *)
LEMMA SrvReleasedInv ==
    ASSUME NEW t \in SrvTxn, NEW o, NEW p, t.running = 0
    PROVE  LET r == ReleaseTransaction(t) IN
           /\ SrvObjInv(r, o, p) /\ r.pooled = FALSE /\ r.state = "TERMINATED"
           /\ r.elapsed = t.elapsed
<1> DEFINE r == ReleaseTransaction(t)
<1>1. t \in Txn(SrvStates, SrvTimers, SrvMsgs) /\ {"IDLE", "TERMINATED"} \subseteq SrvStates
  BY SrvNames DEF SrvTxn
<1>2. /\ r \in Txn(SrvStates, SrvTimers, SrvMsgs)
      /\ r.state = "TERMINATED" /\ ~r.pooled /\ ~r.ud
      /\ r.timer = NoTimer /\ r.msg = NoMsg
      /\ r.running = t.running /\ r.elapsed = t.elapsed
  BY <1>1, ReleaseTransactionLemma
<1>3. r.rprTerminated = FALSE
  BY SMT DEF ReleaseTransaction, NewTxn
<1> HIDE DEF r
<1>4. r \in SrvTxn /\ r.pooled = FALSE
  BY <1>2, SrvBooleans DEF SrvTxn
<1>5. SrvTimerInv(r) /\ SrvPoolInv(r)
  BY <1>2, <1>3 DEF SrvTimerInv, SrvPoolInv
<1>6. SrvSeriesInv(r) /\ SrvMsgInv(r, o, p)
  BY <1>2 DEF SrvSeriesInv, SrvMsgInv
<1> QED
  BY <1>2, <1>4, <1>5, <1>6 DEF SrvObjInv, r

(* Stopping the timer keeps the invariant, and no timer runs afterwards.   *)
LEMMA SrvStoppedInv ==
    ASSUME NEW t, NEW o, NEW p, SrvObjInv(t, o, p)
    PROVE  LET r == StopTxnTimer(t) IN
           SrvObjInv(r, o, p) /\ r \in SrvTxn /\ Untimed(r) /\ Kept(r, t)
<1>1. t \in SrvTxn /\ SrvTimerInv(t)
  BY DEF SrvObjInv
<1> QED
  BY <1>1, SrvStop, SrvUntimedInv

(* Released after the timer was stopped.                                   *)
LEMMA SrvAbortedInv ==
    ASSUME NEW t, NEW o, NEW p, SrvObjInv(t, o, p), NEW q
    PROVE  LET r == AbortTxn(t) IN
           SrvObjInv(r, q, p) /\ r.pooled = FALSE /\ r.state = "TERMINATED"
<1>1. StopTxnTimer(t) \in SrvTxn /\ StopTxnTimer(t).running = 0
  BY SrvStoppedInv DEF Untimed
<1> QED
  BY <1>1, SrvReleasedInv DEF AbortTxn

(* What the next response starts from: no timer and no accounting.         *)
LEMMA NewSeriesInv ==
    ASSUME SrvInv
    PROVE  /\ NewSeries \in SrvTxn /\ SrvObjInv(NewSeries, out, tp)
           /\ Untimed(NewSeries) /\ Kept(NewSeries, srv)
           /\ NewSeries.expired = 0 /\ NewSeries.elapsed = 0
<1> DEFINE u == StopTxnTimer(srv)
           r == InitRetransmissionInfo(u)
<1>1. SrvObjInv(u, out, tp) /\ u \in SrvTxn /\ Untimed(u) /\ Kept(u, srv)
  BY SrvStoppedInv DEF SrvInv
<1> HIDE DEF u
<1>2. /\ r \in SrvTxn /\ Untimed(r) /\ Kept(r, u)
      /\ r.expired = 0 /\ r.elapsed = 0
  BY <1>1, SrvReset
<1>3. NewSeries = r
  BY DEF NewSeries, u
<1> HIDE DEF r
<1>4. SrvObjInv(r, out, tp)
  BY <1>1, <1>2, SrvUntimedInv
<1>5. Kept(r, srv)
  BY <1>1, <1>2 DEF Kept
<1> QED
  BY <1>2, <1>3, <1>4, <1>5

-----------------------------------------------------------------------------
(* Sending.                                                                *)

(* What a step hands the network and tells the transaction user.           *)
LEMMA EmitTypes ==
    ASSUME out \subseteq SrvMsgs, NEW m \in SrvMsgs \cup {NoMsg}, Emit(m)
    PROVE  /\ reply' \in SrvMsgs \cup {NoMsg} /\ out' \subseteq SrvMsgs
           /\ m = NoMsg => out' = out
           /\ m # NoMsg => out' = out \cup {m}
  BY DEF Emit

(* What the user is told is one of the events of told.                     *)
LEMMA TellTypes ==
    ASSUME told \subseteq News, NEW n \in News \cup {NoNews}, Tell(n)
    PROVE  up' \in News \cup {NoNews} /\ told' \subseteq News
  BY DEF Tell

(* SendMsg: the object has recorded m and m has left, or nothing has left  *)
(* and the object is as before or gone.                                    *)
LEMMA SendMsgInv ==
    ASSUME SrvTypeOK, NEW t, SrvObjInv(t, out, tp), t.pooled = TRUE,
           NEW m \in SrvMsgs,
           t.state = "PROCEEDING" => m # "fail",
           t.state = "COMPLETED" => m = "fail",
           SendMsg(t, m)
    PROVE  /\ SrvObjInv(srv', out', tp)
           /\ reply' \in SrvMsgs \cup {NoMsg} /\ out' \subseteq SrvMsgs
           /\ ok' \in BOOLEAN
           /\ \/ srv'.pooled = TRUE /\ srv'.state = t.state /\ srv'.timer = t.timer
              \/ ok' = FALSE /\ srv'.pooled = FALSE /\ srv'.state = "TERMINATED"
<1>1. out \subseteq SrvMsgs /\ tp \in Protocols /\ m # NoMsg /\ t \in SrvTxn
  BY SrvNames DEF SrvTypeOK, SrvObjInv
<1>2. CASE Emit(m) /\ ok' = (m = m) /\ srv' = UpdateTranspInfo(t, m, tp)
  <2> DEFINE r == UpdateTranspInfo(t, m, tp)
  <2>1. /\ r \in SrvTxn /\ r.msg = m /\ r.proto = tp /\ KeptAccount(r, t)
        /\ r.timer = t.timer /\ r.running = t.running
        /\ r.state = t.state /\ r.pooled = t.pooled
        /\ r.ud = t.ud /\ r.rprTerminated = t.rprTerminated
    BY <1>1, SrvRecord
  <2>2. out' = out \cup {m} /\ out' \subseteq SrvMsgs /\ reply' \in SrvMsgs \cup {NoMsg}
    BY <1>1, <1>2, EmitTypes
  <2> HIDE DEF r
  <2>3. SrvTimerInv(r)
    BY <2>1 DEF SrvObjInv, SrvTimerInv
  <2>4. SrvPoolInv(r)
    BY <2>1 DEF SrvObjInv, SrvPoolInv
  <2>5. SrvSeriesInv(r)
    BY <2>1 DEF SrvObjInv, SrvSeriesInv, Series, KeptAccount
  <2>6. SrvMsgInv(r, out', tp)
    BY <1>1, <2>1, <2>2 DEF SrvObjInv, SrvMsgInv
  <2>7. srv' = r /\ ok' = TRUE
    BY <1>2 DEF r
  <2> QED
    BY <2>1, <2>2, <2>3, <2>4, <2>5, <2>6, <2>7 DEF SrvObjInv
<1>3. CASE Emit(NoMsg) /\ ok' = FALSE /\ srv' = t
  <2>1. out' = out /\ out' \subseteq SrvMsgs /\ reply' \in SrvMsgs \cup {NoMsg}
    BY <1>1, <1>3, EmitTypes
  <2> QED
    BY <1>3, <2>1
<1>4. CASE Emit(NoMsg) /\ ok' = FALSE /\ srv' = AbortTxn(t)
  <2>1. out' = out /\ out' \subseteq SrvMsgs /\ reply' \in SrvMsgs \cup {NoMsg}
    BY <1>1, <1>4, EmitTypes
  <2>2. SrvObjInv(AbortTxn(t), out, tp) /\ AbortTxn(t).pooled = FALSE
        /\ AbortTxn(t).state = "TERMINATED"
    BY SrvAbortedInv
  <2> QED
    BY <1>4, <2>1, <2>2
<1>5. \/ Emit(m) /\ ok' = (m = m) /\ srv' = UpdateTranspInfo(t, m, tp)
      \/ Emit(NoMsg) /\ ok' = FALSE /\ srv' = t
      \/ Emit(NoMsg) /\ ok' = FALSE /\ srv' = AbortTxn(t)
  <2>1. CASE \E s \in SendToNetwork(TRUE, m) :
               /\ Emit(s)
               /\ ok' = (s = m)
               /\ srv' = IF s = m THEN UpdateTranspInfo(t, m, tp) ELSE t
    <3>1. PICK s \in SendToNetwork(TRUE, m) :
               /\ Emit(s)
               /\ ok' = (s = m)
               /\ srv' = IF s = m THEN UpdateTranspInfo(t, m, tp) ELSE t
      BY <2>1
    <3>2. s = m \/ s = NoMsg
      BY DEF SendToNetwork
    <3>3. CASE s = m
      BY <3>1, <3>3
    <3>4. CASE s = NoMsg
      BY <1>1, <3>1, <3>4
    <3> QED
      BY <3>2, <3>3, <3>4
  <2>2. CASE Emit(NoMsg) /\ ok' = FALSE /\ srv' = AbortTxn(t)
    BY <2>2
  <2> QED
    BY <2>1, <2>2 DEF SendMsg
<1> QED
  BY <1>2, <1>3, <1>4, <1>5

(* The response was refused: the series has ended.                         *)
LEMMA SendRefusedInv ==
    ASSUME SrvTypeOK, NEW t, SrvObjInv(t, out, tp), SendRefused(t)
    PROVE  /\ SrvObjInv(srv', out', tp) /\ srv' = t /\ out' = out
           /\ reply' \in SrvMsgs \cup {NoMsg} /\ out' \subseteq SrvMsgs
           /\ ok' = FALSE
<1>1. out \subseteq SrvMsgs /\ Emit(NoMsg)
  BY DEF SrvTypeOK, SendRefused
<1>2. out' = out /\ out' \subseteq SrvMsgs /\ reply' \in SrvMsgs \cup {NoMsg}
  BY <1>1, EmitTypes
<1> QED
  BY <1>2 DEF SendRefused

-----------------------------------------------------------------------------
(* The handlers keep the invariant: the INVITE and provisional responses.  *)

(* In PROCEEDING the object is in the pool.                                *)
LEMMA InPool ==
    ASSUME SrvInv, srv.state \in {"PROCEEDING", "ACCEPTED", "COMPLETED", "CONFIRMED"}
    PROVE  srv.pooled = TRUE
<1>1. srv \in SrvTxn /\ SrvPoolInv(srv)
  BY DEF SrvInv, SrvObjInv
<1> QED
  BY <1>1, SrvBooleans DEF SrvPoolInv

(* The new object starts with nothing to account for.                      *)
LEMMA ReceiveInviteInv ==
    ASSUME SrvInv, IdleState_ReceiveInviteRequest
    PROVE  SrvInv'
<1> DEFINE r == [NewTxn EXCEPT !.state = "PROCEEDING", !.pooled = TRUE, !.ud = TRUE]
<1>1. /\ srv' = r /\ stu' = "invited" /\ tp' = tp /\ rkeys' = rkeys /\ ok' = ok
      /\ rseq' = rseq /\ pracked' = pracked /\ Tell("invite") /\ Emit(NoMsg)
      /\ stu = "none"
  BY DEF IdleState_ReceiveInviteRequest
<1>2. "PROCEEDING" \in SrvStates
  BY SrvNames
<1>3. r \in SrvTxn
  <2> DEFINE u == [NewTxn EXCEPT !.state = "PROCEEDING"]
             v == [u EXCEPT !.pooled = TRUE]
  <2>1. NewTxn \in SrvTxn
    BY SrvNames, NewTxnType DEF SrvTxn
  <2>2. u \in SrvTxn
    BY <1>2, <2>1, SrvSetState
  <2>3. v \in SrvTxn
    <3> HIDE DEF u
    <3> QED BY <2>2, TxnUpdate DEF SrvTxn
  <2>4. [v EXCEPT !.ud = TRUE] \in SrvTxn
    <3> HIDE DEF v
    <3> QED BY <2>3, TxnUpdate DEF SrvTxn
  <2> QED
    BY <2>4
<1>4. /\ r.state = "PROCEEDING" /\ r.pooled = TRUE /\ Untimed(r)
      /\ r.msg = NoMsg /\ r.rprTerminated = FALSE
  BY SMT DEF NewTxn, Untimed
<1> HIDE DEF r
<1>5. SrvTypeOK /\ out \subseteq SrvMsgs /\ "fail" \notin out /\ told \subseteq News
  BY <1>1 DEF SrvInv, SrvTypeOK
<1>6. out' = out /\ out' \subseteq SrvMsgs /\ reply' \in SrvMsgs \cup {NoMsg}
  BY <1>1, <1>5, EmitTypes
<1>7. up' \in News \cup {NoNews} /\ told' \subseteq News
  BY <1>1, <1>5, TellTypes DEF News
<1>8. SrvTypeOK'
  BY <1>1, <1>3, <1>5, <1>6, <1>7 DEF SrvTypeOK, SrvTxn, Decisions
<1>9. SrvTimerInv(r) /\ SrvPoolInv(r) /\ SrvSeriesInv(r)
  BY <1>4, SrvNames DEF SrvTimerInv, SrvPoolInv, SrvSeriesInv, Untimed
<1>10. SrvMsgInv(r, out', tp)
  BY <1>4, <1>5, <1>6, SrvNames DEF SrvMsgInv
<1>11. SrvObjInv(srv', out', tp')
  BY <1>1, <1>3, <1>9, <1>10 DEF SrvObjInv
<1>12. SrvKeyInv'
  BY <1>1, <1>4, SrvNames DEF SrvInv, SrvKeyInv, Untimed
<1> QED
  BY <1>1, <1>8, <1>11, <1>12 DEF SrvInv

(* The recorded message may leave again.                                   *)
LEMMA ResendInv ==
    ASSUME SrvTypeOK, NEW t, SrvObjInv(t, out, tp), NEW b,
           \E m \in SendToNetwork(b, t.msg) : Emit(m)
    PROVE  /\ SrvObjInv(t, out', tp)
           /\ reply' \in SrvMsgs \cup {NoMsg} /\ out' \subseteq SrvMsgs
<1>1. t \in SrvTxn /\ out \subseteq SrvMsgs
  BY DEF SrvObjInv, SrvTypeOK
<1>2. t.msg \in SrvMsgs \cup {NoMsg}
  BY <1>1, SMT DEF SrvTxn, Txn
<1>3. Emit(t.msg) \/ Emit(NoMsg)
  BY DEF SendToNetwork
<1>4. /\ out' \subseteq SrvMsgs /\ reply' \in SrvMsgs \cup {NoMsg}
      /\ out' = out \/ out' = out \cup {t.msg}
  BY <1>1, <1>2, <1>3, EmitTypes
<1>5. SrvMsgInv(t, out', tp)
  BY <1>4 DEF SrvObjInv, SrvMsgInv
<1> QED
  BY <1>4, <1>5 DEF SrvObjInv

(* A copy of it changes nothing.                                           *)
LEMMA InviteAgainInv ==
    ASSUME SrvInv, RecvInviteAgain
    PROVE  SrvInv'
<1>1. /\ srv' = srv /\ tp' = tp /\ rkeys' = rkeys /\ ok' = ok /\ stu' = stu
      /\ rseq' = rseq /\ pracked' = pracked /\ Tell(NoNews) /\ srv.pooled
  BY DEF RecvInviteAgain
<1>2. SrvTypeOK /\ SrvObjInv(srv, out, tp) /\ srv.pooled = TRUE
  BY <1>1, SrvBooleans DEF SrvInv, SrvObjInv
<1>3. \/ \E m \in SendToNetwork(srv.ud, srv.msg) : Emit(m)
      \/ \E m \in SendToNetwork(FALSE, srv.msg) : Emit(m)
  BY DEF RecvInviteAgain, SendToNetwork
<1>4. /\ SrvObjInv(srv, out', tp)
      /\ reply' \in SrvMsgs \cup {NoMsg} /\ out' \subseteq SrvMsgs
  BY <1>2, <1>3, ResendInv
<1>5. up' \in News \cup {NoNews} /\ told' \subseteq News
  BY <1>1, <1>2, TellTypes DEF SrvTypeOK
<1>6. SrvTypeOK'
  BY <1>1, <1>2, <1>4, <1>5 DEF SrvTypeOK
<1>7. SrvKeyInv'
  BY <1>1 DEF SrvInv, SrvKeyInv
<1> QED
  BY <1>1, <1>2, <1>4, <1>6, <1>7 DEF SrvInv

(* A series of Timer G intervals in PROCEEDING starts at T1.               *)
LEMMA RprSeriesInv ==
    ASSUME SrvInv, srv.state = "PROCEEDING"
    PROVE  LET t == [StartTxnTimer(NewSeries, "G", T1) EXCEPT !.max = 64 * T1] IN
           /\ SrvObjInv(t, out, tp) /\ t.pooled = TRUE
           /\ t.state = "PROCEEDING" /\ t.timer = "G"
<1> DEFINE n == NewSeries
           u == StartTxnTimer(n, "G", T1)
           t == [u EXCEPT !.max = 64 * T1]
<1>1. /\ n \in SrvTxn /\ SrvObjInv(n, out, tp) /\ Untimed(n) /\ Kept(n, srv)
      /\ n.expired = 0 /\ n.elapsed = 0
  BY NewSeriesInv
<1>2. "G" \in SrvTimers /\ T1 \in Nat /\ 64 * T1 \in Nat
  BY SrvNames, TimerType, TimerHType
<1> HIDE DEF n
<1>3. /\ u \in SrvTxn /\ Kept(u, n) /\ u.timer = "G" /\ u.running = 1
      /\ u.cur = T1 /\ u.expired = n.expired /\ u.elapsed = n.elapsed
  BY <1>1, <1>2, SrvStart
<1> HIDE DEF u
<1>4. /\ t \in SrvTxn /\ t.max = 64 * T1 /\ Kept(t, u)
      /\ t.timer = u.timer /\ t.running = u.running
      /\ t.cur = u.cur /\ t.expired = u.expired /\ t.elapsed = u.elapsed
  BY <1>2, <1>3, SrvSetMax
<1> HIDE DEF t
<1>5. Kept(t, n) /\ t.state = "PROCEEDING" /\ t.pooled = TRUE
  BY <1>1, <1>3, <1>4, InPool DEF Kept
<1>6. SrvTimerInv(t) /\ SrvSeriesInv(t)
  BY <1>1, <1>3, <1>4, <1>5, SrvNames DEF SrvTimerInv, SrvSeriesInv, Series
<1>7. SrvPoolInv(t)
  BY <1>1, <1>5 DEF SrvObjInv, SrvPoolInv, Kept
<1>8. SrvMsgInv(t, out, tp)
  BY <1>1, <1>5 DEF SrvObjInv, SrvMsgInv, Kept
<1> QED
  BY <1>3, <1>4, <1>5, <1>6, <1>7, <1>8 DEF SrvObjInv, n, u, t

(* SendRpr: the key is that of the response whose series has begun.        *)
LEMMA SendRprInv ==
    ASSUME SrvInv, NEW r \in 1 .. MaxRSeq, SendRpr(r)
    PROVE  SrvInv'
<1> DEFINE t == [StartTxnTimer(NewSeries, "G", T1) EXCEPT !.max = 64 * T1]
<1>1. /\ r = rseq + 1 /\ (rseq = 0 \/ rseq \in pracked)
      /\ stu = "invited" /\ srv.state = "PROCEEDING"
      /\ rkeys' = IF srv'.pooled THEN {r} ELSE {}
      /\ rseq' = IF ok' THEN r ELSE rseq
      /\ tp' = tp /\ stu' = stu /\ pracked' = pracked /\ Tell(NoNews)
      /\ SendMsg(t, "rpr") \/ SendRefused(NewSeries)
  BY SMT DEF SendRpr, ProceedingState_SendNon100ProvisionalResponse
<1>2. SrvTypeOK /\ SrvKeyInv
  BY DEF SrvInv
<1>3. /\ SrvObjInv(t, out, tp) /\ t.pooled = TRUE
      /\ t.state = "PROCEEDING" /\ t.timer = "G"
  BY <1>1, RprSeriesInv
<1>4. /\ SrvObjInv(NewSeries, out, tp) /\ Untimed(NewSeries) /\ Kept(NewSeries, srv)
  BY NewSeriesInv
<1> HIDE DEF t
<1>5. /\ SrvObjInv(srv', out', tp)
      /\ reply' \in SrvMsgs \cup {NoMsg} /\ out' \subseteq SrvMsgs
      /\ ok' \in BOOLEAN
      /\ srv'.state = "PROCEEDING" /\ srv'.timer = "G" => srv'.pooled = TRUE
  <2>1. CASE SendMsg(t, "rpr")
    BY <1>2, <1>3, <2>1, SendMsgInv, SrvNames
  <2>2. CASE SendRefused(NewSeries)
    BY <1>2, <1>4, <2>2, SendRefusedInv, SrvNames DEF Untimed
  <2> QED
    BY <1>1, <2>1, <2>2
<1>6. /\ rseq' \in 0 .. MaxRSeq /\ rkeys' \subseteq 1 .. MaxRSeq
      /\ pracked' \subseteq 1 .. rseq' /\ r \notin pracked
      /\ rseq' = rseq \/ rseq' = r
  BY <1>1, <1>2, <1>5 DEF SrvTypeOK, SrvKeyInv
<1>7. up' \in News \cup {NoNews} /\ told' \subseteq News
  BY <1>1, <1>2, TellTypes DEF SrvTypeOK
<1>8. SrvTypeOK'
  BY <1>1, <1>2, <1>5, <1>6, <1>7 DEF SrvTypeOK, SrvObjInv, SrvTxn
<1>9. SrvKeyInv'
  <2>1. rkeys' = {} \/ rkeys' = {r}
    BY <1>1
  <2>2. srv'.state = "PROCEEDING" /\ srv'.timer = "G" => rkeys' = {r}
    BY <1>1, <1>5
  <2>3. rseq' = r \/ rseq' = 0 \/ rseq' \in pracked'
    BY <1>1, <1>6
  <2> QED
    BY <1>1, <1>6, <2>1, <2>2, <2>3 DEF SrvKeyInv
<1> QED
  BY <1>1, <1>5, <1>8, <1>9 DEF SrvInv

(* A step that leaves no key and no series behind keeps SrvKeyInv.         *)
LEMMA NoKeyInv ==
    ASSUME SrvKeyInv, rkeys' = {}, pracked' = pracked, rseq' = rseq,
           srv'.state = "PROCEEDING" => srv'.timer # "G"
    PROVE  SrvKeyInv'
  BY DEF SrvKeyInv

(* An unreliable provisional response ends the series before it.           *)
LEMMA SendProvisionalInv ==
    ASSUME SrvInv, SendProvisional
    PROVE  SrvInv'
<1>1. /\ stu = "invited" /\ srv.state = "PROCEEDING"
      /\ SendMsg(NewSeries, "prov") /\ rkeys' = {}
      /\ tp' = tp /\ stu' = stu /\ rseq' = rseq /\ pracked' = pracked
      /\ Tell(NoNews)
  BY DEF SendProvisional, ProceedingState_SendNon100ProvisionalResponse
<1>2. SrvTypeOK /\ SrvKeyInv
  BY DEF SrvInv
<1>3. /\ SrvObjInv(NewSeries, out, tp) /\ Untimed(NewSeries) /\ Kept(NewSeries, srv)
      /\ NewSeries.pooled = TRUE /\ NewSeries.state = "PROCEEDING"
  BY <1>1, NewSeriesInv, InPool DEF Kept
<1>4. /\ SrvObjInv(srv', out', tp)
      /\ reply' \in SrvMsgs \cup {NoMsg} /\ out' \subseteq SrvMsgs
      /\ ok' \in BOOLEAN
      /\ srv'.state = "PROCEEDING" => srv'.timer # "G"
  BY <1>1, <1>2, <1>3, SendMsgInv, SrvNames DEF Untimed
<1>5. up' \in News \cup {NoNews} /\ told' \subseteq News
  BY <1>1, <1>2, TellTypes DEF SrvTypeOK
<1>6. SrvTypeOK'
  BY <1>1, <1>2, <1>4, <1>5 DEF SrvTypeOK, SrvObjInv, SrvTxn
<1>7. SrvKeyInv'
  BY <1>1, <1>2, <1>4, NoKeyInv
<1> QED
  BY <1>1, <1>4, <1>6, <1>7 DEF SrvInv

-----------------------------------------------------------------------------
(* Final responses.                                                        *)

(* Timer G over UDP, Timer H with its time accounted for otherwise.        *)
LEMMA FailureSeriesInv ==
    ASSUME SrvInv, srv.state = "PROCEEDING"
    PROVE  LET t == ProceedingState_SendFailureResponse IN
           SrvObjInv(t, out, tp) /\ t.pooled = TRUE /\ t.state = "COMPLETED"
<1> DEFINE n == NewSeries
           g == StartTxnTimer(n, "G", T1)
           h == StartTxnTimer(n, "H", TimerH)
           x == [h EXCEPT !.expired = TimerH]
           u == IF tp = "UDP" THEN g ELSE x
           v == [u EXCEPT !.max = TimerH]
           t == [v EXCEPT !.state = "COMPLETED"]
<1>1. /\ n \in SrvTxn /\ SrvObjInv(n, out, tp) /\ Untimed(n) /\ Kept(n, srv)
      /\ n.expired = 0 /\ n.elapsed = 0
  BY NewSeriesInv
<1>2. /\ {"G", "H"} \subseteq SrvTimers /\ "COMPLETED" \in SrvStates
      /\ T1 \in Nat /\ TimerH \in Nat
  BY SrvNames, TimerType, TimerHType
<1>3. ProceedingState_SendFailureResponse = t
  BY SMT DEF ProceedingState_SendFailureResponse
<1> HIDE DEF n
<1>4. /\ g \in SrvTxn /\ Kept(g, n) /\ g.timer = "G" /\ g.running = 1
      /\ g.cur = T1 /\ g.expired = 0 /\ g.elapsed = 0
  BY <1>1, <1>2, SrvStart
<1>5. /\ h \in SrvTxn /\ Kept(h, n) /\ h.timer = "H" /\ h.running = 1
      /\ h.cur = TimerH /\ h.elapsed = 0
  BY <1>1, <1>2, SrvStart
<1> HIDE DEF g, h
<1>6. /\ x \in SrvTxn /\ x.expired = TimerH /\ Kept(x, h)
      /\ x.timer = h.timer /\ x.running = h.running
      /\ x.cur = h.cur /\ x.elapsed = h.elapsed
  BY <1>2, <1>5, SrvSetExpired
<1> HIDE DEF x
<1>7. /\ u \in SrvTxn /\ Kept(u, n) /\ u.running = 1 /\ u.elapsed = 0
      /\ \/ tp = "UDP" /\ u.timer = "G" /\ u.cur = T1 /\ u.expired = 0
         \/ tp # "UDP" /\ u.timer = "H" /\ u.cur = TimerH /\ u.expired = TimerH
  BY <1>4, <1>5, <1>6 DEF Kept
<1> HIDE DEF u
<1>8. /\ v \in SrvTxn /\ v.max = TimerH /\ Kept(v, u)
      /\ v.timer = u.timer /\ v.running = u.running
      /\ v.cur = u.cur /\ v.expired = u.expired /\ v.elapsed = u.elapsed
  BY <1>2, <1>7, SrvSetMax
<1> HIDE DEF v
<1>9. /\ t \in SrvTxn /\ t.state = "COMPLETED" /\ t.timer = v.timer
      /\ t.running = v.running /\ KeptAccount(t, v)
      /\ t.pooled = v.pooled /\ t.msg = v.msg /\ t.proto = v.proto
      /\ t.ud = v.ud /\ t.rprTerminated = v.rprTerminated
  BY <1>2, <1>8, SrvSetState
<1> HIDE DEF t
<1>10. /\ t.pooled = TRUE /\ t.running = 1 /\ t.msg = n.msg /\ t.proto = n.proto
       /\ t.ud = n.ud /\ t.rprTerminated = n.rprTerminated
       /\ t.max = TimerH /\ t.elapsed = 0
       /\ \/ tp = "UDP" /\ t.timer = "G" /\ t.cur = T1 /\ t.expired = 0
          \/ tp # "UDP" /\ t.timer = "H" /\ t.cur = TimerH /\ t.expired = TimerH
  BY <1>1, <1>7, <1>8, <1>9, InPool DEF Kept, KeptAccount
<1>11. SrvTimerInv(t) /\ SrvSeriesInv(t)
  BY <1>9, <1>10, SrvNames DEF SrvTimerInv, SrvSeriesInv, Series
<1>12. SrvPoolInv(t)
  BY <1>1, <1>10 DEF SrvObjInv, SrvPoolInv
<1>13. SrvMsgInv(t, out, tp)
  <2>1. "fail" \notin out /\ (n.msg # NoMsg => n.proto \in {tp, "UDP"})
    BY <1>1 DEF SrvObjInv, SrvMsgInv, Kept
  <2> QED
    BY <1>9, <1>10, <2>1, SrvNames DEF SrvMsgInv
<1> QED
  BY <1>3, <1>9, <1>10, <1>11, <1>12, <1>13 DEF SrvObjInv

(* A failure response, sent or refused, keeps SrvInv.                      *)
LEMMA SendFailureInv ==
    ASSUME SrvInv, SendFailure
    PROVE  SrvInv'
<1>1. /\ stu = "invited" /\ srv.state = "PROCEEDING" /\ rkeys' = {}
      /\ \/ SendMsg(ProceedingState_SendFailureResponse, "fail") /\ stu' = "rejected"
         \/ SendRefused(NewSeries) /\ stu' = stu
      /\ tp' = tp /\ rseq' = rseq /\ pracked' = pracked /\ Tell(NoNews)
  BY DEF SendFailure
<1>2. SrvTypeOK /\ SrvKeyInv
  BY DEF SrvInv
<1>3. /\ SrvObjInv(srv', out', tp)
      /\ reply' \in SrvMsgs \cup {NoMsg} /\ out' \subseteq SrvMsgs
      /\ ok' \in BOOLEAN
      /\ srv'.state = "PROCEEDING" => srv'.timer # "G"
  <2>1. CASE SendMsg(ProceedingState_SendFailureResponse, "fail")
    <3> DEFINE t == ProceedingState_SendFailureResponse
    <3>1. SrvObjInv(t, out, tp) /\ t.pooled = TRUE /\ t.state = "COMPLETED"
      BY <1>1, FailureSeriesInv
    <3> HIDE DEF t
    <3>2. SendMsg(t, "fail")
      BY <2>1 DEF t
    <3> QED
      BY <1>2, <3>1, <3>2, SendMsgInv, SrvNames
  <2>2. CASE SendRefused(NewSeries)
    <3>1. SrvObjInv(NewSeries, out, tp) /\ Untimed(NewSeries)
      BY NewSeriesInv
    <3> QED
      BY <1>2, <2>2, <3>1, SendRefusedInv, SrvNames DEF Untimed
  <2> QED
    BY <1>1, <2>1, <2>2
<1>4. up' \in News \cup {NoNews} /\ told' \subseteq News
  BY <1>1, <1>2, TellTypes DEF SrvTypeOK
<1>5. SrvTypeOK'
  BY <1>1, <1>2, <1>3, <1>4 DEF SrvTypeOK, SrvObjInv, SrvTxn, Decisions
<1>6. SrvKeyInv'
  BY <1>1, <1>2, <1>3, NoKeyInv
<1>7. stu' # "none"
  BY <1>1
<1> QED
  BY <1>1, <1>3, <1>5, <1>6, <1>7 DEF SrvInv

(* Timer L with its time accounted for.                                    *)
LEMMA AcceptSeriesInv ==
    ASSUME SrvInv, srv.state = "PROCEEDING"
    PROVE  LET t == ProceedingState_Send2xxResponse IN
           SrvObjInv(t, out, tp) /\ t.pooled = TRUE /\ t.state = "ACCEPTED"
<1> DEFINE n == NewSeries
           u == StartTxnTimer(n, "L", TimerL)
           v == [u EXCEPT !.max = TimerL]
           w == [v EXCEPT !.expired = TimerL]
           t == [w EXCEPT !.state = "ACCEPTED"]
<1>1. n \in SrvTxn /\ SrvObjInv(n, out, tp) /\ Untimed(n) /\ Kept(n, srv)
  BY NewSeriesInv
<1>2. "L" \in SrvTimers /\ "ACCEPTED" \in SrvStates /\ TimerL \in Nat
  BY SrvNames, TimerHType
<1>3. ProceedingState_Send2xxResponse = t
  BY SMT DEF ProceedingState_Send2xxResponse
<1> HIDE DEF n
<1>4. u \in SrvTxn /\ Kept(u, n) /\ u.timer = "L" /\ u.running = 1
  BY <1>1, <1>2, SrvStart
<1> HIDE DEF u
<1>5. v \in SrvTxn /\ Kept(v, u) /\ v.timer = u.timer /\ v.running = u.running
  BY <1>2, <1>4, SrvSetMax
<1> HIDE DEF v
<1>6. w \in SrvTxn /\ Kept(w, v) /\ w.timer = v.timer /\ w.running = v.running
  BY <1>2, <1>5, SrvSetExpired
<1> HIDE DEF w
<1>7. /\ t \in SrvTxn /\ t.state = "ACCEPTED" /\ t.timer = w.timer
      /\ t.running = w.running
      /\ t.pooled = w.pooled /\ t.msg = w.msg /\ t.proto = w.proto
      /\ t.ud = w.ud /\ t.rprTerminated = w.rprTerminated
  BY <1>2, <1>6, SrvSetState
<1> HIDE DEF t
<1>8. /\ t.pooled = TRUE /\ t.running = 1 /\ t.timer = "L"
      /\ t.msg = n.msg /\ t.proto = n.proto
      /\ t.ud = n.ud /\ t.rprTerminated = n.rprTerminated
  BY <1>1, <1>4, <1>5, <1>6, <1>7, InPool DEF Kept
<1>9. SrvTimerInv(t) /\ SrvSeriesInv(t)
  BY <1>7, <1>8, SrvNames DEF SrvTimerInv, SrvSeriesInv
<1>10. SrvPoolInv(t) /\ SrvMsgInv(t, out, tp)
  BY <1>1, <1>7, <1>8 DEF SrvObjInv, SrvPoolInv, SrvMsgInv
<1> QED
  BY <1>3, <1>7, <1>8, <1>9, <1>10 DEF SrvObjInv

(* Without Timer L: the record the 2xx leaves with.                        *)
LEMMA NoTimerLInv ==
    ASSUME SrvInv, srv.state = "PROCEEDING"
    PROVE  LET t == [NewSeries EXCEPT !.state = "TERMINATED"] IN
           SrvObjInv(t, out, tp) /\ t \in SrvTxn /\ t.running = 0
           /\ t.state = "TERMINATED"
<1> DEFINE n == NewSeries
           t == [n EXCEPT !.state = "TERMINATED"]
<1>1. n \in SrvTxn /\ SrvObjInv(n, out, tp) /\ Untimed(n) /\ Kept(n, srv)
  BY NewSeriesInv
<1>2. "TERMINATED" \in SrvStates
  BY SrvNames
<1>3. n.pooled = TRUE
  BY <1>1, InPool DEF Kept
<1> HIDE DEF n
<1>4. /\ t \in SrvTxn /\ t.state = "TERMINATED" /\ t.timer = n.timer
      /\ t.running = n.running
      /\ t.pooled = n.pooled /\ t.msg = n.msg /\ t.proto = n.proto
      /\ t.ud = n.ud /\ t.rprTerminated = n.rprTerminated
  BY <1>1, <1>2, SrvSetState
<1> HIDE DEF t
<1>5. SrvTimerInv(t) /\ SrvSeriesInv(t)
  BY <1>1, <1>4, SrvNames DEF SrvTimerInv, SrvSeriesInv, Untimed
<1>6. SrvPoolInv(t) /\ SrvMsgInv(t, out, tp)
  BY <1>1, <1>3, <1>4 DEF SrvObjInv, SrvPoolInv, SrvMsgInv
<1> QED
  BY <1>1, <1>4, <1>5, <1>6 DEF SrvObjInv, Untimed, n, t

(* A 2xx, sent or refused, keeps SrvInv.                                   *)
LEMMA Send2xxInv ==
    ASSUME SrvInv, Send2xx
    PROVE  SrvInv'
<1> DEFINE t == [NewSeries EXCEPT !.state = "TERMINATED"]
<1>1. /\ stu = "invited" /\ srv.state = "PROCEEDING" /\ rkeys' = {}
      /\ stu' = "accepted"
      /\ tp' = tp /\ rseq' = rseq /\ pracked' = pracked /\ Tell(NoNews)
      /\ \/ SendMsg(ProceedingState_Send2xxResponse, "2xx")
         \/ \E s \in SendToNetwork(TRUE, "2xx") :
                /\ Emit(s)
                /\ ok' = (s = "2xx")
                /\ srv' = IF s = "2xx" THEN ReleaseTransaction(t) ELSE t
         \/ SendRefused(AbortTxn(t))
  BY DEF Send2xx
<1>2. SrvTypeOK /\ SrvKeyInv /\ out \subseteq SrvMsgs
  BY DEF SrvInv, SrvTypeOK
<1>3. /\ SrvObjInv(t, out, tp) /\ t \in SrvTxn /\ t.running = 0
      /\ t.state = "TERMINATED"
  BY <1>1, NoTimerLInv
<1> HIDE DEF t
<1>4. /\ SrvObjInv(srv', out', tp)
      /\ reply' \in SrvMsgs \cup {NoMsg} /\ out' \subseteq SrvMsgs
      /\ ok' \in BOOLEAN
      /\ srv'.state = "PROCEEDING" => srv'.timer # "G"
  <2>1. CASE SendMsg(ProceedingState_Send2xxResponse, "2xx")
    <3> DEFINE v == ProceedingState_Send2xxResponse
    <3>1. SrvObjInv(v, out, tp) /\ v.pooled = TRUE /\ v.state = "ACCEPTED"
      BY <1>1, AcceptSeriesInv
    <3> HIDE DEF v
    <3>2. SendMsg(v, "2xx")
      BY <2>1 DEF v
    <3> QED
      BY <1>2, <3>1, <3>2, SendMsgInv, SrvNames
  <2>2. CASE \E s \in SendToNetwork(TRUE, "2xx") :
                /\ Emit(s)
                /\ ok' = (s = "2xx")
                /\ srv' = IF s = "2xx" THEN ReleaseTransaction(t) ELSE t
    <3>1. PICK s \in SendToNetwork(TRUE, "2xx") :
                /\ Emit(s)
                /\ ok' = (s = "2xx")
                /\ srv' = IF s = "2xx" THEN ReleaseTransaction(t) ELSE t
      BY <2>2
    <3>2. s = "2xx" \/ s = NoMsg
      BY DEF SendToNetwork
    <3>3. CASE s = "2xx"
      <4>1. srv' = ReleaseTransaction(t) /\ ok' \in BOOLEAN
        BY <3>1, <3>3
      <4>2. out' \subseteq SrvMsgs /\ reply' \in SrvMsgs \cup {NoMsg}
        BY <1>2, <3>1, <3>3, EmitTypes, SrvNames
      <4>3. SrvObjInv(srv', out', tp) /\ srv'.state = "TERMINATED"
        BY <1>3, <4>1, SrvReleasedInv
      <4> QED
        BY <4>1, <4>2, <4>3
    <3>4. CASE s = NoMsg
      <4>1. srv' = t /\ ok' \in BOOLEAN
        BY <3>1, <3>4, SrvNames
      <4>2. out' = out /\ out' \subseteq SrvMsgs /\ reply' \in SrvMsgs \cup {NoMsg}
        BY <1>2, <3>1, <3>4, EmitTypes
      <4> QED
        BY <1>3, <4>1, <4>2
    <3> QED
      BY <3>2, <3>3, <3>4
  <2>3. CASE SendRefused(AbortTxn(t))
    <3>1. SrvObjInv(AbortTxn(t), out, tp) /\ AbortTxn(t).state = "TERMINATED"
      BY <1>3, SrvAbortedInv
    <3> QED
      BY <1>2, <2>3, <3>1, SendRefusedInv
  <2> QED
    BY <1>1, <2>1, <2>2, <2>3
<1>5. up' \in News \cup {NoNews} /\ told' \subseteq News
  BY <1>1, <1>2, TellTypes DEF SrvTypeOK
<1>6. SrvTypeOK'
  BY <1>1, <1>2, <1>4, <1>5 DEF SrvTypeOK, SrvObjInv, SrvTxn, Decisions
<1>7. SrvKeyInv'
  BY <1>1, <1>2, <1>4, NoKeyInv
<1>8. stu' # "none"
  BY <1>1
<1> QED
  BY <1>1, <1>4, <1>6, <1>7, <1>8 DEF SrvInv

(* The 2xx once more, from the transaction or past it.                     *)
LEMMA Send2xxAgainInv ==
    ASSUME SrvInv, Send2xxAgain
    PROVE  SrvInv'
<1>1. /\ stu = "accepted" /\ stu' = stu /\ rkeys' = rkeys
      /\ tp' = tp /\ rseq' = rseq /\ pracked' = pracked /\ Tell(NoNews)
      /\ \/ srv.state = "ACCEPTED" /\ SendMsg(srv, "2xx")
         \/ /\ ~srv.pooled /\ \E s \in SendToNetwork(TRUE, "2xx") : Emit(s)
            /\ ok' = FALSE /\ srv' = srv
  BY DEF Send2xxAgain
<1>2. SrvTypeOK /\ SrvKeyInv /\ out \subseteq SrvMsgs /\ SrvObjInv(srv, out, tp)
  BY DEF SrvInv, SrvTypeOK
<1>3. /\ SrvObjInv(srv', out', tp)
      /\ reply' \in SrvMsgs \cup {NoMsg} /\ out' \subseteq SrvMsgs
      /\ ok' \in BOOLEAN
      /\ srv'.state # "PROCEEDING"
  <2>1. CASE srv.state = "ACCEPTED" /\ SendMsg(srv, "2xx")
    BY <1>2, <2>1, SendMsgInv, InPool, SrvNames
  <2>2. CASE /\ ~srv.pooled /\ \E s \in SendToNetwork(TRUE, "2xx") : Emit(s)
             /\ ok' = FALSE /\ srv' = srv
    <3>1. srv.pooled = FALSE /\ srv.state \in {"IDLE", "TERMINATED"}
      BY <1>2, <2>2, SrvBooleans DEF SrvObjInv, SrvPoolInv
    <3>2. Emit("2xx") \/ Emit(NoMsg)
      BY <2>2 DEF SendToNetwork
    <3>3. out' \subseteq SrvMsgs /\ reply' \in SrvMsgs \cup {NoMsg}
      BY <1>2, <3>2, EmitTypes, SrvNames
    <3>4. SrvMsgInv(srv, out', tp)
      BY <1>2, <3>1 DEF SrvObjInv, SrvMsgInv
    <3> QED
      BY <1>2, <2>2, <3>1, <3>3, <3>4 DEF SrvObjInv
  <2> QED
    BY <1>1, <2>1, <2>2
<1>4. up' \in News \cup {NoNews} /\ told' \subseteq News
  BY <1>1, <1>2, TellTypes DEF SrvTypeOK
<1>5. SrvTypeOK'
  BY <1>1, <1>2, <1>3, <1>4 DEF SrvTypeOK, SrvObjInv, SrvTxn
<1>6. SrvKeyInv'
  BY <1>1, <1>2, <1>3 DEF SrvKeyInv
<1>7. stu' # "none"
  BY <1>1
<1> QED
  BY <1>1, <1>3, <1>5, <1>6, <1>7 DEF SrvInv

-----------------------------------------------------------------------------
(* ACK, PRACK, the user's abort and a transport error.                     *)

(* A step that changes only the object, what left and what was told.       *)
LEMMA QuietInv ==
    ASSUME SrvInv, SrvObjInv(srv', out', tp),
           reply' \in SrvMsgs \cup {NoMsg}, out' \subseteq SrvMsgs,
           NEW n \in News \cup {NoNews}, Tell(n),
           UNCHANGED <<tp, rkeys, ok, stu, rseq, pracked>>,
           srv'.state = "PROCEEDING" /\ srv'.timer = "G" =>
              srv.state = "PROCEEDING" /\ srv.timer = "G",
           stu # "none"
    PROVE  SrvInv'
<1>1. SrvTypeOK /\ SrvKeyInv
  BY DEF SrvInv
<1>2. up' \in News \cup {NoNews} /\ told' \subseteq News
  BY <1>1, TellTypes DEF SrvTypeOK
<1>3. SrvTypeOK'
  BY <1>1, <1>2 DEF SrvTypeOK, SrvObjInv, SrvTxn
<1>4. SrvKeyInv'
  BY <1>1 DEF SrvKeyInv
<1> QED
  BY <1>3, <1>4 DEF SrvInv

(* The ACK of a failure response ends its series.                          *)
LEMMA CompletedAckInv ==
    ASSUME SrvInv, CompletedState_ReceiveAckRequest
    PROVE  SrvObjInv(srv', out, tp) /\ srv'.state # "PROCEEDING"
<1> DEFINE t == StopTxnTimer(srv)
           u == StartTxnTimer(t, "I", TimerI)
           v == [u EXCEPT !.state = "CONFIRMED"]
<1>1. /\ srv.state = "COMPLETED"
      /\ srv' = v \/ srv' = t \/ srv' = ReleaseTransaction(t)
  BY SMT DEF CompletedState_ReceiveAckRequest
<1>2. SrvObjInv(t, out, tp) /\ t \in SrvTxn /\ Untimed(t) /\ Kept(t, srv)
  BY SrvStoppedInv DEF SrvInv
<1>3. t.state = "COMPLETED" /\ t.pooled = TRUE
  BY <1>1, <1>2, InPool DEF Kept
<1>4. "I" \in SrvTimers /\ "CONFIRMED" \in SrvStates /\ TimerI \in Nat
  BY SrvNames, TimerHType
<1> HIDE DEF t
<1>5. u \in SrvTxn /\ Kept(u, t) /\ u.timer = "I" /\ u.running = 1
  BY <1>2, <1>4, SrvStart
<1> HIDE DEF u
<1>6. /\ v \in SrvTxn /\ v.state = "CONFIRMED" /\ v.timer = u.timer
      /\ v.running = u.running
      /\ v.pooled = u.pooled /\ v.msg = u.msg /\ v.proto = u.proto
      /\ v.ud = u.ud /\ v.rprTerminated = u.rprTerminated
  BY <1>4, <1>5, SrvSetState
<1> HIDE DEF v
<1>7. v.pooled = TRUE /\ v.msg = t.msg /\ v.proto = t.proto
      /\ v.ud = t.ud /\ v.rprTerminated = t.rprTerminated
  BY <1>3, <1>5, <1>6 DEF Kept
<1>8. SrvTimerInv(v) /\ SrvSeriesInv(v)
  BY <1>5, <1>6, SrvNames DEF SrvTimerInv, SrvSeriesInv
<1>9. SrvPoolInv(v) /\ SrvMsgInv(v, out, tp)
  BY <1>2, <1>6, <1>7 DEF SrvObjInv, SrvPoolInv, SrvMsgInv
<1>10. SrvObjInv(v, out, tp)
  BY <1>6, <1>8, <1>9 DEF SrvObjInv
<1>11. SrvObjInv(ReleaseTransaction(t), out, tp)
       /\ ReleaseTransaction(t).state = "TERMINATED"
  BY <1>2, SrvReleasedInv DEF Untimed
<1> QED
  BY <1>1, <1>2, <1>3, <1>6, <1>10, <1>11

(* The ACK, first or repeated, keeps SrvInv.                               *)
LEMMA RecvAckInv ==
    ASSUME SrvInv, RecvAck
    PROVE  SrvInv'
<1>1. /\ Emit(NoMsg) /\ UNCHANGED <<tp, rkeys, ok, stu, rseq, pracked>>
      /\ srv.pooled
      /\ \/ AcceptedState_ReceiveAckRequest
         \/ CompletedState_ReceiveAckRequest
         \/ ConfirmedState_ReceiveAckRequest
  BY DEF RecvAck
<1>2. SrvTypeOK /\ SrvObjInv(srv, out, tp) /\ srv.pooled = TRUE /\ stu # "none"
  BY <1>1, SrvBooleans DEF SrvInv, SrvObjInv
<1>3. out' = out /\ out' \subseteq SrvMsgs /\ reply' \in SrvMsgs \cup {NoMsg}
  BY <1>1, <1>2, EmitTypes DEF SrvTypeOK
<1>4. Tell("ack") \/ Tell(NoNews)
  BY <1>1 DEF AcceptedState_ReceiveAckRequest, CompletedState_ReceiveAckRequest,
              ConfirmedState_ReceiveAckRequest
<1>5. SrvObjInv(srv', out, tp) /\ srv'.state # "PROCEEDING"
  <2>1. CASE AcceptedState_ReceiveAckRequest
    <3> DEFINE r == [srv EXCEPT !.ackReceived = TRUE]
    <3>1. srv' = r /\ srv.state = "ACCEPTED"
      BY <2>1 DEF AcceptedState_ReceiveAckRequest
    <3>2. /\ r \in SrvTxn /\ Kept(r, srv) /\ KeptAccount(r, srv)
          /\ r.timer = srv.timer /\ r.running = srv.running
      BY <1>2, SrvSetAck DEF SrvObjInv
    <3> HIDE DEF r
    <3>3. SrvTimerInv(r) /\ SrvPoolInv(r)
      BY <1>2, <3>2 DEF SrvObjInv, SrvTimerInv, SrvPoolInv, Kept
    <3>4. SrvSeriesInv(r) /\ SrvMsgInv(r, out, tp)
      BY <1>2, <3>1, <3>2 DEF SrvObjInv, SrvSeriesInv, SrvMsgInv, Kept
    <3> QED
      BY <3>1, <3>2, <3>3, <3>4 DEF SrvObjInv, Kept
  <2>2. CASE CompletedState_ReceiveAckRequest
    BY <2>2, CompletedAckInv
  <2>3. CASE ConfirmedState_ReceiveAckRequest
    BY <1>2, <2>3 DEF ConfirmedState_ReceiveAckRequest
  <2> QED
    BY <1>1, <2>1, <2>2, <2>3
<1>6. "ack" \in News
  BY DEF News
<1> QED
  BY <1>1, <1>2, <1>3, <1>4, <1>5, <1>6, QuietInv

(* PRACK: the key and the series it belongs to end together.               *)
LEMMA RecvPrackInv ==
    ASSUME SrvInv, NEW r \in 1 .. MaxRSeq, RecvPrack(r)
    PROVE  SrvInv'
<1>1. /\ r \in 1 .. rseq /\ Emit(NoMsg)
      /\ tp' = tp /\ ok' = ok /\ stu' = stu /\ rseq' = rseq
      /\ srv' = IF r \in rkeys THEN StopTxnTimer(srv) ELSE srv
      /\ rkeys' = IF r \in rkeys THEN {} ELSE rkeys
      /\ \/ (r \in rkeys \/ rkeys = {}) /\ pracked' = pracked \cup {r} /\ Tell("prack")
         \/ ~(r \in rkeys \/ rkeys = {}) /\ pracked' = pracked /\ Tell("strayPrack")
  BY DEF RecvPrack, PrackMatches
<1>2. SrvTypeOK /\ SrvObjInv(srv, out, tp) /\ SrvKeyInv
  BY DEF SrvInv
<1>3. out' = out /\ out' \subseteq SrvMsgs /\ reply' \in SrvMsgs \cup {NoMsg}
  BY <1>1, <1>2, EmitTypes DEF SrvTypeOK
<1>4. up' \in News \cup {NoNews} /\ told' \subseteq News
  <2>1. told \subseteq News /\ {"prack", "strayPrack"} \subseteq News
    BY <1>2 DEF SrvTypeOK, News
  <2> QED
    BY <1>1, <2>1, TellTypes
<1>5. /\ SrvObjInv(StopTxnTimer(srv), out, tp)
      /\ Untimed(StopTxnTimer(srv)) /\ Kept(StopTxnTimer(srv), srv)
  BY <1>2, SrvStoppedInv
<1>6. SrvObjInv(srv', out', tp') /\ srv'.pooled = srv.pooled
  BY <1>1, <1>2, <1>3, <1>5 DEF Kept
<1>7. SrvTypeOK'
  BY <1>1, <1>2, <1>3, <1>4, <1>6 DEF SrvTypeOK, SrvObjInv, SrvTxn
<1>8. SrvKeyInv'
  <2>1. CASE r \in rkeys
    <3>1. srv'.timer # "G" /\ rkeys' = {} /\ pracked' = pracked \cup {r}
      BY <1>1, <1>5, <2>1, SrvNames DEF Untimed
    <3> QED
      BY <1>1, <1>2, <3>1 DEF SrvKeyInv
  <2>2. CASE rkeys = {}
    <3>1. srv' = srv /\ rkeys' = {} /\ pracked' = pracked \cup {r}
      BY <1>1, <2>2
    <3> QED
      BY <1>1, <1>2, <2>2, <3>1 DEF SrvKeyInv
  <2>3. CASE ~(r \in rkeys \/ rkeys = {})
    <3>1. srv' = srv /\ rkeys' = rkeys /\ pracked' = pracked
      BY <1>1, <2>3
    <3> QED
      BY <1>1, <1>2, <3>1 DEF SrvKeyInv
  <2> QED
    BY <2>1, <2>2, <2>3
<1>9. stu' = "none" => srv'.pooled = FALSE /\ "fail" \notin out'
  BY <1>1, <1>3, <1>6 DEF SrvInv
<1> QED
  BY <1>6, <1>7, <1>8, <1>9 DEF SrvInv

(* TerminateTxn leaves neither timer nor key of the object.                *)
LEMMA SrvTerminateTxnInv ==
    ASSUME SrvInv, SrvTerminateTxn
    PROVE  SrvInv'
<1>1. /\ srv.pooled /\ srv' = AbortTxn(srv) /\ rkeys' = {}
      /\ stu' = IF stu = "invited" THEN "aborted" ELSE stu
      /\ tp' = tp /\ ok' = ok /\ rseq' = rseq /\ pracked' = pracked
      /\ Tell(NoNews) /\ Emit(NoMsg)
  BY DEF SrvTerminateTxn
<1>2. SrvTypeOK /\ SrvObjInv(srv, out, tp) /\ SrvKeyInv /\ srv.pooled = TRUE
  BY <1>1, SrvBooleans DEF SrvInv, SrvObjInv
<1>3. out' = out /\ out' \subseteq SrvMsgs /\ reply' \in SrvMsgs \cup {NoMsg}
  BY <1>1, <1>2, EmitTypes DEF SrvTypeOK
<1>4. up' \in News \cup {NoNews} /\ told' \subseteq News
  BY <1>1, <1>2, TellTypes DEF SrvTypeOK
<1>5. SrvObjInv(srv', out', tp') /\ srv'.state = "TERMINATED"
  BY <1>1, <1>2, <1>3, SrvAbortedInv
<1>6. SrvTypeOK'
  BY <1>1, <1>2, <1>3, <1>4, <1>5 DEF SrvTypeOK, SrvObjInv, SrvTxn, Decisions
<1>7. SrvKeyInv'
  BY <1>1, <1>2, <1>5, NoKeyInv
<1>8. stu' # "none"
  BY <1>1, <1>2 DEF SrvInv
<1> QED
  BY <1>5, <1>6, <1>7, <1>8 DEF SrvInv

(* After a transport error the protocol on record is UDP.                  *)
LEMMA SrvTranspErrorInv ==
    ASSUME SrvInv, SrvOnRecvTranspError
    PROVE  SrvInv'
<1> DEFINE r == [srv EXCEPT !.proto = "UDP"]
<1>1. /\ srv.pooled /\ srv' = r
      /\ UNCHANGED <<tp, rkeys, ok, stu, rseq, pracked>>
      /\ Tell(NoNews) /\ Emit(NoMsg)
  BY DEF SrvOnRecvTranspError
<1>2. SrvTypeOK /\ SrvObjInv(srv, out, tp) /\ srv.pooled = TRUE /\ stu # "none"
  BY <1>1, SrvBooleans DEF SrvInv, SrvObjInv
<1>3. out' = out /\ out' \subseteq SrvMsgs /\ reply' \in SrvMsgs \cup {NoMsg}
  BY <1>1, <1>2, EmitTypes DEF SrvTypeOK
<1>4. "UDP" \in Protocols
  BY DEF Protocols
<1>5. /\ r \in SrvTxn /\ r.proto = "UDP" /\ KeptAccount(r, srv)
      /\ r.timer = srv.timer /\ r.running = srv.running
      /\ r.state = srv.state /\ r.pooled = srv.pooled /\ r.msg = srv.msg
      /\ r.ud = srv.ud /\ r.rprTerminated = srv.rprTerminated
  BY <1>2, <1>4, SrvSetProto DEF SrvObjInv
<1> HIDE DEF r
<1>6. SrvTimerInv(r) /\ SrvPoolInv(r)
  BY <1>2, <1>5 DEF SrvObjInv, SrvTimerInv, SrvPoolInv
<1>7. SrvSeriesInv(r)
  BY <1>2, <1>5 DEF SrvObjInv, SrvSeriesInv, Series, KeptAccount
<1>8. SrvMsgInv(r, out, tp)
  BY <1>2, <1>5 DEF SrvObjInv, SrvMsgInv
<1>9. SrvObjInv(srv', out', tp) /\ srv'.state = srv.state /\ srv'.timer = srv.timer
  BY <1>1, <1>3, <1>5, <1>6, <1>7, <1>8 DEF SrvObjInv
<1> QED
  BY <1>1, <1>2, <1>3, <1>9, QuietInv

-----------------------------------------------------------------------------
(* Timers.                                                                 *)

(* The numbers of a record.                                                *)
LEMMA SrvNumbers ==
    ASSUME NEW t \in SrvTxn
    PROVE  t.cur \in Nat /\ t.max \in Nat /\ t.expired \in Nat /\ t.elapsed \in Nat
  BY SMT DEF SrvTxn, Txn

(* When an interval of a series has run, what is accounted for is what has *)
(* passed, and it is not more than the maximum.                            *)
LEMMA SeriesPassed ==
    ASSUME NEW t \in SrvTxn, NEW max \in Nat, Series(t, max), T1 <= max,
           NEW e \in SrvTxn,
           e.expired = IF t.expired = 0 THEN T1 ELSE t.expired,
           e.elapsed = t.elapsed + t.cur
    PROVE  e.expired = e.elapsed /\ e.expired # 0 /\ e.expired <= max
  BY TimerType, SrvNumbers DEF Series

(* The next interval keeps to the series.                                  *)
LEMMA SeriesGoesOn ==
    ASSUME NEW e \in SrvTxn, Untimed(e), e.expired = e.elapsed, e.expired # 0,
           e.expired < e.max, NEW d \in Nat \ {0}
    PROVE  LET r == Restart(e, "G", Clipped(e, d)) IN
           /\ r \in SrvTxn /\ Kept(r, e) /\ r.timer = "G" /\ r.running = 1
           /\ Series(r, e.max)
<1> DEFINE c == Clipped(e, d)
           r == Restart(e, "G", c)
<1>1. e.max \in Nat /\ e.expired \in Nat /\ e.elapsed \in Nat
  BY SrvNumbers
<1>2. c \in Nat \ {0} /\ e.expired + c <= e.max
  BY <1>1, SMT DEF Clipped
<1> HIDE DEF c
<1>3. /\ r \in SrvTxn /\ Kept(r, e)
      /\ r.timer = "G" /\ r.running = 1 /\ r.cur = c
      /\ r.max = e.max /\ r.expired = e.expired + c /\ r.elapsed = e.elapsed
  BY <1>2, SrvRestart
<1> HIDE DEF r
<1>4. Series(r, e.max)
  BY <1>1, <1>2, <1>3 DEF Series
<1> QED
  BY <1>3, <1>4 DEF r, c

(* Timer G in PROCEEDING: the series goes on, or 64 T1 have passed.        *)
LEMMA ProceedingTimeoutInv ==
    ASSUME NEW t, NEW o, NEW p, SrvObjInv(t, o, p), t.pooled = TRUE,
           t.state = "PROCEEDING", t.timer = "G"
    PROVE  LET f == ProceedingState_Timer_G_H_Timeout(TimerFired(t)) IN
           /\ f \in SrvTxn /\ f.pooled = TRUE /\ f.state = "PROCEEDING"
           /\ f.ud = t.ud
           /\ SrvTimerInv(f) /\ SrvSeriesInv(f) /\ SrvMsgInv(f, o, p)
           /\ f.rprTerminated = TRUE /\ t.ud = TRUE => f.elapsed = 64 * T1
<1> DEFINE e == CountFirstInterval(TimerFired(t))
           c == Clipped(e, e.cur * 2)
           f == ProceedingState_Timer_G_H_Timeout(TimerFired(t))
<1>1. /\ t \in SrvTxn /\ SrvTimerInv(t) /\ t.timer # NoTimer
      /\ Series(t, 64 * T1) /\ SrvMsgInv(t, o, p)
      /\ t.ud = TRUE => t.rprTerminated # TRUE
  BY SrvNames DEF SrvObjInv, SrvSeriesInv, SrvPoolInv
<1>2. /\ e \in SrvTxn /\ Untimed(e) /\ Kept(e, t)
      /\ e.cur = t.cur /\ e.max = t.max
      /\ e.expired = IF t.expired = 0 THEN T1 ELSE t.expired
      /\ e.elapsed = t.elapsed + t.cur
  BY <1>1, SrvFired
<1>3. f = IF e.expired >= e.max THEN [e EXCEPT !.rprTerminated = TRUE]
          ELSE Restart(e, "G", c)
  BY DEF ProceedingState_Timer_G_H_Timeout
<1> HIDE DEF e, f
<1>4. e.expired = e.elapsed /\ e.expired # 0 /\ e.expired <= 64 * T1
  BY <1>1, <1>2, SeriesPassed, TimerHType
<1>5. e.max = 64 * T1 /\ e.cur \in Nat \ {0}
  <2>1. t.cur \in Nat /\ t.max = 64 * T1 /\ t.cur # 0
    BY <1>1, SrvNumbers, TimerType DEF Series
  <2> QED
    BY <1>2, <2>1
<1>6. CASE e.expired >= e.max
  <2>1. /\ f \in SrvTxn /\ KeptAccount(f, e)
        /\ f.timer = e.timer /\ f.running = e.running
        /\ f.state = e.state /\ f.pooled = e.pooled /\ f.msg = e.msg
        /\ f.proto = e.proto /\ f.ud = e.ud
    BY <1>2, <1>3, <1>6, SrvSetRpr
  <2>2. SrvTimerInv(f) /\ SrvSeriesInv(f)
    BY <1>2, <2>1, SrvNames DEF SrvTimerInv, SrvSeriesInv, Untimed
  <2>3. SrvMsgInv(f, o, p)
    BY <1>1, <1>2, <2>1, SrvNames DEF SrvMsgInv, Kept, Untimed
  <2>4. f.elapsed = 64 * T1
    <3>1. e.elapsed \in Nat /\ 64 * T1 \in Nat
      BY <1>2, SrvNumbers, TimerHType
    <3> QED
      BY <1>4, <1>5, <1>6, <2>1, <3>1 DEF KeptAccount
  <2> QED
    BY <1>2, <2>1, <2>2, <2>3, <2>4 DEF Kept, f
<1>7. CASE ~(e.expired >= e.max)
  <2>1. e.expired < e.max /\ e.cur * 2 \in Nat \ {0}
    BY <1>2, <1>5, <1>7, SrvNumbers
  <2>2. /\ f \in SrvTxn /\ Kept(f, e) /\ f.timer = "G" /\ f.running = 1
        /\ Series(f, e.max)
    BY <1>2, <1>3, <1>4, <1>7, <2>1, SeriesGoesOn
  <2>3. /\ f.state = "PROCEEDING" /\ f.pooled = TRUE /\ f.ud = t.ud
        /\ f.rprTerminated = t.rprTerminated
        /\ f.msg = t.msg /\ f.proto = t.proto
    BY <1>2, <2>2 DEF Kept
  <2>4. SrvTimerInv(f) /\ SrvSeriesInv(f)
    BY <1>5, <2>2, <2>3, SrvNames DEF SrvTimerInv, SrvSeriesInv
  <2>5. SrvMsgInv(f, o, p)
    BY <1>1, <2>2, <2>3, SrvNames DEF SrvMsgInv
  <2> QED
    BY <1>1, <2>2, <2>3, <2>4, <2>5 DEF f
<1> QED
  BY <1>6, <1>7

(* Timers G and H in COMPLETED: the series goes on, or it is over, after   *)
(* exactly Timer H when a failure response was sent.                       *)
LEMMA CompletedTimeoutInv ==
    ASSUME NEW t, NEW o, NEW p, SrvObjInv(t, o, p), t.pooled = TRUE,
           t.state = "COMPLETED", t.timer \in {"G", "H"}
    PROVE  LET f == CompletedState_Timer_G_H_Timeout(TimerFired(t)) IN
           /\ f \in SrvTxn /\ f.pooled = TRUE /\ f.state \in {"COMPLETED", "TERMINATED"}
           /\ f.ud = t.ud
           /\ SrvTimerInv(f) /\ SrvSeriesInv(f) /\ SrvMsgInv(f, o, p)
           /\ f.rprTerminated = t.rprTerminated
           /\ f.state = "TERMINATED" =>
                 f.running = 0 /\ ("fail" \in o => f.elapsed = TimerH)
<1> DEFINE e == CountFirstInterval(TimerFired(t))
           c == Clipped(e, Minimum(e.cur * 2, T2))
           f == CompletedState_Timer_G_H_Timeout(TimerFired(t))
<1>1. /\ t \in SrvTxn /\ SrvTimerInv(t) /\ t.timer # NoTimer
      /\ t.timer = "G" => Series(t, TimerH)
      /\ t.timer = "H" => /\ t.max = TimerH /\ t.expired = TimerH
                          /\ t.cur = TimerH /\ t.elapsed = 0
      /\ SrvMsgInv(t, o, p)
  BY SrvNames DEF SrvObjInv, SrvSeriesInv
<1>2. /\ e \in SrvTxn /\ Untimed(e) /\ Kept(e, t)
      /\ e.cur = t.cur /\ e.max = t.max
      /\ e.expired = IF t.expired = 0 THEN T1 ELSE t.expired
      /\ e.elapsed = t.elapsed + t.cur
  BY <1>1, SrvFired
<1>3. f = IF GetMsgSentProto(e) = "UDP" /\ e.expired < e.max
          THEN Restart(e, "G", c)
          ELSE [e EXCEPT !.state = "TERMINATED"]
  BY DEF CompletedState_Timer_G_H_Timeout
<1> HIDE DEF e, f
<1>4. /\ e.expired = e.elapsed /\ e.expired # 0 /\ e.expired <= TimerH
      /\ e.max = TimerH /\ e.cur \in Nat \ {0}
      /\ t.timer = "H" => e.elapsed = TimerH
  <2>1. TimerH \in Nat \ {0} /\ T1 <= TimerH /\ T1 \in Nat \ {0} /\ t.cur \in Nat
    BY TimerHType, TimerType, <1>1, SrvNumbers
  <2>2. CASE t.timer = "G"
    <3>1. e.expired = e.elapsed /\ e.expired # 0 /\ e.expired <= TimerH
      BY <1>1, <1>2, <2>1, <2>2, SeriesPassed
    <3>2. t.cur # 0 /\ t.max = TimerH
      BY <1>1, <2>1, <2>2 DEF Series
    <3> QED
      BY <1>2, <2>1, <2>2, <3>1, <3>2
  <2>3. CASE t.timer = "H"
    BY <1>1, <1>2, <2>1, <2>3
  <2> QED
    BY <2>2, <2>3
<1>5. CASE GetMsgSentProto(e) = "UDP" /\ e.expired < e.max
  <2>1. Minimum(e.cur * 2, T2) \in Nat \ {0}
    BY <1>4, TimerType DEF Minimum
  <2>2. /\ f \in SrvTxn /\ Kept(f, e) /\ f.timer = "G" /\ f.running = 1
        /\ Series(f, e.max)
    BY <1>2, <1>3, <1>4, <1>5, <2>1, SeriesGoesOn
  <2>3. /\ f.state = "COMPLETED" /\ f.pooled = TRUE /\ f.ud = t.ud
        /\ f.rprTerminated = t.rprTerminated
        /\ f.msg = t.msg /\ f.proto = t.proto
    BY <1>2, <2>2 DEF Kept
  <2>4. SrvTimerInv(f) /\ SrvSeriesInv(f)
    BY <1>4, <2>2, <2>3, SrvNames DEF SrvTimerInv, SrvSeriesInv
  <2>5. t.timer = "G"
    <3>1. t.timer = "H" => e.expired = TimerH
      BY <1>4
    <3> QED
      BY <1>4, <1>5, <3>1, TimerHType
  <2>6. SrvMsgInv(f, o, p)
    BY <1>1, <2>3, <2>5 DEF SrvMsgInv
  <2> QED
    BY <2>2, <2>3, <2>4, <2>6 DEF f
<1>6. CASE ~(GetMsgSentProto(e) = "UDP" /\ e.expired < e.max)
  <2>1. "TERMINATED" \in SrvStates
    BY SrvNames
  <2>2. /\ f \in SrvTxn /\ f.state = "TERMINATED" /\ f.timer = e.timer
        /\ f.running = e.running /\ KeptAccount(f, e)
        /\ f.pooled = e.pooled /\ f.msg = e.msg /\ f.proto = e.proto
        /\ f.ud = e.ud /\ f.rprTerminated = e.rprTerminated
    BY <1>2, <1>3, <1>6, <2>1, SrvSetState
  <2>3. SrvTimerInv(f) /\ SrvSeriesInv(f)
    BY <1>2, <2>2, SrvNames DEF SrvTimerInv, SrvSeriesInv, Untimed
  <2>4. SrvMsgInv(f, o, p)
    BY <1>1, <1>2, <2>2 DEF SrvMsgInv, Kept
  <2>5. "fail" \in o => e.elapsed = TimerH
    <3>1. SUFFICES ASSUME "fail" \in o, t.timer = "G"
                   PROVE  e.elapsed = TimerH
      BY <1>4
    <3>2. e.msg # NoMsg /\ e.proto = "UDP"
      BY <1>1, <1>2, <3>1, SrvNames DEF SrvMsgInv, Kept
    <3>3. ~(e.expired < TimerH)
      BY <1>4, <1>6, <3>2 DEF GetMsgSentProto
    <3> QED
      BY <1>2, <1>4, <3>3, SrvNumbers, TimerHType
  <2> QED
    BY <1>2, <2>2, <2>3, <2>4, <2>5 DEF Kept, KeptAccount, Untimed, f
<1> QED
  BY <1>5, <1>6

(* Timers L and I: the transaction is over.                                *)
LEMMA TimerEndsInv ==
    ASSUME NEW t, NEW o, NEW p, SrvObjInv(t, o, p), t.pooled = TRUE,
           t.timer \in {"I", "L"}
    PROVE  LET f == [TimerFired(t) EXCEPT !.state = "TERMINATED"] IN
           /\ f \in SrvTxn /\ f.pooled = TRUE /\ f.state = "TERMINATED"
           /\ f.ud = t.ud
           /\ SrvTimerInv(f) /\ SrvSeriesInv(f) /\ SrvMsgInv(f, o, p)
           /\ f.running = 0
<1> DEFINE u == TimerFired(t)
           f == [u EXCEPT !.state = "TERMINATED"]
<1>1. /\ t \in Txn(SrvStates, SrvTimers, SrvMsgs) /\ t.running = 1 /\ t.running >= 1
      /\ SrvMsgInv(t, o, p)
  BY SrvNames DEF SrvObjInv, SrvTimerInv, SrvTxn
<1>2. /\ u \in Txn(SrvStates, SrvTimers, SrvMsgs)
      /\ u.timer = NoTimer /\ u.running = t.running - 1
      /\ u.pooled = t.pooled
      /\ u.msg = t.msg /\ u.proto = t.proto /\ u.ud = t.ud
  BY <1>1, TimerFiredLemma
<1>3. u \in SrvTxn /\ "TERMINATED" \in SrvStates
  BY <1>2, SrvNames DEF SrvTxn
<1> HIDE DEF u
<1>4. /\ f \in SrvTxn /\ f.state = "TERMINATED" /\ f.timer = u.timer
      /\ f.running = u.running
      /\ f.pooled = u.pooled /\ f.msg = u.msg /\ f.proto = u.proto
      /\ f.ud = u.ud
  BY <1>3, SrvSetState
<1> HIDE DEF f
<1>5. SrvTimerInv(f) /\ SrvSeriesInv(f)
  BY <1>1, <1>2, <1>4, SrvNames DEF SrvTimerInv, SrvSeriesInv
<1>6. SrvMsgInv(f, o, p)
  BY <1>1, <1>2, <1>4 DEF SrvMsgInv
<1> QED
  BY <1>1, <1>2, <1>4, <1>5, <1>6 DEF f, u

(* The row of the state table that the running timer of a state selects.   *)
LEMMA SrvTimerRows ==
    ASSUME NEW t, NEW type
    PROVE  /\ t.state = "PROCEEDING" /\ type \in {"G", "H"} =>
                SrvOnTimer(t, type) = ProceedingState_Timer_G_H_Timeout(t)
           /\ t.state = "COMPLETED" /\ type \in {"G", "H"} =>
                SrvOnTimer(t, type) = CompletedState_Timer_G_H_Timeout(t)
           /\ t.state = "ACCEPTED" /\ type = "L" =>
                SrvOnTimer(t, type) = [t EXCEPT !.state = "TERMINATED"]
           /\ t.state = "CONFIRMED" /\ type = "I" =>
                SrvOnTimer(t, type) = [t EXCEPT !.state = "TERMINATED"]
  BY DEF SrvOnTimer

(* The record f that the callback of the running timer of srv computes.    *)
TimeoutOutcome(f) ==
    /\ f \in SrvTxn /\ f.pooled = TRUE
    /\ SrvTimerInv(f) /\ SrvSeriesInv(f) /\ SrvMsgInv(f, out, tp)
    /\ f.state = "PROCEEDING" =>
          srv.state = "PROCEEDING" /\ srv.timer = "G"
    /\ f.state = "TERMINATED" =>
          /\ f.running = 0
          /\ srv.timer \in {"G", "H"} /\ "fail" \in out => f.elapsed = TimerH
    /\ f.state # "TERMINATED" /\ f.rprTerminated = TRUE /\ srv.ud = TRUE =>
          /\ f.elapsed = 64 * T1
          /\ srv.state = "PROCEEDING" /\ srv.timer = "G"

(* The row of the timer that has run.                                      *)
LEMMA SrvOnTimerInv ==
    ASSUME SrvInv, srv.pooled = TRUE, srv.timer # NoTimer
    PROVE  TimeoutOutcome(SrvOnTimer(TimerFired(srv), srv.timer))
<1> DEFINE u == TimerFired(srv)
           f == SrvOnTimer(u, srv.timer)
<1>1. SrvObjInv(srv, out, tp) /\ srv \in SrvTxn /\ SrvTimerInv(srv)
  BY DEF SrvInv, SrvObjInv
<1>2. u.state = srv.state
  <2>1. srv \in Txn(SrvStates, SrvTimers, SrvMsgs) /\ srv.running >= 1
    BY <1>1 DEF SrvTxn, SrvTimerInv
  <2> QED
    BY <2>1, TimerFiredLemma
<1>3. \/ srv.state = "PROCEEDING" /\ srv.timer = "G"
      \/ srv.state = "COMPLETED" /\ srv.timer \in {"G", "H"}
      \/ srv.state = "ACCEPTED" /\ srv.timer = "L"
      \/ srv.state = "CONFIRMED" /\ srv.timer = "I"
  BY <1>1 DEF SrvTimerInv
<1>4. CASE srv.state = "PROCEEDING" /\ srv.timer = "G"
  <2>1. f = ProceedingState_Timer_G_H_Timeout(TimerFired(srv))
    BY <1>2, <1>4, SrvTimerRows
  <2> HIDE DEF f, TimeoutOutcome
  <2>2. /\ f \in SrvTxn /\ f.pooled = TRUE /\ f.state = "PROCEEDING"
        /\ SrvTimerInv(f) /\ SrvSeriesInv(f) /\ SrvMsgInv(f, out, tp)
        /\ f.rprTerminated = TRUE /\ srv.ud = TRUE => f.elapsed = 64 * T1
    BY <1>1, <1>4, <2>1, ProceedingTimeoutInv
  <2> QED
    BY <1>4, <2>2 DEF f, TimeoutOutcome
<1>5. CASE srv.state = "COMPLETED" /\ srv.timer \in {"G", "H"}
  <2>1. f = CompletedState_Timer_G_H_Timeout(TimerFired(srv))
    BY <1>2, <1>5, SrvTimerRows
  <2> HIDE DEF f, TimeoutOutcome
  <2>2. /\ f \in SrvTxn /\ f.pooled = TRUE /\ f.state \in {"COMPLETED", "TERMINATED"}
        /\ SrvTimerInv(f) /\ SrvSeriesInv(f) /\ SrvMsgInv(f, out, tp)
        /\ f.rprTerminated = srv.rprTerminated
        /\ f.state = "TERMINATED" =>
              f.running = 0 /\ ("fail" \in out => f.elapsed = TimerH)
    BY <1>1, <1>5, <2>1, CompletedTimeoutInv
  <2>3. srv.ud = TRUE => f.rprTerminated # TRUE
    BY <1>1, <2>2 DEF SrvObjInv, SrvPoolInv
  <2> QED
    BY <2>2, <2>3 DEF f, TimeoutOutcome
<1>6. CASE \/ srv.state = "ACCEPTED" /\ srv.timer = "L"
           \/ srv.state = "CONFIRMED" /\ srv.timer = "I"
  <2>1. f = [TimerFired(srv) EXCEPT !.state = "TERMINATED"]
    BY <1>2, <1>6, SrvTimerRows
  <2> HIDE DEF f, TimeoutOutcome
  <2>2. /\ f \in SrvTxn /\ f.pooled = TRUE /\ f.state = "TERMINATED"
        /\ SrvTimerInv(f) /\ SrvSeriesInv(f) /\ SrvMsgInv(f, out, tp)
        /\ f.running = 0
    BY <1>1, <1>6, <2>1, TimerEndsInv
  <2> QED
    BY <1>6, <2>2 DEF f, TimeoutOutcome
<1> QED
  BY <1>3, <1>4, <1>5, <1>6

(* Without user data the record of the callback satisfies the invariant.   *)
LEMMA SrvDetachedInv ==
    ASSUME NEW f \in SrvTxn, NEW o, NEW p, f.pooled = TRUE,
           SrvTimerInv(f), SrvSeriesInv(f), SrvMsgInv(f, o, p)
    PROVE  LET r == [f EXCEPT !.ud = FALSE] IN
           SrvObjInv(r, o, p) /\ r.state = f.state /\ r.timer = f.timer
           /\ r.elapsed = f.elapsed
<1> DEFINE r == [f EXCEPT !.ud = FALSE]
<1>1. /\ r \in SrvTxn /\ r.ud = FALSE /\ KeptAccount(r, f)
      /\ r.timer = f.timer /\ r.running = f.running
      /\ r.state = f.state /\ r.pooled = f.pooled /\ r.msg = f.msg
      /\ r.proto = f.proto
  BY SrvClearUd
<1> HIDE DEF r
<1>2. SrvTimerInv(r) /\ SrvPoolInv(r)
  BY <1>1 DEF SrvTimerInv, SrvPoolInv
<1>3. SrvSeriesInv(r) /\ SrvMsgInv(r, o, p)
  BY <1>1 DEF SrvSeriesInv, Series, KeptAccount, SrvMsgInv
<1> QED
  BY <1>1, <1>2, <1>3 DEF SrvObjInv, KeptAccount, r

(* The callback: over, going on, or the next timer could not be started.   *)
LEMMA SrvCbkCases ==
    ASSUME SrvCbkTxnTimeout
    PROVE  LET f == SrvOnTimer(TimerFired(srv), srv.timer) IN
           /\ srv.pooled /\ srv.timer # NoTimer
           /\ UNCHANGED <<tp, rkeys, ok, stu, rseq, pracked>>
           /\ \/ /\ f.state = "TERMINATED" \/ f.rprTerminated
                 /\ srv' = IF f.state = "TERMINATED" THEN ReleaseTransaction(f)
                           ELSE [f EXCEPT !.ud = FALSE]
                 /\ Expired(srv.timer, f.state)
                 /\ Emit(NoMsg)
              \/ /\ ~(f.state = "TERMINATED" \/ f.rprTerminated)
                 /\ srv' = f
                 /\ \E m \in SendToNetwork(f.ud, f.msg) : Emit(m)
                 /\ Tell(NoNews)
              \/ /\ srv' = CountFirstInterval(TimerFired(srv))
                 /\ Emit(NoMsg)
                 /\ Tell(NoNews)
  BY DEF SrvCbkTxnTimeout

(* The timer callback, with every way it may end, keeps SrvInv.            *)
LEMMA SrvCbkTxnTimeoutInv ==
    ASSUME SrvInv, SrvCbkTxnTimeout
    PROVE  SrvInv'
<1> DEFINE f == SrvOnTimer(TimerFired(srv), srv.timer)
           e == CountFirstInterval(TimerFired(srv))
<1>1. /\ srv.pooled /\ srv.timer # NoTimer
      /\ UNCHANGED <<tp, rkeys, ok, stu, rseq, pracked>>
      /\ \/ /\ srv' = IF f.state = "TERMINATED" THEN ReleaseTransaction(f)
                      ELSE [f EXCEPT !.ud = FALSE]
            /\ Expired(srv.timer, f.state)
            /\ Emit(NoMsg)
         \/ /\ ~(f.state = "TERMINATED" \/ f.rprTerminated)
            /\ srv' = f
            /\ \E m \in SendToNetwork(f.ud, f.msg) : Emit(m)
            /\ Tell(NoNews)
         \/ /\ srv' = e
            /\ Emit(NoMsg)
            /\ Tell(NoNews)
  BY SrvCbkCases
<1>2. SrvTypeOK /\ SrvObjInv(srv, out, tp) /\ srv.pooled = TRUE /\ stu # "none"
  BY <1>1, SrvBooleans DEF SrvInv, SrvObjInv
<1>3. TimeoutOutcome(f)
  BY <1>1, <1>2, SrvOnTimerInv
<1> HIDE DEF f, e
<1>4. {"rprTimeout", "ackTimeout"} \subseteq News
  BY DEF News
<1>5. CASE /\ srv' = IF f.state = "TERMINATED" THEN ReleaseTransaction(f)
                     ELSE [f EXCEPT !.ud = FALSE]
           /\ Expired(srv.timer, f.state)
           /\ Emit(NoMsg)
  <2>1. out' = out /\ out' \subseteq SrvMsgs /\ reply' \in SrvMsgs \cup {NoMsg}
    BY <1>2, <1>5, EmitTypes DEF SrvTypeOK
  <2>2. \E n \in News \cup {NoNews} : Tell(n)
    BY <1>4, <1>5 DEF Expired
  <2>3. SrvObjInv(srv', out, tp)
        /\ (srv'.state = "PROCEEDING" /\ srv'.timer = "G" =>
              srv.state = "PROCEEDING" /\ srv.timer = "G")
    <3>1. CASE f.state = "TERMINATED"
      BY <1>3, <1>5, <3>1, SrvReleasedInv DEF TimeoutOutcome
    <3>2. CASE f.state # "TERMINATED"
      BY <1>3, <1>5, <3>2, SrvDetachedInv DEF TimeoutOutcome
    <3> QED
      BY <3>1, <3>2
  <2> QED
    BY <1>1, <1>2, <2>1, <2>2, <2>3, QuietInv
<1>6. CASE /\ ~(f.state = "TERMINATED" \/ f.rprTerminated)
           /\ srv' = f
           /\ \E m \in SendToNetwork(f.ud, f.msg) : Emit(m)
           /\ Tell(NoNews)
  <2>1. f.rprTerminated # TRUE /\ SrvObjInv(f, out, tp)
    BY <1>3, <1>6 DEF TimeoutOutcome, SrvObjInv, SrvPoolInv
  <2>2. /\ SrvObjInv(f, out', tp)
        /\ reply' \in SrvMsgs \cup {NoMsg} /\ out' \subseteq SrvMsgs
    BY <1>2, <1>6, <2>1, ResendInv
  <2>3. SrvObjInv(srv', out', tp)
        /\ (srv'.state = "PROCEEDING" /\ srv'.timer = "G" =>
              srv.state = "PROCEEDING" /\ srv.timer = "G")
    BY <1>3, <1>6, <2>2 DEF TimeoutOutcome
  <2> QED
    BY <1>1, <1>2, <1>6, <2>2, <2>3, QuietInv
<1>7. CASE srv' = e /\ Emit(NoMsg) /\ Tell(NoNews)
  <2>1. out' = out /\ out' \subseteq SrvMsgs /\ reply' \in SrvMsgs \cup {NoMsg}
    BY <1>2, <1>7, EmitTypes DEF SrvTypeOK
  <2>2. e \in SrvTxn /\ Untimed(e) /\ Kept(e, srv)
    BY <1>1, <1>2, SrvFired DEF SrvObjInv, e
  <2>3. SrvObjInv(srv', out', tp) /\ srv'.timer # "G"
    BY <1>2, <1>7, <2>1, <2>2, SrvUntimedInv, SrvNames DEF Untimed
  <2> QED
    BY <1>1, <1>2, <1>7, <2>1, <2>3, QuietInv
<1> QED
  BY <1>1, <1>5, <1>6, <1>7

-----------------------------------------------------------------------------
(* SrvInv is inductive.                                                    *)

(* No INVITE has come: SrvInv holds.                                       *)
LEMMA SrvInitInv == SrvInit => SrvInv
<1> SUFFICES ASSUME SrvInit PROVE SrvInv
  OBVIOUS
<1>1. NewTxn \in SrvTxn /\ NoMsg \in SrvMsgs \cup {NoMsg}
  BY SrvNames, NewTxnType DEF SrvTxn
<1>2. /\ NewTxn.pooled = FALSE /\ NewTxn.state = "IDLE" /\ NewTxn.timer = NoTimer
      /\ NewTxn.msg = NoMsg /\ NewTxn.running = 0 /\ NewTxn.rprTerminated = FALSE
  BY SMT DEF NewTxn
<1>3. SrvTypeOK
  BY <1>1, RSeqAssumption DEF SrvInit, SrvTypeOK, SrvTxn, Decisions
<1>4. SrvObjInv(NewTxn, {}, tp)
  BY <1>1, <1>2 DEF SrvObjInv, SrvTimerInv, SrvPoolInv, SrvSeriesInv, SrvMsgInv
<1>5. SrvKeyInv
  BY <1>2 DEF SrvInit, SrvKeyInv
<1> QED
  BY <1>2, <1>3, <1>4, <1>5 DEF SrvInit, SrvInv

(* Every step keeps SrvInv.                                                *)
LEMMA SrvNextInv == SrvInv /\ [SrvNext]_srvVars => SrvInv'
<1> SUFFICES ASSUME SrvInv, [SrvNext]_srvVars PROVE SrvInv'
  OBVIOUS
<1>1. CASE IdleState_ReceiveInviteRequest \/ RecvInviteAgain
  BY <1>1, ReceiveInviteInv, InviteAgainInv
<1>2. CASE SendProvisional
  BY <1>2, SendProvisionalInv
<1>3. ASSUME NEW r \in 1 .. MaxRSeq, SendRpr(r) PROVE SrvInv'
  BY <1>3, SendRprInv
<1>4. CASE SendFailure
  BY <1>4, SendFailureInv
<1>5. CASE Send2xx \/ Send2xxAgain
  BY <1>5, Send2xxInv, Send2xxAgainInv
<1>6. CASE RecvAck
  BY <1>6, RecvAckInv
<1>7. ASSUME NEW r \in 1 .. MaxRSeq, RecvPrack(r) PROVE SrvInv'
  BY <1>7, RecvPrackInv
<1>8. CASE SrvCbkTxnTimeout
  BY <1>8, SrvCbkTxnTimeoutInv
<1>9. CASE SrvTerminateTxn \/ SrvOnRecvTranspError
  BY <1>9, SrvTerminateTxnInv, SrvTranspErrorInv
<1>10. CASE UNCHANGED srvVars
  BY <1>10 DEF srvVars, SrvInv, SrvTypeOK, SrvKeyInv
<1> QED
  BY <1>1, <1>2, <1>3, <1>4, <1>5, <1>6, <1>7, <1>8, <1>9, <1>10 DEF SrvNext

-----------------------------------------------------------------------------
(* What a step tells the transaction user.                                 *)

(* Timeouts come from the callback, stray PRACKs from a PRACK.             *)
LEMMA WhoTells ==
    ASSUME SrvNext
    PROVE  /\ SrvCbkTxnTimeout \/ up' \notin {"rprTimeout", "ackTimeout"}
           /\ \/ \E r \in 1 .. MaxRSeq : RecvPrack(r)
              \/ up' # "strayPrack"
<1>1. CASE SrvCbkTxnTimeout
  <2>1. up' \in {NoNews, "rprTimeout", "ackTimeout"}
    BY <1>1, SrvCbkCases DEF Tell, Expired
  <2> QED
    BY <1>1, <2>1 DEF NoNews
<1>2. ASSUME NEW r \in 1 .. MaxRSeq, RecvPrack(r)
      PROVE  up' \notin {"rprTimeout", "ackTimeout"}
  BY <1>2 DEF RecvPrack, PrackMatches, Tell
<1>3. CASE \/ IdleState_ReceiveInviteRequest \/ RecvInviteAgain
           \/ SendProvisional \/ SendFailure \/ Send2xx \/ Send2xxAgain
           \/ RecvAck \/ SrvTerminateTxn \/ SrvOnRecvTranspError
           \/ \E r \in 1 .. MaxRSeq : SendRpr(r)
  <2>1. Tell("invite") \/ Tell(NoNews) \/ Tell("ack")
    BY <1>3 DEF IdleState_ReceiveInviteRequest, RecvInviteAgain, SendProvisional,
                SendFailure, Send2xx, Send2xxAgain, RecvAck, SrvTerminateTxn,
                SrvOnRecvTranspError, SendRpr, AcceptedState_ReceiveAckRequest,
                CompletedState_ReceiveAckRequest, ConfirmedState_ReceiveAckRequest
  <2> QED
    BY <2>1 DEF Tell, NoNews
<1> QED
  BY <1>1, <1>2, <1>3 DEF SrvNext

(* A timeout that the callback reports is the one of its record.           *)
LEMMA TimeoutTold ==
    ASSUME SrvInv, SrvCbkTxnTimeout
    PROVE  /\ up' = "rprTimeout" =>
                 /\ srv'.elapsed = 64 * T1
                 /\ srv.state = "PROCEEDING" /\ srv.timer = "G"
           /\ up' = "ackTimeout" /\ "fail" \in out => srv'.elapsed = TimerH
<1> DEFINE f == SrvOnTimer(TimerFired(srv), srv.timer)
<1>1. /\ srv.pooled /\ srv.timer # NoTimer
      /\ \/ /\ f.state = "TERMINATED" \/ f.rprTerminated
            /\ srv' = IF f.state = "TERMINATED" THEN ReleaseTransaction(f)
                      ELSE [f EXCEPT !.ud = FALSE]
            /\ Expired(srv.timer, f.state)
         \/ Tell(NoNews)
  BY SrvCbkCases
<1>2. srv \in SrvTxn /\ srv.pooled = TRUE
  BY <1>1, SrvBooleans DEF SrvInv, SrvObjInv
<1>3. TimeoutOutcome(f)
  BY <1>1, <1>2, SrvOnTimerInv
<1> HIDE DEF f
<1>4. CASE Tell(NoNews)
  BY <1>4 DEF Tell, NoNews
<1>5. CASE /\ f.state = "TERMINATED" \/ f.rprTerminated
           /\ srv' = IF f.state = "TERMINATED" THEN ReleaseTransaction(f)
                     ELSE [f EXCEPT !.ud = FALSE]
           /\ Expired(srv.timer, f.state)
  <2>1. f \in SrvTxn
    BY <1>3 DEF TimeoutOutcome
  <2>2. /\ up' = "rprTimeout" => f.state # "TERMINATED"
        /\ up' = "ackTimeout" => f.state = "TERMINATED"
        /\ up' \in {"rprTimeout", "ackTimeout"} =>
              srv.ud /\ srv.timer \in {"G", "H"}
    BY <1>5 DEF Expired, Tell, NoNews
  <2>3. CASE f.state = "TERMINATED"
    <3>1. srv'.elapsed = f.elapsed
      BY <1>3, <1>5, <2>1, <2>3, SrvReleasedInv DEF TimeoutOutcome
    <3> QED
      BY <1>3, <2>2, <2>3, <3>1 DEF TimeoutOutcome
  <2>4. CASE f.state # "TERMINATED"
    <3>1. srv'.elapsed = f.elapsed
      BY <1>3, <1>5, <2>4, SrvDetachedInv DEF TimeoutOutcome
    <3>2. f.rprTerminated = TRUE
      BY <1>5, <2>1, <2>4, SrvBooleans
    <3>3. up' = "rprTimeout" => srv.ud = TRUE
      BY <1>2, <2>2, SrvBooleans
    <3> QED
      BY <1>3, <2>2, <2>4, <3>1, <3>2, <3>3 DEF TimeoutOutcome
  <2> QED
    BY <2>3, <2>4
<1> QED
  BY <1>1, <1>4, <1>5

-----------------------------------------------------------------------------
(* The theorems.                                                           *)

(* SrvInv holds in every state.                                            *)
THEOREM ServerInvariant == SrvSpec => []SrvInv
  BY SrvInitInv, SrvNextInv, PTL DEF SrvSpec

(* Type correctness: no field leaves its range under any sequence of       *)
(* calls, requests, timers and faults.                                     *)
THEOREM ServerTypeCorrect == SrvSpec => []SrvTypeOK
<1>1. SrvInv => SrvTypeOK
  BY DEF SrvInv
<1> QED
  BY <1>1, ServerInvariant, PTL

(* A timer that runs is the one the object denotes and one its state has a *)
(* handler for: none is started over another, stopped twice or left behind *)
(* by an object that leaves the pool.                                      *)
THEOREM ServerTimers == SrvSpec => [](SrvTimerInv(srv) /\ SrvPoolInv(srv))
<1>1. SrvInv => SrvTimerInv(srv) /\ SrvPoolInv(srv)
  BY DEF SrvInv, SrvObjInv
<1> QED
  BY <1>1, ServerInvariant, PTL

(* The timeout of a reliable provisional response is reported after        *)
(* exactly 64 T1, while its key still waits for the PRACK.                 *)
THEOREM ServerRprTimeoutExact == SrvSpec => RprTimeoutExact
<1> DEFINE A == up' = "rprTimeout" => /\ srv'.elapsed = 64 * T1
                                      /\ rkeys # {} /\ rkeys \cap pracked = {}
<1>1. SrvInv /\ [SrvNext]_srvVars => [A]_srvVars
  <2> SUFFICES ASSUME SrvInv, SrvNext, up' = "rprTimeout"
               PROVE  /\ srv'.elapsed = 64 * T1
                      /\ rkeys # {} /\ rkeys \cap pracked = {}
    OBVIOUS
  <2>1. SrvCbkTxnTimeout
    BY WhoTells
  <2> QED
    BY <2>1, TimeoutTold DEF SrvInv, SrvKeyInv
<1> QED
  BY <1>1, ServerInvariant, PTL DEF SrvSpec, RprTimeoutExact

(* The missing ACK of a failure response that was sent is reported after   *)
(* exactly Timer H, whatever the transport and whatever series ran before. *)
THEOREM ServerAckTimeoutExact == SrvSpec => AckTimeoutExact
<1> DEFINE A == up' = "ackTimeout" /\ "fail" \in out => srv'.elapsed = TimerH
<1>1. SrvInv /\ [SrvNext]_srvVars => [A]_srvVars
  <2> SUFFICES ASSUME SrvInv, SrvNext, up' = "ackTimeout", "fail" \in out
               PROVE  srv'.elapsed = TimerH
    OBVIOUS
  <2>1. SrvCbkTxnTimeout
    BY WhoTells
  <2> QED
    BY <2>1, TimeoutTold
<1> QED
  BY <1>1, ServerInvariant, PTL DEF SrvSpec, AckTimeoutExact

(* A PRACK that is answered with a 481 is not the first one of the last    *)
(* reliable provisional response.                                          *)
THEOREM ServerPrackReachesUser == SrvSpec => PrackReachesUser
<1> DEFINE A == up' = "strayPrack" => rseq \in pracked \/ rseq \in rkeys'
<1>1. SrvInv /\ [SrvNext]_srvVars => [A]_srvVars
  <2> SUFFICES ASSUME SrvInv, SrvNext, up' = "strayPrack"
               PROVE  rseq \in pracked \/ rseq \in rkeys'
    OBVIOUS
  <2>1. PICK r \in 1 .. MaxRSeq : RecvPrack(r)
    BY WhoTells
  <2>2. r \in 1 .. rseq /\ rkeys # {} /\ rkeys' = rkeys
    BY <2>1 DEF RecvPrack, PrackMatches, Tell
  <2>3. rseq # 0
    BY <2>2
  <2> QED
    BY <2>2, <2>3 DEF SrvInv, SrvKeyInv
<1> QED
  BY <1>1, ServerInvariant, PTL DEF SrvSpec, PrackReachesUser

-----------------------------------------------------------------------------
(* What left is what the user decided.                                     *)

(* What is on record has left, and a final response only as the            *)
(* transaction user decided.                                               *)
SrvOutInv ==
    /\ srv.msg # NoMsg => srv.msg \in out
    /\ "2xx" \in out => stu = "accepted"
    /\ "fail" \in out => stu = "rejected"

(* The record that SendMsg may send and leave behind keeps the message.    *)
LEMMA SentMessage ==
    ASSUME SrvTypeOK, NEW t \in SrvTxn, t.msg = srv.msg, NEW m \in SrvMsgs, SendMsg(t, m),
           srv.msg # NoMsg => srv.msg \in out
    PROVE  /\ out' \in {out, out \cup {m}}
           /\ srv'.msg # NoMsg => srv'.msg \in out'
<1>1. m # NoMsg /\ m \in SrvMsgs \cup {NoMsg} /\ tp \in Protocols
  BY SrvNames DEF SrvTypeOK
<1>2. \/ Emit(m) /\ srv' = UpdateTranspInfo(t, m, tp)
      \/ Emit(NoMsg) /\ srv' = t
      \/ Emit(NoMsg) /\ srv' = AbortTxn(t)
  <2>1. \A s \in SendToNetwork(TRUE, m) : s = m \/ s = NoMsg
    BY DEF SendToNetwork
  <2> QED
    BY <1>1, <2>1 DEF SendMsg
<1>3. ASSUME Emit(m), srv' = UpdateTranspInfo(t, m, tp)
      PROVE  out' = out \cup {m} /\ srv'.msg = m
  BY <1>1, <1>3, SrvRecord DEF Emit
<1>4. ASSUME Emit(NoMsg), srv' = t
      PROVE  out' = out /\ srv'.msg = srv.msg
  BY <1>4 DEF Emit
<1>5. ASSUME Emit(NoMsg), srv' = AbortTxn(t)
      PROVE  out' = out /\ srv'.msg = NoMsg
  BY <1>5 DEF Emit, AbortTxn, ReleaseTransaction, NewTxn
<1> QED
  BY <1>1, <1>2, <1>3, <1>4, <1>5

(* The records from which the three kinds of response are sent.            *)
LEMMA ResponseRecords ==
    ASSUME SrvInv
    PROVE  /\ NewSeries \in SrvTxn /\ NewSeries.msg = srv.msg
           /\ ProceedingState_SendFailureResponse.msg = srv.msg
           /\ ProceedingState_Send2xxResponse.msg = srv.msg
           /\ [StartTxnTimer(NewSeries, "G", T1) EXCEPT !.max = 64 * T1].msg = srv.msg
<1> DEFINE n == NewSeries
<1>1. n \in SrvTxn /\ n.msg = srv.msg
  BY NewSeriesInv DEF Kept
<1> HIDE DEF n
<1>2. \A k, d : StartTxnTimer(n, k, d).msg = srv.msg
  BY <1>1, SMT DEF StartTxnTimer, SrvTxn, Txn
<1>3. ProceedingState_SendFailureResponse.msg = srv.msg
  BY <1>1, SMT DEF ProceedingState_SendFailureResponse, StartTxnTimer, SrvTxn, Txn, n
<1>4. ProceedingState_Send2xxResponse.msg = srv.msg
  BY <1>1, SMT DEF ProceedingState_Send2xxResponse, StartTxnTimer, SrvTxn, Txn, n
<1>5. [StartTxnTimer(n, "G", T1) EXCEPT !.max = 64 * T1].msg = srv.msg
  BY <1>1, SMT DEF StartTxnTimer, SrvTxn, Txn
<1> QED
  BY <1>1, <1>3, <1>4, <1>5 DEF n
(* A step that sends nothing and keeps or drops the record.                *)
LEMMA QuietOut ==
    ASSUME SrvOutInv, Emit(NoMsg), srv'.msg \in {srv.msg, NoMsg},
           stu' = stu \/ stu \in {"none", "invited"}
    PROVE  SrvOutInv'
  BY DEF SrvOutInv, Emit

(* A provisional response that is sent, or refused.                        *)
LEMMA ProvisionalOut ==
    ASSUME SrvInv, SrvOutInv, NEW t \in SrvTxn, t.msg = srv.msg,
           NEW m \in {"prov", "rpr"}, SendMsg(t, m), stu' = stu
    PROVE  SrvOutInv'
<1>1. m \in SrvMsgs /\ SrvTypeOK
  BY SrvNames DEF SrvInv
<1>2. /\ out' \in {out, out \cup {m}}
      /\ srv'.msg # NoMsg => srv'.msg \in out'
  BY <1>1, SentMessage DEF SrvOutInv
<1> QED
  BY <1>2 DEF SrvOutInv

(* A final response that is sent after the user's decision for it.         *)
LEMMA FinalOut ==
    ASSUME SrvInv, SrvOutInv, NEW t \in SrvTxn, t.msg = srv.msg,
           NEW m \in {"2xx", "fail"}, SendMsg(t, m),
           stu \in {"invited", stu'},
           stu' = IF m = "2xx" THEN "accepted" ELSE "rejected"
    PROVE  SrvOutInv'
<1>1. m \in SrvMsgs /\ SrvTypeOK
  BY SrvNames DEF SrvInv
<1>2. /\ out' \in {out, out \cup {m}}
      /\ srv'.msg # NoMsg => srv'.msg \in out'
  BY <1>1, SentMessage DEF SrvOutInv
<1> QED
  BY <1>2 DEF SrvOutInv

(* Rows of the callback keep the message.                                  *)
LEMMA CallbackOut ==
    ASSUME SrvInv, SrvOutInv, SrvCbkTxnTimeout
    PROVE  SrvOutInv'
<1> DEFINE e == CountFirstInterval(TimerFired(srv))
           f == SrvOnTimer(TimerFired(srv), srv.timer)
<1>1. /\ stu' = stu
      /\ \/ /\ srv' = IF f.state = "TERMINATED" THEN ReleaseTransaction(f)
                      ELSE [f EXCEPT !.ud = FALSE]
            /\ Emit(NoMsg)
         \/ srv' = f /\ \E m \in SendToNetwork(f.ud, f.msg) : Emit(m)
         \/ srv' = e /\ Emit(NoMsg)
  BY SrvCbkCases
<1>2. srv \in SrvTxn
  BY DEF SrvInv, SrvObjInv
<1>3. e.msg = srv.msg
  BY <1>2, SMT DEF CountFirstInterval, TimerFired, SrvTxn, Txn
<1>4. f.msg = srv.msg
  BY <1>2, SMT DEF SrvOnTimer, ProceedingState_Timer_G_H_Timeout,
                   CompletedState_Timer_G_H_Timeout, Restart, StartTxnTimer,
                   CountFirstInterval, TimerFired, SrvTxn, Txn
<1>5. f \in SrvTxn
  <2>1. srv.pooled = TRUE /\ srv.timer # NoTimer
    BY <1>2, SrvBooleans, SrvCbkCases
  <2> QED
    BY <2>1, SrvOnTimerInv DEF TimeoutOutcome
<1> HIDE DEF e, f
<1>6. [f EXCEPT !.ud = FALSE].msg = srv.msg
  BY <1>4, <1>5, SrvClearUd
<1>7. ReleaseTransaction(f).msg = NoMsg
  BY DEF ReleaseTransaction, NewTxn
<1>8. CASE srv' = f /\ \E m \in SendToNetwork(f.ud, f.msg) : Emit(m)
  <2>1. PICK m : m \in {srv.msg, NoMsg} /\ Emit(m)
    BY <1>4, <1>8 DEF SendToNetwork
  <2>2. out' = out
    BY <2>1 DEF Emit, SrvOutInv
  <2> QED
    BY <1>1, <1>4, <1>8, <2>2 DEF SrvOutInv
<1>9. CASE Emit(NoMsg) /\ srv'.msg \in {srv.msg, NoMsg}
  BY <1>1, <1>9, QuietOut
<1> QED
  BY <1>1, <1>3, <1>6, <1>7, <1>8, <1>9

(* Every step keeps SrvOutInv.                                             *)
LEMMA SrvOutNext ==
    ASSUME SrvInv, SrvOutInv, [SrvNext]_srvVars
    PROVE  SrvOutInv'
<1>1. srv \in SrvTxn /\ SrvTimerInv(srv)
  BY DEF SrvInv, SrvObjInv
<1>2. StopTxnTimer(srv) \in SrvTxn /\ StopTxnTimer(srv).msg = srv.msg
  BY <1>1, SrvStop DEF Kept
<1>3. CASE IdleState_ReceiveInviteRequest
  <2>1. srv'.msg = NoMsg
    BY <1>3, SMT DEF IdleState_ReceiveInviteRequest, NewTxn
  <2> QED
    BY <1>3, <2>1, QuietOut DEF IdleState_ReceiveInviteRequest
<1>4. CASE RecvInviteAgain
  <2>1. PICK m : m \in {srv.msg, NoMsg} /\ Emit(m)
    BY <1>4 DEF RecvInviteAgain, SendToNetwork
  <2>2. out' = out
    BY <2>1 DEF Emit, SrvOutInv
  <2> QED
    BY <1>4, <2>2 DEF SrvOutInv, RecvInviteAgain
<1>5. CASE SendProvisional
  <2>1. SendMsg(NewSeries, "prov") /\ stu' = stu
    BY <1>5 DEF SendProvisional, ProceedingState_SendNon100ProvisionalResponse
  <2> QED
    BY <2>1, ResponseRecords, ProvisionalOut
<1>6. ASSUME NEW r \in 1 .. MaxRSeq, SendRpr(r) PROVE SrvOutInv'
  <2> DEFINE g == [StartTxnTimer(NewSeries, "G", T1) EXCEPT !.max = 64 * T1]
  <2>1. /\ stu' = stu /\ srv.state = "PROCEEDING"
        /\ SendMsg(g, "rpr") \/ SendRefused(NewSeries)
    BY <1>6 DEF SendRpr, ProceedingState_SendNon100ProvisionalResponse
  <2>2. g \in SrvTxn /\ g.msg = srv.msg
    BY <2>1, RprSeriesInv, ResponseRecords DEF SrvObjInv
  <2> HIDE DEF g
  <2> QED
    BY <2>1, <2>2, ResponseRecords, ProvisionalOut, QuietOut DEF SendRefused
<1>7. CASE SendFailure
  <2> DEFINE g == ProceedingState_SendFailureResponse
  <2>1. /\ stu = "invited" /\ srv.state = "PROCEEDING"
        /\ \/ SendMsg(g, "fail") /\ stu' = "rejected"
           \/ SendRefused(NewSeries) /\ stu' = stu
    BY <1>7 DEF SendFailure
  <2>2. g \in SrvTxn /\ g.msg = srv.msg
    BY <2>1, FailureSeriesInv, ResponseRecords DEF SrvObjInv
  <2> HIDE DEF g
  <2> QED
    BY <2>1, <2>2, ResponseRecords, FinalOut, QuietOut DEF SendRefused
<1>8. CASE Send2xx
  <2> DEFINE g == ProceedingState_Send2xxResponse
             t == [NewSeries EXCEPT !.state = "TERMINATED"]
  <2>1. /\ stu = "invited" /\ srv.state = "PROCEEDING" /\ stu' = "accepted"
        /\ \/ SendMsg(g, "2xx")
           \/ \E s \in SendToNetwork(TRUE, "2xx") :
                  Emit(s) /\ srv' = IF s = "2xx" THEN ReleaseTransaction(t) ELSE t
           \/ SendRefused(AbortTxn(t))
    BY <1>8 DEF Send2xx
  <2>2. g \in SrvTxn /\ g.msg = srv.msg
    BY <2>1, AcceptSeriesInv, ResponseRecords DEF SrvObjInv
  <2>3. t.msg = srv.msg
    BY ResponseRecords, SMT DEF SrvTxn, Txn
  <2> HIDE DEF g, t
  <2>4. ReleaseTransaction(t).msg = NoMsg /\ AbortTxn(t).msg = NoMsg
    BY DEF ReleaseTransaction, AbortTxn, NewTxn
  <2>5. CASE SendMsg(g, "2xx")
    BY <2>1, <2>2, <2>5, FinalOut
  <2>6. CASE \E s \in SendToNetwork(TRUE, "2xx") :
                 Emit(s) /\ srv' = IF s = "2xx" THEN ReleaseTransaction(t) ELSE t
    <3>1. \/ Emit("2xx") /\ srv' = ReleaseTransaction(t)
          \/ Emit(NoMsg) /\ srv' = t
      BY <2>6, SrvNames DEF SendToNetwork
    <3>2. ASSUME Emit("2xx"), srv' = ReleaseTransaction(t) PROVE SrvOutInv'
      <4>1. out' = out \cup {"2xx"} \/ out' = out
        BY <3>2 DEF Emit
      <4> QED
        BY <2>1, <2>4, <3>2, <4>1 DEF SrvOutInv
    <3> QED
      BY <2>1, <2>3, <3>1, <3>2, QuietOut
  <2>7. CASE SendRefused(AbortTxn(t))
    BY <2>1, <2>4, <2>7, QuietOut DEF SendRefused
  <2> QED
    BY <2>1, <2>5, <2>6, <2>7
<1>9. CASE Send2xxAgain
  <2>1. /\ stu = "accepted" /\ stu' = stu
        /\ \/ SendMsg(srv, "2xx")
           \/ /\ srv' = srv
              /\ \E s \in SendToNetwork(TRUE, "2xx") : Emit(s)
    BY <1>9 DEF Send2xxAgain
  <2>2. CASE SendMsg(srv, "2xx")
    BY <1>1, <2>1, <2>2, FinalOut
  <2>3. CASE srv' = srv /\ \E s \in SendToNetwork(TRUE, "2xx") : Emit(s)
    <3>1. out' = out \cup {"2xx"} \/ out' = out
      BY <2>3 DEF Emit, SendToNetwork
    <3> QED
      BY <2>1, <2>3, <3>1 DEF SrvOutInv
  <2> QED
    BY <2>1, <2>2, <2>3
<1>10. CASE RecvAck
  <2>1. Emit(NoMsg) /\ stu' = stu
    BY <1>10 DEF RecvAck
  <2>2. srv'.msg \in {srv.msg, NoMsg}
    <3>1. CASE AcceptedState_ReceiveAckRequest
      BY <1>1, <3>1, SrvSetAck DEF AcceptedState_ReceiveAckRequest, Kept
    <3>2. CASE CompletedState_ReceiveAckRequest
      <4> DEFINE u == StopTxnTimer(srv)
      <4>1. \/ srv' = [StartTxnTimer(u, "I", TimerI) EXCEPT !.state = "CONFIRMED"]
            \/ srv' = u
            \/ srv' = ReleaseTransaction(u)
        BY <3>2 DEF CompletedState_ReceiveAckRequest
      <4>2. u \in SrvTxn /\ u.msg = srv.msg
        BY <1>2
      <4> HIDE DEF u
      <4>3. [StartTxnTimer(u, "I", TimerI) EXCEPT !.state = "CONFIRMED"].msg = srv.msg
        BY <4>2, SMT DEF StartTxnTimer, SrvTxn, Txn
      <4>4. ReleaseTransaction(u).msg = NoMsg
        BY DEF ReleaseTransaction, NewTxn
      <4> QED
        BY <4>1, <4>2, <4>3, <4>4
    <3>3. CASE ConfirmedState_ReceiveAckRequest
      BY <3>3 DEF ConfirmedState_ReceiveAckRequest
    <3> QED
      BY <1>10, <3>1, <3>2, <3>3 DEF RecvAck
  <2> QED
    BY <2>1, <2>2, QuietOut
<1>11. ASSUME NEW r \in 1 .. MaxRSeq, RecvPrack(r) PROVE SrvOutInv'
  <2>1. Emit(NoMsg) /\ stu' = stu /\ srv' \in {srv, StopTxnTimer(srv)}
    BY <1>11 DEF RecvPrack, PrackMatches
  <2> QED
    BY <1>2, <2>1, QuietOut
<1>12. CASE SrvCbkTxnTimeout
  BY <1>12, CallbackOut
<1>13. CASE SrvTerminateTxn
  <2>1. srv'.msg = NoMsg
    BY <1>13 DEF SrvTerminateTxn, AbortTxn, ReleaseTransaction, NewTxn
  <2> QED
    BY <1>13, <2>1, QuietOut DEF SrvTerminateTxn
<1>14. CASE SrvOnRecvTranspError
  <2>1. srv'.msg = srv.msg
    BY <1>1, <1>14, SMT DEF SrvOnRecvTranspError, SrvTxn, Txn
  <2> QED
    BY <1>14, <2>1, QuietOut DEF SrvOnRecvTranspError
<1>15. CASE UNCHANGED srvVars
  BY <1>15 DEF srvVars, SrvOutInv
<1> QED
  BY <1>3, <1>4, <1>5, <1>6, <1>7, <1>8, <1>9, <1>10, <1>11, <1>12, <1>13, <1>14,
     <1>15 DEF SrvNext

(* What the network was ever handed as a final response is what the        *)
(* transaction user decided, and what a retransmission would send has been *)
(* sent before: no order of calls, timers and faults lets a 2xx follow a   *)
(* rejection or a failure response an acceptance.                          *)
THEOREM ServerSpeaksForUser == SrvSpec => []SrvOutInv
<1>1. SrvInit => SrvOutInv
  BY DEF SrvInit, SrvOutInv, NewTxn
<1>2. SrvInv /\ SrvOutInv /\ [SrvNext]_srvVars => SrvOutInv'
  BY SrvOutNext
<1> QED
  BY <1>1, <1>2, ServerInvariant, PTL DEF SrvSpec
-----------------------------------------------------------------------------
(* Retransmission and the wait for the PRACK, when no timer and no send    *)
(* fails.                                                                  *)

SrvCallsWork == Faults \cap {"timer", "net"} = {}

(* What RprPending says, and what it rests on: user data are cut only when *)
(* the user has been told, and there is no key before the INVITE.          *)
RprInv ==
    /\ stu = "none" => rkeys = {}
    /\ srv.state = "PROCEEDING" =>
          /\ srv.ud = TRUE \/ "rprTimeout" \in told
          /\ srv.timer = "G" => rkeys = {rseq} /\ rseq \notin pracked
          /\ rkeys # {} => srv.timer = "G" \/ "rprTimeout" \in told

(* A step that leads out of PROCEEDING, or is taken elsewhere.             *)
LEMMA RprElsewhere ==
    ASSUME srv'.state # "PROCEEDING", stu' # "none"
    PROVE  RprInv'
  BY DEF RprInv

(* What SendMsg leaves behind when no send fails.                          *)
LEMMA SentOrGone ==
    ASSUME SrvCallsWork, SrvTypeOK, NEW t \in SrvTxn, NEW m \in SrvMsgs, SendMsg(t, m)
    PROVE  \/ /\ ok' = TRUE /\ srv'.state = t.state /\ srv'.pooled = t.pooled
              /\ srv'.timer = t.timer /\ srv'.ud = t.ud
           \/ ok' = FALSE /\ srv'.state = "TERMINATED" /\ srv'.pooled = FALSE
<1>1. \/ ok' = TRUE /\ srv' = UpdateTranspInfo(t, m, tp)
      \/ ok' = FALSE /\ srv' = AbortTxn(t)
  BY DEF SendMsg, SendToNetwork, SrvCallsWork
<1>2. CASE ok' = TRUE /\ srv' = UpdateTranspInfo(t, m, tp)
  <2> DEFINE u == UpdateTranspInfo(t, m, tp)
  <2>1. /\ u.state = t.state /\ u.pooled = t.pooled
        /\ u.timer = t.timer /\ u.ud = t.ud
    BY SrvRecord DEF SrvTypeOK
  <2>2. srv' = u
    BY <1>2
  <2> HIDE DEF u
  <2> QED
    BY <1>2, <2>1, <2>2
<1>3. CASE ok' = FALSE /\ srv' = AbortTxn(t)
  <2> DEFINE u == AbortTxn(t)
  <2>1. u.state = "TERMINATED" /\ u.pooled = FALSE
    BY SMT DEF AbortTxn, ReleaseTransaction, NewTxn
  <2>2. srv' = u
    BY <1>3
  <2> HIDE DEF u
  <2> QED
    BY <1>3, <2>1, <2>2
<1> QED
  BY <1>1, <1>2, <1>3

(* A reliable provisional response: its key, its number and its series     *)
(* begin together.                                                         *)
LEMMA SendRprKeeps ==
    ASSUME SrvCallsWork, SrvInv, RprInv, NEW r \in 1 .. MaxRSeq, SendRpr(r)
    PROVE  RprInv'
<1> DEFINE t == [StartTxnTimer(NewSeries, "G", T1) EXCEPT !.max = 64 * T1]
<1>1. /\ r = rseq + 1 /\ stu = "invited" /\ srv.state = "PROCEEDING"
      /\ rkeys' = IF srv'.pooled THEN {r} ELSE {}
      /\ rseq' = IF ok' THEN r ELSE rseq
      /\ stu' = stu /\ pracked' = pracked /\ Tell(NoNews)
      /\ SendMsg(t, "rpr")
  BY SMT DEF SendRpr, ProceedingState_SendNon100ProvisionalResponse, SrvCallsWork
<1>2. /\ t \in SrvTxn /\ t.pooled = TRUE /\ t.state = "PROCEEDING" /\ t.timer = "G"
  BY <1>1, RprSeriesInv DEF SrvObjInv
<1>3. t.ud = srv.ud
  <2> DEFINE n == NewSeries
  <2>1. n \in SrvTxn /\ n.ud = srv.ud
    BY NewSeriesInv DEF Kept
  <2> HIDE DEF n
  <2>2. [StartTxnTimer(n, "G", T1) EXCEPT !.max = 64 * T1].ud = n.ud
    BY <2>1, SMT DEF StartTxnTimer, SrvTxn, Txn
  <2> QED
    BY <2>1, <2>2 DEF n
<1> HIDE DEF t
<1>4. SrvTypeOK /\ "rpr" \in SrvMsgs
  BY SrvNames DEF SrvInv
<1>5. \/ ok' = TRUE /\ srv'.pooled = TRUE /\ srv'.timer = "G" /\ srv'.ud = srv.ud
      \/ srv'.state = "TERMINATED"
  BY <1>1, <1>2, <1>3, <1>4, SentOrGone
<1>6. CASE srv'.state = "TERMINATED"
  BY <1>1, <1>6, RprElsewhere
<1>7. CASE ok' = TRUE /\ srv'.pooled = TRUE /\ srv'.timer = "G" /\ srv'.ud = srv.ud
  <2>1. rkeys' = {rseq'} /\ rseq' = r
    BY <1>1, <1>7
  <2>2. r \notin pracked
    BY <1>1, <1>4 DEF SrvInv, SrvKeyInv, SrvTypeOK
  <2>3. told' = told
    BY <1>1 DEF Tell
  <2> QED
    BY <1>1, <1>7, <2>1, <2>2, <2>3 DEF RprInv
<1> QED
  BY <1>5, <1>6, <1>7

(* An unreliable one ends the wait before it.                              *)
LEMMA SendProvisionalKeeps ==
    ASSUME SrvCallsWork, SrvInv, RprInv, SendProvisional
    PROVE  RprInv'
<1>1. /\ stu = "invited" /\ srv.state = "PROCEEDING" /\ rkeys' = {}
      /\ stu' = stu /\ Tell(NoNews) /\ SendMsg(NewSeries, "prov")
  BY DEF SendProvisional, ProceedingState_SendNon100ProvisionalResponse
<1>2. SrvTypeOK /\ "prov" \in SrvMsgs
  BY SrvNames DEF SrvInv
<1>3. NewSeries \in SrvTxn /\ NewSeries.timer = NoTimer /\ NewSeries.ud = srv.ud
  BY NewSeriesInv DEF Untimed, Kept
<1>4. \/ srv'.timer # "G" /\ srv'.ud = srv.ud
      \/ srv'.state = "TERMINATED"
  BY <1>1, <1>2, <1>3, SentOrGone, SrvNames
<1>5. told' = told
  BY <1>1 DEF Tell
<1> QED
  BY <1>1, <1>4, <1>5 DEF RprInv

(* A final response leads out of PROCEEDING.                               *)
LEMMA FinalKeeps ==
    ASSUME SrvCallsWork, SrvInv, RprInv, SendFailure \/ Send2xx \/ Send2xxAgain
    PROVE  RprInv'
<1>1. SrvTypeOK /\ "fail" \in SrvMsgs /\ "2xx" \in SrvMsgs
  BY SrvNames DEF SrvInv
<1>2. CASE SendFailure
  <2> DEFINE g == ProceedingState_SendFailureResponse
  <2>1. srv.state = "PROCEEDING" /\ stu' = "rejected" /\ SendMsg(g, "fail")
        /\ stu = "invited"
    BY <1>2 DEF SendFailure, SrvCallsWork
  <2>2. g \in SrvTxn /\ g.state = "COMPLETED"
    BY <2>1, FailureSeriesInv DEF SrvObjInv
  <2> HIDE DEF g
  <2> QED
    BY <1>1, <2>1, <2>2, SentOrGone, RprElsewhere
<1>3. CASE Send2xx
  <2> DEFINE g == ProceedingState_Send2xxResponse
  <2>1. srv.state = "PROCEEDING" /\ stu' = "accepted" /\ SendMsg(g, "2xx")
    BY <1>3 DEF Send2xx, SrvCallsWork
  <2>2. g \in SrvTxn /\ g.state = "ACCEPTED"
    BY <2>1, AcceptSeriesInv DEF SrvObjInv
  <2> HIDE DEF g
  <2> QED
    BY <1>1, <2>1, <2>2, SentOrGone, RprElsewhere
<1>4. CASE Send2xxAgain
  <2>1. /\ stu' = "accepted" /\ srv \in SrvTxn
        /\ \/ srv.state = "ACCEPTED" /\ SendMsg(srv, "2xx")
           \/ srv.pooled # TRUE /\ srv' = srv
    BY <1>4 DEF Send2xxAgain, SrvInv, SrvObjInv
  <2>2. srv'.state # "PROCEEDING"
    BY <1>1, <2>1, SentOrGone, InPool
  <2> QED
    BY <2>1, <2>2, RprElsewhere
<1> QED
  BY <1>2, <1>3, <1>4

(* The PRACK: the series it answers, or none.                              *)
LEMMA RecvPrackKeeps ==
    ASSUME SrvInv, RprInv, NEW r \in 1 .. MaxRSeq, RecvPrack(r)
    PROVE  RprInv'
<1>1. /\ rseq' = rseq /\ stu' = stu
      /\ srv' = IF r \in rkeys THEN StopTxnTimer(srv) ELSE srv
      /\ rkeys' = IF r \in rkeys THEN {} ELSE rkeys
      /\ pracked' = IF r \in rkeys \/ rkeys = {} THEN pracked \cup {r} ELSE pracked
      /\ told \subseteq told'
  BY DEF RecvPrack, PrackMatches, Tell
<1>2. /\ StopTxnTimer(srv).timer # "G"
      /\ StopTxnTimer(srv).state = srv.state /\ StopTxnTimer(srv).ud = srv.ud
  BY SrvStop, SrvNames DEF SrvInv, SrvObjInv, Untimed, Kept
<1>3. CASE r \in rkeys
  BY <1>1, <1>2, <1>3 DEF RprInv
<1>4. CASE rkeys = {}
  BY <1>1, <1>4 DEF RprInv
<1>5. CASE r \notin rkeys /\ rkeys # {}
  BY <1>1, <1>5 DEF RprInv
<1> QED
  BY <1>3, <1>4, <1>5

(* In PROCEEDING the callback starts the next interval or gives up.        *)
LEMMA NextIntervalOrOver ==
    ASSUME NEW t \in SrvTxn
    PROVE  LET f == ProceedingState_Timer_G_H_Timeout(TimerFired(t)) IN
           (f.rprTerminated = TRUE \/ f.timer = "G") /\ f.ud = t.ud
  BY SMT DEF ProceedingState_Timer_G_H_Timeout, Restart, StartTxnTimer,
             CountFirstInterval, TimerFired, SrvTxn, Txn

(* The callback: the series goes on, or the user is told.                  *)
LEMMA CallbackKeeps ==
    ASSUME SrvCallsWork, SrvInv, RprInv, SrvCbkTxnTimeout
    PROVE  RprInv'
<1> DEFINE f == SrvOnTimer(TimerFired(srv), srv.timer)
<1>1. /\ srv.pooled /\ srv.timer # NoTimer
      /\ UNCHANGED <<rkeys, stu, rseq, pracked>>
      /\ \/ /\ f.state = "TERMINATED" \/ f.rprTerminated
            /\ srv' = IF f.state = "TERMINATED" THEN ReleaseTransaction(f)
                      ELSE [f EXCEPT !.ud = FALSE]
            /\ Expired(srv.timer, f.state)
         \/ /\ ~(f.state = "TERMINATED" \/ f.rprTerminated)
            /\ srv' = f
            /\ Tell(NoNews)
  BY DEF SrvCbkTxnTimeout, SrvCallsWork
<1>2. srv \in SrvTxn /\ srv.pooled = TRUE /\ SrvTimerInv(srv) /\ stu # "none"
  BY <1>1, SrvBooleans DEF SrvInv, SrvObjInv
<1>3. TimeoutOutcome(f)
  BY <1>1, <1>2, SrvOnTimerInv
<1>4. srv.state = "PROCEEDING" =>
         srv.timer = "G" /\ (f.rprTerminated = TRUE \/ f.timer = "G") /\ f.ud = srv.ud
  <2> SUFFICES ASSUME srv.state = "PROCEEDING"
               PROVE  srv.timer = "G" /\ (f.rprTerminated = TRUE \/ f.timer = "G")
                      /\ f.ud = srv.ud
    OBVIOUS
  <2>1. srv.timer = "G" /\ TimerFired(srv).state = "PROCEEDING"
    <3>1. srv.timer = "G"
      BY <1>1, <1>2 DEF SrvTimerInv
    <3>2. TimerFired(srv).state = srv.state
      BY <1>2, SMT DEF TimerFired, SrvTxn, Txn
    <3> QED
      BY <3>1, <3>2
  <2>2. f = ProceedingState_Timer_G_H_Timeout(TimerFired(srv))
    BY <2>1, SrvTimerRows
  <2> QED
    BY <1>2, <2>1, <2>2, NextIntervalOrOver
<1> HIDE DEF f
<1>5. f \in SrvTxn /\ (f.state = "PROCEEDING" => srv.state = "PROCEEDING")
  BY <1>3 DEF TimeoutOutcome
<1>6. told \subseteq told'
  BY <1>1 DEF Tell, Expired
<1>7. CASE f.state = "TERMINATED"
  <2>1. srv' = ReleaseTransaction(f)
    BY <1>1, <1>5, <1>7, SrvBooleans
  <2>2. srv'.state = "TERMINATED"
    BY <2>1, SMT DEF ReleaseTransaction, NewTxn
  <2> QED
    BY <1>1, <1>2, <2>2, RprElsewhere
<1>8. CASE f.state # "TERMINATED" /\ f.rprTerminated = TRUE
  <2>1. srv' = [f EXCEPT !.ud = FALSE] /\ Expired(srv.timer, f.state)
    BY <1>1, <1>8
  <2>2. srv'.state = f.state /\ srv'.timer = f.timer
    BY <1>5, <2>1, SrvClearUd
  <2>3. srv'.state = "PROCEEDING" => "rprTimeout" \in told'
    <3> SUFFICES ASSUME srv'.state = "PROCEEDING" PROVE "rprTimeout" \in told'
      OBVIOUS
    <3>1. srv.state = "PROCEEDING" /\ srv.timer = "G"
      BY <1>4, <1>5, <2>2
    <3>2. CASE srv.ud = TRUE
      BY <1>8, <2>1, <3>1, <3>2 DEF Expired, Tell, NoNews
    <3> QED
      BY <1>6, <3>1, <3>2 DEF RprInv
  <2>4. srv'.state = "PROCEEDING" /\ srv'.timer = "G" =>
           rkeys' = {rseq'} /\ rseq' \notin pracked'
    BY <1>1, <1>4, <1>5, <2>2 DEF RprInv
  <2> QED
    BY <1>1, <1>2, <2>3, <2>4 DEF RprInv
<1>9. CASE f.state # "TERMINATED" /\ f.rprTerminated # TRUE
  <2>1. srv' = f
    BY <1>1, <1>5, <1>9, SrvBooleans
  <2> QED
    BY <1>1, <1>2, <1>4, <1>5, <1>6, <1>9, <2>1 DEF RprInv
<1> QED
  BY <1>7, <1>8, <1>9

(* Every step keeps RprInv.                                                *)
LEMMA RprNext ==
    ASSUME SrvCallsWork, SrvInv, SrvInv', RprInv, [SrvNext]_srvVars
    PROVE  RprInv'
<1>1. srv \in SrvTxn
  BY DEF SrvInv, SrvObjInv
<1>2. CASE IdleState_ReceiveInviteRequest
  <2>1. srv'.ud = TRUE /\ srv'.timer = NoTimer
    BY <1>2, SMT DEF IdleState_ReceiveInviteRequest, NewTxn
  <2> QED
    BY <1>2, <2>1, SrvNames DEF IdleState_ReceiveInviteRequest, RprInv
<1>3. CASE RecvInviteAgain
  BY <1>3 DEF RecvInviteAgain, Tell, RprInv
<1>4. CASE SendProvisional
  BY <1>4, SendProvisionalKeeps
<1>5. ASSUME NEW r \in 1 .. MaxRSeq, SendRpr(r) PROVE RprInv'
  BY <1>5, SendRprKeeps
<1>6. CASE SendFailure \/ Send2xx \/ Send2xxAgain
  BY <1>6, FinalKeeps
<1>7. CASE RecvAck
  <2>1. srv.pooled /\ stu' = stu
    BY <1>7 DEF RecvAck
  <2>2. stu # "none"
    BY <2>1 DEF SrvInv
  <2>3. srv'.state # "PROCEEDING"
    <3>1. CASE AcceptedState_ReceiveAckRequest
      BY <1>1, <3>1, SrvSetAck DEF AcceptedState_ReceiveAckRequest, Kept
    <3>2. CASE CompletedState_ReceiveAckRequest
      BY <3>2, CompletedAckInv
    <3>3. CASE ConfirmedState_ReceiveAckRequest
      BY <3>3 DEF ConfirmedState_ReceiveAckRequest
    <3> QED
      BY <1>7, <3>1, <3>2, <3>3 DEF RecvAck
  <2> QED
    BY <2>1, <2>2, <2>3, RprElsewhere
<1>8. ASSUME NEW r \in 1 .. MaxRSeq, RecvPrack(r) PROVE RprInv'
  BY <1>8, RecvPrackKeeps
<1>9. CASE SrvCbkTxnTimeout
  BY <1>9, CallbackKeeps
<1>10. CASE SrvTerminateTxn
  <2>1. srv'.state = "TERMINATED" /\ rkeys' = {}
    BY <1>10 DEF SrvTerminateTxn, AbortTxn, ReleaseTransaction, NewTxn
  <2> QED
    BY <2>1 DEF RprInv
<1>11. CASE SrvOnRecvTranspError
  <2>1. srv'.state = srv.state /\ srv'.timer = srv.timer /\ srv'.ud = srv.ud
    BY <1>1, <1>11, SMT DEF SrvOnRecvTranspError, SrvTxn, Txn
  <2> QED
    BY <1>11, <2>1 DEF SrvOnRecvTranspError, Tell, RprInv
<1>12. CASE UNCHANGED srvVars
  BY <1>12 DEF srvVars, RprInv
<1> QED
  BY <1>2, <1>3, <1>4, <1>5, <1>6, <1>7, <1>8, <1>9, <1>10, <1>11, <1>12 DEF SrvNext

(* A response that is sent again in PROCEEDING is the last one and still   *)
(* waits for its PRACK, and one whose PRACK is waited for is sent again    *)
(* until the user is told of the timeout: when the calls out of the stack  *)
(* succeed, but for OnSendTransp, and whatever the transport reports.      *)
THEOREM ServerRprPending ==
    ASSUME SrvCallsWork
    PROVE  SrvSpec => []RprPending
<1>1. SrvInit => RprInv
  BY DEF SrvInit, RprInv, NewTxn
<1>2. SrvInv /\ SrvInv' /\ RprInv /\ [SrvNext]_srvVars => RprInv'
  BY RprNext
<1>3. RprInv => RprPending
  BY DEF RprInv, RprPending
<1> QED
  BY <1>1, <1>2, <1>3, ServerInvariant, PTL DEF SrvSpec
=============================================================================
