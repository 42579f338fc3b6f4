---------------------------- MODULE SipTxnProofs ----------------------------
(***************************************************************************)
(* Lemmas about the operators of SipTxn.                                   *)
(***************************************************************************)
EXTENDS SipTxn, TLAPS

-----------------------------------------------------------------------------
(* Powers of two.  The provers evaluate 2 ^ n for a literal n only, so the *)
(* table is written out once and used without its definition.              *)

(* The values of SIP_ONE << n that fit below the sign bit.                 *)
LEMMA PowerValues ==
    /\ PowerOf2[0] = 1 /\ PowerOf2[1] = 2 /\ PowerOf2[2] = 4
    /\ PowerOf2[3] = 8 /\ PowerOf2[4] = 16 /\ PowerOf2[5] = 32
    /\ PowerOf2[6] = 64 /\ PowerOf2[7] = 128 /\ PowerOf2[8] = 256
    /\ PowerOf2[9] = 512 /\ PowerOf2[10] = 1024 /\ PowerOf2[11] = 2048
    /\ PowerOf2[12] = 4096 /\ PowerOf2[13] = 8192 /\ PowerOf2[14] = 16384
    /\ PowerOf2[15] = 32768 /\ PowerOf2[16] = 65536 /\ PowerOf2[17] = 131072
    /\ PowerOf2[18] = 262144 /\ PowerOf2[19] = 524288 /\ PowerOf2[20] = 1048576
    /\ PowerOf2[21] = 2097152 /\ PowerOf2[22] = 4194304 /\ PowerOf2[23] = 8388608
    /\ PowerOf2[24] = 16777216 /\ PowerOf2[25] = 33554432 /\ PowerOf2[26] = 67108864
    /\ PowerOf2[27] = 134217728 /\ PowerOf2[28] = 268435456 /\ PowerOf2[29] = 536870912
    /\ PowerOf2[30] = 1073741824
  BY SMT DEF PowerOf2

(* Every shift is positive.                                                *)
LEMMA PowerType ==
    ASSUME NEW n \in 0 .. 30
    PROVE  PowerOf2[n] \in Nat \ {0}
  BY PowerValues, SMT

(* One more shift doubles the interval.                                    *)
LEMMA PowerDoubles ==
    ASSUME NEW n \in 0 .. 29
    PROVE  PowerOf2[n + 1] = 2 * PowerOf2[n]
  BY PowerValues, SMT

(* The bound on the timer values, without its digits.                      *)
LEMMA MaxTimerValueType == MaxTimerValue \in Nat
  BY SMT DEF MaxTimerValue

(* The timer values are positive numbers.                                  *)
LEMMA TimerType == T1 \in Nat \ {0} /\ T2 \in Nat \ {0}
  BY TimerAssumption, MaxTimerValueType

(* A factor of a product is not larger than the product.                   *)
LEMMA ProductBound ==
    ASSUME NEW x \in Nat, NEW y \in Nat \ {0}, NEW z \in Nat, x * y < z
    PROVE  x < z
  BY SMT

(* A multiple of T1 below the largest timer value comes of a shift that    *)
(* leaves room for the next one.                                           *)
LEMMA PowerBounded ==
    ASSUME NEW n \in 0 .. 30, (PowerOf2[n] - 1) * T1 < MaxTimerValue
    PROVE  n < 29
<1>1. PowerOf2[n] - 1 \in Nat /\ T1 \in Nat \ {0}
  BY PowerType, TimerType, SMT
<1>2. PowerOf2[n] - 1 < MaxTimerValue
  BY <1>1, MaxTimerValueType, ProductBound
<1> QED
  BY <1>2, PowerValues, SMT DEF MaxTimerValue

-----------------------------------------------------------------------------
(* Transaction records.  The provers handle one updated field at a time,   *)
(* so every operator is taken apart once, here.                            *)

(* An update of one field with a value of its type keeps the type.         *)
LEMMA TxnUpdate ==
    ASSUME NEW S, NEW K, NEW M, NEW t \in Txn(S, K, M)
    PROVE  /\ \A x \in S : [t EXCEPT !.state = x] \in Txn(S, K, M)
           /\ \A x \in BOOLEAN : [t EXCEPT !.pooled = x] \in Txn(S, K, M)
           /\ \A x \in K \cup {NoTimer} : [t EXCEPT !.timer = x] \in Txn(S, K, M)
           /\ \A x \in Nat : [t EXCEPT !.running = x] \in Txn(S, K, M)
           /\ \A x \in Nat : [t EXCEPT !.cur = x] \in Txn(S, K, M)
           /\ \A x \in Nat : [t EXCEPT !.max = x] \in Txn(S, K, M)
           /\ \A x \in Nat : [t EXCEPT !.expired = x] \in Txn(S, K, M)
           /\ \A x \in Nat : [t EXCEPT !.count = x] \in Txn(S, K, M)
           /\ \A x \in M \cup {NoMsg} : [t EXCEPT !.msg = x] \in Txn(S, K, M)
           /\ \A x \in Protocols \cup {"INVALID"} :
                  [t EXCEPT !.proto = x] \in Txn(S, K, M)
           /\ \A x \in BOOLEAN : [t EXCEPT !.ud = x] \in Txn(S, K, M)
           /\ \A x \in BOOLEAN : [t EXCEPT !.rprTerminated = x] \in Txn(S, K, M)
           /\ \A x \in BOOLEAN : [t EXCEPT !.ackReceived = x] \in Txn(S, K, M)
           /\ \A x \in Nat : [t EXCEPT !.elapsed = x] \in Txn(S, K, M)
<1>1. \A x \in S : [t EXCEPT !.state = x] \in Txn(S, K, M)
  BY SMT DEF Txn
<1>2. \A x \in BOOLEAN : [t EXCEPT !.pooled = x] \in Txn(S, K, M)
  BY SMT DEF Txn
<1>3. \A x \in K \cup {NoTimer} : [t EXCEPT !.timer = x] \in Txn(S, K, M)
  BY SMT DEF Txn
<1>4. \A x \in Nat : [t EXCEPT !.running = x] \in Txn(S, K, M)
  BY SMT DEF Txn
<1>5. \A x \in Nat : [t EXCEPT !.cur = x] \in Txn(S, K, M)
  BY SMT DEF Txn
<1>6. \A x \in Nat : [t EXCEPT !.max = x] \in Txn(S, K, M)
  BY SMT DEF Txn
<1>7. \A x \in Nat : [t EXCEPT !.expired = x] \in Txn(S, K, M)
  BY SMT DEF Txn
<1>8. \A x \in Nat : [t EXCEPT !.count = x] \in Txn(S, K, M)
  BY SMT DEF Txn
<1>9. \A x \in M \cup {NoMsg} : [t EXCEPT !.msg = x] \in Txn(S, K, M)
  BY SMT DEF Txn
<1>10. \A x \in Protocols \cup {"INVALID"} : [t EXCEPT !.proto = x] \in Txn(S, K, M)
  BY SMT DEF Txn
<1>11. \A x \in BOOLEAN : [t EXCEPT !.ud = x] \in Txn(S, K, M)
  BY SMT DEF Txn
<1>12. \A x \in Nat : [t EXCEPT !.elapsed = x] \in Txn(S, K, M)
  BY SMT DEF Txn
<1>13. \A x \in BOOLEAN : [t EXCEPT !.rprTerminated = x] \in Txn(S, K, M)
  BY SMT DEF Txn
<1>14. \A x \in BOOLEAN : [t EXCEPT !.ackReceived = x] \in Txn(S, K, M)
  BY SMT DEF Txn
<1> QED
  BY <1>1, <1>2, <1>3, <1>4, <1>5, <1>6, <1>7, <1>8, <1>9, <1>10, <1>11, <1>12,
     <1>13, <1>14

(* A new transaction has the type whatever its machine.                    *)
LEMMA NewTxnType ==
    ASSUME NEW S, NEW K, NEW M, "IDLE" \in S
    PROVE  NewTxn \in Txn(S, K, M)
  BY SMT DEF NewTxn, Txn

(* StartTxnTimer: the started timer is the one the transaction denotes.    *)
LEMMA StartTxnTimerLemma ==
    ASSUME NEW S, NEW K, NEW M, NEW t \in Txn(S, K, M), NEW type \in K, NEW d \in Nat
    PROVE  LET r == StartTxnTimer(t, type, d) IN
           /\ r \in Txn(S, K, M)
           /\ r.timer = type /\ r.cur = d /\ r.running = t.running + 1
           /\ r.state = t.state /\ r.pooled = t.pooled /\ r.max = t.max
           /\ r.expired = t.expired /\ r.count = t.count /\ r.msg = t.msg
           /\ r.proto = t.proto /\ r.ud = t.ud /\ r.elapsed = t.elapsed
<1> DEFINE t1 == [t EXCEPT !.timer = type]
           t2 == [t1 EXCEPT !.cur = d]
           t3 == [t2 EXCEPT !.running = @ + 1]
<1>1. t1 \in Txn(S, K, M)
  BY TxnUpdate
<1>2. t2 \in Txn(S, K, M)
  <2> HIDE DEF t1
  <2> QED BY <1>1, TxnUpdate
<1>3. t3 \in Txn(S, K, M)
  <2> HIDE DEF t2
  <2>1. t2.running + 1 \in Nat
    BY <1>2, SMT DEF Txn
  <2> QED BY <1>2, <2>1, TxnUpdate
<1>4. StartTxnTimer(t, type, d) = t3
  BY DEF StartTxnTimer
<1>5. LET r == StartTxnTimer(t, type, d) IN
           /\ r.timer = type /\ r.cur = d /\ r.running = t.running + 1
           /\ r.state = t.state /\ r.pooled = t.pooled /\ r.max = t.max
           /\ r.expired = t.expired /\ r.count = t.count /\ r.msg = t.msg
           /\ r.proto = t.proto /\ r.ud = t.ud /\ r.elapsed = t.elapsed
  BY SMT DEF StartTxnTimer, Txn
<1> QED
  BY <1>3, <1>4, <1>5

(* TimerFired: the expired timer runs no more and its time has passed.      *)
LEMMA TimerFiredLemma ==
    ASSUME NEW S, NEW K, NEW M, NEW t \in Txn(S, K, M),
           t.running >= 1
    PROVE  LET r == TimerFired(t) IN
           /\ r \in Txn(S, K, M)
           /\ r.timer = NoTimer /\ r.running = t.running - 1
           /\ r.elapsed = t.elapsed + t.cur
           /\ r.state = t.state /\ r.pooled = t.pooled /\ r.cur = t.cur
           /\ r.max = t.max /\ r.expired = t.expired /\ r.count = t.count
           /\ r.msg = t.msg /\ r.proto = t.proto /\ r.ud = t.ud
<1> DEFINE t1 == [t EXCEPT !.timer = NoTimer]
           t2 == [t1 EXCEPT !.running = @ - 1]
           t3 == [t2 EXCEPT !.elapsed = @ + t.cur]
<1>1. t1 \in Txn(S, K, M)
  <2> QED BY TxnUpdate
<1>2. t2 \in Txn(S, K, M)
  <2>1. t1.running - 1 \in Nat
    BY SMT DEF Txn
  <2> HIDE DEF t1
  <2> QED BY <1>1, <2>1, TxnUpdate
<1>3. t3 \in Txn(S, K, M)
  <2> HIDE DEF t2
  <2>1. t2.elapsed + t.cur \in Nat
    BY <1>2, SMT DEF Txn
  <2> QED BY <1>2, <2>1, TxnUpdate
<1>4. TimerFired(t) = t3
  BY DEF TimerFired
<1>5. LET r == TimerFired(t) IN
           /\ r.timer = NoTimer /\ r.running = t.running - 1
           /\ r.elapsed = t.elapsed + t.cur
           /\ r.state = t.state /\ r.pooled = t.pooled /\ r.cur = t.cur
           /\ r.max = t.max /\ r.expired = t.expired /\ r.count = t.count
           /\ r.msg = t.msg /\ r.proto = t.proto /\ r.ud = t.ud
  BY SMT DEF TimerFired, Txn
<1> QED
  BY <1>3, <1>4, <1>5

(* UpdateTranspInfo: the message is what a retransmission sends.            *)
LEMMA UpdateTranspInfoLemma ==
    ASSUME NEW S, NEW K, NEW M, NEW t \in Txn(S, K, M),
           NEW m \in M, NEW p \in Protocols \cup {"INVALID"}
    PROVE  LET r == UpdateTranspInfo(t, m, p) IN
           /\ r \in Txn(S, K, M)
           /\ r.msg = m /\ r.proto = p
           /\ r.state = t.state /\ r.pooled = t.pooled /\ r.timer = t.timer
           /\ r.running = t.running /\ r.cur = t.cur /\ r.max = t.max
           /\ r.expired = t.expired /\ r.count = t.count /\ r.ud = t.ud
           /\ r.elapsed = t.elapsed
<1> DEFINE t1 == [t EXCEPT !.msg = m]
           t2 == [t1 EXCEPT !.proto = p]
<1>1. t1 \in Txn(S, K, M)
  <2> QED BY TxnUpdate
<1>2. t2 \in Txn(S, K, M)
  <2> HIDE DEF t1
  <2> QED BY <1>1, TxnUpdate
<1>3. UpdateTranspInfo(t, m, p) = t2
  BY DEF UpdateTranspInfo
<1>4. LET r == UpdateTranspInfo(t, m, p) IN
           /\ r.msg = m /\ r.proto = p
           /\ r.state = t.state /\ r.pooled = t.pooled /\ r.timer = t.timer
           /\ r.running = t.running /\ r.cur = t.cur /\ r.max = t.max
           /\ r.expired = t.expired /\ r.count = t.count /\ r.ud = t.ud
           /\ r.elapsed = t.elapsed
  BY SMT DEF UpdateTranspInfo, Txn
<1> QED
  BY <1>2, <1>3, <1>4

(* StopTxnTimer: no timer runs, and none is counted twice.                 *)
LEMMA StopTxnTimerLemma ==
    ASSUME NEW S, NEW K, NEW M, NEW t \in Txn(S, K, M),
           t.timer # NoTimer => t.running >= 1
    PROVE  LET r == StopTxnTimer(t) IN
           /\ r \in Txn(S, K, M)
           /\ r.timer = NoTimer
           /\ r.running = IF t.timer = NoTimer THEN t.running ELSE t.running - 1
           /\ r.state = t.state /\ r.pooled = t.pooled /\ r.cur = t.cur
           /\ r.max = t.max /\ r.expired = t.expired /\ r.count = t.count
           /\ r.msg = t.msg /\ r.proto = t.proto /\ r.ud = t.ud
           /\ r.elapsed = t.elapsed
<1>1. CASE t.timer = NoTimer
  BY <1>1 DEF StopTxnTimer
<1>2. CASE t.timer # NoTimer
  <2> DEFINE t1 == [t EXCEPT !.timer = NoTimer]
             t2 == [t1 EXCEPT !.running = @ - 1]
  <2>1. t1 \in Txn(S, K, M)
    BY TxnUpdate
  <2>2. t1.running - 1 \in Nat
    BY <1>2, SMT DEF Txn
  <2>3. t2 \in Txn(S, K, M)
    <3> HIDE DEF t1
    <3> QED BY <2>1, <2>2, TxnUpdate
  <2>4. StopTxnTimer(t) = t2
    BY <1>2 DEF StopTxnTimer
  <2>5. LET r == StopTxnTimer(t) IN
           /\ r.timer = NoTimer /\ r.running = t.running - 1
           /\ r.state = t.state /\ r.pooled = t.pooled /\ r.cur = t.cur
           /\ r.max = t.max /\ r.expired = t.expired /\ r.count = t.count
           /\ r.msg = t.msg /\ r.proto = t.proto /\ r.ud = t.ud
           /\ r.elapsed = t.elapsed
    BY <1>2, SMT DEF StopTxnTimer, Txn
  <2> QED
    BY <1>2, <2>3, <2>4, <2>5
<1> QED
  BY <1>1, <1>2

(* InitRetransmissionInfo: the accounting of the last series is gone.      *)
LEMMA InitRetransmissionInfoLemma ==
    ASSUME NEW S, NEW K, NEW M, NEW t \in Txn(S, K, M)
    PROVE  LET r == InitRetransmissionInfo(t) IN
           /\ r \in Txn(S, K, M)
           /\ r.count = 0 /\ r.max = 0 /\ r.expired = 0 /\ r.cur = 0
           /\ r.elapsed = 0
           /\ r.state = t.state /\ r.pooled = t.pooled /\ r.timer = t.timer
           /\ r.running = t.running /\ r.msg = t.msg /\ r.proto = t.proto
           /\ r.ud = t.ud
<1> DEFINE t1 == [t EXCEPT !.count = 0]
           t2 == [t1 EXCEPT !.max = 0]
           t3 == [t2 EXCEPT !.expired = 0]
           t4 == [t3 EXCEPT !.cur = 0]
           t5 == [t4 EXCEPT !.elapsed = 0]
<1>1. t1 \in Txn(S, K, M)
  BY TxnUpdate
<1>2. t2 \in Txn(S, K, M)
  <2> HIDE DEF t1
  <2> QED BY <1>1, TxnUpdate
<1>3. t3 \in Txn(S, K, M)
  <2> HIDE DEF t2
  <2> QED BY <1>2, TxnUpdate
<1>4. t4 \in Txn(S, K, M)
  <2> HIDE DEF t3
  <2> QED BY <1>3, TxnUpdate
<1>5. t5 \in Txn(S, K, M)
  <2> HIDE DEF t4
  <2> QED BY <1>4, TxnUpdate
<1>6. InitRetransmissionInfo(t) = t5
  BY DEF InitRetransmissionInfo
<1>7. LET r == InitRetransmissionInfo(t) IN
           /\ r.count = 0 /\ r.max = 0 /\ r.expired = 0 /\ r.cur = 0
           /\ r.elapsed = 0
           /\ r.state = t.state /\ r.pooled = t.pooled /\ r.timer = t.timer
           /\ r.running = t.running /\ r.msg = t.msg /\ r.proto = t.proto
           /\ r.ud = t.ud
  BY SMT DEF InitRetransmissionInfo, Txn
<1> QED
  BY <1>5, <1>6, <1>7

(* CountFirstInterval changes the accounting only.                         *)
LEMMA CountFirstIntervalLemma ==
    ASSUME NEW S, NEW K, NEW M, NEW t \in Txn(S, K, M)
    PROVE  LET r == CountFirstInterval(t) IN
           /\ r \in Txn(S, K, M)
           /\ r.expired = IF t.expired = 0 THEN T1 ELSE t.expired
           /\ r.timer = t.timer /\ r.running = t.running
           /\ r.state = t.state /\ r.pooled = t.pooled /\ r.cur = t.cur
           /\ r.max = t.max /\ r.count = t.count /\ r.msg = t.msg
           /\ r.proto = t.proto /\ r.ud = t.ud /\ r.elapsed = t.elapsed
<1>1. T1 \in Nat
  BY TimerType
<1>2. CountFirstInterval(t) \in Txn(S, K, M)
  BY <1>1, TxnUpdate DEF CountFirstInterval
<1> QED
  BY <1>2, SMT DEF CountFirstInterval, Txn

(* Clipped: the last interval is cut, never lengthened, and the series     *)
(* does not pass its maximum.                                              *)
LEMMA ClippedBound ==
    ASSUME NEW S, NEW K, NEW M, NEW t \in Txn(S, K, M), NEW d \in Nat \ {0},
           t.expired < t.max
    PROVE  /\ Clipped(t, d) \in Nat \ {0}
           /\ t.expired + Clipped(t, d) <= t.max
           /\ Clipped(t, d) # d => t.expired + Clipped(t, d) = t.max
<1>1. t.expired \in Nat /\ t.max \in Nat
  BY SMT DEF Txn
<1> QED
  BY <1>1, SMT DEF Clipped

(* Restart: one more interval of the series, accounted for in advance.     *)
LEMMA RestartLemma ==
    ASSUME NEW S, NEW K, NEW M, NEW t \in Txn(S, K, M), NEW type \in K, NEW d \in Nat
    PROVE  LET r == Restart(t, type, d) IN
           /\ r \in Txn(S, K, M)
           /\ r.timer = type /\ r.cur = d /\ r.running = t.running + 1
           /\ r.count = t.count + 1 /\ r.expired = t.expired + d
           /\ r.state = t.state /\ r.pooled = t.pooled /\ r.max = t.max
           /\ r.msg = t.msg /\ r.proto = t.proto /\ r.ud = t.ud
           /\ r.elapsed = t.elapsed
<1> DEFINE t1 == StartTxnTimer(t, type, d)
           t2 == [t1 EXCEPT !.count = @ + 1]
           t3 == [t2 EXCEPT !.expired = @ + d]
<1>1. t1 \in Txn(S, K, M)
  BY StartTxnTimerLemma
<1>2. t2 \in Txn(S, K, M)
  <2> HIDE DEF t1
  <2>1. t1.count + 1 \in Nat
    BY <1>1, SMT DEF Txn
  <2> QED BY <1>1, <2>1, TxnUpdate
<1>3. t3 \in Txn(S, K, M)
  <2> HIDE DEF t2
  <2>1. t2.expired + d \in Nat
    BY <1>2, SMT DEF Txn
  <2> QED BY <1>2, <2>1, TxnUpdate
<1>4. Restart(t, type, d) = t3
  BY DEF Restart
<1>5. LET r == Restart(t, type, d) IN
           /\ r.timer = t1.timer /\ r.cur = t1.cur /\ r.running = t1.running
           /\ r.count = t1.count + 1 /\ r.expired = t1.expired + d
           /\ r.state = t1.state /\ r.pooled = t1.pooled /\ r.max = t1.max
           /\ r.msg = t1.msg /\ r.proto = t1.proto /\ r.ud = t1.ud
           /\ r.elapsed = t1.elapsed
  <2> HIDE DEF t1
  <2>1. Restart(t, type, d) = [t1 EXCEPT !.count = @ + 1, !.expired = @ + d]
    BY DEF Restart, t1
  <2> QED
    BY <1>1, <2>1, SMT DEF Txn
<1>6. StartTxnTimer(t, type, d) = t1
  OBVIOUS
<1> HIDE DEF t1
<1> QED
  BY <1>3, <1>4, <1>5, <1>6, StartTxnTimerLemma

(* ReleaseTransaction: nothing of the transaction is left but its history. *)
LEMMA ReleaseTransactionLemma ==
    ASSUME NEW S, NEW K, NEW M, NEW t \in Txn(S, K, M), {"IDLE", "TERMINATED"} \subseteq S
    PROVE  LET r == ReleaseTransaction(t) IN
           /\ r \in Txn(S, K, M)
           /\ r.state = "TERMINATED" /\ ~r.pooled /\ ~r.ud
           /\ r.timer = NoTimer /\ r.msg = NoMsg
           /\ r.running = t.running /\ r.elapsed = t.elapsed
<1>1. t.running \in Nat /\ t.elapsed \in Nat
  BY SMT DEF Txn
<1> DEFINE t1 == [NewTxn EXCEPT !.state = "TERMINATED"]
           t2 == [t1 EXCEPT !.running = t.running]
           t3 == [t2 EXCEPT !.elapsed = t.elapsed]
<1>2. NewTxn \in Txn(S, K, M)
  BY NewTxnType
<1>3. t1 \in Txn(S, K, M)
  BY <1>2, TxnUpdate
<1>4. t2 \in Txn(S, K, M)
  <2> HIDE DEF t1
  <2> QED BY <1>1, <1>3, TxnUpdate
<1>5. t3 \in Txn(S, K, M)
  <2> HIDE DEF t2
  <2> QED BY <1>1, <1>4, TxnUpdate
<1>6. ReleaseTransaction(t) = t3
  BY DEF ReleaseTransaction
<1>7. LET r == ReleaseTransaction(t) IN
        /\ r.state = "TERMINATED" /\ ~r.pooled /\ ~r.ud
        /\ r.timer = NoTimer /\ r.msg = NoMsg
        /\ r.running = t.running /\ r.elapsed = t.elapsed
  BY SMT DEF ReleaseTransaction, NewTxn
<1> QED
  BY <1>5, <1>6, <1>7

(* AbortTxn: released, with no timer running.                              *)
LEMMA AbortTxnLemma ==
    ASSUME NEW S, NEW K, NEW M, NEW t \in Txn(S, K, M), {"IDLE", "TERMINATED"} \subseteq S,
           t.timer # NoTimer => t.running >= 1
    PROVE  LET r == AbortTxn(t) IN
           /\ r \in Txn(S, K, M)
           /\ r.state = "TERMINATED" /\ ~r.pooled /\ ~r.ud
           /\ r.timer = NoTimer /\ r.msg = NoMsg
           /\ r.running = IF t.timer = NoTimer THEN t.running ELSE t.running - 1
           /\ r.elapsed = t.elapsed
<1> DEFINE u == StopTxnTimer(t)
<1>1. /\ u \in Txn(S, K, M)
      /\ u.running = IF t.timer = NoTimer THEN t.running ELSE t.running - 1
      /\ u.elapsed = t.elapsed
  BY StopTxnTimerLemma
<1>2. AbortTxn(t) = ReleaseTransaction(u)
  BY DEF AbortTxn
<1> HIDE DEF u
<1> QED
  BY <1>1, <1>2, ReleaseTransactionLemma
=============================================================================
