------------------------------- MODULE AosProofs -------------------------------
(***************************************************************************)
(* Proofs about AosApplication: the registration, the application above it *)
(* and the traffic of the radio below.                                     *)
(***************************************************************************)
EXTENDS AosApplication, SequenceTheorems, WellFoundedInduction, TLAPS

AosSet ==
    [app : AppStates, recoveryHeld : BOOLEAN, connected : BOOLEAN,
     state : States, pending : SUBSET PendingKinds, timers : SUBSET Timers,
     started : BOOLEAN, blocked : BOOLEAN, heldByCall : BOOLEAN,
     radioWaiting : BOOLEAN, priorityBlocked : BOOLEAN,
     call : BOOLEAN, allowed : BOOLEAN,
     failures : 0 .. CREATE_REG_FAILURE_MAX_COUNT,
     engine : Engines \cup {NoEngine}, txn : Traffic, queue : Seq(Messages),
     events : 0 .. MaxEvents, faults : Nat, ok : BOOLEAN, luck : Lucks]

-----------------------------------------------------------------------------
(* The inductive invariant, part by part.                                  *)

RadioInv(s) ==
    /\ RadioIsReleased(s.txn)
    /\ "DEREG" \in s.txn.traffics => "DEREG_TRAFFIC" \in s.timers

StartedInv(s) == s.state # "DEREGISTERING" => s.started = ~HeldBack(s)

IsResult(m) == FromEngine(m) /\ m # [to |-> "ENGINE", what |-> "TERMINATED"]
ResultOf(m) ==
    CASE m.to = "START_FAILED" -> "REGISTERING"
      [] m.to = "UPDATE_FAILED" -> "REFRESHING"
      [] m.what = "STARTED" -> "REGISTERING"
      [] m.what = "UPDATED" -> "REFRESHING"
      [] OTHER -> "DEREGISTERING"

In(s, m) == \E i \in DOMAIN s.queue : s.queue[i] = m
EngineEnd == [to |-> "ENGINE", what |-> "TERMINATED"]
HasResult(s) == \E i \in DOMAIN s.queue : IsResult(s.queue[i])

\* A result comes before anything else the engine says, to a registration
\* that awaits it from an engine that is done.
ResultInv(s) ==
    \A i \in DOMAIN s.queue : IsResult(s.queue[i]) =>
        /\ \A j \in DOMAIN s.queue : FromEngine(s.queue[j]) => i <= j
        /\ s.engine.sub = "IDLE"
        /\ s.state = ResultOf(s.queue[i])
        /\ s.engine.state \in
              IF s.queue[i].to = "START_FAILED" THEN {"CREATED", "INIT"}
                                                ELSE {"ACTIVE", "TERMINATED"}

\* The end that the engine has posted.
EndInv(s) ==
    In(s, EngineEnd) =>
        \/ s.engine.state = "TERMINATED"
        \/ /\ s.engine.state = "ACTIVE" /\ s.engine.sub = "IDLE"
           /\ s.state \in {"REFRESHING", "OFFLINE"} /\ ~HasResult(s)

EngineInv(e) ==
    /\ e.state \in {"NONE", "CREATED", "INIT"} => e.refresh = "OFF"
    /\ e.state \in {"NONE", "CREATED"} => e.sub = "IDLE"
    /\ e.state = "INIT" => e.sub \in {"IDLE", "REGISTERING"}

\* What the engine is doing for a registration in each state.
StateInv(s) ==
    LET e == s.engine IN
    CASE s.state = "OFFLINE" ->
           \/ e.state \in {"NONE", "CREATED", "TERMINATED"}
           \/ e.state = "ACTIVE" /\ e.sub = "IDLE"
      [] s.state = "REGISTERING" ->
           (e.state = "INIT" /\ e.sub = "REGISTERING") \/ HasResult(s)
      [] s.state = "REGSTOP" ->
           e.state \in {"CREATED", "INIT"} /\ e.sub = "IDLE"
      [] s.state \in {"REGISTERED", "REFRESHSTOP"} ->
           e.state \in {"ACTIVE", "TERMINATED"} /\ e.sub = "IDLE"
      [] s.state = "REFRESHING" ->
           /\ e.state \in {"ACTIVE", "TERMINATED"}
           /\ e.sub # "DEREGISTERING"
      [] s.state = "DEREGISTERING" ->
           /\ e.state \in {"ACTIVE", "TERMINATED"}
           /\ e.sub \in {"IDLE", "DEREGISTERING"}

\* Who is trying is told of the outcome.
TryingInv(s) ==
    s.state \in {"REGISTERING", "REFRESHING", "DEREGISTERING"} =>
        \/ s.engine.sub # "IDLE" /\ s.engine.state # "TERMINATED"
        \/ HasResult(s)
        \/ In(s, EngineEnd)

\* The refresh timer runs on only where nothing will be refreshed.
RefreshInv(s) ==
    s.engine.state = "TERMINATED" /\ s.engine.refresh = "HALF" =>
        s.state \in {"DEREGISTERING", "OFFLINE"}

LinkInv(s) ==
    /\ ResultInv(s) /\ EndInv(s) /\ EngineInv(s.engine)
    /\ StateInv(s) /\ TryingInv(s) /\ RefreshInv(s)

KeptInv(s) ==
    "UPDATE" \in s.pending /\ (s.state = "REGISTERED" \/ IsRetryHeld(s)) =>
        In(s, [to |-> "REG", what |-> "UPDATE"])

\* What lets a registration go on that waits.
HeldInv(s) ==
    IsRetryHeld(s) =>
        \/ "STOP_RETRY" \in s.timers
        \/ HeldBack(s) /\ s.pending \cap {"START", "TRAFFIC", "TRANSACTION"} # {}
        \/ In(s, [to |-> "REPORT", what |-> "PDN_RECONNECT_WITH_AWT"])
        \/ In(s, [to |-> "APP", what |-> "DEACTIVATED"])

\* An application that has no access to IMS has no registration.
DownInv(s) ==
    s.app \in {"NOTREADY", "READY"} =>
        s.state = "OFFLINE" /\ s.pending = {} /\ s.engine = NoEngine

RecoverInv(s) == "OFFLINE_RECOVER" \in s.timers => s.state = "OFFLINE"

Good(s) ==
    /\ s \in AosSet
    /\ RadioInv(s) /\ StartedInv(s) /\ LinkInv(s) /\ KeptInv(s)
    /\ HeldInv(s) /\ DownInv(s) /\ RecoverInv(s)

\* What a registration that waits is owed, once nothing holds it back.
Owed(s) ==
    IsRetryHeld(s) =>
        \/ "STOP_RETRY" \in s.timers
        \/ s.pending \cap {"START", "TRAFFIC", "TRANSACTION"} # {}
        \/ In(s, [to |-> "REPORT", what |-> "PDN_RECONNECT_WITH_AWT"])
        \/ In(s, [to |-> "APP", what |-> "DEACTIVATED"])

\* The invariant without what a handler restores: Loose, while what was held
\* back is taken up; Near, until CheckPending.
Loose(s) ==
    /\ s \in AosSet
    /\ RadioInv(s) /\ StartedInv(s) /\ LinkInv(s) /\ KeptInv(s)
    /\ DownInv(s) /\ RecoverInv(s)
Near(s) ==
    /\ s \in AosSet
    /\ RadioInv(s) /\ StartedInv(s) /\ LinkInv(s)
    /\ HeldInv(s) /\ DownInv(s) /\ RecoverInv(s)

\* A registration that has just been destroyed.
Silent(s) == \A i \in DOMAIN s.queue : ~FromEngine(s.queue[i])
Current(s) == s.started = ~HeldBack(s)
AppUp(s) == s.app \notin {"NOTREADY", "READY"}
Clean(s) ==
    /\ s \in AosSet /\ RadioInv(s) /\ Current(s)
    /\ s.state = "OFFLINE" /\ s.engine = NoEngine /\ s.pending = {}
    /\ Silent(s)

IInv == Good(aos) /\ aos.ok = FALSE /\ aos.luck = NoLuck

(***************************************************************************)
(* Sequences.                                                              *)
(***************************************************************************)
\* Smallest counterexamples: a set of numbers that is not empty has a first.
LEMMA FirstNumber ==
    ASSUME NEW T, T \subseteq Nat, T # {}
    PROVE  \E n \in T : \A m \in T : n <= m
<1>1. PICK n \in T : \A m \in T : ~ (<<m, n>> \in OpToRel(<, Nat))
  BY NatLessThanWellFounded, WFMin
<1>2. \A m \in T : ~ (m < n)
  BY <1>1 DEF OpToRel
<1> QED
  BY <1>2, SMT

\* One step of NotFromEngine.
KeptStep(q, k, i) ==
    IF i = 0 THEN << >>
    ELSE IF FromEngine(q[i]) THEN k[i - 1]
    ELSE Append(k[i - 1], q[i])

KeptUpTo(q, n) ==
    {k \in [0 .. n -> Seq(Messages)] :
        \A i \in 0 .. n : k[i] = KeptStep(q, k, i)}

\* The recursion of NotFromEngine has a solution.
LEMMA KeptExists ==
    ASSUME NEW q \in Seq(Messages), NEW n \in 0 .. Len(q)
    PROVE  KeptUpTo(q, n) # {}
<1> DEFINE T == {m \in 0 .. Len(q) : KeptUpTo(q, m) = {}}
<1>1. SUFFICES ASSUME T # {} PROVE FALSE
  OBVIOUS
<1>2. Len(q) \in Nat /\ T \subseteq Nat
  BY LenProperties
<1>3. PICK m \in T : \A j \in T : m <= j
  BY <1>1, <1>2, FirstNumber
<1>4. m # 0
  <2> SUFFICES ASSUME m = 0 PROVE FALSE
    OBVIOUS
  <2> DEFINE k == [i \in 0 .. 0 |-> << >>]
  <2>1. k \in [0 .. 0 -> Seq(Messages)]
    OBVIOUS
  <2>2. \A i \in 0 .. 0 : k[i] = KeptStep(q, k, i)
    BY DEF KeptStep
  <2> QED
    BY <2>1, <2>2 DEF KeptUpTo
<1>5. m - 1 \in 0 .. Len(q) /\ m - 1 \notin T
  BY <1>2, <1>3, <1>4, SMT
<1>6. PICK k \in KeptUpTo(q, m - 1) : TRUE
  BY <1>5
<1> DEFINE new == IF FromEngine(q[m]) THEN k[m - 1]
                  ELSE Append(k[m - 1], q[m])
           h == [i \in 0 .. m |-> IF i = m THEN new ELSE k[i]]
<1>7. q[m] \in Messages
  BY <1>2, <1>4, ElementOfSeq
<1>8. k \in [0 .. m - 1 -> Seq(Messages)]
      /\ \A i \in 0 .. m - 1 : k[i] = KeptStep(q, k, i)
  BY <1>6 DEF KeptUpTo
<1>9. k[m - 1] \in Seq(Messages)
  BY <1>2, <1>4, <1>8, SMT
<1>10. new \in Seq(Messages)
  BY <1>7, <1>9, AppendProperties
<1> HIDE DEF new
<1>11. h \in [0 .. m -> Seq(Messages)]
  <2>1. \A i \in 0 .. m : i # m => i \in 0 .. m - 1
    BY <1>2, SMT
  <2>2. \A i \in 0 .. m - 1 : k[i] \in Seq(Messages)
    BY <1>8
  <2>3. \A i \in 0 .. m : (IF i = m THEN new ELSE k[i]) \in Seq(Messages)
    BY <1>10, <2>1, <2>2
  <2> QED
    BY <2>3
<1>12. \A i \in 0 .. m : h[i] = KeptStep(q, h, i)
  <2> TAKE i \in 0 .. m
  <2>1. CASE i = m
    BY <2>1, <1>2, <1>4, SMT DEF KeptStep, new
  <2>2. CASE i # m
    <3>1. i \in 0 .. m - 1 /\ (i # 0 => i - 1 \in 0 .. m - 1 /\ i - 1 # m)
      BY <2>2, <1>2, SMT
    <3>2. h[i] = k[i] /\ (i # 0 => h[i - 1] = k[i - 1])
      BY <3>1, <1>2, SMT
    <3> QED
      BY <3>1, <3>2, <1>8 DEF KeptStep
  <2> QED
    BY <2>1, <2>2
<1> HIDE DEF h
<1>13. h \in KeptUpTo(q, m)
  BY <1>11, <1>12 DEF KeptUpTo
<1> QED
  BY <1>3, <1>13

\* What is left of the queue holds nothing from an engine object.
LEMMA NotFromEngineFacts ==
    ASSUME NEW q \in Seq(Messages)
    PROVE  /\ NotFromEngine(q) \in Seq(Messages)
           /\ \A i \in 1 .. Len(NotFromEngine(q)) :
                 ~FromEngine(NotFromEngine(q)[i])
<1> DEFINE Clear == {r \in Seq(Messages) :
                        \A i \in 1 .. Len(r) : ~FromEngine(r[i])}
           f == CHOOSE k : k = [i \in 0 .. Len(q) |-> KeptStep(q, k, i)]
<1>1. Len(q) \in Nat
  BY LenProperties
<1>2. NotFromEngine(q) = f[Len(q)]
  BY DEF NotFromEngine, KeptStep
<1>3. \E k : k = [i \in 0 .. Len(q) |-> KeptStep(q, k, i)]
  <2>1. Len(q) \in 0 .. Len(q)
    BY <1>1
  <2>2. PICK k \in KeptUpTo(q, Len(q)) : TRUE
    BY <2>1, KeptExists
  <2>3. k = [i \in 0 .. Len(q) |-> KeptStep(q, k, i)]
    BY <2>2 DEF KeptUpTo
  <2> QED
    BY <2>3
<1>4. f = [i \in 0 .. Len(q) |-> KeptStep(q, f, i)]
  BY <1>3
<1> HIDE DEF f
<1>5. \A i \in 0 .. Len(q) : f[i] = KeptStep(q, f, i)
  BY <1>4
<1> DEFINE T == {n \in 0 .. Len(q) : f[n] \notin Clear}
<1>6. SUFFICES ASSUME T # {} PROVE FALSE
  BY <1>1, <1>2
<1>7. PICK n \in T : \A j \in T : n <= j
  <2>1. T \subseteq Nat
    BY <1>1
  <2> QED
    BY <1>6, <2>1, FirstNumber
<1>8. n # 0
  <2>1. << >> \in Clear
    OBVIOUS
  <2> QED
    BY <2>1, <1>1, <1>5, <1>7 DEF KeptStep
<1>9. n - 1 \in 0 .. Len(q) /\ f[n - 1] \in Clear
  BY <1>1, <1>7, <1>8, SMT
<1>10. q[n] \in Messages
  BY <1>1, <1>7, <1>8, ElementOfSeq
<1>11. f[n] = IF FromEngine(q[n]) THEN f[n - 1] ELSE Append(f[n - 1], q[n])
  BY <1>1, <1>5, <1>7, <1>8 DEF KeptStep
<1>12. ~FromEngine(q[n]) => Append(f[n - 1], q[n]) \in Clear
  <2> SUFFICES ASSUME ~FromEngine(q[n])
               PROVE  Append(f[n - 1], q[n]) \in Clear
    OBVIOUS
  <2> DEFINE r == f[n - 1]
  <2>1. r \in Seq(Messages) /\ \A i \in 1 .. Len(r) : ~FromEngine(r[i])
    BY <1>9
  <2> HIDE DEF r
  <2>2. /\ Append(r, q[n]) \in Seq(Messages)
        /\ Len(Append(r, q[n])) = Len(r) + 1
        /\ \A i \in 1 .. Len(r) : Append(r, q[n])[i] = r[i]
        /\ Append(r, q[n])[Len(r) + 1] = q[n]
        /\ Len(r) \in Nat
    BY <2>1, <1>10, AppendProperties, LenProperties
  <2>3. \A i \in 1 .. Len(r) + 1 : i \in 1 .. Len(r) \/ i = Len(r) + 1
    BY <2>2, SMT
  <2>4. \A i \in 1 .. Len(r) + 1 : ~FromEngine(Append(r, q[n])[i])
    BY <2>1, <2>2, <2>3
  <2>5. Append(r, q[n]) \in Clear
    BY <2>2, <2>4
  <2> QED
    BY <2>5 DEF r
<1> QED
  BY <1>7, <1>9, <1>11, <1>12

-----------------------------------------------------------------------------
(* The queue.                                                              *)

\* A message is added at the end.
LEMMA AppendFacts ==
    ASSUME NEW q \in Seq(Messages), NEW m \in Messages
    PROVE  /\ Append(q, m) \in Seq(Messages)
           /\ Len(q) \in Nat /\ DOMAIN q = 1 .. Len(q)
           /\ DOMAIN Append(q, m) = 1 .. Len(q) + 1
           /\ \A i \in 1 .. Len(q) : Append(q, m)[i] = q[i]
           /\ Append(q, m)[Len(q) + 1] = m
           /\ \A i \in 1 .. Len(q) + 1 : i \in 1 .. Len(q) \/ i = Len(q) + 1
<1>1. Len(q) \in Nat /\ DOMAIN q = 1 .. Len(q)
  BY LenProperties
<1>2. /\ Append(q, m) \in Seq(Messages)
      /\ Len(Append(q, m)) = Len(q) + 1
      /\ \A i \in 1 .. Len(q) : Append(q, m)[i] = q[i]
      /\ Append(q, m)[Len(q) + 1] = m
  BY AppendProperties
<1>3. DOMAIN Append(q, m) = 1 .. Len(q) + 1
  BY <1>2, LenProperties
<1>4. \A i \in 1 .. Len(q) + 1 : i \in 1 .. Len(q) \/ i = Len(q) + 1
  BY <1>1, SMT
<1> QED
  BY <1>1, <1>2, <1>3, <1>4

\* The first message is taken.
LEMMA TailFacts ==
    ASSUME NEW q \in Seq(Messages), q # << >>
    PROVE  /\ Tail(q) \in Seq(Messages)
           /\ Len(q) \in Nat /\ Len(q) >= 1 /\ DOMAIN q = 1 .. Len(q)
           /\ DOMAIN Tail(q) = 1 .. Len(q) - 1
           /\ \A i \in 1 .. Len(q) - 1 : i + 1 \in DOMAIN q
                                         /\ Tail(q)[i] = q[i + 1]
           /\ 1 \in DOMAIN q /\ Head(q) = q[1] /\ Head(q) \in Messages
           /\ \A i \in DOMAIN q :
                 i = 1 \/ (i - 1 \in DOMAIN Tail(q) /\ Tail(q)[i - 1] = q[i])
<1>1. Len(q) \in Nat /\ DOMAIN q = 1 .. Len(q) /\ Len(q) # 0
  BY LenProperties, EmptySeq
<1>2. /\ Tail(q) \in Seq(Messages)
      /\ Len(Tail(q)) = Len(q) - 1
      /\ \A i \in 1 .. Len(Tail(q)) : Tail(q)[i] = q[i + 1]
      /\ Head(q) \in Messages
  BY HeadTailProperties
<1>3. DOMAIN Tail(q) = 1 .. Len(q) - 1
  BY <1>2, LenProperties
<1>4. /\ Len(q) >= 1 /\ 1 \in 1 .. Len(q)
      /\ \A i \in 1 .. Len(q) - 1 : i + 1 \in 1 .. Len(q)
      /\ \A i \in 1 .. Len(q) : i # 1 => i - 1 \in 1 .. Len(q) - 1 /\ (i - 1) + 1 = i
  BY <1>1, SMT
<1>5. Head(q) = q[1]
  BY HeadTailProperties
<1> QED
  BY <1>1, <1>2, <1>3, <1>4, <1>5

\* What the queue holds after a message was added.
LEMMA PostedFacts ==
    ASSUME NEW s \in AosSet, NEW w \in AosSet, NEW m \in Messages,
           w.queue = Append(s.queue, m)
    PROVE  /\ \A x : In(w, x) <=> In(s, x) \/ x = m
           /\ HasResult(w) <=> HasResult(s) \/ IsResult(m)
           /\ Silent(w) <=> Silent(s) /\ ~FromEngine(m)
<1>1. s.queue \in Seq(Messages)
  BY DEF AosSet
<1> DEFINE q == s.queue
           n == Len(q) + 1
<1>2. /\ DOMAIN w.queue = 1 .. n /\ DOMAIN q = 1 .. Len(q)
      /\ \A i \in 1 .. Len(q) : w.queue[i] = q[i]
      /\ w.queue[n] = m /\ Len(q) \in Nat
      /\ \A i \in 1 .. n : i \in 1 .. Len(q) \/ i = n
  BY <1>1, AppendFacts
<1>3. n \in 1 .. n /\ \A i \in 1 .. Len(q) : i \in 1 .. n
  BY <1>2, SMT
<1> HIDE DEF q, n
<1>4. \A x : In(w, x) <=> In(s, x) \/ x = m
  BY <1>2, <1>3 DEF In, q
<1>5. HasResult(w) <=> HasResult(s) \/ IsResult(m)
  BY <1>2, <1>3 DEF HasResult, q
<1>6. Silent(w) <=> Silent(s) /\ ~FromEngine(m)
  BY <1>2, <1>3 DEF Silent, q
<1> QED
  BY <1>4, <1>5, <1>6

\* ... and after the first was taken.
LEMMA TakenFacts ==
    ASSUME NEW s \in AosSet, s.queue # << >>
    PROVE  /\ Taken(s) \in AosSet
           /\ \A x : In(s, x) <=> In(Taken(s), x) \/ x = Head(s.queue)
           /\ HasResult(s) <=> HasResult(Taken(s)) \/ IsResult(Head(s.queue))
           /\ Silent(s) <=> Silent(Taken(s)) /\ ~FromEngine(Head(s.queue))
<1>1. s.queue \in Seq(Messages)
  BY DEF AosSet
<1> DEFINE q == s.queue
           r == Tail(q)
<1>2. /\ r \in Seq(Messages)
      /\ \A i \in DOMAIN r : i + 1 \in DOMAIN q /\ r[i] = q[i + 1]
      /\ 1 \in DOMAIN q /\ Head(q) = q[1]
      /\ \A i \in DOMAIN q : i = 1 \/ (i - 1 \in DOMAIN r /\ r[i - 1] = q[i])
  BY <1>1, TailFacts
<1>3. Taken(s) \in AosSet /\ Taken(s).queue = r
  BY <1>2 DEF AosSet, Taken
<1> HIDE DEF q, r
<1>4. \A x : In(s, x) <=> In(Taken(s), x) \/ x = Head(q)
  <2>1. \A i \in DOMAIN q : \A x :
           q[i] = x => x = Head(q) \/ \E j \in DOMAIN r : r[j] = x
    BY <1>2
  <2>2. \A j \in DOMAIN r : \A x : r[j] = x => \E i \in DOMAIN q : q[i] = x
    BY <1>2
  <2> QED
    BY <2>1, <2>2, <1>2, <1>3 DEF In, q
<1>5. HasResult(s) <=> HasResult(Taken(s)) \/ IsResult(Head(q))
  <2>1. \A i \in DOMAIN q :
           IsResult(q[i]) => IsResult(Head(q)) \/ \E j \in DOMAIN r : IsResult(r[j])
    BY <1>2
  <2>2. \A j \in DOMAIN r : IsResult(r[j]) => \E i \in DOMAIN q : IsResult(q[i])
    BY <1>2
  <2> QED
    BY <2>1, <2>2, <1>2, <1>3 DEF HasResult, q
<1>6. Silent(s) <=> Silent(Taken(s)) /\ ~FromEngine(Head(q))
  <2>1. \A i \in DOMAIN q :
           FromEngine(q[i]) => FromEngine(Head(q)) \/ \E j \in DOMAIN r : FromEngine(r[j])
    BY <1>2
  <2>2. \A j \in DOMAIN r : FromEngine(r[j]) => \E i \in DOMAIN q : FromEngine(q[i])
    BY <1>2
  <2> QED
    BY <2>1, <2>2, <1>2, <1>3 DEF Silent, q
<1> QED
  BY <1>3, <1>4, <1>5, <1>6 DEF q

\* Silence is the absence of results and of the end.
LEMMA SilentMeans ==
    ASSUME NEW s \in AosSet
    PROVE  Silent(s) <=> ~HasResult(s) /\ ~In(s, EngineEnd)
<1>1. FromEngine(EngineEnd)
  BY DEF FromEngine, EngineEnd
<1> QED
  BY <1>1 DEF Silent, HasResult, In, IsResult, EngineEnd

-----------------------------------------------------------------------------
(* The invariant between the queue, the engine and the state.              *)

\* A registration at rest awaits no result.
LEMMA NoResultAtRest ==
    ASSUME NEW s \in AosSet, ResultInv(s),
           s.state \notin {"REGISTERING", "REFRESHING", "DEREGISTERING"}
    PROVE  ~HasResult(s)
BY DEF ResultInv, HasResult, ResultOf

\* Nor does one whose engine is at work.
LEMMA NoResultAtWork ==
    ASSUME NEW s \in AosSet, ResultInv(s), s.engine.sub # "IDLE"
    PROVE  ~HasResult(s)
BY DEF ResultInv, HasResult

\* An engine that is ready to send has nothing more to say to a registration
\* at rest.
LEMMA SilentAtRest ==
    ASSUME NEW s \in AosSet, LinkInv(s),
           s.state \in {"REGSTOP", "REGISTERED", "REFRESHSTOP"},
           s.engine.state # "TERMINATED"
    PROVE  Silent(s)
<1>1. ~HasResult(s)
  BY NoResultAtRest DEF LinkInv
<1>2. ~In(s, EngineEnd)
  BY DEF LinkInv, EndInv, StateInv
<1> QED
  BY <1>1, <1>2, SilentMeans

\* Nothing is heard from an engine that is gone.
LEMMA SilentWithoutEngine ==
    ASSUME NEW s \in AosSet, LinkInv(s), s.engine.state \in {"NONE", "CREATED"},
           s.state = "OFFLINE"
    PROVE  Silent(s)
<1>1. ~HasResult(s)
  BY NoResultAtRest DEF LinkInv
<1>2. ~In(s, EngineEnd)
  BY DEF LinkInv, EndInv
<1> QED
  BY <1>1, <1>2, SilentMeans

\* With silence, the link depends on the engine and the state only.
LEMMA LinkOfSilent ==
    ASSUME NEW w \in AosSet, Silent(w), EngineInv(w.engine),
           StateInv(w), RefreshInv(w),
           w.state \in {"REGISTERING", "REFRESHING", "DEREGISTERING"} =>
               w.engine.sub # "IDLE" /\ w.engine.state # "TERMINATED"
    PROVE  LinkInv(w)
<1>1. ~HasResult(w) /\ ~In(w, EngineEnd)
  BY SilentMeans
<1>2. ResultInv(w)
  BY <1>1 DEF ResultInv, HasResult
<1> QED
  BY <1>1, <1>2 DEF LinkInv, EndInv, TryingInv

\* A new request of a new engine.
LEMMA LinkOfNew ==
    ASSUME NEW w \in AosSet, Silent(w), w.state = "REGISTERING",
           w.engine.state = "INIT", w.engine.sub = "REGISTERING",
           w.engine.refresh = "OFF"
    PROVE  LinkInv(w)
BY LinkOfSilent DEF EngineInv, StateInv, RefreshInv

\* A request of an engine that is active.
LEMMA LinkOfActive ==
    ASSUME NEW w \in AosSet, Silent(w), w.engine.state = "ACTIVE",
           \/ w.state = "REFRESHING"
              /\ w.engine.sub \in {"REGISTERING", "REFRESHING"}
           \/ w.state = "DEREGISTERING" /\ w.engine.sub = "DEREGISTERING"
    PROVE  LinkInv(w)
BY LinkOfSilent DEF EngineInv, StateInv, RefreshInv

\* A registration without an engine, or with one that has sent nothing.
LEMMA LinkOfOffline ==
    ASSUME NEW w \in AosSet, Silent(w), w.state = "OFFLINE",
           w.engine \in {NoEngine, NewEngine}
    PROVE  LinkInv(w)
<1>1. EngineInv(w.engine) /\ w.engine.state \in {"NONE", "CREATED"}
  BY DEF EngineInv, NoEngine, NewEngine
<1> QED
  BY <1>1, LinkOfSilent DEF StateInv, RefreshInv

\* Messages of others change nothing.
LEMMA LinkPosted ==
    ASSUME NEW s \in AosSet, NEW w \in AosSet, LinkInv(s),
           w.engine = s.engine, w.state = s.state,
           \/ w.queue = s.queue
           \/ \E m \in Messages : ~FromEngine(m) /\ w.queue = Append(s.queue, m)
    PROVE  LinkInv(w)
<1>1. CASE w.queue = s.queue
  BY <1>1 DEF LinkInv, ResultInv, EndInv, HasResult, StateInv, TryingInv, RefreshInv, In
<1>2. CASE \E m \in Messages : ~FromEngine(m) /\ w.queue = Append(s.queue, m)
  <2>1. PICK m \in Messages : ~FromEngine(m) /\ w.queue = Append(s.queue, m)
    BY <1>2
  <2>2. ~IsResult(m) /\ m # EngineEnd
    BY <2>1 DEF IsResult, FromEngine, EngineEnd
  <2>3. (HasResult(w) <=> HasResult(s)) /\ (In(w, EngineEnd) <=> In(s, EngineEnd))
    BY <2>1, <2>2, PostedFacts
  <2>4. /\ \A i \in DOMAIN w.queue :
              FromEngine(w.queue[i]) => i \in DOMAIN s.queue /\ w.queue[i] = s.queue[i]
    <3>1. s.queue \in Seq(Messages)
      BY DEF AosSet
    <3> QED
      BY <2>1, <3>1, AppendFacts
  <2>5. ResultInv(w)
    <3> SUFFICES ASSUME NEW i \in DOMAIN w.queue, IsResult(w.queue[i])
                 PROVE  /\ \A j \in DOMAIN w.queue : FromEngine(w.queue[j]) => i <= j
                        /\ w.engine.sub = "IDLE"
                        /\ w.state = ResultOf(w.queue[i])
                        /\ w.engine.state \in
                              IF w.queue[i].to = "START_FAILED"
                              THEN {"CREATED", "INIT"} ELSE {"ACTIVE", "TERMINATED"}
      BY DEF ResultInv
    <3>1. FromEngine(w.queue[i])
      BY DEF IsResult
    <3>2. i \in DOMAIN s.queue /\ w.queue[i] = s.queue[i] /\ IsResult(s.queue[i])
      BY <2>4, <3>1
    <3> QED
      BY <2>4, <3>2 DEF LinkInv, ResultInv
  <2> QED
    BY <2>3, <2>5 DEF LinkInv, EndInv, StateInv, TryingInv, RefreshInv
<1> QED
  BY <1>1, <1>2

-----------------------------------------------------------------------------
(* Traffic.                                                                *)

\* What StartTraffic and StopTraffic keep.
LEMMA StartTrafficFacts ==
    ASSUME NEW t \in Traffic, NEW type \in TrafficTypes
    PROVE  /\ StartTraffic(t, type) \in Traffic
           /\ StartTraffic(t, type).traffics = t.traffics \cup {type}
           /\ RadioIsReleased(StartTraffic(t, type))
<1> DEFINE w == StartTraffic(t, type)
<1>1. w \in Traffic
  BY DEF StartTraffic, Traffic, TrafficTypes
<1>2. w.traffics = t.traffics \cup {type}
  BY DEF StartTraffic, Traffic
<1> QED
  BY <1>1, <1>2 DEF RadioIsReleased

LEMMA StopTrafficFacts ==
    ASSUME NEW t \in Traffic, NEW type \in TrafficTypes, RadioIsReleased(t)
    PROVE  /\ StopTraffic(t, type) \in Traffic
           /\ StopTraffic(t, type).traffics = t.traffics \ {type}
           /\ RadioIsReleased(StopTraffic(t, type))
BY DEF StopTraffic, ReleaseRadio, Traffic, TrafficTypes, RadioIsReleased

LEMMA StopTimerFacts ==
    ASSUME NEW t \in Traffic
    PROVE  /\ StopTimerExpired(t) \in Traffic
           /\ StopTimerExpired(t).traffics = t.traffics
           /\ RadioIsReleased(StopTimerExpired(t))
BY DEF StopTimerExpired, ReleaseRadio, Traffic, RadioIsReleased

-----------------------------------------------------------------------------
(* The operators that handlers are made of.                                *)

\* The values that handlers assign.
LEMMA Values ==
    /\ States = {"OFFLINE", "REGISTERING", "REGSTOP", "REGISTERED",
                 "REFRESHING", "REFRESHSTOP", "DEREGISTERING"}
    /\ PendingKinds = {"START", "STOP", "TRAFFIC", "TRANSACTION", "UPDATE"}
    /\ Timers = {"STOP_RETRY", "OFFLINE_RECOVER", "DEREG_TRAFFIC"}
    /\ TrafficTypes = {"REG", "SUB", "DEREG"}
    /\ AppStates = {"NOTREADY", "READY", "CONNECTING", "CONNECTED", "UPDATING",
                    "DISCONNECTING"}
BY DEF States, PendingKinds, Timers, TrafficTypes, AppStates

\* Traffic of a registration is given up.
LEMMA OffFacts ==
    ASSUME NEW s \in AosSet, RadioInv(s)
    PROVE  /\ Off(s, "REG") \in AosSet /\ RadioInv(Off(s, "REG"))
           /\ Off(s, "REG") = [s EXCEPT !.txn = Off(s, "REG").txn]
<1>1. s.txn \in Traffic /\ "REG" \in TrafficTypes /\ RadioIsReleased(s.txn)
  BY Values DEF AosSet, RadioInv
<1> DEFINE t == StopTraffic(s.txn, "REG")
<1>2. t \in Traffic /\ t.traffics = s.txn.traffics \ {"REG"} /\ RadioIsReleased(t)
  BY <1>1, StopTrafficFacts
<1>3. Off(s, "REG") = [s EXCEPT !.txn = t]
  BY DEF Off
<1> HIDE DEF t
<1>4. Off(s, "REG") \in AosSet /\ Off(s, "REG").txn = t
      /\ Off(s, "REG").timers = s.timers
  BY <1>2, <1>3 DEF AosSet
<1> QED
  BY <1>2, <1>3, <1>4 DEF RadioInv

\* The traffic of a de-registration is given up with its timer.
LEMMA StopDeregFacts ==
    ASSUME NEW s \in AosSet, RadioInv(s)
    PROVE  LET w == StopDeregTraffic(s) IN
           /\ w \in AosSet /\ RadioInv(w)
           /\ w = [s EXCEPT !.txn = w.txn, !.timers = s.timers \ {"DEREG_TRAFFIC"}]
<1>1. s.txn \in Traffic /\ "DEREG" \in TrafficTypes /\ RadioIsReleased(s.txn)
      /\ s.timers \in SUBSET Timers
  BY Values DEF AosSet, RadioInv
<1> DEFINE t == StopTraffic(s.txn, "DEREG")
           w == StopDeregTraffic(s)
<1>2. t \in Traffic /\ t.traffics = s.txn.traffics \ {"DEREG"} /\ RadioIsReleased(t)
  BY <1>1, StopTrafficFacts
<1>3. CASE "DEREG_TRAFFIC" \in s.timers
  <2>1. w = [s EXCEPT !.timers = s.timers \ {"DEREG_TRAFFIC"}, !.txn = t]
    BY <1>3 DEF StopDeregTraffic, StopTimer, Off, AosSet
  <2> HIDE DEF t, w
  <2>2. w \in AosSet /\ w.txn = t /\ w.timers = s.timers \ {"DEREG_TRAFFIC"}
    BY <1>1, <1>2, <2>1 DEF AosSet
  <2>3. w = [s EXCEPT !.txn = w.txn, !.timers = s.timers \ {"DEREG_TRAFFIC"}]
    BY <2>1, <2>2 DEF AosSet
  <2> QED
    BY <1>2, <2>2, <2>3 DEF RadioInv, w
<1>4. CASE "DEREG_TRAFFIC" \notin s.timers
  <2>1. w = s /\ s.timers = s.timers \ {"DEREG_TRAFFIC"}
    BY <1>4 DEF StopDeregTraffic
  <2> HIDE DEF w
  <2>2. w = [s EXCEPT !.txn = w.txn, !.timers = s.timers \ {"DEREG_TRAFFIC"}]
    BY <2>1 DEF AosSet
  <2> QED
    BY <2>1, <2>2 DEF w
<1> QED
  BY <1>3, <1>4

\* SetState moves to the new state and gives traffic up.
LEMMA SetStateFacts ==
    ASSUME NEW s \in AosSet, RadioInv(s), NEW new \in States
    PROVE  LET w == SetState(s, new) IN
           /\ w \in AosSet /\ RadioInv(w)
           /\ w = [s EXCEPT !.state = new, !.txn = w.txn, !.timers = w.timers]
           /\ w.timers \in {s.timers, s.timers \ {"DEREG_TRAFFIC"}}
<1> DEFINE a == [s EXCEPT !.state = new]
           b == Off(a, "REG")
           c == StopDeregTraffic(b)
           w == SetState(s, new)
<1>1. a \in AosSet /\ a.txn = s.txn /\ a.timers = s.timers
  BY DEF AosSet
<1>2. RadioInv(a)
  BY <1>1 DEF RadioInv
<1>3. a = [s EXCEPT !.state = new, !.txn = a.txn, !.timers = a.timers]
  BY <1>1 DEF AosSet
<1>4. CASE s.state = new
  <2>1. w = s
    BY <1>4 DEF SetState
  <2> HIDE DEF w
  <2>2. w = [s EXCEPT !.state = new, !.txn = w.txn, !.timers = w.timers]
    BY <1>4, <2>1 DEF AosSet
  <2> QED
    BY <2>1, <2>2 DEF w
<1>5. b \in AosSet /\ RadioInv(b) /\ b = [a EXCEPT !.txn = b.txn]
  BY <1>1, <1>2, OffFacts
<1>6. c \in AosSet /\ RadioInv(c)
      /\ c = [b EXCEPT !.txn = c.txn, !.timers = b.timers \ {"DEREG_TRAFFIC"}]
  BY <1>5, StopDeregFacts
<1>7. w \in {s, a, b, c} /\ (s.state # new => w \in {a, b, c})
  BY DEF SetState
<1> HIDE DEF a, b, c, w
<1>8. b = [s EXCEPT !.state = new, !.txn = b.txn, !.timers = b.timers]
      /\ b.timers = s.timers
  BY <1>1, <1>3, <1>5 DEF AosSet
<1>9. c = [s EXCEPT !.state = new, !.txn = c.txn, !.timers = c.timers]
      /\ c.timers = s.timers \ {"DEREG_TRAFFIC"}
  BY <1>5, <1>6, <1>8, ZenonT(60) DEF AosSet
<1>10. CASE s.state # new
  BY <1>10, <1>1, <1>2, <1>3, <1>5, <1>6, <1>7, <1>8, <1>9 DEF w
<1> QED
  BY <1>4, <1>10

\* The transaction says whether it is held back.
LEMMA UpdateStartedFacts ==
    ASSUME NEW s \in AosSet
    PROVE  LET w == UpdateTransactionStarted(s) IN
           /\ w \in AosSet /\ Current(w)
           /\ w = [s EXCEPT !.started = ~HeldBack(s)]
           /\ HeldBack(w) = HeldBack(s)
           /\ RadioInv(s) => RadioInv(w)
<1>1. HeldBack(s) \in BOOLEAN
  BY DEF HeldBack, AosSet
<1> DEFINE w == UpdateTransactionStarted(s)
<1>2. w = [s EXCEPT !.started = ~HeldBack(s)]
  BY DEF UpdateTransactionStarted
<1> HIDE DEF w
<1>3. w \in AosSet /\ w.started = ~HeldBack(s) /\ w.txn = s.txn /\ w.timers = s.timers
  BY <1>1, <1>2 DEF AosSet
<1>4. HeldBack(w) = HeldBack(s)
  BY <1>2 DEF HeldBack, AosSet
<1> QED
  BY <1>2, <1>3, <1>4 DEF Current, RadioInv, w

\* DestroyEngine leaves neither an engine nor its messages.
LEMMA DestroyEngineFacts ==
    ASSUME NEW s \in AosSet
    PROVE  LET w == DestroyEngine(s) IN
           /\ w \in AosSet /\ Silent(w)
           /\ w = [s EXCEPT !.engine = NoEngine, !.queue = w.queue]
<1> DEFINE q == NotFromEngine(s.queue)
           w == DestroyEngine(s)
<1>1. q \in Seq(Messages) /\ \A i \in 1 .. Len(q) : ~FromEngine(q[i])
  BY NotFromEngineFacts DEF AosSet
<1>2. DOMAIN q = 1 .. Len(q)
  BY <1>1, LenProperties
<1>3. w = [s EXCEPT !.engine = NoEngine, !.queue = q]
  BY DEF DestroyEngine
<1> HIDE DEF q, w
<1>4. w \in AosSet /\ w.queue = q
  BY <1>1, <1>3 DEF AosSet
<1>5. Silent(w)
  BY <1>1, <1>2, <1>4 DEF Silent
<1> QED
  BY <1>3, <1>4, <1>5 DEF w

\* Destroy leaves nothing but the timer that registers anew.
LEMMA DestroyFacts ==
    ASSUME NEW s \in AosSet, RadioInv(s)
    PROVE  LET w == Destroy(s) IN
           /\ Clean(w) /\ w.app = s.app
           /\ w.timers \subseteq s.timers
<1> DEFINE a == StopTimer(s, "STOP_RETRY")
           b == StopDeregTraffic(a)
           c == [b EXCEPT !.pending = {}, !.radioWaiting = FALSE]
           d == UpdateTransactionStarted(c)
           e == Off(d, "REG")
           f == DestroyEngine(e)
           w == SetState(f, "OFFLINE")
<1>1. w = Destroy(s)
  BY DEF Destroy, DestroyRegistration, ClearTimers
<1>2. a \in AosSet /\ RadioInv(a) /\ a.app = s.app /\ a.timers \subseteq s.timers
  <2>1. a = [s EXCEPT !.timers = s.timers \ {"STOP_RETRY"}]
    BY DEF StopTimer, AosSet
  <2> HIDE DEF a
  <2>2. s.timers \in SUBSET Timers
    BY DEF AosSet
  <2>3. a \in AosSet /\ a.txn = s.txn /\ a.timers = s.timers \ {"STOP_RETRY"}
        /\ a.app = s.app
    BY <2>1, <2>2 DEF AosSet
  <2> QED
    BY <2>3 DEF RadioInv
<1>3. b \in AosSet /\ RadioInv(b)
      /\ b = [a EXCEPT !.txn = b.txn, !.timers = a.timers \ {"DEREG_TRAFFIC"}]
  BY <1>2, StopDeregFacts
<1> HIDE DEF a, b
<1>4. b.app = s.app /\ b.timers \subseteq s.timers
  BY <1>2, <1>3 DEF AosSet
<1>5. c \in AosSet /\ RadioInv(c) /\ c.app = s.app /\ c.timers \subseteq s.timers
      /\ c.pending = {}
  <2>1. c \in AosSet /\ c.txn = b.txn /\ c.timers = b.timers /\ c.app = b.app
        /\ c.pending = {}
    BY <1>3 DEF AosSet
  <2> QED
    BY <1>3, <1>4, <2>1 DEF RadioInv
<1> HIDE DEF c
<1>6. d \in AosSet /\ RadioInv(d) /\ Current(d) /\ d = [c EXCEPT !.started = ~HeldBack(c)]
  BY <1>5, UpdateStartedFacts
<1> HIDE DEF d
<1>7. e \in AosSet /\ RadioInv(e) /\ e = [d EXCEPT !.txn = e.txn]
  BY <1>6, OffFacts
<1> HIDE DEF e
<1>8. f \in AosSet /\ Silent(f) /\ f = [e EXCEPT !.engine = NoEngine, !.queue = f.queue]
  BY <1>7, DestroyEngineFacts
<1> HIDE DEF f
<1>9. /\ f.app = s.app /\ f.timers \subseteq s.timers /\ f.pending = {}
      /\ f.engine = NoEngine /\ f.txn = e.txn /\ f.timers = e.timers
      /\ f.started = d.started /\ f.blocked = d.blocked
      /\ f.heldByCall = d.heldByCall /\ f.radioWaiting = d.radioWaiting
      /\ f.priorityBlocked = d.priorityBlocked
  <2>1. d.app = c.app /\ d.timers = c.timers /\ d.pending = c.pending
    BY <1>5, <1>6 DEF AosSet
  <2>2. /\ e.app = d.app /\ e.timers = d.timers /\ e.pending = d.pending
        /\ e.started = d.started /\ e.blocked = d.blocked
        /\ e.heldByCall = d.heldByCall /\ e.radioWaiting = d.radioWaiting
        /\ e.priorityBlocked = d.priorityBlocked
    BY <1>6, <1>7 DEF AosSet
  <2>3. /\ f.app = e.app /\ f.timers = e.timers /\ f.pending = e.pending
        /\ f.engine = NoEngine /\ f.txn = e.txn
        /\ f.started = e.started /\ f.blocked = e.blocked
        /\ f.heldByCall = e.heldByCall /\ f.radioWaiting = e.radioWaiting
        /\ f.priorityBlocked = e.priorityBlocked
    BY <1>7, <1>8 DEF AosSet
  <2> QED
    BY <1>5, <2>1, <2>2, <2>3
<1>10. RadioInv(f)
  BY <1>7, <1>9 DEF RadioInv
<1>11. /\ w \in AosSet /\ RadioInv(w)
       /\ w = [f EXCEPT !.state = "OFFLINE", !.txn = w.txn, !.timers = w.timers]
       /\ w.timers \in {f.timers, f.timers \ {"DEREG_TRAFFIC"}}
  BY <1>8, <1>10, SetStateFacts, Values
<1> HIDE DEF w
<1>12. /\ w.app = s.app /\ w.timers \subseteq s.timers /\ w.pending = {}
       /\ w.engine = NoEngine /\ w.state = "OFFLINE" /\ w.queue = f.queue
       /\ w.started = d.started /\ w.blocked = d.blocked
       /\ w.heldByCall = d.heldByCall /\ w.radioWaiting = d.radioWaiting
       /\ w.priorityBlocked = d.priorityBlocked
  BY <1>8, <1>9, <1>11, ZenonT(60) DEF AosSet
<1>13. Current(w) /\ Silent(w)
  BY <1>6, <1>8, <1>12 DEF Current, HeldBack, Silent
<1> QED
  BY <1>1, <1>11, <1>12, <1>13 DEF Clean

\* The fields the invariant speaks of, but for the queue.
Same(s, w) ==
    /\ w.app = s.app /\ w.state = s.state /\ w.pending = s.pending
    /\ w.timers = s.timers /\ w.started = s.started /\ w.blocked = s.blocked
    /\ w.heldByCall = s.heldByCall /\ w.radioWaiting = s.radioWaiting
    /\ w.priorityBlocked = s.priorityBlocked
    /\ w.engine = s.engine /\ w.txn = s.txn

\* What only the application and the environment change, and what holds the
\* registration back.
SameRest(s, w) ==
    w.app = s.app /\ w.luck = s.luck /\ w.call = s.call /\ w.allowed = s.allowed
SameHold(s, w) ==
    /\ w.started = s.started /\ w.blocked = s.blocked
    /\ w.heldByCall = s.heldByCall /\ w.radioWaiting = s.radioWaiting
    /\ w.priorityBlocked = s.priorityBlocked

\* What is left of the invariant for a registration that was destroyed.
LEMMA CleanGood == ASSUME NEW s, Clean(s) PROVE Good(s)
<1>1. s \in AosSet /\ LinkInv(s)
  BY LinkOfOffline DEF Clean
<1>2. StartedInv(s) /\ KeptInv(s) /\ HeldInv(s) /\ DownInv(s) /\ RecoverInv(s)
  BY DEF Clean, StartedInv, Current, KeptInv, HeldInv, IsRetryHeld, DownInv, RecoverInv
<1> QED
  BY <1>1, <1>2 DEF Good, Clean

\* The parts.
LEMMA GoodParts ==
    ASSUME NEW s
    PROVE  /\ Good(s) <=> Loose(s) /\ HeldInv(s)
           /\ Good(s) <=> Near(s) /\ KeptInv(s)
           /\ Good(s) => Owed(s)
BY DEF Good, Loose, Near, HeldInv, Owed

\* Fields the invariant does not speak of may change.
LEMMA SameKeeps ==
    ASSUME NEW s, NEW w \in AosSet, Same(s, w), w.queue = s.queue
    PROVE  /\ Good(s) => Good(w)
           /\ Loose(s) => Loose(w)
           /\ Near(s) => Near(w)
           /\ Clean(s) => Clean(w)
<1>1. HeldBack(w) = HeldBack(s)
  BY DEF HeldBack, Same
<1>2. /\ RadioInv(s) => RadioInv(w)
      /\ StartedInv(s) => StartedInv(w)
      /\ KeptInv(s) => KeptInv(w)
      /\ HeldInv(s) => HeldInv(w)
      /\ DownInv(s) => DownInv(w)
      /\ RecoverInv(s) => RecoverInv(w)
      /\ Current(s) => Current(w)
      /\ Silent(s) => Silent(w)
  BY <1>1 DEF Same, RadioInv, StartedInv, KeptInv, HeldInv, IsRetryHeld, DownInv,
     RecoverInv, Current, Silent, In
<1>3. s \in AosSet /\ LinkInv(s) => LinkInv(w)
  BY LinkPosted DEF Same
<1> QED
  BY <1>2, <1>3 DEF Good, Loose, Near, Clean, Same

\* A message to someone else is posted.
LEMMA PostKeeps ==
    ASSUME NEW s \in AosSet, NEW to, NEW what,
           [to |-> to, what |-> what] \in Messages,
           ~FromEngine([to |-> to, what |-> what])
    PROVE  LET w == Post(s, to, what) IN
           /\ w \in AosSet /\ Same(s, w)
           /\ w = [s EXCEPT !.queue = w.queue]
           /\ \A x : In(w, x) <=> In(s, x) \/ x = [to |-> to, what |-> what]
           /\ Good(s) => Good(w)
           /\ Near(s) => Near(w)
           /\ Clean(s) => Clean(w)
           /\ Silent(s) => Silent(w)
           /\ LinkInv(s) => LinkInv(w)
<1> DEFINE m == [to |-> to, what |-> what]
           w == Post(s, to, what)
<1>1. m \in Messages /\ ~FromEngine(m)
  OBVIOUS
<1>2. w = [s EXCEPT !.queue = Append(s.queue, m)]
  BY DEF Post
<1> HIDE DEF m, w
<1>3. Append(s.queue, m) \in Seq(Messages)
  BY <1>1, AppendFacts DEF AosSet
<1>4. w \in AosSet /\ Same(s, w) /\ w.queue = Append(s.queue, m)
      /\ w = [s EXCEPT !.queue = w.queue]
  BY <1>2, <1>3 DEF AosSet, Same
<1>5. /\ \A x : In(w, x) <=> In(s, x) \/ x = m
      /\ Silent(w) <=> Silent(s)
  BY <1>1, <1>4, PostedFacts
<1>6. HeldBack(w) = HeldBack(s)
  BY <1>4 DEF HeldBack, Same
<1>7. /\ RadioInv(s) => RadioInv(w)
      /\ StartedInv(s) => StartedInv(w)
      /\ KeptInv(s) => KeptInv(w)
      /\ HeldInv(s) => HeldInv(w)
      /\ DownInv(s) => DownInv(w)
      /\ RecoverInv(s) => RecoverInv(w)
      /\ Current(s) => Current(w)
  BY <1>4, <1>5, <1>6 DEF Same, RadioInv, StartedInv, KeptInv, HeldInv, IsRetryHeld,
     DownInv, RecoverInv, Current
<1>8. LinkInv(s) => LinkInv(w)
  BY <1>1, <1>4, LinkPosted DEF Same
<1> QED
  BY <1>4, <1>5, <1>7, <1>8 DEF Good, Near, Clean, Same, m, w

\* The messages that are posted.
LEMMA Posted ==
    /\ \A r \in Results : [to |-> "REPORT", what |-> r] \in Messages
                          /\ ~FromEngine([to |-> "REPORT", what |-> r])
    /\ \A r \in {"RESTART", "UPDATE"} :
          [to |-> "REG", what |-> r] \in Messages
          /\ ~FromEngine([to |-> "REG", what |-> r])
    /\ \A r \in {"START", "UPDATE", "STOP", "RECOVER", "ACTIVATED", "DEACTIVATED"} :
          [to |-> "APP", what |-> r] \in Messages
          /\ ~FromEngine([to |-> "APP", what |-> r])
BY DEF Messages, FromEngine

\* A report is a message to the application.
LEMMA ReportKeeps ==
    ASSUME NEW s \in AosSet, NEW r \in Results
    PROVE  LET w == Report(s, r) IN
           /\ w \in AosSet /\ Same(s, w)
           /\ w = [s EXCEPT !.queue = w.queue]
           /\ \A x : In(w, x) <=> In(s, x) \/ x = [to |-> "REPORT", what |-> r]
           /\ Good(s) => Good(w)
           /\ Near(s) => Near(w)
           /\ Clean(s) => Clean(w)
           /\ Silent(s) => Silent(w)
           /\ LinkInv(s) => LinkInv(w)
BY Posted, PostKeeps DEF Report

\* ReportTryingState is one.
LEMMA TryingIsReported ==
    ASSUME NEW s
    PROVE  \E r \in Results : ReportTryingState(s) = Report(s, r)
BY DEF ReportTryingState, Results

-----------------------------------------------------------------------------
(* Sending.                                                                *)

\* A transaction goes ahead, or is held back and owed.
LEMMA CheckRadioFacts ==
    ASSUME NEW s \in AosSet, RadioInv(s), Current(s)
    PROVE  LET w == CheckRadioReadyAndSetTxnPending(s) IN
           /\ w \in AosSet /\ RadioInv(w) /\ Current(w)
           /\ SameRest(s, w) /\ w.state = s.state /\ w.timers = s.timers
           /\ w.engine = s.engine /\ w.queue = s.queue
           /\ w.ok => w.started = s.started /\ w.pending = s.pending
           /\ ~w.ok => /\ HeldBack(w) /\ ~w.started
                       /\ w.pending \in {s.pending \cup {"TRAFFIC"},
                                         s.pending \cup {"TRANSACTION"}}
<1> DEFINE w == CheckRadioReadyAndSetTxnPending(s)
           tr == StartTraffic(s.txn, "REG")
<1>1. s.txn \in Traffic /\ "REG" \in TrafficTypes /\ s.pending \in SUBSET PendingKinds
  BY Values DEF AosSet
<1>2. tr \in Traffic /\ tr.traffics = s.txn.traffics \cup {"REG"} /\ RadioIsReleased(tr)
  BY <1>1, StartTrafficFacts
<1>3. CASE ~s.allowed
  <2> DEFINE a == [s EXCEPT !.priorityBlocked = TRUE]
             b == UpdateTransactionStarted(a)
  <2>1. a \in AosSet /\ a.priorityBlocked = TRUE /\ a.pending = s.pending
        /\ a.txn = s.txn /\ a.timers = s.timers
        /\ a = [s EXCEPT !.priorityBlocked = TRUE]
    BY DEF AosSet
  <2>2. RadioInv(a) /\ HeldBack(a)
    BY <2>1 DEF RadioInv, HeldBack
  <2> HIDE DEF a
  <2>3. b \in AosSet /\ Current(b) /\ RadioInv(b) /\ HeldBack(b)
        /\ b = [a EXCEPT !.started = FALSE]
    BY <2>1, <2>2, UpdateStartedFacts
  <2>4. w = [b EXCEPT !.pending = b.pending \cup {"TRAFFIC"}, !.ok = FALSE]
    BY <1>3 DEF CheckRadioReadyAndSetTxnPending, AddPending, a
  <2> HIDE DEF b, w
  <2>5. /\ b.pending = s.pending /\ b.txn = s.txn /\ b.timers = s.timers
        /\ b = [s EXCEPT !.priorityBlocked = TRUE, !.started = FALSE]
    BY <2>1, <2>3 DEF AosSet
  <2>6. b.pending \cup {"TRAFFIC"} \in SUBSET PendingKinds
    BY <1>1, <2>5, Values
  <2>7. /\ w \in AosSet /\ w.pending = s.pending \cup {"TRAFFIC"} /\ ~w.ok /\ w.txn = s.txn
        /\ w.timers = s.timers /\ ~w.started /\ w.priorityBlocked = TRUE
        /\ w.radioWaiting = s.radioWaiting /\ w.ok = FALSE /\ w.started = FALSE
    BY <2>3, <2>4, <2>5, <2>6 DEF AosSet
  <2>8. SameRest(s, w) /\ w.state = s.state /\ w.engine = s.engine /\ w.queue = s.queue
    BY <2>3, <2>4, <2>5 DEF AosSet, SameRest
  <2>9. RadioInv(w) /\ HeldBack(w) /\ Current(w)
    BY <2>7 DEF RadioInv, HeldBack, Current
  <2> QED
    BY <2>7, <2>8, <2>9 DEF w
<1>4. CASE s.allowed /\ GoesAhead(s.txn, "REG")
  <2>1. w = [s EXCEPT !.txn = tr, !.ok = TRUE]
    BY <1>4 DEF CheckRadioReadyAndSetTxnPending
  <2> HIDE DEF w, tr
  <2>2. /\ w \in AosSet /\ w.txn = tr /\ w.ok = TRUE /\ w.timers = s.timers
        /\ w.pending = s.pending /\ w.started = s.started
        /\ w.radioWaiting = s.radioWaiting /\ w.priorityBlocked = s.priorityBlocked
        /\ w.blocked = s.blocked /\ w.heldByCall = s.heldByCall
    BY <1>2, <2>1 DEF AosSet
  <2>3. SameRest(s, w) /\ w.state = s.state /\ w.engine = s.engine /\ w.queue = s.queue
    BY <1>2, <2>1 DEF AosSet, SameRest
  <2>4. RadioInv(w)
    BY <1>2, <2>2 DEF RadioInv
  <2>5. Current(w)
    BY <2>2 DEF Current, HeldBack
  <2> QED
    BY <2>2, <2>3, <2>4, <2>5 DEF w
<1>5. CASE s.allowed /\ ~GoesAhead(s.txn, "REG")
  <2> DEFINE a == [s EXCEPT !.txn = tr, !.radioWaiting = TRUE]
             b == UpdateTransactionStarted(a)
  <2>1. w = [b EXCEPT !.pending = b.pending \cup {"TRANSACTION"}, !.ok = FALSE]
    BY <1>5 DEF CheckRadioReadyAndSetTxnPending, AddPending
  <2> HIDE DEF w, tr
  <2>2. a \in AosSet /\ a.radioWaiting = TRUE /\ a.pending = s.pending
        /\ a.txn = tr /\ a.timers = s.timers
        /\ a = [s EXCEPT !.txn = tr, !.radioWaiting = TRUE]
    BY <1>2 DEF AosSet
  <2>3. RadioInv(a) /\ HeldBack(a)
    BY <1>2, <2>2 DEF RadioInv, HeldBack
  <2> HIDE DEF a
  <2>4. b \in AosSet /\ Current(b) /\ RadioInv(b) /\ HeldBack(b)
        /\ b = [a EXCEPT !.started = FALSE]
    BY <2>2, <2>3, UpdateStartedFacts
  <2> HIDE DEF b
  <2>5. /\ b.pending = s.pending /\ b.txn = tr /\ b.timers = s.timers
        /\ b = [s EXCEPT !.txn = tr, !.radioWaiting = TRUE, !.started = FALSE]
    BY <2>2, <2>4 DEF AosSet
  <2>6. b.pending \cup {"TRANSACTION"} \in SUBSET PendingKinds
    BY <1>1, <2>5, Values
  <2>7. /\ w \in AosSet /\ w.pending = s.pending \cup {"TRANSACTION"} /\ ~w.ok
        /\ w.txn = tr /\ w.timers = s.timers /\ ~w.started /\ w.radioWaiting = TRUE
        /\ w.ok = FALSE /\ w.started = FALSE
    <3>1. /\ b.txn = tr /\ b.timers = s.timers /\ b.started = FALSE
          /\ b.radioWaiting = TRUE /\ b.pending = s.pending
      BY <2>2, <2>4, <2>5 DEF AosSet
    <3> DEFINE p == b.pending \cup {"TRANSACTION"}
    <3>2. w = [b EXCEPT !.pending = p, !.ok = FALSE] /\ p \in SUBSET PendingKinds
      BY <2>1, <2>6
    <3> HIDE DEF p
    <3>3. /\ w \in AosSet /\ w.pending = p /\ w.ok = FALSE
          /\ w.txn = b.txn /\ w.timers = b.timers /\ w.started = b.started
          /\ w.radioWaiting = b.radioWaiting
      BY <2>4, <3>2, ZenonT(60) DEF AosSet
    <3> QED
      BY <3>1, <3>3 DEF p
  <2>8. SameRest(s, w) /\ w.state = s.state /\ w.engine = s.engine /\ w.queue = s.queue
    <3>1. SameRest(s, b) /\ b.state = s.state /\ b.engine = s.engine
          /\ b.queue = s.queue
      BY <2>5 DEF AosSet, SameRest
    <3>2. SameRest(b, w) /\ w.state = b.state /\ w.engine = b.engine
          /\ w.queue = b.queue
      BY <2>1, <2>4 DEF AosSet, SameRest
    <3> QED
      BY <3>1, <3>2 DEF SameRest
  <2>9. RadioInv(w)
    BY <1>2, <2>7 DEF RadioInv
  <2>10. HeldBack(w)
    BY <2>7 DEF HeldBack
  <2>11. Current(w)
    BY <2>7, <2>10 DEF Current
  <2> QED
    BY <2>7, <2>8, <2>9, <2>10, <2>11 DEF w
<1>6. s.allowed \in BOOLEAN
  BY DEF AosSet
<1> QED
  BY <1>3, <1>4, <1>5, <1>6

\* The engine sends a REGISTER only where it has none on its way.
LEMMA SendRegisterFacts ==
    ASSUME NEW s \in AosSet, NEW restore \in BOOLEAN
    PROVE  LET w == SendRegister(s, restore)
               e == IF restore THEN NewEngine ELSE s.engine IN
           /\ w \in AosSet
           /\ SameRest(s, w) /\ SameHold(s, w) /\ w.state = s.state
           /\ w.timers = s.timers /\ w.pending = s.pending /\ w.txn = s.txn
           /\ w.queue = s.queue
           /\ w.ok => /\ e.state \in {"CREATED", "ACTIVE"} /\ e.sub = "IDLE"
                      /\ s.engine # NoEngine
                      /\ w.engine.state =
                            IF e.state = "CREATED" THEN "INIT" ELSE e.state
                      /\ w.engine.sub = "REGISTERING"
                      /\ w.engine.refresh = e.refresh
           /\ ~w.ok => w.engine = IF s.engine = NoEngine THEN s.engine ELSE e
<1> DEFINE w == SendRegister(s, restore)
           e == IF restore THEN NewEngine ELSE s.engine
           sent == [e EXCEPT !.state = IF @ = "CREATED" THEN "INIT" ELSE @,
                             !.sub = "REGISTERING"]
           ready == s.engine # NoEngine /\ e.sub = "IDLE"
                    /\ e.state \in {"CREATED", "ACTIVE"}
           f == IF ready THEN s.faults + 1 ELSE s.faults
<1>1. e \in Engines \cup {NoEngine} /\ s.faults \in Nat /\ f \in Nat
  BY DEF AosSet, NewEngine, Engines, EngineStates
<1>2. CASE s.engine = NoEngine
  <2>1. w = [s EXCEPT !.ok = FALSE]
    BY <1>2 DEF SendRegister
  <2> HIDE DEF w
  <2>2. w \in AosSet /\ w.ok = FALSE /\ w.engine = s.engine /\ w.faults = s.faults
    BY <2>1 DEF AosSet
  <2>3. /\ SameRest(s, w) /\ SameHold(s, w) /\ w.state = s.state
        /\ w.timers = s.timers /\ w.pending = s.pending /\ w.txn = s.txn
        /\ w.queue = s.queue
    BY <2>1 DEF AosSet, SameRest, SameHold
  <2> QED
    BY <1>2, <2>2, <2>3 DEF w
<1>3. CASE s.engine # NoEngine /\ ready /\ s.luck.send
  <2>1. w = [s EXCEPT !.ok = TRUE, !.engine = sent]
    BY <1>3 DEF SendRegister
  <2>2. e \in Engines
    BY <1>1, <1>3 DEF NoEngine
  <2>3. /\ sent \in Engines /\ sent.sub = "REGISTERING" /\ sent.refresh = e.refresh
        /\ sent.state = IF e.state = "CREATED" THEN "INIT" ELSE e.state
    BY <2>2 DEF Engines, EngineStates
  <2> HIDE DEF w, sent
  <2>4. w \in AosSet /\ w.ok = TRUE /\ w.engine = sent /\ w.faults = s.faults
    BY <2>1, <2>3 DEF AosSet
  <2>5. /\ SameRest(s, w) /\ SameHold(s, w) /\ w.state = s.state
        /\ w.timers = s.timers /\ w.pending = s.pending /\ w.txn = s.txn
        /\ w.queue = s.queue
    BY <2>1 DEF AosSet, SameRest, SameHold
  <2> QED
    BY <1>3, <2>3, <2>4, <2>5 DEF w
<1>4. CASE s.engine # NoEngine /\ ~(ready /\ s.luck.send)
  <2>1. w = [s EXCEPT !.ok = FALSE, !.engine = e, !.faults = f]
    BY <1>4 DEF SendRegister
  <2> HIDE DEF w, e, f
  <2>2. w \in AosSet /\ w.ok = FALSE /\ w.engine = e /\ w.faults = f
    BY <1>1, <2>1 DEF AosSet
  <2>3. /\ SameRest(s, w) /\ SameHold(s, w) /\ w.state = s.state
        /\ w.timers = s.timers /\ w.pending = s.pending /\ w.txn = s.txn
        /\ w.queue = s.queue
    BY <2>1 DEF AosSet, SameRest, SameHold
  <2> QED
    BY <1>4, <2>2, <2>3 DEF w, e
<1> QED
  BY <1>2, <1>3, <1>4

\* A new engine sends its first request.
LEMMA CreateFacts ==
    ASSUME NEW s \in AosSet
    PROVE  LET w == CreateRegistration(s) IN
           /\ w \in AosSet /\ Silent(w)
           /\ SameRest(s, w) /\ SameHold(s, w) /\ w.state = s.state
           /\ w.timers = s.timers /\ w.pending = s.pending /\ w.txn = s.txn
           /\ w.ok => /\ w.engine.state = "INIT" /\ w.engine.sub = "REGISTERING"
                      /\ w.engine.refresh = "OFF"
           /\ ~w.ok => w.engine \in {NoEngine, NewEngine}
<1> DEFINE a == DestroyEngine(s)
           b == [a EXCEPT !.engine = NewEngine]
           c == SendRegister(b, FALSE)
           d == [a EXCEPT !.ok = FALSE, !.faults = a.faults + 1]
           w == CreateRegistration(s)
<1>1. w = IF s.luck.create THEN c ELSE d
  BY DEF CreateRegistration
<1>2. a \in AosSet /\ Silent(a) /\ a = [s EXCEPT !.engine = NoEngine, !.queue = a.queue]
  BY DestroyEngineFacts
<1>3. NewEngine \in Engines /\ NewEngine # NoEngine
  BY DEF NewEngine, NoEngine, Engines, EngineStates
<1> HIDE DEF a
<1>4. /\ SameRest(s, a) /\ SameHold(s, a) /\ a.state = s.state
      /\ a.timers = s.timers /\ a.pending = s.pending /\ a.txn = s.txn
      /\ a.engine = NoEngine /\ a.faults \in Nat
  BY <1>2 DEF AosSet, SameRest, SameHold
<1>5. /\ b \in AosSet /\ b.engine = NewEngine /\ b.queue = a.queue
      /\ SameRest(a, b) /\ SameHold(a, b) /\ b.state = a.state
      /\ b.timers = a.timers /\ b.pending = a.pending /\ b.txn = a.txn
  BY <1>2, <1>3 DEF AosSet, SameRest, SameHold
<1> HIDE DEF b
<1>6. /\ c \in AosSet /\ c.queue = b.queue
      /\ SameRest(b, c) /\ SameHold(b, c) /\ c.state = b.state
      /\ c.timers = b.timers /\ c.pending = b.pending /\ c.txn = b.txn
      /\ c.ok => /\ c.engine.state = "INIT" /\ c.engine.sub = "REGISTERING"
                 /\ c.engine.refresh = "OFF"
      /\ ~c.ok => c.engine = NewEngine
  <2>1. /\ NewEngine.state = "CREATED" /\ NewEngine.sub = "IDLE"
        /\ NewEngine.refresh = "OFF"
    BY DEF NewEngine
  <2>2. FALSE \in BOOLEAN
    OBVIOUS
  <2>3. /\ c \in AosSet /\ c.queue = b.queue
        /\ SameRest(b, c) /\ SameHold(b, c) /\ c.state = b.state
        /\ c.timers = b.timers /\ c.pending = b.pending /\ c.txn = b.txn
    BY <1>5, <2>2, SendRegisterFacts
  <2> DEFINE e == IF FALSE THEN NewEngine ELSE b.engine
  <2>4. /\ c.ok => /\ e.state \in {"CREATED", "ACTIVE"} /\ e.sub = "IDLE"
                   /\ b.engine # NoEngine
                   /\ c.engine.state =
                         IF e.state = "CREATED" THEN "INIT" ELSE e.state
                   /\ c.engine.sub = "REGISTERING"
                   /\ c.engine.refresh = e.refresh
        /\ ~c.ok => c.engine = IF b.engine = NoEngine THEN b.engine ELSE e
    BY <1>5, <2>2, SendRegisterFacts, ZenonT(60)
  <2>5. e = NewEngine
    BY <1>5
  <2> HIDE DEF c, e
  <2>6. c.ok => /\ c.engine.state = "INIT" /\ c.engine.sub = "REGISTERING"
                /\ c.engine.refresh = "OFF"
    BY <2>1, <2>4, <2>5
  <2>7. ~c.ok => c.engine = NewEngine
    BY <1>3, <1>5, <2>4, <2>5
  <2> QED
    BY <2>3, <2>6, <2>7
<1> HIDE DEF c
<1>7. a.faults + 1 \in Nat
  BY <1>4, SMT
<1>8. /\ d \in AosSet /\ d.ok = FALSE /\ d.engine = NoEngine /\ d.queue = a.queue
      /\ SameRest(a, d) /\ SameHold(a, d) /\ d.state = a.state
      /\ d.timers = a.timers /\ d.pending = a.pending /\ d.txn = a.txn
  BY <1>2, <1>4, <1>7 DEF AosSet, SameRest, SameHold
<1>9. Silent(c) /\ Silent(d)
  BY <1>2, <1>5, <1>6, <1>8 DEF Silent
<1> HIDE DEF d, w
<1>10. /\ SameRest(s, c) /\ SameHold(s, c) /\ SameRest(s, d) /\ SameHold(s, d)
  BY <1>4, <1>5, <1>6, <1>8 DEF SameRest, SameHold
<1>11. w \in {c, d}
  BY <1>1
<1>12. CASE w = c
  BY <1>12, <1>4, <1>5, <1>6, <1>9, <1>10 DEF w
<1>13. CASE w = d
  BY <1>13, <1>4, <1>8, <1>9, <1>10 DEF w
<1> QED
  BY <1>11, <1>12, <1>13

-----------------------------------------------------------------------------
(* Registering.                                                            *)

\* A registration that is offline, below an application that wants it.
LEMMA OfflineGood ==
    ASSUME NEW s \in AosSet, RadioInv(s), Current(s), LinkInv(s),
           s.state = "OFFLINE", AppUp(s)
    PROVE  Good(s)
BY DEF Good, StartedInv, Current, KeptInv, HeldInv, IsRetryHeld, DownInv, AppUp, RecoverInv

\* A failure that nobody foresaw.
LEMMA UnpredictableGood ==
    ASSUME NEW s \in AosSet, RadioInv(s)
    PROVE  Clean(UnpredictableFailure(s)) /\ Good(UnpredictableFailure(s))
<1> DEFINE d == Destroy(s)
<1>1. Clean(d) /\ d \in AosSet
  BY DestroyFacts DEF Clean
<1>2. "INTERNAL" \in Results
  BY DEF Results
<1> HIDE DEF d
<1>3. Clean(Report(d, "INTERNAL"))
  BY <1>1, <1>2, ReportKeeps
<1> QED
  BY <1>3, CleanGood DEF UnpredictableFailure, d

\* Destroyed, and reported.
LEMMA DestroyGood ==
    ASSUME NEW s \in AosSet, RadioInv(s), NEW r \in Results
    PROVE  /\ Good(Destroy(s))
           /\ Good(Report(Destroy(s), r))
           /\ Clean(Report(Destroy(s), r))
<1> DEFINE d == Destroy(s)
<1>1. Clean(d) /\ d \in AosSet
  BY DestroyFacts DEF Clean
<1> HIDE DEF d
<1>2. Clean(Report(d, r))
  BY <1>1, ReportKeeps
<1> QED
  BY <1>1, <1>2, CleanGood DEF d

\* The timer that registers anew.
LEMMA RecoverLater ==
    ASSUME NEW s, Clean(s)
    PROVE  Good(StartTimer(s, "OFFLINE_RECOVER"))
<1> DEFINE w == StartTimer(s, "OFFLINE_RECOVER")
<1>1. w = [s EXCEPT !.timers = s.timers \cup {"OFFLINE_RECOVER"}] /\ s \in AosSet
  BY DEF StartTimer, Clean
<1>2. s.timers \cup {"OFFLINE_RECOVER"} \in SUBSET Timers
  BY <1>1, Values DEF AosSet
<1> HIDE DEF w
<1>3. /\ w \in AosSet /\ w.timers = s.timers \cup {"OFFLINE_RECOVER"}
      /\ w.txn = s.txn /\ w.state = s.state /\ w.engine = s.engine
      /\ w.pending = s.pending /\ w.queue = s.queue /\ SameHold(s, w)
  BY <1>1, <1>2 DEF AosSet, SameHold
<1>4. Clean(w)
  BY <1>3 DEF Clean, RadioInv, Current, HeldBack, SameHold, Silent
<1> QED
  BY <1>4, CleanGood DEF w

\* The state is left for a trying one after a request has gone out.
LEMMA EnterTrying ==
    ASSUME NEW c \in AosSet, RadioInv(c), Current(c), Silent(c), AppUp(c),
           "OFFLINE_RECOVER" \notin c.timers,
           NEW new \in {"REGISTERING", "REFRESHING"},
           \/ /\ new = "REGISTERING"
              /\ c.engine.state = "INIT" /\ c.engine.sub = "REGISTERING"
              /\ c.engine.refresh = "OFF"
           \/ /\ new = "REFRESHING"
              /\ c.engine.state = "ACTIVE"
              /\ c.engine.sub \in {"REGISTERING", "REFRESHING"}
    PROVE  Good(ReportTryingState(SetState(c, new)))
<1> DEFINE w == SetState(c, new)
<1>1. new \in States
  BY Values
<1>2. /\ w \in AosSet /\ RadioInv(w)
      /\ w = [c EXCEPT !.state = new, !.txn = w.txn, !.timers = w.timers]
      /\ w.timers \in {c.timers, c.timers \ {"DEREG_TRAFFIC"}}
  BY <1>1, SetStateFacts
<1> HIDE DEF w
<1>3. /\ w.state = new /\ w.app = c.app /\ w.engine = c.engine
      /\ w.queue = c.queue /\ SameHold(c, w)
  BY <1>2 DEF AosSet, SameHold
<1>4. Current(w) /\ Silent(w) /\ "OFFLINE_RECOVER" \notin w.timers
  BY <1>2, <1>3 DEF Current, HeldBack, SameHold, Silent
<1>5. LinkInv(w)
  BY <1>2, <1>3, <1>4, LinkOfNew, LinkOfActive
<1>6. Good(w)
  BY <1>2, <1>3, <1>4, <1>5
     DEF Good, StartedInv, Current, KeptInv, HeldInv, IsRetryHeld, DownInv, AppUp,
         RecoverInv
<1>7. PICK r \in Results : ReportTryingState(w) = Report(w, r)
  BY TryingIsReported
<1>8. Good(Report(w, r))
  BY <1>2, <1>6, ReportKeeps
<1> QED
  BY <1>7, <1>8 DEF w

\* A registration that could not be created is tried again, or given up.
LEMMA CreationFailedGood ==
    ASSUME NEW c \in AosSet, RadioInv(c), Current(c), Silent(c), AppUp(c),
           c.state = "OFFLINE", c.engine \in {NoEngine, NewEngine}
    PROVE  Good(CreationFailed(c))
<1> DEFINE a == [c EXCEPT !.failures = c.failures + 1]
           b == [c EXCEPT !.failures = 0]
<1>1. CASE c.failures < CREATE_REG_FAILURE_MAX_COUNT
  <2>1. c.failures + 1 \in 0 .. CREATE_REG_FAILURE_MAX_COUNT
    BY <1>1, AosBounds, SMT DEF AosSet
  <2>2. a \in AosSet /\ Same(c, a) /\ a.queue = c.queue
    BY <2>1 DEF AosSet, Same
  <2>3. Good(c)
    BY LinkOfOffline, OfflineGood
  <2>4. Good(a)
    BY <2>2, <2>3, SameKeeps
  <2> HIDE DEF a
  <2>5. Good(Post(a, "REG", "RESTART"))
    BY <2>2, <2>4, Posted, PostKeeps
  <2> QED
    BY <1>1, <2>5 DEF CreationFailed, a
<1>2. CASE ~(c.failures < CREATE_REG_FAILURE_MAX_COUNT)
  <2>1. 0 \in 0 .. CREATE_REG_FAILURE_MAX_COUNT
    BY AosBounds, SMT
  <2>2. b \in AosSet /\ b.txn = c.txn /\ b.timers = c.timers
    BY <2>1 DEF AosSet
  <2>3. RadioInv(b)
    BY <2>2 DEF RadioInv
  <2> HIDE DEF b
  <2>4. Good(UnpredictableFailure(b))
    BY <2>2, <2>3, UnpredictableGood
  <2> QED
    BY <1>2, <2>4 DEF CreationFailed, b
<1> QED
  BY <1>1, <1>2

\* A new registration is created and sent.
LEMMA RecreateGood ==
    ASSUME NEW s \in AosSet, RadioInv(s), Current(s), AppUp(s),
           s.state = "OFFLINE", "OFFLINE_RECOVER" \notin s.timers
    PROVE  Good(Recreate(s))
<1> DEFINE a == CreateRegistration(s)
<1>1. /\ a \in AosSet /\ Silent(a)
      /\ SameRest(s, a) /\ SameHold(s, a) /\ a.state = s.state
      /\ a.timers = s.timers /\ a.pending = s.pending /\ a.txn = s.txn
      /\ a.ok => /\ a.engine.state = "INIT" /\ a.engine.sub = "REGISTERING"
                 /\ a.engine.refresh = "OFF"
  BY CreateFacts
<1> HIDE DEF a
<1>2. RadioInv(a) /\ Current(a) /\ AppUp(a) /\ "OFFLINE_RECOVER" \notin a.timers
  BY <1>1 DEF RadioInv, Current, HeldBack, SameHold, SameRest, AppUp
<1>3. a.ok => Good(Trying(a))
  BY <1>1, <1>2, EnterTrying DEF Trying
<1>4. Good(UnpredictableFailure(a))
  BY <1>1, <1>2, UnpredictableGood
<1> QED
  BY <1>3, <1>4 DEF Recreate, a

\* A registration is destroyed and made anew.
LEMMA ReinitiateGood ==
    ASSUME NEW s \in AosSet, RadioInv(s), AppUp(s), "OFFLINE_RECOVER" \notin s.timers
    PROVE  Good(ProcessReinitiate(s))
<1> DEFINE d == Destroy(s)
<1>1. Clean(d) /\ d.app = s.app /\ d.timers \subseteq s.timers
  BY DestroyFacts
<1> HIDE DEF d
<1>2. Good(Recreate(d))
  BY <1>1, RecreateGood DEF Clean, AppUp
<1> QED
  BY <1>2 DEF ProcessReinitiate, d

\* Where Start may begin: anything is destroyed but what is offline already.
LEMMA StartGood ==
    ASSUME NEW s \in AosSet, RadioInv(s), AppUp(s),
           s.state = "OFFLINE" => Current(s) /\ LinkInv(s)
    PROVE  Good(Start(s))
<1> DEFINE z == IF s.state = "OFFLINE" THEN s ELSE Destroy(s)
           a == StopTimer(z, "OFFLINE_RECOVER")
           b == CheckRadioReadyAndSetTxnPending(a)
           c == CreateRegistration(b)
           d == [c EXCEPT !.failures = 0]
           p == AddPending(a, "START")
<1>1. /\ z \in AosSet /\ RadioInv(z) /\ Current(z) /\ LinkInv(z) /\ AppUp(z)
      /\ z.state = "OFFLINE"
  <2>1. CASE s.state = "OFFLINE"
    BY <2>1
  <2>2. CASE s.state # "OFFLINE"
    <3> DEFINE d0 == Destroy(s)
    <3>1. Clean(d0) /\ d0.app = s.app
      BY DestroyFacts
    <3> HIDE DEF d0
    <3>2. LinkInv(d0)
      BY <3>1, LinkOfOffline DEF Clean
    <3> QED
      BY <2>2, <3>1, <3>2 DEF Clean, AppUp, d0
  <2> QED
    BY <2>1, <2>2
<1> HIDE DEF z
<1>2. /\ a \in AosSet /\ a.timers = z.timers \ {"OFFLINE_RECOVER"}
      /\ SameRest(z, a) /\ SameHold(z, a) /\ a.state = z.state
      /\ a.engine = z.engine /\ a.txn = z.txn /\ a.queue = z.queue
  <2>1. a = [z EXCEPT !.timers = z.timers \ {"OFFLINE_RECOVER"}]
    BY DEF StopTimer
  <2> HIDE DEF a
  <2>2. z.timers \ {"OFFLINE_RECOVER"} \in SUBSET Timers
    BY <1>1 DEF AosSet
  <2> QED
    BY <1>1, <2>1, <2>2 DEF AosSet, SameRest, SameHold
<1> HIDE DEF a
<1>3. RadioInv(a) /\ Current(a) /\ LinkInv(a) /\ AppUp(a) /\ a.state = "OFFLINE"
      /\ "OFFLINE_RECOVER" \notin a.timers
  <2>1. LinkInv(a)
    BY <1>1, <1>2, LinkPosted
  <2> QED
    BY <1>1, <1>2, <2>1 DEF RadioInv, Current, HeldBack, SameHold, SameRest, AppUp
<1>4. CASE ~a.started
  <2>1. p = [a EXCEPT !.pending = a.pending \cup {"START"}]
    BY DEF AddPending
  <2> HIDE DEF p
  <2>2. a.pending \cup {"START"} \in SUBSET PendingKinds
    BY <1>2, Values DEF AosSet
  <2>3. /\ p \in AosSet /\ SameRest(a, p) /\ SameHold(a, p) /\ p.state = a.state
        /\ p.engine = a.engine /\ p.txn = a.txn /\ p.queue = a.queue
        /\ p.timers = a.timers
    BY <1>2, <2>1, <2>2 DEF AosSet, SameRest, SameHold
  <2>4. LinkInv(p)
    BY <1>2, <1>3, <2>3, LinkPosted
  <2>5. Good(p)
    BY <1>3, <2>3, <2>4, OfflineGood
       DEF RadioInv, Current, HeldBack, SameHold, SameRest, AppUp
  <2> QED
    BY <1>4, <2>5 DEF Start, p, a, z
<1>5. /\ b \in AosSet /\ RadioInv(b) /\ Current(b)
      /\ SameRest(a, b) /\ b.state = a.state /\ b.timers = a.timers
      /\ b.engine = a.engine /\ b.queue = a.queue
  BY <1>2, <1>3, CheckRadioFacts
<1> HIDE DEF b
<1>6. CASE a.started /\ ~b.ok
  <2>1. LinkInv(b)
    BY <1>2, <1>3, <1>5, LinkPosted
  <2>2. Good(b)
    BY <1>3, <1>5, <2>1, OfflineGood DEF SameRest, AppUp
  <2> QED
    BY <1>6, <2>2 DEF Start, b, a, z
<1>7. /\ c \in AosSet /\ Silent(c)
      /\ SameRest(b, c) /\ SameHold(b, c) /\ c.state = b.state
      /\ c.timers = b.timers /\ c.pending = b.pending /\ c.txn = b.txn
      /\ c.ok => /\ c.engine.state = "INIT" /\ c.engine.sub = "REGISTERING"
                 /\ c.engine.refresh = "OFF"
      /\ ~c.ok => c.engine \in {NoEngine, NewEngine}
  BY <1>5, CreateFacts
<1> HIDE DEF c
<1>8. RadioInv(c) /\ Current(c) /\ AppUp(c) /\ "OFFLINE_RECOVER" \notin c.timers
      /\ c.state = "OFFLINE"
  BY <1>3, <1>5, <1>7 DEF RadioInv, Current, HeldBack, SameHold, SameRest, AppUp
<1>9. CASE a.started /\ b.ok /\ ~c.ok
  <2>1. Good(CreationFailed(c))
    BY <1>7, <1>8, <1>9, CreationFailedGood
  <2> QED
    BY <1>9, <2>1 DEF Start, c, b, a, z
<1>10. CASE a.started /\ b.ok /\ c.ok
  <2>1. 0 \in 0 .. CREATE_REG_FAILURE_MAX_COUNT
    BY AosBounds, SMT
  <2>2. /\ d \in AosSet /\ d.queue = c.queue /\ d.engine = c.engine
        /\ SameRest(c, d) /\ SameHold(c, d) /\ d.state = c.state
        /\ d.timers = c.timers /\ d.txn = c.txn
    BY <1>7, <2>1 DEF AosSet, SameRest, SameHold
  <2> HIDE DEF d
  <2>3. RadioInv(d) /\ Current(d) /\ AppUp(d) /\ Silent(d)
    BY <1>7, <1>8, <2>2 DEF RadioInv, Current, HeldBack, SameHold, SameRest, AppUp, Silent
  <2>4. Good(Trying(d))
    BY <1>7, <1>8, <1>10, <2>2, <2>3, EnterTrying DEF Trying
  <2> QED
    BY <1>10, <2>4 DEF Start, d, c, b, a, z
<1> QED
  BY <1>4, <1>6, <1>9, <1>10

-----------------------------------------------------------------------------
(* Coming to rest with a registration that is kept.                        *)

RegUpdate == [to |-> "REG", what |-> "UPDATE"]
Owes == {"START", "TRAFFIC", "TRANSACTION"}

\* An engine that has been active and has nothing under way.
Resting(s) ==
    /\ s.engine.state \in {"ACTIVE", "TERMINATED"} /\ s.engine.sub = "IDLE"
    /\ EngineInv(s.engine) /\ ~HasResult(s)
    /\ In(s, EngineEnd) => s.engine.state = "TERMINATED"
    /\ s.engine.state = "TERMINATED" => s.engine.refresh # "HALF"

\* That is what the link says of a registration that is kept.
LEMMA RestingLink ==
    ASSUME NEW s \in AosSet, s.state \in {"REGISTERED", "REFRESHSTOP"}
    PROVE  LinkInv(s) <=> Resting(s)
<1>1. LinkInv(s) => ~HasResult(s)
  BY NoResultAtRest DEF LinkInv
<1>2. LinkInv(s) => Resting(s)
  BY <1>1 DEF LinkInv, Resting, EndInv, StateInv, RefreshInv
<1>3. Resting(s) => ResultInv(s)
  BY DEF Resting, ResultInv, HasResult
<1>4. Resting(s) => EndInv(s) /\ EngineInv(s.engine)
  BY DEF Resting, EndInv
<1>5. Resting(s) => StateInv(s) /\ TryingInv(s) /\ RefreshInv(s)
  BY DEF Resting, StateInv, TryingInv, RefreshInv
<1> QED
  BY <1>2, <1>3, <1>4, <1>5 DEF LinkInv

\* It depends on the engine and the queue.
LEMMA RestingSame ==
    ASSUME NEW s, NEW w, Resting(s), w.engine = s.engine, w.queue = s.queue
    PROVE  Resting(w)
BY DEF Resting, HasResult, In

\* Something to do is remembered.
LEMMA AddPendingFacts ==
    ASSUME NEW s \in AosSet, NEW kind \in PendingKinds
    PROVE  LET w == AddPending(s, kind) IN
           /\ w \in AosSet /\ w.pending = s.pending \cup {kind}
           /\ SameRest(s, w) /\ SameHold(s, w) /\ w.state = s.state
           /\ w.engine = s.engine /\ w.txn = s.txn /\ w.queue = s.queue
           /\ w.timers = s.timers
           /\ RadioInv(s) => RadioInv(w)
           /\ Current(s) => Current(w)
<1> DEFINE w == AddPending(s, kind)
<1>1. w = [s EXCEPT !.pending = s.pending \cup {kind}]
  BY DEF AddPending
<1> HIDE DEF w
<1>2. s.pending \cup {kind} \in SUBSET PendingKinds
  BY DEF AosSet
<1>3. /\ w \in AosSet /\ w.pending = s.pending \cup {kind}
      /\ SameRest(s, w) /\ SameHold(s, w) /\ w.state = s.state
      /\ w.engine = s.engine /\ w.txn = s.txn /\ w.queue = s.queue
      /\ w.timers = s.timers
  BY <1>1, <1>2 DEF AosSet, SameRest, SameHold
<1>4. (RadioInv(s) => RadioInv(w)) /\ (Current(s) => Current(w))
  BY <1>3 DEF RadioInv, Current, HeldBack, SameHold
<1> QED
  BY <1>3, <1>4 DEF w

\* What a state at rest with a registration must satisfy.
LEMMA RestNear ==
    ASSUME NEW w \in AosSet, RadioInv(w), Current(w), Resting(w), AppUp(w),
           "OFFLINE_RECOVER" \notin w.timers,
           w.state \in {"REGISTERED", "REFRESHSTOP"},
           w.state = "REFRESHSTOP" =>
               "STOP_RETRY" \in w.timers
               \/ (HeldBack(w) /\ w.pending \cap Owes # {})
    PROVE  /\ Near(w)
           /\ ("UPDATE" \in w.pending => In(w, RegUpdate)) => Good(w)
<1>1. LinkInv(w)
  BY RestingLink
<1>2. StartedInv(w) /\ HeldInv(w) /\ DownInv(w) /\ RecoverInv(w)
  BY DEF StartedInv, Current, HeldInv, IsRetryHeld, DownInv, AppUp, RecoverInv, Owes
<1>3. ("UPDATE" \in w.pending => In(w, RegUpdate)) => KeptInv(w)
  BY DEF KeptInv, RegUpdate
<1> QED
  BY <1>1, <1>2, <1>3 DEF Near, Good

\* The state is left for one at rest.
LEMMA EnterRest ==
    ASSUME NEW s \in AosSet, RadioInv(s), Current(s), Resting(s), AppUp(s),
           "OFFLINE_RECOVER" \notin s.timers,
           NEW new \in {"REGISTERED", "REFRESHSTOP"},
           new = "REFRESHSTOP" =>
               "STOP_RETRY" \in s.timers
               \/ (HeldBack(s) /\ s.pending \cap Owes # {})
    PROVE  LET w == SetState(s, new) IN
           /\ w \in AosSet /\ Near(w)
           /\ ("UPDATE" \in s.pending => In(s, RegUpdate)) => Good(w)
<1> DEFINE w == SetState(s, new)
<1>1. new \in States
  BY Values
<1>2. /\ w \in AosSet /\ RadioInv(w)
      /\ w = [s EXCEPT !.state = new, !.txn = w.txn, !.timers = w.timers]
      /\ w.timers \in {s.timers, s.timers \ {"DEREG_TRAFFIC"}}
  BY <1>1, SetStateFacts
<1> HIDE DEF w
<1>3. /\ w.state = new /\ w.app = s.app /\ w.engine = s.engine
      /\ w.queue = s.queue /\ SameHold(s, w) /\ w.pending = s.pending
  BY <1>2 DEF AosSet, SameHold
<1>4. /\ Current(w) /\ HeldBack(w) = HeldBack(s) /\ Resting(w)
      /\ "OFFLINE_RECOVER" \notin w.timers
      /\ "STOP_RETRY" \in s.timers => "STOP_RETRY" \in w.timers
      /\ AppUp(w)
      /\ In(w, RegUpdate) <=> In(s, RegUpdate)
  BY <1>2, <1>3, RestingSame DEF Current, HeldBack, SameHold, AppUp, In
<1>5. w.state = "REFRESHSTOP" =>
         "STOP_RETRY" \in w.timers \/ (HeldBack(w) /\ w.pending \cap Owes # {})
  BY <1>3, <1>4
<1> QED
  BY <1>2, <1>3, <1>4, <1>5, RestNear DEF w

\* What was asked for does not count as held back.
LEMMA OwesFacts ==
    ASSUME NEW p, NEW kind \in Owes
    PROVE  /\ (p \cup {kind}) \cap Owes # {}
           /\ "UPDATE" \in p \cup {kind} <=> "UPDATE" \in p
BY DEF Owes

\* A failed update waits for the end of the call.
LEMMA HoldByCallNear ==
    ASSUME NEW s \in AosSet, RadioInv(s), Resting(s), AppUp(s),
           "OFFLINE_RECOVER" \notin s.timers
    PROVE  /\ Near(HoldByCall(s))
           /\ HoldByCall(s) \in AosSet
           /\ ("UPDATE" \in s.pending => In(s, RegUpdate)) => Good(HoldByCall(s))
<1> DEFINE a == [s EXCEPT !.heldByCall = TRUE]
           b == UpdateTransactionStarted(a)
           c == AddPending(b, "TRANSACTION")
<1>1. /\ a \in AosSet /\ a.pending = s.pending /\ a.txn = s.txn
      /\ a.timers = s.timers /\ a.heldByCall = TRUE /\ a.app = s.app
      /\ a.engine = s.engine /\ a.queue = s.queue
  BY DEF AosSet
<1>2. RadioInv(a) /\ HeldBack(a)
  BY <1>1 DEF RadioInv, HeldBack
<1> HIDE DEF a
<1>3. b \in AosSet /\ Current(b) /\ RadioInv(b) /\ HeldBack(b)
      /\ b = [a EXCEPT !.started = ~HeldBack(a)]
  BY <1>1, <1>2, UpdateStartedFacts
<1> HIDE DEF b
<1>4. /\ b.pending = s.pending /\ b.timers = s.timers /\ b.app = s.app
      /\ b.engine = s.engine /\ b.queue = s.queue
  BY <1>1, <1>3 DEF AosSet
<1>5. /\ c \in AosSet /\ c.pending = b.pending \cup {"TRANSACTION"}
      /\ SameRest(b, c) /\ SameHold(b, c)
      /\ c.engine = b.engine /\ c.queue = b.queue /\ c.timers = b.timers
      /\ RadioInv(c) /\ Current(c)
  BY <1>3, AddPendingFacts, Values
<1> HIDE DEF c
<1>6. HeldBack(c) /\ AppUp(c) /\ Resting(c)
      /\ (In(c, RegUpdate) <=> In(s, RegUpdate))
  <2>1. HeldBack(c)
    BY <1>3, <1>5 DEF HeldBack, SameHold
  <2> QED
    BY <1>4, <1>5, <2>1, RestingSame DEF SameRest, AppUp, In
<1>7. "TRANSACTION" \in Owes
  BY DEF Owes
<1>8. c.pending \cap Owes # {} /\ ("UPDATE" \in c.pending <=> "UPDATE" \in s.pending)
  BY <1>4, <1>5, <1>7, OwesFacts
<1> DEFINE w == SetState(c, "REFRESHSTOP")
<1> HIDE DEF w
<1>9. /\ w \in AosSet /\ Near(w)
      /\ ("UPDATE" \in c.pending => In(c, RegUpdate)) => Good(w)
  BY <1>4, <1>5, <1>6, <1>8, EnterRest DEF w
<1> QED
  BY <1>6, <1>8, <1>9 DEF HoldByCall, a, b, c, w

\* The registration is held back before a refresh.
LEMMA HoldRefreshGood ==
    ASSUME NEW s \in AosSet, RadioInv(s), Current(s), Resting(s), AppUp(s),
           "OFFLINE_RECOVER" \notin s.timers,
           HeldBack(s), s.pending \cap Owes # {},
           "UPDATE" \in s.pending => In(s, RegUpdate)
    PROVE  Good(HoldRefresh(s)) /\ HoldRefresh(s) \in AosSet
<1> DEFINE v == [s EXCEPT !.state = "REFRESHSTOP"]
<1>1. /\ v \in AosSet /\ v.state = "REFRESHSTOP" /\ v.app = s.app
      /\ v.engine = s.engine /\ v.queue = s.queue /\ SameHold(s, v)
      /\ v.pending = s.pending /\ v.timers = s.timers /\ v.txn = s.txn
  BY Values DEF AosSet, SameHold
<1> HIDE DEF v
<1>2. /\ Current(v) /\ HeldBack(v) /\ Resting(v) /\ AppUp(v) /\ RadioInv(v)
      /\ In(v, RegUpdate) <=> In(s, RegUpdate)
  BY <1>1, RestingSame DEF Current, HeldBack, SameHold, AppUp, In, RadioInv
<1>3. Good(v)
  BY <1>1, <1>2, RestNear
<1>4. Good(SetState(s, "REFRESHSTOP")) /\ SetState(s, "REFRESHSTOP") \in AosSet
  BY EnterRest
<1> QED
  BY <1>1, <1>3, <1>4 DEF HoldRefresh, v

\* A registration that is registered registers again.
LEMMA ReregisterGood ==
    ASSUME NEW s, Loose(s), s.state = "REGISTERED"
    PROVE  Good(ProcessReregister(s))
<1> DEFINE a == CheckRadioReadyAndSetTxnPending(s)
           b == SendRegister(a, FALSE)
           p == AddPending(s, "TRAFFIC")
<1>1. /\ s \in AosSet /\ RadioInv(s) /\ Current(s) /\ LinkInv(s) /\ AppUp(s)
      /\ "OFFLINE_RECOVER" \notin s.timers
      /\ "UPDATE" \in s.pending => In(s, RegUpdate)
  BY DEF Loose, StartedInv, Current, DownInv, AppUp, RecoverInv, KeptInv, RegUpdate
<1>2. Resting(s)
  BY <1>1, RestingLink
<1>3. CASE ~s.started
  <2>1. /\ p \in AosSet /\ p.pending = s.pending \cup {"TRAFFIC"}
        /\ SameRest(s, p) /\ SameHold(s, p)
        /\ p.engine = s.engine /\ p.queue = s.queue /\ p.timers = s.timers
        /\ RadioInv(p) /\ Current(p)
    BY <1>1, AddPendingFacts, Values
  <2> HIDE DEF p
  <2>2. HeldBack(p) /\ AppUp(p) /\ Resting(p)
        /\ (In(p, RegUpdate) <=> In(s, RegUpdate))
    <3>1. HeldBack(s)
      BY <1>1, <1>3 DEF Current
    <3>2. HeldBack(p)
      BY <2>1, <3>1 DEF HeldBack, SameHold
    <3> QED
      BY <1>1, <1>2, <2>1, <3>2, RestingSame DEF SameRest, AppUp, In
  <2>3. "TRAFFIC" \in Owes
    BY DEF Owes
  <2>4. p.pending \cap Owes # {} /\ ("UPDATE" \in p.pending <=> "UPDATE" \in s.pending)
    BY <2>1, <2>3, OwesFacts
  <2>5. Good(SetState(p, "REFRESHSTOP"))
    BY <1>1, <2>1, <2>2, <2>4, EnterRest
  <2> QED
    BY <1>3, <2>5 DEF ProcessReregister, p
<1>4. /\ a \in AosSet /\ RadioInv(a) /\ Current(a)
      /\ SameRest(s, a) /\ a.state = s.state /\ a.timers = s.timers
      /\ a.engine = s.engine /\ a.queue = s.queue
      /\ a.ok => a.started = s.started /\ a.pending = s.pending
      /\ ~a.ok => /\ HeldBack(a)
                  /\ a.pending \in {s.pending \cup {"TRAFFIC"},
                                    s.pending \cup {"TRANSACTION"}}
  BY <1>1, CheckRadioFacts
<1> HIDE DEF a
<1>5. AppUp(a) /\ Resting(a) /\ (In(a, RegUpdate) <=> In(s, RegUpdate))
  BY <1>1, <1>2, <1>4, RestingSame DEF SameRest, AppUp, In
<1>6. CASE s.started /\ ~a.ok
  <2>1. "TRAFFIC" \in Owes /\ "TRANSACTION" \in Owes
    BY DEF Owes
  <2>2. a.pending \cap Owes # {} /\ ("UPDATE" \in a.pending <=> "UPDATE" \in s.pending)
    BY <1>4, <1>6, <2>1, OwesFacts
  <2>3. Good(HoldRefresh(a))
    BY <1>1, <1>4, <1>5, <1>6, <2>2, HoldRefreshGood
  <2> QED
    BY <1>6, <2>3 DEF ProcessReregister, a
<1>7. /\ b \in AosSet
      /\ SameRest(a, b) /\ SameHold(a, b) /\ b.state = a.state
      /\ b.timers = a.timers /\ b.pending = a.pending /\ b.txn = a.txn
      /\ b.queue = a.queue
      /\ b.ok => /\ a.engine.state \in {"CREATED", "ACTIVE"}
                 /\ b.engine.state =
                       IF a.engine.state = "CREATED" THEN "INIT" ELSE a.engine.state
                 /\ b.engine.sub = "REGISTERING"
      /\ ~b.ok => b.engine = a.engine
  BY <1>4, SendRegisterFacts, ZenonT(60)
<1> HIDE DEF b
<1>8. RadioInv(b) /\ Current(b) /\ AppUp(b)
      /\ (In(b, RegUpdate) <=> In(s, RegUpdate))
      /\ "OFFLINE_RECOVER" \notin b.timers
  BY <1>1, <1>4, <1>5, <1>7
     DEF RadioInv, Current, HeldBack, SameHold, SameRest, AppUp, In
<1>9. CASE s.started /\ a.ok /\ b.ok
  <2>1. b.engine.state = "ACTIVE" /\ s.engine.state = "ACTIVE"
    BY <1>4, <1>5, <1>7, <1>9 DEF Resting
  <2>2. Silent(s)
    BY <1>1, <2>1, SilentAtRest
  <2>3. Silent(b)
    BY <1>4, <1>7, <2>2 DEF Silent
  <2>4. Good(ReportTryingState(SetState(b, "REFRESHING")))
    BY <1>7, <1>8, <1>9, <2>1, <2>3, EnterTrying
  <2> QED
    BY <1>9, <2>4 DEF ProcessReregister, a, b
<1>10. CASE s.started /\ a.ok /\ ~b.ok
  <2>1. Resting(b)
    BY <1>5, <1>7, <1>10, RestingSame
  <2>2. Good(HoldByCall(b))
    BY <1>1, <1>4, <1>7, <1>8, <1>10, <2>1, HoldByCallNear
  <2>3. Good(UnpredictableFailure(b))
    BY <1>7, <1>8, UnpredictableGood
  <2> QED
    BY <1>10, <2>2, <2>3 DEF ProcessReregister, a, b
<1>11. s.started \in BOOLEAN /\ a.ok \in BOOLEAN /\ b.ok \in BOOLEAN
  BY <1>1, <1>4, <1>7 DEF AosSet
<1> QED
  BY <1>3, <1>6, <1>9, <1>10, <1>11

-----------------------------------------------------------------------------
(* Taking up what was held back.                                           *)

\* A registration that waits, and why it will go on.
LEMMA HeldGood ==
    ASSUME NEW w \in AosSet, RadioInv(w), Current(w), LinkInv(w), AppUp(w),
           "OFFLINE_RECOVER" \notin w.timers, IsRetryHeld(w),
           "STOP_RETRY" \in w.timers \/ (HeldBack(w) /\ w.pending \cap Owes # {}),
           "UPDATE" \in w.pending => In(w, RegUpdate)
    PROVE  Good(w)
BY DEF Good, StartedInv, Current, KeptInv, HeldInv, IsRetryHeld, DownInv, AppUp,
       RecoverInv, Owes, RegUpdate

\* A registration that waits sends again: anew where nothing is registered.
LEMMA RetrySendGood ==
    ASSUME NEW b \in AosSet, RadioInv(b), Current(b), LinkInv(b), AppUp(b),
           "OFFLINE_RECOVER" \notin b.timers, IsRetryHeld(b),
           NEW restore \in BOOLEAN, restore <=> b.state = "REGSTOP"
    PROVE  LET c == SendRegister(b, restore) IN
           /\ c.ok => Good(ReportTryingState(SetRetryState(c)))
           /\ Good(UnpredictableFailure(c))
           /\ c.ok \in BOOLEAN
<1> DEFINE c == SendRegister(b, restore)
           e == IF restore THEN NewEngine ELSE b.engine
<1>1. /\ c \in AosSet
      /\ SameRest(b, c) /\ SameHold(b, c) /\ c.state = b.state
      /\ c.timers = b.timers /\ c.pending = b.pending /\ c.txn = b.txn
      /\ c.queue = b.queue
      /\ c.ok => /\ e.state \in {"CREATED", "ACTIVE"}
                 /\ c.engine.state = IF e.state = "CREATED" THEN "INIT" ELSE e.state
                 /\ c.engine.sub = "REGISTERING"
                 /\ c.engine.refresh = e.refresh
  BY SendRegisterFacts
<1> HIDE DEF c
<1>2. RadioInv(c) /\ Current(c) /\ AppUp(c) /\ "OFFLINE_RECOVER" \notin c.timers
  BY <1>1 DEF RadioInv, Current, HeldBack, SameHold, SameRest, AppUp
<1>3. ASSUME c.ok PROVE Good(ReportTryingState(SetRetryState(c)))
  <2>1. CASE b.state = "REGSTOP"
    <3>1. b.engine.state # "TERMINATED"
      BY <2>1 DEF LinkInv, StateInv
    <3>2. Silent(c)
      <4>1. Silent(b)
        BY <2>1, <3>1, SilentAtRest
      <4> QED
        BY <1>1, <4>1 DEF Silent
    <3>3. e = NewEngine
      BY <2>1
    <3>4. /\ c.engine.state = "INIT" /\ c.engine.sub = "REGISTERING"
          /\ c.engine.refresh = "OFF"
      BY <1>1, <1>3, <3>3 DEF NewEngine
    <3>5. Good(ReportTryingState(SetState(c, "REGISTERING")))
      BY <1>1, <1>2, <3>2, <3>4, EnterTrying
    <3> QED
      BY <1>1, <2>1, <3>5 DEF SetRetryState
  <2>2. CASE b.state = "REFRESHSTOP"
    <3>1. e = b.engine
      BY <2>2
    <3>2. b.engine.state = "ACTIVE"
      BY <1>1, <1>3, <2>2, <3>1 DEF LinkInv, StateInv
    <3>3. Silent(c)
      <4>1. Silent(b)
        BY <2>2, <3>2, SilentAtRest
      <4> QED
        BY <1>1, <4>1 DEF Silent
    <3>4. c.engine.state = "ACTIVE" /\ c.engine.sub = "REGISTERING"
      BY <1>1, <1>3, <3>1, <3>2
    <3>5. Good(ReportTryingState(SetState(c, "REFRESHING")))
      BY <1>1, <1>2, <3>3, <3>4, EnterTrying
    <3> QED
      BY <1>1, <2>2, <3>5 DEF SetRetryState
  <2> QED
    BY <2>1, <2>2 DEF IsRetryHeld
<1>4. Good(UnpredictableFailure(c))
  BY <1>1, <1>2, UnpredictableGood
<1>5. c.ok \in BOOLEAN
  BY <1>1 DEF AosSet
<1> QED
  BY <1>3, <1>4, <1>5 DEF c

\* Timers are stopped.
LEMMA TimersFacts ==
    ASSUME NEW s \in AosSet, NEW w, NEW ts, w = [s EXCEPT !.timers = ts],
           ts \in SUBSET Timers,
           "DEREG_TRAFFIC" \in s.timers => "DEREG_TRAFFIC" \in ts
    PROVE  /\ w \in AosSet /\ w.timers = ts
           /\ SameRest(s, w) /\ SameHold(s, w) /\ w.state = s.state
           /\ w.engine = s.engine /\ w.queue = s.queue /\ w.pending = s.pending
           /\ w.txn = s.txn
           /\ RadioInv(s) => RadioInv(w)
           /\ Current(s) => Current(w)
           /\ LinkInv(s) => LinkInv(w)
<1>1. /\ w \in AosSet /\ w.timers = ts
      /\ SameRest(s, w) /\ SameHold(s, w) /\ w.state = s.state
      /\ w.engine = s.engine /\ w.queue = s.queue /\ w.pending = s.pending
      /\ w.txn = s.txn
  BY DEF AosSet, SameRest, SameHold
<1>2. (RadioInv(s) => RadioInv(w)) /\ (Current(s) => Current(w))
  BY <1>1 DEF RadioInv, Current, HeldBack, SameHold
<1>3. LinkInv(s) => LinkInv(w)
  BY <1>1, LinkPosted
<1> QED
  BY <1>1, <1>2, <1>3

\* A registration that waits is taken up.
LEMMA RetryInRegStoppedGood ==
    ASSUME NEW s, Loose(s), NEW ignoreTimer \in BOOLEAN
    PROVE  Good(ProcessRetryInRegStopped(s, ignoreTimer))
<1> DEFINE a == ClearRetryTimers(s)
           b == CheckRadioReadyAndSetTxnPending(a)
           c == SendRegister(b, s.state = "REGSTOP")
           p == AddPending(a, "TRAFFIC")
           r == ProcessRetryInRegStopped(s, ignoreTimer)
           stays == ~IsRetryHeld(s) \/ (~ignoreTimer /\ IsRetryTimer(s))
<1>1. CASE stays
  <2>1. HeldInv(s)
    BY <1>1 DEF HeldInv, IsRetryTimer, Loose, RecoverInv, IsRetryHeld
  <2>2. r = s
    BY <1>1 DEF ProcessRetryInRegStopped
  <2> HIDE DEF r
  <2> QED
    BY <2>1, <2>2, GoodParts DEF r
<1>2. CASE ~stays
  <2>1. IsRetryHeld(s)
    BY <1>2
  <2>2. /\ s \in AosSet /\ RadioInv(s) /\ Current(s) /\ LinkInv(s) /\ AppUp(s)
        /\ "UPDATE" \in s.pending => In(s, RegUpdate)
    BY <2>1 DEF Loose, StartedInv, Current, DownInv, AppUp, KeptInv, RegUpdate,
       IsRetryHeld
  <2>3. /\ a \in AosSet /\ a.timers = s.timers \ {"STOP_RETRY", "OFFLINE_RECOVER"}
        /\ SameRest(s, a) /\ SameHold(s, a) /\ a.state = s.state
        /\ a.engine = s.engine /\ a.queue = s.queue /\ a.pending = s.pending
        /\ RadioInv(a) /\ Current(a) /\ LinkInv(a)
    <3>1. a = [s EXCEPT !.timers = s.timers \ {"STOP_RETRY", "OFFLINE_RECOVER"}]
      BY DEF ClearRetryTimers
    <3>2. s.timers \ {"STOP_RETRY", "OFFLINE_RECOVER"} \in SUBSET Timers
      BY <2>2 DEF AosSet
    <3> HIDE DEF a
    <3> QED
      BY <2>2, <3>1, <3>2, TimersFacts
  <2>4. r = CASE ~a.started -> p
              [] a.started /\ ~b.ok -> b
              [] a.started /\ b.ok /\ ~c.ok -> UnpredictableFailure(c)
              [] OTHER -> ReportTryingState(SetRetryState(c))
    BY <1>2 DEF ProcessRetryInRegStopped
  <2> HIDE DEF a, r
  <2>5. AppUp(a) /\ IsRetryHeld(a) /\ "OFFLINE_RECOVER" \notin a.timers
        /\ (In(a, RegUpdate) <=> In(s, RegUpdate))
    BY <2>1, <2>2, <2>3 DEF SameRest, AppUp, IsRetryHeld, In
  <2>6. "TRAFFIC" \in Owes /\ "TRANSACTION" \in Owes
    BY DEF Owes
  <2>7. ASSUME ~a.started PROVE Good(p)
    <3>1. /\ p \in AosSet /\ p.pending = a.pending \cup {"TRAFFIC"}
          /\ SameRest(a, p) /\ SameHold(a, p) /\ p.state = a.state
          /\ p.engine = a.engine /\ p.queue = a.queue /\ p.timers = a.timers
          /\ RadioInv(p) /\ Current(p)
      BY <2>3, AddPendingFacts, Values
    <3> HIDE DEF p
    <3>2. HeldBack(a)
      BY <2>3, <2>7 DEF Current
    <3>3. HeldBack(p) /\ AppUp(p) /\ IsRetryHeld(p)
          /\ (In(p, RegUpdate) <=> In(s, RegUpdate))
      BY <2>5, <3>1, <3>2 DEF HeldBack, SameHold, SameRest, AppUp, IsRetryHeld, In
    <3>4. p.pending \cap Owes # {} /\ ("UPDATE" \in p.pending <=> "UPDATE" \in s.pending)
      BY <2>3, <2>6, <3>1, OwesFacts
    <3>5. LinkInv(p)
      BY <2>3, <3>1, LinkPosted
    <3> QED
      BY <2>2, <2>5, <3>1, <3>3, <3>4, <3>5, HeldGood
  <2>8. /\ b \in AosSet /\ RadioInv(b) /\ Current(b)
        /\ SameRest(a, b) /\ b.state = a.state /\ b.timers = a.timers
        /\ b.engine = a.engine /\ b.queue = a.queue
        /\ ~b.ok => /\ HeldBack(b)
                    /\ b.pending \in {a.pending \cup {"TRAFFIC"},
                                      a.pending \cup {"TRANSACTION"}}
    BY <2>3, CheckRadioFacts
  <2> HIDE DEF b, p
  <2>9. AppUp(b) /\ IsRetryHeld(b) /\ LinkInv(b)
        /\ (In(b, RegUpdate) <=> In(s, RegUpdate))
    <3>1. LinkInv(b)
      BY <2>3, <2>8, LinkPosted
    <3> QED
      BY <2>5, <2>8, <3>1 DEF SameRest, AppUp, IsRetryHeld, In
  <2>10. ASSUME ~b.ok PROVE Good(b)
    <3>1. b.pending \cap Owes # {} /\ ("UPDATE" \in b.pending <=> "UPDATE" \in s.pending)
      BY <2>3, <2>6, <2>8, <2>10, OwesFacts
    <3> QED
      BY <2>2, <2>5, <2>8, <2>9, <2>10, <3>1, HeldGood
  <2>11. /\ c.ok => Good(ReportTryingState(SetRetryState(c)))
         /\ Good(UnpredictableFailure(c)) /\ c.ok \in BOOLEAN
    BY <2>3, <2>5, <2>8, <2>9, RetrySendGood
  <2> HIDE DEF c
  <2>12. a.started \in BOOLEAN /\ b.ok \in BOOLEAN
    BY <2>3, <2>8 DEF AosSet
  <2> QED
    BY <2>4, <2>7, <2>10, <2>11, <2>12 DEF r
<1> QED
  BY <1>1, <1>2

\* Update, whatever the state.
LEMMA UpdateGood ==
    ASSUME NEW s, Loose(s), NEW ignoreTimer \in BOOLEAN
    PROVE  Good(Update(s, ignoreTimer, TRUE))
<1> DEFINE p == AddPending(s, "UPDATE")
<1>1. CASE IsRetryHeld(s)
  <2>1. Good(ProcessRetryInRegStopped(s, ignoreTimer))
    BY RetryInRegStoppedGood
  <2>2. Update(s, ignoreTimer, TRUE) = ProcessRetryInRegStopped(s, ignoreTimer)
    BY <1>1 DEF Update, IsRetryHeld, IsRegTrying
  <2> QED
    BY <2>1, <2>2
<1>2. CASE s.state = "REGISTERED"
  <2>1. Good(ProcessReregister(s))
    BY <1>2, ReregisterGood
  <2>2. Update(s, ignoreTimer, TRUE) = ProcessReregister(s)
    BY <1>2 DEF Update, IsRetryHeld, IsRegTrying
  <2> QED
    BY <2>1, <2>2
<1>3. CASE ~IsRetryHeld(s) /\ s.state # "REGISTERED" /\ IsRegTrying(s)
  <2>1. s \in AosSet /\ LinkInv(s) /\ RadioInv(s)
    BY DEF Loose
  <2>2. /\ p \in AosSet /\ p.state = s.state /\ p.timers = s.timers
        /\ SameRest(s, p) /\ SameHold(s, p)
        /\ p.engine = s.engine /\ p.queue = s.queue
        /\ RadioInv(p)
    BY <2>1, AddPendingFacts, Values
  <2>3. Update(s, ignoreTimer, TRUE) = p
    BY <1>3 DEF Update, IsRegTrying, IsRetryHeld
  <2> HIDE DEF p
  <2>4. LinkInv(p)
    BY <2>1, <2>2, LinkPosted
  <2>5. HeldBack(p) = HeldBack(s)
    BY <2>2 DEF HeldBack, SameHold
  <2>6. StartedInv(p) /\ KeptInv(p) /\ HeldInv(p) /\ DownInv(p) /\ RecoverInv(p)
    BY <1>3, <2>2, <2>5
       DEF Loose, StartedInv, SameHold, KeptInv, HeldInv, IsRetryHeld, IsRegTrying,
           DownInv, RecoverInv, SameRest
  <2> QED
    BY <2>2, <2>3, <2>4, <2>6 DEF Good
<1>4. CASE ~IsRetryHeld(s) /\ s.state # "REGISTERED" /\ ~IsRegTrying(s)
  <2>1. Update(s, ignoreTimer, TRUE) = s
    BY <1>4 DEF Update
  <2>2. HeldInv(s)
    BY <1>4 DEF HeldInv
  <2> QED
    BY <2>1, <2>2, GoodParts
<1> QED
  BY <1>1, <1>2, <1>3, <1>4

\* What was remembered is forgotten.
Dropped(s, kinds) == [s EXCEPT !.pending = s.pending \ kinds]

LEMMA PendingRemoved ==
    ASSUME NEW s, Loose(s), NEW kinds
    PROVE  LET w == Dropped(s, kinds) IN
           /\ Loose(w) /\ w.pending = s.pending \ kinds
           /\ SameRest(s, w) /\ SameHold(s, w) /\ w.state = s.state
           /\ w.engine = s.engine /\ w.queue = s.queue /\ w.timers = s.timers
           /\ w.txn = s.txn
<1> DEFINE w == Dropped(s, kinds)
<1>7. w = [s EXCEPT !.pending = s.pending \ kinds]
  BY DEF Dropped
<1> HIDE DEF w
<1>1. s \in AosSet /\ LinkInv(s)
  BY DEF Loose
<1>2. s.pending \ kinds \in SUBSET PendingKinds
  BY <1>1 DEF AosSet
<1>3. /\ w \in AosSet /\ w.pending = s.pending \ kinds
      /\ SameRest(s, w) /\ SameHold(s, w) /\ w.state = s.state
      /\ w.engine = s.engine /\ w.queue = s.queue /\ w.timers = s.timers
      /\ w.txn = s.txn
  BY <1>1, <1>2, <1>7 DEF AosSet, SameRest, SameHold
<1>4. LinkInv(w)
  BY <1>1, <1>3, LinkPosted
<1>5. HeldBack(w) = HeldBack(s)
  BY <1>3 DEF HeldBack, SameHold
<1>6. RadioInv(w) /\ StartedInv(w) /\ KeptInv(w) /\ DownInv(w) /\ RecoverInv(w)
  BY <1>3, <1>5 DEF Loose, RadioInv, StartedInv, SameHold, KeptInv, IsRetryHeld,
     DownInv, RecoverInv, SameRest, In
<1> QED
  BY <1>3, <1>4, <1>6 DEF Loose, w

\* A transaction the radio has let go ahead.
LEMMA RetryPendingGood ==
    ASSUME NEW s, Loose(s), AppUp(s)
    PROVE  Good(RetryPending(s))
<1> DEFINE a == SendRegister(s, s.state # "REFRESHSTOP")
           b == CreateRegistration(s)
           d == [b EXCEPT !.failures = 0]
           r == RetryPending(s)
<1>1. CASE IsRetryTimer(s) \/ (~IsRetryHeld(s) /\ s.state # "OFFLINE")
  <2>1. HeldInv(s)
    BY <1>1 DEF HeldInv, IsRetryTimer, Loose, RecoverInv, IsRetryHeld
  <2>2. r = s
    BY <1>1 DEF RetryPending
  <2> HIDE DEF r
  <2> QED
    BY <2>1, <2>2, GoodParts DEF r
<1>2. CASE ~IsRetryTimer(s) /\ IsRetryHeld(s)
  <2>1. /\ s \in AosSet /\ RadioInv(s) /\ Current(s) /\ LinkInv(s)
        /\ "OFFLINE_RECOVER" \notin s.timers
    BY <1>2 DEF Loose, StartedInv, Current, IsRetryHeld, IsRetryTimer
  <2>2. s.state # "REFRESHSTOP" <=> s.state = "REGSTOP"
    BY <1>2 DEF IsRetryHeld
  <2>3. /\ a.ok => Good(ReportTryingState(SetRetryState(a)))
        /\ Good(UnpredictableFailure(a)) /\ a.ok \in BOOLEAN
    BY <1>2, <2>1, <2>2, RetrySendGood
  <2>4. r = IF a.ok THEN ReportTryingState(SetRetryState(a)) ELSE UnpredictableFailure(a)
    BY <1>2 DEF RetryPending, IsRetryHeld
  <2> HIDE DEF a, r
  <2> QED
    BY <2>3, <2>4 DEF r
<1>3. CASE ~IsRetryTimer(s) /\ s.state = "OFFLINE"
  <2>1. /\ s \in AosSet /\ RadioInv(s) /\ Current(s)
        /\ "OFFLINE_RECOVER" \notin s.timers
    BY <1>3 DEF Loose, StartedInv, Current, IsRetryTimer
  <2>2. r = IF b.ok THEN Trying(d) ELSE CreationFailed(b)
    BY <1>3 DEF RetryPending, IsRetryHeld
  <2>3. /\ b \in AosSet /\ Silent(b)
        /\ SameRest(s, b) /\ SameHold(s, b) /\ b.state = s.state
        /\ b.timers = s.timers /\ b.pending = s.pending /\ b.txn = s.txn
        /\ b.ok => /\ b.engine.state = "INIT" /\ b.engine.sub = "REGISTERING"
                   /\ b.engine.refresh = "OFF"
        /\ ~b.ok => b.engine \in {NoEngine, NewEngine}
    BY <2>1, CreateFacts
  <2> HIDE DEF b, r
  <2>4. RadioInv(b) /\ Current(b) /\ AppUp(b) /\ "OFFLINE_RECOVER" \notin b.timers
        /\ b.state = "OFFLINE"
    BY <1>3, <2>1, <2>3 DEF RadioInv, Current, HeldBack, SameHold, SameRest, AppUp
  <2>5. ~b.ok => Good(CreationFailed(b))
    BY <2>3, <2>4, CreationFailedGood
  <2>6. 0 \in 0 .. CREATE_REG_FAILURE_MAX_COUNT
    BY AosBounds, SMT
  <2>7. /\ d \in AosSet /\ d.queue = b.queue /\ d.engine = b.engine
        /\ SameRest(b, d) /\ SameHold(b, d) /\ d.state = b.state
        /\ d.timers = b.timers /\ d.txn = b.txn
    BY <2>3, <2>6 DEF AosSet, SameRest, SameHold
  <2> HIDE DEF d
  <2>8. RadioInv(d) /\ Current(d) /\ AppUp(d) /\ Silent(d)
    BY <2>3, <2>4, <2>7 DEF RadioInv, Current, HeldBack, SameHold, SameRest, AppUp, Silent
  <2>9. b.ok => Good(Trying(d))
    BY <2>3, <2>4, <2>7, <2>8, EnterTrying DEF Trying
  <2> QED
    BY <2>2, <2>5, <2>9 DEF r
<1> QED
  BY <1>1, <1>2, <1>3

\* What was held back goes on.
LEMMA PendingTransactionGood ==
    ASSUME NEW s, Loose(s), Owed(s)
    PROVE  Good(ProcessPendingTransaction(s))
<1> DEFINE a == [s EXCEPT !.pending = s.pending \ {"STOP"}]
           b == [a EXCEPT !.pending = a.pending \ {"START"}]
           c == [b EXCEPT !.pending = b.pending \ {"TRAFFIC", "TRANSACTION"}]
           t == StartTraffic(a.txn, "DEREG")
           d == [StartTimer(a, "DEREG_TRAFFIC") EXCEPT !.txn = t]
           r == ProcessPendingTransaction(s)
<1>1. CASE "STOP" \in s.pending /\ s.state = "DEREGISTERING"
  <2>1. r = d
    BY <1>1 DEF ProcessPendingTransaction, StartTimer
  <2>2. Loose(a) /\ a.state = s.state /\ a.txn = s.txn
    BY PendingRemoved DEF Dropped
  <2>3. a \in AosSet /\ a.txn \in Traffic /\ "DEREG" \in TrafficTypes
        /\ a.timers \cup {"DEREG_TRAFFIC"} \in SUBSET Timers
    BY <2>2, Values DEF Loose, AosSet
  <2>4. t \in Traffic /\ RadioIsReleased(t)
    BY <2>3, StartTrafficFacts
  <2>5. d = [a EXCEPT !.timers = a.timers \cup {"DEREG_TRAFFIC"}, !.txn = t]
    BY DEF StartTimer
  <2> HIDE DEF a, d, t, r
  <2>6. /\ d \in AosSet /\ d.timers = a.timers \cup {"DEREG_TRAFFIC"} /\ d.txn = t
        /\ SameRest(a, d) /\ SameHold(a, d) /\ d.state = a.state
        /\ d.engine = a.engine /\ d.queue = a.queue /\ d.pending = a.pending
    BY <2>3, <2>4, <2>5 DEF AosSet, SameRest, SameHold
  <2>7. LinkInv(d)
    BY <2>2, <2>3, <2>6, LinkPosted DEF Loose
  <2>8. RadioInv(d)
    BY <2>4, <2>6 DEF RadioInv
  <2>9. StartedInv(d) /\ KeptInv(d) /\ HeldInv(d) /\ DownInv(d) /\ RecoverInv(d)
    BY <1>1, <2>2, <2>6 DEF Loose, StartedInv, KeptInv, HeldInv, IsRetryHeld,
       DownInv, RecoverInv, SameRest
  <2> QED
    BY <2>1, <2>6, <2>7, <2>8, <2>9 DEF Good, r
<1>2. CASE "STOP" \notin s.pending \/ s.state # "DEREGISTERING"
  <2>4. r = CASE "START" \in a.pending -> Start(b)
              [] "START" \notin a.pending /\ "TRAFFIC" \in a.pending ->
                   IF IsRetryHeld(s) THEN Update(c, TRUE, TRUE) ELSE Start(c)
              [] "START" \notin a.pending /\ "TRAFFIC" \notin a.pending
                   /\ "TRANSACTION" \in a.pending -> RetryPending(c)
              [] OTHER -> a
    BY <1>2 DEF ProcessPendingTransaction
  <2>11. /\ a = Dropped(s, {"STOP"})
         /\ b = Dropped(a, {"START"})
         /\ c = Dropped(b, {"TRAFFIC", "TRANSACTION"})
    BY DEF Dropped
  <2> HIDE DEF a, b, c, r
  <2>1. Loose(a) /\ a.pending = s.pending \ {"STOP"} /\ a.state = s.state
        /\ a.timers = s.timers /\ a.queue = s.queue /\ SameRest(s, a)
    BY <2>11, PendingRemoved
  <2>2. Loose(b) /\ b.pending = a.pending \ {"START"} /\ b.state = a.state
        /\ SameRest(a, b)
    BY <2>1, <2>11, PendingRemoved
  <2>3. Loose(c) /\ c.state = b.state /\ SameRest(b, c)
    BY <2>2, <2>11, PendingRemoved
  <2>5. a.pending # {} => AppUp(b) /\ AppUp(c)
    BY <2>1, <2>2, <2>3 DEF Loose, DownInv, AppUp, SameRest
  <2>6. ASSUME "START" \in a.pending PROVE Good(Start(b))
    BY <2>2, <2>5, <2>6, StartGood DEF Loose, StartedInv, Current
  <2>7. ASSUME "TRAFFIC" \in a.pending PROVE Good(Start(c))
    BY <2>3, <2>5, <2>7, StartGood DEF Loose, StartedInv, Current
  <2>8. Good(Update(c, TRUE, TRUE))
    BY <2>3, UpdateGood
  <2>9. ASSUME "TRANSACTION" \in a.pending PROVE Good(RetryPending(c))
    BY <2>3, <2>5, <2>9, RetryPendingGood
  <2>10. ASSUME a.pending \cap Owes = {} PROVE Good(a)
    <3>1. HeldInv(a)
      BY <2>1, <2>10 DEF Owed, HeldInv, Owes, IsRetryHeld, In
    <3> QED
      BY <2>1, <3>1, GoodParts
  <2> QED
    BY <2>4, <2>6, <2>7, <2>8, <2>9, <2>10 DEF Owes, r
<1> QED
  BY <1>1, <1>2

\* ... if nothing holds it back any more.
LEMMA GoOnGood ==
    ASSUME NEW s, Loose(s), Owed(s), Current(s)
    PROVE  Good(GoOnIfStarted(s))
<1>1. Good(ProcessPendingTransaction(s))
  BY PendingTransactionGood
<1>2. ASSUME ~s.started PROVE Good(s)
  <2>1. HeldBack(s)
    BY <1>2 DEF Current
  <2>2. HeldInv(s)
    BY <2>1 DEF Owed, HeldInv
  <2> QED
    BY <2>2, GoodParts
<1> QED
  BY <1>1, <1>2 DEF GoOnIfStarted

\* What holds the registration back changes.
SameWork(s, w) ==
    /\ w.app = s.app /\ w.state = s.state /\ w.timers = s.timers
    /\ w.engine = s.engine /\ w.txn = s.txn /\ w.queue = s.queue

LEMMA HoldChanges ==
    ASSUME NEW s, Good(s), NEW z \in AosSet, SameWork(s, z), z.pending = s.pending
    PROVE  LET w == UpdateTransactionStarted(z) IN
           Loose(w) /\ Owed(w) /\ Current(w) /\ SameWork(s, w) /\ w.pending = s.pending
<1> DEFINE w == UpdateTransactionStarted(z)
<1>1. w \in AosSet /\ Current(w) /\ w = [z EXCEPT !.started = ~HeldBack(z)]
  BY UpdateStartedFacts
<1> HIDE DEF w
<1>2. SameWork(s, w) /\ w.pending = s.pending
  BY <1>1 DEF AosSet, SameWork
<1>3. s \in AosSet /\ LinkInv(s) /\ Owed(s)
  BY GoodParts DEF Good
<1>4. LinkInv(w)
  BY <1>1, <1>2, <1>3, LinkPosted DEF SameWork
<1>5. /\ RadioInv(w) /\ StartedInv(w) /\ KeptInv(w) /\ DownInv(w) /\ RecoverInv(w)
  BY <1>1, <1>2 DEF Good, SameWork, RadioInv, StartedInv, Current, KeptInv,
     IsRetryHeld, DownInv, RecoverInv, In
<1>6. Owed(w)
  BY <1>2, <1>3 DEF SameWork, Owed, IsRetryHeld, In
<1> QED
  BY <1>1, <1>2, <1>4, <1>5, <1>6 DEF Loose, w

LEMMA BlockChangedGood == ASSUME NEW s, Good(s) PROVE Good(Block_Changed(s))
<1> DEFINE z == [s EXCEPT !.blocked = ~s.blocked]
<1>1. z \in AosSet /\ SameWork(s, z) /\ z.pending = s.pending
  BY DEF Good, AosSet, SameWork
<1> HIDE DEF z
<1>2. Good(GoOnIfStarted(UpdateTransactionStarted(z)))
  BY <1>1, HoldChanges, GoOnGood
<1> QED
  BY <1>2 DEF Block_Changed, z

LEMMA CallChangedGood ==
    ASSUME NEW s, Good(s) PROVE Good(CallTracker_StateChanged(s))
<1> DEFINE a == [s EXCEPT !.call = ~s.call]
           z == [a EXCEPT !.heldByCall = FALSE]
<1>1. s \in AosSet
  BY DEF Good
<1>2. a \in AosSet /\ Same(s, a) /\ a.queue = s.queue
  BY <1>1 DEF AosSet, Same
<1>3. Good(a)
  BY <1>2, SameKeeps
<1>5. CallTracker_StateChanged(s) =
         IF ~a.call /\ a.heldByCall
         THEN GoOnIfStarted(UpdateTransactionStarted(z)) ELSE a
  BY DEF CallTracker_StateChanged
<1> HIDE DEF a
<1>4. z \in AosSet /\ SameWork(a, z) /\ z.pending = a.pending
  BY <1>2 DEF AosSet, SameWork
<1> HIDE DEF z
<1>6. Good(GoOnIfStarted(UpdateTransactionStarted(z)))
  BY <1>3, <1>4, HoldChanges, GoOnGood
<1> QED
  BY <1>3, <1>5, <1>6

LEMMA PreparedGood ==
    ASSUME NEW s, Good(s) PROVE Good(Transaction_OnConnectionSetupPrepared(s))
<1> DEFINE z == [s EXCEPT !.radioWaiting = FALSE]
<1>1. z \in AosSet /\ SameWork(s, z) /\ z.pending = s.pending
  BY DEF Good, AosSet, SameWork
<1> HIDE DEF z
<1>2. Good(GoOnIfStarted(UpdateTransactionStarted(z)))
  BY <1>1, HoldChanges, GoOnGood
<1> QED
  BY <1>2 DEF Transaction_OnConnectionSetupPrepared, z

LEMMA PriorityChangedGood ==
    ASSUME NEW s, Good(s) PROVE Good(Transaction_OnTrafficPriorityChanged(s))
<1> DEFINE z == [s EXCEPT !.priorityBlocked = FALSE]
           a == UpdateTransactionStarted(z)
<1>1. z \in AosSet /\ SameWork(s, z) /\ z.pending = s.pending
  BY DEF Good, AosSet, SameWork
<1> HIDE DEF z
<1>2. Loose(a) /\ Owed(a) /\ Current(a)
  BY <1>1, HoldChanges
<1>3. Good(ProcessPendingTransaction(a))
  BY <1>2, PendingTransactionGood
<1>4. Good(GoOnIfStarted(a))
  BY <1>2, GoOnGood
<1>5. ~a.started => Good(a)
  BY <1>4 DEF GoOnIfStarted
<1> HIDE DEF a
<1> QED
  BY <1>3, <1>5 DEF Transaction_OnTrafficPriorityChanged, a, z

\* The radio denies access.
LEMMA DeniedGood ==
    ASSUME NEW s, Good(s) PROVE Good(Transaction_OnConnectionFailed(s))
<1> DEFINE z == [s EXCEPT !.pending = s.pending \ {"TRANSACTION"},
                          !.radioWaiting = FALSE]
           a == UpdateTransactionStarted(z)
           b == Off(a, "REG")
           w == StartTimer(b, "STOP_RETRY")
<1>1. s \in AosSet /\ RadioInv(s) /\ LinkInv(s)
  BY DEF Good
<1>2. CASE s.state = "REFRESHSTOP"
  <2>1. Transaction_OnConnectionFailed(s) = w
    BY <1>2 DEF Transaction_OnConnectionFailed
  <2>2. s.pending \ {"TRANSACTION"} \in SUBSET PendingKinds
    BY <1>1 DEF AosSet
  <2>3. z \in AosSet /\ SameWork(s, z) /\ z.pending = s.pending \ {"TRANSACTION"}
    BY <1>1, <2>2 DEF AosSet, SameWork
  <2> HIDE DEF z
  <2>4. a \in AosSet /\ Current(a) /\ a = [z EXCEPT !.started = ~HeldBack(z)]
    BY <2>3, UpdateStartedFacts
  <2> HIDE DEF a
  <2>5. SameWork(s, a) /\ a.pending = s.pending \ {"TRANSACTION"}
    BY <2>3, <2>4 DEF AosSet, SameWork
  <2>6. RadioInv(a)
    BY <1>1, <2>5 DEF RadioInv, SameWork
  <2>7. b \in AosSet /\ RadioInv(b) /\ b = [a EXCEPT !.txn = b.txn]
    BY <2>4, <2>6, OffFacts
  <2> HIDE DEF b
  <2>8. /\ b.app = s.app /\ b.state = s.state /\ b.timers = s.timers
        /\ b.engine = s.engine /\ b.queue = s.queue /\ SameHold(a, b)
        /\ b.pending = s.pending \ {"TRANSACTION"}
    BY <2>4, <2>5, <2>7, ZenonT(60) DEF AosSet, SameWork, SameHold
  <2>9. Current(b) /\ LinkInv(b)
    BY <1>1, <2>4, <2>7, <2>8, LinkPosted DEF Current, HeldBack, SameHold
  <2>10. w = [b EXCEPT !.timers = b.timers \cup {"STOP_RETRY"}]
    BY DEF StartTimer
  <2>11. b.timers \cup {"STOP_RETRY"} \in SUBSET Timers
    BY <2>7, Values DEF AosSet
  <2> HIDE DEF w
  <2>17. AppUp(b) /\ "OFFLINE_RECOVER" \notin b.timers /\ IsRetryHeld(b)
    BY <1>2, <2>8 DEF Good, DownInv, AppUp, RecoverInv, IsRetryHeld
  <2>12. /\ w \in AosSet /\ w.timers = b.timers \cup {"STOP_RETRY"}
         /\ SameRest(b, w) /\ SameHold(b, w) /\ w.state = b.state
         /\ w.queue = b.queue /\ w.pending = b.pending
         /\ RadioInv(w) /\ Current(w) /\ LinkInv(w)
    BY <2>7, <2>9, <2>10, <2>11, TimersFacts
  <2>13. /\ AppUp(w) /\ "OFFLINE_RECOVER" \notin w.timers /\ IsRetryHeld(w)
    BY <2>12, <2>17 DEF AppUp, IsRetryHeld, SameRest
  <2>14. "UPDATE" \in w.pending => In(w, RegUpdate)
    BY <1>2, <2>8, <2>12 DEF Good, IsRetryHeld, KeptInv, In, RegUpdate
  <2>15. "STOP_RETRY" \in w.timers
    BY <2>12
  <2>16. Good(w)
    <3>1. /\ w \in AosSet /\ RadioInv(w) /\ Current(w) /\ LinkInv(w) /\ AppUp(w)
          /\ "OFFLINE_RECOVER" \notin w.timers /\ IsRetryHeld(w)
      BY <2>12, <2>13
    <3>3. HeldInv(w)
      BY <2>15 DEF HeldInv
    <3>4. StartedInv(w) /\ DownInv(w) /\ RecoverInv(w) /\ KeptInv(w)
      BY <3>1, <2>14 DEF StartedInv, Current, DownInv, AppUp, RecoverInv, KeptInv,
         RegUpdate
    <3> QED
      BY <3>1, <3>3, <3>4 DEF Good
  <2> QED
    BY <2>1, <2>16
<1>3. CASE s.state # "REFRESHSTOP"
  <2>1. "TRYING_START" \in Results
    BY DEF Results
  <2>2. Clean(Report(Destroy(s), "TRYING_START"))
    BY <1>1, <2>1, DestroyGood
  <2>3. Good(StartTimer(Report(Destroy(s), "TRYING_START"), "OFFLINE_RECOVER"))
    BY <2>2, RecoverLater
  <2> QED
    BY <1>3, <2>3 DEF Transaction_OnConnectionFailed
<1> QED
  BY <1>2, <1>3

\* What the radio is asked changes, for the same traffic.
LEMMA TrafficGood ==
    ASSUME NEW x, Good(x), NEW y \in Traffic, y.traffics = x.txn.traffics,
           RadioIsReleased(y)
    PROVE  Good([x EXCEPT !.txn = y])
<1> DEFINE z == [x EXCEPT !.txn = y]
<1>1. x \in AosSet /\ LinkInv(x)
  BY DEF Good
<1>2. /\ z \in AosSet /\ z.txn = y /\ z.app = x.app /\ z.state = x.state
      /\ z.timers = x.timers /\ z.engine = x.engine /\ z.queue = x.queue
      /\ z.pending = x.pending /\ SameHold(x, z)
  BY <1>1 DEF AosSet, SameHold
<1> HIDE DEF z
<1>3. LinkInv(z)
  BY <1>1, <1>2, LinkPosted
<1>4. HeldBack(z) = HeldBack(x)
  BY <1>2 DEF HeldBack, SameHold
<1>5. /\ RadioInv(z) /\ StartedInv(z) /\ KeptInv(z) /\ HeldInv(z) /\ DownInv(z)
      /\ RecoverInv(z)
  BY <1>2, <1>4 DEF Good, RadioInv, StartedInv, SameHold, KeptInv, HeldInv,
     IsRetryHeld, DownInv, RecoverInv, In
<1> QED
  BY <1>2, <1>3, <1>5 DEF Good, z

\* The radio's answer, told to whoever waits for it.
LEMMA RadioAnswerGood ==
    ASSUME NEW s, Good(s), NEW prepared \in BOOLEAN
    PROVE  Good(RadioAnswer(s, prepared))
<1> DEFINE a == [s EXCEPT !.txn.asked = FALSE]
           b == IF a.txn.startType # "DEREG" THEN ToldOfAnswer(a, prepared) ELSE a
           c == IF "REG" \in b.txn.waiting THEN ToldOfAnswer(b, prepared) ELSE b
           w == [c EXCEPT !.txn = AnswerTold(c.txn)]
<1>1. \A x : Good(x) => Good(ToldOfAnswer(x, prepared))
  BY PreparedGood, DeniedGood DEF ToldOfAnswer
<1>2. \A x, y : Good(x) /\ y \in Traffic /\ y.traffics = x.txn.traffics
                /\ RadioIsReleased(y) => Good([x EXCEPT !.txn = y])
  BY TrafficGood
<1>3. Good(a)
  <2> DEFINE y == [s.txn EXCEPT !.asked = FALSE]
  <2>1. s.txn \in Traffic /\ RadioIsReleased(s.txn)
    BY DEF Good, AosSet, RadioInv
  <2>2. y \in Traffic /\ y.traffics = s.txn.traffics /\ RadioIsReleased(y)
    BY <2>1 DEF Traffic, RadioIsReleased
  <2> HIDE DEF y
  <2>3. Good([s EXCEPT !.txn = y])
    BY <1>2, <2>2
  <2> QED
    BY <2>3 DEF y
<1> HIDE DEF a
<1>4. Good(b)
  BY <1>1, <1>3
<1> HIDE DEF b
<1>5. Good(c)
  BY <1>1, <1>4
<1> HIDE DEF c
<1>6. Good(w)
  <2>1. c.txn \in Traffic /\ RadioIsReleased(c.txn)
    BY <1>5 DEF Good, AosSet, RadioInv
  <2>2. /\ AnswerTold(c.txn) \in Traffic
        /\ AnswerTold(c.txn).traffics = c.txn.traffics
        /\ RadioIsReleased(AnswerTold(c.txn))
    BY <2>1 DEF AnswerTold, Traffic, RadioIsReleased
  <2> QED
    BY <1>2, <1>5, <2>2
<1>7. RadioAnswer(s, prepared) = w
  BY DEF RadioAnswer, w, c, b, a
<1> QED
  BY <1>6, <1>7

-----------------------------------------------------------------------------
(* Messages of the queue.                                                  *)

\* A message is taken: nothing but the queue changes.
LEMMA TakenSame ==
    ASSUME NEW s \in AosSet, s.queue # << >>
    PROVE  /\ Taken(s) \in AosSet /\ Same(s, Taken(s)) /\ SameRest(s, Taken(s))
           /\ RadioInv(s) => RadioInv(Taken(s))
           /\ StartedInv(s) => StartedInv(Taken(s))
           /\ DownInv(s) => DownInv(Taken(s))
           /\ RecoverInv(s) => RecoverInv(Taken(s))
<1> DEFINE t == Taken(s)
<1>1. t \in AosSet
  BY TakenFacts
<1>2. Same(s, t) /\ SameRest(s, t)
  BY DEF Taken, AosSet, Same, SameRest
<1> HIDE DEF t
<1>3. HeldBack(t) = HeldBack(s)
  BY <1>2 DEF Same, HeldBack
<1>4. /\ RadioInv(s) => RadioInv(t)
      /\ StartedInv(s) => StartedInv(t)
      /\ DownInv(s) => DownInv(t)
      /\ RecoverInv(s) => RecoverInv(t)
  BY <1>2, <1>3 DEF Same, RadioInv, StartedInv, DownInv, RecoverInv
<1> QED
  BY <1>1, <1>2, <1>4 DEF t

\* The order of what the engine says stays.
LEMMA ResultTaken ==
    ASSUME NEW s \in AosSet, s.queue # << >>, ResultInv(s)
    PROVE  ResultInv(Taken(s))
<1> DEFINE q == s.queue
           r == Tail(q)
           t == Taken(s)
<1>1. q \in Seq(Messages) /\ q # << >>
  BY DEF AosSet
<1>2. \A i \in DOMAIN r : i \in Nat /\ i + 1 \in DOMAIN q /\ r[i] = q[i + 1]
  BY <1>1, TailFacts
<1>3. t.queue = r /\ t.engine = s.engine /\ t.state = s.state
  BY DEF Taken, AosSet
<1> HIDE DEF q, r, t
<1> SUFFICES ASSUME NEW i \in DOMAIN r, IsResult(r[i])
             PROVE  /\ \A j \in DOMAIN r : FromEngine(r[j]) => i <= j
                    /\ s.engine.sub = "IDLE"
                    /\ s.state = ResultOf(r[i])
                    /\ s.engine.state \in
                          IF r[i].to = "START_FAILED" THEN {"CREATED", "INIT"}
                                                      ELSE {"ACTIVE", "TERMINATED"}
  BY <1>3 DEF ResultInv, t
<1>4. i + 1 \in DOMAIN q /\ r[i] = q[i + 1] /\ IsResult(q[i + 1]) /\ i \in Nat
  BY <1>2
<1>5. /\ \A j \in DOMAIN q : FromEngine(q[j]) => i + 1 <= j
      /\ s.engine.sub = "IDLE"
      /\ s.state = ResultOf(r[i])
      /\ s.engine.state \in
            IF r[i].to = "START_FAILED" THEN {"CREATED", "INIT"}
                                        ELSE {"ACTIVE", "TERMINATED"}
  BY <1>4 DEF ResultInv, q
<1>6. ASSUME NEW j \in DOMAIN r, FromEngine(r[j]) PROVE i <= j
  <2>1. j \in Nat /\ i + 1 <= j + 1
    BY <1>2, <1>5, <1>6
  <2> QED
    BY <1>4, <2>1, SMT
<1> QED
  BY <1>5, <1>6

\* A message of someone else than the engine.
LEMMA LinkTaken ==
    ASSUME NEW s \in AosSet, s.queue # << >>, LinkInv(s), ~FromEngine(Head(s.queue))
    PROVE  LinkInv(Taken(s))
<1>1. ~IsResult(Head(s.queue)) /\ Head(s.queue) # EngineEnd
  BY DEF IsResult, FromEngine, EngineEnd
<1>2. (HasResult(s) <=> HasResult(Taken(s))) /\ (In(s, EngineEnd) <=> In(Taken(s), EngineEnd))
  BY <1>1, TakenFacts
<1>3. ResultInv(Taken(s))
  BY ResultTaken DEF LinkInv
<1>4. Taken(s).engine = s.engine /\ Taken(s).state = s.state
  BY TakenSame DEF Same
<1> QED
  BY <1>2, <1>3, <1>4 DEF LinkInv, EndInv, StateInv, TryingInv, RefreshInv

\* What is left to show after such a message: the three that promise something.
LEMMA TakenGood ==
    ASSUME NEW s, Good(s), s.queue # << >>, ~FromEngine(Head(s.queue))
    PROVE  LET t == Taken(s)
               h == Head(s.queue) IN
           /\ t \in AosSet /\ RadioInv(t) /\ StartedInv(t) /\ LinkInv(t)
           /\ DownInv(t) /\ RecoverInv(t)
           /\ h # RegUpdate => Loose(t)
           /\ h # [to |-> "REPORT", what |-> "PDN_RECONNECT_WITH_AWT"]
              /\ h # [to |-> "APP", what |-> "DEACTIVATED"] => HeldInv(t)
           /\ h # RegUpdate
              /\ h # [to |-> "REPORT", what |-> "PDN_RECONNECT_WITH_AWT"]
              /\ h # [to |-> "APP", what |-> "DEACTIVATED"] => Good(t)
<1> DEFINE t == Taken(s)
           h == Head(s.queue)
<1>1. s \in AosSet /\ RadioInv(s) /\ StartedInv(s) /\ LinkInv(s) /\ DownInv(s)
      /\ RecoverInv(s) /\ KeptInv(s) /\ HeldInv(s)
  BY DEF Good
<1>2. /\ t \in AosSet /\ RadioInv(t) /\ StartedInv(t) /\ DownInv(t) /\ RecoverInv(t)
      /\ Same(s, t)
  BY <1>1, TakenSame
<1>3. LinkInv(t)
  BY <1>1, LinkTaken
<1>4. \A x : x # h => (In(s, x) <=> In(t, x))
  BY <1>1, TakenFacts
<1> HIDE DEF t, h
<1>5. h # RegUpdate => KeptInv(t)
  BY <1>1, <1>2, <1>4 DEF KeptInv, RegUpdate, Same, IsRetryHeld
<1>6. HeldBack(t) = HeldBack(s)
  BY <1>2 DEF Same, HeldBack
<1>7. h # [to |-> "REPORT", what |-> "PDN_RECONNECT_WITH_AWT"]
      /\ h # [to |-> "APP", what |-> "DEACTIVATED"] => HeldInv(t)
  BY <1>1, <1>2, <1>4, <1>6 DEF HeldInv, Same, IsRetryHeld
<1> QED
  BY <1>2, <1>3, <1>5, <1>7 DEF Good, Loose, t, h

\* A result that is taken: the engine is done, and has at most its end to tell.
LEMMA ResultFacts ==
    ASSUME NEW s \in AosSet, s.queue # << >>, LinkInv(s), IsResult(Head(s.queue))
    PROVE  LET t == Taken(s)
               h == Head(s.queue) IN
           /\ ~HasResult(t)
           /\ In(t, EngineEnd) => t.engine.state = "TERMINATED"
           /\ t.engine.sub = "IDLE" /\ EngineInv(t.engine)
           /\ t.state = ResultOf(h)
           /\ t.engine.state \in
                 IF h.to = "START_FAILED" THEN {"CREATED", "INIT"}
                                          ELSE {"ACTIVE", "TERMINATED"}
<1> DEFINE q == s.queue
           r == Tail(q)
           t == Taken(s)
           h == Head(q)
<1>1. q \in Seq(Messages) /\ q # << >>
  BY DEF AosSet
<1>2. /\ \A i \in DOMAIN r : i \in 1 .. Len(q) - 1 /\ i + 1 \in DOMAIN q /\ r[i] = q[i + 1]
      /\ 1 \in DOMAIN q /\ h = q[1] /\ Len(q) \in Nat
  BY <1>1, TailFacts
<1>3. t.queue = r /\ t.engine = s.engine /\ t.state = s.state
  BY DEF Taken, AosSet
<1>4. /\ s.engine.sub = "IDLE" /\ s.state = ResultOf(h)
      /\ s.engine.state \in
            IF h.to = "START_FAILED" THEN {"CREATED", "INIT"}
                                     ELSE {"ACTIVE", "TERMINATED"}
  BY <1>2 DEF LinkInv, ResultInv
<1>5. ~HasResult(t)
  <2> SUFFICES ASSUME NEW i \in DOMAIN r, IsResult(r[i]) PROVE FALSE
    BY <1>3 DEF HasResult
  <2>1. i + 1 \in DOMAIN q /\ IsResult(q[i + 1]) /\ i \in 1 .. Len(q) - 1
    BY <1>2
  <2>2. FromEngine(q[1])
    BY <1>2 DEF IsResult
  <2>3. i + 1 <= 1
    BY <1>2, <2>1, <2>2 DEF LinkInv, ResultInv
  <2> QED
    BY <1>2, <2>1, <2>3, SMT
<1>6. In(t, EngineEnd) => s.engine.state = "TERMINATED"
  <2>1. HasResult(s)
    BY <1>2 DEF HasResult
  <2>2. In(t, EngineEnd) => In(s, EngineEnd)
    BY <1>1, TakenFacts
  <2> QED
    BY <2>1, <2>2 DEF LinkInv, EndInv
<1> QED
  BY <1>3, <1>4, <1>5, <1>6 DEF LinkInv, t, h, q

\* The end of the engine comes after its results.
LEMMA EndFacts ==
    ASSUME NEW s \in AosSet, s.queue # << >>, LinkInv(s), Head(s.queue) = EngineEnd
    PROVE  /\ ~HasResult(Taken(s))
           /\ s.engine.state = "TERMINATED"
              \/ (s.engine.state = "ACTIVE" /\ s.engine.sub = "IDLE")
<1> DEFINE q == s.queue
           r == Tail(q)
           t == Taken(s)
<1>1. q \in Seq(Messages) /\ q # << >>
  BY DEF AosSet
<1>2. /\ \A i \in DOMAIN r : i \in 1 .. Len(q) - 1 /\ i + 1 \in DOMAIN q /\ r[i] = q[i + 1]
      /\ 1 \in DOMAIN q /\ q[1] = EngineEnd /\ Len(q) \in Nat
  BY <1>1, TailFacts
<1>3. t.queue = r
  BY DEF Taken, AosSet
<1>4. FromEngine(q[1])
  BY <1>2 DEF FromEngine, EngineEnd
<1>5. ~HasResult(t)
  <2> SUFFICES ASSUME NEW i \in DOMAIN r, IsResult(r[i]) PROVE FALSE
    BY <1>3 DEF HasResult
  <2>1. i + 1 \in DOMAIN q /\ IsResult(q[i + 1]) /\ i \in 1 .. Len(q) - 1
    BY <1>2
  <2>2. i + 1 <= 1
    BY <1>2, <1>4, <2>1 DEF LinkInv, ResultInv
  <2> QED
    BY <1>2, <2>1, <2>2, SMT
<1>6. In(s, EngineEnd)
  BY <1>2 DEF In
<1>7. EndInv(s)
  BY DEF LinkInv
<1>8. s.engine.state = "TERMINATED"
      \/ (s.engine.state = "ACTIVE" /\ s.engine.sub = "IDLE")
  BY <1>6, <1>7 DEF EndInv
<1> QED
  BY <1>5, <1>8

-----------------------------------------------------------------------------
(* The results of the engine.                                              *)

\* What was asked for meanwhile is posted.
LEMMA CheckPendingGood == ASSUME NEW s, Near(s) PROVE Good(CheckPending(s))
<1> DEFINE w == Post(s, "REG", "UPDATE")
<1>1. s \in AosSet
  BY DEF Near
<1>2. Near(w) /\ \A x : In(w, x) <=> In(s, x) \/ x = RegUpdate
  BY <1>1, Posted, PostKeeps DEF RegUpdate
<1>3. KeptInv(w)
  BY <1>2 DEF KeptInv, RegUpdate
<1>4. "UPDATE" \notin s.pending => KeptInv(s)
  BY DEF KeptInv
<1> HIDE DEF w
<1>5. CheckPending(s) = IF "UPDATE" \in s.pending THEN w ELSE s
  BY DEF CheckPending, w
<1> QED
  BY <1>2, <1>3, <1>4, <1>5, GoodParts

LEMMA NearGood == ASSUME NEW s, Good(s) PROVE Near(s)
BY GoodParts

\* A registration that keeps its state has an application above it.
LEMMA UpFacts ==
    ASSUME NEW s, DownInv(s), RecoverInv(s), s.state # "OFFLINE"
    PROVE  AppUp(s) /\ "OFFLINE_RECOVER" \notin s.timers
BY DEF DownInv, RecoverInv, AppUp

\* A first registration that has failed, and why it will go on.
LEMMA RegStopNear ==
    ASSUME NEW w \in AosSet, RadioInv(w), Current(w), Silent(w), AppUp(w),
           w.engine.state \in {"CREATED", "INIT"}, w.engine.sub = "IDLE",
           w.engine.refresh = "OFF", "OFFLINE_RECOVER" \notin w.timers,
           w.state = "REGSTOP",
           \/ "STOP_RETRY" \in w.timers
           \/ In(w, [to |-> "REPORT", what |-> "PDN_RECONNECT_WITH_AWT"])
    PROVE  Near(w)
<1>1. LinkInv(w)
  BY LinkOfSilent DEF EngineInv, StateInv, RefreshInv
<1>2. StartedInv(w) /\ HeldInv(w) /\ DownInv(w) /\ RecoverInv(w)
  BY DEF StartedInv, Current, HeldInv, DownInv, AppUp, RecoverInv
<1> QED
  BY <1>1, <1>2 DEF Near

\* A first registration that has failed: nothing more is heard of it.
FirstFailed(s) ==
    /\ s \in AosSet /\ RadioInv(s) /\ Current(s) /\ Silent(s) /\ AppUp(s)
    /\ s.engine.state \in {"CREATED", "INIT"} /\ s.engine.sub = "IDLE"
    /\ s.engine.refresh = "OFF" /\ "OFFLINE_RECOVER" \notin s.timers

\* It stops, with its timers and its messages.
LEMMA StopAfterFailure ==
    ASSUME NEW s, FirstFailed(s)
    PROVE  LET w == SetState(s, "REGSTOP") IN
           /\ FirstFailed(w) /\ w.state = "REGSTOP" /\ SameRest(s, w)
           /\ w.queue = s.queue
           /\ "STOP_RETRY" \in s.timers => "STOP_RETRY" \in w.timers
<1> DEFINE w == SetState(s, "REGSTOP")
<1>1. s \in AosSet /\ RadioInv(s)
  BY DEF FirstFailed
<1>2. /\ w \in AosSet /\ RadioInv(w)
      /\ w = [s EXCEPT !.state = "REGSTOP", !.txn = w.txn, !.timers = w.timers]
      /\ w.timers \in {s.timers, s.timers \ {"DEREG_TRAFFIC"}}
  BY <1>1, SetStateFacts, Values
<1> HIDE DEF w
<1>3. /\ w.state = "REGSTOP" /\ SameRest(s, w) /\ SameHold(s, w)
      /\ w.engine = s.engine /\ w.queue = s.queue
  BY <1>1, <1>2 DEF AosSet, SameRest, SameHold
<1>4. Current(w) /\ Silent(w) /\ AppUp(w)
  BY <1>3 DEF FirstFailed, Current, HeldBack, SameHold, Silent, AppUp, SameRest
<1>5. "OFFLINE_RECOVER" \notin w.timers
      /\ ("STOP_RETRY" \in s.timers => "STOP_RETRY" \in w.timers)
  BY <1>2 DEF FirstFailed
<1> QED
  BY <1>2, <1>3, <1>4, <1>5 DEF FirstFailed, w

\* A report does not disturb it.
LEMMA ReportAfterFailure ==
    ASSUME NEW s, FirstFailed(s), NEW r \in Results
    PROVE  LET w == Report(s, r) IN
           /\ FirstFailed(w) /\ w.state = s.state /\ w.timers = s.timers
           /\ w.luck = s.luck
           /\ In(w, [to |-> "REPORT", what |-> r])
<1> DEFINE w == Report(s, r)
<1>1. s \in AosSet /\ Silent(s)
  BY DEF FirstFailed
<1>2. /\ w \in AosSet /\ Same(s, w) /\ Silent(w) /\ w = [s EXCEPT !.queue = w.queue]
      /\ In(w, [to |-> "REPORT", what |-> r])
  BY <1>1, ReportKeeps
<1> HIDE DEF w
<1>3. w.luck = s.luck
  BY <1>1, <1>2 DEF AosSet
<1>4. RadioInv(w) /\ Current(w) /\ AppUp(w)
  BY <1>2 DEF FirstFailed, Same, RadioInv, Current, HeldBack, AppUp
<1> QED
  BY <1>2, <1>3, <1>4 DEF FirstFailed, Same, w

\* All P-CSCFs have failed.
LEMMA NoPcscfLeftNear == ASSUME NEW s, FirstFailed(s) PROVE Near(NoPcscfLeft(s))
<1> DEFINE a == SetState(s, "REGSTOP")
           w == Report(a, "PDN_RECONNECT_WITH_AWT")
<1>1. "PDN_RECONNECT_WITH_AWT" \in Results
  BY DEF Results
<1>2. FirstFailed(a) /\ a.state = "REGSTOP"
  BY StopAfterFailure
<1> HIDE DEF a
<1>3. /\ FirstFailed(w) /\ w.state = "REGSTOP"
      /\ In(w, [to |-> "REPORT", what |-> "PDN_RECONNECT_WITH_AWT"])
  BY <1>1, <1>2, ReportAfterFailure
<1> HIDE DEF w
<1>4. Near(w)
  BY <1>3, RegStopNear DEF FirstFailed
<1> QED
  BY <1>4 DEF NoPcscfLeft, w, a

\* An engine that is restored sends a first request.
LEMMA SendAnewFacts ==
    ASSUME NEW s \in AosSet, s.engine # NoEngine
    PROVE  LET w == SendRegister(s, TRUE) IN
           /\ w \in AosSet
           /\ SameRest(s, w) /\ SameHold(s, w) /\ w.state = s.state
           /\ w.timers = s.timers /\ w.txn = s.txn /\ w.queue = s.queue
           /\ w.ok => /\ w.engine.state = "INIT" /\ w.engine.sub = "REGISTERING"
                      /\ w.engine.refresh = "OFF"
           /\ ~w.ok => w.engine = NewEngine
<1> DEFINE w == SendRegister(s, TRUE)
           e == IF TRUE THEN NewEngine ELSE s.engine
           sent == [e EXCEPT !.state = IF @ = "CREATED" THEN "INIT" ELSE @,
                             !.sub = "REGISTERING"]
           ready == s.engine # NoEngine /\ e.sub = "IDLE"
                    /\ e.state \in {"CREATED", "ACTIVE"}
           f == IF ready THEN s.faults + 1 ELSE s.faults
<1>1. /\ e \in Engines /\ s.faults \in Nat /\ f \in Nat /\ e = NewEngine
      /\ e.state = "CREATED" /\ e.sub = "IDLE" /\ e.refresh = "OFF"
  BY DEF AosSet, NewEngine, Engines, EngineStates
<1>2. CASE s.luck.send
  <2>1. ready
    BY <1>1
  <2>2. w = [s EXCEPT !.ok = TRUE, !.engine = sent]
    BY <1>2, <2>1 DEF SendRegister
  <2> HIDE DEF e, ready
  <2>3. /\ sent \in Engines /\ sent.sub = "REGISTERING" /\ sent.refresh = "OFF"
        /\ sent.state = "INIT"
    BY <1>1 DEF Engines, EngineStates
  <2> HIDE DEF w, sent
  <2>4. w \in AosSet /\ w.ok = TRUE /\ w.engine = sent
    BY <2>2, <2>3 DEF AosSet
  <2>5. /\ SameRest(s, w) /\ SameHold(s, w) /\ w.state = s.state
        /\ w.timers = s.timers /\ w.txn = s.txn /\ w.queue = s.queue
    BY <2>2 DEF AosSet, SameRest, SameHold
  <2> QED
    BY <2>3, <2>4, <2>5 DEF w
<1>3. CASE ~s.luck.send
  <2>1. w = [s EXCEPT !.ok = FALSE, !.engine = e, !.faults = f]
    BY <1>3 DEF SendRegister
  <2> HIDE DEF w, e, f
  <2>2. w \in AosSet /\ w.ok = FALSE /\ w.engine = NewEngine
    BY <1>1, <2>1 DEF AosSet
  <2>3. /\ SameRest(s, w) /\ SameHold(s, w) /\ w.state = s.state
        /\ w.timers = s.timers /\ w.txn = s.txn /\ w.queue = s.queue
    BY <2>1 DEF AosSet, SameRest, SameHold
  <2> QED
    BY <2>2, <2>3 DEF w
<1> QED
  BY <1>2, <1>3

\* Another P-CSCF is tried at once.
LEMMA TryNextPcscfNear == ASSUME NEW s, FirstFailed(s) PROVE Near(TryNextPcscf(s))
<1> DEFINE a == SetState(s, "REGSTOP")
           b == Report(a, "GENERAL")
           c == SendRegister(b, TRUE)
<1>1. "GENERAL" \in Results
  BY DEF Results
<1>2. FirstFailed(a) /\ a.state = "REGSTOP"
  BY StopAfterFailure
<1> HIDE DEF a
<1>3. FirstFailed(b) /\ b.state = "REGSTOP"
  BY <1>1, <1>2, ReportAfterFailure
<1> HIDE DEF b
<1>4. b \in AosSet /\ b.engine # NoEngine
  BY <1>3 DEF FirstFailed, NoEngine
<1>5. /\ NewEngine.state = "CREATED" /\ NewEngine.sub = "IDLE"
      /\ NewEngine.refresh = "OFF"
  BY DEF NewEngine
<1>6. /\ c \in AosSet
      /\ SameRest(b, c) /\ SameHold(b, c) /\ c.state = b.state
      /\ c.timers = b.timers /\ c.txn = b.txn /\ c.queue = b.queue
      /\ c.ok => /\ c.engine.state = "INIT" /\ c.engine.sub = "REGISTERING"
                 /\ c.engine.refresh = "OFF"
      /\ ~c.ok => c.engine = NewEngine
  BY <1>4, SendAnewFacts
<1> HIDE DEF c
<1>7. RadioInv(c) /\ Current(c) /\ Silent(c) /\ AppUp(c)
      /\ "OFFLINE_RECOVER" \notin c.timers
  BY <1>3, <1>6 DEF FirstFailed, RadioInv, Current, HeldBack, SameHold, Silent,
     AppUp, SameRest
<1>8. ASSUME c.ok PROVE Near(Trying(c))
  BY <1>6, <1>7, <1>8, EnterTrying, NearGood DEF Trying
<1>9. ASSUME ~c.ok PROVE Near(NoPcscfLeft(c))
  <2>1. FirstFailed(c)
    BY <1>5, <1>6, <1>7, <1>9 DEF FirstFailed
  <2> QED
    BY <2>1, NoPcscfLeftNear
<1>10. Near(NoPcscfLeft(s))
  BY NoPcscfLeftNear
<1>12. c.ok \in BOOLEAN
  BY <1>6 DEF AosSet
<1>13. CASE s.luck.next /\ c.ok
  <2>1. TryNextPcscf(s) = Trying(c)
    BY <1>13 DEF TryNextPcscf, a, b, c
  <2> QED
    BY <1>8, <1>13, <2>1
<1>14. CASE s.luck.next /\ ~c.ok
  <2>1. TryNextPcscf(s) = NoPcscfLeft(c)
    BY <1>14 DEF TryNextPcscf, a, b, c
  <2> QED
    BY <1>9, <1>14, <2>1
<1>15. CASE ~s.luck.next
  <2>1. TryNextPcscf(s) = NoPcscfLeft(s)
    BY <1>15 DEF TryNextPcscf
  <2> QED
    BY <1>10, <2>1
<1> QED
  BY <1>12, <1>13, <1>14, <1>15

\* The retry timer runs from now.
LEMMA RetryAfterFailure ==
    ASSUME NEW s, FirstFailed(s)
    PROVE  LET w == StartTimer(s, "STOP_RETRY") IN
           /\ FirstFailed(w) /\ w.state = s.state /\ "STOP_RETRY" \in w.timers
           /\ w.queue = s.queue
<1> DEFINE w == StartTimer(s, "STOP_RETRY")
           ts == s.timers \cup {"STOP_RETRY"}
<1>1. w = [s EXCEPT !.timers = ts]
  BY DEF StartTimer
<1>2. s \in AosSet /\ ts \in SUBSET Timers /\ "STOP_RETRY" \in ts
      /\ ("DEREG_TRAFFIC" \in s.timers => "DEREG_TRAFFIC" \in ts)
      /\ "OFFLINE_RECOVER" \notin ts
  BY Values DEF FirstFailed, AosSet
<1> HIDE DEF w, ts
<1>3. /\ w \in AosSet /\ w.timers = ts
      /\ SameRest(s, w) /\ w.state = s.state
      /\ w.engine = s.engine /\ w.queue = s.queue
      /\ RadioInv(s) => RadioInv(w)
      /\ Current(s) => Current(w)
  BY <1>1, <1>2, TimersFacts
<1>4. RadioInv(w) /\ Current(w) /\ Silent(w) /\ AppUp(w)
  BY <1>3 DEF FirstFailed, Silent, AppUp, SameRest
<1> QED
  BY <1>2, <1>3, <1>4 DEF FirstFailed, w

\* It waits and registers again.
LEMMA WaitAfterFailure ==
    ASSUME NEW s, FirstFailed(s)
    PROVE  Near(Report(SetState(StartTimer(s, "STOP_RETRY"), "REGSTOP"), "GENERAL"))
<1> DEFINE a == StartTimer(s, "STOP_RETRY")
           b == SetState(a, "REGSTOP")
           w == Report(b, "GENERAL")
<1>1. "GENERAL" \in Results
  BY DEF Results
<1>2. FirstFailed(a) /\ "STOP_RETRY" \in a.timers
  BY RetryAfterFailure
<1> HIDE DEF a
<1>3. FirstFailed(b) /\ b.state = "REGSTOP" /\ "STOP_RETRY" \in b.timers
  BY <1>2, StopAfterFailure
<1> HIDE DEF b
<1>4. FirstFailed(w) /\ w.state = "REGSTOP" /\ "STOP_RETRY" \in w.timers
  BY <1>1, <1>3, ReportAfterFailure
<1> HIDE DEF w
<1>5. Near(w)
  BY <1>4, RegStopNear DEF FirstFailed
<1> QED
  BY <1>5 DEF w, b, a

\* What a result says of the state it is for.
LEMMA ResultMeans ==
    ASSUME NEW m \in Messages
    PROVE  /\ m.to = "START_FAILED" => IsResult(m) /\ ResultOf(m) = "REGISTERING"
           /\ m.to = "UPDATE_FAILED" => IsResult(m) /\ ResultOf(m) = "REFRESHING"
           /\ m.to = "ENGINE" /\ m.what \in {"STARTED", "UPDATED"} =>
                 IsResult(m) /\ ResultOf(m) \in {"REGISTERING", "REFRESHING"}
<1> DEFINE end == [to |-> "ENGINE", what |-> "TERMINATED"]
<1>1. end.to = "ENGINE" /\ end.what = "TERMINATED"
  OBVIOUS
<1>2. m.to # "ENGINE" \/ m.what # "TERMINATED" => m # end
  BY <1>1
<1>3. IsResult(m) <=> m.to \in {"ENGINE", "START_FAILED", "UPDATE_FAILED"} /\ m # end
  BY DEF IsResult, FromEngine
<1> HIDE DEF end
<1>4. ASSUME m.to \in {"START_FAILED", "UPDATE_FAILED"} PROVE IsResult(m)
  BY <1>2, <1>3, <1>4
<1>5. ASSUME m.to = "ENGINE", m.what \in {"STARTED", "UPDATED"} PROVE IsResult(m)
  BY <1>2, <1>3, <1>5
<1>6. /\ m.to = "START_FAILED" => ResultOf(m) = "REGISTERING"
      /\ m.to = "UPDATE_FAILED" => ResultOf(m) = "REFRESHING"
      /\ m.to = "ENGINE" /\ m.what \in {"STARTED", "UPDATED"} =>
            ResultOf(m) \in {"REGISTERING", "REFRESHING"}
  <2>1. m.to \in {"START_FAILED", "UPDATE_FAILED"} =>
           m.what \notin {"STARTED", "UPDATED"}
    BY DEF Messages, FailureReasons, Results
  <2> QED
    BY <2>1 DEF ResultOf
<1> QED
  BY <1>4, <1>5, <1>6

\* Every timer of a retry is stopped.
LEMMA ClearRetryFacts ==
    ASSUME NEW s \in AosSet
    PROVE  LET w == ClearRetryTimers(s) IN
           /\ w \in AosSet
           /\ w.timers = s.timers \ {"STOP_RETRY", "OFFLINE_RECOVER"}
           /\ SameRest(s, w) /\ SameHold(s, w) /\ w.state = s.state
           /\ w.engine = s.engine /\ w.queue = s.queue /\ w.pending = s.pending
           /\ RadioInv(s) => RadioInv(w)
           /\ Current(s) => Current(w)
<1> DEFINE w == ClearRetryTimers(s)
           ts == s.timers \ {"STOP_RETRY", "OFFLINE_RECOVER"}
<1>1. w = [s EXCEPT !.timers = ts]
  BY DEF ClearRetryTimers
<1>2. /\ ts \in SUBSET Timers
      /\ "DEREG_TRAFFIC" \in s.timers => "DEREG_TRAFFIC" \in ts
  BY DEF AosSet
<1> HIDE DEF w, ts
<1>3. /\ w \in AosSet /\ w.timers = ts
      /\ SameRest(s, w) /\ SameHold(s, w) /\ w.state = s.state
      /\ w.engine = s.engine /\ w.queue = s.queue /\ w.pending = s.pending
      /\ RadioInv(s) => RadioInv(w)
      /\ Current(s) => Current(w)
  BY <1>1, <1>2, TimersFacts
<1> QED
  BY <1>3 DEF w, ts

\* What an engine with a registration leaves after a result.
Kept(s) ==
    /\ s \in AosSet /\ RadioInv(s) /\ Current(s) /\ Resting(s) /\ AppUp(s)
    /\ "OFFLINE_RECOVER" \notin s.timers

\* A registration has succeeded.
LEMMA RegisteredGood == ASSUME NEW s, Kept(s) PROVE Good(Registration_Started(s))
<1> DEFINE a == ClearRetryTimers(s)
           b == SetState(a, "REGISTERED")
           c == Report(b, "SUCCESS")
<1>1. "SUCCESS" \in Results
  BY DEF Results
<1>2. /\ a \in AosSet /\ RadioInv(a) /\ Current(a) /\ SameRest(s, a)
      /\ a.engine = s.engine /\ a.queue = s.queue
      /\ "OFFLINE_RECOVER" \notin a.timers
  BY ClearRetryFacts DEF Kept
<1> HIDE DEF a
<1>3. Resting(a) /\ AppUp(a)
  BY <1>2, RestingSame DEF Kept, AppUp, SameRest
<1>4. b \in AosSet /\ Near(b)
  BY <1>2, <1>3, EnterRest
<1> HIDE DEF b
<1>5. Near(c)
  BY <1>1, <1>4, ReportKeeps
<1> HIDE DEF c
<1>6. Good(CheckPending(c))
  BY <1>5, CheckPendingGood
<1> QED
  BY <1>6 DEF Registration_Started, c, b, a

\* A result that is taken from an engine with a registration.
LEMMA KeptAfterResult ==
    ASSUME NEW s, Good(s), s.queue # << >>, IsResult(Head(s.queue)),
           s.state \in {"REGISTERING", "REFRESHING"},
           Head(s.queue).to # "START_FAILED"
    PROVE  Kept(Taken(s))
<1> DEFINE t == Taken(s)
<1>1. s \in AosSet /\ LinkInv(s) /\ RefreshInv(s)
  BY DEF Good, LinkInv
<1>2. /\ t \in AosSet /\ RadioInv(t) /\ StartedInv(t) /\ DownInv(t) /\ RecoverInv(t)
      /\ Same(s, t)
  BY <1>1, TakenSame DEF Good
<1>4. /\ ~HasResult(t)
      /\ In(t, EngineEnd) => t.engine.state = "TERMINATED"
      /\ t.engine.sub = "IDLE" /\ EngineInv(t.engine)
      /\ t.engine.state \in {"ACTIVE", "TERMINATED"}
  BY <1>1, ResultFacts
<1> HIDE DEF t
<1>5. t.engine.state = "TERMINATED" => t.engine.refresh # "HALF"
  BY <1>1, <1>2 DEF RefreshInv, Same
<1>6. Resting(t)
  BY <1>4, <1>5 DEF Resting
<1>7. Current(t) /\ AppUp(t) /\ "OFFLINE_RECOVER" \notin t.timers
  BY <1>2, UpFacts DEF Same, StartedInv, Current
<1> QED
  BY <1>2, <1>6, <1>7 DEF Kept, t

\* ... and from one that has none.
LEMMA FirstFailedAfterResult ==
    ASSUME NEW s, Good(s), s.queue # << >>, Head(s.queue).to = "START_FAILED"
    PROVE  FirstFailed(Taken(s)) /\ Taken(s).state = "REGISTERING"
<1> DEFINE t == Taken(s)
<1>1. s \in AosSet /\ LinkInv(s)
  BY DEF Good
<1>2. /\ t \in AosSet /\ RadioInv(t) /\ StartedInv(t) /\ DownInv(t) /\ RecoverInv(t)
      /\ Same(s, t)
  BY <1>1, TakenSame DEF Good
<1>3. IsResult(Head(s.queue)) /\ ResultOf(Head(s.queue)) = "REGISTERING"
  <2>1. Head(s.queue) \in Messages
    BY <1>1, TailFacts DEF AosSet
  <2> QED
    BY <2>1, ResultMeans
<1>4. /\ ~HasResult(t)
      /\ In(t, EngineEnd) => t.engine.state = "TERMINATED"
      /\ t.engine.sub = "IDLE" /\ EngineInv(t.engine)
      /\ t.state = "REGISTERING"
      /\ t.engine.state \in {"CREATED", "INIT"}
  BY <1>1, <1>3, ResultFacts
<1> HIDE DEF t
<1>5. Silent(t)
  BY <1>2, <1>4, SilentMeans
<1>6. Current(t) /\ AppUp(t) /\ "OFFLINE_RECOVER" \notin t.timers
  BY <1>2, <1>4, UpFacts DEF StartedInv, Current
<1>7. t.engine.refresh = "OFF"
  BY <1>4 DEF EngineInv
<1> QED
  BY <1>2, <1>4, <1>5, <1>6, <1>7 DEF FirstFailed, t

\* A registration has failed.
LEMMA StartFailedGood ==
    ASSUME NEW s, FirstFailed(s), s.state = "REGISTERING", NEW reason
    PROVE  Good(Registration_StartFailed(s, reason))
<1>1. s \in AosSet /\ RadioInv(s)
  BY DEF FirstFailed
<1>2. Near(PermanentlyFailed(s))
  <2>1. "FORBIDDEN" \in Results
    BY DEF Results
  <2> QED
    BY <1>1, <2>1, DestroyGood, NearGood DEF PermanentlyFailed
<1>3. Near(TryNextPcscf(s)) /\ Near(NoPcscfLeft(s))
  BY TryNextPcscfNear, NoPcscfLeftNear
<1>4. Near(Report(SetState(StartTimer(s, "STOP_RETRY"), "REGSTOP"), "GENERAL"))
  BY WaitAfterFailure
<1>5. Near(StartFailedByStatus(s))
  BY <1>3, <1>4 DEF StartFailedByStatus
<1>6. AwtRecovery(s) = Report(SetState(StartTimer(s, "STOP_RETRY"), "REGSTOP"), "GENERAL")
  <2>1. StartTimer(s, "STOP_RETRY").state = "REGISTERING"
    BY RetryAfterFailure
  <2> QED
    BY <2>1 DEF AwtRecovery, SetFailureState
<1> DEFINE r == CASE reason = "PERMANENT" -> PermanentlyFailed(s)
                  [] reason \in {"STATUS", "403_408_504"} -> StartFailedByStatus(s)
                  [] reason = "TIMEOUT" -> TryNextPcscf(s)
                  [] OTHER -> AwtRecovery(s)
<1>7. Near(r)
  BY <1>2, <1>3, <1>4, <1>5, <1>6
<1>8. Registration_StartFailed(s, reason) = CheckPending(r)
  BY DEF Registration_StartFailed
<1> QED
  BY <1>7, <1>8, CheckPendingGood

\* The retry timer runs, and the registration that is kept waits for it.
LEMMA AwtRecoveryNear ==
    ASSUME NEW s, Kept(s), s.state = "REFRESHING"
    PROVE  Near(AwtRecovery(s))
<1> DEFINE a == StartTimer(s, "STOP_RETRY")
           ts == s.timers \cup {"STOP_RETRY"}
           b == SetState(a, "REFRESHSTOP")
           w == Report(b, "GENERAL")
<1>1. "GENERAL" \in Results
  BY DEF Results
<1>2. a = [s EXCEPT !.timers = ts]
  BY DEF StartTimer
<1>3. s \in AosSet /\ ts \in SUBSET Timers /\ "STOP_RETRY" \in ts
      /\ ("DEREG_TRAFFIC" \in s.timers => "DEREG_TRAFFIC" \in ts)
      /\ "OFFLINE_RECOVER" \notin ts
  BY Values DEF Kept, AosSet
<1> HIDE DEF a, ts
<1>4. /\ a \in AosSet /\ a.timers = ts
      /\ SameRest(s, a) /\ a.state = s.state
      /\ a.engine = s.engine /\ a.queue = s.queue
      /\ RadioInv(s) => RadioInv(a)
      /\ Current(s) => Current(a)
  BY <1>2, <1>3, TimersFacts
<1>5. RadioInv(a) /\ Current(a) /\ Resting(a) /\ AppUp(a)
  BY <1>4, RestingSame DEF Kept, AppUp, SameRest
<1>6. b \in AosSet /\ Near(b)
  BY <1>3, <1>4, <1>5, EnterRest
<1> HIDE DEF b
<1>7. Near(w)
  BY <1>1, <1>6, ReportKeeps
<1>8. AwtRecovery(s) = w
  BY <1>4 DEF AwtRecovery, SetFailureState, w, b, a
<1> QED
  BY <1>7, <1>8

\* Registration is required again.
LEMMA RegRequiredGood ==
    ASSUME NEW s \in AosSet, RadioInv(s)
    PROVE  Good(RegRequiredWithAvailableNextPcscf(s))
<1>1. {"TRYING_START", "PDN_RECONNECT"} \subseteq Results
  BY DEF Results
<1>2. /\ Clean(Report(Destroy(s), "TRYING_START"))
      /\ Good(Report(Destroy(s), "PDN_RECONNECT"))
  BY <1>1, DestroyGood
<1>3. Good(StartTimer(Report(Destroy(s), "TRYING_START"), "OFFLINE_RECOVER"))
  BY <1>2, RecoverLater
<1> QED
  BY <1>2, <1>3 DEF RegRequiredWithAvailableNextPcscf

\* An update has failed.
LEMMA UpdateFailedGood ==
    ASSUME NEW s, Kept(s), s.state = "REFRESHING", NEW reason
    PROVE  Good(Registration_UpdateFailed(s, reason))
<1>1. s \in AosSet /\ RadioInv(s) /\ Resting(s) /\ AppUp(s)
      /\ "OFFLINE_RECOVER" \notin s.timers
  BY DEF Kept
<1>2. Near(AwtRecovery(s))
  BY AwtRecoveryNear
<1>3. Near(HoldByCall(s))
  BY <1>1, HoldByCallNear
<1>4. Near(PermanentlyFailed(s))
  <2>1. "FORBIDDEN" \in Results
    BY DEF Results
  <2> QED
    BY <1>1, <2>1, DestroyGood, NearGood DEF PermanentlyFailed
<1>5. Near(ProcessReinitiate(s))
  BY <1>1, ReinitiateGood, NearGood
<1>6. Near(RegRequiredWithAvailableNextPcscf(s))
  BY <1>1, RegRequiredGood, NearGood
<1> DEFINE r == CASE reason = "OTHER" -> AwtRecovery(s)
                  [] reason # "OTHER" /\ HeldByCall(s) -> HoldByCall(s)
                  [] OTHER ->
                       CASE reason = "PERMANENT" -> PermanentlyFailed(s)
                         [] reason = "403_408_504" -> ProcessReinitiate(s)
                         [] OTHER -> RegRequiredWithAvailableNextPcscf(s)
<1>7. Near(r)
  BY <1>2, <1>3, <1>4, <1>5, <1>6
<1>8. Registration_UpdateFailed(s, reason) = CheckPending(r)
  BY DEF Registration_UpdateFailed
<1> QED
  BY <1>7, <1>8, CheckPendingGood

\* A registration has been removed.
LEMMA RemovedGood ==
    ASSUME NEW s \in AosSet, RadioInv(s)
    PROVE  Good(Registration_Removed(s))
<1>1. "SUCCESS" \in Results
  BY DEF Results
<1>2. Good(Destroy(s)) /\ Good(Report(Destroy(s), "SUCCESS"))
  BY <1>1, DestroyGood
<1> QED
  BY <1>2 DEF Registration_Removed

\* The registration has ended.
LEMMA TerminatedGood ==
    ASSUME NEW s, Good(s), s.queue # << >>, Head(s.queue) = EngineEnd
    PROVE  Good(Registration_Terminated(Taken(s)))
<1> DEFINE t == Taken(s)
<1>1. s \in AosSet /\ LinkInv(s) /\ EngineInv(s.engine)
  BY DEF Good, LinkInv
<1>2. /\ t \in AosSet /\ RadioInv(t) /\ DownInv(t) /\ Same(s, t)
  BY <1>1, TakenSame DEF Good
<1>3. ~HasResult(t)
  BY <1>1, EndFacts
<1>4. s.engine.state = "TERMINATED"
      \/ (s.engine.state = "ACTIVE" /\ s.engine.sub = "IDLE")
  BY <1>1, EndFacts
<1> HIDE DEF t
<1>5. AppUp(t)
  BY <1>2, <1>4 DEF DownInv, AppUp, Same, NoEngine
<1>6. "TERMINATED" \in Results
  BY DEF Results
<1>7. Good(Destroy(t)) /\ Good(Report(Destroy(t), "TERMINATED"))
  BY <1>2, <1>6, DestroyGood
<1>8. CASE t.call
  <2> DEFINE a == StopTimer(t, "STOP_RETRY")
             b == StopDeregTraffic(a)
             c == SetState(b, "OFFLINE")
             d == [c EXCEPT !.heldByCall = TRUE]
             e == UpdateTransactionStarted(d)
             w == AddPending(e, "TRANSACTION")
  <2>1. Registration_Terminated(t) = w
    BY <1>8 DEF Registration_Terminated, ClearTimers
  <2>2. a \in AosSet /\ RadioInv(a) /\ a.app = t.app /\ a.engine = t.engine
        /\ a.queue = t.queue
    <3>1. a = [t EXCEPT !.timers = t.timers \ {"STOP_RETRY"}]
      BY DEF StopTimer
    <3>2. /\ t.timers \ {"STOP_RETRY"} \in SUBSET Timers
          /\ "DEREG_TRAFFIC" \in t.timers => "DEREG_TRAFFIC" \in t.timers \ {"STOP_RETRY"}
      BY <1>2 DEF AosSet
    <3> HIDE DEF a
    <3> QED
      BY <1>2, <3>1, <3>2, TimersFacts DEF SameRest
  <2> HIDE DEF a
  <2>3. /\ b \in AosSet /\ RadioInv(b)
        /\ b = [a EXCEPT !.txn = b.txn, !.timers = a.timers \ {"DEREG_TRAFFIC"}]
    BY <2>2, StopDeregFacts
  <2> HIDE DEF b
  <2>4. b.app = t.app /\ b.engine = t.engine /\ b.queue = t.queue
    BY <2>2, <2>3 DEF AosSet
  <2>5. /\ c \in AosSet /\ RadioInv(c)
        /\ c = [b EXCEPT !.state = "OFFLINE", !.txn = c.txn, !.timers = c.timers]
    BY <2>3, SetStateFacts, Values
  <2> HIDE DEF c
  <2>6. c.app = t.app /\ c.engine = t.engine /\ c.queue = t.queue
        /\ c.state = "OFFLINE"
    BY <2>3, <2>4, <2>5 DEF AosSet
  <2>7. /\ d \in AosSet /\ d.app = c.app /\ d.engine = c.engine /\ d.queue = c.queue
        /\ d.state = c.state /\ d.txn = c.txn /\ d.timers = c.timers
    BY <2>5 DEF AosSet
  <2> HIDE DEF d
  <2>8. RadioInv(d)
    BY <2>5, <2>7 DEF RadioInv
  <2>9. e \in AosSet /\ Current(e) /\ e = [d EXCEPT !.started = ~HeldBack(d)]
        /\ RadioInv(e)
    BY <2>7, <2>8, UpdateStartedFacts
  <2> HIDE DEF e
  <2>10. e.app = d.app /\ e.engine = d.engine /\ e.queue = d.queue /\ e.state = d.state
    BY <2>7, <2>9 DEF AosSet
  <2>11. /\ w \in AosSet /\ RadioInv(w) /\ Current(w)
         /\ SameRest(e, w) /\ w.engine = e.engine /\ w.queue = e.queue
         /\ w.state = e.state
    BY <2>9, AddPendingFacts, Values
  <2> HIDE DEF w
  <2>12. /\ w.engine = s.engine /\ w.queue = t.queue /\ w.state = "OFFLINE"
         /\ w.app = t.app
    BY <1>2, <2>6, <2>7, <2>10, <2>11 DEF SameRest, Same
  <2>13. ~HasResult(w)
    BY <1>3, <2>12 DEF HasResult
  <2>14. ResultInv(w)
    BY <2>13 DEF ResultInv, HasResult
  <2>15. EndInv(w)
    BY <1>4, <2>12, <2>13 DEF EndInv
  <2>16. EngineInv(w.engine) /\ StateInv(w)
    BY <1>1, <1>4, <2>12 DEF StateInv
  <2>17. TryingInv(w) /\ RefreshInv(w)
    BY <2>12 DEF TryingInv, RefreshInv
  <2>18. LinkInv(w) /\ AppUp(w)
    BY <1>5, <2>12, <2>14, <2>15, <2>16, <2>17 DEF LinkInv, AppUp
  <2>19. Good(w)
    BY <2>11, <2>12, <2>18, OfflineGood
  <2> QED
    BY <2>1, <2>19 DEF t
<1>9. CASE ~t.call
  BY <1>7, <1>9 DEF Registration_Terminated, t
<1> QED
  BY <1>2, <1>8, <1>9 DEF AosSet, t

\* Whatever the engine has to say.
LEMMA EngineMessageGood ==
    ASSUME NEW s, Good(s), s.queue # << >>, FromEngine(Head(s.queue))
    PROVE  LET h == Head(s.queue)
               t == Taken(s) IN
           /\ h.to = "ENGINE" => Good(EngineSucceeded(t, h.what))
           /\ h.to = "START_FAILED" => Good(Registration_StartFailed(t, h.what))
           /\ h.to = "UPDATE_FAILED" => Good(Registration_UpdateFailed(t, h.what))
<1> DEFINE h == Head(s.queue)
           t == Taken(s)
<1>1. s \in AosSet /\ LinkInv(s)
  BY DEF Good
<1>2. /\ t \in AosSet /\ RadioInv(t) /\ Same(s, t)
  BY <1>1, TakenSame DEF Good
<1>3. h \in Messages
  BY <1>1, TailFacts DEF AosSet
<1>4. IsResult(h) => t.state = ResultOf(h)
  BY <1>1, ResultFacts
<1> HIDE DEF t
<1>5. ASSUME h.to = "START_FAILED" PROVE Good(Registration_StartFailed(t, h.what))
  BY <1>5, FirstFailedAfterResult, StartFailedGood DEF t
<1>6. ASSUME h.to = "UPDATE_FAILED" PROVE Good(Registration_UpdateFailed(t, h.what))
  <2>1. IsResult(h) /\ ResultOf(h) = "REFRESHING"
    BY <1>3, <1>6, ResultMeans
  <2>2. t.state = "REFRESHING"
    BY <1>4, <2>1
  <2>3. s.state = "REFRESHING"
    BY <1>2, <2>2 DEF Same
  <2>4. Kept(t)
    BY <1>6, <2>1, <2>3, KeptAfterResult DEF t
  <2> QED
    BY <2>2, <2>4, UpdateFailedGood
<1>7. ASSUME h.to = "ENGINE" PROVE Good(EngineSucceeded(t, h.what))
  <2>1. h = [to |-> "ENGINE", what |-> h.what]
        /\ h.what \in {"STARTED", "UPDATED", "REMOVED", "TERMINATED"}
    BY <1>3, <1>7 DEF Messages
  <2>2. CASE h.what = "TERMINATED"
    <3>1. h = EngineEnd
      BY <2>1, <2>2 DEF EngineEnd
    <3>2. Good(Registration_Terminated(t))
      BY <3>1, TerminatedGood DEF t
    <3> QED
      BY <2>2, <3>2 DEF EngineSucceeded
  <2>3. CASE h.what = "REMOVED"
    <3>1. Good(Registration_Removed(t))
      BY <1>2, RemovedGood
    <3> QED
      BY <2>3, <3>1 DEF EngineSucceeded
  <2>4. CASE h.what \in {"STARTED", "UPDATED"}
    <3>1. IsResult(h) /\ ResultOf(h) \in {"REGISTERING", "REFRESHING"}
      BY <1>3, <1>7, <2>4, ResultMeans
    <3>2. t.state \in {"REGISTERING", "REFRESHING"}
      BY <1>4, <3>1
    <3>3. s.state \in {"REGISTERING", "REFRESHING"}
      BY <1>2, <3>2 DEF Same
    <3>4. Kept(t)
      BY <1>7, <3>1, <3>3, KeptAfterResult DEF t
    <3>5. Good(Registration_Started(t))
      BY <3>4, RegisteredGood
    <3> QED
      BY <2>4, <3>5 DEF EngineSucceeded, Registration_Updated
  <2> QED
    BY <2>1, <2>2, <2>3, <2>4
<1> QED
  BY <1>5, <1>6, <1>7 DEF t

-----------------------------------------------------------------------------
(* The engine at work.                                                     *)

\* Nothing but the engine and what it says changes.
OnlyEngine(s, w) ==
    /\ w.app = s.app /\ w.state = s.state /\ w.pending = s.pending
    /\ w.timers = s.timers /\ w.txn = s.txn /\ SameHold(s, w)

\* What is left to show when the engine moves.
LEMMA EngineMoves ==
    ASSUME NEW s, Good(s), NEW w \in AosSet, OnlyEngine(s, w), LinkInv(w),
           s.engine # NoEngine,
           \A x : In(s, x) => In(w, x)
    PROVE  Good(w)
<1>1. HeldBack(w) = HeldBack(s)
  BY DEF HeldBack, OnlyEngine, SameHold
<1>2. RadioInv(w) /\ StartedInv(w) /\ RecoverInv(w)
  BY <1>1 DEF Good, OnlyEngine, SameHold, RadioInv, StartedInv, RecoverInv
<1>3. KeptInv(w) /\ HeldInv(w)
  BY <1>1 DEF Good, OnlyEngine, KeptInv, HeldInv, IsRetryHeld
<1>4. DownInv(w)
  BY DEF Good, OnlyEngine, DownInv
<1> QED
  BY <1>2, <1>3, <1>4 DEF Good

\* An engine whose request is under way, and the state that awaits it.
LEMMA AtWorkFacts ==
    ASSUME NEW s, Good(s), s.engine.sub # "IDLE"
    PROVE  /\ s.engine \in Engines /\ s.engine # NoEngine /\ ~HasResult(s)
           /\ EngineInv(s.engine)
           /\ s.engine.state \in {"INIT", "ACTIVE", "TERMINATED"}
           /\ s.engine.state = "INIT" =>
                 s.state = "REGISTERING" /\ s.engine.refresh = "OFF"
                 /\ s.engine.sub = "REGISTERING"
           /\ s.engine.state = "ACTIVE" =>
                 s.state = IF s.engine.sub = "DEREGISTERING" THEN "DEREGISTERING"
                                                             ELSE "REFRESHING"
           /\ s.engine.state = "TERMINATED" =>
                 s.state \in {"OFFLINE", "REFRESHING", "DEREGISTERING"}
                 /\ (s.state # "OFFLINE" => In(s, EngineEnd))
                 /\ (s.state = "DEREGISTERING" => s.engine.sub = "DEREGISTERING")
           /\ s.engine.state # "TERMINATED" => Silent(s)
<1>1. s \in AosSet /\ ResultInv(s) /\ EndInv(s) /\ EngineInv(s.engine) /\ StateInv(s)
      /\ TryingInv(s)
  BY DEF Good, LinkInv
<1>2. ~HasResult(s)
  BY <1>1, NoResultAtWork
<1>3. s.engine \in Engines /\ s.engine # NoEngine
  BY <1>1 DEF AosSet, NoEngine
<1>4. s.engine.state \in {"INIT", "ACTIVE", "TERMINATED"}
  BY <1>1, <1>3 DEF EngineInv, Engines, EngineStates
<1>5. s.state \in States /\ s.engine.sub \in {"REGISTERING", "REFRESHING", "DEREGISTERING"}
  BY <1>1, <1>3 DEF AosSet, Engines
<1>6. s.engine.state = "INIT" =>
         s.state = "REGISTERING" /\ s.engine.refresh = "OFF"
         /\ s.engine.sub = "REGISTERING"
  BY <1>1, <1>2, <1>5, Values DEF StateInv, EngineInv
<1>7. s.engine.state = "ACTIVE" =>
         s.state = IF s.engine.sub = "DEREGISTERING" THEN "DEREGISTERING"
                                                     ELSE "REFRESHING"
  BY <1>1, <1>2, <1>5, Values DEF StateInv
<1>8. s.engine.state = "TERMINATED" =>
         s.state \in {"OFFLINE", "REFRESHING", "DEREGISTERING"}
         /\ (s.state = "DEREGISTERING" => s.engine.sub = "DEREGISTERING")
  BY <1>1, <1>2, <1>5, Values DEF StateInv
<1>9. s.engine.state = "TERMINATED" /\ s.state # "OFFLINE" => In(s, EngineEnd)
  BY <1>1, <1>2, <1>8 DEF TryingInv
<1>10. s.engine.state # "TERMINATED" => Silent(s)
  BY <1>1, <1>2, SilentMeans DEF EndInv
<1> QED
  BY <1>1, <1>2, <1>3, <1>4, <1>6, <1>7, <1>8, <1>9, <1>10

\* The engine is done, and posts the result.
LEMMA ResultPosted ==
    ASSUME NEW s, Good(s), Silent(s), s.engine # NoEngine,
           NEW w \in AosSet, NEW m \in Messages, IsResult(m),
           OnlyEngine(s, w), w.queue = Append(s.queue, m),
           s.state = ResultOf(m), s.state \in {"REGISTERING", "REFRESHING", "DEREGISTERING"},
           w.engine.sub = "IDLE", EngineInv(w.engine), RefreshInv(w),
           w.engine.state \in IF m.to = "START_FAILED" THEN {"CREATED", "INIT"}
                                                       ELSE {"ACTIVE", "TERMINATED"},
           s.state # "REGISTERING" => w.engine.state \in {"ACTIVE", "TERMINATED"}
    PROVE  Good(w)
<1>1. s \in AosSet /\ s.queue \in Seq(Messages)
  BY DEF Good, AosSet
<1>2. /\ \A x : In(w, x) <=> In(s, x) \/ x = m
      /\ HasResult(w) <=> HasResult(s) \/ IsResult(m)
  BY <1>1, PostedFacts
<1>3. w.state = s.state
  BY DEF OnlyEngine
<1>4. /\ \A i \in DOMAIN w.queue : FromEngine(w.queue[i]) => w.queue[i] = m
      /\ \A i, j \in DOMAIN w.queue :
            FromEngine(w.queue[i]) /\ FromEngine(w.queue[j]) => i <= j
  <2> DEFINE q == s.queue
             n == Len(q) + 1
  <2>1. /\ DOMAIN w.queue = 1 .. n /\ DOMAIN q = 1 .. Len(q)
        /\ \A i \in 1 .. Len(q) : w.queue[i] = q[i]
        /\ w.queue[n] = m /\ Len(q) \in Nat
        /\ \A i \in 1 .. n : i \in 1 .. Len(q) \/ i = n
    BY <1>1, AppendFacts
  <2>2. n <= n
    BY <2>1, SMT
  <2> HIDE DEF n, q
  <2>3. \A i \in DOMAIN w.queue : FromEngine(w.queue[i]) => i = n
    BY <2>1 DEF Silent, q
  <2> QED
    BY <2>1, <2>2, <2>3
<1>5. ResultInv(w)
  <2> SUFFICES ASSUME NEW i \in DOMAIN w.queue, IsResult(w.queue[i])
               PROVE  /\ \A j \in DOMAIN w.queue : FromEngine(w.queue[j]) => i <= j
                      /\ w.engine.sub = "IDLE"
                      /\ w.state = ResultOf(w.queue[i])
                      /\ w.engine.state \in
                            IF w.queue[i].to = "START_FAILED"
                            THEN {"CREATED", "INIT"} ELSE {"ACTIVE", "TERMINATED"}
    BY DEF ResultInv
  <2>1. FromEngine(w.queue[i])
    BY DEF IsResult
  <2>2. w.queue[i] = m
    BY <1>4, <2>1
  <2>3. \A j \in DOMAIN w.queue : FromEngine(w.queue[j]) => i <= j
    BY <1>4, <2>1
  <2> QED
    BY <1>3, <2>2, <2>3
<1>6. ~In(w, EngineEnd)
  <2>1. ~In(s, EngineEnd)
    BY <1>1, SilentMeans
  <2>2. m # EngineEnd
    BY DEF IsResult, EngineEnd
  <2> QED
    BY <1>2, <2>1, <2>2
<1>7. EndInv(w)
  BY <1>6 DEF EndInv
<1>8. StateInv(w)
  <2>1. CASE s.state = "REGISTERING"
    BY <1>2, <1>3, <2>1 DEF StateInv
  <2>2. CASE s.state = "REFRESHING"
    BY <1>3, <2>2 DEF StateInv
  <2>3. CASE s.state = "DEREGISTERING"
    BY <1>3, <2>3 DEF StateInv
  <2> QED
    BY <2>1, <2>2, <2>3
<1>9. TryingInv(w)
  BY <1>2 DEF TryingInv
<1>10. LinkInv(w)
  BY <1>5, <1>7, <1>8, <1>9 DEF LinkInv
<1> QED
  BY <1>2, <1>10, EngineMoves

\* What the engine posts, and the state that awaits it.
LEMMA EngineWords ==
    /\ \A r \in FailureReasons :
          /\ [to |-> "START_FAILED", what |-> r] \in Messages
          /\ IsResult([to |-> "START_FAILED", what |-> r])
          /\ ResultOf([to |-> "START_FAILED", what |-> r]) = "REGISTERING"
          /\ [to |-> "UPDATE_FAILED", what |-> r] \in Messages
          /\ IsResult([to |-> "UPDATE_FAILED", what |-> r])
          /\ ResultOf([to |-> "UPDATE_FAILED", what |-> r]) = "REFRESHING"
    /\ \A r \in {"STARTED", "UPDATED", "REMOVED"} :
          /\ [to |-> "ENGINE", what |-> r] \in Messages
          /\ IsResult([to |-> "ENGINE", what |-> r])
    /\ ResultOf([to |-> "ENGINE", what |-> "STARTED"]) = "REGISTERING"
    /\ ResultOf([to |-> "ENGINE", what |-> "UPDATED"]) = "REFRESHING"
    /\ ResultOf([to |-> "ENGINE", what |-> "REMOVED"]) = "DEREGISTERING"
    /\ EngineEnd \in Messages
<1>1. ASSUME NEW r \in FailureReasons
      PROVE  /\ [to |-> "START_FAILED", what |-> r] \in Messages
             /\ [to |-> "UPDATE_FAILED", what |-> r] \in Messages
  BY DEF Messages
<1>2. ASSUME NEW r \in FailureReasons
      PROVE  /\ IsResult([to |-> "START_FAILED", what |-> r])
             /\ ResultOf([to |-> "START_FAILED", what |-> r]) = "REGISTERING"
             /\ IsResult([to |-> "UPDATE_FAILED", what |-> r])
             /\ ResultOf([to |-> "UPDATE_FAILED", what |-> r]) = "REFRESHING"
  BY <1>1, ResultMeans
<1>3. \A r \in {"STARTED", "UPDATED", "REMOVED"} :
         [to |-> "ENGINE", what |-> r] \in Messages
  BY DEF Messages
<1>4. \A r \in {"STARTED", "UPDATED", "REMOVED"} :
         IsResult([to |-> "ENGINE", what |-> r])
  BY DEF IsResult, FromEngine
<1>5. /\ ResultOf([to |-> "ENGINE", what |-> "STARTED"]) = "REGISTERING"
      /\ ResultOf([to |-> "ENGINE", what |-> "UPDATED"]) = "REFRESHING"
      /\ ResultOf([to |-> "ENGINE", what |-> "REMOVED"]) = "DEREGISTERING"
  BY DEF ResultOf
<1>6. EngineEnd \in Messages
  BY DEF EngineEnd, Messages
<1> QED
  BY <1>1, <1>2, <1>3, <1>4, <1>5, <1>6

\* The engine changes, and posts a message.
LEMMA EnginePosts ==
    ASSUME NEW s \in AosSet, NEW n \in Engines, NEW to, NEW what,
           [to |-> to, what |-> what] \in Messages
    PROVE  LET z == [s EXCEPT !.engine = n]
               w == Post(z, to, what) IN
           /\ z \in AosSet /\ OnlyEngine(s, z) /\ z.queue = s.queue /\ z.engine = n
           /\ w \in AosSet /\ OnlyEngine(s, w) /\ w.engine = n
           /\ w.queue = Append(s.queue, [to |-> to, what |-> what])
<1> DEFINE m == [to |-> to, what |-> what]
           z == [s EXCEPT !.engine = n]
           w == Post(z, to, what)
<1>1. m \in Messages
  OBVIOUS
<1>2. /\ z \in AosSet /\ OnlyEngine(s, z) /\ z.queue = s.queue /\ z.engine = n
  BY DEF AosSet, OnlyEngine, SameHold
<1>3. w = [z EXCEPT !.queue = Append(z.queue, m)]
  BY DEF Post
<1> HIDE DEF m, z, w
<1>4. Append(z.queue, m) \in Seq(Messages)
  BY <1>1, <1>2, AppendFacts DEF AosSet
<1>5. /\ w \in AosSet /\ OnlyEngine(z, w) /\ w.engine = z.engine
      /\ w.queue = Append(z.queue, m)
  BY <1>2, <1>3, <1>4 DEF AosSet, OnlyEngine, SameHold
<1>6. OnlyEngine(s, w)
  BY <1>2, <1>5 DEF OnlyEngine, SameHold
<1> QED
  BY <1>2, <1>5, <1>6 DEF m, z, w

\* An engine that has ended goes on unheard.
LEMMA UnheardGood ==
    ASSUME NEW s, Good(s), s.engine.sub # "IDLE", s.engine.state = "TERMINATED",
           NEW n \in Engines, n.sub = "IDLE",
           \/ n.state = "ACTIVE" /\ s.engine.sub # "DEREGISTERING"
           \/ n.state = "TERMINATED" /\ n.refresh \in {"OFF", s.engine.refresh}
    PROVE  Good([s EXCEPT !.engine = n])
<1> DEFINE z == [s EXCEPT !.engine = n]
<1>1. s \in AosSet /\ RefreshInv(s) /\ LinkInv(s)
  BY DEF Good, LinkInv
<1>2. /\ z \in AosSet /\ OnlyEngine(s, z) /\ z.queue = s.queue /\ z.engine = n
  BY <1>1 DEF AosSet, OnlyEngine, SameHold
<1> HIDE DEF z
<1>3. /\ s.engine # NoEngine /\ ~HasResult(s) /\ EngineInv(s.engine)
      /\ s.state \in {"OFFLINE", "REFRESHING", "DEREGISTERING"}
      /\ (s.state # "OFFLINE" => In(s, EngineEnd))
      /\ (s.state = "DEREGISTERING" => s.engine.sub = "DEREGISTERING")
  BY AtWorkFacts
<1>4. ~HasResult(z) /\ (In(z, EngineEnd) <=> In(s, EngineEnd)) /\ z.state = s.state
  BY <1>2, <1>3 DEF HasResult, In, OnlyEngine
<1>5. ResultInv(z)
  BY <1>4 DEF ResultInv, HasResult
<1>6. EndInv(z)
  BY <1>2, <1>3, <1>4 DEF EndInv
<1>7. EngineInv(z.engine)
  BY <1>2 DEF EngineInv
<1>8. StateInv(z)
  BY <1>2, <1>3, <1>4 DEF StateInv
<1>9. TryingInv(z)
  BY <1>3, <1>4 DEF TryingInv
<1>10. RefreshInv(z)
  BY <1>1, <1>2, <1>4 DEF RefreshInv
<1>11. LinkInv(z)
  BY <1>5, <1>6, <1>7, <1>8, <1>9, <1>10 DEF LinkInv
<1>12. \A x : In(s, x) => In(z, x)
  BY <1>2 DEF In
<1> QED
  BY <1>2, <1>3, <1>11, <1>12, EngineMoves DEF z

\* A request has succeeded.
LEMMA SucceedsGood ==
    ASSUME NEW s, Good(s), s.engine.sub \in {"REGISTERING", "REFRESHING"}
    PROVE  Good(CallListener(
               [s EXCEPT !.engine = [state |-> "ACTIVE", sub |-> "IDLE",
                                     refresh |-> "HALF"]],
               s.engine, TRUE, "OTHER"))
<1> DEFINE n == [state |-> "ACTIVE", sub |-> "IDLE", refresh |-> "HALF"]
           z == [s EXCEPT !.engine = n]
           r == CallListener(z, s.engine, TRUE, "OTHER")
<1>1. s \in AosSet
  BY DEF Good
<1>2. /\ n \in Engines /\ n.state = "ACTIVE" /\ n.sub = "IDLE"
  BY DEF Engines, EngineStates
<1> HIDE DEF n
<1>3. EngineInv(n)
  BY <1>2 DEF EngineInv
<1>4. /\ s.engine # NoEngine
      /\ s.engine.state \in {"INIT", "ACTIVE", "TERMINATED"}
      /\ s.engine.state = "INIT" => s.state = "REGISTERING"
      /\ s.engine.state = "ACTIVE" => s.state = "REFRESHING"
      /\ s.engine.state # "TERMINATED" => Silent(s)
  BY AtWorkFacts
<1>5. CASE s.engine.state = "INIT"
  <2> DEFINE w == Post(z, "ENGINE", "STARTED")
             m == [to |-> "ENGINE", what |-> "STARTED"]
  <2>1. m \in Messages /\ IsResult(m) /\ ResultOf(m) = "REGISTERING" /\ m.to = "ENGINE"
    BY EngineWords
  <2>2. /\ w \in AosSet /\ OnlyEngine(s, w) /\ w.engine = n
        /\ w.queue = Append(s.queue, m)
    BY <1>1, <1>2, <2>1, EnginePosts
  <2>3. r = w
    BY <1>5 DEF CallListener
  <2> HIDE DEF w, m
  <2>4. RefreshInv(w)
    BY <1>2, <2>2 DEF RefreshInv
  <2>5. Good(w)
    BY <1>2, <1>3, <1>4, <1>5, <2>1, <2>2, <2>4, ResultPosted
  <2> QED
    BY <2>3, <2>5 DEF n
<1>6. CASE s.engine.state = "ACTIVE"
  <2> DEFINE w == Post(z, "ENGINE", "UPDATED")
             m == [to |-> "ENGINE", what |-> "UPDATED"]
  <2>1. m \in Messages /\ IsResult(m) /\ ResultOf(m) = "REFRESHING" /\ m.to = "ENGINE"
    BY EngineWords
  <2>2. /\ w \in AosSet /\ OnlyEngine(s, w) /\ w.engine = n
        /\ w.queue = Append(s.queue, m)
    BY <1>1, <1>2, <2>1, EnginePosts
  <2>3. r = w
    BY <1>6 DEF CallListener
  <2> HIDE DEF w, m
  <2>4. RefreshInv(w)
    BY <1>2, <2>2 DEF RefreshInv
  <2>5. Good(w)
    BY <1>2, <1>3, <1>4, <1>6, <2>1, <2>2, <2>4, ResultPosted
  <2> QED
    BY <2>3, <2>5 DEF n
<1>7. CASE s.engine.state = "TERMINATED"
  <2>1. r = z
    BY <1>7 DEF CallListener
  <2>2. Good(z)
    BY <1>2, <1>7, UnheardGood
  <2> QED
    BY <2>1, <2>2 DEF n
<1> QED
  BY <1>4, <1>5, <1>6, <1>7

\* ... or failed.
LEMMA FailsGood ==
    ASSUME NEW s, Good(s), s.engine.sub \in {"REGISTERING", "REFRESHING"},
           NEW reason \in FailureReasons, NEW response \in BOOLEAN,
           NEW gone \in BOOLEAN
    PROVE  Good(CallListener(
               [s EXCEPT !.engine =
                   [s.engine EXCEPT
                       !.sub = "IDLE",
                       !.refresh = IF gone THEN "OFF" ELSE @,
                       !.state = CASE @ = "INIT" /\ response -> "CREATED"
                                   [] @ # "INIT" /\ gone -> "TERMINATED"
                                   [] OTHER -> @]],
               s.engine, FALSE, reason))
<1> DEFINE e == s.engine
           st == CASE e.state = "INIT" /\ response -> "CREATED"
                   [] e.state # "INIT" /\ gone -> "TERMINATED"
                   [] OTHER -> e.state
           rf == IF gone THEN "OFF" ELSE e.refresh
           n == [e EXCEPT !.sub = "IDLE", !.refresh = rf, !.state = st]
           z == [s EXCEPT !.engine = n]
           r == CallListener(z, e, FALSE, reason)
<1>1. s \in AosSet /\ RefreshInv(s)
  BY DEF Good, LinkInv
<1>2. /\ e \in Engines /\ e # NoEngine /\ EngineInv(e)
      /\ e.state \in {"INIT", "ACTIVE", "TERMINATED"}
      /\ e.state = "INIT" => s.state = "REGISTERING" /\ e.refresh = "OFF"
      /\ e.state = "ACTIVE" => s.state = "REFRESHING"
      /\ e.state # "TERMINATED" => Silent(s)
  BY AtWorkFacts
<1>3. /\ e.state = "INIT" => st \in {"INIT", "CREATED"}
      /\ e.state = "ACTIVE" => st = IF gone THEN "TERMINATED" ELSE "ACTIVE"
      /\ e.state = "TERMINATED" => st = "TERMINATED"
  OBVIOUS
<1>4. st \in EngineStates /\ rf \in {"OFF", "HALF", "REST"} /\ rf \in {"OFF", e.refresh}
  BY <1>2, <1>3 DEF Engines, EngineStates
<1>5. (gone => rf = "OFF") /\ (e.refresh = "OFF" => rf = "OFF")
  OBVIOUS
<1> HIDE DEF st, rf
<1>6. /\ n \in Engines /\ n.state = st /\ n.sub = "IDLE" /\ n.refresh = rf
  BY <1>2, <1>4 DEF Engines, EngineStates
<1> HIDE DEF n
<1>7. CASE e.state = "INIT"
  <2> DEFINE w == Post(z, "START_FAILED", reason)
             m == [to |-> "START_FAILED", what |-> reason]
  <2>1. m \in Messages /\ IsResult(m) /\ ResultOf(m) = "REGISTERING"
        /\ m.to = "START_FAILED"
    BY EngineWords
  <2>2. /\ w \in AosSet /\ OnlyEngine(s, w) /\ w.engine = n
        /\ w.queue = Append(s.queue, m)
    BY <1>1, <1>6, <2>1, EnginePosts
  <2>3. r = w
    BY <1>7 DEF CallListener
  <2> HIDE DEF w, m
  <2>4. st \in {"INIT", "CREATED"} /\ rf = "OFF"
    BY <1>2, <1>3, <1>5, <1>7
  <2>5. RefreshInv(w) /\ EngineInv(w.engine)
    BY <1>6, <2>2, <2>4 DEF RefreshInv, EngineInv
  <2>6. w.engine.state \in {"INIT", "CREATED"} /\ w.engine.sub = "IDLE"
    BY <1>6, <2>2, <2>4
  <2>7. Good(w)
    BY <1>2, <1>7, <2>1, <2>2, <2>5, <2>6, ResultPosted
  <2> QED
    BY <2>3, <2>7 DEF n, st, rf
<1>8. CASE e.state = "ACTIVE"
  <2> DEFINE w == Post(z, "UPDATE_FAILED", reason)
             m == [to |-> "UPDATE_FAILED", what |-> reason]
  <2>1. m \in Messages /\ IsResult(m) /\ ResultOf(m) = "REFRESHING"
        /\ m.to = "UPDATE_FAILED"
    BY EngineWords
  <2>2. /\ w \in AosSet /\ OnlyEngine(s, w) /\ w.engine = n
        /\ w.queue = Append(s.queue, m)
    BY <1>1, <1>6, <2>1, EnginePosts
  <2>3. r = w
    BY <1>2, <1>8 DEF CallListener
  <2> HIDE DEF w, m
  <2>4. st \in {"ACTIVE", "TERMINATED"} /\ (st = "TERMINATED" => rf = "OFF")
    BY <1>3, <1>5, <1>8
  <2>5. RefreshInv(w) /\ EngineInv(w.engine)
    BY <1>6, <2>2, <2>4 DEF RefreshInv, EngineInv
  <2>6. w.engine.state \in {"ACTIVE", "TERMINATED"} /\ w.engine.sub = "IDLE"
    BY <1>6, <2>2, <2>4
  <2>7. Good(w)
    BY <1>2, <1>8, <2>1, <2>2, <2>5, <2>6, ResultPosted
  <2> QED
    BY <2>3, <2>7 DEF n, st, rf
<1>9. CASE e.state = "TERMINATED"
  <2>1. r = z
    BY <1>9 DEF CallListener
  <2>2. Good(z)
    BY <1>3, <1>4, <1>6, <1>9, UnheardGood
  <2> QED
    BY <2>1, <2>2 DEF n, st, rf
<1> QED
  BY <1>2, <1>7, <1>8, <1>9

\* A de-registration has ended.
LEMMA DeregEndsGood ==
    ASSUME NEW s, Good(s), s.engine.sub = "DEREGISTERING", NEW refused \in BOOLEAN
    PROVE  Good(CallListener(
               [s EXCEPT !.engine.sub = "IDLE",
                         !.engine.state = IF refused THEN @ ELSE "TERMINATED"],
               s.engine, TRUE, "OTHER"))
<1> DEFINE e == s.engine
           st == IF refused THEN e.state ELSE "TERMINATED"
           n == [e EXCEPT !.sub = "IDLE", !.state = st]
           z == [s EXCEPT !.engine = n]
           r == CallListener(z, e, TRUE, "OTHER")
<1>1. s \in AosSet
  BY DEF Good
<1>2. /\ e \in Engines /\ e # NoEngine
      /\ e.state \in {"ACTIVE", "TERMINATED"}
      /\ e.state = "ACTIVE" => s.state = "DEREGISTERING"
      /\ e.state # "TERMINATED" => Silent(s)
  BY AtWorkFacts
<1>3. st \in {"ACTIVE", "TERMINATED"} /\ (e.state = "TERMINATED" => st = "TERMINATED")
  BY <1>2
<1>4. [s EXCEPT !.engine.sub = "IDLE",
                !.engine.state = IF refused THEN @ ELSE "TERMINATED"] = z
  BY <1>1, <1>2 DEF AosSet, Engines
<1> HIDE DEF st
<1>5. n \in Engines /\ n.state = st /\ n.sub = "IDLE" /\ n.refresh = e.refresh
  BY <1>2, <1>3 DEF Engines, EngineStates
<1> HIDE DEF n
<1>6. Good(r)
  <2>1. CASE e.state = "ACTIVE"
    <3> DEFINE w == Post(z, "ENGINE", "REMOVED")
               m == [to |-> "ENGINE", what |-> "REMOVED"]
    <3>1. m \in Messages /\ IsResult(m) /\ ResultOf(m) = "DEREGISTERING"
          /\ m.to = "ENGINE"
      BY EngineWords
    <3>2. /\ w \in AosSet /\ OnlyEngine(s, w) /\ w.engine = n
          /\ w.queue = Append(s.queue, m)
      BY <1>1, <1>5, <3>1, EnginePosts
    <3>3. r = w
      BY <2>1 DEF CallListener
    <3> HIDE DEF w, m
    <3>4. w.state = "DEREGISTERING"
      BY <1>2, <2>1, <3>2 DEF OnlyEngine
    <3>5. RefreshInv(w) /\ EngineInv(w.engine)
      BY <1>3, <1>5, <3>2, <3>4 DEF RefreshInv, EngineInv
    <3>6. Good(w)
      BY <1>2, <1>3, <1>5, <2>1, <3>1, <3>2, <3>5, ResultPosted
    <3> QED
      BY <3>3, <3>6
  <2>2. CASE e.state = "TERMINATED"
    <3>1. r = z
      BY <2>2 DEF CallListener
    <3>2. Good(z)
      BY <1>3, <1>5, <2>2, UnheardGood
    <3> QED
      BY <3>1, <3>2
  <2> QED
    BY <1>2, <2>1, <2>2
<1> QED
  BY <1>4, <1>6

\* The engine ends, and says so after all that it has said.
LEMMA EndPosted ==
    ASSUME NEW s \in AosSet, ResultInv(s), StateInv(s), NEW w \in AosSet,
           w.queue = Append(s.queue, EngineEnd), w.state = s.state,
           s.engine.state \in {"ACTIVE", "TERMINATED"},
           w.engine.state = "TERMINATED", w.engine.sub = s.engine.sub,
           w.engine.refresh # "HALF"
    PROVE  LinkInv(w)
<1>1. s.queue \in Seq(Messages) /\ EngineEnd \in Messages /\ ~IsResult(EngineEnd)
  BY EngineWords DEF AosSet, IsResult, EngineEnd
<1>2. /\ In(w, EngineEnd)
      /\ HasResult(w) <=> HasResult(s)
  BY <1>1, PostedFacts
<1>3. ResultInv(w)
  <2> DEFINE q == s.queue
             n == Len(q) + 1
  <2>1. /\ DOMAIN w.queue = 1 .. n /\ DOMAIN q = 1 .. Len(q)
        /\ \A i \in 1 .. Len(q) : w.queue[i] = q[i]
        /\ w.queue[n] = EngineEnd /\ Len(q) \in Nat
        /\ \A i \in 1 .. n : i \in 1 .. Len(q) \/ i = n
    BY <1>1, AppendFacts
  <2>2. \A i \in 1 .. Len(q) : i <= n
    BY <2>1, SMT
  <2> HIDE DEF n, q
  <2> SUFFICES ASSUME NEW i \in DOMAIN w.queue, IsResult(w.queue[i])
               PROVE  /\ \A j \in DOMAIN w.queue : FromEngine(w.queue[j]) => i <= j
                      /\ w.engine.sub = "IDLE"
                      /\ w.state = ResultOf(w.queue[i])
                      /\ w.engine.state \in
                            IF w.queue[i].to = "START_FAILED"
                            THEN {"CREATED", "INIT"} ELSE {"ACTIVE", "TERMINATED"}
    BY DEF ResultInv
  <2>3. i \in 1 .. Len(q) /\ w.queue[i] = q[i]
    BY <1>1, <2>1
  <2>4. /\ \A j \in DOMAIN q : FromEngine(q[j]) => i <= j
        /\ s.engine.sub = "IDLE" /\ s.state = ResultOf(q[i])
        /\ s.engine.state \in IF q[i].to = "START_FAILED" THEN {"CREATED", "INIT"}
                                                          ELSE {"ACTIVE", "TERMINATED"}
    BY <2>1, <2>3 DEF ResultInv, q
  <2>5. \A j \in DOMAIN w.queue : FromEngine(w.queue[j]) => i <= j
    BY <2>1, <2>2, <2>3, <2>4
  <2>6. q[i].to # "START_FAILED"
    BY <2>4
  <2> QED
    BY <2>3, <2>4, <2>5, <2>6
<1>4. EndInv(w) /\ EngineInv(w.engine) /\ RefreshInv(w)
  BY DEF EndInv, EngineInv, RefreshInv
<1>5. StateInv(w)
  <2>1. s.state \in States
    BY DEF AosSet
  <2>2. CASE s.state = "OFFLINE"
    BY <2>2 DEF StateInv
  <2>3. CASE s.state = "REGISTERING"
    BY <1>2, <2>3 DEF StateInv
  <2>4. CASE s.state = "REGSTOP"
    BY <2>4 DEF StateInv
  <2>5. CASE s.state \in {"REGISTERED", "REFRESHSTOP"}
    BY <2>5 DEF StateInv
  <2>6. CASE s.state = "REFRESHING"
    BY <2>6 DEF StateInv
  <2>7. CASE s.state = "DEREGISTERING"
    BY <2>7 DEF StateInv
  <2> QED
    BY <2>1, <2>2, <2>3, <2>4, <2>5, <2>6, <2>7, Values
<1>6. TryingInv(w)
  BY <1>2 DEF TryingInv
<1> QED
  BY <1>3, <1>4, <1>5, <1>6 DEF LinkInv

\* The refresh timer runs for an engine that has been active.
LEMMA TimerFacts ==
    ASSUME NEW s, Good(s), s.engine.refresh # "OFF"
    PROVE  /\ s.engine \in Engines /\ s.engine # NoEngine
           /\ s.engine.state \in {"ACTIVE", "TERMINATED"}
           /\ s \in AosSet /\ LinkInv(s)
<1>1. s \in AosSet /\ LinkInv(s) /\ EngineInv(s.engine)
  BY DEF Good, LinkInv
<1>2. s.engine \in Engines /\ s.engine # NoEngine
  BY <1>1 DEF AosSet, NoEngine
<1>3. s.engine.state \in {"ACTIVE", "TERMINATED"}
  BY <1>1, <1>2 DEF EngineInv, Engines, EngineStates
<1> QED
  BY <1>1, <1>2, <1>3

\* The registration expires.
LEMMA ExpiresGood ==
    ASSUME NEW s, Good(s), s.engine.refresh = "REST"
    PROVE  Good(EngineTerminates([s EXCEPT !.engine.refresh = "OFF"]))
<1> DEFINE n == [s.engine EXCEPT !.refresh = "OFF", !.state = "TERMINATED"]
           z == [s EXCEPT !.engine = n]
           w == Post(z, "ENGINE", "TERMINATED")
<1>1. /\ s.engine \in Engines /\ s.engine # NoEngine
      /\ s.engine.state \in {"ACTIVE", "TERMINATED"}
      /\ s \in AosSet /\ LinkInv(s)
  BY TimerFacts
<1>2. EngineTerminates([s EXCEPT !.engine.refresh = "OFF"]) = w
  BY <1>1 DEF EngineTerminates, Post, AosSet, Engines
<1>3. n \in Engines /\ n.state = "TERMINATED" /\ n.sub = s.engine.sub /\ n.refresh = "OFF"
  BY <1>1 DEF Engines, EngineStates
<1> HIDE DEF n
<1>4. [to |-> "ENGINE", what |-> "TERMINATED"] \in Messages
  BY EngineWords DEF EngineEnd
<1>5. /\ w \in AosSet /\ OnlyEngine(s, w) /\ w.engine = n
      /\ w.queue = Append(s.queue, EngineEnd)
  BY <1>1, <1>3, <1>4, EnginePosts DEF EngineEnd
<1> HIDE DEF w
<1>6. LinkInv(w)
  BY <1>1, <1>3, <1>5, EndPosted DEF LinkInv, OnlyEngine
<1>7. \A x : In(s, x) => In(w, x)
  BY <1>1, <1>5, EngineWords, PostedFacts
<1>8. Good(w)
  BY <1>1, <1>5, <1>6, <1>7, EngineMoves
<1> QED
  BY <1>2, <1>8

\* Half of the expiration has passed.
LEMMA HalfGood ==
    ASSUME NEW s, Good(s), s.engine.refresh = "HALF"
    PROVE  LET w == [s EXCEPT !.engine.refresh = "REST"] IN
           /\ Good(w) /\ w.engine.refresh = "REST"
           /\ w.state = "REGISTERED" => w.engine.state = "ACTIVE"
<1> DEFINE w == [s EXCEPT !.engine.refresh = "REST"]
<1>1. /\ s.engine \in Engines /\ s.engine # NoEngine
      /\ s.engine.state \in {"ACTIVE", "TERMINATED"}
      /\ s \in AosSet /\ LinkInv(s)
  BY TimerFacts
<1>2. /\ w \in AosSet /\ OnlyEngine(s, w) /\ w.queue = s.queue
      /\ w.engine \in Engines /\ w.engine.state = s.engine.state
      /\ w.engine.sub = s.engine.sub /\ w.engine.refresh = "REST"
  BY <1>1 DEF AosSet, OnlyEngine, SameHold, Engines
<1> HIDE DEF w
<1>3. w.state = s.state
  BY <1>2 DEF OnlyEngine
<1>4. (HasResult(w) <=> HasResult(s)) /\ (\A x : In(w, x) <=> In(s, x))
  BY <1>2 DEF HasResult, In
<1>5. ResultInv(w)
  BY <1>1, <1>2, <1>3 DEF LinkInv, ResultInv
<1>6. EndInv(w)
  BY <1>1, <1>2, <1>3, <1>4 DEF LinkInv, EndInv
<1>7. EngineInv(w.engine)
  BY <1>1, <1>2 DEF EngineInv
<1>8. StateInv(w)
  BY <1>1, <1>2, <1>3, <1>4 DEF LinkInv, StateInv
<1>9. TryingInv(w) /\ RefreshInv(w)
  BY <1>1, <1>2, <1>3, <1>4 DEF LinkInv, TryingInv, RefreshInv
<1>10. Good(w)
  BY <1>1, <1>2, <1>4, <1>5, <1>6, <1>7, <1>8, <1>9, EngineMoves DEF LinkInv
<1>11. w.state = "REGISTERED" => w.engine.state = "ACTIVE"
  BY <1>1, <1>2, <1>3 DEF LinkInv, RefreshInv
<1> QED
  BY <1>2, <1>10, <1>11 DEF w

\* The registration says that it is trying to refresh.
LEMMA TryingKeeps ==
    ASSUME NEW s \in AosSet, RadioInv(s), Current(s), Silent(s), AppUp(s),
           "OFFLINE_RECOVER" \notin s.timers
    PROVE  LET w == ReportTryingState(SetState(s, "REFRESHING")) IN
           /\ w \in AosSet /\ RadioInv(w) /\ Current(w) /\ Silent(w) /\ AppUp(w)
           /\ "OFFLINE_RECOVER" \notin w.timers /\ w.state = "REFRESHING"
           /\ w.engine = s.engine /\ w.luck = s.luck
<1> DEFINE x == SetState(s, "REFRESHING")
           w == ReportTryingState(x)
<1>1. /\ x \in AosSet /\ RadioInv(x)
      /\ x = [s EXCEPT !.state = "REFRESHING", !.txn = x.txn, !.timers = x.timers]
      /\ x.timers \in {s.timers, s.timers \ {"DEREG_TRAFFIC"}}
  BY SetStateFacts, Values
<1> HIDE DEF x
<1>2. /\ x.state = "REFRESHING" /\ x.engine = s.engine /\ x.luck = s.luck
      /\ x.app = s.app /\ x.queue = s.queue /\ SameHold(s, x)
  BY <1>1 DEF AosSet, SameHold
<1>3. "OFFLINE_RECOVER" \notin x.timers /\ Silent(x) /\ AppUp(x) /\ Current(x)
  BY <1>1, <1>2 DEF Silent, AppUp, Current, HeldBack, SameHold
<1>4. PICK r \in Results : w = Report(x, r)
  BY TryingIsReported
<1>5. /\ w \in AosSet /\ Same(x, w)
      /\ w = [x EXCEPT !.queue = w.queue]
      /\ Silent(w)
  BY <1>1, <1>3, <1>4, ReportKeeps
<1> HIDE DEF w
<1>6. w.luck = x.luck
  BY <1>1, <1>5 DEF AosSet
<1>7. RadioInv(w) /\ Current(w) /\ AppUp(w)
  BY <1>1, <1>3, <1>5 DEF Same, RadioInv, Current, HeldBack, AppUp
<1> QED
  BY <1>2, <1>3, <1>5, <1>6, <1>7 DEF Same, w, x

\* A registration that is being refreshed.
LEMMA RefreshingGood ==
    ASSUME NEW w \in AosSet, RadioInv(w), Current(w), LinkInv(w), AppUp(w),
           "OFFLINE_RECOVER" \notin w.timers, w.state = "REFRESHING"
    PROVE  Good(w)
BY DEF Good, StartedInv, Current, KeptInv, HeldInv, IsRetryHeld, DownInv, AppUp,
       RecoverInv

\* The listener of the refresh timer, and what the engine makes of its answer.
RefreshStep(s) ==
    LET a == Registration_RefreshTimerExpired(s) IN
    CASE s.engine.sub # "IDLE" -> s
      [] s.engine.sub = "IDLE" /\ ~a.ok -> a
      [] s.engine.sub = "IDLE" /\ a.ok /\ s.luck.send ->
           [a EXCEPT !.engine.sub = "REFRESHING"]
      [] OTHER -> EngineTerminates([a EXCEPT !.faults = @ + 1])

\* The registration is not refreshed now.
LEMMA NoRefreshGood ==
    ASSUME NEW s, Good(s), NEW x, Good(x),
           Registration_RefreshTimerExpired(s) = [x EXCEPT !.ok = FALSE]
    PROVE  Good(RefreshStep(s))
<1> DEFINE a == [x EXCEPT !.ok = FALSE]
<1>1. x \in AosSet
  BY DEF Good
<1>2. a \in AosSet /\ Same(x, a) /\ a.queue = x.queue /\ a.ok = FALSE
  BY <1>1 DEF AosSet, Same
<1> HIDE DEF a
<1>3. Good(a)
  BY <1>2, SameKeeps
<1>4. Registration_RefreshTimerExpired(s) = a
  BY DEF a
<1>5. RefreshStep(s) = IF s.engine.sub # "IDLE" THEN s ELSE a
  BY <1>2, <1>4 DEF RefreshStep
<1> QED
  BY <1>3, <1>5

LEMMA RefreshStepGood ==
    ASSUME NEW s, Good(s), s.engine.refresh = "REST",
           s.state = "REGISTERED" => s.engine.state = "ACTIVE"
    PROVE  Good(RefreshStep(s))
<1> DEFINE r == Registration_RefreshTimerExpired(s)
           a == CheckRadioReadyAndSetTxnPending(s)
           p == AddPending(s, "TRAFFIC")
<1>1. CASE s.state # "REGISTERED"
  <2>1. r = [s EXCEPT !.ok = FALSE]
    BY <1>1 DEF Registration_RefreshTimerExpired
  <2> QED
    BY <2>1, NoRefreshGood
<1>2. CASE s.state = "REGISTERED"
  <2>1. /\ s \in AosSet /\ RadioInv(s) /\ Current(s) /\ LinkInv(s) /\ AppUp(s)
        /\ "OFFLINE_RECOVER" \notin s.timers
        /\ "UPDATE" \in s.pending => In(s, RegUpdate)
    BY <1>2 DEF Good, StartedInv, Current, DownInv, AppUp, RecoverInv, KeptInv, RegUpdate
  <2>2. Resting(s)
    BY <1>2, <2>1, RestingLink
  <2>3. CASE ~s.started
    <3>1. /\ p \in AosSet /\ p.pending = s.pending \cup {"TRAFFIC"}
          /\ SameRest(s, p) /\ SameHold(s, p)
          /\ p.engine = s.engine /\ p.queue = s.queue /\ p.timers = s.timers
          /\ RadioInv(p) /\ Current(p)
      BY <2>1, AddPendingFacts, Values
    <3>2. r = [SetState(p, "REFRESHSTOP") EXCEPT !.ok = FALSE]
      BY <1>2, <2>3 DEF Registration_RefreshTimerExpired
    <3> HIDE DEF p
    <3>3. HeldBack(p) /\ AppUp(p) /\ Resting(p)
          /\ (In(p, RegUpdate) <=> In(s, RegUpdate))
      <4>1. HeldBack(s)
        BY <2>1, <2>3 DEF Current
      <4>2. HeldBack(p)
        BY <3>1, <4>1 DEF HeldBack, SameHold
      <4> QED
        BY <2>1, <2>2, <3>1, <4>2, RestingSame DEF SameRest, AppUp, In
    <3>4. "TRAFFIC" \in Owes
      BY DEF Owes
    <3>5. p.pending \cap Owes # {}
          /\ ("UPDATE" \in p.pending <=> "UPDATE" \in s.pending)
      BY <3>1, <3>4, OwesFacts
    <3>6. Good(SetState(p, "REFRESHSTOP"))
      BY <2>1, <3>1, <3>3, <3>5, EnterRest
    <3> QED
      BY <3>2, <3>6, NoRefreshGood
  <2>4. /\ a \in AosSet /\ RadioInv(a) /\ Current(a)
        /\ SameRest(s, a) /\ a.state = s.state /\ a.timers = s.timers
        /\ a.engine = s.engine /\ a.queue = s.queue
        /\ a.ok => a.started = s.started /\ a.pending = s.pending
        /\ ~a.ok => /\ HeldBack(a) /\ ~a.started
                    /\ a.pending \in {s.pending \cup {"TRAFFIC"},
                                      s.pending \cup {"TRANSACTION"}}
    BY <2>1, CheckRadioFacts
  <2>5. a.ok \in BOOLEAN /\ a.started \in BOOLEAN /\ s.started \in BOOLEAN
    BY <2>1, <2>4 DEF AosSet
  <2>6. CASE s.started /\ ~a.started
    <3> DEFINE h == AddPending(a, "TRANSACTION")
    <3>1. r = [HoldRefresh(h) EXCEPT !.ok = FALSE]
      BY <1>2, <2>6 DEF Registration_RefreshTimerExpired
    <3> HIDE DEF a
    <3>2. /\ h \in AosSet /\ h.pending = a.pending \cup {"TRANSACTION"}
          /\ SameRest(a, h) /\ SameHold(a, h)
          /\ h.engine = a.engine /\ h.queue = a.queue /\ h.timers = a.timers
          /\ RadioInv(h) /\ Current(h)
      BY <2>4, AddPendingFacts, Values
    <3> HIDE DEF h
    <3>3. HeldBack(h)
      <4>1. HeldBack(a)
        BY <2>4, <2>5, <2>6
      <4> QED
        BY <3>2, <4>1 DEF HeldBack, SameHold
    <3>4. AppUp(h) /\ Resting(h) /\ (In(h, RegUpdate) <=> In(s, RegUpdate))
      BY <2>1, <2>2, <2>4, <3>2, RestingSame DEF SameRest, AppUp, In
    <3>5. "TRANSACTION" \in Owes /\ "TRAFFIC" \in Owes
      BY DEF Owes
    <3>6. h.pending \cap Owes # {}
          /\ ("UPDATE" \in h.pending <=> "UPDATE" \in a.pending)
      BY <3>2, <3>5, OwesFacts
    <3>7. "UPDATE" \in a.pending <=> "UPDATE" \in s.pending
      BY <2>4, <2>6, <3>5, OwesFacts
    <3>8. Good(HoldRefresh(h))
      BY <2>1, <2>4, <3>2, <3>3, <3>4, <3>6, <3>7, HoldRefreshGood
    <3> QED
      BY <3>1, <3>8, NoRefreshGood
  <2>7. CASE s.started /\ a.started
    <3> DEFINE x == ReportTryingState(SetState(a, "REFRESHING"))
               y == [x EXCEPT !.ok = TRUE]
               u == [y EXCEPT !.engine.sub = "REFRESHING"]
               v == EngineTerminates([y EXCEPT !.faults = @ + 1])
    <3>1. r = y
      BY <1>2, <2>7 DEF Registration_RefreshTimerExpired
    <3> HIDE DEF a
    <3>2. s.engine.state = "ACTIVE" /\ s.engine.sub = "IDLE"
      BY <1>2, <2>2 DEF Resting
    <3>3. Silent(s)
      BY <1>2, <2>1, <3>2, SilentAtRest
    <3>4. Silent(a) /\ AppUp(a)
      BY <2>1, <2>4, <3>3 DEF Silent, AppUp, SameRest
    <3>5. /\ x \in AosSet /\ RadioInv(x) /\ Current(x) /\ Silent(x) /\ AppUp(x)
          /\ "OFFLINE_RECOVER" \notin x.timers /\ x.state = "REFRESHING"
          /\ x.engine = s.engine /\ x.luck = s.luck
      BY <2>1, <2>4, <3>4, TryingKeeps DEF SameRest
    <3> HIDE DEF x
    <3>6. x.engine \in Engines
      BY <3>2, <3>5 DEF AosSet, NoEngine
    <3>7. /\ y \in AosSet /\ y.ok = TRUE /\ Same(x, y) /\ y.queue = x.queue
          /\ y.engine = s.engine
      BY <3>5 DEF AosSet, Same
    <3> HIDE DEF y
    <3>8. /\ RadioInv(y) /\ Current(y) /\ Silent(y) /\ AppUp(y)
          /\ "OFFLINE_RECOVER" \notin y.timers /\ y.state = "REFRESHING"
          /\ y.engine \in Engines
      BY <3>5, <3>6, <3>7 DEF Same, RadioInv, Current, HeldBack, Silent, AppUp
    <3>9. Good(u)
      <4>1. /\ u \in AosSet /\ OnlyEngine(y, u) /\ u.queue = y.queue
            /\ u.engine.state = "ACTIVE" /\ u.engine.sub = "REFRESHING"
        BY <3>2, <3>7, <3>8 DEF AosSet, OnlyEngine, SameHold, Engines
      <4> HIDE DEF u
      <4>2. /\ RadioInv(u) /\ Current(u) /\ Silent(u) /\ AppUp(u)
            /\ "OFFLINE_RECOVER" \notin u.timers /\ u.state = "REFRESHING"
        BY <3>8, <4>1
           DEF OnlyEngine, SameHold, RadioInv, Current, HeldBack, Silent, AppUp
      <4>3. LinkInv(u)
        BY <4>1, <4>2, LinkOfActive
      <4> QED
        BY <4>1, <4>2, <4>3, RefreshingGood
    <3>10. Good(v)
      <4> DEFINE f == [y EXCEPT !.faults = @ + 1]
                 n == [f.engine EXCEPT !.state = "TERMINATED"]
                 z == [f EXCEPT !.engine = n]
                 w == Post(z, "ENGINE", "TERMINATED")
      <4>1. /\ f \in AosSet /\ OnlyEngine(y, f) /\ f.queue = y.queue
            /\ f.engine = s.engine
        BY <3>7 DEF AosSet, OnlyEngine, SameHold
      <4>2. v = Post([f EXCEPT !.engine.state = "TERMINATED"], "ENGINE", "TERMINATED")
        BY DEF EngineTerminates
      <4> HIDE DEF f, v
      <4>3. f.engine \in Engines
        BY <3>7, <3>8, <4>1
      <4>4. v = w
        BY <4>2
      <4>5. n \in Engines /\ n.state = "TERMINATED" /\ n.sub = "IDLE"
            /\ n.refresh = "REST"
        BY <3>2, <4>1, <4>3 DEF Engines, EngineStates
      <4> HIDE DEF n
      <4>6. [to |-> "ENGINE", what |-> "TERMINATED"] \in Messages
        BY EngineWords DEF EngineEnd
      <4>7. /\ w \in AosSet /\ OnlyEngine(f, w) /\ w.engine = n
            /\ w.queue = Append(f.queue, EngineEnd)
        BY <4>1, <4>5, <4>6, EnginePosts DEF EngineEnd
      <4> HIDE DEF w
      <4>8. w.state = "REFRESHING" /\ f.state = "REFRESHING"
        BY <3>8, <4>1, <4>7 DEF OnlyEngine
      <4>9. ResultInv(f) /\ StateInv(f)
        <5>1. Silent(f)
          BY <3>8, <4>1 DEF Silent
        <5>2. ResultInv(f)
          BY <5>1 DEF ResultInv, Silent, IsResult
        <5>3. StateInv(f)
          BY <3>2, <4>1, <4>8 DEF StateInv
        <5> QED
          BY <5>2, <5>3
      <4>10. LinkInv(w)
        BY <3>2, <4>1, <4>5, <4>7, <4>8, <4>9, EndPosted
      <4>11. /\ RadioInv(w) /\ Current(w) /\ AppUp(w)
             /\ "OFFLINE_RECOVER" \notin w.timers
        BY <3>8, <4>1, <4>7
           DEF OnlyEngine, SameHold, RadioInv, Current, HeldBack, AppUp
      <4>12. Good(w)
        BY <4>7, <4>8, <4>10, <4>11, RefreshingGood
      <4> QED
        BY <4>4, <4>12
    <3>11. RefreshStep(s) \in {s, u, v}
      BY <3>1, <3>7 DEF RefreshStep
    <3> QED
      BY <3>9, <3>10, <3>11
  <2> QED
    BY <2>3, <2>5, <2>6, <2>7
<1> QED
  BY <1>1, <1>2

-----------------------------------------------------------------------------
(* Timers.                                                                 *)

\* The traffic of a de-registration is given up after a while.
LEMMA DeregTimerGood ==
    ASSUME NEW s, Good(s) PROVE Good(DeregTrafficTimerExpired(s))
<1> DEFINE w == StopDeregTraffic(s)
<1>1. s \in AosSet /\ RadioInv(s) /\ LinkInv(s)
  BY DEF Good
<1>2. /\ w \in AosSet /\ RadioInv(w)
      /\ w = [s EXCEPT !.txn = w.txn, !.timers = s.timers \ {"DEREG_TRAFFIC"}]
  BY <1>1, StopDeregFacts
<1> HIDE DEF w
<1>3. /\ w.app = s.app /\ w.state = s.state /\ w.engine = s.engine
      /\ w.queue = s.queue /\ w.pending = s.pending /\ SameHold(s, w)
      /\ w.timers = s.timers \ {"DEREG_TRAFFIC"}
  BY <1>1, <1>2 DEF AosSet, SameHold
<1>4. LinkInv(w)
  BY <1>1, <1>2, <1>3, LinkPosted
<1>5. HeldBack(w) = HeldBack(s)
  BY <1>3 DEF HeldBack, SameHold
<1>6. StartedInv(w) /\ KeptInv(w) /\ HeldInv(w) /\ DownInv(w) /\ RecoverInv(w)
  BY <1>3, <1>5 DEF Good, StartedInv, SameHold, KeptInv, HeldInv, IsRetryHeld,
     DownInv, RecoverInv, In
<1>7. Good(w)
  BY <1>2, <1>4, <1>6 DEF Good
<1> QED
  BY <1>7 DEF DeregTrafficTimerExpired, w

\* The radio is released.
LEMMA StopTimerGood ==
    ASSUME NEW s, Good(s)
    PROVE  Good([s EXCEPT !.txn = StopTimerExpired(@)])
<1>1. s.txn \in Traffic
  BY DEF Good, AosSet
<1>2. /\ StopTimerExpired(s.txn) \in Traffic
      /\ StopTimerExpired(s.txn).traffics = s.txn.traffics
      /\ RadioIsReleased(StopTimerExpired(s.txn))
  BY <1>1, StopTimerFacts
<1> QED
  BY <1>2, TrafficGood

\* A timer of a retry is stopped.
LEMMA RetryTimerFacts ==
    ASSUME NEW s, Good(s), NEW t \in {"STOP_RETRY", "OFFLINE_RECOVER"}
    PROVE  LET w == StopTimer(s, t) IN
           /\ w \in AosSet /\ w.timers = s.timers \ {t}
           /\ SameWork([s EXCEPT !.timers = s.timers \ {t}], w)
           /\ w.app = s.app /\ w.state = s.state /\ w.queue = s.queue
           /\ w.pending = s.pending /\ w.call = s.call
           /\ RadioInv(w) /\ StartedInv(w) /\ LinkInv(w)
           /\ KeptInv(w) /\ DownInv(w) /\ RecoverInv(w)
           /\ (t = "STOP_RETRY" => ~IsRetryHeld(s)) => Good(w)
<1> DEFINE w == StopTimer(s, t)
<1>1. s \in AosSet /\ RadioInv(s) /\ LinkInv(s)
  BY DEF Good
<1>2. w = [s EXCEPT !.timers = s.timers \ {t}]
  BY DEF StopTimer
<1>3. /\ w \in AosSet /\ w.timers = s.timers \ {t} /\ SameRest(s, w)
      /\ w.app = s.app /\ w.state = s.state /\ w.engine = s.engine
      /\ w.queue = s.queue /\ w.pending = s.pending /\ SameHold(s, w)
      /\ w.txn = s.txn
  BY <1>1, <1>2 DEF AosSet, SameHold, SameRest
<1> HIDE DEF w
<1>4. LinkInv(w)
  BY <1>1, <1>3, LinkPosted
<1>5. HeldBack(w) = HeldBack(s)
  BY <1>3 DEF HeldBack, SameHold
<1>6. RadioInv(w) /\ StartedInv(w) /\ KeptInv(w) /\ DownInv(w) /\ RecoverInv(w)
  BY <1>3, <1>5 DEF Good, RadioInv, StartedInv, SameHold, KeptInv, IsRetryHeld,
     DownInv, RecoverInv, In
<1>7. ASSUME t = "STOP_RETRY" => ~IsRetryHeld(s) PROVE Good(w)
  <2>1. HeldInv(w)
    BY <1>3, <1>5, <1>7 DEF Good, HeldInv, IsRetryHeld, In
  <2> QED
    BY <1>3, <1>4, <1>6, <2>1 DEF Good
<1>8. SameWork([s EXCEPT !.timers = s.timers \ {t}], w)
  BY <1>2 DEF SameWork
<1> QED
  BY <1>3, <1>4, <1>6, <1>7, <1>8 DEF w, SameRest

\* A retry during a call waits for its end.
LEMMA HeldAtRetryFacts ==
    ASSUME NEW s \in AosSet, RadioInv(s), Current(s), LinkInv(s)
    PROVE  LET w == HeldAtRetry(s) IN
           /\ w \in AosSet /\ RadioInv(w) /\ Current(w) /\ LinkInv(w)
           /\ w.app = s.app /\ w.state = s.state /\ w.timers = s.timers
           /\ w.queue = s.queue /\ w.pending = s.pending
<1> DEFINE z == [s EXCEPT !.heldByCall = TRUE]
           a == UpdateTransactionStarted(z)
           w == HeldAtRetry(s)
<1>1. z \in AosSet /\ SameWork(s, z) /\ z.pending = s.pending
  BY DEF AosSet, SameWork
<1> HIDE DEF z
<1>2. a \in AosSet /\ Current(a) /\ a = [z EXCEPT !.started = ~HeldBack(z)]
  BY <1>1, UpdateStartedFacts
<1> HIDE DEF a
<1>3. SameWork(s, a) /\ a.pending = s.pending
  BY <1>1, <1>2 DEF AosSet, SameWork
<1>4. RadioInv(a)
  BY <1>3 DEF RadioInv, SameWork
<1>5. LinkInv(a)
  BY <1>2, <1>3, LinkPosted DEF SameWork
<1>6. w = IF s.call THEN a ELSE s
  BY DEF HeldAtRetry, a, z
<1> HIDE DEF w
<1>7. CASE s.call
  <2>1. w = a
    BY <1>6, <1>7
  <2> QED
    BY <1>2, <1>3, <1>4, <1>5, <2>1 DEF SameWork, w
<1>8. CASE ~s.call
  <2>1. w = s
    BY <1>6, <1>8
  <2> QED
    BY <2>1 DEF w
<1> QED
  BY <1>7, <1>8

\* The time of a retry has come.
LEMMA RetryTimerGood ==
    ASSUME NEW s, Good(s) PROVE Good(StopRetryTimerExpired(s))
<1> DEFINE x == StopTimer(s, "STOP_RETRY")
           a == HeldAtRetry(x)
           b == CheckRadioReadyAndSetTxnPending(a)
           restore == b.state # "REFRESHSTOP"
           c == SendRegister(b, restore)
           p == AddPending(a, "TRAFFIC")
           w == StopRetryTimerExpired(s)
<1>1. /\ x \in AosSet /\ x.timers = s.timers \ {"STOP_RETRY"}
      /\ x.app = s.app /\ x.state = s.state /\ x.queue = s.queue
      /\ x.pending = s.pending
      /\ RadioInv(x) /\ StartedInv(x) /\ LinkInv(x)
      /\ KeptInv(x) /\ DownInv(x) /\ RecoverInv(x)
      /\ ~IsRetryHeld(s) => Good(x)
  BY RetryTimerFacts
<1> HIDE DEF x
<1>2. CASE ~IsRetryHeld(s)
  BY <1>1, <1>2 DEF StopRetryTimerExpired, x
<1>3. CASE IsRetryHeld(s)
  <2>1. /\ Current(x) /\ AppUp(x) /\ "OFFLINE_RECOVER" \notin x.timers
        /\ IsRetryHeld(x)
        /\ "UPDATE" \in x.pending => In(x, RegUpdate)
    BY <1>1, <1>3 DEF IsRetryHeld, StartedInv, Current, DownInv, AppUp, RecoverInv,
       KeptInv, RegUpdate
  <2>2. /\ a \in AosSet /\ RadioInv(a) /\ Current(a) /\ LinkInv(a)
        /\ a.app = x.app /\ a.state = x.state /\ a.timers = x.timers
        /\ a.queue = x.queue /\ a.pending = x.pending
    BY <1>1, <2>1, HeldAtRetryFacts
  <2> HIDE DEF a
  <2>3. /\ AppUp(a) /\ "OFFLINE_RECOVER" \notin a.timers /\ IsRetryHeld(a)
        /\ "UPDATE" \in a.pending => In(a, RegUpdate)
    BY <2>1, <2>2 DEF AppUp, IsRetryHeld, In
  <2>4. "TRAFFIC" \in Owes /\ "TRANSACTION" \in Owes
    BY DEF Owes
  <2>5. CASE ~a.started
    <3>1. /\ p \in AosSet /\ p.pending = a.pending \cup {"TRAFFIC"}
          /\ SameRest(a, p) /\ SameHold(a, p) /\ p.state = a.state
          /\ p.engine = a.engine /\ p.queue = a.queue /\ p.timers = a.timers
          /\ RadioInv(p) /\ Current(p)
      BY <2>2, AddPendingFacts, Values
    <3> HIDE DEF p
    <3>2. HeldBack(p) /\ AppUp(p) /\ IsRetryHeld(p)
          /\ (In(p, RegUpdate) <=> In(a, RegUpdate))
      <4>1. HeldBack(a)
        BY <2>2, <2>5 DEF Current
      <4>2. HeldBack(p)
        BY <3>1, <4>1 DEF HeldBack, SameHold
      <4> QED
        BY <2>3, <3>1, <4>2 DEF SameRest, AppUp, IsRetryHeld, In
    <3>3. p.pending \cap Owes # {} /\ ("UPDATE" \in p.pending <=> "UPDATE" \in a.pending)
      BY <2>4, <3>1, OwesFacts
    <3>4. LinkInv(p)
      BY <2>2, <3>1, LinkPosted
    <3>5. Good(p)
      BY <2>3, <3>1, <3>2, <3>3, <3>4, HeldGood
    <3>6. w = p
      BY <1>3, <2>5 DEF StopRetryTimerExpired, p, a, x
    <3> QED
      BY <3>5, <3>6
  <2>6. /\ b \in AosSet /\ RadioInv(b) /\ Current(b)
        /\ SameRest(a, b) /\ b.state = a.state /\ b.timers = a.timers
        /\ b.engine = a.engine /\ b.queue = a.queue
        /\ b.ok => b.started = a.started /\ b.pending = a.pending
        /\ ~b.ok => /\ HeldBack(b) /\ ~b.started
                    /\ b.pending \in {a.pending \cup {"TRAFFIC"},
                                      a.pending \cup {"TRANSACTION"}}
    BY <2>2, CheckRadioFacts
  <2> HIDE DEF b
  <2>7. b.ok \in BOOLEAN /\ b.started \in BOOLEAN /\ a.started \in BOOLEAN
    BY <2>2, <2>6 DEF AosSet
  <2>8. /\ LinkInv(b) /\ AppUp(b) /\ "OFFLINE_RECOVER" \notin b.timers /\ IsRetryHeld(b)
        /\ (In(b, RegUpdate) <=> In(a, RegUpdate))
    <3>1. LinkInv(b)
      BY <2>2, <2>6, LinkPosted
    <3> QED
      BY <2>3, <2>6, <3>1 DEF SameRest, AppUp, IsRetryHeld, In
  <2>9. CASE a.started /\ ~b.started
    <3>1. HeldBack(b) /\ b.pending \cap Owes # {}
          /\ ("UPDATE" \in b.pending <=> "UPDATE" \in a.pending)
      BY <2>4, <2>6, <2>7, <2>9, OwesFacts
    <3>2. Good(b)
      BY <2>3, <2>6, <2>8, <3>1, HeldGood
    <3>3. w = b
      BY <1>3, <2>9 DEF StopRetryTimerExpired, b, a, x
    <3> QED
      BY <3>2, <3>3
  <2>10. CASE a.started /\ b.started
    <3>1. restore \in BOOLEAN /\ (restore <=> b.state = "REGSTOP")
      BY <2>8 DEF IsRetryHeld
    <3> HIDE DEF restore
    <3>2. /\ c.ok => Good(ReportTryingState(SetRetryState(c)))
          /\ Good(UnpredictableFailure(c))
          /\ c.ok \in BOOLEAN
      BY <2>6, <2>8, <3>1, RetrySendGood
    <3>3. w = IF c.ok THEN ReportTryingState(SetRetryState(c))
                      ELSE UnpredictableFailure(c)
      BY <1>3, <2>10 DEF StopRetryTimerExpired, c, restore, b, a, x
    <3> QED
      BY <3>2, <3>3
  <2> QED
    BY <2>5, <2>7, <2>9, <2>10
<1> QED
  BY <1>2, <1>3

\* A lost registration is made again.
LEMMA RecoverTimerGood ==
    ASSUME NEW s, Good(s) PROVE Good(OfflineRecoverTimerExpired(s))
<1> DEFINE x == StopTimer(s, "OFFLINE_RECOVER")
           a == HeldAtRetry(x)
           b == CheckRadioReadyAndSetTxnPending(a)
           p == AddPending(a, "TRAFFIC")
           w == OfflineRecoverTimerExpired(s)
<1>1. /\ x \in AosSet /\ x.timers = s.timers \ {"OFFLINE_RECOVER"}
      /\ x.app = s.app /\ x.state = s.state
      /\ RadioInv(x) /\ StartedInv(x) /\ LinkInv(x) /\ Good(x)
  BY RetryTimerFacts
<1> HIDE DEF x
<1>2. CASE s.state # "OFFLINE" \/ ~IsAppReady(s)
  BY <1>1, <1>2 DEF OfflineRecoverTimerExpired, x
<1>3. CASE s.state = "OFFLINE" /\ IsAppReady(s)
  <2>1. /\ Current(x) /\ AppUp(x) /\ "OFFLINE_RECOVER" \notin x.timers
    BY <1>1, <1>3 DEF IsAppReady, StartedInv, Current, AppUp
  <2>2. /\ a \in AosSet /\ RadioInv(a) /\ Current(a) /\ LinkInv(a)
        /\ a.app = x.app /\ a.state = x.state /\ a.timers = x.timers
    BY <1>1, <2>1, HeldAtRetryFacts
  <2> HIDE DEF a
  <2>3. AppUp(a) /\ "OFFLINE_RECOVER" \notin a.timers /\ a.state = "OFFLINE"
    BY <1>1, <1>3, <2>1, <2>2 DEF AppUp
  <2>4. CASE ~a.started
    <3>1. /\ p \in AosSet
          /\ SameRest(a, p) /\ SameHold(a, p) /\ p.state = a.state
          /\ p.engine = a.engine /\ p.queue = a.queue
          /\ RadioInv(p) /\ Current(p)
      BY <2>2, AddPendingFacts, Values
    <3> HIDE DEF p
    <3>2. LinkInv(p) /\ AppUp(p)
      BY <2>2, <2>3, <3>1, LinkPosted DEF SameRest, AppUp
    <3>3. Good(p)
      BY <2>3, <3>1, <3>2, OfflineGood
    <3>4. w = p
      BY <1>3, <2>4 DEF OfflineRecoverTimerExpired, p, a, x
    <3> QED
      BY <3>3, <3>4
  <2>5. /\ b \in AosSet /\ RadioInv(b) /\ Current(b)
        /\ SameRest(a, b) /\ b.state = a.state /\ b.timers = a.timers
        /\ b.engine = a.engine /\ b.queue = a.queue
    BY <2>2, CheckRadioFacts
  <2> HIDE DEF b
  <2>6. /\ LinkInv(b) /\ AppUp(b) /\ "OFFLINE_RECOVER" \notin b.timers
        /\ b.state = "OFFLINE"
    <3>1. LinkInv(b)
      BY <2>2, <2>5, LinkPosted
    <3> QED
      BY <2>3, <2>5, <3>1 DEF SameRest, AppUp
  <2>7. CASE a.started /\ ~b.started
    <3>1. Good(b)
      BY <2>5, <2>6, OfflineGood
    <3>2. w = b
      BY <1>3, <2>7 DEF OfflineRecoverTimerExpired, b, a, x
    <3> QED
      BY <3>1, <3>2
  <2>8. CASE a.started /\ b.started
    <3>1. Good(Recreate(b))
      BY <2>5, <2>6, RecreateGood
    <3>2. w = Recreate(b)
      BY <1>3, <2>8 DEF OfflineRecoverTimerExpired, b, a, x
    <3> QED
      BY <3>1, <3>2
  <2>9. b.started \in BOOLEAN /\ a.started \in BOOLEAN
    BY <2>2, <2>5 DEF AosSet
  <2> QED
    BY <2>4, <2>7, <2>8, <2>9
<1> QED
  BY <1>2, <1>3

-----------------------------------------------------------------------------
(* The registration is stopped.                                            *)

\* The traffic of a de-registration is started with its timer, or waits.
LEMMA PrepareFacts ==
    ASSUME NEW s \in AosSet, RadioInv(s)
    PROVE  LET w == PrepareTrafficForDeregister(s) IN
           /\ w \in AosSet /\ RadioInv(w) /\ w.app = s.app /\ w.state = s.state
           /\ w.engine = s.engine /\ w.queue = s.queue
           /\ w.timers \in {s.timers, s.timers \cup {"DEREG_TRAFFIC"}}
<1> DEFINE w == PrepareTrafficForDeregister(s)
<1>1. CASE s.allowed
  <2> DEFINE t == StartTraffic(s.txn, "DEREG")
             x == [s EXCEPT !.txn = t, !.timers = s.timers \cup {"DEREG_TRAFFIC"}]
  <2>1. w = x
    BY <1>1 DEF PrepareTrafficForDeregister, StartTimer
  <2>2. s.txn \in Traffic
    BY DEF AosSet
  <2>3. t \in Traffic /\ RadioIsReleased(t)
    BY <2>2, StartTrafficFacts, Values
  <2>4. s.timers \cup {"DEREG_TRAFFIC"} \in SUBSET Timers
    BY Values DEF AosSet
  <2> HIDE DEF t
  <2>5. /\ x \in AosSet /\ x.txn = t /\ x.timers = s.timers \cup {"DEREG_TRAFFIC"}
        /\ x.app = s.app /\ x.state = s.state
        /\ x.engine = s.engine /\ x.queue = s.queue
    BY <2>3, <2>4 DEF AosSet
  <2>6. RadioInv(x)
    BY <2>3, <2>5 DEF RadioInv
  <2> QED
    BY <2>1, <2>5, <2>6
<1>2. CASE ~s.allowed
  <2> DEFINE z == [s EXCEPT !.priorityBlocked = TRUE]
             x == AddPending(z, "STOP")
  <2>1. w = x
    BY <1>2 DEF PrepareTrafficForDeregister
  <2>2. /\ z \in AosSet /\ z.txn = s.txn /\ z.timers = s.timers
        /\ z.app = s.app /\ z.state = s.state
        /\ z.engine = s.engine /\ z.queue = s.queue
    BY DEF AosSet
  <2>3. RadioInv(z)
    BY <2>2 DEF RadioInv
  <2> HIDE DEF z
  <2>4. /\ x \in AosSet /\ SameRest(z, x) /\ x.state = z.state
        /\ x.engine = z.engine /\ x.queue = z.queue /\ x.timers = z.timers
        /\ RadioInv(x)
    BY <2>2, <2>3, AddPendingFacts, Values
  <2> QED
    BY <2>1, <2>2, <2>4 DEF SameRest
<1> QED
  BY <1>1, <1>2

\* What SendDeregister changes.
LEMMA SendDeregisterFacts ==
    ASSUME NEW s \in AosSet, RadioInv(s)
    PROVE  LET w == SendDeregister(s) IN
           /\ w \in AosSet /\ RadioInv(w) /\ w.app = s.app /\ w.state = s.state
           /\ w.timers = s.timers /\ w.queue = s.queue
           /\ w.ok => /\ s.engine.state = "ACTIVE" /\ w.engine.state = "ACTIVE"
                      /\ w.engine.sub = "DEREGISTERING"
<1> DEFINE ready == s.engine.state = "ACTIVE" /\ s.engine.sub = "IDLE"
           w == SendDeregister(s)
<1>1. CASE ready /\ s.luck.send
  <2> DEFINE x == [s EXCEPT !.ok = TRUE, !.engine.sub = "DEREGISTERING"]
  <2>1. w = x
    BY <1>1 DEF SendDeregister
  <2>2. s.engine \in Engines
    BY <1>1 DEF AosSet, NoEngine
  <2>3. /\ x \in AosSet /\ x.app = s.app /\ x.state = s.state /\ x.txn = s.txn
        /\ x.timers = s.timers /\ x.queue = s.queue
        /\ x.engine.state = "ACTIVE" /\ x.engine.sub = "DEREGISTERING"
    BY <1>1, <2>2 DEF AosSet, Engines
  <2> HIDE DEF x
  <2>4. RadioInv(x)
    BY <2>3 DEF RadioInv
  <2> QED
    BY <1>1, <2>1, <2>3, <2>4
<1>2. CASE ~(ready /\ s.luck.send)
  <2> DEFINE f == IF ready THEN s.faults + 1 ELSE s.faults
             x == [s EXCEPT !.ok = FALSE, !.faults = f]
  <2>1. w = x
    BY <1>2 DEF SendDeregister
  <2>2. f \in Nat
    BY DEF AosSet
  <2> HIDE DEF f
  <2>3. /\ x \in AosSet /\ x.app = s.app /\ x.state = s.state /\ x.txn = s.txn
        /\ x.timers = s.timers /\ x.queue = s.queue /\ x.ok = FALSE
    BY <2>2 DEF AosSet
  <2> HIDE DEF x
  <2>4. RadioInv(x)
    BY <2>3 DEF RadioInv
  <2> QED
    BY <2>1, <2>3, <2>4
<1> QED
  BY <1>1, <1>2

\* A registration that is valid is removed.
LEMMA ProcessStopGood ==
    ASSUME NEW s, Good(s), s.state \in {"REGISTERED", "REFRESHSTOP"}
    PROVE  Good(ProcessStop(s))
<1> DEFINE a == SendDeregister(s)
           b == SetState(a, "DEREGISTERING")
           c == PrepareTrafficForDeregister(b)
           w == ReportTryingState(c)
<1>1. /\ s \in AosSet /\ RadioInv(s) /\ LinkInv(s) /\ AppUp(s)
      /\ "OFFLINE_RECOVER" \notin s.timers
  BY DEF Good, DownInv, AppUp, RecoverInv
<1>2. /\ a \in AosSet /\ RadioInv(a) /\ a.app = s.app /\ a.state = s.state
      /\ a.timers = s.timers /\ a.queue = s.queue
      /\ a.ok => /\ s.engine.state = "ACTIVE" /\ a.engine.state = "ACTIVE"
                 /\ a.engine.sub = "DEREGISTERING"
  BY <1>1, SendDeregisterFacts
<1> HIDE DEF a
<1>3. CASE ~a.ok
  <2>1. "SUCCESS" \in Results
    BY DEF Results
  <2>2. Good(Report(Destroy(a), "SUCCESS"))
    BY <1>2, <2>1, DestroyGood
  <2> QED
    BY <1>3, <2>2 DEF ProcessStop, a
<1>4. CASE a.ok
  <2>1. Silent(a)
    <3>1. Silent(s)
      BY <1>1, <1>2, <1>4, SilentAtRest
    <3> QED
      BY <1>2, <3>1 DEF Silent
  <2>2. /\ b \in AosSet /\ RadioInv(b)
        /\ b = [a EXCEPT !.state = "DEREGISTERING", !.txn = b.txn,
                         !.timers = b.timers]
        /\ b.timers \in {a.timers, a.timers \ {"DEREG_TRAFFIC"}}
    BY <1>2, SetStateFacts, Values
  <2> HIDE DEF b
  <2>3. /\ b.state = "DEREGISTERING" /\ b.app = a.app /\ b.engine = a.engine
        /\ b.queue = a.queue
    BY <1>2, <2>2 DEF AosSet
  <2>4. /\ c \in AosSet /\ RadioInv(c) /\ c.app = b.app /\ c.state = b.state
        /\ c.engine = b.engine /\ c.queue = b.queue
        /\ c.timers \in {b.timers, b.timers \cup {"DEREG_TRAFFIC"}}
    BY <2>2, PrepareFacts
  <2> HIDE DEF c
  <2>5. /\ c.state = "DEREGISTERING" /\ AppUp(c) /\ Silent(c)
        /\ "OFFLINE_RECOVER" \notin c.timers
        /\ c.engine.state = "ACTIVE" /\ c.engine.sub = "DEREGISTERING"
    BY <1>1, <1>2, <1>4, <2>1, <2>2, <2>3, <2>4 DEF AppUp, Silent
  <2>6. LinkInv(c)
    BY <2>4, <2>5, LinkOfActive
  <2>7. Good(c)
    BY <2>4, <2>5, <2>6 DEF Good, StartedInv, KeptInv, HeldInv, IsRetryHeld,
       DownInv, AppUp, RecoverInv
  <2>8. PICK r \in Results : w = Report(c, r)
    BY TryingIsReported
  <2>9. Good(w)
    BY <2>4, <2>7, <2>8, ReportKeeps
  <2>10. ProcessStop(s) = w
    BY <1>4 DEF ProcessStop, w, c, b, a
  <2> QED
    BY <2>9, <2>10
<1>5. a.ok \in BOOLEAN
  BY <1>2 DEF AosSet
<1> QED
  BY <1>3, <1>4, <1>5

\* Stop, whatever the state.
LEMMA StopGood == ASSUME NEW s, Good(s) PROVE Good(Stop(s))
<1>1. s \in AosSet /\ RadioInv(s) /\ "SUCCESS" \in Results
  BY DEF Good, Results
<1>2. CASE s.state \in {"OFFLINE", "REGISTERING", "REGSTOP", "REFRESHING"}
  <2>1. Stop(s) = Report(Destroy(s), "SUCCESS")
    BY <1>2 DEF Stop
  <2> QED
    BY <1>1, <2>1, DestroyGood
<1>3. CASE s.state \in {"REGISTERED", "REFRESHSTOP"}
  <2>1. Stop(s) = ProcessStop(s)
    BY <1>3 DEF Stop
  <2> QED
    BY <1>3, <2>1, ProcessStopGood
<1>4. CASE s.state \notin {"OFFLINE", "REGISTERING", "REGSTOP", "REFRESHING",
                           "REGISTERED", "REFRESHSTOP"}
  BY <1>4 DEF Stop
<1> QED
  BY <1>2, <1>3, <1>4

-----------------------------------------------------------------------------
(* Messages to the registration and to the application.                    *)

\* The update that was asked for is made.
LEMMA UpdatePendingGood ==
    ASSUME NEW t, Near(t)
    PROVE  Good(ProcessUpdatePending(t))
<1> DEFINE w == Dropped(t, {"UPDATE"})
<1>1. t \in AosSet /\ RadioInv(t) /\ StartedInv(t) /\ LinkInv(t) /\ DownInv(t)
      /\ RecoverInv(t)
  BY DEF Near
<1>2. CASE "UPDATE" \in t.pending
  <2>1. t.pending \ {"UPDATE"} \in SUBSET PendingKinds
    BY <1>1 DEF AosSet
  <2>2. /\ w \in AosSet /\ w.pending = t.pending \ {"UPDATE"} /\ SameHold(t, w)
        /\ w.app = t.app /\ w.state = t.state /\ w.engine = t.engine
        /\ w.queue = t.queue /\ w.timers = t.timers /\ w.txn = t.txn
    BY <1>1, <2>1 DEF Dropped, AosSet, SameHold
  <2> HIDE DEF w
  <2>3. LinkInv(w)
    BY <1>1, <2>2, LinkPosted
  <2>4. StartedInv(w) /\ RadioInv(w)
    BY <1>1, <2>2 DEF StartedInv, RadioInv, HeldBack, SameHold
  <2>5. KeptInv(w) /\ DownInv(w) /\ RecoverInv(w)
    BY <1>1, <2>2 DEF KeptInv, DownInv, RecoverInv
  <2>6. Loose(w)
    BY <2>2, <2>3, <2>4, <2>5 DEF Loose
  <2>7. Good(Update(w, FALSE, TRUE))
    BY <2>6, UpdateGood
  <2>8. ProcessUpdatePending(t) = Update(w, FALSE, TRUE)
    BY <1>2 DEF ProcessUpdatePending, w, Dropped
  <2> QED
    BY <2>7, <2>8
<1>3. CASE "UPDATE" \notin t.pending
  <2>1. KeptInv(t)
    BY <1>3 DEF KeptInv
  <2>2. Good(t)
    BY <2>1, GoodParts
  <2> QED
    BY <1>3, <2>2 DEF ProcessUpdatePending
<1> QED
  BY <1>2, <1>3

\* A registration that could not be created is begun again.
LEMMA ReStartGood ==
    ASSUME NEW s \in AosSet, RadioInv(s)
    PROVE  Good(ProcessReStart(s))
<1> DEFINE a == Destroy(s)
           w == [a EXCEPT !.failures = 0]
<1>1. Clean(a) /\ Good(a)
  BY DestroyFacts, CleanGood
<1> HIDE DEF a
<1>2. a \in AosSet /\ RadioInv(a) /\ Current(a) /\ LinkInv(a)
  BY <1>1 DEF Clean, Good
<1>3. CASE IsAppReady(a)
  <2>1. AppUp(a)
    BY <1>3 DEF IsAppReady, AppUp
  <2>2. Good(Start(a))
    BY <1>2, <2>1, StartGood
  <2> QED
    BY <1>3, <2>2 DEF ProcessReStart, a
<1>4. CASE ~IsAppReady(a)
  <2>1. 0 \in 0 .. CREATE_REG_FAILURE_MAX_COUNT
    BY AosBounds, SMT
  <2>2. w \in AosSet /\ Same(a, w) /\ w.queue = a.queue
    BY <1>2, <2>1 DEF AosSet, Same
  <2>3. Good(w)
    BY <1>1, <2>2, SameKeeps
  <2> QED
    BY <1>4, <2>3 DEF ProcessReStart, a
<1> QED
  BY <1>3, <1>4

\* The application gives everything up.
LEMMA CleanAllGood ==
    ASSUME NEW s \in AosSet, RadioInv(s)
    PROVE  Clean(CleanAll(s)) /\ Good(CleanAll(s))
<1> DEFINE z == [s EXCEPT !.app = "NOTREADY", !.recoveryHeld = FALSE]
<1>1. z \in AosSet /\ z.txn = s.txn /\ z.timers = s.timers
  BY Values, ZenonT(60) DEF AosSet
<1>2. RadioInv(z)
  BY <1>1 DEF RadioInv
<1> HIDE DEF z
<1>3. Clean(Destroy(z)) /\ Good(Destroy(z))
  BY <1>1, <1>2, DestroyFacts, CleanGood
<1> QED
  BY <1>3 DEF CleanAll, z

\* The state of the application changes.
LEMMA SetAppStateGood ==
    ASSUME NEW s, Good(s), NEW new \in AppStates,
           new \in {"NOTREADY", "READY"} => ~AppUp(s)
    PROVE  LET w == SetAppState(s, new) IN
           /\ Good(w) /\ w.app = new /\ w.state = s.state
<1> DEFINE w == SetAppState(s, new)
<1>1. s \in AosSet /\ LinkInv(s)
  BY DEF Good
<1>2. /\ w \in AosSet /\ w.app = new /\ w.state = s.state /\ w.timers = s.timers
      /\ w.engine = s.engine /\ w.queue = s.queue /\ w.pending = s.pending
      /\ w.txn = s.txn /\ SameHold(s, w)
  BY <1>1 DEF SetAppState, AosSet, SameHold
<1> HIDE DEF w
<1>3. LinkInv(w)
  BY <1>1, <1>2, LinkPosted
<1>4. HeldBack(w) = HeldBack(s)
  BY <1>2 DEF HeldBack, SameHold
<1>5. /\ RadioInv(w) /\ StartedInv(w) /\ KeptInv(w) /\ HeldInv(w) /\ RecoverInv(w)
  BY <1>2, <1>4 DEF Good, RadioInv, StartedInv, SameHold, KeptInv, HeldInv,
     IsRetryHeld, RecoverInv, In
<1>6. DownInv(w)
  BY <1>2 DEF Good, DownInv, AppUp
<1> QED
  BY <1>2, <1>3, <1>5, <1>6 DEF Good, w

\* An application that is told of its connection starts the registration.
LEMMA StartAbove ==
    ASSUME NEW s, Good(s), s.state = "OFFLINE"
    PROVE  Good(Start(SetAppState(s, "CONNECTING")))
<1> DEFINE w == SetAppState(s, "CONNECTING")
<1>1. Good(w) /\ w.app = "CONNECTING" /\ w.state = "OFFLINE"
  BY SetAppStateGood, Values
<1> HIDE DEF w
<1>2. /\ w \in AosSet /\ RadioInv(w) /\ AppUp(w) /\ Current(w) /\ LinkInv(w)
  BY <1>1 DEF Good, AppUp, StartedInv, Current
<1> QED
  BY <1>2, StartGood DEF w

\* The connection is given up, and its end told.
LEMMA StopConnectorGood ==
    ASSUME NEW s, Loose(s)
    PROVE  Good(StopConnector(s))
<1> DEFINE a == [s EXCEPT !.connected = FALSE]
           w == Post(a, "APP", "DEACTIVATED")
<1>1. s \in AosSet
  BY DEF Loose
<1>2. a \in AosSet /\ Same(s, a) /\ a.queue = s.queue /\ a.app = s.app
  BY <1>1 DEF AosSet, Same
<1> HIDE DEF a
<1>3. Loose(a)
  BY <1>2, SameKeeps
<1>4. CASE s.app = "NOTREADY"
  <2>1. HeldInv(a)
    BY <1>2, <1>3, <1>4 DEF Loose, DownInv, HeldInv, IsRetryHeld
  <2>2. Good(a)
    BY <1>3, <2>1, GoodParts
  <2> QED
    BY <1>4, <2>2 DEF StopConnector, a
<1>5. CASE s.app # "NOTREADY"
  <2> DEFINE m == [to |-> "APP", what |-> "DEACTIVATED"]
  <2>1. m \in Messages /\ ~FromEngine(m)
    BY Posted
  <2>2. /\ w \in AosSet /\ Same(a, w)
        /\ \A x : In(w, x) <=> In(a, x) \/ x = m
        /\ LinkInv(a) => LinkInv(w)
    BY <1>2, <2>1, PostKeeps
  <2>3. StopConnector(s) = w
    BY <1>5 DEF StopConnector, a
  <2> HIDE DEF w
  <2>4. HeldInv(w)
    <3>1. In(w, m)
      BY <2>2
    <3> QED
      BY <3>1 DEF HeldInv
  <2>5. HeldBack(w) = HeldBack(a)
    BY <2>2 DEF HeldBack, Same
  <2>6. RadioInv(w) /\ StartedInv(w) /\ DownInv(w) /\ RecoverInv(w)
    BY <1>3, <2>2, <2>5 DEF Loose, Same, RadioInv, StartedInv, DownInv, RecoverInv
  <2>7. KeptInv(w)
    BY <1>3, <2>2 DEF Loose, Same, KeptInv, IsRetryHeld
  <2>8. LinkInv(w)
    BY <1>3, <2>2 DEF Loose
  <2> QED
    BY <2>2, <2>3, <2>4, <2>6, <2>7, <2>8 DEF Good
<1> QED
  BY <1>4, <1>5

\* An application without a registration has nothing that waits.
LEMMA DownGood ==
    ASSUME NEW s, Loose(s), ~AppUp(s) PROVE Good(s)
<1>1. HeldInv(s)
  BY DEF Loose, DownInv, AppUp, HeldInv, IsRetryHeld
<1> QED
  BY <1>1, GoodParts

\* The application is asked to stop.
LEMMA RegStopGood == ASSUME NEW s, Good(s) PROVE Good(ProcessRegStop(s))
<1>1. s \in AosSet /\ RadioInv(s)
  BY DEF Good
<1>2. Good(CleanAll(s)) /\ Good(Stop(s))
  BY <1>1, CleanAllGood, StopGood
<1>3. ProcessRegStop(s) \in {CleanAll(s), s, Stop(s)}
  BY DEF ProcessRegStop
<1> QED
  BY <1>2, <1>3

\* ... to begin anew.
LEMMA RegRecoveryGood == ASSUME NEW s, Good(s) PROVE Good(ProcessRegRecovery(s))
<1> DEFINE a == [s EXCEPT !.recoveryHeld = TRUE]
           b == CleanAll(s)
           c == Start(SetAppState(b, "CONNECTING"))
<1>1. s \in AosSet /\ RadioInv(s)
  BY DEF Good
<1>2. a \in AosSet /\ Same(s, a) /\ a.queue = s.queue
  BY <1>1 DEF AosSet, Same
<1>3. Good(a)
  BY <1>2, SameKeeps
<1>4. Good(b) /\ b.state = "OFFLINE"
  BY <1>1, CleanAllGood DEF Clean
<1> HIDE DEF a, b
<1>5. Good(c)
  BY <1>4, StartAbove
<1>6. ProcessRegRecovery(s) \in {a, c, s}
  BY DEF ProcessRegRecovery, a, b
<1> QED
  BY <1>3, <1>5, <1>6

\* Whatever is asked of the application.
LEMMA RequestGood ==
    ASSUME NEW s, Good(s), s.queue # << >>, Head(s.queue).to = "APP"
    PROVE  Good(OnRequest(Taken(s), Head(s.queue).what))
<1> DEFINE h == Head(s.queue)
           t == Taken(s)
           what == h.what
           r == OnRequest(t, what)
<1> SUFFICES Good(r)
  OBVIOUS
<1>1. ~FromEngine(h) /\ h # RegUpdate
      /\ h # [to |-> "REPORT", what |-> "PDN_RECONNECT_WITH_AWT"]
  BY DEF FromEngine, RegUpdate
<1>2. /\ t \in AosSet /\ RadioInv(t) /\ Loose(t)
      /\ h # [to |-> "APP", what |-> "DEACTIVATED"] => Good(t)
  BY <1>1, TakenGood
<1>3. h # [to |-> "APP", what |-> "DEACTIVATED"] \/ what = "DEACTIVATED"
  OBVIOUS
<1> HIDE DEF h, t
<1>4. what # "DEACTIVATED" => Good(t)
  BY <1>2, <1>3
<1>5. Good(CleanAll(t))
  BY <1>2, CleanAllGood
<1> HIDE DEF what
<1>6. CASE what = "START"
  <2>1. CASE IsAppReady(t)
    <3>1. AppUp(t) /\ (t.state = "OFFLINE" => Current(t) /\ LinkInv(t))
      BY <1>2, <2>1 DEF IsAppReady, AppUp, Loose, StartedInv, Current
    <3>2. Good(Start(t))
      BY <1>2, <3>1, StartGood
    <3> QED
      BY <1>6, <2>1, <3>2 DEF OnRequest
  <2>2. CASE ~IsAppReady(t)
    BY <1>4, <1>6, <2>2 DEF OnRequest
  <2> QED
    BY <2>1, <2>2
<1>7. CASE what = "UPDATE"
  <2>1. Good(Update(t, FALSE, TRUE))
    BY <1>2, UpdateGood
  <2>2. r \in {Update(t, FALSE, TRUE), t}
    BY <1>7 DEF OnRequest
  <2> QED
    BY <1>4, <1>7, <2>1, <2>2
<1>8. CASE what = "STOP"
  <2>1. Good(ProcessRegStop(t))
    BY <1>4, <1>8, RegStopGood
  <2> QED
    BY <1>8, <2>1 DEF OnRequest
<1>9. CASE what = "RECOVER"
  <2>1. Good(ProcessRegRecovery(t))
    BY <1>4, <1>9, RegRecoveryGood
  <2> QED
    BY <1>9, <2>1 DEF OnRequest
<1>10. CASE what \notin {"START", "UPDATE", "STOP", "RECOVER"}
  <2>1. r = OnConnection(t, what)
    BY <1>10 DEF OnRequest
  <2>2. CASE what = "ACTIVATED" /\ t.app = "READY"
    <3>1. Good(t) /\ t.state = "OFFLINE"
      BY <1>2, <1>4, <2>2 DEF Loose, DownInv
    <3>2. Good(Start(SetAppState(t, "CONNECTING")))
      BY <3>1, StartAbove
    <3> QED
      BY <2>1, <2>2, <3>2 DEF OnConnection
  <2>3. CASE what = "DEACTIVATED"
    <3>1. CASE t.app \in {"CONNECTING", "CONNECTED", "UPDATING", "DISCONNECTING"}
      <4>1. OnConnection(t, what) = CleanAll(t)
        BY <2>3, <3>1 DEF OnConnection
      <4> QED
        BY <1>5, <2>1, <4>1
    <3>2. CASE t.app \notin {"CONNECTING", "CONNECTED", "UPDATING", "DISCONNECTING"}
      <4>1. OnConnection(t, what) = t
        BY <2>3, <3>2 DEF OnConnection
      <4>2. ~AppUp(t)
        <5>1. t.app \in AppStates
          BY <1>2 DEF AosSet
        <5> QED
          BY <3>2, <5>1, Values DEF AppUp
      <4> QED
        BY <1>2, <2>1, <4>1, <4>2, DownGood
    <3> QED
      BY <3>1, <3>2
  <2>4. CASE what # "DEACTIVATED" /\ ~(what = "ACTIVATED" /\ t.app = "READY")
    <3>1. OnConnection(t, what) = t
      BY <2>4 DEF OnConnection
    <3> QED
      BY <1>4, <2>1, <2>4, <3>1
  <2> QED
    BY <2>2, <2>3, <2>4
<1> QED
  BY <1>6, <1>7, <1>8, <1>9, <1>10

\* A registration is lost: the application recovers, at the end of a call.
LEMMA FailedTerminatedGood ==
    ASSUME NEW s, Good(s), AppUp(s)
    PROVE  Good(ProcessRegFailed_Terminated(s))
<1> DEFINE a == SetAppState(s, "CONNECTING")
           b == [a EXCEPT !.recoveryHeld = TRUE]
<1>1. s \in AosSet /\ RadioInv(s)
  BY DEF Good
<1>2. Good(a) /\ Good(CleanAll(s))
  BY <1>1, SetAppStateGood, CleanAllGood, Values
<1> HIDE DEF a
<1>3. a \in AosSet
  BY <1>2 DEF Good
<1>4. b \in AosSet /\ Same(a, b) /\ b.queue = a.queue
  BY <1>3 DEF AosSet, Same
<1>5. Good(b)
  BY <1>2, <1>4, SameKeeps
<1>6. ProcessRegFailed_Terminated(s) \in {b, CleanAll(s)}
  BY DEF ProcessRegFailed_Terminated, a
<1> QED
  BY <1>2, <1>5, <1>6

\* The registration reports to an application that is up.
LEMMA ReportUpGood ==
    ASSUME NEW s, Loose(s), NEW r, r # "PDN_RECONNECT_WITH_AWT" => Good(s), AppUp(s)
    PROVE  /\ Good(ProcessRegFailed(s, r))
           /\ r \in {"TRYING_START", "TRYING_UPDATE", "TRYING_STOP"} =>
                 Good(ProcessRegTrying(s, r))
           /\ r = "SUCCESS" => Good(SetAppState(s, "CONNECTED"))
<1>1. s \in AosSet /\ RadioInv(s)
  BY DEF Loose
<1>2. Good(CleanAll(s)) /\ Good(StopConnector(s))
  BY <1>1, CleanAllGood, StopConnectorGood
<1>3. Good(s) => \A n \in {"CONNECTING", "CONNECTED", "UPDATING", "DISCONNECTING"} :
                    Good(SetAppState(s, n))
  BY SetAppStateGood, Values
<1>4. Good(s) => Good(ProcessRegFailed_Terminated(s))
  BY FailedTerminatedGood
<1>5. Good(ProcessRegFailed(s, r))
  <2>1. CASE r = "INTERNAL"
    BY <1>2, <2>1 DEF ProcessRegFailed
  <2>2. CASE r = "TERMINATED"
    BY <1>4, <2>2 DEF ProcessRegFailed
  <2>3. CASE r \in {"PDN_RECONNECT", "PDN_RECONNECT_WITH_AWT"}
    BY <1>2, <2>3 DEF ProcessRegFailed
  <2>4. CASE r = "FORBIDDEN"
    <3>1. ProcessRegFailed(s, r) \in {s, CleanAll(s)}
      BY <2>4 DEF ProcessRegFailed
    <3> QED
      BY <1>2, <2>4, <3>1
  <2>5. CASE r \notin {"INTERNAL", "TERMINATED", "PDN_RECONNECT",
                       "PDN_RECONNECT_WITH_AWT", "FORBIDDEN"}
    <3>1. ProcessRegFailed(s, r) \in {s, SetAppState(s, "CONNECTING")}
      BY <2>5 DEF ProcessRegFailed
    <3> QED
      BY <1>3, <2>5, <3>1
  <2> QED
    BY <2>1, <2>2, <2>3, <2>4, <2>5
<1>6. ASSUME r \in {"TRYING_START", "TRYING_UPDATE", "TRYING_STOP"}
      PROVE  Good(ProcessRegTrying(s, r))
  <2>1. ProcessRegTrying(s, r) \in
            {s, SetAppState(s, "CONNECTING"), SetAppState(s, "UPDATING"),
             SetAppState(s, "DISCONNECTING")}
    BY DEF ProcessRegTrying
  <2> QED
    BY <1>3, <1>6, <2>1
<1> QED
  BY <1>3, <1>5, <1>6

\* The registration reports to the application.
LEMMA ReportGood ==
    ASSUME NEW s, Good(s), s.queue # << >>, Head(s.queue).to = "REPORT"
    PROVE  Good(OnReport(Taken(s), Head(s.queue).what))
<1> DEFINE h == Head(s.queue)
           t == Taken(s)
           what == h.what
           r == OnReport(t, what)
<1> SUFFICES Good(r)
  OBVIOUS
<1>1. ~FromEngine(h) /\ h # RegUpdate /\ h # [to |-> "APP", what |-> "DEACTIVATED"]
  BY DEF FromEngine, RegUpdate
<1>2. /\ t \in AosSet /\ RadioInv(t) /\ Loose(t)
      /\ h # [to |-> "REPORT", what |-> "PDN_RECONNECT_WITH_AWT"] => Good(t)
  BY <1>1, TakenGood
<1>3. h # [to |-> "REPORT", what |-> "PDN_RECONNECT_WITH_AWT"]
      \/ what = "PDN_RECONNECT_WITH_AWT"
  OBVIOUS
<1> HIDE DEF h, t
<1>4. what # "PDN_RECONNECT_WITH_AWT" => Good(t)
  BY <1>2, <1>3
<1> HIDE DEF what
<1>5. t.app \in AppStates
  BY <1>2 DEF AosSet
<1>6. CASE t.app \in {"NOTREADY", "READY"}
  <2>1. r = t
    BY <1>6 DEF OnReport
  <2>2. ~AppUp(t)
    BY <1>6 DEF AppUp
  <2> QED
    BY <1>2, <2>1, <2>2, DownGood
<1>7. CASE t.app = "DISCONNECTING"
  <2>1. CASE what \in {"TRYING_START", "TRYING_UPDATE", "TRYING_STOP"}
    <3>1. r = t
      BY <1>7, <2>1 DEF OnReport
    <3> QED
      BY <1>4, <2>1, <3>1
  <2>2. CASE what \notin {"TRYING_START", "TRYING_UPDATE", "TRYING_STOP"}
    <3>1. r = CleanAll(t)
      BY <1>7, <2>2 DEF OnReport
    <3> QED
      BY <1>2, <3>1, CleanAllGood
  <2> QED
    BY <2>1, <2>2
<1>8. CASE t.app \in {"CONNECTING", "CONNECTED", "UPDATING"}
  <2>1. AppUp(t)
    BY <1>8 DEF AppUp
  <2>2. /\ Good(ProcessRegFailed(t, what))
        /\ what \in {"TRYING_START", "TRYING_UPDATE", "TRYING_STOP"} =>
              Good(ProcessRegTrying(t, what))
        /\ what = "SUCCESS" => Good(SetAppState(t, "CONNECTED"))
    BY <1>2, <1>4, <2>1, ReportUpGood
  <2>3. r = IF what = "SUCCESS" THEN SetAppState(t, "CONNECTED")
            ELSE IF what \in {"TRYING_START", "TRYING_UPDATE", "TRYING_STOP"}
            THEN ProcessRegTrying(t, what)
            ELSE ProcessRegFailed(t, what)
    BY <1>8 DEF OnReport
  <2> HIDE DEF r
  <2> QED
    BY <2>2, <2>3
<1> QED
  BY <1>5, <1>6, <1>7, <1>8, Values

\* A message to the registration.
LEMMA RegMessageGood ==
    ASSUME NEW s, Good(s), s.queue # << >>, Head(s.queue).to = "REG"
    PROVE  Good(IF Head(s.queue).what = "RESTART" THEN ProcessReStart(Taken(s))
                                                  ELSE ProcessUpdatePending(Taken(s)))
<1> DEFINE h == Head(s.queue)
           t == Taken(s)
<1>1. ~FromEngine(h) /\ h # [to |-> "APP", what |-> "DEACTIVATED"]
      /\ h # [to |-> "REPORT", what |-> "PDN_RECONNECT_WITH_AWT"]
  BY DEF FromEngine
<1>2. /\ t \in AosSet /\ RadioInv(t) /\ StartedInv(t) /\ LinkInv(t)
      /\ DownInv(t) /\ RecoverInv(t) /\ HeldInv(t)
  BY <1>1, TakenGood
<1> HIDE DEF h, t
<1>3. Near(t)
  BY <1>2 DEF Near
<1>4. Good(ProcessReStart(t)) /\ Good(ProcessUpdatePending(t))
  BY <1>2, <1>3, ReStartGood, UpdatePendingGood
<1> QED
  BY <1>4 DEF t

-----------------------------------------------------------------------------
(* Steps.                                                                  *)

\* What a handler leaves, and the choices forgotten.
LEMMA NoLuckIsLuck == NoLuck \in Lucks
BY DEF NoLuck, Lucks

LEMMA HandledGood ==
    ASSUME NEW s, Good(s), Handled(s)
    PROVE  IInv'
<1> DEFINE w == [s EXCEPT !.ok = FALSE, !.luck = NoLuck]
<1>1. s \in AosSet
  BY DEF Good
<1>2. /\ w \in AosSet /\ Same(s, w) /\ w.queue = s.queue
      /\ w.ok = FALSE /\ w.luck = NoLuck
  BY <1>1, NoLuckIsLuck DEF AosSet, Same
<1>3. aos' = w
  BY DEF Handled
<1> HIDE DEF w
<1>4. Good(w)
  BY <1>1, <1>2, SameKeeps
<1> QED
  BY <1>2, <1>3, <1>4 DEF IInv

\* The luck of a handler changes nothing.
LEMMA WithLuckGood ==
    ASSUME NEW x, Good(x), NEW s \in WithLuck(x)
    PROVE  Good(s) /\ s.queue = x.queue /\ s.engine = x.engine /\ s.state = x.state
<1>1. x \in AosSet
  BY DEF Good
<1>2. PICK l \in Lucks : s = [x EXCEPT !.luck = l]
  BY DEF WithLuck
<1>3. s \in AosSet /\ Same(x, s) /\ s.queue = x.queue
  BY <1>1, <1>2 DEF AosSet, Same
<1> QED
  BY <1>3, SameKeeps DEF Same

\* Nor does the count of disturbances, below its bound.
LEMMA DisturbedGood ==
    ASSUME NEW x, Good(x), x.events < MaxEvents
    PROVE  Good(Disturbed(x)) /\ Disturbed(x).queue = x.queue
<1> DEFINE n == x.events + 1
           w == [x EXCEPT !.events = n]
<1>1. x \in AosSet /\ x.events \in 0 .. MaxEvents
  BY DEF Good, AosSet
<1>2. n \in 0 .. MaxEvents
  BY <1>1, AosEvents
<1> HIDE DEF n
<1>3. w \in AosSet /\ Same(x, w) /\ w.queue = x.queue
  BY <1>1, <1>2 DEF AosSet, Same
<1>4. Disturbed(x) = w
  BY DEF Disturbed, n
<1> QED
  BY <1>3, <1>4, SameKeeps

\* One lemma per action: messages are taken from the head of the queue,
LEMMA ApplicationRequestStep == IInv /\ ApplicationRequest => IInv'
<1> SUFFICES ASSUME IInv, ApplicationRequest PROVE IInv'
  OBVIOUS
<1>1. PICK s \in WithLuck(aos) : Handled(OnRequest(Taken(s), Head(s.queue).what))
  BY DEF ApplicationRequest
<1>2. Good(s) /\ s.queue = aos.queue
  BY WithLuckGood DEF IInv
<1>3. s.queue # << >> /\ Head(s.queue).to = "APP"
  BY <1>2 DEF ApplicationRequest, HeadIs
<1> QED
  BY <1>1, <1>2, <1>3, RequestGood, HandledGood

LEMMA RegistrationReportStep == IInv /\ RegistrationReport => IInv'
<1> SUFFICES ASSUME IInv, RegistrationReport PROVE IInv'
  OBVIOUS
<1>1. /\ Good(aos) /\ aos.queue # << >> /\ Head(aos.queue).to = "REPORT"
      /\ Handled(OnReport(Taken(aos), Head(aos.queue).what))
  BY DEF IInv, RegistrationReport, HeadIs
<1> QED
  BY <1>1, ReportGood, HandledGood

LEMMA RegistrationMessageStep == IInv /\ RegistrationMessage => IInv'
<1> SUFFICES ASSUME IInv, RegistrationMessage PROVE IInv'
  OBVIOUS
<1>1. PICK s \in WithLuck(aos) :
         Handled(IF Head(s.queue).what = "RESTART" THEN ProcessReStart(Taken(s))
                                                   ELSE ProcessUpdatePending(Taken(s)))
  BY DEF RegistrationMessage
<1>2. Good(s) /\ s.queue = aos.queue
  BY WithLuckGood DEF IInv
<1>3. s.queue # << >> /\ Head(s.queue).to = "REG"
  BY <1>2 DEF RegistrationMessage, HeadIs
<1> QED
  BY <1>1, <1>2, <1>3, RegMessageGood, HandledGood

LEMMA EngineMessageStep == IInv /\ EngineMessage => IInv'
<1> SUFFICES ASSUME IInv, EngineMessage PROVE IInv'
  OBVIOUS
<1>1. PICK s \in WithLuck(aos) :
         LET m == Head(s.queue) IN
         Handled(CASE m.to = "ENGINE" -> EngineSucceeded(Taken(s), m.what)
                   [] m.to = "START_FAILED" ->
                        Registration_StartFailed(Taken(s), m.what)
                   [] OTHER -> Registration_UpdateFailed(Taken(s), m.what))
  BY DEF EngineMessage
<1> DEFINE h == Head(s.queue)
           t == Taken(s)
<1>2. Good(s) /\ s.queue = aos.queue
  BY WithLuckGood DEF IInv
<1>3. s.queue # << >> /\ h.to \in {"ENGINE", "START_FAILED", "UPDATE_FAILED"}
  BY <1>2 DEF EngineMessage, HeadIs
<1>4. FromEngine(h)
  BY <1>3 DEF FromEngine
<1>5. /\ h.to = "ENGINE" => Good(EngineSucceeded(t, h.what))
      /\ h.to = "START_FAILED" => Good(Registration_StartFailed(t, h.what))
      /\ h.to = "UPDATE_FAILED" => Good(Registration_UpdateFailed(t, h.what))
  BY <1>2, <1>3, <1>4, EngineMessageGood
<1>6. CASE h.to = "ENGINE"
  <2>1. Handled(EngineSucceeded(t, h.what))
    BY <1>1, <1>6
  <2> QED
    BY <1>5, <1>6, <2>1, HandledGood
<1>7. CASE h.to = "START_FAILED"
  <2>1. Handled(Registration_StartFailed(t, h.what))
    BY <1>1, <1>7
  <2> QED
    BY <1>5, <1>7, <2>1, HandledGood
<1>8. CASE h.to = "UPDATE_FAILED"
  <2>1. Handled(Registration_UpdateFailed(t, h.what))
    BY <1>1, <1>8
  <2> QED
    BY <1>5, <1>8, <2>1, HandledGood
<1> QED
  BY <1>3, <1>6, <1>7, <1>8

\* ... the engine goes on,
LEMMA RegisterSucceedsStep == IInv /\ RegisterSucceeds => IInv'
<1> SUFFICES ASSUME IInv, RegisterSucceeds PROVE IInv'
  OBVIOUS
<1>1. Good(aos) /\ aos.engine.sub \in {"REGISTERING", "REFRESHING"}
  BY DEF IInv, RegisterSucceeds
<1> DEFINE w == CallListener(
                    [aos EXCEPT !.engine = [state |-> "ACTIVE", sub |-> "IDLE",
                                            refresh |-> "HALF"]],
                    aos.engine, TRUE, "OTHER")
<1>2. Good(w)
  BY <1>1, SucceedsGood
<1>3. Handled(w)
  BY DEF RegisterSucceeds
<1> QED
  BY <1>2, <1>3, HandledGood

LEMMA RegisterFailsStep == IInv /\ RegisterFails => IInv'
<1> SUFFICES ASSUME IInv, RegisterFails PROVE IInv'
  OBVIOUS
<1>1. Good(aos) /\ aos.engine.sub \in {"REGISTERING", "REFRESHING"}
  BY DEF IInv, RegisterFails
<1> DEFINE e == aos.engine
           f(reason, response, gone) ==
               CallListener(
                   [aos EXCEPT !.engine =
                       [e EXCEPT !.sub = "IDLE",
                                 !.refresh = IF gone THEN "OFF" ELSE @,
                                 !.state = CASE @ = "INIT" /\ response ->
                                                  "CREATED"
                                             [] @ # "INIT" /\ gone ->
                                                  "TERMINATED"
                                             [] OTHER -> @]],
                   e, FALSE, reason)
<1>2. PICK reason \in FailureReasons, response \in BOOLEAN :
         Handled(f(reason, response, reason = "OTHER" /\ response))
  BY DEF RegisterFails
<1> DEFINE gone == reason = "OTHER" /\ response
<1>3. gone \in BOOLEAN
  OBVIOUS
<1> HIDE DEF gone
<1>4. Good(f(reason, response, gone))
  BY <1>1, <1>3, FailsGood
<1>5. Handled(f(reason, response, gone))
  BY <1>2 DEF gone
<1> HIDE DEF f
<1> QED
  BY <1>4, <1>5, HandledGood

LEMMA DeregisterEndsStep == IInv /\ DeregisterEnds => IInv'
<1> SUFFICES ASSUME IInv, DeregisterEnds PROVE IInv'
  OBVIOUS
<1>1. Good(aos) /\ aos.engine.sub = "DEREGISTERING"
  BY DEF IInv, DeregisterEnds
<1> DEFINE f(refused) ==
               CallListener(
                   [aos EXCEPT !.engine.sub = "IDLE",
                               !.engine.state = IF refused THEN @
                                                           ELSE "TERMINATED"],
                   aos.engine, TRUE, "OTHER")
<1>2. PICK refused \in BOOLEAN : Handled(f(refused))
  BY DEF DeregisterEnds
<1>3. Good(f(refused))
  BY <1>1, DeregEndsGood
<1> HIDE DEF f
<1> QED
  BY <1>2, <1>3, HandledGood

LEMMA RefreshTimerStep == IInv /\ RefreshTimerExpires => IInv'
<1> SUFFICES ASSUME IInv, RefreshTimerExpires PROVE IInv'
  OBVIOUS
<1> DEFINE x == [aos EXCEPT !.engine.refresh = "REST"]
<1>1. PICK s \in WithLuck(x) : Handled(RefreshStep(s))
  BY DEF RefreshTimerExpires, RefreshStep
<1>2. /\ Good(x) /\ x.engine.refresh = "REST"
      /\ x.state = "REGISTERED" => x.engine.state = "ACTIVE"
  BY HalfGood DEF IInv, RefreshTimerExpires
<1> HIDE DEF x
<1>3. Good(s) /\ s.engine = x.engine /\ s.state = x.state
  BY <1>2, WithLuckGood
<1>4. Good(RefreshStep(s))
  BY <1>2, <1>3, RefreshStepGood
<1> QED
  BY <1>1, <1>4, HandledGood

LEMMA RegistrationExpiresStep == IInv /\ RegistrationExpires => IInv'
<1> SUFFICES ASSUME IInv, RegistrationExpires PROVE IInv'
  OBVIOUS
<1> DEFINE w == EngineTerminates([aos EXCEPT !.engine.refresh = "OFF"])
<1>1. Good(w)
  BY ExpiresGood DEF IInv, RegistrationExpires
<1>2. Handled(w)
  BY DEF RegistrationExpires
<1> QED
  BY <1>1, <1>2, HandledGood

\* ... the radio answers, timers expire,
LEMMA RadioStep == IInv /\ (RadioPrepared \/ RadioDenied) => IInv'
<1> SUFFICES ASSUME IInv PROVE RadioPrepared \/ RadioDenied => IInv'
  OBVIOUS
<1>1. ASSUME RadioPrepared PROVE IInv'
  <2>1. PICK s \in WithLuck(aos) : Handled(RadioAnswer(s, TRUE))
    BY <1>1 DEF RadioPrepared
  <2>2. Good(s)
    BY WithLuckGood DEF IInv
  <2> QED
    BY <2>1, <2>2, RadioAnswerGood, HandledGood
<1>2. ASSUME RadioDenied PROVE IInv'
  <2>1. Good(Disturbed(aos)) /\ Handled(RadioAnswer(Disturbed(aos), FALSE))
    BY <1>2, DisturbedGood DEF IInv, RadioDenied, Disturb
  <2> QED
    BY <2>1, RadioAnswerGood, HandledGood
<1> QED
  BY <1>1, <1>2

LEMMA TimerSteps ==
    IInv /\ (TrafficStopTimer \/ StopRetryTimer \/ OfflineRecoverTimer
             \/ DeregTrafficTimer) => IInv'
<1> SUFFICES ASSUME IInv
             PROVE TrafficStopTimer \/ StopRetryTimer \/ OfflineRecoverTimer
                   \/ DeregTrafficTimer => IInv'
  OBVIOUS
<1>1. Good(aos)
  BY DEF IInv
<1>2. ASSUME TrafficStopTimer PROVE IInv'
  <2> DEFINE w == [aos EXCEPT !.txn = StopTimerExpired(@)]
  <2>1. Good(w) /\ Handled(w)
    BY <1>1, <1>2, StopTimerGood DEF TrafficStopTimer
  <2> QED
    BY <2>1, HandledGood
<1>3. ASSUME StopRetryTimer PROVE IInv'
  <2>1. PICK s \in WithLuck(aos) : Handled(StopRetryTimerExpired(s))
    BY <1>3 DEF StopRetryTimer
  <2> QED
    BY <1>1, <2>1, WithLuckGood, RetryTimerGood, HandledGood
<1>4. ASSUME OfflineRecoverTimer PROVE IInv'
  <2>1. PICK s \in WithLuck(aos) : Handled(OfflineRecoverTimerExpired(s))
    BY <1>4 DEF OfflineRecoverTimer
  <2> QED
    BY <1>1, <2>1, WithLuckGood, RecoverTimerGood, HandledGood
<1>5. ASSUME DeregTrafficTimer PROVE IInv'
  BY <1>1, <1>5, DeregTimerGood, HandledGood DEF DeregTrafficTimer
<1> QED
  BY <1>2, <1>3, <1>4, <1>5

\* ... what holds the registration back changes,
LEMMA HoldSteps ==
    IInv /\ (TrafficPriorityChanged \/ BlockChanges \/ CallChanges) => IInv'
<1> SUFFICES ASSUME IInv
             PROVE TrafficPriorityChanged \/ BlockChanges \/ CallChanges => IInv'
  OBVIOUS
<1>1. Good(aos)
  BY DEF IInv
<1>2. aos.events < MaxEvents => Good(Disturbed(aos))
  BY <1>1, DisturbedGood
<1>3. ASSUME TrafficPriorityChanged PROVE IInv'
  <2> DEFINE d == Disturbed(aos)
             x == [d EXCEPT !.allowed = ~@]
  <2>1. PICK s \in WithLuck(x) : Handled(Transaction_OnTrafficPriorityChanged(s))
    BY <1>3 DEF TrafficPriorityChanged
  <2>2. Good(d)
    BY <1>2, <1>3 DEF TrafficPriorityChanged, Disturb
  <2> HIDE DEF d
  <2>3. d \in AosSet
    BY <2>2 DEF Good
  <2>4. x \in AosSet /\ Same(d, x) /\ x.queue = d.queue
    BY <2>3 DEF AosSet, Same
  <2>5. Good(x)
    BY <2>2, <2>4, SameKeeps
  <2> HIDE DEF x
  <2> QED
    BY <2>1, <2>5, WithLuckGood, PriorityChangedGood, HandledGood
<1>4. ASSUME BlockChanges PROVE IInv'
  <2>1. PICK s \in WithLuck(Disturbed(aos)) : Handled(Block_Changed(s))
    BY <1>4 DEF BlockChanges
  <2>2. Good(s)
    BY <1>2, <1>4, WithLuckGood DEF BlockChanges, Disturb
  <2> QED
    BY <2>1, <2>2, BlockChangedGood, HandledGood
<1>5. ASSUME CallChanges PROVE IInv'
  <2> DEFINE f(s) == CallTracker_StateChanged(s)
             g(a) == [a EXCEPT !.recoveryHeld = FALSE]
  <2>1. PICK s \in WithLuck(Disturbed(aos)) :
           Handled(IF ~f(s).call /\ f(s).recoveryHeld
                   THEN Post(g(f(s)), "APP", "RECOVER") ELSE f(s))
    BY <1>5 DEF CallChanges
  <2>2. Good(s)
    BY <1>2, <1>5, WithLuckGood DEF CallChanges, Disturb
  <2> DEFINE a == f(s)
             z == g(a)
             w == Post(z, "APP", "RECOVER")
  <2>3. Good(a)
    BY <2>2, CallChangedGood
  <2>4. Handled(w) \/ Handled(a)
    BY <2>1
  <2> HIDE DEF a
  <2>5. a \in AosSet
    BY <2>3 DEF Good
  <2>6. z \in AosSet /\ Same(a, z) /\ z.queue = a.queue
    BY <2>5 DEF AosSet, Same
  <2> HIDE DEF z
  <2>7. Good(z)
    BY <2>3, <2>6, SameKeeps
  <2>8. Good(w)
    BY <2>6, <2>7, Posted, PostKeeps
  <2> QED
    BY <2>3, <2>4, <2>8, HandledGood
<1> QED
  BY <1>3, <1>4, <1>5

\* ... and the connector and the services ask for something.
LEMMA ConnectorSteps ==
    IInv /\ (ConditionReady \/ ConnectorActivated \/ ConnectorDeactivated) => IInv'
<1> SUFFICES ASSUME IInv
             PROVE ConditionReady \/ ConnectorActivated \/ ConnectorDeactivated
                   => IInv'
  OBVIOUS
<1>1. Good(aos) /\ aos \in AosSet
  BY DEF IInv, Good
<1>2. ASSUME ConditionReady PROVE IInv'
  <2>1. Good(SetAppState(aos, "READY"))
    BY <1>1, <1>2, SetAppStateGood, Values DEF ConditionReady, AppUp
  <2>2. Handled(SetAppState(aos, "READY"))
    BY <1>2 DEF ConditionReady
  <2> QED
    BY <2>1, <2>2, HandledGood
<1>3. ASSUME ConnectorActivated PROVE IInv'
  <2> DEFINE a == [aos EXCEPT !.connected = TRUE]
             w == Post(a, "APP", "ACTIVATED")
  <2>1. Handled(w)
    BY <1>3 DEF ConnectorActivated
  <2>2. a \in AosSet /\ Same(aos, a) /\ a.queue = aos.queue
    BY <1>1 DEF AosSet, Same
  <2> HIDE DEF a
  <2>3. Good(a)
    BY <1>1, <2>2, SameKeeps
  <2>4. Good(w)
    BY <2>2, <2>3, Posted, PostKeeps
  <2> QED
    BY <2>1, <2>4, HandledGood
<1>4. ASSUME ConnectorDeactivated PROVE IInv'
  <2>1. Good(Disturbed(aos)) /\ Handled(StopConnector(Disturbed(aos)))
    BY <1>1, <1>4, DisturbedGood DEF ConnectorDeactivated, Disturb
  <2>2. Good(StopConnector(Disturbed(aos)))
    BY <2>1, GoodParts, StopConnectorGood
  <2> QED
    BY <2>1, <2>2, HandledGood
<1> QED
  BY <1>2, <1>3, <1>4

LEMMA RequestSteps ==
    IInv /\ (RequestStart \/ RequestUpdate \/ RequestStop \/ RequestRecover) => IInv'
<1> SUFFICES ASSUME IInv, RequestStart \/ RequestUpdate \/ RequestStop
                          \/ RequestRecover
             PROVE  IInv'
  OBVIOUS
<1> DEFINE a == Disturbed(aos)
           d == SetAppState(a, "DISCONNECTING")
<1>1. aos.events < MaxEvents
  BY DEF RequestStart, RequestUpdate, RequestStop, RequestRecover, Disturb
<1>2. Good(a)
  BY <1>1, DisturbedGood DEF IInv
<1>3. Good(d)
  BY <1>2, SetAppStateGood, Values
<1>4. \A x, what : Good(x) /\ what \in {"START", "UPDATE", "STOP", "RECOVER"} =>
                      Good(Post(x, "APP", what))
  <2> SUFFICES ASSUME NEW x, Good(x), NEW what \in {"START", "UPDATE", "STOP", "RECOVER"}
               PROVE  Good(Post(x, "APP", what))
    OBVIOUS
  <2>1. x \in AosSet
    BY DEF Good
  <2>2. [to |-> "APP", what |-> what] \in Messages
        /\ ~FromEngine([to |-> "APP", what |-> what])
    BY Posted
  <2> QED
    BY <2>1, <2>2, PostKeeps
<1>5. \/ \E what \in {"START", "UPDATE", "STOP", "RECOVER"} :
            Handled(Post(a, "APP", what))
      \/ Handled(Post(d, "APP", "STOP"))
  BY DEF RequestStart, RequestUpdate, RequestStop, RequestRecover
<1> HIDE DEF a, d
<1> QED
  BY <1>2, <1>3, <1>4, <1>5, HandledGood

-----------------------------------------------------------------------------
(* The invariant.                                                          *)

LEMMA InitInv == Init => IInv
<1> SUFFICES ASSUME Init PROVE IInv
  OBVIOUS
<1>1. /\ aos.app = "READY" /\ aos.state = "OFFLINE" /\ aos.pending = {}
      /\ aos.timers = {} /\ aos.started = TRUE /\ aos.blocked = FALSE
      /\ aos.heldByCall = FALSE /\ aos.radioWaiting = FALSE
      /\ aos.priorityBlocked = FALSE /\ aos.engine = NoEngine
      /\ aos.txn = NoTraffic /\ aos.queue = << >>
      /\ aos.ok = FALSE /\ aos.luck = NoLuck
  BY DEF Init
<1>2. 0 \in 0 .. CREATE_REG_FAILURE_MAX_COUNT /\ 0 \in 0 .. MaxEvents
  BY AosBounds, AosEvents, SMT
<1>3. /\ NoTraffic \in Traffic /\ RadioIsReleased(NoTraffic)
      /\ NoTraffic.traffics = {}
  BY DEF NoTraffic, Traffic, TrafficTypes, RadioIsReleased
<1>4. << >> \in Seq(Messages) /\ DOMAIN << >> = {}
  BY EmptySeq
<1>5. aos \in AosSet
  BY <1>2, <1>3, <1>4, NoLuckIsLuck, Values DEF Init, AosSet
<1>6. Silent(aos)
  BY <1>1, <1>4 DEF Silent
<1>7. Current(aos)
  BY <1>1 DEF Current, HeldBack
<1>8. RadioInv(aos)
  BY <1>1, <1>3 DEF RadioInv
<1>9. Clean(aos)
  BY <1>1, <1>5, <1>6, <1>7, <1>8 DEF Clean
<1> QED
  BY <1>1, <1>9, CleanGood DEF IInv

LEMMA NextInv == IInv /\ [Next]_aos => IInv'
<1> SUFFICES ASSUME IInv, [Next]_aos PROVE IInv'
  OBVIOUS
<1>1. CASE aos' = aos
  BY <1>1 DEF IInv
<1>2. CASE Next
  BY <1>2, ApplicationRequestStep, RegistrationReportStep, RegistrationMessageStep,
     EngineMessageStep, RegisterSucceedsStep, RegisterFailsStep, DeregisterEndsStep,
     RefreshTimerStep, RegistrationExpiresStep, RadioStep, TimerSteps, HoldSteps,
     ConnectorSteps, RequestSteps
     DEF Next
<1> QED
  BY <1>1, <1>2

\* The inductive invariant, for every bound and whatever the environment does:
\* each handler of AosRegistration and AosApplication keeps it.
THEOREM AosInvariant == Spec => []IInv
BY InitInv, NextInv, PTL DEF Spec

\* Every part of the state keeps its type.
THEOREM AosTyped == Spec => []AosTypeOK
<1>1. IInv => AosTypeOK
  <2> SUFFICES ASSUME IInv PROVE AosTypeOK
    OBVIOUS
  <2>1. aos \in AosSet /\ aos.ok = FALSE /\ aos.luck = NoLuck
    BY DEF IInv, Good
  <2>2. aos.queue \in Seq(Messages)
    BY <2>1 DEF AosSet
  <2>3. \A i \in DOMAIN aos.queue : aos.queue[i] \in Messages
    BY <2>2, ElementOfSeq, LenProperties
  <2> QED
    BY <2>1, <2>3 DEF AosTypeOK, AosSet
<1> QED
  BY <1>1, AosInvariant, PTL

\* The radio is never left on without traffic and without a timer that
\* releases it (AosTransaction::StopTraffic, ::ProcessTimerExpired).
THEOREM RadioIsAlwaysReleased == Spec => []RadioReleased
<1>1. IInv => RadioReleased
  BY DEF IInv, Good, RadioInv, RadioReleased
<1> QED
  BY <1>1, AosInvariant, PTL

\* The cached m_bIsTransactionStarted says what its four conditions say, in
\* every state but that of a de-registration.
THEOREM StartedIsAlwaysCurrent == Spec => []StartedIsCurrent
<1>1. IInv => StartedIsCurrent
  BY DEF IInv, Good, StartedInv, StartedIsCurrent
<1> QED
  BY <1>1, AosInvariant, PTL

\* A registration that says that it is trying has a request on its way or the
\* engine's word of it in the queue: it is never left trying for ever.
THEOREM TryingAlwaysHasRequest == Spec => []TryingHasRequest
<1>1. IInv => TryingHasRequest
  <2> SUFFICES ASSUME IInv PROVE TryingHasRequest
    OBVIOUS
  <2>1. TryingInv(aos)
    BY DEF IInv, Good, LinkInv
  <2>2. HasResult(aos) \/ In(aos, EngineEnd) => EngineSpoke
    BY DEF HasResult, IsResult, FromEngine, In, EngineEnd, EngineSpoke, InQueue
  <2> QED
    BY <2>1, <2>2 DEF TryingInv, TryingHasRequest
<1> QED
  BY <1>1, AosInvariant, PTL

\* An update that was asked for while the registration was trying is in the
\* queue as soon as it has come to rest (AosRegistration::CheckPending).
THEOREM UpdateIsAlwaysKept == Spec => []UpdateIsKept
<1>1. IInv => UpdateIsKept
  BY DEF IInv, Good, KeptInv, In, UpdateIsKept
<1> QED
  BY <1>1, AosInvariant, PTL

\* A registration that waits has a timer, a message or a condition that will
\* let it go on: no order of denials, blocks, calls and failures strands it.
THEOREM HeldAlwaysGoesOn == Spec => []HeldGoesOn
<1>1. IInv => HeldGoesOn
  <2> SUFFICES ASSUME IInv, IsRetryHeld(aos), Waiting
               PROVE  HeldBack(aos) /\ aos.pending # {}
    BY DEF HeldGoesOn
  <2>1. HeldInv(aos) /\ aos.timers = {} /\ aos.queue = << >>
    BY DEF IInv, Good, Waiting
  <2>2. \A x : ~In(aos, x)
    <3>1. DOMAIN << >> = {}
      BY EmptySeq
    <3> QED
      BY <2>1, <3>1 DEF In
  <2>3. HeldBack(aos) /\ aos.pending \cap {"START", "TRAFFIC", "TRANSACTION"} # {}
    BY <2>1, <2>2 DEF HeldInv
  <2> QED
    BY <2>3
<1> QED
  BY <1>1, AosInvariant, PTL
=============================================================================
