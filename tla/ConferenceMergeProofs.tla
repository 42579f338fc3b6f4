------------------------ MODULE ConferenceMergeProofs ------------------------
(***************************************************************************)
(* Proofs about the conference controller, for every number of calls, of   *)
(* participants and of commands, and for every carrier configuration:      *)
(*                                                                         *)
(*   MergeTypeCorrect       the types, whatever goes wrong                 *)
(*   CallsAreKept           no call is lost for nothing                    *)
(*   AnswersAreAskedFor     one answer to each command                     *)
(*                                                                         *)
(* A handler is an operator from a controller to a controller, so there is *)
(* one lemma for each handler and each part of it rather than one for each *)
(* action: "Sound" for the types, "Settles" for the rest.  The lemmas about*)
(* handlers that may begin the next operation assume the same of the run   *)
(* they are given; that DoNextOperation is such a run is an induction over *)
(* how deep the operations nest, in NextOperationsSound and                *)
(* NextOperationsSafe.                                                     *)
(*                                                                         *)
(* The inductive invariant is ConferenceInv, at the end.  Lasting, its     *)
(* first part, are the types and what keeps the calls; OnTime, its second, *)
(* holds until the outcome of an earlier drop or a late failure comes.     *)
(* Settled is both between two handlers, seen from within a step, and a    *)
(* little more, Ready, holds whenever an operation is about to begin.      *)
(***************************************************************************)
EXTENDS ConferenceMerge, FiniteSetTheorems, SequenceTheorems,
        WellFoundedInduction, TLAPS

\* Who is named by the queue, by a reference or by the list has been added.
Named(c) ==
    /\ \A i \in DOMAIN c.queue : c.queue[i].user <= c.added
    /\ \A r \in c.references : r.user <= c.added
    /\ c.list \subseteq 1 .. c.added

Sound == {c \in Controllers : Named(c)}

SoundRun(run) == \A c \in Sound : run[c] \in Sound

\* The types of the fields of a controller.
LEMMA Fields ==
    ASSUME NEW c \in Sound
    PROVE  /\ c \in Controllers /\ Named(c)
           /\ c.config \in Configs /\ c.state \in ControllerStates
           /\ c.queue \in Seq(Operation)
           /\ c.needToStart \in BOOLEAN /\ c.delayTimer \in BOOLEAN
           /\ c.list \in SUBSET Participants
           /\ c.users \in [Participants -> Participant]
           /\ c.added \in 0 .. MaxParticipants
           /\ c.references \in SUBSET Reference /\ IsFiniteSet(c.references)
           /\ c.subscription \in Subscription \cup {NoSubscription}
           /\ c.oneToOneEnded \in BOOLEAN /\ c.sipfragTimer \in BOOLEAN
           /\ c.known \in SUBSET Calls
           /\ c.calls \in [Calls -> {"ESTABLISHED", "TERMINATING"}]
           /\ c.joined \in BOOLEAN /\ c.lost \in BOOLEAN
           /\ c.unasked \in BOOLEAN /\ c.commands \in Nat
BY DEF Sound, Controllers

\* A controller that adds neither operations, references nor participants.
LEMMA Renamed ==
    ASSUME NEW c \in Sound, NEW d \in Controllers,
           d.queue = c.queue, d.references \subseteq c.references,
           d.list \subseteq c.list, d.added = c.added
    PROVE  d \in Sound
BY Fields DEF Sound, Named

\* SetStatus keeps the types.
LEMMA SetStatusSound ==
    ASSUME NEW c \in Sound, NEW p \in Participants \cup {NoUser},
           NEW status \in Status
    PROVE  SetStatus(c, p, status) \in Sound
<1>1. CASE p = NoUser
  BY <1>1 DEF SetStatus
<1>2. CASE p # NoUser
  <2>1. [c.users EXCEPT ![p].status = status] \in [Participants -> Participant]
    BY <1>2, Fields DEF Participant
  <2>2. (c.joined \/ status = "CONNECTED") \in BOOLEAN
    OBVIOUS
  <2> DEFINE u == [c.users EXCEPT ![p].status = status]
             j == c.joined \/ status = "CONNECTED"
             d == [c EXCEPT !.users = u, !.joined = j]
  <2>3. c \in Controllers
    BY Fields
  <2>4. SetStatus(c, p, status) = d
    BY <1>2, <2>3 DEF SetStatus, Controllers
  <2>5. u \in [Participants -> Participant] /\ j \in BOOLEAN
    BY <2>1, <2>2
  <2> HIDE DEF u, j
  <2>6. d \in Controllers
    BY <2>3, <2>5 DEF Controllers
  <2>7. /\ d.queue = c.queue /\ d.references = c.references
        /\ d.list = c.list /\ d.added = c.added
    BY <2>3 DEF Controllers
  <2> HIDE DEF d
  <2> QED
    BY <2>4, <2>6, <2>7, Renamed
<1> QED
  BY <1>1, <1>2

\* Answer keeps the types.
LEMMA AnswerSound ==
    ASSUME NEW c \in Sound
    PROVE  Answer(c) \in Sound
<1> DEFINE u == c.unasked \/ c.command = "NONE"
           d == [c EXCEPT !.unasked = u, !.command = "NONE"]
<1>1. c \in Controllers /\ u \in BOOLEAN
  BY Fields
<1>2. Answer(c) = d
  BY DEF Answer
<1> HIDE DEF u
<1>3. d \in Controllers
  BY <1>1 DEF Controllers
<1>4. /\ d.queue = c.queue /\ d.references = c.references
      /\ d.list = c.list /\ d.added = c.added
  BY <1>1 DEF Controllers
<1> HIDE DEF d
<1> QED
  BY <1>2, <1>3, <1>4, Renamed

\* RemoveUsers keeps the types.
LEMMA RemoveUsersSound ==
    ASSUME NEW c \in Sound, NEW gone
    PROVE  RemoveUsers(c, gone) \in Sound
<1> DEFINE u == [p \in Participants |->
                IF p \in gone
                THEN [c.users[p] EXCEPT !.status = "DISCONNECTED",
                                  !.reference = NoReference,
                                  !.infoUpdated = FALSE]
                ELSE c.users[p]]
<1>1. u \in [Participants -> Participant]
  <2>1. c.users \in [Participants -> Participant]
    BY Fields
  <2> QED
    BY <2>1 DEF Participant, NoReference, Status
<1> DEFINE L == c.list \ gone
           d == [c EXCEPT !.list = L, !.users = u]
<1>2. c \in Controllers /\ L \in SUBSET Participants /\ L \subseteq c.list
  BY Fields
<1>3. RemoveUsers(c, gone) = d
  BY <1>2 DEF RemoveUsers, Controllers
<1> HIDE DEF u, L
<1>4. d \in Controllers
  BY <1>1, <1>2 DEF Controllers
<1>5. /\ d.queue = c.queue /\ d.references = c.references
      /\ d.list = L /\ d.added = c.added
  BY <1>2 DEF Controllers
<1> HIDE DEF d
<1> QED
  BY <1>2, <1>3, <1>4, <1>5, Renamed

\* RemoveReference keeps the types.
LEMMA DropReferencesSound ==
    ASSUME NEW c \in Sound, NEW gone
    PROVE  DropReferences(c, gone) \in Sound
<1> DEFINE u == [p \in Participants |->
                IF InList(c, p) /\ \E r \in gone : r.id = c.users[p].reference
                THEN [c.users[p] EXCEPT !.reference = NoReference]
                ELSE c.users[p]]
<1>1. u \in [Participants -> Participant]
  <2>1. c.users \in [Participants -> Participant]
    BY Fields
  <2> QED
    BY <2>1 DEF Participant, NoReference
<1> DEFINE R == c.references \ gone
           d == [c EXCEPT !.references = R, !.users = u]
<1>2. c \in Controllers /\ R \subseteq c.references
  BY Fields
<1>3. R \in SUBSET Reference /\ IsFiniteSet(R)
  BY Fields, FS_Subset
<1>4. DropReferences(c, gone) = d
  BY <1>2 DEF DropReferences, Controllers
<1> HIDE DEF u, R
<1>5. d \in Controllers
  BY <1>1, <1>2, <1>3 DEF Controllers
<1>6. /\ d.queue = c.queue /\ d.references = R
      /\ d.list = c.list /\ d.added = c.added
  BY <1>2 DEF Controllers
<1> HIDE DEF d
<1> QED
  BY <1>2, <1>4, <1>5, <1>6, Renamed

\* A participant is added while there is room.
LEMMA AddUserSound ==
    ASSUME NEW c \in Sound, NEW call \in Calls \cup {NoCall}, c.added < MaxParticipants
    PROVE  /\ AddUser(c, call) \in Sound
           /\ AddUser(c, call).added = c.added + 1
           /\ c.added + 1 \in Participants
<1> DEFINE p == c.added + 1
           L == c.list \cup {p}
           u == [c.users EXCEPT ![p].call = call]
           d == [c EXCEPT !.added = p, !.list = L, !.users = u]
<1>0. /\ c \in Controllers /\ Named(c) /\ c.added \in 0 .. MaxParticipants
      /\ c.users \in [Participants -> Participant]
      /\ c.list \in SUBSET Participants
  BY Fields
<1>1. p \in Participants /\ p \in 0 .. MaxParticipants /\ p = c.added + 1
      /\ c.added \in Nat
  BY <1>0, BoundsAssumption DEF Participants
<1>2. u \in [Participants -> Participant]
  BY <1>0, <1>1 DEF Participant
<1>3. L \in SUBSET Participants
  BY <1>0, <1>1
<1>4. AddUser(c, call) = d
  BY <1>0 DEF AddUser, Controllers
<1>5. L \subseteq 1 .. p
  <2> HIDE DEF p
  <2>1. c.list \subseteq 1 .. c.added
    BY <1>0 DEF Named
  <2> QED
    BY <1>1, <2>1
<1> HIDE DEF p, L, u
<1>6. d \in Controllers
  BY <1>0, <1>1, <1>2, <1>3 DEF Controllers
<1>7. /\ d.queue = c.queue /\ d.references = c.references
      /\ d.added = p /\ d.list = L
  BY <1>0 DEF Controllers
<1> HIDE DEF d
<1>8. \A i \in DOMAIN c.queue : c.queue[i].user <= p
  <2>1. ASSUME NEW i \in DOMAIN c.queue PROVE c.queue[i].user <= p
    <3>1. c.queue[i] \in Operation
      BY Fields, LenProperties, ElementOfSeq
    <3>2. c.queue[i].user \in Nat
      BY <3>1, BoundsAssumption DEF Operation, Participants, NoUser
    <3>3. c.queue[i].user <= c.added
      BY <1>0 DEF Named
    <3> QED
      BY <1>1, <3>2, <3>3
  <2> QED
    BY <2>1
<1>9. \A r \in c.references : r.user <= p
  <2>1. ASSUME NEW r \in c.references PROVE r.user <= p
    <3>1. r \in Reference
      BY Fields
    <3>2. r.user \in Nat
      BY <3>1, BoundsAssumption DEF Reference, Participants
    <3>3. r.user <= c.added
      BY <1>0 DEF Named
    <3> QED
      BY <1>1, <3>2, <3>3
  <2> QED
    BY <2>1
<1>10. d \in Sound
  BY <1>5, <1>6, <1>7, <1>8, <1>9 DEF Sound, Named
<1>11. p \in Participants /\ d.added = c.added + 1
  BY <1>1, <1>7
<1> QED
  BY <1>1, <1>4, <1>10, <1>11

\* The end of the controller keeps the types.
LEMMA LifeSound ==
    ASSUME NEW c \in Sound,
           NEW life \in {"OPEN", "CLOSED", "ABORTED", "DESTROYED"}
    PROVE  [c EXCEPT !.life = life] \in Sound
<1> DEFINE d == [c EXCEPT !.life = life]
<1>0. c \in Controllers
  BY Fields
<1>1. d \in Controllers
  BY <1>0 DEF Controllers
<1>2. /\ d.queue = c.queue /\ d.references = c.references
      /\ d.list = c.list /\ d.added = c.added
  BY <1>0 DEF Controllers
<1> QED
  BY <1>1, <1>2, Renamed

\* A new state keeps the types.
LEMMA StateSound ==
    ASSUME NEW c \in Sound, NEW state \in ControllerStates
    PROVE  [c EXCEPT !.state = state] \in Sound
<1> DEFINE d == [c EXCEPT !.state = state]
<1>0. c \in Controllers
  BY Fields
<1>1. d \in Controllers
  BY <1>0 DEF Controllers
<1>2. /\ d.queue = c.queue /\ d.references = c.references
      /\ d.list = c.list /\ d.added = c.added
  BY <1>0 DEF Controllers
<1> QED
  BY <1>1, <1>2, Renamed

\* A new subscription keeps the types.
LEMMA SubscriptionSound ==
    ASSUME NEW c \in Sound,
           NEW s \in Subscription \cup {NoSubscription}
    PROVE  [c EXCEPT !.subscription = s] \in Sound
<1> DEFINE d == [c EXCEPT !.subscription = s]
<1>0. c \in Controllers
  BY Fields
<1>1. d \in Controllers
  BY <1>0 DEF Controllers
<1>2. /\ d.queue = c.queue /\ d.references = c.references
      /\ d.list = c.list /\ d.added = c.added
  BY <1>0 DEF Controllers
<1> QED
  BY <1>1, <1>2, Renamed

\* What is known of the calls may change.
LEMMA CallSound ==
    ASSUME NEW c \in Sound, NEW lost \in BOOLEAN, NEW known \in SUBSET Calls,
           NEW calls \in [Calls -> {"ESTABLISHED", "TERMINATING"}]
    PROVE  [c EXCEPT !.lost = lost, !.calls = calls, !.known = known] \in Sound
<1> DEFINE d == [c EXCEPT !.lost = lost, !.calls = calls, !.known = known]
<1>0. c \in Controllers
  BY Fields
<1>1. d \in Controllers
  BY <1>0 DEF Controllers
<1>2. /\ d.queue = c.queue /\ d.references = c.references
      /\ d.list = c.list /\ d.added = c.added
  BY <1>0 DEF Controllers
<1> QED
  BY <1>1, <1>2, Renamed

\* The timers may change.
LEMMA TimersSound ==
    ASSUME NEW c \in Sound, NEW s \in BOOLEAN, NEW o \in BOOLEAN,
           NEW n \in BOOLEAN
    PROVE  [c EXCEPT !.sipfragTimer = s, !.oneToOneEnded = o,
                     !.needToStart = n] \in Sound
<1> DEFINE d == [c EXCEPT !.sipfragTimer = s, !.oneToOneEnded = o,
                          !.needToStart = n]
<1>0. c \in Controllers
  BY Fields
<1>1. d \in Controllers
  BY <1>0 DEF Controllers
<1>2. /\ d.queue = c.queue /\ d.references = c.references
      /\ d.list = c.list /\ d.added = c.added
  BY <1>0 DEF Controllers
<1> QED
  BY <1>1, <1>2, Renamed

\* A queue that names participants that have been added.
LEMMA QueueSound ==
    ASSUME NEW c \in Sound, NEW q \in Seq(Operation),
           NEW n \in BOOLEAN, NEW t \in BOOLEAN,
           \A i \in DOMAIN q : q[i].user <= c.added
    PROVE  [c EXCEPT !.queue = q, !.needToStart = n, !.delayTimer = t] \in Sound
<1> DEFINE d == [c EXCEPT !.queue = q, !.needToStart = n, !.delayTimer = t]
<1>0. c \in Controllers
  BY Fields
<1>1. d \in Controllers
  BY <1>0 DEF Controllers
<1>2. /\ d.queue = q /\ d.references = c.references
      /\ d.list = c.list /\ d.added = c.added
  BY <1>0 DEF Controllers
<1> QED
  BY <1>1, <1>2, Fields DEF Sound, Named
-----------------------------------------------------------------------------
(* The queue.                                                              *)

\* The operation in progress and those behind it.
LEMMA HeadFacts ==
    ASSUME NEW c \in Sound, c.queue # << >>
    PROVE  /\ Len(c.queue) \in Nat \ {0} /\ DOMAIN c.queue = 1 .. Len(c.queue)
           /\ Head(c.queue) = c.queue[1] /\ Head(c.queue) \in Operation
           /\ Head(c.queue).user <= c.added
           /\ Tail(c.queue) \in Seq(Operation)
           /\ Len(Tail(c.queue)) = Len(c.queue) - 1
           /\ DOMAIN Tail(c.queue) = 1 .. Len(c.queue) - 1
           /\ \A i \in 1 .. Len(c.queue) - 1 :
                 Tail(c.queue)[i] = c.queue[i + 1] /\ i + 1 \in DOMAIN c.queue
<1>1. c.queue \in Seq(Operation) /\ Named(c)
  BY Fields
<1>2. Len(c.queue) \in Nat \ {0} /\ DOMAIN c.queue = 1 .. Len(c.queue)
  BY <1>1, EmptySeq, LenProperties
<1>3. /\ Tail(c.queue) \in Seq(Operation)
      /\ Len(Tail(c.queue)) = Len(c.queue) - 1
      /\ \A i \in 1 .. Len(Tail(c.queue)) : Tail(c.queue)[i] = c.queue[i + 1]
  BY <1>1, HeadTailProperties
<1>4. Head(c.queue) = c.queue[1] /\ 1 \in DOMAIN c.queue
  BY <1>1, <1>2
<1>5. Head(c.queue) \in Operation
  BY <1>1, HeadTailProperties
<1>6. Head(c.queue).user <= c.added
  BY <1>1, <1>4 DEF Named
<1>7. DOMAIN Tail(c.queue) = 1 .. Len(c.queue) - 1
  BY <1>3, LenProperties
<1>8. \A i \in 1 .. Len(c.queue) - 1 : i + 1 \in DOMAIN c.queue
  BY <1>2
<1> QED
  BY <1>2, <1>3, <1>4, <1>5, <1>6, <1>7, <1>8

\* The queue with one more operation at its end.
LEMMA AppendFacts ==
    ASSUME NEW c \in Sound, NEW op \in Operation
    PROVE  /\ Append(c.queue, op) \in Seq(Operation)
           /\ Len(c.queue) \in Nat /\ DOMAIN c.queue = 1 .. Len(c.queue)
           /\ Len(Append(c.queue, op)) = Len(c.queue) + 1
           /\ DOMAIN Append(c.queue, op) = 1 .. Len(c.queue) + 1
           /\ \A i \in DOMAIN c.queue : Append(c.queue, op)[i] = c.queue[i]
           /\ Append(c.queue, op)[Len(c.queue) + 1] = op
           /\ \A i \in 1 .. Len(c.queue) + 1 :
                 i \in DOMAIN c.queue \/ i = Len(c.queue) + 1
<1>1. c.queue \in Seq(Operation)
  BY Fields
<1>2. Len(c.queue) \in Nat /\ DOMAIN c.queue = 1 .. Len(c.queue)
  BY <1>1, LenProperties
<1>3. /\ Append(c.queue, op) \in Seq(Operation)
      /\ Len(Append(c.queue, op)) = Len(c.queue) + 1
      /\ \A i \in 1 .. Len(c.queue) : Append(c.queue, op)[i] = c.queue[i]
      /\ Append(c.queue, op)[Len(c.queue) + 1] = op
  BY <1>1, AppendProperties
<1>4. DOMAIN Append(c.queue, op) = 1 .. Len(c.queue) + 1
  BY <1>3, LenProperties
<1>5. \A i \in 1 .. Len(c.queue) + 1 :
         i \in DOMAIN c.queue \/ i = Len(c.queue) + 1
  BY <1>2
<1> QED
  BY <1>2, <1>3, <1>4, <1>5

\* An operation that names nobody.
Plain(op) == op \in Operation /\ op.user = NoUser

\* Operations that name nobody.
LEMMA PlainOps ==
    ASSUME NEW type \in OperationTypes \ UserOperationTypes
    PROVE  /\ Plain(Op(type, NoUser))
           /\ Plain([Op(type, NoUser) EXCEPT !.delayed = TRUE])
           /\ Op(type, NoUser).type = type
           /\ [Op(type, NoUser) EXCEPT !.delayed = TRUE].type = type
BY DEF Plain, Op, Operation

\* Operations that name a participant.
LEMMA UserOps ==
    ASSUME NEW type \in UserOperationTypes, NEW p \in Participants
    PROVE  /\ Op(type, p) \in Operation /\ Op(type, p).user = p
           /\ Op(type, p).type = type
BY DEF Op, Operation

\* AddOperation of a stand-alone operation keeps the types.
LEMMA PutStandAloneSound ==
    ASSUME NEW run, SoundRun(run), NEW c \in Sound,
           NEW op, Plain(op)
    PROVE  PutStandAlone(run, c, op) \in Sound
<1> DEFINE q == Append(c.queue, op)
           put == [c EXCEPT !.queue = q]
<1>0. c \in Controllers /\ c.added \in Nat
  BY Fields
<1>1. op \in Operation /\ op.user <= c.added
  BY <1>0 DEF Plain, NoUser
<1>2. q \in Seq(Operation) /\ \A i \in DOMAIN q : q[i].user <= c.added
  <2>1. \A i \in DOMAIN c.queue : c.queue[i].user <= c.added
    BY Fields DEF Named
  <2> QED
    BY <1>1, <2>1, AppendFacts
<1> HIDE DEF q
<1>3. \A n \in BOOLEAN, t \in BOOLEAN :
         [c EXCEPT !.queue = q, !.needToStart = n, !.delayTimer = t] \in Sound
  BY <1>2, QueueSound
<1>4. c.needToStart \in BOOLEAN /\ c.delayTimer \in BOOLEAN
  BY Fields
<1>5. put = [c EXCEPT !.queue = q, !.needToStart = c.needToStart,
                      !.delayTimer = c.delayTimer]
  BY <1>0 DEF Controllers
<1>6. [put EXCEPT !.needToStart = FALSE] =
          [c EXCEPT !.queue = q, !.needToStart = FALSE,
                    !.delayTimer = c.delayTimer]
  BY <1>0 DEF Controllers
<1>7. put \in Sound /\ [put EXCEPT !.needToStart = FALSE] \in Sound
  BY <1>3, <1>4, <1>5, <1>6
<1>8. run[[put EXCEPT !.needToStart = FALSE]] \in Sound
  BY <1>7 DEF SoundRun
<1> QED
  BY <1>7, <1>8 DEF PutStandAlone, q

\* Clear of the queue keeps the types.
LEMMA ClearQueueSound ==
    ASSUME NEW c \in Sound
    PROVE  ClearQueue(c) \in Sound
<1>0. c \in Controllers /\ c.needToStart \in BOOLEAN
  BY Fields
<1>1. [c EXCEPT !.queue = << >>, !.needToStart = c.needToStart,
                !.delayTimer = FALSE] \in Sound
  <2> DEFINE q == << >>
  <2>1. q \in Seq(Operation) /\ \A i \in DOMAIN q : q[i].user <= c.added
    OBVIOUS
  <2> HIDE DEF q
  <2>2. [c EXCEPT !.queue = q, !.needToStart = c.needToStart,
                  !.delayTimer = FALSE] \in Sound
    BY <1>0, <2>1, QueueSound
  <2> QED
    BY <2>2 DEF q
<1>2. ClearQueue(c) = [c EXCEPT !.queue = << >>,
                                !.needToStart = c.needToStart,
                                !.delayTimer = FALSE]
  BY <1>0 DEF ClearQueue, Controllers
<1> QED
  BY <1>1, <1>2

\* The operation in progress is taken out.
LEMMA RemoveActiveSound ==
    ASSUME NEW c \in Sound, c.queue # << >>
    PROVE  RemoveActiveOperation(c) \in Sound
<1>0. c \in Controllers /\ c.needToStart \in BOOLEAN
  BY Fields
<1>1. \A i \in DOMAIN Tail(c.queue) : Tail(c.queue)[i].user <= c.added
  <2>1. \A i \in DOMAIN c.queue : c.queue[i].user <= c.added
    BY Fields DEF Named
  <2> QED
    BY <2>1, HeadFacts
<1>2. [c EXCEPT !.queue = Tail(c.queue), !.needToStart = c.needToStart,
                !.delayTimer = FALSE] \in Sound
  BY <1>0, <1>1, HeadFacts, QueueSound
<1>3. RemoveActiveOperation(c) =
          [c EXCEPT !.queue = Tail(c.queue), !.needToStart = c.needToStart,
                    !.delayTimer = FALSE]
  BY <1>0 DEF RemoveActiveOperation, Controllers
<1> QED
  BY <1>2, <1>3

\* CompleteCurrentAndDoNextOperation keeps the types.
LEMMA CompleteSound ==
    ASSUME NEW run, SoundRun(run), NEW c \in Sound, NEW type \in OperationTypes,
           NEW user
    PROVE  CompleteCurrentAndDoNextOperation(run, c, type, user) \in Sound
<1>1. ASSUME IsSameOperation(c, type, user) PROVE c.queue # << >>
  BY <1>1 DEF IsSameOperation, TypeOfCurrentOperation, OperationTypes
<1>2. IsSameOperation(c, type, user) => RemoveActiveOperation(c) \in Sound
  BY <1>1, RemoveActiveSound
<1> QED
  BY <1>2 DEF SoundRun, CompleteCurrentAndDoNextOperation

\* SendClosed keeps the types.
LEMMA SendClosedSound ==
    ASSUME NEW run, SoundRun(run), NEW c \in Sound
    PROVE  SendClosed(run, c) \in Sound
<1>1. Plain(Op("DESTROY_CONTROLLER", NoUser))
  BY PlainOps DEF OperationTypes, UserOperationTypes
<1>2. [c EXCEPT !.life = IF c.life = "OPEN" THEN "CLOSED" ELSE c.life]
         \in Sound
  <2>1. c.life \in {"OPEN", "CLOSED", "ABORTED", "DESTROYED"}
    BY DEF Sound, Controllers
  <2> QED
    BY <2>1, LifeSound
<1> QED
  BY <1>1, <1>2, PutStandAloneSound DEF SendClosed

\* The final-sipfrag timer keeps the types.
LEMMA TimerOfSipfragSound ==
    ASSUME NEW c \in Sound, NEW ended \in BOOLEAN
    PROVE  /\ StopFinalSipfragWaitTimer(c) \in Sound
           /\ CheckNStartFinalSipfragWaitTimer(c, ended) \in Sound
<1>0. c \in Controllers /\ c.needToStart \in BOOLEAN
      /\ c.sipfragTimer \in BOOLEAN /\ c.oneToOneEnded \in BOOLEAN
  BY Fields
<1>1. StopFinalSipfragWaitTimer(c) =
         [c EXCEPT !.sipfragTimer = FALSE, !.oneToOneEnded = FALSE,
                   !.needToStart = c.needToStart]
  BY <1>0 DEF StopFinalSipfragWaitTimer, Controllers
<1> DEFINE o == c.oneToOneEnded \/ ended
           s == c.sipfragTimer \/ o
<1>2. o \in BOOLEAN /\ s \in BOOLEAN
  OBVIOUS
<1>3. CheckNStartFinalSipfragWaitTimer(c, ended) =
         [c EXCEPT !.oneToOneEnded = o, !.sipfragTimer = s]
  BY DEF CheckNStartFinalSipfragWaitTimer
<1> HIDE DEF o, s
<1>4. [c EXCEPT !.oneToOneEnded = o, !.sipfragTimer = s] =
         [c EXCEPT !.sipfragTimer = s, !.oneToOneEnded = o,
                   !.needToStart = c.needToStart]
  BY <1>0 DEF Controllers
<1>5. StopFinalSipfragWaitTimer(c) \in Sound
  BY <1>0, <1>1, TimersSound
<1>6. [c EXCEPT !.sipfragTimer = s, !.oneToOneEnded = o,
                !.needToStart = c.needToStart] \in Sound
  BY <1>0, <1>2, TimersSound
<1> QED
  BY <1>3, <1>4, <1>5, <1>6

\* NotifyUsersInfo keeps the types.
LEMMA NotifyUsersInfoSound ==
    ASSUME NEW c \in Sound
    PROVE  NotifyUsersInfo(c) \in Sound
<1> DEFINE gone == c.list \ Remaining(c)
           left == RemoveUsers(c, gone)
           known == left.known \ {c.users[p].call : p \in gone}
<1>1. left \in Sound
  BY RemoveUsersSound
<1>2. /\ left \in Controllers /\ left.lost \in BOOLEAN
      /\ left.calls \in [Calls -> {"ESTABLISHED", "TERMINATING"}]
      /\ left.known \in SUBSET Calls
  BY <1>1, Fields
<1> HIDE DEF left
<1>3. known \in SUBSET Calls
  BY <1>2
<1>4. NotifyUsersInfo(c) = [left EXCEPT !.known = known]
  BY DEF NotifyUsersInfo, left
<1> HIDE DEF known
<1>5. [left EXCEPT !.known = known] =
         [left EXCEPT !.lost = left.lost, !.calls = left.calls,
                      !.known = known]
  BY <1>2 DEF Controllers
<1>6. [left EXCEPT !.lost = left.lost, !.calls = left.calls,
                   !.known = known] \in Sound
  BY <1>1, <1>2, <1>3, CallSound
<1> QED
  BY <1>4, <1>5, <1>6

\* A merge that is given up keeps the types.
LEMMA GiveUpMergeSound ==
    ASSUME NEW c \in Sound
    PROVE  GiveUpMerge(c) \in Sound
BY AnswerSound, ClearQueueSound DEF GiveUpMerge, NotifyMergeResult

\* The answer to a join or a drop keeps the types.
LEMMA NotifyJoinOrDropResultSound ==
    ASSUME NEW c \in Sound
    PROVE  NotifyJoinOrDropResult(c) \in Sound
BY AnswerSound, NotifyUsersInfoSound DEF NotifyJoinOrDropResult

\* The use of a participant, deleted or not, keeps the types.
LEMMA UsesUserSound ==
    ASSUME NEW c \in Sound, NEW p
    PROVE  UsesUser(c, p) \in Sound
BY LifeSound DEF UsesUser

\* The participant of the operation in progress.
LEMMA HeadUser ==
    ASSUME NEW c \in Sound,
           TypeOfCurrentOperation(c) \in UserOperationTypes
    PROVE  /\ c.queue # << >> /\ Head(c.queue).user \in Participants
           /\ Head(c.queue).user <= c.added
           /\ Head(c.queue).type = TypeOfCurrentOperation(c)
<1>1. c.queue # << >>
  BY DEF TypeOfCurrentOperation, UserOperationTypes
<1>2. Head(c.queue).type \in UserOperationTypes
      /\ Head(c.queue).type = TypeOfCurrentOperation(c)
  BY <1>1 DEF TypeOfCurrentOperation
<1>3. Head(c.queue).user \in Participants
  BY <1>1, <1>2, HeadFacts DEF Operation
<1> QED
  BY <1>1, <1>2, <1>3, HeadFacts

\* MergeController::Recover keeps the types.
LEMMA RecoverSound ==
    ASSUME NEW run, SoundRun(run), NEW c \in Sound
    PROVE  Recover(run, c) \in Sound
<1>1. ASSUME TypeOfCurrentOperation(c) = "REFER_INVITE"
      PROVE  RecoverOnReferring(run, c) \in Sound
  <2> DEFINE p == Head(c.queue).user
             d == SetStatus(c, p, "DISCONNECTED")
  <2>1. p \in Participants
    BY <1>1, HeadUser DEF UserOperationTypes
  <2>2. d \in Sound
    BY <2>1, SetStatusSound DEF Status
  <2> HIDE DEF p, d
  <2>3. "REFER_INVITE" \in OperationTypes
    BY DEF OperationTypes
  <2>4. CompleteCurrentAndDoNextOperation(run, c, "REFER_INVITE", p) \in Sound
    BY <2>3, CompleteSound
  <2>5. CompleteCurrentAndDoNextOperation(run, d, "REFER_INVITE", p) \in Sound
    BY <2>2, <2>3, CompleteSound
  <2>6. [GiveUpMerge(c) EXCEPT !.state = "IDLE"] \in Sound
    BY GiveUpMergeSound, StateSound DEF ControllerStates
  <2>7. UsesUser(c, p) \in Sound
    BY UsesUserSound
  <2> QED
    BY <2>4, <2>5, <2>6, <2>7 DEF RecoverOnReferring, p, d
<1>2. GiveUpMerge(c) \in Sound /\ [c EXCEPT !.life = "ABORTED"] \in Sound
  BY GiveUpMergeSound, LifeSound
<1> QED
  BY <1>1, <1>2 DEF Recover

\* A participant of a copied list leaves with its call.
LEMMA UpdateUserStateSound ==
    ASSUME NEW run, SoundRun(run), NEW c \in Sound, NEW call
    PROVE  UpdateUserStateByCallTerminated(run, c, call) \in Sound
<1> DEFINE gone == {p \in c.list : c.users[p].call = call /\ call \in c.known}
           one == CHOOSE p \in gone : TRUE
           told == IF gone = {} THEN c
                   ELSE NotifyUsersInfo(SetStatus(c, one, "DISCONNECTED"))
<1>1. gone # {} => one \in Participants
  BY Fields
<1> HIDE DEF one
<1>2. told \in Sound
  BY <1>1, SetStatusSound, NotifyUsersInfoSound DEF Status
<1>3. UpdateUserStateByCallTerminated(run, c, call) =
        IF Remaining(told) = {}
        THEN PutStandAlone(run, told, Op("TERMINATE_CONFERENCE", NoUser))
        ELSE told
  BY DEF UpdateUserStateByCallTerminated, one
<1> HIDE DEF told
<1>4. Plain(Op("TERMINATE_CONFERENCE", NoUser))
  BY PlainOps DEF OperationTypes, UserOperationTypes
<1> QED
  BY <1>2, <1>3, <1>4, PutStandAloneSound

\* OnIndividualCallTerminated keeps the types.
LEMMA OnIndividualCallTerminatedSound ==
    ASSUME NEW run, SoundRun(run), NEW c \in Sound, NEW call
    PROVE  OnIndividualCallTerminated(run, c, call) \in Sound
<1> DEFINE timed == CheckNStartFinalSipfragWaitTimer(c, TRUE)
           done == CompleteCurrentAndDoNextOperation(
                       run, timed, "TERMINATE_1TO1_CALL", NoUser)
<1>1. timed \in Sound
  BY TimerOfSipfragSound
<1> HIDE DEF timed
<1>2. Recover(run, timed) \in Sound
  BY <1>1, RecoverSound
<1>3. done \in Sound
  BY <1>1, CompleteSound DEF OperationTypes
<1> HIDE DEF done
<1> DEFINE handled ==
            CASE TypeOfCurrentOperation(c) # "TERMINATE_1TO1_CALL" -> timed
              [] /\ TypeOfCurrentOperation(c) = "TERMINATE_1TO1_CALL"
                 /\ c.users[Head(c.queue).user].call = call
                 /\ call \in c.known -> done
              [] OTHER -> Recover(run, timed)
<1>4. handled \in Sound
  BY <1>1, <1>2, <1>3
<1>5. OnIndividualCallTerminated(run, c, call) =
        IF handled.subscription = NoSubscription
           /\ c.config.referType = "COPYCONTROL"
        THEN UpdateUserStateByCallTerminated(run, handled, call)
        ELSE handled
  BY DEF OnIndividualCallTerminated, timed, done
<1> HIDE DEF handled
<1> QED
  BY <1>4, <1>5, UpdateUserStateSound

\* GetUsersOfCurrentOperation keeps the types.
LEMMA ReadsCurrentUserSound ==
    ASSUME NEW c \in Sound
    PROVE  ReadsCurrentUser(c) \in Sound
BY UsesUserSound DEF ReadsCurrentUser

\* The end of a call keeps the types.
LEMMA CallTerminatedSound ==
    ASSUME NEW run, SoundRun(run), NEW c \in Sound, NEW call \in Calls
    PROVE  CallTerminated(run, c, call) \in Sound
<1> DEFINE d == ReadsCurrentUser(c)
           calls == [d.calls EXCEPT ![call] = "TERMINATING"]
           known == IF IsConferenceParticipant(c, call)
                    THEN d.known ELSE d.known \ {call}
           e == [d EXCEPT !.calls = calls, !.known = known]
<1>1. d \in Sound
  BY ReadsCurrentUserSound
<1>2. /\ d \in Controllers /\ d.lost \in BOOLEAN
      /\ d.calls \in [Calls -> {"ESTABLISHED", "TERMINATING"}]
      /\ d.known \in SUBSET Calls
  BY <1>1, Fields
<1>3. CallTerminated(run, c, call) = OnIndividualCallTerminated(run, e, call)
  BY DEF CallTerminated
<1> HIDE DEF d
<1>4. calls \in [Calls -> {"ESTABLISHED", "TERMINATING"}]
      /\ known \in SUBSET Calls
  BY <1>2
<1> HIDE DEF calls, known
<1>5. e = [d EXCEPT !.lost = d.lost, !.calls = calls, !.known = known]
  BY <1>2 DEF Controllers
<1>6. [d EXCEPT !.lost = d.lost, !.calls = calls, !.known = known] \in Sound
  BY <1>1, <1>2, <1>4, CallSound
<1> HIDE DEF e
<1> QED
  BY <1>3, <1>5, <1>6, OnIndividualCallTerminatedSound

\* The conference call may change its state.
LEMMA ConferenceSound ==
    ASSUME NEW c \in Sound, NEW known \in SUBSET Calls,
           NEW k \in {"IDLE", "OUTGOING", "ESTABLISHED", "TERMINATING"}
    PROVE  [c EXCEPT !.conference = k, !.known = known] \in Sound
<1> DEFINE d == [c EXCEPT !.conference = k, !.known = known]
<1>0. c \in Controllers
  BY Fields
<1>1. d \in Controllers
  BY <1>0 DEF Controllers
<1>2. /\ d.queue = c.queue /\ d.references = c.references
      /\ d.list = c.list /\ d.added = c.added
  BY <1>0 DEF Controllers
<1> QED
  BY <1>1, <1>2, Renamed

\* The end of the conference call keeps the types.
LEMMA ConferenceTerminatedSound ==
    ASSUME NEW run, SoundRun(run), NEW c \in Sound
    PROVE  ConferenceTerminated(run, c) \in Sound
<1> DEFINE d == ReadsCurrentUser(c)
           known == {call \in d.known : ~IsConferenceParticipant(c, call)}
           ended == [d EXCEPT !.conference = "TERMINATING", !.known = known]
           recovered == Recover(run, ended)
           leave == [Op("UNSUBSCRIBE", NoUser) EXCEPT !.delayed = TRUE]
           last == IF recovered.subscription.state = "ACTIVE"
                   THEN PutStandAlone(run, recovered, leave)
                   ELSE recovered
<1>1. d \in Sound /\ d.known \in SUBSET Calls
  BY ReadsCurrentUserSound, Fields
<1> HIDE DEF d
<1>2. known \in SUBSET Calls
  BY <1>1
<1> HIDE DEF known
<1>3. ended \in Sound
  BY <1>1, <1>2, ConferenceSound
<1> HIDE DEF ended
<1>4. recovered \in Sound
  BY <1>3, RecoverSound
<1> HIDE DEF recovered
<1>5. Plain(leave)
  BY PlainOps DEF OperationTypes, UserOperationTypes
<1> HIDE DEF leave
<1>6. last \in Sound
  BY <1>4, <1>5, PutStandAloneSound
<1>7. ConferenceTerminated(run, c) = SendClosed(run, last)
  BY DEF ConferenceTerminated, recovered, ended, known, d, leave
<1> HIDE DEF last
<1> QED
  BY <1>6, <1>7, SendClosedSound

\* StartConferenceCall keeps the types.
LEMMA StartConferenceCallSound ==
    ASSUME NEW run, SoundRun(run), NEW c \in Sound
    PROVE  StartConferenceCall(run, c) \in Sound
<1>1. [c EXCEPT !.conference = "OUTGOING"] \in Sound
  <2>1. c \in Controllers /\ c.known \in SUBSET Calls
    BY Fields
  <2>2. [c EXCEPT !.conference = "OUTGOING", !.known = c.known] \in Sound
    BY <2>1, ConferenceSound
  <2>3. [c EXCEPT !.conference = "OUTGOING", !.known = c.known] =
           [c EXCEPT !.conference = "OUTGOING"]
    BY <2>1 DEF Controllers
  <2> QED
    BY <2>2, <2>3
<1>2. ConferenceTerminated(run, c) \in Sound
  BY ConferenceTerminatedSound
<1> QED
  BY <1>1, <1>2 DEF StartConferenceCall

\* SUBSCRIBE and UNSUBSCRIBE keep the types.
LEMMA SubscriptionOperationsSound ==
    ASSUME NEW c \in Sound
    PROVE  /\ SubscribeConference(c) \in Sound
           /\ StopSubscription(c) \in Sound
<1>0. /\ c.subscription \in Subscription \cup {NoSubscription}
      /\ c \in Controllers
  BY Fields
<1>1. SubscribeConference(c) \in Sound
  <2> DEFINE s == [state |-> "IDLE", interface |-> TRUE, waiting |-> FALSE,
                   dialog |-> IF c.config.subscribe = "OUT_OF_DIALOG" THEN "OUT"
                              ELSE "IN",
                   resubs |-> 0, sent |-> 0]
             t == SendSubscribe(s, "Subscribe" \in c.refused)
  <2>1. t \in Subscription
    BY DEF SendSubscribe, Subscription
  <2>2. SubscribeConference(c) =
           IF c.subscription # NoSubscription THEN c
           ELSE [c EXCEPT !.subscription = t]
    BY DEF SubscribeConference
  <2> HIDE DEF t
  <2> QED
    BY <2>1, <2>2, SubscriptionSound
<1>2. StopSubscription(c) \in Sound
  <2> DEFINE s == [c.subscription EXCEPT
                      !.state = "UNSUBSCRIBING",
                      !.waiting = "Unsubscribe" \notin c.refused]
  <2>1. ASSUME c.subscription.state \in {"SUBSCRIBING", "ACTIVE"}
        PROVE  /\ StopSubscription(c) = [c EXCEPT !.subscription = s]
               /\ s \in Subscription
    <3>1. c.subscription \in Subscription
      BY <1>0, <2>1 DEF NoSubscription
    <3>2. StopSubscription(c) =
            [c EXCEPT !.subscription.state = "UNSUBSCRIBING",
                      !.subscription.waiting = "Unsubscribe" \notin c.refused]
      BY <2>1 DEF StopSubscription
    <3>3. ("Unsubscribe" \notin c.refused) \in BOOLEAN
      OBVIOUS
    <3> QED
      BY <1>0, <3>1, <3>2, <3>3 DEF Controllers, Subscription
  <2> HIDE DEF s
  <2>2. CASE c.subscription.state \in {"SUBSCRIBING", "ACTIVE"}
    BY <2>1, <2>2, SubscriptionSound
  <2>3. CASE c.subscription.state \notin {"SUBSCRIBING", "ACTIVE"}
    BY <2>3 DEF StopSubscription
  <2> QED
    BY <2>2, <2>3
<1> QED
  BY <1>1, <1>2

-----------------------------------------------------------------------------
(* References.                                                             *)

\* There is always a name that is not in use: one of the first n + 1 numbers
\* is not among n names.
LEMMA FreshReferenceFacts ==
    ASSUME NEW c \in Sound
    PROVE  /\ FreshReference(c) \in ReferenceIds
           /\ \A r \in c.references : r.id # FreshReference(c)
<1> DEFINE ids == {r.id : r \in c.references}
           named == {c.users[p].reference : p \in c.list}
           used == UsedReferences(c)
           f == [r \in c.references |-> r.id]
           g == [p \in c.list |-> c.users[p].reference]
<1>1. IsFiniteSet(ids)
  <2>1. f \in Surjection(c.references, ids)
    BY DEF Surjection
  <2> HIDE DEF f, ids
  <2> QED
    BY <2>1, Fields, FS_Surjection
<1>2. IsFiniteSet(named)
  <2>1. MaxParticipants \in Int /\ 1 \in Int
    BY BoundsAssumption
  <2>2. IsFiniteSet(Participants)
    BY <2>1, FS_Interval DEF Participants
  <2>3. IsFiniteSet(c.list)
    BY <2>2, Fields, FS_Subset
  <2>4. g \in Surjection(c.list, named)
    BY DEF Surjection
  <2> HIDE DEF g, named
  <2> QED
    BY <2>3, <2>4, FS_Surjection
<1>3. used = ids \cup named
  BY DEF UsedReferences
<1>4. ids \subseteq used
  BY <1>3
<1> HIDE DEF ids, named, used
<1>5. IsFiniteSet(used)
  BY <1>1, <1>2, <1>3, FS_Union
<1> DEFINE n == Cardinality(used)
<1>6. n \in Nat
  BY <1>5, FS_CardinalityType
<1>7. \E id \in 1 .. n + 1 : id \notin used
  <2> SUFFICES ASSUME 1 .. n + 1 \subseteq used PROVE FALSE
    OBVIOUS
  <2>1. Cardinality(1 .. n + 1) <= n
    BY <1>5, FS_Subset
  <2>2. Cardinality(1 .. n + 1) = n + 1
    <3>1. 1 \in Int /\ n + 1 \in Int /\ ~(1 > n + 1) /\ (n + 1) - 1 + 1 = n + 1
      BY <1>6
    <3> HIDE DEF n
    <3> QED
      BY <3>1, FS_Interval
  <2> QED
    BY <1>6, <2>1, <2>2
<1>8. FreshReference(c) = CHOOSE id \in 1 .. n + 1 : id \notin used
  BY DEF FreshReference, used
<1> HIDE DEF n
<1>9. FreshReference(c) \in 1 .. n + 1 /\ FreshReference(c) \notin used
  BY <1>7, <1>8
<1> QED
  BY <1>4, <1>6, <1>9 DEF ReferenceIds, ids

\* What SendRefer makes of the controller, a step at a time.
Sent(c, p, type, id) ==
    [id |-> id, user |-> p, type |-> type, delivered |-> FALSE,
     heard |-> "NOTHING"]

Referred(c, d, p, type, sent, id) ==
    /\ d.queue = c.queue /\ d.state = c.state /\ d.joined = c.joined
    /\ d.needToStart = c.needToStart /\ d.list = c.list
    /\ d.lost = c.lost /\ d.command = c.command
    /\ d.unasked = c.unasked /\ d.delayTimer = c.delayTimer
    /\ d.references = IF sent
                      THEN c.references \cup {Sent(c, p, type, id)}
                      ELSE c.references
    /\ \A q \in Participants : d.users[q].status = c.users[q].status
    /\ \A q \in Participants : d.users[q].reference =
          IF q = p THEN IF sent THEN id ELSE NoReference
          ELSE c.users[q].reference

\* What a REFER that is sent, or refused, changes.
LEMMA SendReferFacts ==
    ASSUME NEW c \in Sound, NEW p \in Participants, p <= c.added,
           NEW type \in {"INVITE", "BYE"}, NEW sent \in BOOLEAN,
           NEW d, d = SendRefer(c, p, type, sent),
           NEW id, id = FreshReference(c)
    PROVE  d \in Sound /\ Referred(c, d, p, type, sent, id)
<1> DEFINE e == UsesUser(c, p)
           new == [id |-> id, user |-> p, type |-> type, delivered |-> FALSE,
                   heard |-> "NOTHING"]
           R == IF sent THEN c.references \cup {new} ELSE c.references
           u == [c.users EXCEPT
                    ![p].reference = IF sent THEN id ELSE NoReference]
<1>0. /\ c \in Controllers
      /\ c.users \in [Participants -> Participant]
      /\ c.references \in SUBSET Reference /\ IsFiniteSet(c.references)
  BY Fields
<1>1. /\ e \in Sound /\ e.users = c.users /\ e.references = c.references
      /\ e.queue = c.queue /\ e.state = c.state /\ e.joined = c.joined
      /\ e.needToStart = c.needToStart /\ e.list = c.list
      /\ e.lost = c.lost /\ e.command = c.command /\ e.unasked = c.unasked
      /\ e.delayTimer = c.delayTimer
      /\ e.added = c.added
  BY <1>0, UsesUserSound DEF UsesUser, Controllers
<1>2. id \in ReferenceIds
  BY FreshReferenceFacts
<1>3. new \in Reference /\ new = Sent(c, p, type, id)
  BY <1>2 DEF Reference, Sent
<1>4. R \in SUBSET Reference /\ IsFiniteSet(R)
  BY <1>0, <1>3, FS_AddElement
<1>5. u \in [Participants -> Participant]
  BY <1>0, <1>2 DEF Participant, NoReference
<1>6. d = [e EXCEPT !.references = R, !.users = u]
  <2>1. e \in Controllers
    BY <1>1, Fields
  <2>2. d = [e EXCEPT
        !.references = IF sent
                       THEN @ \cup {[id |-> id, user |-> p, type |-> type,
                                     delivered |-> FALSE, heard |-> "NOTHING"]}
                       ELSE @,
        !.users[p].reference = IF sent THEN id ELSE NoReference]
    BY DEF SendRefer
  <2>3. d = [e EXCEPT
        !.references = IF sent THEN e.references \cup {new} ELSE e.references,
        !.users = [e.users EXCEPT
                    ![p].reference = IF sent THEN id ELSE NoReference]]
    BY <2>1, <2>2 DEF Controllers
  <2> QED
    BY <1>1, <2>3
<1>7. /\ \A q \in Participants : u[q].status = c.users[q].status
      /\ \A q \in Participants : u[q].reference =
            IF q = p THEN IF sent THEN id ELSE NoReference
            ELSE c.users[q].reference
  BY <1>0 DEF Participant
<1>8. \A r \in R : r.user <= c.added
  BY <1>1, Fields DEF Named
<1> HIDE DEF e, u, R, new
<1>9. e \in Controllers /\ Named(e)
  BY <1>1, Fields
<1>10. d \in Controllers
  <2> DEFINE f == [e EXCEPT !.references = R]
             References == {S \in SUBSET Reference : IsFiniteSet(S)}
  <2>1. R \in References
    BY <1>4
  <2>2. f \in Controllers /\ d = [f EXCEPT !.users = u]
    <3>1. f \in Controllers
      BY <1>9, <2>1 DEF Controllers
    <3> QED
      BY <1>6, <1>9, <3>1 DEF Controllers
  <2> HIDE DEF f
  <2> QED
    BY <1>5, <2>2 DEF Controllers
<1>11. /\ d.users = u /\ d.references = R
       /\ d.queue = c.queue /\ d.state = c.state /\ d.joined = c.joined
       /\ d.needToStart = c.needToStart /\ d.list = c.list
       /\ d.lost = c.lost /\ d.command = c.command /\ d.unasked = c.unasked
       /\ d.delayTimer = c.delayTimer
       /\ d.added = c.added
  BY <1>1, <1>6, <1>9 DEF Controllers
<1>12. d \in Sound
  BY <1>1, <1>8, <1>9, <1>10, <1>11 DEF Sound, Named
<1>13. d.references = IF sent THEN c.references \cup {Sent(c, p, type, id)}
                      ELSE c.references
  BY <1>3, <1>11 DEF R
<1> QED
  BY <1>7, <1>11, <1>12, <1>13 DEF Referred

\* InviteParticipants keeps the types.
LEMMA InviteParticipantsSound ==
    ASSUME NEW run, SoundRun(run), NEW c \in Sound,
           NEW p \in Participants, p <= c.added
    PROVE  InviteParticipants(run, c, p) \in Sound
<1> DEFINE cleared == ClearOngoingReferences(c)
           ready == StopFinalSipfragWaitTimer(cleared)
           sent == c.conference = "ESTABLISHED" /\ "ReferInvite" \notin c.refused
           sending == SendRefer(ready, p, "INVITE", sent)
<1>1. cleared \in Sound
  BY DropReferencesSound DEF ClearOngoingReferences
<1>2. cleared.added = c.added
  BY Fields DEF ClearOngoingReferences, DropReferences, Controllers
<1> HIDE DEF cleared
<1>3. ready \in Sound
  BY <1>1, TimerOfSipfragSound
<1>4. ready.added = c.added
  BY <1>1, <1>2, Fields DEF StopFinalSipfragWaitTimer, Controllers
<1>5. sent \in BOOLEAN
  OBVIOUS
<1> HIDE DEF ready, sent
<1>6. sending \in Sound
  BY <1>3, <1>4, <1>5, SendReferFacts
<1>7. InviteParticipants(run, c, p) =
         IF sent THEN sending ELSE Recover(run, sending)
  BY DEF InviteParticipants, ready, cleared, sent
<1> HIDE DEF sending
<1> QED
  BY <1>6, <1>7, RecoverSound

\* RemoveParticipants keeps the types.
LEMMA RemoveParticipantsSound ==
    ASSUME NEW c \in Sound, NEW p \in Participants, p <= c.added
    PROVE  RemoveParticipants(c, p) \in Sound
<1> DEFINE sent == c.conference = "ESTABLISHED" /\ "ReferBye" \notin c.refused
<1>1. sent \in BOOLEAN
  OBVIOUS
<1>2. RemoveParticipants(c, p) = SendRefer(c, p, "BYE", sent)
  BY DEF RemoveParticipants
<1> HIDE DEF sent
<1> QED
  BY <1>1, <1>2, SendReferFacts

-----------------------------------------------------------------------------
(* The operations.                                                         *)

\* NotifyCmdResult keeps the types.
LEMMA NotifyCmdResultSound ==
    ASSUME NEW run, SoundRun(run), NEW c \in Sound
    PROVE  NotifyCmdResult(run, c) \in Sound
<1> DEFINE told == CASE c.state = "MERGING" -> NotifyMergeResult(c)
                     [] c.state \in {"JOINING", "DROPPING"} ->
                           NotifyJoinOrDropResult(c)
                     [] OTHER -> c
           done == CompleteCurrentAndDoNextOperation(
                       run, told, "NOTIFY_RESULT_TO_UI", NoUser)
<1>1. NotifyMergeResult(c) \in Sound
  BY AnswerSound DEF NotifyMergeResult
<1>2. NotifyJoinOrDropResult(c) \in Sound
  BY NotifyJoinOrDropResultSound
<1>3. told \in Sound
  BY <1>1, <1>2
<1>4. NotifyCmdResult(run, c) = [done EXCEPT !.state = "IDLE"]
  BY DEF NotifyCmdResult
<1> HIDE DEF told
<1>5. done \in Sound
  BY <1>3, CompleteSound DEF OperationTypes
<1> HIDE DEF done
<1> QED
  BY <1>4, <1>5, StateSound DEF ControllerStates

\* The hang-up of a call keeps the types.
LEMMA TerminateIndividualCallSound ==
    ASSUME NEW run, SoundRun(run), NEW c \in Sound, NEW p
    PROVE  TerminateIndividualCall(run, c, p) \in Sound
<1> DEFINE call == c.users[p].call
           lost == c.lost \/ ~c.joined
           d == [c EXCEPT !.lost = lost]
           hungUp == IF call \in c.known /\ c.calls[call] = "ESTABLISHED"
                     THEN CallTerminated(run, d, call) ELSE c
<1>0. /\ c \in Controllers /\ c.known \in SUBSET Calls
      /\ c.calls \in [Calls -> {"ESTABLISHED", "TERMINATING"}]
  BY Fields
<1>1. lost \in BOOLEAN
  OBVIOUS
<1>2. TerminateIndividualCall(run, c, p) =
         CompleteCurrentAndDoNextOperation(
            run, hungUp, "TERMINATE_1TO1_CALL", NoUser)
  BY DEF TerminateIndividualCall
<1> HIDE DEF lost, call
<1>3. d \in Sound
  <2>1. d = [c EXCEPT !.lost = lost, !.calls = c.calls, !.known = c.known]
    BY <1>0 DEF Controllers
  <2>2. [c EXCEPT !.lost = lost, !.calls = c.calls, !.known = c.known] \in Sound
    BY <1>0, <1>1, CallSound
  <2> QED
    BY <2>1, <2>2
<1> HIDE DEF d
<1>4. hungUp \in Sound
  BY <1>0, <1>3, CallTerminatedSound
<1> HIDE DEF hungUp
<1> QED
  BY <1>2, <1>4, CompleteSound DEF OperationTypes

\* TerminateConference keeps the types.
LEMMA TerminateConferenceSound ==
    ASSUME NEW run, SoundRun(run), NEW c \in Sound
    PROVE  TerminateConference(run, c) \in Sound
BY ConferenceTerminatedSound, CompleteSound
   DEF TerminateConference, OperationTypes

\* CheckUserEntityConnected keeps the types.
LEMMA CheckUserEntityConnectedSound ==
    ASSUME NEW run, SoundRun(run), NEW c \in Sound, NEW p
    PROVE  CheckUserEntityConnected(run, c, p) \in Sound
BY UsesUserSound, CompleteSound DEF CheckUserEntityConnected, OperationTypes

\* Every operation keeps the types when it is begun.
LEMMA BeginOperationSound ==
    ASSUME NEW run, SoundRun(run), NEW c \in Sound, c.queue # << >>
    PROVE  BeginOperation(run, c) \in Sound
<1> DEFINE op == Head(c.queue)
<1>1. op \in Operation /\ op.user <= c.added
  BY HeadFacts
<1>2. op.type \in UserOperationTypes => op.user \in Participants
  BY <1>1 DEF Operation
<1>3. op.type \in OperationTypes
  BY <1>1 DEF Operation, OperationTypes, UserOperationTypes
<1>4. /\ StartConferenceCall(run, c) \in Sound
      /\ SubscribeConference(c) \in Sound
      /\ StopSubscription(c) \in Sound
      /\ CheckUserEntityConnected(run, c, op.user) \in Sound
      /\ NotifyCmdResult(run, c) \in Sound
      /\ TerminateIndividualCall(run, c, op.user) \in Sound
      /\ TerminateConference(run, c) \in Sound
      /\ SendClosed(run, c) \in Sound
  BY StartConferenceCallSound, SubscriptionOperationsSound,
     CheckUserEntityConnectedSound, NotifyCmdResultSound,
     TerminateIndividualCallSound, TerminateConferenceSound, SendClosedSound
<1>5. CompleteCurrentAndDoNextOperation(
         run, c, "NOTIFY_RESULT_TO_MTCCALL", NoUser) \in Sound
  BY CompleteSound DEF OperationTypes
<1>6. op.type = "REFER_INVITE" => InviteParticipants(run, c, op.user) \in Sound
  BY <1>1, <1>2, InviteParticipantsSound DEF UserOperationTypes
<1>7. op.type = "REFER_BYE" => RemoveParticipants(c, op.user) \in Sound
  BY <1>1, <1>2, RemoveParticipantsSound DEF UserOperationTypes
<1> QED
  BY <1>3, <1>4, <1>5, <1>6, <1>7 DEF BeginOperation, OperationTypes

\* DoNextOperation keeps the types at each nesting.
LEMMA StartOperationSound ==
    ASSUME NEW run, SoundRun(run), NEW c \in Sound
    PROVE  StartOperation(run, c) \in Sound
<1>1. [c EXCEPT !.delayTimer = TRUE] \in Sound
  <2>1. /\ c \in Controllers /\ c.needToStart \in BOOLEAN /\ Named(c)
        /\ c.queue \in Seq(Operation)
    BY Fields
  <2>2. [c EXCEPT !.queue = c.queue, !.needToStart = c.needToStart,
                  !.delayTimer = TRUE] \in Sound
    BY <2>1, QueueSound DEF Named
  <2>3. [c EXCEPT !.queue = c.queue, !.needToStart = c.needToStart,
                  !.delayTimer = TRUE] = [c EXCEPT !.delayTimer = TRUE]
    BY <2>1 DEF Controllers
  <2> QED
    BY <2>2, <2>3
<1> QED
  BY <1>1, BeginOperationSound DEF StartOperation

-----------------------------------------------------------------------------
(* The nesting of operations: the function NextOperations describes exists *)
(* and is what its definition says.                                        *)

\* A set of numbers that is not empty has a first.
LEMMA FirstNumber ==
    ASSUME NEW T, T \subseteq Nat, T # {}
    PROVE  \E n \in T : \A m \in T : n <= m
<1>1. PICK n \in T : \A m \in T : ~ (<<m, n>> \in OpToRel(<, Nat))
  BY NatLessThanWellFounded, WFMin
<1>2. \A m \in T : ~ (m < n)
  BY <1>1 DEF OpToRel
<1> QED
  BY <1>2, SMT

Nested(f, i) ==
    [c \in Controllers |->
        IF i = 0 THEN [c EXCEPT !.life = "ABORTED"]
        ELSE StartOperation(f[i - 1], c)]

IsNesting(f, n) == f = [i \in 0 .. n |-> Nested(f, i)]

\* A nesting depends on the one below it alone.
LEMMA NestedCongruence ==
    ASSUME NEW f, NEW g, NEW i, i # 0 => f[i - 1] = g[i - 1]
    PROVE  Nested(f, i) = Nested(g, i)
BY DEF Nested

\* The nestings up to n can be written down.
LEMMA NestingExists ==
    ASSUME NEW n \in Nat
    PROVE  \E f : IsNesting(f, n)
<1> DEFINE T == {m \in Nat : ~ \E f : IsNesting(f, m)}
<1>1. SUFFICES ASSUME T # {} PROVE FALSE
  OBVIOUS
<1>2. T \subseteq Nat
  OBVIOUS
<1>3. PICK m \in T : \A j \in T : m <= j
  BY <1>1, <1>2, FirstNumber
<1>4. m \in Nat /\ ~ \E f : IsNesting(f, m)
  BY <1>3
<1>5. m # 0
  <2> SUFFICES ASSUME m = 0 PROVE FALSE
    OBVIOUS
  <2> DEFINE f == [i \in 0 .. 0 |-> Nested(<< >>, 0)]
  <2>1. \A i \in 0 .. 0 : i = 0
    BY SMT
  <2>2. Nested(f, 0) = Nested(<< >>, 0)
    BY DEF Nested
  <2>3. f = [i \in 0 .. 0 |-> Nested(f, i)]
    BY <2>1, <2>2
  <2> QED
    BY <1>4, <2>3 DEF IsNesting
<1>6. m - 1 \in Nat /\ m - 1 \notin T
  BY <1>3, <1>4, <1>5, SMT
<1>7. PICK k : IsNesting(k, m - 1)
  BY <1>6
<1> HIDE DEF T
<1> DEFINE last == Nested(k, m)
           h == [i \in 0 .. m |-> IF i = m THEN last ELSE k[i]]
<1>8. \A i \in 0 .. m - 1 : k[i] = Nested(k, i)
  <2>1. k = [i \in 0 .. m - 1 |-> Nested(k, i)]
    BY <1>7 DEF IsNesting
  <2> HIDE DEF Nested
  <2> QED
    BY <2>1
<1>9. ASSUME NEW i \in 0 .. m PROVE h[i] = Nested(h, i)
  <2>1. i # 0 => h[i - 1] = k[i - 1]
    BY <1>4, SMT
  <2>2. Nested(h, i) = Nested(k, i)
    BY <2>1, NestedCongruence
  <2>3. CASE i = m
    BY <2>2, <2>3
  <2>4. CASE i # m
    <3>1. i \in 0 .. m - 1
      BY <1>4, <2>4, SMT
    <3> QED
      BY <1>8, <2>2, <2>4, <3>1
  <2> QED
    BY <2>3, <2>4
<1>10. h = [i \in 0 .. m |-> h[i]]
  OBVIOUS
<1> HIDE DEF h
<1>11. h = [i \in 0 .. m |-> Nested(h, i)]
  BY <1>9, <1>10
<1> QED
  BY <1>4, <1>11 DEF IsNesting

\* Such a list is made of nestings at each place.
LEMMA NestingValue ==
    ASSUME NEW f, NEW n \in Nat, IsNesting(f, n), NEW i \in 0 .. n
    PROVE  f[i] = Nested(f, i)
<1>1. f = [j \in 0 .. n |-> Nested(f, j)]
  BY DEF IsNesting
<1> QED
  BY <1>1

\* There is one such list.
LEMMA NestingUnique ==
    ASSUME NEW n \in Nat, NEW m \in Nat, NEW f, NEW g,
           IsNesting(f, n), IsNesting(g, m), NEW i \in Nat, i <= n, i <= m
    PROVE  f[i] = g[i]
<1> DEFINE T == {j \in Nat : j <= n /\ j <= m /\ f[j] # g[j]}
<1>1. SUFFICES ASSUME T # {} PROVE FALSE
  OBVIOUS
<1>2. T \subseteq Nat
  OBVIOUS
<1>3. PICK j \in T : \A l \in T : j <= l
  BY <1>1, <1>2, FirstNumber
<1>4. j \in Nat /\ j <= n /\ j <= m /\ f[j] # g[j]
  BY <1>3
<1>5. j # 0 => f[j - 1] = g[j - 1]
  <2> SUFFICES ASSUME j # 0, f[j - 1] # g[j - 1] PROVE FALSE
    OBVIOUS
  <2>1. j - 1 \in Nat /\ j - 1 <= n /\ j - 1 <= m /\ ~(j <= j - 1)
    BY <1>4, SMT
  <2>2. j - 1 \in T
    BY <2>1
  <2> QED
    BY <1>3, <2>1, <2>2
<1>6. Nested(f, j) = Nested(g, j)
  BY <1>5, NestedCongruence
<1>7. j \in 0 .. n /\ j \in 0 .. m
  BY <1>4, SMT
<1>8. f[j] = Nested(f, j) /\ g[j] = Nested(g, j)
  BY <1>7, NestingValue
<1> QED
  BY <1>4, <1>6, <1>8

\* NextOperations is what its definition says.
LEMMA NextOperationsDef ==
    ASSUME NEW n \in Nat
    PROVE  NextOperations[n] = Nested(NextOperations, n)
<1> DEFINE pick(m) == CHOOSE f : IsNesting(f, m)
           F == [m \in Nat |-> pick(m)[m]]
<1>1. \A m \in Nat : IsNesting(pick(m), m)
  BY NestingExists
<1> HIDE DEF pick
<1>2. ASSUME NEW m \in Nat PROVE F[m] = Nested(F, m)
  <2>1. m \in 0 .. m
    BY SMT
  <2>2. pick(m)[m] = Nested(pick(m), m)
    BY <1>1, <2>1, NestingValue
  <2>3. ASSUME m # 0 PROVE pick(m)[m - 1] = F[m - 1]
    <3>1. m - 1 \in Nat /\ m - 1 <= m /\ m - 1 <= m - 1
      BY <2>3, SMT
    <3>2. pick(m)[m - 1] = pick(m - 1)[m - 1]
      BY <1>1, <3>1, NestingUnique
    <3> QED
      BY <3>1, <3>2
  <2>4. Nested(pick(m), m) = Nested(F, m)
    BY <2>3, NestedCongruence
  <2> QED
    BY <2>2, <2>4
<1>3. F = [m \in Nat |-> F[m]]
  OBVIOUS
<1> HIDE DEF F
<1>4. F = [m \in Nat |-> Nested(F, m)]
  BY <1>2, <1>3
<1>5. NextOperations = CHOOSE N : N = [m \in Nat |-> Nested(N, m)]
  BY DEF NextOperations, Nested
<1>6. NextOperations = [m \in Nat |-> Nested(NextOperations, m)]
  BY <1>4, <1>5
<1> QED
  BY <1>6

\* The next operation of a controller, nested n deep.
LEMMA NextOperationsValue ==
    ASSUME NEW n \in Nat, NEW c \in Controllers
    PROVE  NextOperations[n][c] =
              IF n = 0 THEN [c EXCEPT !.life = "ABORTED"]
              ELSE StartOperation(NextOperations[n - 1], c)
BY NextOperationsDef DEF Nested

\* Operations keep the types however deep they nest.
LEMMA NextOperationsSound ==
    ASSUME NEW n \in Nat
    PROVE  SoundRun(NextOperations[n])
<1> DEFINE T == {m \in Nat : ~SoundRun(NextOperations[m])}
<1>1. SUFFICES ASSUME T # {} PROVE FALSE
  OBVIOUS
<1>2. T \subseteq Nat
  OBVIOUS
<1>3. PICK m \in T : \A l \in T : m <= l
  BY <1>1, <1>2, FirstNumber
<1>4. m \in Nat /\ ~SoundRun(NextOperations[m])
  BY <1>3
<1>5. m # 0 => SoundRun(NextOperations[m - 1])
  <2> SUFFICES ASSUME m # 0, ~SoundRun(NextOperations[m - 1]) PROVE FALSE
    OBVIOUS
  <2>1. m - 1 \in Nat /\ ~(m <= m - 1)
    BY <1>4, SMT
  <2> QED
    BY <1>3, <2>1
<1> HIDE DEF T
<1>6. PICK c \in Sound : NextOperations[m][c] \notin Sound
  BY <1>4 DEF SoundRun
<1>7. c \in Controllers
  BY Fields
<1>8. [c EXCEPT !.life = "ABORTED"] \in Sound
  BY LifeSound
<1>9. m # 0 => StartOperation(NextOperations[m - 1], c) \in Sound
  BY <1>5, StartOperationSound
<1> QED
  BY <1>4, <1>6, <1>7, <1>8, <1>9, NextOperationsValue

\* DoNextOperation keeps the types.
LEMMA DoNextOperationSound == SoundRun(DoNextOperation)
<1> SUFFICES ASSUME NEW c \in Sound PROVE DoNextOperation[c] \in Sound
  BY DEF SoundRun
<1>1. c \in Controllers /\ c.queue \in Seq(Operation)
  BY Fields
<1>2. Len(c.queue) \in Nat
  BY <1>1, LenProperties
<1>3. Nestings(c) \in Nat
  BY <1>2 DEF Nestings
<1>4. DoNextOperation[c] = NextOperations[Nestings(c)][c]
  BY <1>1 DEF DoNextOperation
<1> QED
  BY <1>3, <1>4, NextOperationsSound DEF SoundRun

-----------------------------------------------------------------------------
(* Commands.                                                               *)

\* Operations for participants that have been added.
Operations(c) ==
    {ops \in Seq(Operation) : \A i \in DOMAIN ops : ops[i].user <= c.added}

\* Operations after operations.
LEMMA ConcatOperations ==
    ASSUME NEW c, NEW a \in Operations(c), NEW b \in Operations(c)
    PROVE  a \o b \in Operations(c)
<1>1. /\ a \in Seq(Operation) /\ b \in Seq(Operation)
      /\ Len(a) \in Nat /\ DOMAIN a = 1 .. Len(a)
      /\ Len(b) \in Nat /\ DOMAIN b = 1 .. Len(b)
  BY LenProperties DEF Operations
<1>2. /\ a \o b \in Seq(Operation) /\ Len(a \o b) = Len(a) + Len(b)
      /\ \A i \in 1 .. Len(a) + Len(b) : (a \o b)[i] =
            IF i <= Len(a) THEN a[i] ELSE b[i - Len(a)]
  BY <1>1, ConcatProperties
<1>3. DOMAIN (a \o b) = 1 .. Len(a) + Len(b)
  BY <1>2, LenProperties
<1>4. \A i \in 1 .. Len(a) + Len(b) :
         IF i <= Len(a) THEN i \in DOMAIN a ELSE i - Len(a) \in DOMAIN b
  BY <1>1, SMT
<1>5. \A i \in DOMAIN (a \o b) : (a \o b)[i].user <= c.added
  BY <1>2, <1>3, <1>4 DEF Operations
<1> QED
  BY <1>2, <1>5 DEF Operations

\* One operation.
LEMMA SingleOperation ==
    ASSUME NEW c, NEW op \in Operation, op.user <= c.added
    PROVE  <<op>> \in Operations(c)
BY DEF Operations

\* No operation.
LEMMA NoOperation ==
    ASSUME NEW c
    PROVE  << >> \in Operations(c)
<1>1. << >> \in Seq(Operation) /\ \A i \in DOMAIN << >> : FALSE
  OBVIOUS
<1> QED
  BY <1>1 DEF Operations

\* One operation that names nobody.
LEMMA PlainOperation ==
    ASSUME NEW c \in Sound, NEW type \in OperationTypes \ UserOperationTypes
    PROVE  <<Op(type, NoUser)>> \in Operations(c)
<1>1. c.added \in Nat
  BY Fields
<1>2. Op(type, NoUser) \in Operation /\ Op(type, NoUser).user = 0
  BY PlainOps DEF Plain, NoUser
<1> QED
  BY <1>1, <1>2, SingleOperation

\* One operation that names a participant.
LEMMA UserOperation ==
    ASSUME NEW c, NEW type \in UserOperationTypes, NEW p \in Participants,
           p <= c.added
    PROVE  <<Op(type, p)>> \in Operations(c)
BY UserOps, SingleOperation

\* Two operations in a row.
LEMMA TwoOperations ==
    ASSUME NEW a \in Operation, NEW b \in Operation
    PROVE  <<a>> \o <<b>> = <<a, b>>
<1>1. /\ <<a>> \in Seq(Operation) /\ Len(<<a>>) = 1 /\ <<a>>[1] = a
      /\ <<b>> \in Seq(Operation) /\ Len(<<b>>) = 1 /\ <<b>>[1] = b
  OBVIOUS
<1>2. /\ <<a, b>> \in Seq(Operation) /\ Len(<<a, b>>) = 2
      /\ <<a, b>>[1] = a /\ <<a, b>>[2] = b
  OBVIOUS
<1> DEFINE x == <<a>>
           y == <<b>>
           z == <<a, b>>
<1> HIDE DEF x, y, z
<1>3. /\ x \o y \in Seq(Operation) /\ Len(x \o y) = 2
      /\ (x \o y)[1] = a /\ (x \o y)[2] = b
  <2>1. /\ x \o y \in Seq(Operation)
        /\ Len(x \o y) = Len(x) + Len(y)
        /\ \A i \in 1 .. Len(x) + Len(y) : (x \o y)[i] =
                     IF i <= Len(x) THEN x[i] ELSE y[i - Len(x)]
    BY <1>1, ConcatProperties DEF x, y
  <2> QED
    BY <1>1, <2>1 DEF x, y
<1>4. \A i \in 1 .. 2 : (x \o y)[i] = z[i]
  BY <1>2, <1>3, SMT DEF z
<1> QED
  BY <1>2, <1>3, <1>4, SeqEqual DEF x, y, z

\* The operations that invite a participant.
LEMMA InviteOperationsSound ==
    ASSUME NEW c, NEW e, NEW p \in Participants, p <= c.added
    PROVE  InviteOperations(e, p) \in Operations(c)
<1> DEFINE check == IF NotifyRequired(e) THEN <<Op("CHECK_CONNECTED", p)>>
                    ELSE << >>
           a == <<Op("REFER_INVITE", p)>>
           b == <<Op("TERMINATE_1TO1_CALL", p)>>
<1>1. check \in Operations(c)
  BY UserOperation, NoOperation DEF UserOperationTypes
<1>2. a \in Operations(c) /\ b \in Operations(c)
  BY UserOperation DEF UserOperationTypes
<1>3. a \o b = <<Op("REFER_INVITE", p), Op("TERMINATE_1TO1_CALL", p)>>
  <2>1. Op("REFER_INVITE", p) \in Operation
        /\ Op("TERMINATE_1TO1_CALL", p) \in Operation
    BY UserOps DEF UserOperationTypes
  <2> QED
    BY <2>1, TwoOperations DEF a, b
<1>4. InviteOperations(e, p) = (a \o b) \o check
  BY <1>3 DEF InviteOperations
<1> HIDE DEF a, b, check
<1> QED
  BY <1>1, <1>2, <1>4, ConcatOperations

\* The operation that subscribes, if it is wanted.
LEMMA SubscribeOperationSound ==
    ASSUME NEW c \in Sound, NEW e, NEW wanted
    PROVE  SubscribeOperation(e, wanted) \in Operations(c)
BY PlainOperation, NoOperation
   DEF SubscribeOperation, OperationTypes, UserOperationTypes

\* A set of operations is added and begun.
LEMMA PutSetSound ==
    ASSUME NEW run, SoundRun(run), NEW c \in Sound, NEW ops \in Operations(c)
    PROVE  SetAddingOperationSetCompleted(run, PutSet(c, ops)) \in Sound
<1> DEFINE q == c.queue \o ops
           need == c.needToStart \/ (c.queue = << >> /\ ops # << >>)
           put == PutSet(c, ops)
<1>0. /\ c \in Controllers /\ c.queue \in Operations(c)
      /\ c.delayTimer \in BOOLEAN
  BY Fields DEF Operations, Named
<1>1. q \in Operations(c)
  BY <1>0, ConcatOperations
<1>2. need \in BOOLEAN
  OBVIOUS
<1>3. put = [c EXCEPT !.queue = q, !.needToStart = need]
  BY DEF PutSet
<1> HIDE DEF q, need
<1>4. /\ put = [c EXCEPT !.queue = q, !.needToStart = need,
                         !.delayTimer = c.delayTimer]
      /\ [put EXCEPT !.needToStart = FALSE] =
              [c EXCEPT !.queue = q, !.needToStart = FALSE,
                        !.delayTimer = c.delayTimer]
  <2>1. c \in Controllers
    BY <1>0
  <2>2. put = [c EXCEPT !.queue = q, !.needToStart = need,
                        !.delayTimer = c.delayTimer]
    BY <1>3, <2>1 DEF Controllers
  <2>3. [put EXCEPT !.needToStart = FALSE] =
              [c EXCEPT !.queue = q, !.needToStart = FALSE,
                        !.delayTimer = c.delayTimer]
    BY <1>3, <2>1 DEF Controllers
  <2> QED
    BY <2>2, <2>3
<1>5. \A n \in BOOLEAN :
         [c EXCEPT !.queue = q, !.needToStart = n,
                   !.delayTimer = c.delayTimer] \in Sound
  BY <1>0, <1>1, QueueSound DEF Operations
<1> HIDE DEF put
<1>6. put \in Sound /\ [put EXCEPT !.needToStart = FALSE] \in Sound
  BY <1>2, <1>4, <1>5
<1>7. run[[put EXCEPT !.needToStart = FALSE]] \in Sound
  BY <1>6 DEF SoundRun
<1> QED
  BY <1>6, <1>7 DEF SetAddingOperationSetCompleted, put

\* A command is accepted.
LEMMA AcceptSound ==
    ASSUME NEW c \in Sound, NEW state \in ControllerStates,
           NEW command \in {"NONE", "MERGE", "JOIN", "DROP"}
    PROVE  /\ Accept(c, state, command) \in Sound
           /\ Accept(c, state, command).added = c.added
<1> DEFINE d == Accept(c, state, command)
<1>0. c \in Controllers /\ c.commands + 1 \in Nat
  BY Fields
<1>1. d \in Controllers
  BY <1>0 DEF Controllers, Accept
<1>2. /\ d.queue = c.queue /\ d.references = c.references
      /\ d.list = c.list /\ d.added = c.added
  BY <1>0 DEF Controllers, Accept
<1> QED
  BY <1>1, <1>2, Renamed

\* A command is turned down.
LEMMA TurnDownSound ==
    ASSUME NEW c \in Sound
    PROVE  TurnDown(c) \in Sound
<1> DEFINE d == TurnDown(c)
<1>0. c \in Controllers /\ c.commands + 1 \in Nat
  BY Fields
<1>1. d \in Controllers
  BY <1>0 DEF Controllers, TurnDown
<1>2. /\ d.queue = c.queue /\ d.references = c.references
      /\ d.list = c.list /\ d.added = c.added
  BY <1>0 DEF Controllers, TurnDown
<1> QED
  BY <1>1, <1>2, Renamed

\* StartMerge keeps the types.
LEMMA MergeFirstSound ==
    ASSUME NEW run, SoundRun(run), NEW c \in Sound,
           NEW first \in Calls, NEW second \in Calls,
           c.added + 2 <= MaxParticipants
    PROVE  MergeFirst(run, c, first, second) \in Sound
<1> DEFINE one == AddUser(c, first)
           added == AddUser(one, second)
           p == c.added + 1
           accepted == Accept(added, "MERGING", "MERGE")
           plain(type) == <<Op(type, NoUser)>>
           copied == <<Op("CREATE_CONFERENCE_CALL", NoUser),
                       Op("NOTIFY_RESULT_TO_UI", NoUser)>>
           referred == plain("CREATE_CONFERENCE_CALL")
                       \o SubscribeOperation(c, SubscriptionFirst(c))
                       \o InviteOperations(c, p) \o InviteOperations(c, p + 1)
                       \o plain("NOTIFY_RESULT_TO_UI")
                       \o SubscribeOperation(c, ~SubscriptionFirst(c))
                       \o plain("NOTIFY_RESULT_TO_MTCCALL")
           operations == IF c.config.referType = "COPYCONTROL"
                         THEN copied ELSE referred
<1>0. c.added \in Nat /\ MaxParticipants \in Nat
  BY Fields, BoundsAssumption
<1>1. c.added < MaxParticipants /\ c.added + 1 < MaxParticipants
  BY <1>0
<1>2. one \in Sound /\ one.added = c.added + 1 /\ p \in Participants
  BY <1>1, AddUserSound
<1>3. added \in Sound /\ added.added = p + 1 /\ p + 1 \in Participants
  BY <1>1, <1>2, AddUserSound
<1> HIDE DEF added
<1>4. accepted \in Sound /\ accepted.added = p + 1
  BY <1>3, AcceptSound DEF ControllerStates
<1> HIDE DEF accepted
<1>5. p <= accepted.added /\ p + 1 <= accepted.added
  BY <1>0, <1>4
<1>6. /\ plain("CREATE_CONFERENCE_CALL") \in Operations(accepted)
      /\ plain("NOTIFY_RESULT_TO_UI") \in Operations(accepted)
      /\ plain("NOTIFY_RESULT_TO_MTCCALL") \in Operations(accepted)
  BY <1>4, PlainOperation DEF OperationTypes, UserOperationTypes
<1>7. /\ InviteOperations(c, p) \in Operations(accepted)
      /\ InviteOperations(c, p + 1) \in Operations(accepted)
  BY <1>2, <1>3, <1>5, InviteOperationsSound
<1>8. /\ SubscribeOperation(c, SubscriptionFirst(c)) \in Operations(accepted)
      /\ SubscribeOperation(c, ~SubscriptionFirst(c)) \in Operations(accepted)
  BY <1>4, SubscribeOperationSound
<1>9. copied \in Operations(accepted)
  <2>1. copied = plain("CREATE_CONFERENCE_CALL") \o plain("NOTIFY_RESULT_TO_UI")
    <3>1. /\ Op("CREATE_CONFERENCE_CALL", NoUser) \in Operation
          /\ Op("NOTIFY_RESULT_TO_UI", NoUser) \in Operation
      BY PlainOps DEF Plain, OperationTypes, UserOperationTypes
    <3> QED
      BY <3>1
  <2> QED
    BY <1>6, <2>1, ConcatOperations
<1> HIDE DEF plain, copied, p
<1>10. referred \in Operations(accepted)
  BY <1>6, <1>7, <1>8, ConcatOperations
<1>11. operations \in Operations(accepted)
  BY <1>9, <1>10
<1>12. MergeFirst(run, c, first, second) =
          SetAddingOperationSetCompleted(run, PutSet(accepted, operations))
  BY DEF MergeFirst, accepted, added, p, plain, copied
<1> HIDE DEF operations
<1> QED
  BY <1>4, <1>11, <1>12, PutSetSound

\* An additional merge keeps the types.
LEMMA MergeAnotherSound ==
    ASSUME NEW run, SoundRun(run), NEW c \in Sound,
           NEW call \in Calls, c.added + 1 <= MaxParticipants
    PROVE  MergeAnother(run, c, call) \in Sound
<1> DEFINE added == AddUser(c, call)
           p == c.added + 1
           accepted == Accept(added, "MERGING", "MERGE")
           last == <<Op("NOTIFY_RESULT_TO_UI", NoUser),
                     Op("NOTIFY_RESULT_TO_MTCCALL", NoUser)>>
           operations == InviteOperations(c, p) \o last
<1>0. c.added \in Nat /\ MaxParticipants \in Nat
  BY Fields, BoundsAssumption
<1>1. c.added < MaxParticipants
  BY <1>0
<1>2. added \in Sound /\ added.added = p /\ p \in Participants
  BY <1>1, AddUserSound
<1> HIDE DEF added
<1>3. accepted \in Sound /\ accepted.added = p
  BY <1>2, AcceptSound DEF ControllerStates
<1> HIDE DEF accepted
<1>4. p <= accepted.added
  BY <1>0, <1>3
<1>5. /\ <<Op("NOTIFY_RESULT_TO_UI", NoUser)>> \in Operations(accepted)
      /\ <<Op("NOTIFY_RESULT_TO_MTCCALL", NoUser)>> \in Operations(accepted)
  BY <1>3, PlainOperation DEF OperationTypes, UserOperationTypes
<1>6. last = <<Op("NOTIFY_RESULT_TO_UI", NoUser)>>
             \o <<Op("NOTIFY_RESULT_TO_MTCCALL", NoUser)>>
  <2>1. /\ Op("NOTIFY_RESULT_TO_MTCCALL", NoUser) \in Operation
        /\ Op("NOTIFY_RESULT_TO_UI", NoUser) \in Operation
    BY PlainOps DEF Plain, OperationTypes, UserOperationTypes
  <2> QED
    BY <2>1
<1>7. last \in Operations(accepted)
  BY <1>5, <1>6, ConcatOperations
<1> HIDE DEF last
<1>8. InviteOperations(c, p) \in Operations(accepted)
  BY <1>2, <1>4, InviteOperationsSound
<1>9. operations \in Operations(accepted)
  BY <1>7, <1>8, ConcatOperations
<1>10. MergeAnother(run, c, call) =
          IF c.config.referType = "COPYCONTROL" THEN accepted
          ELSE SetAddingOperationSetCompleted(run, PutSet(accepted, operations))
  BY DEF MergeAnother, accepted, added, last
<1> HIDE DEF operations
<1> QED
  BY <1>3, <1>9, <1>10, PutSetSound

\* A join keeps the types.
LEMMA JoinSound ==
    ASSUME NEW run, SoundRun(run), NEW c \in Sound,
           c.added + 1 <= MaxParticipants
    PROVE  Join(run, c) \in Sound
<1> DEFINE added == AddUser(c, NoCall)
           p == c.added + 1
           accepted == Accept(added, "JOINING", "JOIN")
           refer == IF c.config.referType = "REFER_SINGLE"
                    THEN <<Op("REFER_INVITE", p)>> ELSE << >>
           notify == IF c.config.referSub THEN << >>
                     ELSE <<Op("NOTIFY_RESULT_TO_UI", NoUser)>>
           operations == refer \o notify
<1>0. c.added \in Nat /\ MaxParticipants \in Nat
  BY Fields, BoundsAssumption
<1>1. c.added < MaxParticipants
  BY <1>0
<1>2. added \in Sound /\ added.added = p /\ p \in Participants
  BY <1>1, AddUserSound
<1> HIDE DEF added
<1>3. accepted \in Sound /\ accepted.added = p
  BY <1>2, AcceptSound DEF ControllerStates
<1> HIDE DEF accepted
<1>4. p <= accepted.added
  BY <1>0, <1>3
<1>5. notify \in Operations(accepted)
  BY <1>3, PlainOperation, NoOperation DEF OperationTypes, UserOperationTypes
<1>6. refer \in Operations(accepted)
  BY <1>2, <1>4, UserOperation, NoOperation DEF UserOperationTypes
<1> HIDE DEF refer, notify
<1>7. operations \in Operations(accepted)
  BY <1>5, <1>6, ConcatOperations
<1>8. Join(run, c) =
          IF IsReadyToPerformCmd(c)
          THEN SetAddingOperationSetCompleted(run, PutSet(accepted, operations))
          ELSE NotifyUsersInfo(TurnDown(added))
  BY DEF Join, accepted, added, refer, notify
<1> HIDE DEF operations
<1> QED
  BY <1>2, <1>3, <1>7, <1>8, PutSetSound, TurnDownSound, NotifyUsersInfoSound

\* A drop keeps the types.
LEMMA DropSound ==
    ASSUME NEW run, SoundRun(run), NEW c \in Sound, NEW p \in c.list
    PROVE  Drop(run, c, p) \in Sound
<1> DEFINE accepted == Accept(c, "DROPPING", "DROP")
           operations == <<Op("REFER_BYE", p), Op("NOTIFY_RESULT_TO_UI", NoUser)>>
<1>0. p \in Participants /\ p <= c.added
  <2>1. p \in Participants /\ p \in 1 .. c.added /\ c.added \in Nat
    BY Fields DEF Named
  <2> QED
    BY <2>1
<1>1. accepted \in Sound /\ accepted.added = c.added
  BY AcceptSound DEF ControllerStates
<1> HIDE DEF accepted
<1>2. <<Op("NOTIFY_RESULT_TO_UI", NoUser)>> \in Operations(accepted)
  BY <1>1, PlainOperation DEF OperationTypes, UserOperationTypes
<1>3. <<Op("REFER_BYE", p)>> \in Operations(accepted)
  BY <1>0, <1>1, UserOperation DEF UserOperationTypes
<1>4. operations = <<Op("REFER_BYE", p)>> \o <<Op("NOTIFY_RESULT_TO_UI", NoUser)>>
  <2>1. /\ Op("REFER_BYE", p) \in Operation
        /\ Op("NOTIFY_RESULT_TO_UI", NoUser) \in Operation
    BY <1>0, UserOps, PlainOps DEF Plain, OperationTypes, UserOperationTypes
  <2> QED
    BY <2>1
<1>5. operations \in Operations(accepted)
  BY <1>2, <1>3, <1>4, ConcatOperations
<1>6. Drop(run, c, p) =
          IF IsReadyToPerformCmd(c)
          THEN SetAddingOperationSetCompleted(run, PutSet(accepted, operations))
          ELSE NotifyUsersInfo(TurnDown(c))
  BY DEF Drop, accepted
<1> HIDE DEF operations
<1> QED
  BY <1>1, <1>5, <1>6, PutSetSound, TurnDownSound, NotifyUsersInfoSound

-----------------------------------------------------------------------------
(* Calls, references, the subscription, timers.                            *)

\* The conference call is there.
LEMMA EstablishedSound ==
    ASSUME NEW run, SoundRun(run), NEW c \in Sound
    PROVE  CompleteCurrentAndDoNextOperation(
               run, [c EXCEPT !.conference = "ESTABLISHED"],
               "CREATE_CONFERENCE_CALL", NoUser) \in Sound
<1> DEFINE d == [c EXCEPT !.conference = "ESTABLISHED"]
<1>1. c \in Controllers /\ c.known \in SUBSET Calls
  BY Fields
<1>2. [c EXCEPT !.conference = "ESTABLISHED", !.known = c.known] \in Sound
  BY <1>1, ConferenceSound
<1>3. [c EXCEPT !.conference = "ESTABLISHED", !.known = c.known] = d
  BY <1>1 DEF Controllers
<1>4. d \in Sound
  BY <1>2, <1>3
<1> HIDE DEF d
<1>5. CompleteCurrentAndDoNextOperation(
         run, d, "CREATE_CONFERENCE_CALL", NoUser) \in Sound
  BY <1>4, CompleteSound DEF OperationTypes
<1> QED
  BY <1>5 DEF d

\* The participant of a reference, or nobody.
LEMMA UserOfReferenceFacts ==
    ASSUME NEW c, NEW r \in Reference
    PROVE  UserOfReference(c, r) \in Participants \cup {NoUser}
BY DEF UserOfReference, Reference

\* A reference that has been answered.
LEMMA BecomesFacts ==
    ASSUME NEW c \in Sound, NEW r \in c.references, NEW q \in Reference,
           q.user = r.user,
           NEW d, d = Becomes(c, r, q)
    PROVE  /\ d \in Sound
           /\ d.references = (c.references \ {r}) \cup {q}
           /\ d.queue = c.queue /\ d.state = c.state /\ d.joined = c.joined
           /\ d.needToStart = c.needToStart /\ d.list = c.list
           /\ d.lost = c.lost /\ d.command = c.command
           /\ d.unasked = c.unasked /\ d.users = c.users
           /\ d.added = c.added /\ d.delayTimer = c.delayTimer
<1> DEFINE R == (c.references \ {r}) \cup {q}
<1>0. c \in Controllers /\ c.references \in SUBSET Reference /\ Named(c)
      /\ IsFiniteSet(c.references)
  BY Fields
<1>1. IsFiniteSet(R)
  BY <1>0, FS_RemoveElement, FS_AddElement
<1>2. R \in SUBSET Reference
  BY <1>0
<1>3. \A t \in R : t.user <= c.added
  BY <1>0 DEF Named
<1>4. d = [c EXCEPT !.references = R]
  BY DEF Becomes
<1> HIDE DEF R
<1>5. d \in Controllers
  BY <1>0, <1>1, <1>2, <1>4 DEF Controllers
<1>6. /\ d.references = R
      /\ d.queue = c.queue /\ d.state = c.state /\ d.joined = c.joined
      /\ d.needToStart = c.needToStart /\ d.list = c.list
      /\ d.lost = c.lost /\ d.command = c.command
      /\ d.unasked = c.unasked /\ d.users = c.users /\ d.added = c.added
      /\ d.delayTimer = c.delayTimer
  BY <1>0, <1>4 DEF Controllers
<1>7. d \in Sound
  BY <1>0, <1>3, <1>5, <1>6 DEF Sound, Named
<1> QED
  BY <1>6, <1>7 DEF R

\* The answer to a REFER keeps the types.
LEMMA OnReferenceStartedSound ==
    ASSUME NEW run, SoundRun(run), NEW c \in Sound, NEW r \in Reference
    PROVE  OnReferenceStarted(run, c, r) \in Sound
<1> DEFINE user == UserOfReference(c, r)
           d == SetStatus(c, user, "DISCONNECTED")
           x == IF c.config.referSub THEN user ELSE NoUser
<1>1. user \in Participants \cup {NoUser}
  BY UserOfReferenceFacts
<1>2. d \in Sound
  BY <1>1, SetStatusSound DEF Status
<1>3. OnReferenceStarted(run, c, r) =
         CASE r.type = "BYE" ->
            CompleteCurrentAndDoNextOperation(run, d, "REFER_BYE", user)
      [] r.type = "INVITE" /\ c.state = "JOINING" ->
            CompleteCurrentAndDoNextOperation(run, c, "REFER_INVITE", x)
      [] OTHER -> c
  BY DEF OnReferenceStarted
<1> HIDE DEF user, d, x
<1>4. /\ CompleteCurrentAndDoNextOperation(run, d, "REFER_BYE", user) \in Sound
      /\ CompleteCurrentAndDoNextOperation(run, c, "REFER_INVITE", x) \in Sound
  BY <1>2, CompleteSound DEF OperationTypes
<1> QED
  BY <1>3, <1>4

\* The rejection of a REFER keeps the types.
LEMMA OnReferenceStartFailedSound ==
    ASSUME NEW run, SoundRun(run), NEW c \in Sound, NEW r \in Reference
    PROVE  OnReferenceStartFailed(run, c, r) \in Sound
<1> DEFINE stopped == StopFinalSipfragWaitTimer(c)
           cleared == ClearQueue(NotifyJoinOrDropResult(stopped))
           recovered == Recover(run, stopped)
           left == RemoveUsers(recovered, {UserOfReference(recovered, r)})
           handled == IF r.type = "BYE" THEN [cleared EXCEPT !.state = "IDLE"]
                      ELSE left
<1>1. stopped \in Sound
  BY TimerOfSipfragSound
<1>2. cleared \in Sound
  BY <1>1, NotifyJoinOrDropResultSound, ClearQueueSound
<1>3. [cleared EXCEPT !.state = "IDLE"] \in Sound
  BY <1>2, StateSound DEF ControllerStates
<1>4. left \in Sound
  BY <1>1, RecoverSound, RemoveUsersSound
<1>5. handled \in Sound
  BY <1>3, <1>4
<1>6. OnReferenceStartFailed(run, c, r) = DropReferences(handled, {r})
  BY DEF OnReferenceStartFailed
<1> HIDE DEF handled
<1> QED
  BY <1>5, <1>6, DropReferencesSound

\* Who has joined is recorded.
LEMMA JoinsFacts ==
    ASSUME NEW c \in Sound, NEW r, NEW code, NEW d, d = Joins(c, r, code)
    PROVE  /\ d \in Sound
           /\ d.queue = c.queue /\ d.state = c.state /\ d.command = c.command
           /\ d.needToStart = c.needToStart /\ d.lost = c.lost
           /\ d.unasked = c.unasked /\ d.delayTimer = c.delayTimer
           /\ d.references = c.references /\ d.list = c.list
           /\ d.users = c.users
           /\ c.joined => d.joined
           /\ r.type = "INVITE" /\ code \in FinalSuccess => d.joined
           /\ UserOfReference(d, r) = UserOfReference(c, r)
<1> DEFINE j == c.joined \/ (r.type = "INVITE" /\ code \in FinalSuccess)
<1>0. c \in Controllers /\ j \in BOOLEAN
  BY Fields
<1>1. d = [c EXCEPT !.joined = j]
  BY DEF Joins
<1>2. /\ c.joined => j
      /\ r.type = "INVITE" /\ code \in FinalSuccess => j
  OBVIOUS
<1> HIDE DEF j
<1>3. d \in Controllers
  BY <1>0, <1>1 DEF Controllers
<1>4. /\ d.queue = c.queue /\ d.state = c.state /\ d.command = c.command
      /\ d.needToStart = c.needToStart /\ d.lost = c.lost
      /\ d.unasked = c.unasked /\ d.delayTimer = c.delayTimer
      /\ d.references = c.references /\ d.list = c.list
      /\ d.users = c.users /\ d.added = c.added /\ d.joined = j
  BY <1>0, <1>1 DEF Controllers
<1>5. d \in Sound
  BY <1>3, <1>4, Renamed
<1>6. UserOfReference(d, r) = UserOfReference(c, r)
  BY <1>4 DEF UserOfReference, InList
<1> QED
  BY <1>2, <1>4, <1>5, <1>6

\* A notification for a REFER keeps the types.
LEMMA OnReferenceUpdatedSound ==
    ASSUME NEW run, SoundRun(run), NEW c \in Sound, NEW r \in Reference,
           NEW code, NEW terminated \in BOOLEAN
    PROVE  OnReferenceUpdated(run, c, r, code, terminated) \in Sound
<1> DEFINE user == UserOfReference(c, r)
           joins == Joins(c, r, code)
           updated == UpdateUserStatusByReferResult(joins, r, code)
           stopped == StopFinalSipfragWaitTimer(updated)
           handled ==
            CASE r.type = "BYE" ->
                    CompleteCurrentAndDoNextOperation(
                        run, updated, "REFER_BYE", user)
              [] r.type = "INVITE" /\ code \in FinalSuccess ->
                    CompleteCurrentAndDoNextOperation(
                        run, stopped, "REFER_INVITE", user)
              [] r.type = "INVITE" /\ code = "FAILURE" ->
                    Recover(run, stopped)
              [] r.type = "INVITE" /\ code \in Provisional ->
                    CheckNStartFinalSipfragWaitTimer(updated, FALSE)
              [] OTHER -> updated
<1>1. user \in Participants \cup {NoUser}
  BY UserOfReferenceFacts
<1>2. updated \in Sound
  <2>1. joins \in Sound /\ UserOfReference(joins, r) = user
    BY JoinsFacts
  <2> HIDE DEF user, joins
  <2>2. /\ SetStatus(joins, user, "CONNECTING") \in Sound
        /\ SetStatus(joins, user, "CONNECTED") \in Sound
        /\ SetStatus(joins, user, "DISCONNECTED") \in Sound
    BY <1>1, <2>1, SetStatusSound DEF Status
  <2> QED
    BY <2>1, <2>2 DEF UpdateUserStatusByReferResult
<1>3. OnReferenceUpdated(run, c, r, code, terminated) =
         IF terminated THEN DropReferences(handled, {r}) ELSE handled
  BY DEF OnReferenceUpdated
<1> HIDE DEF updated, user
<1>4. stopped \in Sound
      /\ CheckNStartFinalSipfragWaitTimer(updated, FALSE) \in Sound
  BY <1>2, TimerOfSipfragSound
<1> HIDE DEF stopped
<1>5. Recover(run, stopped) \in Sound
  BY <1>4, RecoverSound
<1>6. CompleteCurrentAndDoNextOperation(run, updated, "REFER_BYE", user) \in Sound
  BY <1>2, CompleteSound DEF OperationTypes
<1>7. CompleteCurrentAndDoNextOperation(run, stopped, "REFER_INVITE", user) \in Sound
  BY <1>4, CompleteSound DEF OperationTypes
<1>8. handled \in Sound
  BY <1>2, <1>4, <1>5, <1>6, <1>7
<1> HIDE DEF handled
<1> QED
  BY <1>3, <1>8, DropReferencesSound

\* What the handlers of the subscription set in it.
LEMMA SubscriptionFieldsSound ==
    ASSUME NEW c \in Sound, c.subscription # NoSubscription,
           NEW state \in {"IDLE", "SUBSCRIBING", "ACTIVE", "UNSUBSCRIBING"},
           NEW interface \in BOOLEAN, NEW waiting \in BOOLEAN,
           NEW d, d = [c EXCEPT !.subscription =
                          [@ EXCEPT !.state = state, !.interface = interface,
                                    !.waiting = waiting]]
    PROVE  d \in Sound /\ d.subscription # NoSubscription
<1> DEFINE s == [c.subscription EXCEPT !.state = state, !.interface = interface,
                                       !.waiting = waiting]
<1>1. c.subscription \in Subscription /\ c \in Controllers
  BY Fields
<1>2. s \in Subscription
  BY <1>1 DEF Subscription
<1>3. s # NoSubscription
  BY <1>1 DEF Subscription, NoSubscription
<1>4. d = [c EXCEPT !.subscription = s]
  BY <1>1 DEF Controllers
<1> HIDE DEF s
<1>5. [c EXCEPT !.subscription = s] \in Sound
  BY <1>2, SubscriptionSound
<1>6. d.subscription = s
  BY <1>1, <1>4 DEF Controllers
<1> QED
  BY <1>3, <1>4, <1>5, <1>6

\* What ends a SUBSCRIBE or UNSUBSCRIBE keeps the types.
LEMMA SubscriptionEndsSound ==
    ASSUME NEW run, SoundRun(run), NEW c \in Sound
    PROVE  /\ OnSubscriptionFailed(run, c) \in Sound
           /\ OnSubscriptionSucceeded(run, c) \in Sound
           /\ OnUnsubscribed(run, c) \in Sound
<1>1. /\ CompleteCurrentAndDoNextOperation(run, c, "SUBSCRIBE", NoUser) \in Sound
      /\ CompleteCurrentAndDoNextOperation(run, c, "UNSUBSCRIBE", NoUser) \in Sound
  BY CompleteSound DEF OperationTypes
<1>2. OnSubscriptionFailed(run, c) \in Sound
  BY <1>1, SubscriptionSound DEF OnSubscriptionFailed
<1> QED
  BY <1>1, <1>2 DEF OnSubscriptionSucceeded, OnUnsubscribed

\* The answer to a SUBSCRIBE keeps the types.
LEMMA StartedSound ==
    ASSUME NEW run, SoundRun(run), NEW c \in Sound,
           c.subscription # NoSubscription
    PROVE  Started(run, c) \in Sound
<1> DEFINE answered == [c EXCEPT !.subscription.waiting = FALSE]
           active == [answered EXCEPT !.subscription.state = "ACTIVE"]
           idle == [answered EXCEPT !.subscription.state = "IDLE"]
<1>1. /\ c.subscription \in Subscription /\ c \in Controllers
      /\ c.subscription.state \in {"IDLE", "SUBSCRIBING", "ACTIVE", "UNSUBSCRIBING"}
      /\ c.subscription.interface \in BOOLEAN
  BY Fields DEF Subscription
<1>2. \A state \in {"IDLE", "SUBSCRIBING", "ACTIVE", "UNSUBSCRIBING"} :
         [c EXCEPT !.subscription =
             [@ EXCEPT !.state = state, !.interface = c.subscription.interface,
                       !.waiting = FALSE]] \in Sound
  BY <1>1, SubscriptionFieldsSound
<1>3. answered = [c EXCEPT !.subscription =
             [@ EXCEPT !.state = c.subscription.state,
                       !.interface = c.subscription.interface,
                       !.waiting = FALSE]]
  BY <1>1 DEF Controllers, Subscription
<1>4. active = [c EXCEPT !.subscription =
             [@ EXCEPT !.state = "ACTIVE", !.interface = c.subscription.interface,
                       !.waiting = FALSE]]
  BY <1>1 DEF Controllers, Subscription
<1>5. idle = [c EXCEPT !.subscription =
             [@ EXCEPT !.state = "IDLE", !.interface = c.subscription.interface,
                       !.waiting = FALSE]]
  BY <1>1 DEF Controllers, Subscription
<1>6. answered \in Sound /\ active \in Sound /\ idle \in Sound
  BY <1>1, <1>2, <1>3, <1>4, <1>5
<1>7. Started(run, c) =
    CASE c.subscription.state = "SUBSCRIBING" -> OnSubscriptionSucceeded(run, active)
      [] c.subscription.state = "UNSUBSCRIBING" -> OnUnsubscribed(run, idle)
      [] OTHER -> answered
  BY DEF Started
<1> HIDE DEF answered, active, idle
<1>8. OnSubscriptionSucceeded(run, active) \in Sound /\ OnUnsubscribed(run, idle) \in Sound
  BY <1>6, SubscriptionEndsSound
<1> QED
  BY <1>6, <1>7, <1>8

\* The interface of the subscription is released.
LEMMA ReleaseSound ==
    ASSUME NEW c \in Sound, c.subscription # NoSubscription
    PROVE  Release(c) \in Sound
<1>1. /\ c.subscription \in Subscription /\ c \in Controllers
      /\ c.subscription.state \in {"IDLE", "SUBSCRIBING", "ACTIVE", "UNSUBSCRIBING"}
  BY Fields DEF Subscription
<1>2. Release(c) = [c EXCEPT !.subscription =
             [@ EXCEPT !.state = c.subscription.state, !.interface = FALSE,
                       !.waiting = FALSE]]
  BY <1>1 DEF Release, Controllers, Subscription
<1> QED
  BY <1>1, <1>2, SubscriptionFieldsSound

\* The rejection of a SUBSCRIBE keeps the types.
LEMMA StartFailedSound ==
    ASSUME NEW run, SoundRun(run), NEW c \in Sound,
           c.subscription # NoSubscription, NEW failure
    PROVE  StartFailed(run, c, failure) \in Sound
<1> DEFINE s == c.subscription
           quiet == [c EXCEPT !.subscription.waiting = FALSE]
<1>1. /\ s \in Subscription /\ c \in Controllers
      /\ s.state \in {"IDLE", "SUBSCRIBING", "ACTIVE", "UNSUBSCRIBING"}
      /\ s.interface \in BOOLEAN
      /\ s.dialog \in {"OUT", "IN", "FALLBACK"}
  BY Fields DEF Subscription
<1>2. quiet \in Sound
  <2>1. quiet = [c EXCEPT !.subscription =
             [@ EXCEPT !.state = s.state, !.interface = s.interface,
                       !.waiting = FALSE]]
    BY <1>1 DEF Controllers, Subscription
  <2> QED
    BY <1>1, <2>1, SubscriptionFieldsSound
<1>3. Release(c) \in Sound
  BY ReleaseSound
<1>4. OnUnsubscribed(run, Release(c)) \in Sound
      /\ OnSubscriptionFailed(run, Release(c)) \in Sound
  BY <1>3, SubscriptionEndsSound
<1>5. ASSUME NEW dialog \in {"OUT", "IN", "FALLBACK"}
      PROVE  SubscribeAgain(c, dialog) \in Sound
  <2> DEFINE sent == SendSubscribe([c.subscription EXCEPT !.dialog = dialog,
                                                          !.interface = TRUE,
                                                          !.waiting = FALSE],
                                   "Subscribe" \in c.refused)
  <2>1. sent \in Subscription
    BY <1>1 DEF SendSubscribe, Subscription
  <2>2. SubscribeAgain(c, dialog) = [c EXCEPT !.subscription = sent]
    BY DEF SubscribeAgain
  <2> HIDE DEF sent
  <2> QED
    BY <2>1, <2>2, SubscriptionSound
<1>6. SubscribeAgain(c, "FALLBACK") \in Sound /\ SubscribeAgain(c, s.dialog) \in Sound
  BY <1>1, <1>5
<1>7. StartFailed(run, c, failure) =
    CASE failure = "NoResponse" -> quiet
      [] failure # "NoResponse" /\ s.state = "UNSUBSCRIBING" ->
            OnUnsubscribed(run, Release(c))
      [] failure = "403" /\ s.state # "UNSUBSCRIBING" /\ s.dialog = "OUT" ->
            SubscribeAgain(c, "FALLBACK")
      [] failure = "423" /\ s.state # "UNSUBSCRIBING" ->
            SubscribeAgain(c, s.dialog)
      [] OTHER -> OnSubscriptionFailed(run, Release(c))
  BY DEF StartFailed
<1> HIDE DEF s, quiet
<1> QED
  BY <1>2, <1>4, <1>6, <1>7

\* The end of the subscription keeps the types.
LEMMA OnSubscriptionTerminatedSound ==
    ASSUME NEW run, SoundRun(run), NEW c \in Sound,
           c.subscription # NoSubscription
    PROVE  OnSubscriptionTerminated(run, c) \in Sound
<1> DEFINE idle == [c EXCEPT !.subscription.state = "IDLE",
                             !.subscription.waiting = FALSE]
<1>1. /\ c.subscription \in Subscription /\ c \in Controllers
      /\ c.subscription.interface \in BOOLEAN
  BY Fields DEF Subscription
<1>2. idle = [c EXCEPT !.subscription =
             [@ EXCEPT !.state = "IDLE", !.interface = c.subscription.interface,
                       !.waiting = FALSE]]
  BY <1>1 DEF Controllers, Subscription
<1>3. idle \in Sound
  BY <1>1, <1>2, SubscriptionFieldsSound
<1>4. OnSubscriptionTerminated(run, c) =
         PutStandAlone(run, OnUnsubscribed(run, idle),
                       Op("TERMINATE_CONFERENCE", NoUser))
  BY DEF OnSubscriptionTerminated
<1> HIDE DEF idle
<1>5. OnUnsubscribed(run, idle) \in Sound
  BY <1>3, SubscriptionEndsSound
<1>6. Plain(Op("TERMINATE_CONFERENCE", NoUser))
  BY PlainOps DEF OperationTypes, UserOperationTypes
<1> QED
  BY <1>4, <1>5, <1>6, PutStandAloneSound

\* A notification of the event package keeps the types.
LEMMA OnNotifyReceivedSound ==
    ASSUME NEW run, SoundRun(run), NEW c \in Sound
    PROVE  OnNotifyReceived(run, c) \in Sound
<1> DEFINE notified == IF NotifyRequired(c)
                       THEN CompleteCurrentAndDoNextOperation(
                               run, c, "SUBSCRIBE", NoUser)
                       ELSE c
           alone == IF Remaining(notified) = {}
                    THEN PutStandAlone(run, notified,
                                       Op("TERMINATE_CONFERENCE", NoUser))
                    ELSE notified
<1>1. notified \in Sound
  BY CompleteSound DEF OperationTypes
<1>2. OnNotifyReceived(run, c) =
         IF notified.list = {} THEN notified
         ELSE CompleteCurrentAndDoNextOperation(
                run, NotifyUsersInfo(alone), "CHECK_CONNECTED", NoUser)
  BY DEF OnNotifyReceived
<1> HIDE DEF notified
<1>3. Plain(Op("TERMINATE_CONFERENCE", NoUser))
  BY PlainOps DEF OperationTypes, UserOperationTypes
<1>4. alone \in Sound
  BY <1>1, <1>3, PutStandAloneSound
<1> HIDE DEF alone
<1>5. NotifyUsersInfo(alone) \in Sound
  BY <1>4, NotifyUsersInfoSound
<1> QED
  BY <1>1, <1>2, <1>5, CompleteSound DEF OperationTypes

\* A participant changes in the event package.
LEMMA UpdateParticipantSound ==
    ASSUME NEW c \in Sound, NEW p \in Participants, NEW status \in Status
    PROVE  UpdateParticipant(c, p, status) \in Sound
<1> DEFINE e == SetStatus(c, p, status)
           u == [e.users EXCEPT ![p].infoUpdated = TRUE]
           d == [e EXCEPT !.users[p].infoUpdated = TRUE]
<1>1. e \in Sound
  BY SetStatusSound
<1>2. d = UpdateParticipant(c, p, status)
  BY DEF UpdateParticipant
<1> HIDE DEF e
<1>3. e \in Controllers /\ e.users \in [Participants -> Participant]
  BY <1>1, Fields
<1>4. u \in [Participants -> Participant]
  BY <1>3 DEF Participant
<1>5. d = [e EXCEPT !.users = u]
  BY <1>3 DEF Controllers
<1> HIDE DEF u, d
<1>6. d \in Controllers
  BY <1>3, <1>4, <1>5 DEF Controllers
<1>7. /\ d.queue = e.queue /\ d.references = e.references
      /\ d.list = e.list /\ d.added = e.added
  BY <1>3, <1>5 DEF Controllers
<1> QED
  BY <1>1, <1>2, <1>6, <1>7, Renamed

\* A subscription is renewed.
LEMMA ReSubscribeSound ==
    ASSUME NEW run, SoundRun(run), NEW c \in Sound,
           c.subscription # NoSubscription
    PROVE  ReSubscribe(run, c) \in Sound
<1> DEFINE s == c.subscription
           count == IF c.config.trace THEN s.resubs + 1 ELSE s.resubs
           t == [s EXCEPT !.resubs = count]
           n == [t EXCEPT !.state = "SUBSCRIBING", !.waiting = TRUE,
                          !.sent = @ + 1]
           tried == [c EXCEPT !.subscription.resubs = count]
           new == [tried EXCEPT !.subscription.state = "SUBSCRIBING",
                                !.subscription.waiting = TRUE,
                                !.subscription.sent = @ + 1]
<1>1. s \in Subscription /\ c \in Controllers
  BY Fields
<1>2. count \in Nat
  BY <1>1 DEF Subscription
<1>3. ReSubscribe(run, c) =
         IF /\ count <= MAX_RESUBS_COUNT
            /\ s.interface /\ "Subscribe" \notin c.refused
         THEN new ELSE OnSubscriptionFailed(run, Release(tried))
  BY DEF ReSubscribe
<1> HIDE DEF count
<1>4. t \in Subscription /\ n \in Subscription
  <2> HIDE DEF s
  <2>1. t \in Subscription
    BY <1>1, <1>2 DEF Subscription
  <2>2. t.sent + 1 \in Nat
    BY <2>1 DEF Subscription
  <2> HIDE DEF t
  <2>3. n \in Subscription
    BY <2>1, <2>2 DEF Subscription
  <2> QED
    BY <2>1, <2>3
<1>5. tried = [c EXCEPT !.subscription = t]
  BY <1>1 DEF Controllers
<1>6. new = [c EXCEPT !.subscription = n]
  BY <1>1 DEF Controllers, Subscription
<1> HIDE DEF t, n, tried, new
<1>7. tried \in Sound /\ new \in Sound
  BY <1>4, <1>5, <1>6, SubscriptionSound
<1>8. tried.subscription # NoSubscription
  <2>1. tried.subscription = t
    BY <1>1, <1>5 DEF Controllers
  <2> QED
    BY <1>4, <2>1 DEF Subscription, NoSubscription
<1>9. Release(tried) \in Sound
  BY <1>7, <1>8, ReleaseSound
<1> HIDE DEF s
<1> QED
  BY <1>3, <1>7, <1>9, SubscriptionEndsSound

\* The final-sipfrag timer runs out.
LEMMA FinalSipfragSound ==
    ASSUME NEW run, SoundRun(run), NEW c \in Sound
    PROVE  Recover(run, [c EXCEPT !.sipfragTimer = FALSE]) \in Sound
<1> DEFINE d == [c EXCEPT !.sipfragTimer = FALSE]
<1>1. c \in Controllers /\ c.oneToOneEnded \in BOOLEAN
      /\ c.needToStart \in BOOLEAN
  BY Fields
<1>2. [c EXCEPT !.sipfragTimer = FALSE, !.oneToOneEnded = c.oneToOneEnded,
                !.needToStart = c.needToStart] \in Sound
  BY <1>1, TimersSound
<1>3. d = [c EXCEPT !.sipfragTimer = FALSE, !.oneToOneEnded = c.oneToOneEnded,
                    !.needToStart = c.needToStart]
  BY <1>1 DEF Controllers
<1>4. d \in Sound
  BY <1>2, <1>3
<1> HIDE DEF d
<1>5. Recover(run, d) \in Sound
  BY <1>4, RecoverSound
<1> QED
  BY <1>5 DEF d

\* The operation in progress is delayed no more.
LEMMA DelayedFacts ==
    ASSUME NEW c \in Sound,
           NEW d, d = [c EXCEPT !.delayTimer = FALSE, !.queue[1].delayed = FALSE]
    PROVE  /\ d \in Sound
           /\ DOMAIN d.queue = DOMAIN c.queue
           /\ \A i \in DOMAIN c.queue : d.queue[i].type = c.queue[i].type
                                        /\ d.queue[i].user = c.queue[i].user
           /\ \A i \in DOMAIN c.queue : d.queue[i].delayed => c.queue[i].delayed
           /\ d.delayTimer = FALSE
           /\ d.state = c.state /\ d.joined = c.joined
           /\ d.needToStart = c.needToStart /\ d.list = c.list
           /\ d.lost = c.lost /\ d.command = c.command
           /\ d.unasked = c.unasked /\ d.users = c.users
           /\ d.references = c.references
<1> DEFINE q == [c.queue EXCEPT ![1].delayed = FALSE]
<1>1. c \in Controllers /\ c.needToStart \in BOOLEAN
      /\ c.queue \in Seq(Operation) /\ Named(c)
  BY Fields
<1>2. Len(c.queue) \in Nat /\ DOMAIN c.queue = 1 .. Len(c.queue)
  BY <1>1, LenProperties
<1>3. /\ q \in Seq(Operation)
      /\ DOMAIN q = DOMAIN c.queue
      /\ \A i \in DOMAIN c.queue : q[i].type = c.queue[i].type
                                   /\ q[i].user = c.queue[i].user
                                   /\ (q[i].delayed => c.queue[i].delayed)
  <2>1. CASE 1 \in DOMAIN c.queue
    <3>1. 1 \in 1 .. Len(c.queue) /\ c.queue[1] \in Operation
      BY <1>1, <1>2, <2>1, ElementOfSeq
    <3>2. /\ [c.queue[1] EXCEPT !.delayed = FALSE] \in Operation
          /\ [c.queue[1] EXCEPT !.delayed = FALSE].type = c.queue[1].type
          /\ [c.queue[1] EXCEPT !.delayed = FALSE].user = c.queue[1].user
          /\ ~[c.queue[1] EXCEPT !.delayed = FALSE].delayed
      BY <3>1 DEF Operation
    <3> DEFINE op == [c.queue[1] EXCEPT !.delayed = FALSE]
    <3>3. q = [c.queue EXCEPT ![1] = op]
      BY <2>1
    <3> HIDE DEF q, op
    <3>4. /\ q \in Seq(Operation) /\ Len(q) = Len(c.queue)
          /\ \A j \in 1 .. Len(c.queue) :
                q[j] = IF j = 1 THEN op ELSE c.queue[j]
      BY <1>1, <3>1, <3>2, <3>3, ExceptSeq DEF op
    <3>5. DOMAIN q = 1 .. Len(c.queue)
      BY <3>4, LenProperties
    <3> QED
      BY <1>2, <3>2, <3>4, <3>5 DEF op
  <2>2. CASE 1 \notin DOMAIN c.queue
    <3>1. c.queue = [i \in 1 .. Len(c.queue) |-> c.queue[i]]
      BY <1>1, LenProperties
    <3>2. q = c.queue
      BY <1>2, <2>2, <3>1
    <3> QED
      BY <1>1, <3>2
  <2> QED
    BY <2>1, <2>2
<1>4. d = [c EXCEPT !.queue = q, !.needToStart = c.needToStart,
                    !.delayTimer = FALSE]
  BY <1>1 DEF Controllers
<1> HIDE DEF q
<1>5. d \in Sound
  <2>1. \A i \in DOMAIN q : q[i].user <= c.added
    BY <1>1, <1>3 DEF Named
  <2>2. [c EXCEPT !.queue = q, !.needToStart = c.needToStart,
                  !.delayTimer = FALSE] \in Sound
    BY <1>1, <1>3, <2>1, QueueSound
  <2> QED
    BY <1>4, <2>2
<1>6. /\ d.queue = q /\ d.delayTimer = FALSE
      /\ d.state = c.state /\ d.joined = c.joined
      /\ d.needToStart = c.needToStart /\ d.list = c.list
      /\ d.lost = c.lost /\ d.command = c.command
      /\ d.unasked = c.unasked /\ d.users = c.users
      /\ d.references = c.references
  BY <1>1, <1>4 DEF Controllers
<1> QED
  BY <1>3, <1>5, <1>6

-----------------------------------------------------------------------------
(* What is so whenever an operation is about to be started, and what is so *)
(* when a handler is done.                                                 *)

\* The operations of a command: they are in the queue while it is unanswered.
CommandTypes ==
    {"CREATE_CONFERENCE_CALL", "REFER_INVITE", "REFER_BYE",
     "TERMINATE_1TO1_CALL", "NOTIFY_RESULT_TO_UI"}

OfCommand(q, i) == q[i].type \in CommandTypes

AskedInv(q, command) ==
    \A i \in DOMAIN q : OfCommand(q, i) => command # "NONE"

\* The answer is the last of them.
LastInv(q) ==
    \A i, j \in DOMAIN q :
        i < j /\ q[i].type = "NOTIFY_RESULT_TO_UI" => ~OfCommand(q, j)

\* A call is hung up after its participant was invited.
HangUpInv(q, state, joined) ==
    \A i \in DOMAIN q : q[i].type = "TERMINATE_1TO1_CALL" =>
        /\ state = "MERGING"
        /\ IF i = 1 THEN joined ELSE q[i - 1].type = "REFER_INVITE"

\* Only an UNSUBSCRIBE is ever delayed.
DelayInv(q, timer) ==
    /\ \A i \in DOMAIN q : q[i].delayed => q[i].type = "UNSUBSCRIBE"
    /\ timer => q # << >> /\ q[1].type = "UNSUBSCRIBE"

IdleInv(state, command) == state \in {"CREATED", "IDLE"} => command = "NONE"

JoinedInv(users, joined) ==
    \A p \in Participants : users[p].status = "CONNECTED" => joined

NamesInv(R) == \A r, s \in R : r.id = s.id => r = s

\* No drop has been ended by the outcome of another one and no REFER has failed
\* after it was notified, this step included: the lemmas speak of the
\* controller within a step.
InTime == {"LATE_BYE", "LATE_FAILURE"} \cap surprises' = {}

Base(c) ==
    /\ c \in Sound
    /\ AskedInv(c.queue, c.command)
    /\ LastInv(c.queue)
    /\ HangUpInv(c.queue, c.state, c.joined)
    /\ DelayInv(c.queue, c.delayTimer)
    /\ IdleInv(c.state, c.command)
    /\ JoinedInv(c.users, c.joined)
    /\ NamesInv(c.references)
    /\ c.needToStart = FALSE /\ c.lost = FALSE
    /\ InTime => c.unasked = FALSE

\* A REFER to remove a participant of which nothing has been heard.
Pending(c, r) ==
    /\ r.type = "BYE" /\ r.delivered = FALSE /\ r.heard = "NOTHING"
    /\ r.user \in c.list /\ c.users[r.user].reference = r.id

NoBye(c) == InTime => \A r \in c.references : ~Pending(c, r)

ByeInv(c) ==
    InTime => \A r \in c.references : Pending(c, r) =>
        /\ c.queue # << >>
        /\ c.queue[1].type = "REFER_BYE" /\ c.queue[1].user = r.user

Ready(c) == Base(c) /\ NoBye(c)
Settled(c) == Base(c) /\ ByeInv(c)

\* A command that is answered stays so.
Kept(c, d) == c.command = "NONE" => d.command = "NONE"
Settles(c, d) == Settled(d) /\ Kept(c, d)

SafeRun(run) ==
    /\ SoundRun(run)
    /\ \A c : Ready(c) => Settles(c, run[c])

\* A change that none of these notices.
Quiet(c, d) ==
    /\ d.queue = c.queue /\ d.state = c.state /\ d.command = c.command
    /\ d.needToStart = c.needToStart /\ d.lost = c.lost
    /\ d.unasked = c.unasked /\ d.delayTimer = c.delayTimer
    /\ c.joined => d.joined
    /\ d.references \subseteq c.references /\ d.list \subseteq c.list
    /\ \A p \in Participants :
          /\ d.users[p].reference \in {c.users[p].reference, NoReference}
          /\ d.users[p].status = "CONNECTED" =>
                c.users[p].status = "CONNECTED" \/ d.joined

\* Who may begin an operation is settled.
LEMMA ReadySettled ==
    ASSUME NEW c, Ready(c)
    PROVE  Settled(c)
BY DEF Ready, Settled, NoBye, ByeInv

\* Pending references of the one are pending references of the other.
LEMMA PendingQuiet ==
    ASSUME NEW c \in Sound, NEW d \in Sound,
           d.references \subseteq c.references, d.list \subseteq c.list,
           \A p \in Participants :
              d.users[p].reference \in {c.users[p].reference, NoReference}
    PROVE  \A r \in d.references : Pending(d, r) => r \in c.references /\ Pending(c, r)
<1> SUFFICES ASSUME NEW r \in d.references, Pending(d, r)
             PROVE  r \in c.references /\ Pending(c, r)
  OBVIOUS
<1>1. r \in Reference
  BY Fields
<1>2. r.user \in Participants /\ r.id # NoReference
  BY <1>1 DEF Reference, ReferenceIds, NoReference
<1> QED
  BY <1>2 DEF Pending

\* A quiet change keeps every part of the invariant.
LEMMA QuietFacts ==
    ASSUME NEW c, NEW d \in Sound, Base(c), Quiet(c, d)
    PROVE  /\ Base(d) /\ Kept(c, d)
           /\ NoBye(c) => NoBye(d)
           /\ ByeInv(c) => ByeInv(d)
<1>1. \A r \in d.references : Pending(d, r) => r \in c.references /\ Pending(c, r)
  BY PendingQuiet DEF Quiet, Base
<1>2. NoBye(c) => NoBye(d)
  BY <1>1 DEF NoBye
<1>3. ByeInv(c) => ByeInv(d)
  BY <1>1 DEF ByeInv, Quiet
<1>4. AskedInv(d.queue, d.command) /\ LastInv(d.queue)
      /\ IdleInv(d.state, d.command) /\ DelayInv(d.queue, d.delayTimer)
  BY DEF Base, Quiet
<1>5. HangUpInv(d.queue, d.state, d.joined)
  BY DEF Base, Quiet, HangUpInv
<1>6. JoinedInv(d.users, d.joined)
  BY DEF Base, Quiet, JoinedInv
<1>7. NamesInv(d.references)
  BY DEF Base, Quiet, NamesInv
<1>8. d.needToStart = FALSE /\ d.lost = FALSE /\ (InTime => d.unasked = FALSE)
  BY DEF Base, Quiet
<1>9. Kept(c, d)
  BY DEF Kept, Quiet
<1> QED
  BY <1>2, <1>3, <1>4, <1>5, <1>6, <1>7, <1>8, <1>9 DEF Base

\* A quiet change leaves a settled controller settled.
LEMMA QuietSettles ==
    ASSUME NEW c, NEW d \in Sound, Settled(c), Quiet(c, d)
    PROVE  Settles(c, d)
BY QuietFacts DEF Settled, Settles

\* A quiet change leaves a ready controller ready.
LEMMA QuietReady ==
    ASSUME NEW c, NEW d \in Sound, Ready(c), Quiet(c, d)
    PROVE  Ready(d) /\ Kept(c, d)
BY QuietFacts DEF Ready

\* Two quiet changes are one.
LEMMA QuietTrans ==
    ASSUME NEW c, NEW d, NEW e, Quiet(c, d), Quiet(d, e)
    PROVE  Quiet(c, e)
<1>1. \A p \in Participants :
        /\ e.users[p].reference \in {c.users[p].reference, NoReference}
        /\ e.users[p].status = "CONNECTED" =>
              c.users[p].status = "CONNECTED" \/ e.joined
  BY DEF Quiet
<1> QED
  BY <1>1 DEF Quiet

\* One change after another.
LEMMA SettlesTrans ==
    ASSUME NEW c, NEW d, NEW e, Kept(c, d), Settles(d, e)
    PROVE  Settles(c, e)
BY DEF Settles, Kept

-----------------------------------------------------------------------------
(* Quiet changes.                                                          *)

\* SetStatus is quiet: who is connected has been noted.
LEMMA SetStatusQuiet ==
    ASSUME NEW c \in Sound, NEW p \in Participants \cup {NoUser},
           NEW status \in Status
    PROVE  /\ Quiet(c, SetStatus(c, p, status))
           /\ p # NoUser /\ status = "CONNECTED" => SetStatus(c, p, status).joined
           /\ SetStatus(c, p, status).references = c.references
           /\ SetStatus(c, p, status).list = c.list
           /\ \A q \in Participants : SetStatus(c, p, status).users[q].reference
                                         = c.users[q].reference
<1>0. c \in Controllers /\ c.users \in [Participants -> Participant]
  BY Fields
<1>1. CASE p = NoUser
  BY <1>1 DEF SetStatus, Quiet
<1>2. CASE p # NoUser
  <2> DEFINE u == [c.users EXCEPT ![p].status = status]
             j == c.joined \/ status = "CONNECTED"
             d == SetStatus(c, p, status)
  <2>1. d = [c EXCEPT !.users = u, !.joined = j]
    BY <1>0, <1>2 DEF SetStatus, Controllers
  <2>2. \A q \in Participants :
           /\ u[q].reference = c.users[q].reference
           /\ u[q].status = IF q = p THEN status ELSE c.users[q].status
    BY <1>0, <1>2 DEF Participant
  <2>3. j <=> c.joined \/ status = "CONNECTED"
    OBVIOUS
  <2> HIDE DEF u, j, d
  <2>4. /\ d.users = u /\ d.joined = j
        /\ d.queue = c.queue /\ d.state = c.state /\ d.command = c.command
        /\ d.needToStart = c.needToStart /\ d.lost = c.lost
        /\ d.unasked = c.unasked /\ d.delayTimer = c.delayTimer
        /\ d.references = c.references /\ d.list = c.list
    BY <1>0, <2>1 DEF Controllers
  <2>5. Quiet(c, d)
    BY <2>2, <2>3, <2>4 DEF Quiet
  <2> QED
    BY <2>2, <2>3, <2>4, <2>5 DEF d
<1> QED
  BY <1>1, <1>2

\* RemoveUsers is quiet.
LEMMA RemoveUsersQuiet ==
    ASSUME NEW c \in Sound, NEW gone
    PROVE  Quiet(c, RemoveUsers(c, gone))
<1> DEFINE u == [p \in Participants |->
                IF p \in gone
                THEN [c.users[p] EXCEPT !.status = "DISCONNECTED",
                                  !.reference = NoReference,
                                  !.infoUpdated = FALSE]
                ELSE c.users[p]]
           d == RemoveUsers(c, gone)
<1>0. c \in Controllers /\ c.users \in [Participants -> Participant]
  BY Fields
<1>1. d = [c EXCEPT !.list = @ \ gone, !.users = u]
  BY <1>0 DEF RemoveUsers, Controllers
<1>2. \A p \in Participants :
         /\ u[p].reference \in {c.users[p].reference, NoReference}
         /\ u[p].status = "CONNECTED" => c.users[p].status = "CONNECTED"
  BY <1>0 DEF Participant
<1> HIDE DEF u, d
<1>3. /\ d.users = u /\ d.joined = c.joined
      /\ d.queue = c.queue /\ d.state = c.state /\ d.command = c.command
      /\ d.needToStart = c.needToStart /\ d.lost = c.lost
      /\ d.unasked = c.unasked /\ d.delayTimer = c.delayTimer
      /\ d.references = c.references /\ d.list = c.list \ gone
  BY <1>0, <1>1 DEF Controllers
<1>4. Quiet(c, d)
  BY <1>2, <1>3 DEF Quiet
<1> QED
  BY <1>4 DEF d

\* RemoveReference is quiet.
LEMMA DropReferencesQuiet ==
    ASSUME NEW c \in Sound, NEW gone
    PROVE  /\ Quiet(c, DropReferences(c, gone))
           /\ DropReferences(c, gone).references = c.references \ gone
<1> DEFINE u == [p \in Participants |->
                IF InList(c, p) /\ \E r \in gone : r.id = c.users[p].reference
                THEN [c.users[p] EXCEPT !.reference = NoReference]
                ELSE c.users[p]]
           d == DropReferences(c, gone)
<1>0. c \in Controllers /\ c.users \in [Participants -> Participant]
  BY Fields
<1>1. d = [c EXCEPT !.references = @ \ gone, !.users = u]
  BY <1>0 DEF DropReferences, Controllers
<1>2. \A p \in Participants :
         /\ u[p].reference \in {c.users[p].reference, NoReference}
         /\ u[p].status = c.users[p].status
  BY <1>0 DEF Participant
<1> HIDE DEF u, d
<1>3. /\ d.users = u /\ d.joined = c.joined
      /\ d.queue = c.queue /\ d.state = c.state /\ d.command = c.command
      /\ d.needToStart = c.needToStart /\ d.lost = c.lost
      /\ d.unasked = c.unasked /\ d.delayTimer = c.delayTimer
      /\ d.references = c.references \ gone /\ d.list = c.list
  BY <1>0, <1>1 DEF Controllers
<1>4. Quiet(c, d)
  BY <1>2, <1>3 DEF Quiet
<1> QED
  BY <1>3, <1>4 DEF d

\* Changes of fields Quiet does not read.
Unread(c, d) ==
    /\ d.queue = c.queue /\ d.state = c.state /\ d.command = c.command
    /\ d.needToStart = c.needToStart /\ d.lost = c.lost
    /\ d.unasked = c.unasked /\ d.delayTimer = c.delayTimer
    /\ d.joined = c.joined /\ d.users = c.users
    /\ d.references = c.references /\ d.list = c.list

\* A change of other fields is quiet.
LEMMA UnreadQuiet ==
    ASSUME NEW c, NEW d, Unread(c, d)
    PROVE  Quiet(c, d)
BY DEF Unread, Quiet

\* NotifyUsersInfo is quiet.
LEMMA NotifyUsersInfoQuiet ==
    ASSUME NEW c \in Sound
    PROVE  Quiet(c, NotifyUsersInfo(c))
<1> DEFINE gone == c.list \ Remaining(c)
           left == RemoveUsers(c, gone)
           known == left.known \ {c.users[p].call : p \in gone}
           d == [left EXCEPT !.known = known]
<1>1. left \in Sound /\ Quiet(c, left)
  BY RemoveUsersSound, RemoveUsersQuiet
<1>2. NotifyUsersInfo(c) = d
  BY DEF NotifyUsersInfo
<1> HIDE DEF left, known
<1>3. left \in Controllers
  BY <1>1, Fields
<1>4. Unread(left, d)
  BY <1>3 DEF Unread, Controllers
<1> HIDE DEF d
<1> QED
  BY <1>1, <1>2, <1>4, UnreadQuiet, QuietTrans

\* The use of a participant is quiet.
LEMMA UsesUserQuiet ==
    ASSUME NEW c \in Sound, NEW p
    PROVE  Quiet(c, UsesUser(c, p))
<1>1. c \in Controllers
  BY Fields
<1>2. Unread(c, UsesUser(c, p))
  BY <1>1 DEF Unread, UsesUser, Controllers
<1> QED
  BY <1>2, UnreadQuiet

\* The final-sipfrag timer is quiet.
LEMMA TimerOfSipfragQuiet ==
    ASSUME NEW c \in Sound, NEW ended
    PROVE  /\ Unread(c, StopFinalSipfragWaitTimer(c))
           /\ Unread(c, CheckNStartFinalSipfragWaitTimer(c, ended))
<1>1. c \in Controllers
  BY Fields
<1> QED
  BY <1>1 DEF Unread, StopFinalSipfragWaitTimer,
              CheckNStartFinalSipfragWaitTimer, Controllers

-----------------------------------------------------------------------------
(* The queue moves on.                                                     *)

\* The same controller but for the queue and the delay timer.
Requeued(c, d) ==
    /\ d.state = c.state /\ d.command = c.command
    /\ d.lost = c.lost /\ d.unasked = c.unasked
    /\ d.joined = c.joined /\ d.users = c.users
    /\ d.references = c.references /\ d.list = c.list

\* The queue has no part in what is pending.
LEMMA RequeuedNoBye ==
    ASSUME NEW c, NEW d, d.references = c.references, d.list = c.list,
           d.users = c.users
    PROVE  NoBye(c) <=> NoBye(d)
BY DEF NoBye, Pending

\* What changes when the operation in progress is taken out.
LEMMA RemoveActiveFacts ==
    ASSUME NEW c \in Sound, c.queue # << >>
    PROVE  /\ Requeued(c, RemoveActiveOperation(c))
           /\ RemoveActiveOperation(c).queue = Tail(c.queue)
           /\ RemoveActiveOperation(c).delayTimer = FALSE
           /\ RemoveActiveOperation(c).needToStart = c.needToStart
<1>1. c \in Controllers
  BY Fields
<1> QED
  BY <1>1 DEF RemoveActiveOperation, Requeued, Controllers

\* What is so of a queue is so without its head.
LEMMA TailFacts ==
    ASSUME NEW c \in Sound, c.queue # << >>,
           AskedInv(c.queue, c.command), LastInv(c.queue),
           HangUpInv(c.queue, c.state, c.joined),
           DelayInv(c.queue, c.delayTimer)
    PROVE  /\ AskedInv(Tail(c.queue), c.command) /\ LastInv(Tail(c.queue))
           /\ (c.queue[1].type = "REFER_INVITE" /\ c.state = "MERGING" => c.joined)
                => HangUpInv(Tail(c.queue), c.state, c.joined)
           /\ DelayInv(Tail(c.queue), FALSE)
           /\ c.queue[1].type = "NOTIFY_RESULT_TO_UI" =>
                 AskedInv(Tail(c.queue), "NONE")
<1> DEFINE q == c.queue
           t == Tail(q)
           n == Len(q)
<1>1. /\ n \in Nat \ {0} /\ DOMAIN q = 1 .. n /\ DOMAIN t = 1 .. n - 1
      /\ \A i \in 1 .. n - 1 : t[i] = q[i + 1] /\ i + 1 \in DOMAIN q
  BY HeadFacts
<1> HIDE DEF q, t, n
<1>2. AskedInv(t, c.command)
  BY <1>1 DEF AskedInv, OfCommand, q
<1>3. LastInv(t)
  <2> SUFFICES ASSUME NEW i \in DOMAIN t, NEW j \in DOMAIN t, i < j,
                      t[i].type = "NOTIFY_RESULT_TO_UI"
               PROVE  ~OfCommand(t, j)
    BY DEF LastInv
  <2>1. i + 1 < j + 1 /\ i + 1 \in DOMAIN q /\ j + 1 \in DOMAIN q
    BY <1>1
  <2>2. ~OfCommand(q, j + 1)
    BY <1>1, <2>1 DEF LastInv, q
  <2> QED
    BY <1>1, <2>2 DEF OfCommand
<1>4. ASSUME q[1].type = "REFER_INVITE" /\ c.state = "MERGING" => c.joined
      PROVE  HangUpInv(t, c.state, c.joined)
  <2> SUFFICES ASSUME NEW i \in DOMAIN t, t[i].type = "TERMINATE_1TO1_CALL"
               PROVE  /\ c.state = "MERGING"
                      /\ IF i = 1 THEN c.joined ELSE t[i - 1].type = "REFER_INVITE"
    BY DEF HangUpInv
  <2>1. i \in 1 .. n - 1 /\ i + 1 \in DOMAIN q /\ t[i] = q[i + 1] /\ i + 1 # 1
        /\ i + 1 - 1 = i
    BY <1>1
  <2>2. c.state = "MERGING" /\ q[i].type = "REFER_INVITE"
    <3> DEFINE k == i + 1
    <3>1. k \in DOMAIN q /\ q[k].type = "TERMINATE_1TO1_CALL" /\ k # 1 /\ k - 1 = i
      BY <2>1
    <3>2. \A j \in DOMAIN q : q[j].type = "TERMINATE_1TO1_CALL" =>
             /\ c.state = "MERGING"
             /\ j # 1 => q[j - 1].type = "REFER_INVITE"
      BY DEF HangUpInv, q
    <3> HIDE DEF k
    <3> QED
      BY <3>1, <3>2
  <2>3. CASE i = 1
    BY <1>4, <2>2, <2>3
  <2>4. CASE i # 1
    <3>1. i - 1 \in 1 .. n - 1 /\ i - 1 + 1 = i
      BY <1>1, <2>1, <2>4
    <3>2. t[i - 1] = q[i]
      BY <1>1, <3>1
    <3> QED
      BY <2>2, <2>4, <3>2
  <2> QED
    BY <2>3, <2>4
<1>5. DelayInv(t, FALSE)
  BY <1>1 DEF DelayInv, q
<1>6. ASSUME q[1].type = "NOTIFY_RESULT_TO_UI" PROVE AskedInv(t, "NONE")
  <2> SUFFICES ASSUME NEW i \in DOMAIN t PROVE ~OfCommand(t, i)
    BY DEF AskedInv
  <2>1. 1 \in DOMAIN q /\ i + 1 \in DOMAIN q /\ 1 < i + 1 /\ t[i] = q[i + 1]
    BY <1>1
  <2>2. ~OfCommand(q, i + 1)
    BY <1>6, <2>1 DEF LastInv, q
  <2> QED
    BY <2>1, <2>2 DEF OfCommand
<1> QED
  BY <1>2, <1>3, <1>4, <1>5, <1>6 DEF q, t

\* No operation but a REFER_BYE waits for a REFER to remove somebody.
LEMMA HeadNoBye ==
    ASSUME NEW c, ByeInv(c),
           c.queue # << >> => c.queue[1].type # "REFER_BYE"
    PROVE  NoBye(c)
BY DEF ByeInv, NoBye

\* Nothing is pending while anything but a drop is in progress.
LEMMA SettledReady ==
    ASSUME NEW c, Settled(c),
           c.queue # << >> => c.queue[1].type # "REFER_BYE"
    PROVE  Ready(c)
BY HeadNoBye DEF Settled, Ready

\* The next operation may begin when this one is taken out.
LEMMA AdvanceReady ==
    ASSUME NEW c, Ready(c), c.queue # << >>,
           c.queue[1].type = "REFER_INVITE" /\ c.state = "MERGING" => c.joined
    PROVE  /\ Ready(RemoveActiveOperation(c))
           /\ Kept(c, RemoveActiveOperation(c))
<1> DEFINE d == RemoveActiveOperation(c)
<1>1. c \in Sound
  BY DEF Ready, Base
<1>2. d \in Sound
  BY <1>1, RemoveActiveSound
<1>3. /\ Requeued(c, d) /\ d.queue = Tail(c.queue) /\ d.delayTimer = FALSE
      /\ d.needToStart = c.needToStart
  BY <1>1, RemoveActiveFacts
<1> HIDE DEF d
<1>4. /\ AskedInv(d.queue, d.command) /\ LastInv(d.queue)
      /\ HangUpInv(d.queue, d.state, d.joined)
      /\ DelayInv(d.queue, d.delayTimer)
  BY <1>1, <1>3, TailFacts DEF Ready, Base, Requeued
<1>5. NoBye(d)
  BY <1>3, RequeuedNoBye DEF Ready, Requeued
<1>6. Base(d)
  BY <1>2, <1>3, <1>4 DEF Ready, Base, Requeued
<1> QED
  BY <1>3, <1>5, <1>6 DEF Ready, Kept, Requeued, d

\* CompleteCurrentAndDoNextOperation leaves the controller settled.
LEMMA CompleteSettles ==
    ASSUME NEW run, SafeRun(run), NEW c, Settled(c), NEW type \in OperationTypes,
           NEW user,
           type = "REFER_INVITE" /\ IsSameOperation(c, type, user) =>
              (c.state = "MERGING" => c.joined),
           type = "REFER_BYE" /\ IsSameOperation(c, type, user) => NoBye(c)
    PROVE  Settles(c, CompleteCurrentAndDoNextOperation(run, c, type, user))
<1>1. CASE ~IsSameOperation(c, type, user)
  BY <1>1 DEF CompleteCurrentAndDoNextOperation, Settles, Kept
<1>2. CASE IsSameOperation(c, type, user)
  <2>1. c.queue # << >> /\ Head(c.queue).type = type
    BY <1>2 DEF IsSameOperation, TypeOfCurrentOperation, OperationTypes
  <2>2. c \in Sound
    BY DEF Settled, Base
  <2>3. c.queue[1].type = type
    BY <2>1, <2>2, HeadFacts
  <2>4. NoBye(c)
    <3>1. CASE type = "REFER_BYE"
      BY <1>2, <3>1
    <3>2. CASE type # "REFER_BYE"
      BY <2>3, <3>2, HeadNoBye DEF Settled
    <3> QED
      BY <3>1, <3>2
  <2>5. Ready(c)
    BY <2>4 DEF Ready, Settled
  <2>6. Ready(RemoveActiveOperation(c)) /\ Kept(c, RemoveActiveOperation(c))
    BY <1>2, <2>1, <2>3, <2>5, AdvanceReady
  <2>7. Settles(RemoveActiveOperation(c), run[RemoveActiveOperation(c)])
    BY <2>6 DEF SafeRun
  <2> QED
    BY <1>2, <2>6, <2>7, SettlesTrans DEF CompleteCurrentAndDoNextOperation
<1> QED
  BY <1>1, <1>2

\* The same, when no REFER is completed.
LEMMA CompleteOtherSettles ==
    ASSUME NEW run, SafeRun(run), NEW c, Settled(c),
           NEW type \in OperationTypes \ {"REFER_INVITE", "REFER_BYE"}, NEW user
    PROVE  Settles(c, CompleteCurrentAndDoNextOperation(run, c, type, user))
BY CompleteSettles

\* An operation of its own, which no command waits for.
Alone(op) ==
    /\ Plain(op) /\ op.type \notin CommandTypes
    /\ op.delayed => op.type = "UNSUBSCRIBE"

\* The stand-alone operations.
LEMMA AloneOps ==
    /\ Alone(Op("TERMINATE_CONFERENCE", NoUser))
    /\ Alone(Op("DESTROY_CONTROLLER", NoUser))
    /\ Alone([Op("UNSUBSCRIBE", NoUser) EXCEPT !.delayed = TRUE])
<1>1. /\ Plain(Op("TERMINATE_CONFERENCE", NoUser))
      /\ Plain(Op("DESTROY_CONTROLLER", NoUser))
      /\ Plain([Op("UNSUBSCRIBE", NoUser) EXCEPT !.delayed = TRUE])
  BY PlainOps DEF OperationTypes, UserOperationTypes
<1> QED
  BY <1>1 DEF Alone, Op, CommandTypes

\* A stand-alone operation is added to the queue.
LEMMA PutAloneFacts ==
    ASSUME NEW c, Settled(c), NEW op, Alone(op),
           NEW d, d = [c EXCEPT !.queue = Append(@, op)]
    PROVE  Settled(d) /\ Kept(c, d)
<1> DEFINE q == Append(c.queue, op)
           n == Len(c.queue)
<1>0. c \in Sound /\ c \in Controllers /\ c.added \in Nat
  BY Fields DEF Settled, Base
<1>1. op \in Operation /\ op.user <= c.added
  BY <1>0 DEF Alone, Plain, NoUser
<1>2. /\ q \in Seq(Operation) /\ n \in Nat
      /\ DOMAIN c.queue = 1 .. n /\ DOMAIN q = 1 .. n + 1
      /\ \A i \in DOMAIN c.queue : q[i] = c.queue[i]
      /\ q[n + 1] = op
      /\ \A i \in 1 .. n + 1 : i \in DOMAIN c.queue \/ i = n + 1
  BY <1>0, <1>1, AppendFacts
<1>3. c.queue # << >> => n # 0
  BY <1>0, HeadFacts
<1> HIDE DEF q, n
<1>4. d = [c EXCEPT !.queue = q]
  BY DEF q
<1>5. d \in Sound
  <2>1. \A i \in DOMAIN q : q[i].user <= c.added
    BY <1>0, <1>1, <1>2, Fields DEF Named
  <2>2. [c EXCEPT !.queue = q, !.needToStart = c.needToStart,
                  !.delayTimer = c.delayTimer] \in Sound
    BY <1>0, <1>2, <2>1, Fields, QueueSound
  <2>3. [c EXCEPT !.queue = q, !.needToStart = c.needToStart,
                  !.delayTimer = c.delayTimer] = d
    BY <1>0, <1>4 DEF Controllers
  <2> QED
    BY <2>2, <2>3
<1>6. /\ Requeued(c, d) /\ d.queue = q /\ d.needToStart = c.needToStart
      /\ d.delayTimer = c.delayTimer
  BY <1>0, <1>4 DEF Requeued, Controllers
<1>7. q # << >> /\ (c.queue # << >> => 1 \in DOMAIN c.queue /\ q[1] = c.queue[1])
  BY <1>2, <1>3, EmptySeq
<1>8. AskedInv(q, c.command)
  BY <1>2 DEF Settled, Base, AskedInv, OfCommand, Alone
<1>9. LastInv(q)
  <2> SUFFICES ASSUME NEW i \in DOMAIN q, NEW j \in DOMAIN q, i < j,
                      q[i].type = "NOTIFY_RESULT_TO_UI"
               PROVE  ~OfCommand(q, j)
    BY DEF LastInv
  <2>1. CASE j = n + 1
    BY <1>2, <2>1 DEF OfCommand, Alone
  <2>2. CASE j # n + 1
    <3>1. i \in DOMAIN c.queue /\ j \in DOMAIN c.queue
      BY <1>2, <2>2
    <3> QED
      BY <1>2, <3>1 DEF Settled, Base, LastInv, OfCommand
  <2> QED
    BY <2>1, <2>2
<1>10. HangUpInv(q, c.state, c.joined)
  <2> SUFFICES ASSUME NEW i \in DOMAIN q, q[i].type = "TERMINATE_1TO1_CALL"
               PROVE  /\ c.state = "MERGING"
                      /\ IF i = 1 THEN c.joined ELSE q[i - 1].type = "REFER_INVITE"
    BY DEF HangUpInv
  <2>1. i # n + 1
    BY <1>2 DEF Alone, CommandTypes
  <2>2. i \in DOMAIN c.queue /\ (i # 1 => i - 1 \in DOMAIN c.queue)
    BY <1>2, <2>1
  <2> QED
    BY <1>2, <2>2 DEF Settled, Base, HangUpInv
<1>11. DelayInv(q, c.delayTimer)
  <2>1. \A i \in DOMAIN q : q[i].delayed => q[i].type = "UNSUBSCRIBE"
    BY <1>2 DEF Settled, Base, DelayInv, Alone
  <2>2. c.delayTimer => q # << >> /\ q[1].type = "UNSUBSCRIBE"
    BY <1>7 DEF Settled, Base, DelayInv
  <2> QED
    BY <2>1, <2>2 DEF DelayInv
<1>12. Base(d)
  BY <1>5, <1>6, <1>8, <1>9, <1>10, <1>11 DEF Settled, Base, Requeued
<1>13. ByeInv(d)
  BY <1>6, <1>7 DEF Settled, ByeInv, Requeued, Pending
<1> QED
  BY <1>6, <1>12, <1>13 DEF Settled, Kept, Requeued

\* And begun, when it is alone.
LEMMA PutStandAloneSettles ==
    ASSUME NEW run, SafeRun(run), NEW c, Settled(c), NEW op, Alone(op)
    PROVE  Settles(c, PutStandAlone(run, c, op))
<1> DEFINE d == [c EXCEPT !.queue = Append(@, op)]
           e == [d EXCEPT !.needToStart = FALSE]
<1>1. Settled(d) /\ Kept(c, d)
  BY PutAloneFacts
<1>2. c \in Controllers /\ c \in Sound
  BY Fields DEF Settled, Base
<1>3. c.needToStart = FALSE
  BY DEF Settled, Base
<1>4. e = d
  BY <1>2, <1>3 DEF Controllers
<1>5. c.queue = << >> => NoBye(d)
  <2>1. c.queue = << >> => NoBye(c)
    BY HeadNoBye DEF Settled
  <2>2. d.references = c.references /\ d.list = c.list /\ d.users = c.users
    BY <1>2 DEF Controllers
  <2> HIDE DEF d
  <2> QED
    BY <2>1, <2>2, RequeuedNoBye
<1>6. PutStandAlone(run, c, op) = IF c.queue = << >> THEN run[e] ELSE d
  BY DEF PutStandAlone
<1> HIDE DEF d, e
<1>7. c.queue = << >> => Settles(d, run[d])
  BY <1>1, <1>5 DEF SafeRun, Ready, Settled
<1> QED
  BY <1>1, <1>4, <1>6, <1>7, SettlesTrans DEF Settles

\* SendClosed leaves the controller settled.
LEMMA SendClosedSettles ==
    ASSUME NEW run, SafeRun(run), NEW c, Settled(c)
    PROVE  Settles(c, SendClosed(run, c))
<1> DEFINE d == [c EXCEPT !.life = IF @ = "OPEN" THEN "CLOSED" ELSE @]
<1>1. c \in Sound /\ c \in Controllers
  BY Fields DEF Settled, Base
<1>2. d \in Sound
  <2>1. c.life \in {"OPEN", "CLOSED", "ABORTED", "DESTROYED"}
    BY <1>1 DEF Controllers
  <2> QED
    BY <1>1, <2>1, LifeSound
<1>3. Unread(c, d)
  BY <1>1 DEF Unread, Controllers
<1>4. SendClosed(run, c) =
         IF HasPendingOperation(c)
         THEN PutStandAlone(run, c, Op("DESTROY_CONTROLLER", NoUser)) ELSE d
  BY DEF SendClosed
<1> HIDE DEF d
<1>5. Settles(c, d)
  BY <1>2, <1>3, UnreadQuiet, QuietSettles
<1> QED
  BY <1>4, <1>5, AloneOps, PutStandAloneSettles

-----------------------------------------------------------------------------
(* Recovery.                                                               *)

\* What an answer changes.
LEMMA AnswerFacts ==
    ASSUME NEW c \in Sound
    PROVE  /\ Answer(c).command = "NONE"
           /\ c.command # "NONE" => Answer(c).unasked = c.unasked
           /\ Answer(c).queue = c.queue /\ Answer(c).state = c.state
           /\ Answer(c).lost = c.lost /\ Answer(c).joined = c.joined
           /\ Answer(c).needToStart = c.needToStart
           /\ Answer(c).delayTimer = c.delayTimer
           /\ Answer(c).users = c.users /\ Answer(c).list = c.list
           /\ Answer(c).references = c.references
<1>1. c \in Controllers /\ c.unasked \in BOOLEAN
  BY Fields
<1> DEFINE u == c.unasked \/ c.command = "NONE"
<1>2. Answer(c) = [c EXCEPT !.unasked = u, !.command = "NONE"]
  BY DEF Answer
<1>3. c.command # "NONE" => u = c.unasked
  BY <1>1
<1> HIDE DEF u
<1> QED
  BY <1>1, <1>2, <1>3 DEF Controllers

\* What Clear of the queue changes.
LEMMA ClearQueueFacts ==
    ASSUME NEW c \in Sound
    PROVE  /\ Requeued(c, ClearQueue(c))
           /\ ClearQueue(c).queue = << >>
           /\ ClearQueue(c).delayTimer = FALSE
           /\ ClearQueue(c).needToStart = c.needToStart
<1>1. c \in Controllers
  BY Fields
<1> QED
  BY <1>1 DEF ClearQueue, Requeued, Controllers

\* Nothing is left to do and every command has its answer.
LEMMA EmptyReady ==
    ASSUME NEW d \in Sound, d.queue = << >>, d.delayTimer = FALSE,
           d.command = "NONE", d.needToStart = FALSE, d.lost = FALSE,
           InTime => d.unasked = FALSE, JoinedInv(d.users, d.joined),
           NamesInv(d.references), NoBye(d)
    PROVE  Ready(d)
<1>1. \A i \in DOMAIN d.queue : FALSE
  OBVIOUS
<1>2. AskedInv(d.queue, d.command) /\ LastInv(d.queue)
      /\ HangUpInv(d.queue, d.state, d.joined)
      /\ DelayInv(d.queue, d.delayTimer)
  BY <1>1 DEF AskedInv, LastInv, HangUpInv, DelayInv
<1> QED
  BY <1>2 DEF Ready, Base, IdleInv

\* The operation in progress belongs to a command.
LEMMA HeadAsked ==
    ASSUME NEW c, Base(c), c.queue # << >>, c.queue[1].type \in CommandTypes
    PROVE  c.command # "NONE"
<1>1. 1 \in DOMAIN c.queue
  <2>1. Len(c.queue) \in Nat \ {0} /\ DOMAIN c.queue = 1 .. Len(c.queue)
    BY HeadFacts DEF Base
  <2> QED
    BY <2>1
<1> QED
  BY <1>1 DEF Base, AskedInv, OfCommand

\* A merge that is given up is answered, and nothing is left of it.
LEMMA GiveUpMergeReady ==
    ASSUME NEW c, Settled(c),
           TypeOfCurrentOperation(c) \in
               {"CREATE_CONFERENCE_CALL", "TERMINATE_1TO1_CALL", "REFER_INVITE"},
           NEW state \in ControllerStates
    PROVE  /\ Ready(GiveUpMerge(c)) /\ Kept(c, GiveUpMerge(c))
           /\ Ready([GiveUpMerge(c) EXCEPT !.state = state])
           /\ Kept(c, [GiveUpMerge(c) EXCEPT !.state = state])
<1> DEFINE a == Answer(c)
           d == ClearQueue(a)
           e == [d EXCEPT !.state = state]
<1>0. c \in Sound
  BY DEF Settled, Base
<1>1. /\ c.queue # << >>
      /\ c.queue[1].type \in {"CREATE_CONFERENCE_CALL", "TERMINATE_1TO1_CALL",
                              "REFER_INVITE"}
  BY <1>0, HeadFacts DEF TypeOfCurrentOperation
<1>2. c.command # "NONE"
  BY <1>1, HeadAsked DEF Settled, CommandTypes
<1>3. NoBye(c)
  BY <1>1, HeadNoBye DEF Settled
<1>4. /\ a \in Sound /\ a.command = "NONE" /\ a.unasked = c.unasked
      /\ a.lost = c.lost /\ a.joined = c.joined
      /\ a.needToStart = c.needToStart
      /\ a.users = c.users /\ a.list = c.list /\ a.references = c.references
  BY <1>0, <1>2, AnswerSound, AnswerFacts
<1> HIDE DEF a
<1>5. /\ d \in Sound /\ Requeued(a, d) /\ d.queue = << >> /\ d.delayTimer = FALSE
      /\ d.needToStart = a.needToStart
  BY <1>4, ClearQueueSound, ClearQueueFacts
<1> HIDE DEF d
<1>6. e \in Sound
  BY <1>5, StateSound
<1>7. d \in Controllers
  BY <1>5, Fields
<1>8. /\ e.queue = d.queue /\ e.delayTimer = d.delayTimer
      /\ e.command = d.command /\ e.needToStart = d.needToStart
      /\ e.lost = d.lost /\ e.unasked = d.unasked /\ e.users = d.users
      /\ e.joined = d.joined /\ e.references = d.references /\ e.list = d.list
  BY <1>7 DEF Controllers
<1> HIDE DEF e
<1>9. NoBye(d) /\ NoBye(e)
  BY <1>3, <1>4, <1>5, <1>8, RequeuedNoBye DEF Requeued
<1>10. Ready(d)
  BY <1>4, <1>5, <1>9, EmptyReady DEF Settled, Base, Requeued
<1>11. Ready(e)
  BY <1>4, <1>5, <1>6, <1>8, <1>9, EmptyReady DEF Settled, Base, Requeued
<1>12. GiveUpMerge(c) = d
  BY DEF GiveUpMerge, NotifyMergeResult, d, a
<1>13. d.command = "NONE" /\ e.command = "NONE"
  BY <1>4, <1>5, <1>8 DEF Requeued
<1> QED
  BY <1>10, <1>11, <1>12, <1>13 DEF Kept, e

\* RecoverOnReferring leaves the controller settled.
LEMMA RecoverOnReferringSettles ==
    ASSUME NEW run, SafeRun(run), NEW c, Settled(c),
           TypeOfCurrentOperation(c) = "REFER_INVITE"
    PROVE  Settles(c, RecoverOnReferring(run, c))
<1> DEFINE p == Head(c.queue).user
           d == SetStatus(c, p, "DISCONNECTED")
           e == [GiveUpMerge(c) EXCEPT !.state = "IDLE"]
           x == CompleteCurrentAndDoNextOperation(run, c, "REFER_INVITE", p)
           y == CompleteCurrentAndDoNextOperation(run, d, "REFER_INVITE", p)
           z == UsesUser(c, p)
<1>0. c \in Sound
  BY DEF Settled, Base
<1>1. p \in Participants
  BY <1>0, HeadUser DEF UserOperationTypes
<1>2. ASSUME NEW q \in Participants, IsConnected(c, q) PROVE c.joined
  BY <1>2 DEF IsConnected, Settled, Base, JoinedInv
<1>3. Settles(c, z)
  BY <1>0, UsesUserSound, UsesUserQuiet, QuietSettles
<1>4. ASSUME IsConnected(c, p) PROVE Settles(c, x)
  <2>1. c.joined
    BY <1>1, <1>2, <1>4
  <2> QED
    BY <2>1, CompleteSettles DEF OperationTypes
<1>5. ASSUME ConnectedParticipants(c) # {} PROVE Settles(c, y)
  <2>1. c.joined
    <3>1. PICK q \in c.list : IsConnected(c, q)
      BY <1>5 DEF ConnectedParticipants
    <3>2. q \in Participants
      BY <1>0, Fields
    <3> QED
      BY <1>2, <3>1, <3>2
  <2>2. d \in Sound /\ Quiet(c, d)
    BY <1>0, <1>1, SetStatusSound, SetStatusQuiet DEF Status
  <2> HIDE DEF d, p
  <2>3. d.joined
    BY <2>1, <2>2 DEF Quiet
  <2>4. Settles(c, d)
    BY <2>2, QuietSettles
  <2>5. Settles(d, y)
    BY <2>3, <2>4, CompleteSettles DEF OperationTypes, Settles
  <2> QED
    BY <2>4, <2>5, SettlesTrans DEF Settles
<1>6. Settles(c, e)
  BY GiveUpMergeReady, ReadySettled DEF Settles, ControllerStates
<1>7. RecoverOnReferring(run, c) =
         CASE ~InList(c, p) -> z
          [] InList(c, p) /\ IsConnected(c, p) -> x
          [] InList(c, p) /\ ~IsConnected(c, p) /\ ConnectedParticipants(c) # {}
             /\ Cardinality(c.list) <= 2 -> y
          [] OTHER -> e
  BY DEF RecoverOnReferring
<1> HIDE DEF p, d, e, x, y, z
<1> QED
  BY <1>3, <1>4, <1>5, <1>6, <1>7

\* The end of the controller leaves it settled.
LEMMA LifeSettles ==
    ASSUME NEW c, Settled(c),
           NEW life \in {"OPEN", "CLOSED", "ABORTED", "DESTROYED"}
    PROVE  Settles(c, [c EXCEPT !.life = life])
<1> DEFINE d == [c EXCEPT !.life = life]
<1>1. c \in Sound /\ c \in Controllers
  BY Fields DEF Settled, Base
<1>2. d \in Sound
  BY <1>1, LifeSound
<1>3. Unread(c, d)
  BY <1>1 DEF Unread, Controllers
<1> HIDE DEF d
<1>4. Settles(c, d)
  BY <1>2, <1>3, UnreadQuiet, QuietSettles
<1> QED
  BY <1>4 DEF d

\* MergeController::Recover leaves the controller settled.
LEMMA RecoverSettles ==
    ASSUME NEW run, SafeRun(run), NEW c, Settled(c)
    PROVE  Settles(c, Recover(run, c))
<1>1. Settles(c, c)
  BY DEF Settles, Kept
<1>2. Settles(c, [c EXCEPT !.life = "ABORTED"])
  BY LifeSettles
<1>3. ASSUME TypeOfCurrentOperation(c) \in
               {"CREATE_CONFERENCE_CALL", "TERMINATE_1TO1_CALL", "REFER_INVITE"}
      PROVE  Settles(c, GiveUpMerge(c))
  <2>1. "IDLE" \in ControllerStates
    BY DEF ControllerStates
  <2> QED
    BY <1>3, <2>1, GiveUpMergeReady, ReadySettled DEF Settles
<1>4. TypeOfCurrentOperation(c) = "REFER_INVITE" =>
         Settles(c, RecoverOnReferring(run, c))
  BY RecoverOnReferringSettles
<1> QED
  BY <1>1, <1>2, <1>3, <1>4 DEF Recover

-----------------------------------------------------------------------------
(* Calls.                                                                  *)

\* A participant of a copied list leaves with its call.
LEMMA UpdateUserStateSettles ==
    ASSUME NEW run, SafeRun(run), NEW c, Settled(c), NEW call
    PROVE  Settles(c, UpdateUserStateByCallTerminated(run, c, call))
<1> DEFINE gone == {p \in c.list : c.users[p].call = call /\ call \in c.known}
           one == CHOOSE p \in gone : TRUE
           set == SetStatus(c, one, "DISCONNECTED")
           told == IF gone = {} THEN c ELSE NotifyUsersInfo(set)
<1>0. c \in Sound
  BY DEF Settled, Base
<1>1. gone # {} => one \in Participants
  BY <1>0, Fields
<1> HIDE DEF one
<1>2. gone # {} => set \in Sound /\ Quiet(c, set)
  BY <1>0, <1>1, SetStatusSound, SetStatusQuiet DEF Status
<1> HIDE DEF set
<1>3. gone # {} => NotifyUsersInfo(set) \in Sound /\ Quiet(c, NotifyUsersInfo(set))
  BY <1>2, NotifyUsersInfoSound, NotifyUsersInfoQuiet, QuietTrans
<1>4. Settles(c, c)
  BY DEF Settles, Kept
<1>5. Settles(c, told)
  BY <1>3, <1>4, QuietSettles
<1>6. UpdateUserStateByCallTerminated(run, c, call) =
        IF Remaining(told) = {}
        THEN PutStandAlone(run, told, Op("TERMINATE_CONFERENCE", NoUser))
        ELSE told
  BY DEF UpdateUserStateByCallTerminated, one, set
<1> HIDE DEF told
<1>7. Settles(told, PutStandAlone(run, told, Op("TERMINATE_CONFERENCE", NoUser)))
  BY <1>5, AloneOps, PutStandAloneSettles DEF Settles
<1> QED
  BY <1>5, <1>6, <1>7, SettlesTrans DEF Settles

\* OnIndividualCallTerminated leaves it settled.
LEMMA OnIndividualCallTerminatedSettles ==
    ASSUME NEW run, SafeRun(run), NEW c, Settled(c), NEW call
    PROVE  Settles(c, OnIndividualCallTerminated(run, c, call))
<1> DEFINE timed == CheckNStartFinalSipfragWaitTimer(c, TRUE)
           done == CompleteCurrentAndDoNextOperation(
                       run, timed, "TERMINATE_1TO1_CALL", NoUser)
<1>0. c \in Sound
  BY DEF Settled, Base
<1>1. Settles(c, timed)
  <2>1. timed \in Sound /\ Unread(c, timed)
    BY <1>0, TimerOfSipfragSound, TimerOfSipfragQuiet
  <2> HIDE DEF timed
  <2> QED
    BY <2>1, UnreadQuiet, QuietSettles
<1> HIDE DEF timed
<1>2. Settles(timed, Recover(run, timed))
  BY <1>1, RecoverSettles DEF Settles
<1>3. Settles(timed, done)
  BY <1>1, CompleteOtherSettles DEF OperationTypes, Settles
<1>4. Settles(c, done) /\ Settles(c, Recover(run, timed))
  BY <1>1, <1>2, <1>3, SettlesTrans DEF Settles
<1> HIDE DEF done
<1> DEFINE handled ==
            CASE TypeOfCurrentOperation(c) # "TERMINATE_1TO1_CALL" -> timed
              [] /\ TypeOfCurrentOperation(c) = "TERMINATE_1TO1_CALL"
                 /\ c.users[Head(c.queue).user].call = call
                 /\ call \in c.known -> done
              [] OTHER -> Recover(run, timed)
<1>5. Settles(c, handled)
  BY <1>1, <1>4
<1>6. OnIndividualCallTerminated(run, c, call) =
        IF handled.subscription = NoSubscription
           /\ c.config.referType = "COPYCONTROL"
        THEN UpdateUserStateByCallTerminated(run, handled, call)
        ELSE handled
  BY DEF OnIndividualCallTerminated, timed, done
<1> HIDE DEF handled
<1>7. Settles(handled, UpdateUserStateByCallTerminated(run, handled, call))
  BY <1>5, UpdateUserStateSettles DEF Settles
<1> QED
  BY <1>5, <1>6, <1>7, SettlesTrans DEF Settles

\* GetUsersOfCurrentOperation is quiet.
LEMMA ReadsCurrentUserQuiet ==
    ASSUME NEW c \in Sound
    PROVE  Quiet(c, ReadsCurrentUser(c))
<1>1. Quiet(c, c)
  BY DEF Quiet
<1> QED
  BY <1>1, UsesUserQuiet DEF ReadsCurrentUser

\* The end of a call leaves the controller settled.
LEMMA CallTerminatedSettles ==
    ASSUME NEW run, SafeRun(run), NEW c, Settled(c), NEW call \in Calls
    PROVE  Settles(c, CallTerminated(run, c, call))
<1> DEFINE d == ReadsCurrentUser(c)
           calls == [d.calls EXCEPT ![call] = "TERMINATING"]
           known == IF IsConferenceParticipant(c, call)
                    THEN d.known ELSE d.known \ {call}
           e == [d EXCEPT !.calls = calls, !.known = known]
<1>0. c \in Sound
  BY DEF Settled, Base
<1>1. d \in Sound /\ Settles(c, d)
  BY <1>0, ReadsCurrentUserSound, ReadsCurrentUserQuiet, QuietSettles
<1>2. /\ d \in Controllers /\ d.lost \in BOOLEAN
      /\ d.calls \in [Calls -> {"ESTABLISHED", "TERMINATING"}]
      /\ d.known \in SUBSET Calls
  BY <1>1, Fields
<1>3. CallTerminated(run, c, call) = OnIndividualCallTerminated(run, e, call)
  BY DEF CallTerminated
<1> HIDE DEF d
<1>4. calls \in [Calls -> {"ESTABLISHED", "TERMINATING"}]
      /\ known \in SUBSET Calls
  BY <1>2
<1> HIDE DEF calls, known
<1>5. e = [d EXCEPT !.lost = d.lost, !.calls = calls, !.known = known]
  BY <1>2 DEF Controllers
<1>6. [d EXCEPT !.lost = d.lost, !.calls = calls, !.known = known] \in Sound
  BY <1>1, <1>2, <1>4, CallSound
<1>7. Unread(d, e)
  BY <1>2 DEF Unread, Controllers
<1> HIDE DEF e
<1>8. Settles(d, e)
  BY <1>1, <1>5, <1>6, <1>7, UnreadQuiet, QuietSettles DEF Settles
<1>9. Settles(e, OnIndividualCallTerminated(run, e, call))
  BY <1>8, OnIndividualCallTerminatedSettles DEF Settles
<1> QED
  BY <1>1, <1>3, <1>8, <1>9, SettlesTrans DEF Settles

\* The end of the conference call leaves it settled.
LEMMA ConferenceTerminatedSettles ==
    ASSUME NEW run, SafeRun(run), NEW c, Settled(c)
    PROVE  Settles(c, ConferenceTerminated(run, c))
<1> DEFINE d == ReadsCurrentUser(c)
           known == {call \in d.known : ~IsConferenceParticipant(c, call)}
           ended == [d EXCEPT !.conference = "TERMINATING", !.known = known]
           recovered == Recover(run, ended)
           leave == [Op("UNSUBSCRIBE", NoUser) EXCEPT !.delayed = TRUE]
           last == IF recovered.subscription.state = "ACTIVE"
                   THEN PutStandAlone(run, recovered, leave)
                   ELSE recovered
<1>0. c \in Sound
  BY DEF Settled, Base
<1>1. d \in Sound /\ d.known \in SUBSET Calls /\ d \in Controllers
  BY <1>0, ReadsCurrentUserSound, Fields
<1>2. Settles(c, d)
  BY <1>0, <1>1, ReadsCurrentUserQuiet, QuietSettles
<1> HIDE DEF d
<1>3. known \in SUBSET Calls
  BY <1>1
<1> HIDE DEF known
<1>4. ended \in Sound
  BY <1>1, <1>3, ConferenceSound
<1>5. Unread(d, ended)
  BY <1>1 DEF Unread, Controllers
<1> HIDE DEF ended
<1>6. Settles(d, ended)
  BY <1>2, <1>4, <1>5, UnreadQuiet, QuietSettles DEF Settles
<1>7. Settles(ended, recovered)
  BY <1>6, RecoverSettles DEF Settles
<1> HIDE DEF recovered
<1>8. Alone(leave)
  BY AloneOps
<1> HIDE DEF leave
<1>9. Settles(recovered, PutStandAlone(run, recovered, leave))
  BY <1>7, <1>8, PutStandAloneSettles DEF Settles
<1>10. Settles(recovered, last)
  BY <1>7, <1>9 DEF Settles, Kept
<1>11. ConferenceTerminated(run, c) = SendClosed(run, last)
  BY DEF ConferenceTerminated, recovered, ended, known, d, leave
<1> HIDE DEF last
<1>12. Settles(last, SendClosed(run, last))
  BY <1>10, SendClosedSettles DEF Settles
<1> QED
  BY <1>2, <1>6, <1>7, <1>10, <1>11, <1>12, SettlesTrans DEF Settles

-----------------------------------------------------------------------------
(* The operations.                                                         *)

\* StartConferenceCall leaves the controller settled.
LEMMA StartConferenceCallSettles ==
    ASSUME NEW run, SafeRun(run), NEW c, Settled(c)
    PROVE  Settles(c, StartConferenceCall(run, c))
<1> DEFINE d == [c EXCEPT !.conference = "OUTGOING"]
<1>1. c \in Sound /\ c \in Controllers /\ c.known \in SUBSET Calls
  BY Fields DEF Settled, Base
<1>2. [c EXCEPT !.conference = "OUTGOING", !.known = c.known] \in Sound
  BY <1>1, ConferenceSound
<1>3. [c EXCEPT !.conference = "OUTGOING", !.known = c.known] = d
  BY <1>1 DEF Controllers
<1>4. Unread(c, d)
  BY <1>1 DEF Unread, Controllers
<1>5. StartConferenceCall(run, c) =
    CASE c.conference = "IDLE" /\ "StartConference" \in c.refused ->
            ConferenceTerminated(run, c)
      [] c.conference = "IDLE" /\ "StartConference" \notin c.refused -> d
      [] OTHER -> c
  BY DEF StartConferenceCall
<1> HIDE DEF d
<1>6. Settles(c, d)
  BY <1>2, <1>3, <1>4, UnreadQuiet, QuietSettles
<1>7. Settles(c, c)
  BY DEF Settles, Kept
<1> QED
  BY <1>5, <1>6, <1>7, ConferenceTerminatedSettles

\* Another subscription leaves the controller settled.
LEMMA SubscriptionSetSettles ==
    ASSUME NEW c, Settled(c), NEW s \in Subscription \cup {NoSubscription}
    PROVE  Settles(c, [c EXCEPT !.subscription = s])
<1> DEFINE d == [c EXCEPT !.subscription = s]
<1>1. c \in Sound /\ c \in Controllers
  BY Fields DEF Settled, Base
<1>2. d \in Sound
  BY <1>1, SubscriptionSound
<1>3. Unread(c, d)
  BY <1>1 DEF Unread, Controllers
<1> HIDE DEF d
<1>4. Settles(c, d)
  BY <1>2, <1>3, UnreadQuiet, QuietSettles
<1> QED
  BY <1>4 DEF d

\* SUBSCRIBE and UNSUBSCRIBE change the subscription alone.
LEMMA SubscriptionOperationsUnread ==
    ASSUME NEW c \in Sound
    PROVE  /\ Unread(c, SubscribeConference(c))
           /\ Unread(c, StopSubscription(c))
<1>1. c \in Controllers
  BY Fields
<1>2. Unread(c, c)
  BY DEF Unread
<1>3. Unread(c, SubscribeConference(c))
  <2> DEFINE t == SendSubscribe(
            [state |-> "IDLE", interface |-> TRUE, waiting |-> FALSE,
             dialog |-> IF c.config.subscribe = "OUT_OF_DIALOG" THEN "OUT"
                        ELSE "IN",
             resubs |-> 0, sent |-> 0],
            "Subscribe" \in c.refused)
  <2>1. SubscribeConference(c) =
           IF c.subscription # NoSubscription THEN c
           ELSE [c EXCEPT !.subscription = t]
    BY DEF SubscribeConference
  <2> HIDE DEF t
  <2>2. Unread(c, [c EXCEPT !.subscription = t])
    BY <1>1 DEF Unread, Controllers
  <2> QED
    BY <1>2, <2>1, <2>2
<1>4. Unread(c, StopSubscription(c))
  <2> DEFINE s == [c.subscription EXCEPT
                      !.state = "UNSUBSCRIBING",
                      !.waiting = "Unsubscribe" \notin c.refused]
  <2>1. StopSubscription(c) =
            IF c.subscription.state \in {"SUBSCRIBING", "ACTIVE"}
            THEN [c EXCEPT !.subscription.state = "UNSUBSCRIBING",
                      !.subscription.waiting = "Unsubscribe" \notin c.refused]
            ELSE c
    BY DEF StopSubscription
  <2>2. [c EXCEPT !.subscription.state = "UNSUBSCRIBING",
                  !.subscription.waiting = "Unsubscribe" \notin c.refused] =
           [c EXCEPT !.subscription = s]
    BY <1>1 DEF Controllers
  <2> HIDE DEF s
  <2>3. Unread(c, [c EXCEPT !.subscription = s])
    BY <1>1 DEF Unread, Controllers
  <2> QED
    BY <1>2, <2>1, <2>2, <2>3
<1> QED
  BY <1>3, <1>4

\* So they leave the controller settled.
LEMMA SubscriptionOperationsSettle ==
    ASSUME NEW c, Settled(c)
    PROVE  /\ Settles(c, SubscribeConference(c))
           /\ Settles(c, StopSubscription(c))
<1>1. c \in Sound
  BY DEF Settled, Base
<1>2. Quiet(c, SubscribeConference(c)) /\ Quiet(c, StopSubscription(c))
  BY <1>1, SubscriptionOperationsUnread, UnreadQuiet
<1>3. SubscribeConference(c) \in Sound /\ StopSubscription(c) \in Sound
  BY <1>1, SubscriptionOperationsSound
<1> QED
  BY <1>2, <1>3, QuietSettles

\* A REFER that goes out has a name of its own, so of the references that
\* await an answer it adds at most itself.
LEMMA SendReferPending ==
    ASSUME NEW c, Ready(c), NEW p \in Participants, p <= c.added,
           NEW type \in {"INVITE", "BYE"}, NEW sent \in BOOLEAN,
           NEW d, d = SendRefer(c, p, type, sent)
    PROVE  /\ Base(d) /\ Kept(c, d) /\ d.queue = c.queue
           /\ InTime => \A r \in d.references :
                 Pending(d, r) => type = "BYE" /\ r.user = p
<1> DEFINE id == FreshReference(c)
           new == Sent(c, p, type, id)
<1>0. c \in Sound
  BY DEF Ready, Base
<1>1. /\ id \in ReferenceIds /\ id = FreshReference(c)
      /\ \A r \in c.references : r.id # id
  BY <1>0, FreshReferenceFacts
<1> HIDE DEF id
<1>2. d \in Sound /\ Referred(c, d, p, type, sent, id)
  BY <1>0, <1>1, SendReferFacts
<1>3. new.id = id /\ new.user = p /\ new.type = type
  BY DEF Sent
<1> HIDE DEF new
<1>4. NamesInv(d.references)
  BY <1>1, <1>2, <1>3 DEF NamesInv, Ready, Base, Referred, new
<1>5. JoinedInv(d.users, d.joined)
  BY <1>2 DEF JoinedInv, Ready, Base, Referred
<1>6. Base(d)
  BY <1>2, <1>4, <1>5 DEF Ready, Base, Referred
<1>7. ASSUME InTime, NEW r \in d.references, Pending(d, r)
      PROVE  type = "BYE" /\ r.user = p
  <2>1. CASE sent /\ r = new
    BY <1>3, <1>7, <2>1 DEF Pending
  <2>2. CASE ~(sent /\ r = new)
    <3>1. r \in c.references
      BY <1>2, <2>2 DEF Referred, new
    <3>2. r.user \in Participants /\ r.id # NoReference
      BY <1>0, <3>1, Fields DEF Reference, ReferenceIds, NoReference
    <3>3. r.id # id
      BY <1>1, <3>1
    <3>4. Pending(c, r)
      BY <1>2, <1>7, <3>2, <3>3 DEF Pending, Referred
    <3> QED
      BY <1>7, <3>1, <3>4 DEF Ready, NoBye
  <2> QED
    BY <2>1, <2>2
<1>8. Kept(c, d)
  BY <1>2 DEF Kept, Referred
<1> QED
  BY <1>2, <1>6, <1>7, <1>8 DEF Referred

\* InviteParticipants leaves the controller settled.
LEMMA InviteParticipantsSettles ==
    ASSUME NEW run, SafeRun(run), NEW c, Ready(c),
           NEW p \in Participants, p <= c.added
    PROVE  Settles(c, InviteParticipants(run, c, p))
<1> DEFINE cleared == ClearOngoingReferences(c)
           ready == StopFinalSipfragWaitTimer(cleared)
           sent == c.conference = "ESTABLISHED" /\ "ReferInvite" \notin c.refused
           sending == SendRefer(ready, p, "INVITE", sent)
<1>0. c \in Sound
  BY DEF Ready, Base
<1>1. cleared \in Sound /\ Quiet(c, cleared)
  BY <1>0, DropReferencesSound, DropReferencesQuiet DEF ClearOngoingReferences
<1>2. cleared.added = c.added
  BY <1>0, Fields DEF ClearOngoingReferences, DropReferences, Controllers
<1> HIDE DEF cleared
<1>3. ready \in Sound /\ Quiet(cleared, ready)
  BY <1>1, TimerOfSipfragSound, TimerOfSipfragQuiet, UnreadQuiet
<1>4. ready.added = c.added
  BY <1>1, <1>2, Fields DEF StopFinalSipfragWaitTimer, Controllers
<1>5. sent \in BOOLEAN
  OBVIOUS
<1>6. InviteParticipants(run, c, p) =
         IF sent THEN sending ELSE Recover(run, sending)
  BY DEF InviteParticipants, ready, cleared
<1> HIDE DEF ready, sent
<1>7. Ready(ready) /\ Kept(c, ready)
  BY <1>1, <1>3, QuietTrans, QuietReady
<1>8. /\ Base(sending) /\ Kept(ready, sending)
      /\ InTime => \A r \in sending.references : ~Pending(sending, r)
  BY <1>4, <1>5, <1>7, SendReferPending
<1> HIDE DEF sending
<1>9. Settled(sending) /\ Kept(c, sending)
  BY <1>7, <1>8 DEF Settled, ByeInv, Kept
<1>10. Settles(sending, Recover(run, sending))
  BY <1>9, RecoverSettles
<1> QED
  BY <1>6, <1>9, <1>10, SettlesTrans DEF Settles

\* RemoveParticipants leaves the REFER of its operation pending.
LEMMA RemoveParticipantsSettles ==
    ASSUME NEW c, Ready(c), NEW p \in Participants, p <= c.added,
           c.queue # << >>, c.queue[1].type = "REFER_BYE", c.queue[1].user = p
    PROVE  Settles(c, RemoveParticipants(c, p))
<1> DEFINE sent == c.conference = "ESTABLISHED" /\ "ReferBye" \notin c.refused
           sending == SendRefer(c, p, "BYE", sent)
<1>1. sent \in BOOLEAN
  OBVIOUS
<1>2. RemoveParticipants(c, p) = sending
  BY DEF RemoveParticipants
<1> HIDE DEF sent
<1>3. /\ Base(sending) /\ Kept(c, sending) /\ sending.queue = c.queue
      /\ InTime => \A r \in sending.references :
            Pending(sending, r) => r.user = p
  BY <1>1, SendReferPending
<1> HIDE DEF sending
<1>4. ByeInv(sending)
  BY <1>3 DEF ByeInv
<1> QED
  BY <1>2, <1>3, <1>4 DEF Settles, Settled

\* CheckUserEntityConnected leaves it settled.
LEMMA CheckUserEntityConnectedSettles ==
    ASSUME NEW run, SafeRun(run), NEW c, Settled(c), NEW p
    PROVE  Settles(c, CheckUserEntityConnected(run, c, p))
<1>1. Settles(c, UsesUser(c, p))
  BY UsesUserSound, UsesUserQuiet, QuietSettles DEF Settled, Base
<1>2. Settles(c, CompleteCurrentAndDoNextOperation(
                    run, c, "CHECK_CONNECTED", NoUser))
  BY CompleteOtherSettles DEF OperationTypes
<1> QED
  BY <1>1, <1>2 DEF CheckUserEntityConnected

\* The answer is the last operation of its command, so none is left when it
\* is given, and the controller is ready for the next command.
LEMMA NotifyCmdResultSettles ==
    ASSUME NEW run, SafeRun(run), NEW c, Ready(c), c.queue # << >>,
           c.queue[1].type = "NOTIFY_RESULT_TO_UI"
    PROVE  Settles(c, NotifyCmdResult(run, c))
<1> DEFINE told == CASE c.state = "MERGING" -> NotifyMergeResult(c)
                     [] c.state \in {"JOINING", "DROPPING"} ->
                           NotifyJoinOrDropResult(c)
                     [] OTHER -> c
           a == Answer(c)
           d == RemoveActiveOperation(told)
           done == CompleteCurrentAndDoNextOperation(
                       run, told, "NOTIFY_RESULT_TO_UI", NoUser)
           e == [done EXCEPT !.state = "IDLE"]
<1>0. c \in Sound
  BY DEF Ready, Base
<1>1. c.command # "NONE"
  BY HeadAsked DEF Ready, CommandTypes
<1>2. c.state \in {"MERGING", "JOINING", "DROPPING"}
  <2>1. c.state \in ControllerStates
    BY <1>0, Fields
  <2> QED
    BY <1>1, <2>1 DEF Ready, Base, IdleInv, ControllerStates
<1>3. told = IF c.state = "MERGING" THEN a ELSE NotifyUsersInfo(a)
  BY <1>2 DEF NotifyMergeResult, NotifyJoinOrDropResult
<1>4. NotifyCmdResult(run, c) = e
  BY DEF NotifyCmdResult
<1>5. /\ a \in Sound /\ a.command = "NONE" /\ a.unasked = c.unasked
      /\ a.queue = c.queue /\ a.state = c.state
      /\ a.lost = c.lost /\ a.joined = c.joined
      /\ a.needToStart = c.needToStart /\ a.delayTimer = c.delayTimer
      /\ a.users = c.users /\ a.list = c.list /\ a.references = c.references
  BY <1>0, <1>1, AnswerSound, AnswerFacts
<1> HIDE DEF a
<1>6. told \in Sound /\ Quiet(a, told)
  <2>1. Quiet(a, a)
    BY DEF Quiet
  <2> QED
    BY <1>3, <1>5, <2>1, NotifyUsersInfoSound, NotifyUsersInfoQuiet
<1> HIDE DEF told
<1>7. /\ told.queue = c.queue /\ told.state = c.state
      /\ told.command = "NONE" /\ told.unasked = c.unasked
      /\ told.lost = c.lost /\ told.needToStart = c.needToStart
      /\ told.delayTimer = c.delayTimer /\ (c.joined => told.joined)
  BY <1>5, <1>6 DEF Quiet
<1>8. JoinedInv(told.users, told.joined)
  BY <1>5, <1>6 DEF Quiet, JoinedInv, Ready, Base
<1>9. NamesInv(told.references)
  BY <1>5, <1>6 DEF Quiet, NamesInv, Ready, Base
<1>10. NoBye(told)
  <2>1. \A r \in told.references :
           Pending(told, r) => r \in a.references /\ Pending(a, r)
    BY <1>5, <1>6, PendingQuiet DEF Quiet
  <2> QED
    BY <1>5, <2>1 DEF NoBye, Ready, Pending
<1>11. /\ d \in Sound /\ Requeued(told, d) /\ d.queue = Tail(c.queue)
       /\ d.delayTimer = FALSE /\ d.needToStart = told.needToStart
  BY <1>6, <1>7, RemoveActiveSound, RemoveActiveFacts
<1>12. Ready(d) /\ d.command = "NONE"
  <2>1. /\ AskedInv(d.queue, "NONE") /\ LastInv(d.queue)
        /\ HangUpInv(d.queue, c.state, c.joined) /\ DelayInv(d.queue, FALSE)
    BY <1>0, <1>11, TailFacts DEF Ready, Base
  <2>2. HangUpInv(d.queue, d.state, d.joined)
    BY <1>7, <1>11, <2>1 DEF HangUpInv, Requeued
  <2>3. NoBye(d)
    BY <1>10, <1>11, RequeuedNoBye DEF Requeued
  <2>4. Base(d) /\ d.command = "NONE"
    BY <1>7, <1>8, <1>9, <1>11, <2>1, <2>2
       DEF Ready, Base, Requeued, IdleInv
  <2> QED
    BY <2>3, <2>4 DEF Ready
<1>13. done = run[d]
  <2>1. IsSameOperation(told, "NOTIFY_RESULT_TO_UI", NoUser)
    BY <1>0, <1>7, HeadFacts DEF IsSameOperation, TypeOfCurrentOperation
  <2> QED
    BY <2>1 DEF CompleteCurrentAndDoNextOperation
<1> HIDE DEF d, done
<1>14. Settled(done) /\ done.command = "NONE"
  BY <1>12, <1>13 DEF SafeRun, Settles, Kept
<1>15. e \in Sound /\ done \in Controllers
  BY <1>14, StateSound, Fields DEF Settled, Base, ControllerStates
<1>16. /\ e.state = "IDLE" /\ e.queue = done.queue
       /\ e.delayTimer = done.delayTimer /\ e.command = "NONE"
       /\ e.needToStart = done.needToStart
       /\ e.lost = done.lost /\ e.unasked = done.unasked /\ e.users = done.users
       /\ e.joined = done.joined /\ e.references = done.references
       /\ e.list = done.list
  BY <1>14, <1>15 DEF Controllers
<1> HIDE DEF e
<1>17. HangUpInv(e.queue, e.state, e.joined)
  <2>1. \A i \in DOMAIN done.queue : ~OfCommand(done.queue, i)
    BY <1>14 DEF Settled, Base, AskedInv
  <2> QED
    BY <1>16, <2>1 DEF HangUpInv, OfCommand, CommandTypes
<1>18. Base(e)
  BY <1>14, <1>15, <1>16, <1>17 DEF Settled, Base, IdleInv
<1>19. ByeInv(e)
  BY <1>14, <1>16 DEF Settled, ByeInv, Pending
<1> QED
  BY <1>4, <1>16, <1>18, <1>19 DEF Settles, Settled, Kept

\* The hang-up of a call comes when somebody has been connected.
LEMMA TerminateIndividualCallSettles ==
    ASSUME NEW run, SafeRun(run), NEW c, Ready(c), NEW p, c.queue # << >>,
           c.queue[1].type = "TERMINATE_1TO1_CALL"
    PROVE  Settles(c, TerminateIndividualCall(run, c, p))
<1> DEFINE call == c.users[p].call
           lost == c.lost \/ ~c.joined
           d == [c EXCEPT !.lost = lost]
           hungUp == IF call \in c.known /\ c.calls[call] = "ESTABLISHED"
                     THEN CallTerminated(run, d, call) ELSE c
<1>0. /\ c \in Sound /\ c \in Controllers /\ c.known \in SUBSET Calls
      /\ c.lost \in BOOLEAN
  BY Fields DEF Ready, Base
<1>1. c.joined
  <2>1. 1 \in DOMAIN c.queue
    <3>1. Len(c.queue) \in Nat \ {0} /\ DOMAIN c.queue = 1 .. Len(c.queue)
      BY <1>0, HeadFacts
    <3> QED
      BY <3>1
  <2>2. HangUpInv(c.queue, c.state, c.joined)
    BY DEF Ready, Base
  <2> QED
    BY <2>1, <2>2 DEF HangUpInv
<1>2. TerminateIndividualCall(run, c, p) =
         CompleteCurrentAndDoNextOperation(
            run, hungUp, "TERMINATE_1TO1_CALL", NoUser)
  BY DEF TerminateIndividualCall
<1>3. lost = c.lost
  BY <1>0, <1>1
<1> HIDE DEF lost, call
<1>4. d = c
  BY <1>0, <1>3 DEF Controllers
<1> HIDE DEF d
<1>5. Settled(c)
  BY ReadySettled
<1>6. Settles(c, hungUp)
  <2>1. call \in Calls => Settles(c, CallTerminated(run, c, call))
    BY <1>5, CallTerminatedSettles
  <2>2. Settles(c, c)
    BY <1>5 DEF Settles, Kept
  <2> QED
    BY <1>0, <1>4, <2>1, <2>2
<1> HIDE DEF hungUp
<1>7. Settles(hungUp, CompleteCurrentAndDoNextOperation(
                         run, hungUp, "TERMINATE_1TO1_CALL", NoUser))
  BY <1>6, CompleteOtherSettles DEF Settles, OperationTypes
<1> QED
  BY <1>2, <1>6, <1>7, SettlesTrans DEF Settles

\* TerminateConference leaves the controller settled.
LEMMA TerminateConferenceSettles ==
    ASSUME NEW run, SafeRun(run), NEW c, Settled(c)
    PROVE  Settles(c, TerminateConference(run, c))
<1> DEFINE d == IF c.conference = "TERMINATING" THEN c
                ELSE ConferenceTerminated(run, c)
<1>1. Settles(c, d)
  BY ConferenceTerminatedSettles DEF Settles, Kept
<1>2. TerminateConference(run, c) =
         CompleteCurrentAndDoNextOperation(run, d, "TERMINATE_CONFERENCE", NoUser)
  BY DEF TerminateConference
<1> HIDE DEF d
<1>3. Settles(d, CompleteCurrentAndDoNextOperation(
                    run, d, "TERMINATE_CONFERENCE", NoUser))
  BY <1>1, CompleteOtherSettles DEF Settles, OperationTypes
<1> QED
  BY <1>1, <1>2, <1>3, SettlesTrans DEF Settles

\* Every operation that is begun leaves it settled.
LEMMA BeginOperationSettles ==
    ASSUME NEW run, SafeRun(run), NEW c, Ready(c), c.queue # << >>
    PROVE  Settles(c, BeginOperation(run, c))
<1> DEFINE op == Head(c.queue)
<1>0. c \in Sound /\ Settled(c)
  BY ReadySettled DEF Ready, Base
<1>1. op \in Operation /\ op.user <= c.added /\ op = c.queue[1]
  BY <1>0, HeadFacts
<1>2. op.type \in UserOperationTypes => op.user \in Participants
  BY <1>1 DEF Operation
<1>3. op.type \in OperationTypes
  BY <1>1 DEF Operation, OperationTypes, UserOperationTypes
<1>4. /\ Settles(c, StartConferenceCall(run, c))
      /\ Settles(c, SubscribeConference(c))
      /\ Settles(c, StopSubscription(c))
      /\ Settles(c, CheckUserEntityConnected(run, c, op.user))
      /\ Settles(c, TerminateConference(run, c))
      /\ Settles(c, SendClosed(run, c))
  BY <1>0, StartConferenceCallSettles, SubscriptionOperationsSettle,
     CheckUserEntityConnectedSettles, TerminateConferenceSettles,
     SendClosedSettles
<1>5. Settles(c, CompleteCurrentAndDoNextOperation(
                    run, c, "NOTIFY_RESULT_TO_MTCCALL", NoUser))
  BY <1>0, CompleteOtherSettles DEF OperationTypes
<1>6. op.type = "REFER_INVITE" => Settles(c, InviteParticipants(run, c, op.user))
  BY <1>1, <1>2, InviteParticipantsSettles DEF UserOperationTypes
<1>7. op.type = "REFER_BYE" => Settles(c, RemoveParticipants(c, op.user))
  BY <1>1, <1>2, RemoveParticipantsSettles DEF UserOperationTypes
<1>8. op.type = "NOTIFY_RESULT_TO_UI" => Settles(c, NotifyCmdResult(run, c))
  BY <1>1, NotifyCmdResultSettles
<1>9. op.type = "TERMINATE_1TO1_CALL" =>
         Settles(c, TerminateIndividualCall(run, c, op.user))
  BY <1>1, TerminateIndividualCallSettles
<1>10. Settles(c, c)
  BY <1>0 DEF Settles, Kept
<1> QED
  BY <1>3, <1>4, <1>5, <1>6, <1>7, <1>8, <1>9, <1>10
     DEF BeginOperation, OperationTypes

\* So does each nesting of DoNextOperation.
LEMMA StartOperationSettles ==
    ASSUME NEW run, SafeRun(run), NEW c, Ready(c)
    PROVE  Settles(c, StartOperation(run, c))
<1> DEFINE d == [c EXCEPT !.delayTimer = TRUE]
<1>0. c \in Sound /\ Settled(c) /\ c \in Controllers
  BY ReadySettled, Fields DEF Ready, Base
<1>1. Settles(c, c)
  BY <1>0 DEF Settles, Kept
<1>2. ASSUME c.queue # << >>, Head(c.queue).delayed
      PROVE  Settles(c, d)
  <2>1. /\ Len(c.queue) \in Nat \ {0} /\ DOMAIN c.queue = 1 .. Len(c.queue)
        /\ Head(c.queue) = c.queue[1]
    BY <1>0, <1>2, HeadFacts
  <2>2. c.queue[1].type = "UNSUBSCRIBE"
    BY <1>2, <2>1 DEF Ready, Base, DelayInv
  <2>3. c.needToStart \in BOOLEAN /\ Named(c) /\ c.queue \in Seq(Operation)
    BY <1>0, Fields
  <2>4. [c EXCEPT !.queue = c.queue, !.needToStart = c.needToStart,
                  !.delayTimer = TRUE] \in Sound
    BY <1>0, <2>3, QueueSound DEF Named
  <2>5. [c EXCEPT !.queue = c.queue, !.needToStart = c.needToStart,
                  !.delayTimer = TRUE] = d
    BY <1>0 DEF Controllers
  <2>6. /\ Requeued(c, d) /\ d.queue = c.queue
        /\ d.needToStart = c.needToStart /\ d.delayTimer = TRUE
    BY <1>0 DEF Requeued, Controllers
  <2> HIDE DEF d
  <2>7. DelayInv(d.queue, d.delayTimer)
    BY <1>2, <2>2, <2>6 DEF Ready, Base, DelayInv
  <2>8. Base(d)
    BY <2>4, <2>5, <2>6, <2>7 DEF Ready, Base, Requeued
  <2>9. NoBye(d)
    BY <2>6, RequeuedNoBye DEF Requeued, Ready
  <2> QED
    BY <2>6, <2>8, <2>9, ReadySettled DEF Ready, Settles, Kept, Requeued
<1>3. c.queue # << >> => Settles(c, BeginOperation(run, c))
  BY BeginOperationSettles
<1>4. StartOperation(run, c) =
    CASE c.queue = << >> \/ c.life = "ABORTED" -> c
      [] c.queue # << >> /\ c.life # "ABORTED" /\ Head(c.queue).delayed -> d
      [] OTHER -> BeginOperation(run, c)
  BY DEF StartOperation
<1> HIDE DEF d
<1> QED
  BY <1>1, <1>2, <1>3, <1>4

\* However deep the operations nest.
LEMMA NextOperationsSafe ==
    ASSUME NEW n \in Nat
    PROVE  SafeRun(NextOperations[n])
<1> DEFINE T == {m \in Nat : ~SafeRun(NextOperations[m])}
<1>1. SUFFICES ASSUME T # {} PROVE FALSE
  OBVIOUS
<1>2. T \subseteq Nat
  OBVIOUS
<1>3. PICK m \in T : \A l \in T : m <= l
  BY <1>1, <1>2, FirstNumber
<1>4. m \in Nat /\ ~SafeRun(NextOperations[m])
  BY <1>3
<1>5. m # 0 => SafeRun(NextOperations[m - 1])
  <2> SUFFICES ASSUME m # 0, ~SafeRun(NextOperations[m - 1]) PROVE FALSE
    OBVIOUS
  <2>1. m - 1 \in Nat /\ ~(m <= m - 1)
    BY <1>4, SMT
  <2> QED
    BY <1>3, <2>1
<1> HIDE DEF T
<1>6. PICK c : Ready(c) /\ ~Settles(c, NextOperations[m][c])
  BY <1>4, NextOperationsSound DEF SafeRun
<1>7. c \in Controllers
  BY <1>6, Fields DEF Ready, Base
<1>8. Settles(c, [c EXCEPT !.life = "ABORTED"])
  BY <1>6, ReadySettled, LifeSettles
<1>9. m # 0 => Settles(c, StartOperation(NextOperations[m - 1], c))
  BY <1>5, <1>6, StartOperationSettles
<1> QED
  BY <1>4, <1>6, <1>7, <1>8, <1>9, NextOperationsValue

\* DoNextOperation leaves a ready controller settled.
LEMMA DoNextOperationSafe == SafeRun(DoNextOperation)
<1> SUFFICES ASSUME NEW c, Ready(c) PROVE Settles(c, DoNextOperation[c])
  BY DoNextOperationSound DEF SafeRun
<1>1. c \in Controllers /\ c.queue \in Seq(Operation)
  BY Fields DEF Ready, Base
<1>2. Len(c.queue) \in Nat
  BY <1>1, LenProperties
<1>3. Nestings(c) \in Nat
  BY <1>2 DEF Nestings
<1>4. DoNextOperation[c] = NextOperations[Nestings(c)][c]
  BY <1>1 DEF DoNextOperation
<1> QED
  BY <1>3, <1>4, NextOperationsSafe DEF SafeRun

-----------------------------------------------------------------------------
(* Commands.                                                               *)

\* Operations of one command: its answer is the last of them, a call is hung
\* up right after its participant is invited, and none is delayed.
WellFormed(ops) ==
    /\ LastInv(ops)
    /\ \A i \in DOMAIN ops : ops[i].type = "TERMINATE_1TO1_CALL" =>
          i > 1 /\ ops[i - 1].type = "REFER_INVITE"
    /\ \A i \in DOMAIN ops : ~ops[i].delayed

Unanswered(ops) == \A i \in DOMAIN ops : ops[i].type # "NOTIFY_RESULT_TO_UI"
Uncommanded(ops) == \A i \in DOMAIN ops : ~OfCommand(ops, i)

\* The places of one sequence behind another.
LEMMA ConcatFacts ==
    ASSUME NEW a \in Seq(Operation), NEW b \in Seq(Operation)
    PROVE  /\ Len(a) \in Nat /\ DOMAIN a = 1 .. Len(a)
           /\ Len(b) \in Nat /\ DOMAIN b = 1 .. Len(b)
           /\ DOMAIN (a \o b) = 1 .. Len(a) + Len(b)
           /\ \A i \in DOMAIN (a \o b) :
                 \/ i \in DOMAIN a /\ (a \o b)[i] = a[i]
                 \/ /\ i > Len(a) /\ i - Len(a) \in DOMAIN b
                    /\ (a \o b)[i] = b[i - Len(a)]
           /\ \A i \in DOMAIN a : i \in DOMAIN (a \o b) /\ (a \o b)[i] = a[i]
<1>1. /\ Len(a) \in Nat /\ DOMAIN a = 1 .. Len(a)
      /\ Len(b) \in Nat /\ DOMAIN b = 1 .. Len(b)
  BY LenProperties
<1>2. /\ a \o b \in Seq(Operation) /\ Len(a \o b) = Len(a) + Len(b)
      /\ \A i \in 1 .. Len(a) + Len(b) : (a \o b)[i] =
            IF i <= Len(a) THEN a[i] ELSE b[i - Len(a)]
  BY ConcatProperties
<1>3. DOMAIN (a \o b) = 1 .. Len(a) + Len(b)
  BY <1>2, LenProperties
<1>4. \A i \in 1 .. Len(a) + Len(b) :
         IF i <= Len(a) THEN i \in DOMAIN a
         ELSE i > Len(a) /\ i - Len(a) \in DOMAIN b
  BY <1>1, SMT
<1>5. \A i \in DOMAIN a : i \in 1 .. Len(a) + Len(b) /\ i <= Len(a)
  BY <1>1, SMT
<1> DEFINE q == a \o b
           n == Len(a)
<1>6. \A i \in DOMAIN q :
         \/ i \in DOMAIN a /\ q[i] = a[i]
         \/ i > n /\ i - n \in DOMAIN b /\ q[i] = b[i - n]
  BY <1>2, <1>3, <1>4
<1>7. \A i \in DOMAIN a : i \in DOMAIN q /\ q[i] = a[i]
  BY <1>2, <1>3, <1>5
<1> QED
  BY <1>1, <1>3, <1>6, <1>7

\* The operations of a command, put together.
LEMMA ConcatWellFormed ==
    ASSUME NEW a \in Seq(Operation), NEW b \in Seq(Operation),
           WellFormed(a), WellFormed(b), Unanswered(a) \/ Uncommanded(b)
    PROVE  /\ WellFormed(a \o b)
           /\ Unanswered(a) /\ Unanswered(b) => Unanswered(a \o b)
<1> DEFINE q == a \o b
           n == Len(a)
<1>1. /\ n \in Nat /\ DOMAIN a = 1 .. n
      /\ DOMAIN b = 1 .. Len(b) /\ Len(b) \in Nat
      /\ DOMAIN q = 1 .. n + Len(b)
      /\ \A i \in DOMAIN q :
            \/ i \in DOMAIN a /\ q[i] = a[i]
            \/ i > n /\ i - n \in DOMAIN b /\ q[i] = b[i - n]
      /\ \A i \in DOMAIN a : i \in DOMAIN q /\ q[i] = a[i]
  BY ConcatFacts
<1> HIDE DEF q, n
<1>2. LastInv(q)
  <2> SUFFICES ASSUME NEW i \in DOMAIN q, NEW j \in DOMAIN q, i < j,
                      q[i].type = "NOTIFY_RESULT_TO_UI"
               PROVE  ~OfCommand(q, j)
    BY DEF LastInv
  <2>1. i \in Int /\ j \in Int
    BY <1>1
  <2>2. CASE i \in DOMAIN a /\ q[i] = a[i]
    <3>1. ~Unanswered(a)
      BY <2>2 DEF Unanswered
    <3>2. CASE j \in DOMAIN a /\ q[j] = a[j]
      BY <2>2, <3>2 DEF WellFormed, LastInv, OfCommand
    <3>3. CASE j > n /\ j - n \in DOMAIN b /\ q[j] = b[j - n]
      BY <3>1, <3>3 DEF Uncommanded, OfCommand
    <3> QED
      BY <1>1, <3>2, <3>3
  <2>3. CASE i > n /\ i - n \in DOMAIN b /\ q[i] = b[i - n]
    <3>1. j \notin DOMAIN a
      BY <1>1, <2>1, <2>3
    <3>2. j - n \in DOMAIN b /\ q[j] = b[j - n]
      BY <1>1, <3>1
    <3>3. i - n < j - n
      BY <1>1, <2>1
    <3> QED
      BY <2>3, <3>2, <3>3 DEF WellFormed, LastInv, OfCommand
  <2> QED
    BY <1>1, <2>2, <2>3
<1>3. ASSUME NEW i \in DOMAIN q, q[i].type = "TERMINATE_1TO1_CALL"
      PROVE  i > 1 /\ q[i - 1].type = "REFER_INVITE"
  <2>1. CASE i \in DOMAIN a /\ q[i] = a[i]
    <3>1. i > 1 /\ a[i - 1].type = "REFER_INVITE"
      BY <1>3, <2>1 DEF WellFormed
    <3>2. i - 1 \in DOMAIN a
      BY <1>1, <2>1, <3>1
    <3> QED
      BY <1>1, <3>1, <3>2
  <2>2. CASE i > n /\ i - n \in DOMAIN b /\ q[i] = b[i - n]
    <3> DEFINE k == i - n
    <3>1. k \in DOMAIN b /\ b[k].type = "TERMINATE_1TO1_CALL"
      BY <1>3, <2>2
    <3> HIDE DEF k
    <3>2. k > 1 /\ b[k - 1].type = "REFER_INVITE"
      BY <3>1 DEF WellFormed
    <3>3. /\ k \in 1 .. Len(b) /\ n \in Nat /\ Len(b) \in Nat
          /\ i \in Int /\ k = i - n
      BY <1>1, <3>1 DEF k
    <3>5. i = k + n /\ i - 1 \in 1 .. n + Len(b) /\ i - 1 \notin 1 .. n
      BY <3>2, <3>3
    <3>6. i > 1 /\ (i - 1) - n = k - 1
      BY <3>2, <3>3
    <3>4. q[i - 1] = b[(i - 1) - n]
      BY <1>1, <3>5
    <3> QED
      BY <3>2, <3>4, <3>6
  <2> QED
    BY <1>1, <2>1, <2>2
<1>4. \A i \in DOMAIN q : ~q[i].delayed
  BY <1>1 DEF WellFormed
<1>5. Unanswered(a) /\ Unanswered(b) => Unanswered(q)
  BY <1>1 DEF Unanswered
<1>6. WellFormed(q)
  BY <1>2, <1>3, <1>4 DEF WellFormed
<1> QED
  BY <1>5, <1>6 DEF q

\* One operation of a command.
LEMMA SingleWellFormed ==
    ASSUME NEW type \in OperationTypes \ {"TERMINATE_1TO1_CALL"}, NEW user
    PROVE  /\ WellFormed(<<Op(type, user)>>)
           /\ type # "NOTIFY_RESULT_TO_UI" => Unanswered(<<Op(type, user)>>)
           /\ type \notin CommandTypes => Uncommanded(<<Op(type, user)>>)
<1> DEFINE s == <<Op(type, user)>>
<1>1. DOMAIN s = {1} /\ s[1] = Op(type, user)
  OBVIOUS
<1>2. s[1].type = type /\ s[1].delayed = FALSE
  BY <1>1 DEF Op
<1> HIDE DEF s
<1>3. LastInv(s)
  BY <1>1 DEF LastInv
<1>4. WellFormed(s)
  BY <1>1, <1>2, <1>3 DEF WellFormed
<1>5. type # "NOTIFY_RESULT_TO_UI" => Unanswered(s)
  BY <1>1, <1>2 DEF Unanswered
<1>6. type \notin CommandTypes => Uncommanded(s)
  BY <1>1, <1>2 DEF Uncommanded, OfCommand
<1> QED
  BY <1>4, <1>5, <1>6 DEF s

\* No operation of a command.
LEMMA EmptyWellFormed ==
    WellFormed(<< >>) /\ Unanswered(<< >>) /\ Uncommanded(<< >>)
<1>1. \A i \in DOMAIN << >> : FALSE
  OBVIOUS
<1> QED
  BY <1>1 DEF WellFormed, LastInv, Unanswered, Uncommanded

\* The operations that invite a participant.
LEMMA InviteWellFormed ==
    ASSUME NEW e, NEW p \in Participants
    PROVE  /\ InviteOperations(e, p) \in Seq(Operation)
           /\ WellFormed(InviteOperations(e, p))
           /\ Unanswered(InviteOperations(e, p))
<1> DEFINE a == <<Op("REFER_INVITE", p), Op("TERMINATE_1TO1_CALL", p)>>
           check == IF NotifyRequired(e) THEN <<Op("CHECK_CONNECTED", p)>>
                    ELSE << >>
<1>1. /\ Op("REFER_INVITE", p) \in Operation
      /\ Op("TERMINATE_1TO1_CALL", p) \in Operation
      /\ Op("CHECK_CONNECTED", p) \in Operation
  BY UserOps DEF UserOperationTypes
<1>2. /\ a \in Seq(Operation) /\ DOMAIN a = {1, 2}
      /\ a[1] = Op("REFER_INVITE", p) /\ a[2] = Op("TERMINATE_1TO1_CALL", p)
  BY <1>1
<1>3. check \in Seq(Operation)
  BY <1>1
<1>4. WellFormed(check) /\ Unanswered(check)
  <2>1. /\ WellFormed(<<Op("CHECK_CONNECTED", p)>>)
        /\ Unanswered(<<Op("CHECK_CONNECTED", p)>>)
    BY SingleWellFormed DEF OperationTypes
  <2> QED
    BY <2>1, EmptyWellFormed
<1>5. InviteOperations(e, p) = a \o check
  BY DEF InviteOperations
<1> HIDE DEF a, check
<1>6. WellFormed(a) /\ Unanswered(a)
  <2>1. /\ a[1].type = "REFER_INVITE" /\ a[2].type = "TERMINATE_1TO1_CALL"
        /\ a[1].delayed = FALSE /\ a[2].delayed = FALSE
    BY <1>2 DEF Op
  <2>2. Unanswered(a)
    BY <1>2, <2>1 DEF Unanswered
  <2>3. LastInv(a)
    BY <2>2 DEF LastInv, Unanswered
  <2> QED
    BY <1>2, <2>1, <2>2, <2>3 DEF WellFormed
<1>7. a \o check \in Seq(Operation)
  BY <1>2, <1>3, ConcatProperties
<1> QED
  BY <1>2, <1>3, <1>4, <1>5, <1>6, <1>7, ConcatWellFormed

\* The operation that subscribes, if it is wanted.
LEMMA SubscribeWellFormed ==
    ASSUME NEW e, NEW wanted
    PROVE  /\ SubscribeOperation(e, wanted) \in Seq(Operation)
           /\ WellFormed(SubscribeOperation(e, wanted))
           /\ Unanswered(SubscribeOperation(e, wanted))
           /\ Uncommanded(SubscribeOperation(e, wanted))
<1>1. Op("SUBSCRIBE", NoUser) \in Operation
  BY PlainOps DEF Plain, OperationTypes, UserOperationTypes
<1>2. /\ WellFormed(<<Op("SUBSCRIBE", NoUser)>>)
      /\ Unanswered(<<Op("SUBSCRIBE", NoUser)>>)
      /\ Uncommanded(<<Op("SUBSCRIBE", NoUser)>>)
  BY SingleWellFormed DEF OperationTypes, CommandTypes
<1> QED
  BY <1>1, <1>2, EmptyWellFormed DEF SubscribeOperation

\* A participant is added.
LEMMA AddUserSettles ==
    ASSUME NEW c, Settled(c), NEW call \in Calls \cup {NoCall},
           c.added < MaxParticipants
    PROVE  /\ Settles(c, AddUser(c, call))
           /\ AddUser(c, call).added = c.added + 1
           /\ c.added + 1 \in Participants
           /\ AddUser(c, call).state = c.state
<1> DEFINE p == c.added + 1
           u == [c.users EXCEPT ![p].call = call]
           d == AddUser(c, call)
<1>0. /\ c \in Sound /\ c \in Controllers /\ c.added \in Nat
      /\ c.users \in [Participants -> Participant]
  BY Fields DEF Settled, Base
<1>1. d \in Sound /\ d.added = p /\ p \in Participants
  BY <1>0, AddUserSound
<1>2. d = [c EXCEPT !.added = p, !.list = c.list \cup {p}, !.users = u]
  BY <1>0 DEF AddUser, Controllers
<1>3. \A q \in Participants :
         u[q].reference = c.users[q].reference /\ u[q].status = c.users[q].status
  BY <1>0, <1>1 DEF Participant
<1>4. \A r \in c.references : r.user \in Participants /\ r.user # p
  <2>1. \A r \in c.references : r.user \in Participants /\ r.user <= c.added
    BY <1>0, Fields DEF Named, Reference
  <2> QED
    BY <1>0, <2>1 DEF Participants
<1> HIDE DEF u, d, p
<1>5. /\ d.users = u /\ d.list = c.list \cup {p}
      /\ d.state = c.state /\ d.command = c.command
      /\ d.lost = c.lost /\ d.unasked = c.unasked
      /\ d.joined = c.joined /\ d.references = c.references
      /\ d.queue = c.queue /\ d.needToStart = c.needToStart
      /\ d.delayTimer = c.delayTimer
  BY <1>0, <1>2 DEF Controllers
<1>6. \A r \in d.references : Pending(d, r) => r \in c.references /\ Pending(c, r)
  BY <1>3, <1>4, <1>5 DEF Pending
<1>7. JoinedInv(d.users, d.joined)
  BY <1>3, <1>5 DEF Settled, Base, JoinedInv
<1>8. Base(d)
  BY <1>1, <1>5, <1>7 DEF Settled, Base
<1>9. ByeInv(d)
  BY <1>5, <1>6 DEF Settled, ByeInv
<1> QED
  BY <1>1, <1>5, <1>8, <1>9 DEF Settles, Settled, Kept, d, p

\* A command is accepted: nothing of an earlier one is left.
LEMMA AcceptSettled ==
    ASSUME NEW c, Settled(c), IsReadyToPerformCmd(c),
           NEW state \in {"MERGING", "JOINING", "DROPPING"},
           NEW command \in {"MERGE", "JOIN", "DROP"}
    PROVE  /\ Settled(Accept(c, state, command))
           /\ Accept(c, state, command).command # "NONE"
           /\ Accept(c, state, command).state = state
           /\ Accept(c, state, command).added = c.added
           /\ Uncommanded(Accept(c, state, command).queue)
<1> DEFINE d == Accept(c, state, command)
<1>0. c \in Sound /\ c \in Controllers
  BY Fields DEF Settled, Base
<1>1. d \in Sound /\ d.added = c.added
  BY <1>0, AcceptSound DEF ControllerStates
<1>2. /\ d.users = c.users /\ d.list = c.list
      /\ d.state = state /\ d.command = command
      /\ d.lost = c.lost /\ d.unasked = c.unasked
      /\ d.joined = c.joined /\ d.references = c.references
      /\ d.queue = c.queue /\ d.needToStart = c.needToStart
      /\ d.delayTimer = c.delayTimer
  BY <1>0 DEF Accept, Controllers
<1> HIDE DEF d
<1>3. Uncommanded(c.queue)
  <2>1. c.command = "NONE"
    BY DEF Settled, Base, IdleInv, IsReadyToPerformCmd
  <2> QED
    BY <2>1 DEF Settled, Base, AskedInv, Uncommanded
<1>4. AskedInv(d.queue, d.command) /\ HangUpInv(d.queue, d.state, d.joined)
  BY <1>2, <1>3
     DEF AskedInv, HangUpInv, Uncommanded, OfCommand, CommandTypes
<1>5. Base(d)
  BY <1>1, <1>2, <1>4 DEF Settled, Base, IdleInv
<1>6. ByeInv(d)
  BY <1>2 DEF Settled, ByeInv, Pending
<1> QED
  BY <1>1, <1>2, <1>3, <1>5, <1>6 DEF Settled, d

\* The operations of a command are added and begun.
LEMMA PutSetSettled ==
    ASSUME NEW run, SafeRun(run), NEW c, Settled(c), c.command # "NONE",
           Uncommanded(c.queue), NEW ops \in Operations(c), WellFormed(ops),
           (\E i \in DOMAIN ops : ops[i].type = "TERMINATE_1TO1_CALL")
              => c.state = "MERGING"
    PROVE  Settled(SetAddingOperationSetCompleted(run, PutSet(c, ops)))
<1> DEFINE q == c.queue \o ops
           n == Len(c.queue)
           need == c.queue = << >> /\ ops # << >>
           put == PutSet(c, ops)
           d == [c EXCEPT !.queue = q]
<1>0. /\ c \in Sound /\ c \in Controllers /\ c.queue \in Operations(c)
      /\ c.delayTimer \in BOOLEAN /\ c.needToStart = FALSE
      /\ c.queue \in Seq(Operation) /\ ops \in Seq(Operation)
  BY Fields DEF Settled, Base, Operations, Named
<1>1. q \in Operations(c)
  BY <1>0, ConcatOperations
<1>2. /\ n \in Nat /\ DOMAIN c.queue = 1 .. n
      /\ DOMAIN ops = 1 .. Len(ops) /\ Len(ops) \in Nat
      /\ DOMAIN q = 1 .. n + Len(ops)
      /\ \A i \in DOMAIN q :
            \/ i \in DOMAIN c.queue /\ q[i] = c.queue[i]
            \/ i > n /\ i - n \in DOMAIN ops /\ q[i] = ops[i - n]
      /\ \A i \in DOMAIN c.queue : i \in DOMAIN q /\ q[i] = c.queue[i]
  BY <1>0, ConcatFacts
<1>3. c.queue # << >> => /\ 1 \in DOMAIN c.queue /\ q[1] = c.queue[1]
                         /\ q # << >>
  <2>1. c.queue # << >> => n # 0
    BY <1>0, HeadFacts
  <2>2. c.queue # << >> => 1 \in DOMAIN c.queue /\ 1 \in DOMAIN q /\ q[1] = c.queue[1]
    BY <1>2, <2>1
  <2>3. DOMAIN << >> = {}
    OBVIOUS
  <2> QED
    BY <2>2, <2>3
<1>4. put = [c EXCEPT !.queue = q, !.needToStart = c.needToStart \/ need]
  BY DEF PutSet
<1>5. need \in BOOLEAN
  OBVIOUS
<1> HIDE DEF q, n, need
<1>6. put = [c EXCEPT !.queue = q, !.needToStart = need]
  <2>1. (c.needToStart \/ need) = need
    BY <1>0, <1>5
  <2> QED
    BY <1>4, <2>1
<1> HIDE DEF put
<1>7. put.needToStart = need /\ [put EXCEPT !.needToStart = FALSE] = d
      /\ (need = FALSE => put = d)
  BY <1>0, <1>6 DEF Controllers
<1>8. d \in Sound
  <2>1. q \in Seq(Operation) /\ \A i \in DOMAIN q : q[i].user <= c.added
    BY <1>1 DEF Operations
  <2>2. [c EXCEPT !.queue = q, !.needToStart = FALSE,
                  !.delayTimer = c.delayTimer] \in Sound
    BY <1>0, <2>1, QueueSound
  <2>3. [c EXCEPT !.queue = q, !.needToStart = FALSE,
                  !.delayTimer = c.delayTimer] = d
    BY <1>0 DEF Controllers
  <2> QED
    BY <2>2, <2>3
<1>9. /\ Requeued(c, d) /\ d.queue = q /\ d.needToStart = FALSE
      /\ d.delayTimer = c.delayTimer
  BY <1>0 DEF Requeued, Controllers
<1> HIDE DEF d
<1>10. LastInv(q)
  <2> SUFFICES ASSUME NEW i \in DOMAIN q, NEW j \in DOMAIN q, i < j,
                      q[i].type = "NOTIFY_RESULT_TO_UI"
               PROVE  ~OfCommand(q, j)
    BY DEF LastInv
  <2>1. i \notin DOMAIN c.queue
    BY <1>2 DEF Uncommanded, OfCommand, CommandTypes
  <2>2. i \in Int /\ j \in Int /\ i > n
    BY <1>2, <2>1
  <2>3. j \notin DOMAIN c.queue
    BY <1>2, <2>2
  <2>4. /\ i - n \in DOMAIN ops /\ q[i] = ops[i - n]
        /\ j - n \in DOMAIN ops /\ q[j] = ops[j - n]
    BY <1>2, <2>1, <2>3
  <2>5. i - n < j - n
    BY <1>2, <2>2
  <2> QED
    BY <2>4, <2>5 DEF WellFormed, LastInv, OfCommand
<1>11. HangUpInv(q, c.state, c.joined)
  <2> SUFFICES ASSUME NEW i \in DOMAIN q, q[i].type = "TERMINATE_1TO1_CALL"
               PROVE  /\ c.state = "MERGING"
                      /\ i # 1 /\ q[i - 1].type = "REFER_INVITE"
    BY DEF HangUpInv
  <2>1. i \notin DOMAIN c.queue
    BY <1>2 DEF Uncommanded, OfCommand, CommandTypes
  <2> DEFINE k == i - n
  <2>2. i > n /\ k \in DOMAIN ops /\ ops[k].type = "TERMINATE_1TO1_CALL"
    BY <1>2, <2>1
  <2>3. c.state = "MERGING"
    BY <2>2
  <2>4. k > 1 /\ ops[k - 1].type = "REFER_INVITE"
    BY <2>2 DEF WellFormed
  <2>5. /\ i \in Int /\ i > 1 /\ i - 1 \in DOMAIN q
        /\ i - 1 \notin DOMAIN c.queue /\ (i - 1) - n = k - 1
    BY <1>2, <2>2, <2>4
  <2>6. q[i - 1] = ops[(i - 1) - n]
    BY <1>2, <2>5
  <2> HIDE DEF k
  <2> QED
    BY <2>3, <2>4, <2>5, <2>6
<1>12. DelayInv(q, c.delayTimer)
  <2>1. \A i \in DOMAIN q : q[i].delayed => q[i].type = "UNSUBSCRIBE"
    BY <1>2 DEF Settled, Base, DelayInv, WellFormed
  <2>2. c.delayTimer => q # << >> /\ q[1].type = "UNSUBSCRIBE"
    BY <1>3 DEF Settled, Base, DelayInv
  <2> QED
    BY <2>1, <2>2 DEF DelayInv
<1>13. AskedInv(q, c.command)
  BY DEF AskedInv
<1>14. Base(d)
  BY <1>8, <1>9, <1>10, <1>11, <1>12, <1>13 DEF Settled, Base, Requeued
<1>15. ByeInv(d)
  BY <1>3, <1>9 DEF Settled, ByeInv, Requeued, Pending
<1>16. need => NoBye(d)
  <2>1. need => NoBye(c)
    BY HeadNoBye DEF Settled, need
  <2> QED
    BY <1>9, <2>1, RequeuedNoBye DEF Requeued
<1>17. need => Settled(run[d])
  BY <1>14, <1>16 DEF SafeRun, Settles, Ready
<1>18. SetAddingOperationSetCompleted(run, put) = IF need THEN run[d] ELSE d
  BY <1>5, <1>7 DEF SetAddingOperationSetCompleted
<1> QED
  BY <1>14, <1>15, <1>17, <1>18 DEF Settled, put

\* A command that is turned down changes nothing else.
LEMMA TurnDownSettles ==
    ASSUME NEW c, Settled(c)
    PROVE  Settles(c, TurnDown(c))
<1> DEFINE d == TurnDown(c)
<1>1. c \in Sound /\ c \in Controllers
  BY Fields DEF Settled, Base
<1>2. d \in Sound
  BY <1>1, TurnDownSound
<1>3. Unread(c, d)
  BY <1>1 DEF Unread, TurnDown, Controllers
<1> HIDE DEF d
<1>4. Settles(c, d)
  BY <1>2, <1>3, UnreadQuiet, QuietSettles
<1> QED
  BY <1>4 DEF d

\* NotifyUsersInfo leaves the controller settled.
LEMMA NotifyUsersInfoSettles ==
    ASSUME NEW c, Settled(c)
    PROVE  Settles(c, NotifyUsersInfo(c))
<1>1. c \in Sound
  BY DEF Settled, Base
<1> QED
  BY <1>1, NotifyUsersInfoSound, NotifyUsersInfoQuiet, QuietSettles

\* Put one after the other: each but the last holds no answer.
Commands(c) == {ops \in Operations(c) : WellFormed(ops)}
Parts(c) == {ops \in Commands(c) : Unanswered(ops)}

\* One part of the operations before the others.
LEMMA AddPart ==
    ASSUME NEW c, NEW a \in Parts(c), NEW b \in Commands(c)
    PROVE  /\ a \o b \in Commands(c)
           /\ b \in Parts(c) => a \o b \in Parts(c)
<1>1. a \o b \in Operations(c)
  BY ConcatOperations DEF Parts, Commands
<1>2. a \in Seq(Operation) /\ b \in Seq(Operation)
  BY DEF Parts, Commands, Operations
<1> QED
  BY <1>1, <1>2, ConcatWellFormed DEF Parts, Commands

\* And what is not of the command behind them.
LEMMA AddRest ==
    ASSUME NEW c, NEW a \in Commands(c), NEW b \in Commands(c), Uncommanded(b)
    PROVE  a \o b \in Commands(c)
<1>1. a \o b \in Operations(c)
  BY ConcatOperations DEF Commands
<1>2. a \in Seq(Operation) /\ b \in Seq(Operation)
  BY DEF Commands, Operations
<1> QED
  BY <1>1, <1>2, ConcatWellFormed DEF Commands

\* One operation that names nobody.
LEMMA PlainPart ==
    ASSUME NEW c \in Sound, NEW type \in OperationTypes \ UserOperationTypes
    PROVE  /\ <<Op(type, NoUser)>> \in Commands(c)
           /\ type # "NOTIFY_RESULT_TO_UI" => <<Op(type, NoUser)>> \in Parts(c)
           /\ type \notin CommandTypes => Uncommanded(<<Op(type, NoUser)>>)
<1>1. <<Op(type, NoUser)>> \in Operations(c)
  BY PlainOperation
<1>2. type \in OperationTypes \ {"TERMINATE_1TO1_CALL"}
  BY DEF UserOperationTypes
<1> QED
  BY <1>1, <1>2, SingleWellFormed DEF Commands, Parts

\* One operation that names a participant.
LEMMA UserPart ==
    ASSUME NEW c, NEW type \in {"REFER_INVITE", "REFER_BYE"},
           NEW p \in Participants, p <= c.added
    PROVE  <<Op(type, p)>> \in Parts(c)
<1>1. <<Op(type, p)>> \in Operations(c)
  BY UserOperation DEF UserOperationTypes
<1>2. WellFormed(<<Op(type, p)>>) /\ Unanswered(<<Op(type, p)>>)
  BY SingleWellFormed DEF OperationTypes
<1> QED
  BY <1>1, <1>2 DEF Commands, Parts

\* No operation.
LEMMA EmptyPart ==
    ASSUME NEW c
    PROVE  << >> \in Parts(c) /\ Uncommanded(<< >>)
BY NoOperation, EmptyWellFormed DEF Commands, Parts

\* The operations that invite a participant.
LEMMA InvitePart ==
    ASSUME NEW c, NEW e, NEW p \in Participants, p <= c.added
    PROVE  InviteOperations(e, p) \in Parts(c)
BY InviteOperationsSound, InviteWellFormed DEF Commands, Parts

\* The operation that subscribes, if it is wanted.
LEMMA SubscribePart ==
    ASSUME NEW c \in Sound, NEW e, NEW wanted
    PROVE  /\ SubscribeOperation(e, wanted) \in Parts(c)
           /\ Uncommanded(SubscribeOperation(e, wanted))
BY SubscribeOperationSound, SubscribeWellFormed DEF Commands, Parts

\* A command leaves the controller settled.
LEMMA CommandSettled ==
    ASSUME NEW run, SafeRun(run), NEW c, Settled(c), c.command # "NONE",
           Uncommanded(c.queue), NEW ops \in Commands(c),
           c.state = "MERGING"
           \/ \A i \in DOMAIN ops : ops[i].type # "TERMINATE_1TO1_CALL"
    PROVE  Settled(SetAddingOperationSetCompleted(run, PutSet(c, ops)))
BY PutSetSettled DEF Commands

\* StartMerge leaves the controller settled.
LEMMA MergeFirstSettled ==
    ASSUME NEW run, SafeRun(run), NEW c, Settled(c), IsReadyToPerformCmd(c),
           NEW first \in Calls, NEW second \in Calls,
           c.added + 2 <= MaxParticipants
    PROVE  Settled(MergeFirst(run, c, first, second))
<1> DEFINE one == AddUser(c, first)
           added == AddUser(one, second)
           p == c.added + 1
           accepted == Accept(added, "MERGING", "MERGE")
           plain(type) == <<Op(type, NoUser)>>
           copied == <<Op("CREATE_CONFERENCE_CALL", NoUser),
                       Op("NOTIFY_RESULT_TO_UI", NoUser)>>
           before == SubscribeOperation(c, SubscriptionFirst(c))
           after == SubscribeOperation(c, ~SubscriptionFirst(c))
           inv == InviteOperations(c, p)
           inv2 == InviteOperations(c, p + 1)
           referred == plain("CREATE_CONFERENCE_CALL") \o before \o inv \o inv2
                       \o plain("NOTIFY_RESULT_TO_UI") \o after
                       \o plain("NOTIFY_RESULT_TO_MTCCALL")
           operations == IF c.config.referType = "COPYCONTROL"
                         THEN copied ELSE referred
<1>0. c.added \in Nat /\ MaxParticipants \in Nat
  BY Fields, BoundsAssumption DEF Settled, Base
<1>1. c.added < MaxParticipants /\ c.added + 1 < MaxParticipants
  BY <1>0
<1>2. /\ Settles(c, one) /\ one.added = c.added + 1 /\ p \in Participants
      /\ one.state = c.state
  BY <1>1, AddUserSettles
<1> HIDE DEF one
<1>3. /\ Settles(one, added) /\ added.added = p + 1 /\ p + 1 \in Participants
      /\ added.state = c.state
  BY <1>1, <1>2, AddUserSettles DEF Settles
<1> HIDE DEF added
<1>4. /\ Settled(accepted) /\ accepted.added = p + 1
      /\ accepted.command # "NONE" /\ accepted.state = "MERGING"
      /\ Uncommanded(accepted.queue)
  BY <1>3, AcceptSettled DEF Settles, IsReadyToPerformCmd
<1> HIDE DEF accepted
<1>5. p <= accepted.added /\ p + 1 <= accepted.added /\ accepted \in Sound
  BY <1>0, <1>4 DEF Settled, Base
<1>6. /\ plain("CREATE_CONFERENCE_CALL") \in Parts(accepted)
      /\ plain("NOTIFY_RESULT_TO_UI") \in Commands(accepted)
      /\ plain("NOTIFY_RESULT_TO_MTCCALL") \in Commands(accepted)
      /\ Uncommanded(plain("NOTIFY_RESULT_TO_MTCCALL"))
  BY <1>5, PlainPart DEF OperationTypes, UserOperationTypes, CommandTypes
<1>7. inv \in Parts(accepted) /\ inv2 \in Parts(accepted)
  BY <1>2, <1>3, <1>5, InvitePart
<1>8. /\ before \in Parts(accepted) /\ after \in Commands(accepted)
      /\ Uncommanded(after)
  BY <1>5, SubscribePart DEF Parts
<1>9. copied = plain("CREATE_CONFERENCE_CALL") \o plain("NOTIFY_RESULT_TO_UI")
  <2>1. /\ Op("CREATE_CONFERENCE_CALL", NoUser) \in Operation
        /\ Op("NOTIFY_RESULT_TO_UI", NoUser) \in Operation
    BY PlainOps DEF Plain, OperationTypes, UserOperationTypes
  <2> QED
    BY <2>1
<1>10. MergeFirst(run, c, first, second) =
          SetAddingOperationSetCompleted(run, PutSet(accepted, operations))
  BY DEF MergeFirst, accepted, added, one
<1> HIDE DEF plain, copied, p, before, after, inv, inv2
<1>11. copied \in Commands(accepted)
  BY <1>6, <1>9, AddPart
<1>12. referred \in Commands(accepted)
  <2>0. \A a \in Parts(accepted) : a \in Commands(accepted)
    BY DEF Parts
  <2>1. plain("CREATE_CONFERENCE_CALL") \o before \in Parts(accepted)
    BY <1>6, <1>8, <2>0, AddPart
  <2>2. plain("CREATE_CONFERENCE_CALL") \o before \o inv \in Parts(accepted)
    BY <1>7, <2>0, <2>1, AddPart
  <2>3. plain("CREATE_CONFERENCE_CALL") \o before \o inv \o inv2 \in Parts(accepted)
    BY <1>7, <2>0, <2>2, AddPart
  <2>4. plain("CREATE_CONFERENCE_CALL") \o before \o inv \o inv2
        \o plain("NOTIFY_RESULT_TO_UI") \in Commands(accepted)
    BY <1>6, <2>3, AddPart
  <2>5. plain("CREATE_CONFERENCE_CALL") \o before \o inv \o inv2
        \o plain("NOTIFY_RESULT_TO_UI") \o after \in Commands(accepted)
    BY <1>8, <2>4, AddRest
  <2> QED
    BY <1>6, <2>5, AddRest
<1>13. operations \in Commands(accepted)
  BY <1>11, <1>12
<1> HIDE DEF operations
<1> QED
  BY <1>4, <1>10, <1>13, CommandSettled

\* An additional merge leaves the controller settled.
LEMMA MergeAnotherSettled ==
    ASSUME NEW run, SafeRun(run), NEW c, Settled(c), IsReadyToPerformCmd(c),
           NEW call \in Calls, c.added + 1 <= MaxParticipants
    PROVE  Settled(MergeAnother(run, c, call))
<1> DEFINE added == AddUser(c, call)
           p == c.added + 1
           accepted == Accept(added, "MERGING", "MERGE")
           inv == InviteOperations(c, p)
           last == <<Op("NOTIFY_RESULT_TO_UI", NoUser),
                     Op("NOTIFY_RESULT_TO_MTCCALL", NoUser)>>
           operations == inv \o last
<1>0. c.added \in Nat /\ MaxParticipants \in Nat
  BY Fields, BoundsAssumption DEF Settled, Base
<1>1. c.added < MaxParticipants
  BY <1>0
<1>2. /\ Settles(c, added) /\ added.added = p /\ p \in Participants
      /\ added.state = c.state
  BY <1>1, AddUserSettles
<1> HIDE DEF added
<1>3. /\ Settled(accepted) /\ accepted.added = p
      /\ accepted.command # "NONE" /\ accepted.state = "MERGING"
      /\ Uncommanded(accepted.queue)
  BY <1>2, AcceptSettled DEF Settles, IsReadyToPerformCmd
<1> HIDE DEF accepted
<1>4. p <= accepted.added /\ accepted \in Sound
  BY <1>0, <1>3 DEF Settled, Base
<1>5. /\ <<Op("NOTIFY_RESULT_TO_UI", NoUser)>> \in Commands(accepted)
      /\ <<Op("NOTIFY_RESULT_TO_MTCCALL", NoUser)>> \in Commands(accepted)
      /\ Uncommanded(<<Op("NOTIFY_RESULT_TO_MTCCALL", NoUser)>>)
  BY <1>4, PlainPart DEF OperationTypes, UserOperationTypes, CommandTypes
<1>6. last = <<Op("NOTIFY_RESULT_TO_UI", NoUser)>>
             \o <<Op("NOTIFY_RESULT_TO_MTCCALL", NoUser)>>
  <2>1. /\ Op("NOTIFY_RESULT_TO_MTCCALL", NoUser) \in Operation
        /\ Op("NOTIFY_RESULT_TO_UI", NoUser) \in Operation
    BY PlainOps DEF Plain, OperationTypes, UserOperationTypes
  <2> QED
    BY <2>1
<1>7. last \in Commands(accepted)
  BY <1>5, <1>6, AddRest
<1> HIDE DEF last
<1>8. inv \in Parts(accepted)
  BY <1>2, <1>4, InvitePart
<1>9. MergeAnother(run, c, call) =
          IF c.config.referType = "COPYCONTROL" THEN accepted
          ELSE SetAddingOperationSetCompleted(run, PutSet(accepted, operations))
  BY DEF MergeAnother, accepted, added, last
<1> HIDE DEF inv
<1>10. operations \in Commands(accepted)
  BY <1>7, <1>8, AddPart
<1> HIDE DEF operations
<1> QED
  BY <1>3, <1>9, <1>10, CommandSettled

\* A join leaves the controller settled.
LEMMA JoinSettled ==
    ASSUME NEW run, SafeRun(run), NEW c, Settled(c),
           c.added + 1 <= MaxParticipants
    PROVE  Settled(Join(run, c))
<1> DEFINE added == AddUser(c, NoCall)
           p == c.added + 1
           accepted == Accept(added, "JOINING", "JOIN")
           refer == IF c.config.referType = "REFER_SINGLE"
                    THEN <<Op("REFER_INVITE", p)>> ELSE << >>
           notify == IF c.config.referSub THEN << >>
                     ELSE <<Op("NOTIFY_RESULT_TO_UI", NoUser)>>
           operations == refer \o notify
<1>0. c.added \in Nat /\ MaxParticipants \in Nat
  BY Fields, BoundsAssumption DEF Settled, Base
<1>1. c.added < MaxParticipants
  BY <1>0
<1>2. /\ Settles(c, added) /\ added.added = p /\ p \in Participants
      /\ added.state = c.state
  BY <1>1, AddUserSettles
<1> HIDE DEF added
<1>3. ASSUME IsReadyToPerformCmd(c)
      PROVE  Settled(SetAddingOperationSetCompleted(
                         run, PutSet(accepted, operations)))
  <2>1. /\ Settled(accepted) /\ accepted.added = p
        /\ accepted.command # "NONE" /\ Uncommanded(accepted.queue)
    BY <1>2, <1>3, AcceptSettled DEF Settles, IsReadyToPerformCmd
  <2> HIDE DEF accepted
  <2>2. p <= accepted.added /\ accepted \in Sound
    BY <1>0, <2>1 DEF Settled, Base
  <2>3. notify \in Commands(accepted)
    BY <2>2, PlainPart, EmptyPart DEF OperationTypes, UserOperationTypes, Parts
  <2>4. refer \in Parts(accepted)
    BY <1>2, <2>2, UserPart, EmptyPart
  <2>5. \A i \in DOMAIN operations : operations[i].type # "TERMINATE_1TO1_CALL"
    BY DEF Op
  <2> HIDE DEF refer, notify
  <2>6. operations \in Commands(accepted)
    BY <2>3, <2>4, AddPart
  <2> HIDE DEF operations
  <2> QED
    BY <2>1, <2>5, <2>6, CommandSettled
<1>4. Settled(NotifyUsersInfo(TurnDown(added)))
  BY <1>2, TurnDownSettles, NotifyUsersInfoSettles DEF Settles
<1>5. Join(run, c) =
          IF IsReadyToPerformCmd(c)
          THEN SetAddingOperationSetCompleted(run, PutSet(accepted, operations))
          ELSE NotifyUsersInfo(TurnDown(added))
  BY DEF Join, added
<1> HIDE DEF operations, accepted
<1> QED
  BY <1>3, <1>4, <1>5

\* A drop leaves the controller settled.
LEMMA DropSettled ==
    ASSUME NEW run, SafeRun(run), NEW c, Settled(c), NEW p \in c.list
    PROVE  Settled(Drop(run, c, p))
<1> DEFINE accepted == Accept(c, "DROPPING", "DROP")
           operations == <<Op("REFER_BYE", p), Op("NOTIFY_RESULT_TO_UI", NoUser)>>
<1>0. p \in Participants /\ p <= c.added
  <2>1. p \in Participants /\ p \in 1 .. c.added /\ c.added \in Nat
    BY Fields DEF Named, Settled, Base
  <2> QED
    BY <2>1
<1>1. ASSUME IsReadyToPerformCmd(c)
      PROVE  Settled(SetAddingOperationSetCompleted(
                         run, PutSet(accepted, operations)))
  <2>1. /\ Settled(accepted) /\ accepted.added = c.added
        /\ accepted.command # "NONE" /\ Uncommanded(accepted.queue)
    BY <1>1, AcceptSettled
  <2> HIDE DEF accepted
  <2>2. <<Op("NOTIFY_RESULT_TO_UI", NoUser)>> \in Commands(accepted)
    BY <2>1, PlainPart DEF OperationTypes, UserOperationTypes, Settled, Base
  <2>3. <<Op("REFER_BYE", p)>> \in Parts(accepted)
    BY <1>0, <2>1, UserPart
  <2>4. operations = <<Op("REFER_BYE", p)>> \o <<Op("NOTIFY_RESULT_TO_UI", NoUser)>>
    <3>1. /\ Op("REFER_BYE", p) \in Operation
          /\ Op("NOTIFY_RESULT_TO_UI", NoUser) \in Operation
      BY <1>0, UserOps, PlainOps DEF Plain, OperationTypes, UserOperationTypes
    <3> QED
      BY <3>1
  <2>5. operations \in Commands(accepted)
    BY <2>2, <2>3, <2>4, AddPart
  <2>6. \A i \in DOMAIN operations : operations[i].type # "TERMINATE_1TO1_CALL"
    BY DEF Op
  <2> HIDE DEF operations
  <2> QED
    BY <2>1, <2>5, <2>6, CommandSettled
<1>2. Settled(NotifyUsersInfo(TurnDown(c)))
  BY TurnDownSettles, NotifyUsersInfoSettles DEF Settles
<1>3. Drop(run, c, p) =
          IF IsReadyToPerformCmd(c)
          THEN SetAddingOperationSetCompleted(run, PutSet(accepted, operations))
          ELSE NotifyUsersInfo(TurnDown(c))
  BY DEF Drop
<1> HIDE DEF operations, accepted
<1> QED
  BY <1>1, <1>2, <1>3

-----------------------------------------------------------------------------
(* The references.                                                         *)

\* The conference call is there.
LEMMA EstablishedSettles ==
    ASSUME NEW run, SafeRun(run), NEW c, Settled(c)
    PROVE  Settled(CompleteCurrentAndDoNextOperation(
               run, [c EXCEPT !.conference = "ESTABLISHED"],
               "CREATE_CONFERENCE_CALL", NoUser))
<1> DEFINE d == [c EXCEPT !.conference = "ESTABLISHED"]
<1>0. c \in Sound /\ c \in Controllers /\ c.known \in SUBSET Calls
  BY Fields DEF Settled, Base
<1>1. [c EXCEPT !.conference = "ESTABLISHED", !.known = c.known] \in Sound
  BY <1>0, ConferenceSound
<1>2. d = [c EXCEPT !.conference = "ESTABLISHED", !.known = c.known]
  BY <1>0 DEF Controllers
<1>3. Unread(c, d)
  BY <1>0 DEF Unread, Controllers
<1>4. d \in Sound
  BY <1>1, <1>2
<1> HIDE DEF d
<1>5. Settled(d)
  BY <1>3, <1>4, UnreadQuiet, QuietSettles DEF Settles
<1>6. Settled(CompleteCurrentAndDoNextOperation(
          run, d, "CREATE_CONFERENCE_CALL", NoUser))
  BY <1>5, CompleteOtherSettles DEF OperationTypes, Settles
<1> QED
  BY <1>6 DEF d

\* What has been heard of a REFER, which leaves it with the participant.
LEMMA BecomesSettled ==
    ASSUME NEW c, Settled(c), NEW r \in c.references, NEW q \in Reference,
           q.user = r.user, q.id = r.id, q.type = r.type,
           q.delivered = TRUE \/ q.heard # "NOTHING",
           NEW d, d = Becomes(c, r, q)
    PROVE  /\ Settled(d) /\ q \in d.references
           /\ UserOfReference(d, q) = UserOfReference(c, r)
           /\ TypeOfCurrentOperation(d) = TypeOfCurrentOperation(c)
<1>0. c \in Sound
  BY DEF Settled, Base
<1>1. /\ d \in Sound
      /\ d.references = (c.references \ {r}) \cup {q}
      /\ d.queue = c.queue /\ d.state = c.state /\ d.joined = c.joined
      /\ d.needToStart = c.needToStart /\ d.list = c.list
      /\ d.lost = c.lost /\ d.command = c.command
      /\ d.unasked = c.unasked /\ d.users = c.users
      /\ d.delayTimer = c.delayTimer
  BY <1>0, BecomesFacts
<1>2. NamesInv(d.references)
  BY <1>1 DEF Settled, Base, NamesInv
<1>3. Base(d)
  BY <1>1, <1>2 DEF Settled, Base
<1>4. \A t \in d.references : Pending(d, t) => t \in c.references /\ Pending(c, t)
  BY <1>1 DEF Pending
<1>5. ByeInv(d)
  BY <1>1, <1>4 DEF Settled, ByeInv
<1>6. /\ UserOfReference(d, q) = UserOfReference(c, r)
      /\ TypeOfCurrentOperation(d) = TypeOfCurrentOperation(c)
  BY <1>1 DEF UserOfReference, InList, TypeOfCurrentOperation
<1> QED
  BY <1>1, <1>3, <1>5, <1>6 DEF Settled

\* The REFER in progress is the one that is answered, so none is pending.
LEMMA ByeAnswered ==
    ASSUME NEW c, Settled(c), NEW r \in c.references,
           r.delivered = TRUE \/ r.heard # "NOTHING",
           UserOfReference(c, r) # NoUser,
           NEW d \in Sound, Quiet(c, d),
           IsSameOperation(d, "REFER_BYE", UserOfReference(c, r))
    PROVE  NoBye(d)
<1>1. /\ UserOfReference(c, r) = r.user
      /\ c.users[r.user].reference = r.id
  BY DEF UserOfReference
<1>2. d.queue # << >> /\ Head(d.queue).user = r.user
  BY <1>1 DEF IsSameOperation, TypeOfCurrentOperation
<1>3. d.queue[1].user = r.user /\ d.queue = c.queue
  BY <1>2, HeadFacts DEF Quiet
<1>4. \A t \in d.references : Pending(d, t) => t \in c.references /\ Pending(c, t)
  BY PendingQuiet DEF Quiet, Settled, Base
<1> SUFFICES ASSUME InTime, NEW t \in d.references, Pending(d, t)
             PROVE  FALSE
  BY DEF NoBye
<1>5. t \in c.references /\ Pending(c, t)
  BY <1>4
<1>6. t.user = r.user
  BY <1>3, <1>5 DEF Settled, ByeInv
<1>7. t.id = r.id
  BY <1>1, <1>5, <1>6 DEF Pending
<1>8. t = r
  BY <1>5, <1>7 DEF Settled, Base, NamesInv
<1> QED
  BY <1>5, <1>8 DEF Pending

\* A drop is ended by an outcome of its own.
Owned(c, r) ==
    InTime /\ r.type = "BYE" /\ TypeOfCurrentOperation(c) = "REFER_BYE"
        => UserOfReference(c, r) # NoUser

\* The removal of a participant is over.
LEMMA ByeCompleteSettles ==
    ASSUME NEW run, SafeRun(run), NEW c, Settled(c), NEW r \in c.references,
           r.delivered = TRUE \/ r.heard # "NOTHING",
           Owned(c, r), r.type = "BYE", NEW d \in Sound, Quiet(c, d)
    PROVE  Settles(c, CompleteCurrentAndDoNextOperation(
                          run, d, "REFER_BYE", UserOfReference(c, r)))
<1> DEFINE user == UserOfReference(c, r)
<1>1. Settles(c, d)
  BY QuietSettles
<1>2. IsSameOperation(d, "REFER_BYE", user) => NoBye(d)
  <2>1. ~InTime => NoBye(d)
    BY DEF NoBye
  <2>2. IsSameOperation(d, "REFER_BYE", user) =>
            TypeOfCurrentOperation(c) = "REFER_BYE"
    BY DEF IsSameOperation, Quiet, TypeOfCurrentOperation
  <2>3. InTime /\ IsSameOperation(d, "REFER_BYE", user) => user # NoUser
    BY <2>2 DEF Owned
  <2> QED
    BY <2>1, <2>3, ByeAnswered
<1> HIDE DEF user
<1>3. Settles(d, CompleteCurrentAndDoNextOperation(run, d, "REFER_BYE", user))
  BY <1>1, <1>2, CompleteSettles DEF Settles, OperationTypes
<1>4. Settles(c, CompleteCurrentAndDoNextOperation(run, d, "REFER_BYE", user))
  BY <1>1, <1>3, SettlesTrans DEF Settles
<1> QED
  BY <1>4 DEF user

\* The answer to a REFER leaves the controller settled.
LEMMA OnReferenceStartedSettles ==
    ASSUME NEW run, SafeRun(run), NEW c, Settled(c), NEW r \in c.references,
           r.delivered = TRUE \/ r.heard # "NOTHING", Owned(c, r)
    PROVE  Settles(c, OnReferenceStarted(run, c, r))
<1> DEFINE user == UserOfReference(c, r)
           d == SetStatus(c, user, "DISCONNECTED")
           x == IF c.config.referSub THEN user ELSE NoUser
           bye == CompleteCurrentAndDoNextOperation(run, d, "REFER_BYE", user)
           invite == CompleteCurrentAndDoNextOperation(run, c, "REFER_INVITE", x)
<1>0. c \in Sound /\ r \in Reference
  BY Fields DEF Settled, Base
<1>1. OnReferenceStarted(run, c, r) =
         CASE r.type = "BYE" -> bye
           [] r.type = "INVITE" /\ c.state = "JOINING" -> invite
           [] OTHER -> c
  BY DEF OnReferenceStarted
<1>2. d \in Sound /\ Quiet(c, d)
  BY <1>0, UserOfReferenceFacts, SetStatusSound, SetStatusQuiet DEF Status
<1> HIDE DEF d
<1>3. r.type = "BYE" => Settles(c, bye)
  BY <1>2, ByeCompleteSettles
<1> HIDE DEF x
<1>4. c.state = "JOINING" => Settles(c, invite)
  BY CompleteSettles DEF OperationTypes
<1>5. Settles(c, c)
  BY DEF Settles, Kept
<1> HIDE DEF bye, invite
<1> QED
  BY <1>1, <1>3, <1>4, <1>5

\* A notification for a REFER leaves it settled.
LEMMA OnReferenceUpdatedSettles ==
    ASSUME NEW run, SafeRun(run), NEW c, Settled(c), NEW r \in c.references,
           r.delivered = TRUE \/ r.heard # "NOTHING",
           NEW code, NEW terminated \in BOOLEAN, Owned(c, r)
    PROVE  Settles(c, OnReferenceUpdated(run, c, r, code, terminated))
<1> DEFINE user == UserOfReference(c, r)
           joins == Joins(c, r, code)
           updated == UpdateUserStatusByReferResult(joins, r, code)
           stopped == StopFinalSipfragWaitTimer(updated)
           bye == CompleteCurrentAndDoNextOperation(
                      run, updated, "REFER_BYE", user)
           final == CompleteCurrentAndDoNextOperation(
                        run, stopped, "REFER_INVITE", user)
           failed == Recover(run, stopped)
           timed == CheckNStartFinalSipfragWaitTimer(updated, FALSE)
           handled ==
            CASE r.type = "BYE" -> bye
              [] r.type = "INVITE" /\ code \in FinalSuccess -> final
              [] r.type = "INVITE" /\ code = "FAILURE" -> failed
              [] r.type = "INVITE" /\ code \in Provisional -> timed
              [] OTHER -> updated
<1>0. c \in Sound /\ r \in Reference
  BY Fields DEF Settled, Base
<1>1. user \in Participants \cup {NoUser}
  BY <1>0, UserOfReferenceFacts
<1>2. OnReferenceUpdated(run, c, r, code, terminated) =
        IF terminated THEN DropReferences(handled, {r}) ELSE handled
  BY DEF OnReferenceUpdated
<1>3. /\ joins \in Sound /\ Quiet(c, joins) /\ UserOfReference(joins, r) = user
      /\ r.type = "INVITE" /\ code \in FinalSuccess => joins.joined
  BY <1>0, JoinsFacts DEF Quiet
<1>4. updated \in Sound /\ Quiet(joins, updated)
  <2>1. updated = CASE code = "100" /\ r.type = "INVITE" ->
                           SetStatus(joins, user, "CONNECTING")
                    [] code = "200" /\ r.type = "INVITE" ->
                           SetStatus(joins, user, "CONNECTED")
                    [] code = "200" /\ r.type = "BYE" ->
                           SetStatus(joins, user, "DISCONNECTED")
                    [] OTHER -> joins
    BY <1>3 DEF UpdateUserStatusByReferResult
  <2> HIDE DEF updated, user, joins
  <2>2. \A status \in Status : /\ SetStatus(joins, user, status) \in Sound
                               /\ Quiet(joins, SetStatus(joins, user, status))
    BY <1>1, <1>3, SetStatusSound, SetStatusQuiet
  <2>3. "CONNECTING" \in Status /\ "CONNECTED" \in Status
        /\ "DISCONNECTED" \in Status
    BY DEF Status
  <2>4. Quiet(joins, joins)
    BY DEF Quiet
  <2> QED
    BY <1>3, <2>1, <2>2, <2>3, <2>4
<1> HIDE DEF updated
<1>5. /\ Settles(c, updated) /\ Quiet(c, updated)
      /\ r.type = "INVITE" /\ code \in FinalSuccess => updated.joined
  <2>1. Quiet(c, updated)
    BY <1>3, <1>4 DEF Quiet
  <2>2. r.type = "INVITE" /\ code \in FinalSuccess => updated.joined
    BY <1>3, <1>4 DEF Quiet
  <2> QED
    BY <1>4, <2>1, <2>2, QuietSettles
<1>6. r.type = "BYE" => Settles(c, bye)
  BY <1>4, <1>5, ByeCompleteSettles
<1>7. /\ stopped \in Sound /\ Unread(updated, stopped)
      /\ timed \in Sound /\ Unread(updated, timed)
  BY <1>4, TimerOfSipfragSound, TimerOfSipfragQuiet
<1>8. Settles(updated, stopped) /\ Settles(updated, timed)
  BY <1>5, <1>7, UnreadQuiet, QuietSettles DEF Settles
<1>9. stopped.joined = updated.joined
  BY <1>7 DEF Unread
<1> HIDE DEF user, joins, stopped, timed, bye
<1>10. Settles(stopped, failed)
  BY <1>8, RecoverSettles DEF Settles
<1>11. r.type = "INVITE" /\ code \in FinalSuccess => Settles(stopped, final)
  BY <1>5, <1>8, <1>9, CompleteSettles DEF Settles, OperationTypes
<1> HIDE DEF failed, final
<1>12. Settles(c, stopped) /\ Settles(c, timed)
  BY <1>5, <1>8, SettlesTrans DEF Settles
<1>13. Settles(c, failed)
  BY <1>10, <1>12, SettlesTrans DEF Settles
<1>14. r.type = "INVITE" /\ code \in FinalSuccess => Settles(c, final)
  BY <1>11, <1>12, SettlesTrans DEF Settles
<1>15. Settles(c, handled)
  BY <1>5, <1>6, <1>12, <1>13, <1>14
<1> HIDE DEF handled
<1>16. DropReferences(handled, {r}) \in Sound
       /\ Quiet(handled, DropReferences(handled, {r}))
  BY <1>15, DropReferencesSound, DropReferencesQuiet DEF Settles, Settled, Base
<1>17. Settles(c, DropReferences(handled, {r}))
  BY <1>15, <1>16, QuietSettles, SettlesTrans DEF Settles
<1> QED
  BY <1>2, <1>15, <1>17

-----------------------------------------------------------------------------
\* A drop that is rejected has not been answered, for its REFER is pending.
LEMMA ByeRejectedSettles ==
    ASSUME NEW c, Settled(c), NEW r \in c.references, r.type = "BYE",
           r.delivered = FALSE,
           InTime => r.heard = "NOTHING" /\ UserOfReference(c, r) # NoUser,
           NEW d, d = [ClearQueue(NotifyJoinOrDropResult(
                           StopFinalSipfragWaitTimer(c))) EXCEPT !.state = "IDLE"]
    PROVE  Settles(c, DropReferences(d, {r}))
<1> DEFINE s == StopFinalSipfragWaitTimer(c)
           a == Answer(s)
           n == NotifyUsersInfo(a)
           k == ClearQueue(n)
           e == DropReferences(d, {r})
<1>0. c \in Sound
  BY DEF Settled, Base
<1>1. InTime => r.user \in c.list /\ c.users[r.user].reference = r.id
  BY DEF UserOfReference, InList, NoUser
<1>2. InTime => Pending(c, r)
  BY <1>1 DEF Pending
<1>3. InTime => c.command # "NONE" /\ c.queue # << >>
                /\ c.queue[1].user = r.user
  BY <1>2, HeadAsked DEF Settled, ByeInv, CommandTypes
<1>4. s \in Sound /\ Unread(c, s)
  BY <1>0, TimerOfSipfragSound, TimerOfSipfragQuiet
<1> HIDE DEF s
<1>5. /\ a \in Sound /\ a.command = "NONE"
      /\ InTime => a.unasked = FALSE
      /\ a.lost = FALSE /\ a.joined = c.joined /\ a.needToStart = FALSE
      /\ a.users = c.users /\ a.list = c.list /\ a.references = c.references
  BY <1>3, <1>4, AnswerSound, AnswerFacts DEF Unread, Settled, Base
<1> HIDE DEF a
<1>6. n \in Sound /\ Quiet(a, n)
  BY <1>5, NotifyUsersInfoSound, NotifyUsersInfoQuiet
<1> HIDE DEF n
<1>7. /\ k \in Sound /\ Requeued(n, k) /\ k.queue = << >>
      /\ k.delayTimer = FALSE /\ k.needToStart = n.needToStart
  BY <1>6, ClearQueueSound, ClearQueueFacts
<1>8. d = [k EXCEPT !.state = "IDLE"]
  BY DEF NotifyJoinOrDropResult, k, n, a, s
<1> HIDE DEF k
<1>9. d \in Sound
  BY <1>7, <1>8, StateSound DEF ControllerStates
<1>10. k \in Controllers
  BY <1>7, Fields
<1>11. /\ d.queue = << >> /\ d.delayTimer = FALSE
       /\ d.command = k.command /\ d.needToStart = k.needToStart
       /\ d.lost = k.lost /\ d.unasked = k.unasked /\ d.users = k.users
       /\ d.joined = k.joined /\ d.references = k.references /\ d.list = k.list
  BY <1>7, <1>8, <1>10 DEF Controllers
<1>12. /\ e \in Sound /\ Quiet(d, e) /\ e.references = d.references \ {r}
  BY <1>9, DropReferencesSound, DropReferencesQuiet
<1> HIDE DEF e
<1>13. /\ e.queue = << >> /\ e.delayTimer = FALSE /\ e.command = "NONE"
       /\ e.needToStart = FALSE /\ e.lost = FALSE
       /\ InTime => e.unasked = FALSE
  BY <1>5, <1>6, <1>7, <1>11, <1>12 DEF Quiet, Requeued
<1>14. /\ e.references \subseteq c.references \ {r} /\ e.list \subseteq c.list
       /\ \A p \in Participants :
             e.users[p].reference \in {c.users[p].reference, NoReference}
  <2>1. e.references \subseteq c.references \ {r} /\ e.list \subseteq c.list
    BY <1>5, <1>6, <1>7, <1>11, <1>12 DEF Quiet, Requeued
  <2>2. \A p \in Participants :
           /\ e.users[p].reference \in {d.users[p].reference, NoReference}
           /\ n.users[p].reference \in {c.users[p].reference, NoReference}
           /\ d.users[p] = n.users[p]
    BY <1>5, <1>6, <1>7, <1>11, <1>12 DEF Quiet, Requeued
  <2> QED
    BY <2>1, <2>2
<1>15. JoinedInv(e.users, e.joined)
  <2>1. JoinedInv(c.users, c.joined)
    BY DEF Settled, Base
  <2>2. JoinedInv(n.users, n.joined)
    BY <1>5, <1>6, <2>1 DEF Quiet, JoinedInv
  <2>3. JoinedInv(d.users, d.joined)
    BY <1>7, <1>11, <2>2 DEF Requeued
  <2> QED
    BY <1>12, <2>3 DEF Quiet, JoinedInv
<1>16. NamesInv(e.references)
  BY <1>14 DEF Settled, Base, NamesInv
<1>17. NoBye(e)
  <2> SUFFICES ASSUME InTime, NEW t \in e.references, Pending(e, t)
               PROVE  FALSE
    BY DEF NoBye
  <2>1. t \in c.references /\ Pending(c, t)
    BY <1>0, <1>12, <1>14, PendingQuiet
  <2>2. t.user = r.user
    BY <1>3, <2>1 DEF Settled, ByeInv
  <2>3. t.id = r.id
    BY <1>1, <2>1, <2>2 DEF Pending
  <2>4. t = r
    BY <2>1, <2>3 DEF Settled, Base, NamesInv
  <2> QED
    BY <1>14, <2>4
<1>18. Ready(e)
  BY <1>12, <1>13, <1>15, <1>16, <1>17, EmptyReady
<1>19. Settles(c, e)
  BY <1>13, <1>18, ReadySettled DEF Settles, Kept
<1> QED
  BY <1>19 DEF e

\* The rejection of a REFER leaves it settled.
LEMMA OnReferenceStartFailedSettles ==
    ASSUME NEW run, SafeRun(run), NEW c, Settled(c), NEW r \in c.references,
           r.delivered = FALSE,
           InTime /\ r.type = "BYE" =>
               r.heard = "NOTHING" /\ UserOfReference(c, r) # NoUser
    PROVE  Settles(c, OnReferenceStartFailed(run, c, r))
<1> DEFINE s == StopFinalSipfragWaitTimer(c)
           bye == [ClearQueue(NotifyJoinOrDropResult(s)) EXCEPT !.state = "IDLE"]
           recovered == Recover(run, s)
           gone == {UserOfReference(recovered, r)}
           invite == RemoveUsers(recovered, gone)
<1>0. c \in Sound /\ r.user \in Participants
  BY Fields DEF Settled, Base, Reference
<1>1. OnReferenceStartFailed(run, c, r) =
         DropReferences(IF r.type = "BYE" THEN bye ELSE invite, {r})
  BY DEF OnReferenceStartFailed
<1>2. r.type = "BYE" => Settles(c, DropReferences(bye, {r}))
  BY ByeRejectedSettles
<1> HIDE DEF bye
<1>3. s \in Sound /\ Unread(c, s)
  BY <1>0, TimerOfSipfragSound, TimerOfSipfragQuiet
<1> HIDE DEF s
<1>4. Settles(c, s)
  BY <1>3, UnreadQuiet, QuietSettles
<1>5. Settles(s, recovered)
  BY <1>4, RecoverSettles DEF Settles
<1> HIDE DEF recovered, gone
<1>6. invite \in Sound /\ Quiet(recovered, invite)
  BY <1>5, RemoveUsersSound, RemoveUsersQuiet DEF Settles, Settled, Base
<1> HIDE DEF invite
<1>7. Settles(recovered, invite)
  BY <1>5, <1>6, QuietSettles DEF Settles
<1>8. DropReferences(invite, {r}) \in Sound
      /\ Quiet(invite, DropReferences(invite, {r}))
  BY <1>6, DropReferencesSound, DropReferencesQuiet
<1>9. Settles(invite, DropReferences(invite, {r}))
  BY <1>7, <1>8, QuietSettles DEF Settles
<1>10. Settles(c, DropReferences(invite, {r}))
  BY <1>4, <1>5, <1>7, <1>9, SettlesTrans DEF Settles
<1> QED
  BY <1>1, <1>2, <1>10

-----------------------------------------------------------------------------
(* The subscription.                                                       *)

\* Nothing but the subscription changes.
LEMMA SubscriptionFieldsSettle ==
    ASSUME NEW c, Settled(c), c.subscription # NoSubscription,
           NEW state \in {"IDLE", "SUBSCRIBING", "ACTIVE", "UNSUBSCRIBING"}
    PROVE  /\ Settles(c, [c EXCEPT !.subscription.waiting = FALSE])
           /\ Settles(c, [[c EXCEPT !.subscription.waiting = FALSE]
                             EXCEPT !.subscription.state = state])
           /\ Settles(c, [c EXCEPT !.subscription.state = state,
                                   !.subscription.waiting = FALSE])
           /\ Settles(c, Release(c))
<1> DEFINE s == c.subscription
           waited == [s EXCEPT !.waiting = FALSE]
           both == [s EXCEPT !.state = state, !.waiting = FALSE]
           released == [s EXCEPT !.interface = FALSE, !.waiting = FALSE]
<1>0. c \in Controllers /\ s \in Subscription
  BY Fields DEF Settled, Base
<1>1. waited \in Subscription /\ both \in Subscription /\ released \in Subscription
  <2> HIDE DEF s
  <2> QED
    BY <1>0 DEF Subscription
<1>2. [c EXCEPT !.subscription.waiting = FALSE] = [c EXCEPT !.subscription = waited]
  BY <1>0 DEF Controllers
<1>3. [[c EXCEPT !.subscription.waiting = FALSE] EXCEPT !.subscription.state = state]
         = [c EXCEPT !.subscription = both]
  BY <1>0 DEF Controllers, Subscription
<1>4. [c EXCEPT !.subscription.state = state, !.subscription.waiting = FALSE]
         = [c EXCEPT !.subscription = both]
  BY <1>0 DEF Controllers, Subscription
<1>5. Release(c) = [c EXCEPT !.subscription = released]
  BY <1>0 DEF Controllers, Subscription, Release
<1> HIDE DEF waited, both, released
<1> QED
  BY <1>1, <1>2, <1>3, <1>4, <1>5, SubscriptionSetSettles

\* What ends a SUBSCRIBE or UNSUBSCRIBE leaves it settled.
LEMMA SubscriptionEndsSettle ==
    ASSUME NEW run, SafeRun(run), NEW c, Settled(c)
    PROVE  /\ Settles(c, OnSubscriptionFailed(run, c))
           /\ Settles(c, OnSubscriptionSucceeded(run, c))
           /\ Settles(c, OnUnsubscribed(run, c))
<1> DEFINE d == CompleteCurrentAndDoNextOperation(run, c, "SUBSCRIBE", NoUser)
           e == CompleteCurrentAndDoNextOperation(run, c, "UNSUBSCRIBE", NoUser)
<1>1. Settles(c, d) /\ Settles(c, e)
  BY CompleteOtherSettles DEF OperationTypes
<1>2. Settles(c, c)
  BY DEF Settles, Kept
<1>3. /\ OnSubscriptionFailed(run, c) = [d EXCEPT !.subscription = NoSubscription]
      /\ OnSubscriptionSucceeded(run, c) = IF NotifyRequired(c) THEN c ELSE d
      /\ OnUnsubscribed(run, c) = e
  BY DEF OnSubscriptionFailed, OnSubscriptionSucceeded, OnUnsubscribed
<1> HIDE DEF d, e
<1>4. Settles(d, [d EXCEPT !.subscription = NoSubscription])
  BY <1>1, SubscriptionSetSettles DEF Settles
<1>5. Settles(c, [d EXCEPT !.subscription = NoSubscription])
  BY <1>1, <1>4, SettlesTrans DEF Settles
<1> QED
  BY <1>1, <1>2, <1>3, <1>5

\* The answer to a SUBSCRIBE leaves the controller settled.
LEMMA StartedSettles ==
    ASSUME NEW run, SafeRun(run), NEW c, Settled(c),
           c.subscription # NoSubscription
    PROVE  Settles(c, Started(run, c))
<1> DEFINE answered == [c EXCEPT !.subscription.waiting = FALSE]
           active == [answered EXCEPT !.subscription.state = "ACTIVE"]
           idle == [answered EXCEPT !.subscription.state = "IDLE"]
<1>1. Settles(c, answered) /\ Settles(c, active) /\ Settles(c, idle)
  BY SubscriptionFieldsSettle
<1>2. Started(run, c) =
    CASE c.subscription.state = "SUBSCRIBING" -> OnSubscriptionSucceeded(run, active)
      [] c.subscription.state = "UNSUBSCRIBING" -> OnUnsubscribed(run, idle)
      [] OTHER -> answered
  BY DEF Started
<1> HIDE DEF answered, active, idle
<1>3. /\ Settles(active, OnSubscriptionSucceeded(run, active))
      /\ Settles(idle, OnUnsubscribed(run, idle))
  BY <1>1, SubscriptionEndsSettle DEF Settles
<1>4. /\ Settles(c, OnSubscriptionSucceeded(run, active))
      /\ Settles(c, OnUnsubscribed(run, idle))
  BY <1>1, <1>3, SettlesTrans DEF Settles
<1> QED
  BY <1>1, <1>2, <1>4

\* The rejection of a SUBSCRIBE leaves the controller settled.
LEMMA StartFailedSettles ==
    ASSUME NEW run, SafeRun(run), NEW c, Settled(c),
           c.subscription # NoSubscription, NEW failure
    PROVE  Settles(c, StartFailed(run, c, failure))
<1> DEFINE s == c.subscription
           waited == [c EXCEPT !.subscription.waiting = FALSE]
           released == Release(c)
<1>0. c \in Sound
  BY DEF Settled, Base
<1>1. /\ s \in Subscription /\ s.dialog \in {"OUT", "IN", "FALLBACK"}
  BY <1>0, Fields DEF Subscription
<1>2. Settles(c, waited) /\ Settles(c, released)
  BY SubscriptionFieldsSettle
<1>3. ASSUME NEW dialog \in {"OUT", "IN", "FALLBACK"}
      PROVE  Settles(c, SubscribeAgain(c, dialog))
  <2> DEFINE sent == SendSubscribe([c.subscription EXCEPT !.dialog = dialog,
                                                          !.interface = TRUE,
                                                          !.waiting = FALSE],
                                   "Subscribe" \in c.refused)
  <2>1. sent \in Subscription
    BY <1>1 DEF SendSubscribe, Subscription
  <2>2. SubscribeAgain(c, dialog) = [c EXCEPT !.subscription = sent]
    BY DEF SubscribeAgain
  <2> HIDE DEF sent
  <2> QED
    BY <2>1, <2>2, SubscriptionSetSettles
<1>4. Settles(c, SubscribeAgain(c, "FALLBACK"))
      /\ Settles(c, SubscribeAgain(c, s.dialog))
  BY <1>1, <1>3
<1>5. StartFailed(run, c, failure) =
    CASE failure = "NoResponse" -> waited
      [] failure # "NoResponse" /\ s.state = "UNSUBSCRIBING" ->
            OnUnsubscribed(run, released)
      [] failure = "403" /\ s.state # "UNSUBSCRIBING" /\ s.dialog = "OUT" ->
            SubscribeAgain(c, "FALLBACK")
      [] failure = "423" /\ s.state # "UNSUBSCRIBING" ->
            SubscribeAgain(c, s.dialog)
      [] OTHER -> OnSubscriptionFailed(run, released)
  BY DEF StartFailed
<1> HIDE DEF s, waited, released
<1>6. /\ Settles(released, OnUnsubscribed(run, released))
      /\ Settles(released, OnSubscriptionFailed(run, released))
  BY <1>2, SubscriptionEndsSettle DEF Settles
<1>7. /\ Settles(c, OnUnsubscribed(run, released))
      /\ Settles(c, OnSubscriptionFailed(run, released))
  BY <1>2, <1>6, SettlesTrans DEF Settles
<1> QED
  BY <1>2, <1>4, <1>5, <1>7

\* The end of the subscription leaves it settled.
LEMMA OnSubscriptionTerminatedSettles ==
    ASSUME NEW run, SafeRun(run), NEW c, Settled(c),
           c.subscription # NoSubscription
    PROVE  Settles(c, OnSubscriptionTerminated(run, c))
<1> DEFINE idle == [c EXCEPT !.subscription.state = "IDLE",
                             !.subscription.waiting = FALSE]
           d == OnUnsubscribed(run, idle)
           op == Op("TERMINATE_CONFERENCE", NoUser)
<1>1. Settles(c, idle)
  BY SubscriptionFieldsSettle
<1>2. OnSubscriptionTerminated(run, c) = PutStandAlone(run, d, op)
  BY DEF OnSubscriptionTerminated
<1> HIDE DEF idle
<1>3. Settles(idle, d)
  BY <1>1, SubscriptionEndsSettle DEF Settles
<1>4. Alone(op)
  BY AloneOps
<1> HIDE DEF d, op
<1>5. Settles(d, PutStandAlone(run, d, op))
  BY <1>3, <1>4, PutStandAloneSettles DEF Settles
<1> QED
  BY <1>1, <1>2, <1>3, <1>5, SettlesTrans DEF Settles

\* A notification of the event package leaves it settled.
LEMMA OnNotifyReceivedSettles ==
    ASSUME NEW run, SafeRun(run), NEW c, Settled(c)
    PROVE  Settles(c, OnNotifyReceived(run, c))
<1> DEFINE first == CompleteCurrentAndDoNextOperation(run, c, "SUBSCRIBE", NoUser)
           notified == IF NotifyRequired(c) THEN first ELSE c
           op == Op("TERMINATE_CONFERENCE", NoUser)
           put == PutStandAlone(run, notified, op)
           alone == IF Remaining(notified) = {} THEN put ELSE notified
           told == NotifyUsersInfo(alone)
           done == CompleteCurrentAndDoNextOperation(
                       run, told, "CHECK_CONNECTED", NoUser)
<1>1. Settles(c, c)
  BY DEF Settles, Kept
<1>2. Settles(c, first)
  BY CompleteOtherSettles DEF OperationTypes
<1> HIDE DEF first
<1>3. Settles(c, notified)
  BY <1>1, <1>2
<1>4. OnNotifyReceived(run, c) = IF notified.list = {} THEN notified ELSE done
  BY DEF OnNotifyReceived, first
<1> HIDE DEF notified
<1>5. Alone(op)
  BY AloneOps
<1> HIDE DEF op
<1>6. Settles(notified, put)
  BY <1>3, <1>5, PutStandAloneSettles DEF Settles
<1> HIDE DEF put
<1>7. Settles(c, alone)
  BY <1>3, <1>6, SettlesTrans DEF Settles
<1> HIDE DEF alone
<1>8. Settles(alone, told)
  BY <1>7, NotifyUsersInfoSettles DEF Settles
<1> HIDE DEF told
<1>9. Settles(told, done)
  BY <1>8, CompleteOtherSettles DEF Settles, OperationTypes
<1>10. Settles(c, done)
  BY <1>7, <1>8, <1>9, SettlesTrans DEF Settles
<1> QED
  BY <1>3, <1>4, <1>10

\* A participant changes in the event package.
LEMMA UpdateParticipantSettles ==
    ASSUME NEW c, Settled(c), NEW p \in Participants, NEW status \in Status
    PROVE  Settles(c, UpdateParticipant(c, p, status))
<1> DEFINE e == SetStatus(c, p, status)
           u == [e.users EXCEPT ![p].infoUpdated = TRUE]
           d == UpdateParticipant(c, p, status)
<1>0. c \in Sound
  BY DEF Settled, Base
<1>1. e \in Sound /\ Quiet(c, e) /\ d \in Sound
  BY <1>0, SetStatusSound, SetStatusQuiet, UpdateParticipantSound
<1>2. d = [e EXCEPT !.users[p].infoUpdated = TRUE]
  BY DEF UpdateParticipant
<1> HIDE DEF e
<1>3. e \in Controllers /\ e.users \in [Participants -> Participant]
  BY <1>1, Fields
<1>4. d = [e EXCEPT !.users = u]
  BY <1>2, <1>3 DEF Controllers
<1>5. \A q \in Participants : /\ u[q].reference = e.users[q].reference
                              /\ u[q].status = e.users[q].status
  BY <1>3 DEF Participant
<1> HIDE DEF u, d
<1>6. /\ d.users = u /\ d.joined = e.joined
      /\ d.queue = e.queue /\ d.state = e.state /\ d.command = e.command
      /\ d.needToStart = e.needToStart /\ d.lost = e.lost
      /\ d.unasked = e.unasked /\ d.delayTimer = e.delayTimer
      /\ d.references = e.references /\ d.list = e.list
  BY <1>3, <1>4 DEF Controllers
<1>7. Quiet(e, d)
  BY <1>5, <1>6 DEF Quiet
<1>8. Settles(c, d)
  BY <1>1, <1>7, QuietTrans, QuietSettles
<1> QED
  BY <1>8 DEF d

\* A subscription is renewed.
LEMMA ReSubscribeSettles ==
    ASSUME NEW run, SafeRun(run), NEW c, Settled(c),
           c.subscription # NoSubscription
    PROVE  Settles(c, ReSubscribe(run, c))
<1> DEFINE s == c.subscription
           count == IF c.config.trace THEN s.resubs + 1 ELSE s.resubs
           t == [s EXCEPT !.resubs = count]
           n == [t EXCEPT !.state = "SUBSCRIBING", !.waiting = TRUE,
                          !.sent = @ + 1]
           tried == [c EXCEPT !.subscription.resubs = count]
           new == [tried EXCEPT !.subscription.state = "SUBSCRIBING",
                                !.subscription.waiting = TRUE,
                                !.subscription.sent = @ + 1]
           released == Release(tried)
<1>1. s \in Subscription /\ c \in Controllers
  BY Fields DEF Settled, Base
<1>2. count \in Nat
  BY <1>1 DEF Subscription
<1>3. ReSubscribe(run, c) =
         IF /\ count <= MAX_RESUBS_COUNT
            /\ s.interface /\ "Subscribe" \notin c.refused
         THEN new ELSE OnSubscriptionFailed(run, released)
  BY DEF ReSubscribe
<1> HIDE DEF count
<1>4. t \in Subscription /\ n \in Subscription
  <2> HIDE DEF s
  <2>1. t \in Subscription
    BY <1>1, <1>2 DEF Subscription
  <2>2. t.sent + 1 \in Nat
    BY <2>1 DEF Subscription
  <2> HIDE DEF t
  <2>3. n \in Subscription
    BY <2>1, <2>2 DEF Subscription
  <2> QED
    BY <2>1, <2>3
<1>5. tried = [c EXCEPT !.subscription = t]
  BY <1>1 DEF Controllers
<1>6. new = [c EXCEPT !.subscription = n]
  BY <1>1 DEF Controllers, Subscription
<1> HIDE DEF t, n, tried, new
<1>7. Settles(c, tried) /\ Settles(c, new)
  BY <1>4, <1>5, <1>6, SubscriptionSetSettles
<1>8. tried.subscription # NoSubscription
  <2>1. tried.subscription = t
    BY <1>1, <1>5 DEF Controllers
  <2> QED
    BY <1>4, <2>1 DEF Subscription, NoSubscription
<1>9. Settles(tried, released)
  BY <1>7, <1>8, SubscriptionFieldsSettle DEF Settles
<1> HIDE DEF released
<1>10. Settles(released, OnSubscriptionFailed(run, released))
  BY <1>9, SubscriptionEndsSettle DEF Settles
<1>11. Settles(c, OnSubscriptionFailed(run, released))
  BY <1>7, <1>9, <1>10, SettlesTrans DEF Settles
<1> HIDE DEF s
<1> QED
  BY <1>3, <1>7, <1>11

-----------------------------------------------------------------------------
(* Timers.                                                                 *)

\* The final-sipfrag timer runs out.
LEMMA FinalSipfragSettles ==
    ASSUME NEW run, SafeRun(run), NEW c, Settled(c)
    PROVE  Settles(c, Recover(run, [c EXCEPT !.sipfragTimer = FALSE]))
<1> DEFINE d == [c EXCEPT !.sipfragTimer = FALSE]
<1>1. c \in Sound /\ c \in Controllers /\ c.oneToOneEnded \in BOOLEAN
      /\ c.needToStart \in BOOLEAN
  BY Fields DEF Settled, Base
<1>2. [c EXCEPT !.sipfragTimer = FALSE, !.oneToOneEnded = c.oneToOneEnded,
                !.needToStart = c.needToStart] \in Sound
  BY <1>1, TimersSound
<1>3. d = [c EXCEPT !.sipfragTimer = FALSE, !.oneToOneEnded = c.oneToOneEnded,
                    !.needToStart = c.needToStart]
  BY <1>1 DEF Controllers
<1>4. d \in Sound /\ Unread(c, d)
  BY <1>1, <1>2, <1>3 DEF Unread, Controllers
<1> HIDE DEF d
<1>5. Settles(c, d)
  BY <1>4, UnreadQuiet, QuietSettles
<1>6. Settles(d, Recover(run, d))
  BY <1>5, RecoverSettles DEF Settles
<1>7. Settles(c, Recover(run, d))
  BY <1>5, <1>6, SettlesTrans DEF Settles
<1> QED
  BY <1>7 DEF d

\* The timer of a delayed operation runs out: it is the one in progress.
LEMMA DelayedSettles ==
    ASSUME NEW run, SafeRun(run), NEW c, Settled(c), c.delayTimer = TRUE
    PROVE  Settled(run[[c EXCEPT !.delayTimer = FALSE,
                                 !.queue[1].delayed = FALSE]])
<1> DEFINE d == [c EXCEPT !.delayTimer = FALSE, !.queue[1].delayed = FALSE]
<1>0. c \in Sound /\ c.queue \in Seq(Operation)
  BY Fields DEF Settled, Base
<1>1. c.queue # << >> /\ c.queue[1].type = "UNSUBSCRIBE"
  BY DEF Settled, Base, DelayInv
<1>2. Ready(c)
  BY <1>1, SettledReady
<1>3. /\ d \in Sound
      /\ DOMAIN d.queue = DOMAIN c.queue
      /\ \A i \in DOMAIN c.queue : d.queue[i].type = c.queue[i].type
                                   /\ d.queue[i].user = c.queue[i].user
      /\ \A i \in DOMAIN c.queue : d.queue[i].delayed => c.queue[i].delayed
      /\ d.delayTimer = FALSE
      /\ d.state = c.state /\ d.joined = c.joined
      /\ d.needToStart = c.needToStart /\ d.list = c.list
      /\ d.lost = c.lost /\ d.command = c.command
      /\ d.unasked = c.unasked /\ d.users = c.users
      /\ d.references = c.references
  BY <1>0, DelayedFacts
<1> HIDE DEF d
<1>4. Len(c.queue) \in Nat /\ DOMAIN c.queue = 1 .. Len(c.queue)
  BY <1>0, LenProperties
<1>5. AskedInv(d.queue, d.command)
  BY <1>3 DEF Settled, Base, AskedInv, OfCommand
<1>6. LastInv(d.queue)
  BY <1>3 DEF Settled, Base, LastInv, OfCommand
<1>7. HangUpInv(d.queue, d.state, d.joined)
  <2> SUFFICES ASSUME NEW i \in DOMAIN d.queue,
                      d.queue[i].type = "TERMINATE_1TO1_CALL"
               PROVE  /\ d.state = "MERGING"
                      /\ IF i = 1 THEN d.joined
                         ELSE d.queue[i - 1].type = "REFER_INVITE"
    BY DEF HangUpInv
  <2>1. i # 1 => i - 1 \in DOMAIN c.queue
    BY <1>3, <1>4
  <2>2. c.queue[i].type = "TERMINATE_1TO1_CALL"
    BY <1>3
  <2>3. /\ c.state = "MERGING"
        /\ IF i = 1 THEN c.joined ELSE c.queue[i - 1].type = "REFER_INVITE"
    BY <1>3, <2>2 DEF Settled, Base, HangUpInv
  <2> QED
    BY <1>3, <2>1, <2>3
<1>8. DelayInv(d.queue, d.delayTimer)
  BY <1>3 DEF Settled, Base, DelayInv
<1>9. Base(d)
  BY <1>3, <1>5, <1>6, <1>7, <1>8 DEF Settled, Base
<1>10. Ready(d)
  BY <1>2, <1>3, <1>9, RequeuedNoBye DEF Ready
<1>11. Settled(run[d])
  BY <1>10 DEF SafeRun, Settles
<1> QED
  BY <1>11 DEF d

-----------------------------------------------------------------------------
(* The steps.                                                              *)

\* What holds between two handlers, and what holds as long as none has come
\* too late.
Lasting(c) ==
    /\ c \in Sound
    /\ AskedInv(c.queue, c.command)
    /\ LastInv(c.queue)
    /\ HangUpInv(c.queue, c.state, c.joined)
    /\ DelayInv(c.queue, c.delayTimer)
    /\ IdleInv(c.state, c.command)
    /\ JoinedInv(c.users, c.joined)
    /\ NamesInv(c.references)
    /\ c.needToStart = FALSE /\ c.lost = FALSE

OnTime(c) ==
    /\ c.unasked = FALSE
    /\ \A r \in c.references : Pending(c, r) =>
          /\ c.queue # << >>
          /\ c.queue[1].type = "REFER_BYE" /\ c.queue[1].user = r.user

\* The inductive invariant.
ConferenceInv ==
    /\ surprises \subseteq Surprises
    /\ Lasting(ctl)
    /\ {"LATE_BYE", "LATE_FAILURE"} \cap surprises = {} => OnTime(ctl)

\* Both parts make a settled controller.
LEMMA SettledParts ==
    ASSUME NEW c
    PROVE  Settled(c) <=> Lasting(c) /\ (InTime => OnTime(c))
BY DEF Settled, Base, ByeInv, Lasting, OnTime

\* What came stays recorded.
Remembered == surprises \subseteq surprises' /\ surprises' \subseteq Surprises

\* A controller a handler is given or leaves.
Given(c) == c \in Sound /\ Settled(c)

Refusals == {{}} \cup {{kind} : kind \in Faults[ctl.config] \cap SendKinds}

\* Which sends are refused is no part of the invariant.
LEMMA RefusalSound ==
    ASSUME NEW c \in Sound, NEW refused \in SUBSET SendKinds,
           NEW d, d = [c EXCEPT !.refused = refused]
    PROVE  d \in Sound /\ Unread(c, d) /\ d.added = c.added
           /\ d.subscription = c.subscription
<1>0. c \in Controllers
  BY Fields
<1>1. d \in Controllers
  BY <1>0 DEF Controllers
<1>2. Unread(c, d) /\ d.added = c.added /\ d.subscription = c.subscription
  BY <1>0 DEF Controllers, Unread
<1> QED
  BY <1>1, <1>2, Renamed DEF Unread

\* A handler begins with the sends it is refused.
LEMMA HandlerBegins ==
    ASSUME ConferenceInv, Remembered, NEW refused \in Refusals,
           NEW c, c = [ctl EXCEPT !.refused = refused]
    PROVE  /\ Given(c) /\ Unread(ctl, c) /\ c.added = ctl.added
           /\ c.subscription = ctl.subscription
           /\ \A r : UserOfReference(c, r) = UserOfReference(ctl, r)
           /\ TypeOfCurrentOperation(c) = TypeOfCurrentOperation(ctl)
<1>0. ctl \in Sound /\ Settled(ctl)
  <2>1. InTime => {"LATE_BYE", "LATE_FAILURE"} \cap surprises = {}
    BY DEF InTime, Remembered
  <2> QED
    BY <2>1, SettledParts DEF ConferenceInv, Lasting
<1>1. refused \in SUBSET SendKinds
  BY DEF Refusals
<1>2. c \in Sound /\ Unread(ctl, c) /\ c.added = ctl.added
      /\ c.subscription = ctl.subscription
  BY <1>0, <1>1, RefusalSound
<1>3. Settled(c)
  BY <1>0, <1>2, UnreadQuiet, QuietSettles DEF Settles
<1>4. /\ \A r : UserOfReference(c, r) = UserOfReference(ctl, r)
      /\ TypeOfCurrentOperation(c) = TypeOfCurrentOperation(ctl)
  BY <1>2 DEF Unread, UserOfReference, InList, TypeOfCurrentOperation
<1> QED
  BY <1>2, <1>3, <1>4 DEF Given

\* And leaves none of that.
LEMMA HandlerEnds ==
    ASSUME NEW d, Given(d), Remembered, ctl' = [d EXCEPT !.refused = {}]
    PROVE  ConferenceInv'
<1> DEFINE e == [d EXCEPT !.refused = {}]
<1>1. e \in Sound /\ Unread(d, e)
  BY RefusalSound DEF Given
<1>2. Settled(e)
  BY <1>1, UnreadQuiet, QuietSettles DEF Given, Settles
<1> HIDE DEF e
<1>3. Lasting(e) /\ (InTime => OnTime(e))
  BY <1>2, SettledParts
<1>4. ctl' = e
  BY DEF e
<1> QED
  BY <1>3, <1>4 DEF ConferenceInv, InTime, Remembered, Lasting, OnTime, Pending

\* ProcessMerge of two calls.
LEMMA MergeStep ==
    ASSUME ConferenceInv, Remembered, ProcessMerge
    PROVE  ConferenceInv'
<1>1. PICK first \in Calls, second \in Calls, refused \in Refusals :
         ctl' = [MergeFirst(DoNextOperation, [ctl EXCEPT !.refused = refused],
                            first, second) EXCEPT !.refused = {}]
  BY DEF ProcessMerge, Handles, HandlesAfter, Refusals
<1> DEFINE c == [ctl EXCEPT !.refused = refused]
           d == MergeFirst(DoNextOperation, c, first, second)
<1>2. /\ Given(c) /\ Unread(ctl, c) /\ c.added = ctl.added
  BY HandlerBegins
<1> HIDE DEF c
<1>3. IsReadyToPerformCmd(c) /\ c.added + 2 <= MaxParticipants
  BY <1>2 DEF ProcessMerge, CommandIsGiven, IsReadyToPerformCmd, Unread
<1>4. d \in Sound
  BY <1>2, <1>3, MergeFirstSound, DoNextOperationSound DEF Given
<1>5. Settled(d)
  BY <1>2, <1>3, MergeFirstSettled, DoNextOperationSafe DEF Given
<1> HIDE DEF d
<1>6. ctl' = [d EXCEPT !.refused = {}]
  BY <1>1 DEF c, d
<1> QED
  BY <1>4, <1>5, <1>6, HandlerEnds DEF Given

\* ProcessMerge of one call.
LEMMA MergeOfOneStep ==
    ASSUME ConferenceInv, Remembered, ProcessMergeOfOne
    PROVE  ConferenceInv'
<1>1. PICK refused \in Refusals :
         ctl' = [SendClosed(DoNextOperation, TurnDown([ctl EXCEPT !.refused = refused]))
                    EXCEPT !.refused = {}]
  BY DEF ProcessMergeOfOne, Handles, HandlesAfter, Refusals
<1> DEFINE c == [ctl EXCEPT !.refused = refused]
           d == SendClosed(DoNextOperation, TurnDown(c))
<1>2. Given(c) /\ Unread(ctl, c) /\ c.added = ctl.added
      /\ c.subscription = ctl.subscription
  BY HandlerBegins
<1> HIDE DEF c
<1>3. d \in Sound
  BY <1>2, TurnDownSound, SendClosedSound, DoNextOperationSound DEF Given
<1>4. Settled(d)
  BY <1>2, TurnDownSettles, SendClosedSettles, DoNextOperationSafe DEF Given, Settles
<1> HIDE DEF d
<1>5. ctl' = [d EXCEPT !.refused = {}]
  BY <1>1 DEF c, d
<1> QED
  BY <1>3, <1>4, <1>5, HandlerEnds DEF Given

\* ProcessMerge of one more call.
LEMMA AdditionalMergeStep ==
    ASSUME ConferenceInv, Remembered, ProcessAdditionalMerge
    PROVE  ConferenceInv'
<1>1. PICK call \in Calls, refused \in Refusals :
         /\ ctl.added + 1 <= MaxParticipants
         /\ ctl' = [IF IsReadyToPerformCmd([ctl EXCEPT !.refused = refused])
                THEN MergeAnother(DoNextOperation, [ctl EXCEPT !.refused = refused], call)
                ELSE TurnDown([ctl EXCEPT !.refused = refused])
                    EXCEPT !.refused = {}]
  BY DEF ProcessAdditionalMerge, CommandIsGiven, Handles, HandlesAfter, Refusals
<1> DEFINE c == [ctl EXCEPT !.refused = refused]
           d == IF IsReadyToPerformCmd(c)
                THEN MergeAnother(DoNextOperation, c, call)
                ELSE TurnDown(c)
<1>2. Given(c) /\ Unread(ctl, c) /\ c.added = ctl.added
      /\ c.subscription = ctl.subscription
  BY HandlerBegins
<1> HIDE DEF c
<1>3. c.added + 1 <= MaxParticipants
  BY <1>1, <1>2
<1>4. d \in Sound
  BY <1>2, <1>3, MergeAnotherSound, TurnDownSound, DoNextOperationSound DEF Given
<1>5. Settled(d)
  BY <1>2, <1>3, MergeAnotherSettled, TurnDownSettles, DoNextOperationSafe DEF Given, Settles
<1> HIDE DEF d
<1>6. ctl' = [d EXCEPT !.refused = {}]
  BY <1>1 DEF c, d
<1> QED
  BY <1>4, <1>5, <1>6, HandlerEnds DEF Given

\* ProcessJoin.
LEMMA JoinStep ==
    ASSUME ConferenceInv, Remembered, ProcessJoin
    PROVE  ConferenceInv'
<1>1. PICK refused \in Refusals :
         ctl' = [Join(DoNextOperation, [ctl EXCEPT !.refused = refused])
                    EXCEPT !.refused = {}]
  BY DEF ProcessJoin, Handles, HandlesAfter, Refusals
<1> DEFINE c == [ctl EXCEPT !.refused = refused]
           d == Join(DoNextOperation, c)
<1>2. Given(c) /\ Unread(ctl, c) /\ c.added = ctl.added
      /\ c.subscription = ctl.subscription
  BY HandlerBegins
<1> HIDE DEF c
<1>3. c.added + 1 <= MaxParticipants
  BY <1>2 DEF ProcessJoin, CommandIsGiven
<1>4. d \in Sound
  BY <1>2, <1>3, JoinSound, DoNextOperationSound DEF Given
<1>5. Settled(d)
  BY <1>2, <1>3, JoinSettled, DoNextOperationSafe DEF Given, Settles
<1> HIDE DEF d
<1>6. ctl' = [d EXCEPT !.refused = {}]
  BY <1>1 DEF c, d
<1> QED
  BY <1>4, <1>5, <1>6, HandlerEnds DEF Given

\* ProcessDrop.
LEMMA DropStep ==
    ASSUME ConferenceInv, Remembered, ProcessDrop
    PROVE  ConferenceInv'
<1>1. PICK p \in ctl.list, refused \in Refusals :
         ctl' = [Drop(DoNextOperation, [ctl EXCEPT !.refused = refused], p)
                    EXCEPT !.refused = {}]
  BY DEF ProcessDrop, Handles, HandlesAfter, Refusals
<1> DEFINE c == [ctl EXCEPT !.refused = refused]
           d == Drop(DoNextOperation, c, p)
<1>2. Given(c) /\ Unread(ctl, c) /\ c.added = ctl.added
      /\ c.subscription = ctl.subscription
  BY HandlerBegins
<1> HIDE DEF c
<1>3. p \in c.list
  BY <1>2 DEF Unread
<1>4. d \in Sound
  BY <1>2, <1>3, DropSound, DoNextOperationSound DEF Given
<1>5. Settled(d)
  BY <1>2, <1>3, DropSettled, DoNextOperationSafe DEF Given, Settles
<1> HIDE DEF d
<1>6. ctl' = [d EXCEPT !.refused = {}]
  BY <1>1 DEF c, d
<1> QED
  BY <1>4, <1>5, <1>6, HandlerEnds DEF Given

\* The conference call is established.
LEMMA EstablishedStep ==
    ASSUME ConferenceInv, Remembered, ConferenceEstablished
    PROVE  ConferenceInv'
<1>1. PICK refused \in Refusals :
         ctl' = [CompleteCurrentAndDoNextOperation(
                   DoNextOperation, [[ctl EXCEPT !.refused = refused]
                                        EXCEPT !.conference = "ESTABLISHED"],
                   "CREATE_CONFERENCE_CALL", NoUser)
                    EXCEPT !.refused = {}]
  BY DEF ConferenceEstablished, Handles, HandlesAfter, Refusals
<1> DEFINE c == [ctl EXCEPT !.refused = refused]
           d == CompleteCurrentAndDoNextOperation(
                   DoNextOperation, [c EXCEPT !.conference = "ESTABLISHED"],
                   "CREATE_CONFERENCE_CALL", NoUser)
<1>2. Given(c) /\ Unread(ctl, c) /\ c.added = ctl.added
      /\ c.subscription = ctl.subscription
  BY HandlerBegins
<1> HIDE DEF c
<1>3. d \in Sound
  BY <1>2, EstablishedSound, DoNextOperationSound DEF Given
<1>4. Settled(d)
  BY <1>2, EstablishedSettles, DoNextOperationSafe DEF Given, Settles
<1> HIDE DEF d
<1>5. ctl' = [d EXCEPT !.refused = {}]
  BY <1>1 DEF c, d
<1> QED
  BY <1>3, <1>4, <1>5, HandlerEnds DEF Given

\* The conference call ends.
LEMMA ConferenceEndsStep ==
    ASSUME ConferenceInv, Remembered, ConferenceEnds
    PROVE  ConferenceInv'
<1>1. PICK refused \in Refusals :
         ctl' = [ConferenceTerminated(DoNextOperation, [ctl EXCEPT !.refused = refused])
                    EXCEPT !.refused = {}]
  BY DEF ConferenceEnds, Handles, HandlesAfter, Refusals
<1> DEFINE c == [ctl EXCEPT !.refused = refused]
           d == ConferenceTerminated(DoNextOperation, c)
<1>2. Given(c) /\ Unread(ctl, c) /\ c.added = ctl.added
      /\ c.subscription = ctl.subscription
  BY HandlerBegins
<1> HIDE DEF c
<1>3. d \in Sound
  BY <1>2, ConferenceTerminatedSound, DoNextOperationSound DEF Given
<1>4. Settled(d)
  BY <1>2, ConferenceTerminatedSettles, DoNextOperationSafe DEF Given, Settles
<1> HIDE DEF d
<1>5. ctl' = [d EXCEPT !.refused = {}]
  BY <1>1 DEF c, d
<1> QED
  BY <1>3, <1>4, <1>5, HandlerEnds DEF Given

\* An individual call ends.
LEMMA CallEndsStep ==
    ASSUME ConferenceInv, Remembered, NEW call \in Calls, IndividualCallEnds(call)
    PROVE  ConferenceInv'
<1>1. PICK refused \in Refusals :
         ctl' = [CallTerminated(DoNextOperation, [ctl EXCEPT !.refused = refused], call)
                    EXCEPT !.refused = {}]
  BY DEF IndividualCallEnds, Handles, HandlesAfter, Refusals
<1> DEFINE c == [ctl EXCEPT !.refused = refused]
           d == CallTerminated(DoNextOperation, c, call)
<1>2. Given(c) /\ Unread(ctl, c) /\ c.added = ctl.added
      /\ c.subscription = ctl.subscription
  BY HandlerBegins
<1> HIDE DEF c
<1>3. d \in Sound
  BY <1>2, CallTerminatedSound, DoNextOperationSound DEF Given
<1>4. Settled(d)
  BY <1>2, CallTerminatedSettles, DoNextOperationSafe DEF Given, Settles
<1> HIDE DEF d
<1>5. ctl' = [d EXCEPT !.refused = {}]
  BY <1>1 DEF c, d
<1> QED
  BY <1>3, <1>4, <1>5, HandlerEnds DEF Given

\* OnSubscriptionStarted.
LEMMA StartedStep ==
    ASSUME ConferenceInv, Remembered, SubscriptionStarted
    PROVE  ConferenceInv'
<1>1. PICK refused \in Refusals :
         ctl' = [Started(DoNextOperation, [ctl EXCEPT !.refused = refused])
                    EXCEPT !.refused = {}]
  BY DEF SubscriptionStarted, Handles, HandlesAfter, Refusals
<1> DEFINE c == [ctl EXCEPT !.refused = refused]
           d == Started(DoNextOperation, c)
<1>2. Given(c) /\ Unread(ctl, c) /\ c.added = ctl.added
      /\ c.subscription = ctl.subscription
  BY HandlerBegins
<1> HIDE DEF c
<1>3. c.subscription # NoSubscription
  BY <1>2 DEF SubscriptionStarted
<1>4. d \in Sound
  BY <1>2, <1>3, StartedSound, DoNextOperationSound DEF Given
<1>5. Settled(d)
  BY <1>2, <1>3, StartedSettles, DoNextOperationSafe DEF Given, Settles
<1> HIDE DEF d
<1>6. ctl' = [d EXCEPT !.refused = {}]
  BY <1>1 DEF c, d
<1> QED
  BY <1>4, <1>5, <1>6, HandlerEnds DEF Given

\* OnSubscriptionStartFailed.
LEMMA StartFailedStep ==
    ASSUME ConferenceInv, Remembered, SubscriptionStartFailed
    PROVE  ConferenceInv'
<1>1. PICK failure \in SubscribeFailures, refused \in Refusals :
         /\ ctl.subscription # NoSubscription
         /\ ctl' = [StartFailed(DoNextOperation, [ctl EXCEPT !.refused = refused], failure)
                    EXCEPT !.refused = {}]
  BY DEF SubscriptionStartFailed, Handles, HandlesAfter, Refusals
<1> DEFINE c == [ctl EXCEPT !.refused = refused]
           d == StartFailed(DoNextOperation, c, failure)
<1>2. Given(c) /\ Unread(ctl, c) /\ c.added = ctl.added
      /\ c.subscription = ctl.subscription
  BY HandlerBegins
<1> HIDE DEF c
<1>3. c.subscription # NoSubscription
  BY <1>1, <1>2
<1>4. d \in Sound
  BY <1>2, <1>3, StartFailedSound, DoNextOperationSound DEF Given
<1>5. Settled(d)
  BY <1>2, <1>3, StartFailedSettles, DoNextOperationSafe DEF Given, Settles
<1> HIDE DEF d
<1>6. ctl' = [d EXCEPT !.refused = {}]
  BY <1>1 DEF c, d
<1> QED
  BY <1>4, <1>5, <1>6, HandlerEnds DEF Given

\* OnSubscriptionTerminated.
LEMMA TerminatedStep ==
    ASSUME ConferenceInv, Remembered, SubscriptionTerminated
    PROVE  ConferenceInv'
<1>1. PICK refused \in Refusals :
         ctl' = [OnSubscriptionTerminated(DoNextOperation, [ctl EXCEPT !.refused = refused])
                    EXCEPT !.refused = {}]
  BY DEF SubscriptionTerminated, Handles, HandlesAfter, Refusals
<1> DEFINE c == [ctl EXCEPT !.refused = refused]
           d == OnSubscriptionTerminated(DoNextOperation, c)
<1>2. Given(c) /\ Unread(ctl, c) /\ c.added = ctl.added
      /\ c.subscription = ctl.subscription
  BY HandlerBegins
<1> HIDE DEF c
<1>3. c.subscription # NoSubscription
  BY <1>2 DEF SubscriptionTerminated, NoSubscription
<1>4. d \in Sound
  BY <1>2, <1>3, OnSubscriptionTerminatedSound, DoNextOperationSound DEF Given
<1>5. Settled(d)
  BY <1>2, <1>3, OnSubscriptionTerminatedSettles, DoNextOperationSafe DEF Given, Settles
<1> HIDE DEF d
<1>6. ctl' = [d EXCEPT !.refused = {}]
  BY <1>1 DEF c, d
<1> QED
  BY <1>4, <1>5, <1>6, HandlerEnds DEF Given

\* A notification that is out of order.
LEMMA OutOfOrderStep ==
    ASSUME ConferenceInv, Remembered, SubscriptionNotifyOutOfOrder
    PROVE  ConferenceInv'
<1>1. PICK refused \in Refusals :
         ctl' = [ReSubscribe(DoNextOperation, [ctl EXCEPT !.refused = refused])
                    EXCEPT !.refused = {}]
  BY DEF SubscriptionNotifyOutOfOrder, Handles, HandlesAfter, Refusals
<1> DEFINE c == [ctl EXCEPT !.refused = refused]
           d == ReSubscribe(DoNextOperation, c)
<1>2. Given(c) /\ Unread(ctl, c) /\ c.added = ctl.added
      /\ c.subscription = ctl.subscription
  BY HandlerBegins
<1> HIDE DEF c
<1>3. c.subscription # NoSubscription
  BY <1>2 DEF SubscriptionNotifyOutOfOrder, NoSubscription
<1>4. d \in Sound
  BY <1>2, <1>3, ReSubscribeSound, DoNextOperationSound DEF Given
<1>5. Settled(d)
  BY <1>2, <1>3, ReSubscribeSettles, DoNextOperationSafe DEF Given, Settles
<1> HIDE DEF d
<1>6. ctl' = [d EXCEPT !.refused = {}]
  BY <1>1 DEF c, d
<1> QED
  BY <1>4, <1>5, <1>6, HandlerEnds DEF Given

\* The final-sipfrag timer.
LEMMA FinalSipfragStep ==
    ASSUME ConferenceInv, Remembered, FinalSipfragTimeout
    PROVE  ConferenceInv'
<1>1. PICK refused \in Refusals :
         ctl' = [Recover(DoNextOperation, [[ctl EXCEPT !.refused = refused]
                                              EXCEPT !.sipfragTimer = FALSE])
                    EXCEPT !.refused = {}]
  BY DEF FinalSipfragTimeout, Handles, HandlesAfter, Refusals
<1> DEFINE c == [ctl EXCEPT !.refused = refused]
           d == Recover(DoNextOperation, [c EXCEPT !.sipfragTimer = FALSE])
<1>2. Given(c) /\ Unread(ctl, c) /\ c.added = ctl.added
      /\ c.subscription = ctl.subscription
  BY HandlerBegins
<1> HIDE DEF c
<1>3. d \in Sound
  BY <1>2, FinalSipfragSound, DoNextOperationSound DEF Given
<1>4. Settled(d)
  BY <1>2, FinalSipfragSettles, DoNextOperationSafe DEF Given, Settles
<1> HIDE DEF d
<1>5. ctl' = [d EXCEPT !.refused = {}]
  BY <1>1 DEF c, d
<1> QED
  BY <1>3, <1>4, <1>5, HandlerEnds DEF Given

\* A reference of the controller is one of it while the handler runs.
LEMMA ReferenceTypes ==
    ASSUME ConferenceInv, NEW r \in ctl.references
    PROVE  /\ r \in Reference
           /\ [r EXCEPT !.delivered = TRUE] \in Reference
           /\ [r EXCEPT !.heard = "PROVISIONAL"] \in Reference
           /\ [r EXCEPT !.heard = "FINAL"] \in Reference
           /\ r.delivered \in BOOLEAN
<1>1. r \in Reference
  BY Fields DEF ConferenceInv, Lasting
<1> QED
  BY <1>1 DEF Reference

\* OnReferenceStarted.
LEMMA ReferenceDeliveredStep ==
    ASSUME ConferenceInv, Remembered, ReferenceDelivered
    PROVE  ConferenceInv'
<1>1. PICK r \in ctl.references, refused \in Refusals :
         /\ surprises' = surprises \cup LateBye(r)
         /\ ctl' = [OnReferenceStarted(
                       DoNextOperation,
                       Becomes([ctl EXCEPT !.refused = refused], r,
                               [r EXCEPT !.delivered = TRUE]),
                       [r EXCEPT !.delivered = TRUE]) EXCEPT !.refused = {}]
  BY DEF ReferenceDelivered, Handles, HandlesAfter, Refusals
<1> DEFINE c == [ctl EXCEPT !.refused = refused]
           q == [r EXCEPT !.delivered = TRUE]
           b == Becomes(c, r, q)
           d == OnReferenceStarted(DoNextOperation, b, q)
<1>2. Given(c) /\ Unread(ctl, c)
      /\ UserOfReference(c, r) = UserOfReference(ctl, r)
      /\ TypeOfCurrentOperation(c) = TypeOfCurrentOperation(ctl)
  BY HandlerBegins
<1>3. /\ r \in Reference /\ q \in Reference /\ q.user = r.user
      /\ q.id = r.id /\ q.type = r.type /\ q.delivered = TRUE
  <2>1. r \in Reference
    BY ReferenceTypes
  <2> QED
    BY <2>1 DEF Reference
<1> HIDE DEF c, q
<1>4. r \in c.references
  BY <1>2 DEF Unread
<1>5. b \in Sound
  <2>1. c \in Sound /\ b = Becomes(c, r, q)
    BY <1>2 DEF Given
  <2> HIDE DEF b
  <2> QED
    BY <1>3, <1>4, <2>1, BecomesFacts
<1>6. /\ Settled(b) /\ q \in b.references
      /\ UserOfReference(b, q) = UserOfReference(c, r)
      /\ TypeOfCurrentOperation(b) = TypeOfCurrentOperation(c)
  <2>1. b = Becomes(c, r, q) /\ Settled(c)
    BY <1>2 DEF Given
  <2> HIDE DEF b
  <2> QED
    BY <1>3, <1>4, <2>1, BecomesSettled
<1> HIDE DEF b
<1>7. d \in Sound
  BY <1>3, <1>5, OnReferenceStartedSound, DoNextOperationSound
<1>8. Owned(b, q)
  BY <1>1, <1>2, <1>3, <1>6 DEF Owned, LateBye, InTime
<1>9. Settled(d)
  BY <1>3, <1>6, <1>8, OnReferenceStartedSettles, DoNextOperationSafe DEF Settles
<1> HIDE DEF d
<1>10. ctl' = [d EXCEPT !.refused = {}]
  BY <1>1 DEF c, q, b, d
<1> QED
  BY <1>7, <1>9, <1>10, HandlerEnds DEF Given

\* OnReferenceStartFailed.
LEMMA ReferenceDeliveryFailedStep ==
    ASSUME ConferenceInv, Remembered, ReferenceDeliveryFailed
    PROVE  ConferenceInv'
<1>1. PICK r \in ctl.references, refused \in Refusals :
         /\ ~r.delivered
         /\ surprises' = surprises \cup LateFailure(r)
         /\ ctl' = [OnReferenceStartFailed(
                       DoNextOperation, [ctl EXCEPT !.refused = refused], r)
                       EXCEPT !.refused = {}]
  BY DEF ReferenceDeliveryFailed, Handles, HandlesAfter, Refusals
<1> DEFINE c == [ctl EXCEPT !.refused = refused]
           d == OnReferenceStartFailed(DoNextOperation, c, r)
<1>2. Given(c) /\ Unread(ctl, c)
      /\ UserOfReference(c, r) = UserOfReference(ctl, r)
      /\ TypeOfCurrentOperation(c) = TypeOfCurrentOperation(ctl)
  BY HandlerBegins
<1>3. r \in Reference /\ r.delivered = FALSE
  BY <1>1, ReferenceTypes
<1> HIDE DEF c
<1>4. r \in c.references
  BY <1>2 DEF Unread
<1>5. d \in Sound
  BY <1>2, <1>3, OnReferenceStartFailedSound, DoNextOperationSound DEF Given
<1>6. InTime /\ r.type = "BYE" =>
         r.heard = "NOTHING" /\ UserOfReference(c, r) # NoUser
  BY <1>1, <1>2 DEF LateFailure, InTime
<1>7. Settled(d)
  BY <1>2, <1>3, <1>4, <1>6, OnReferenceStartFailedSettles,
     DoNextOperationSafe DEF Given, Settles
<1> HIDE DEF d
<1>8. ctl' = [d EXCEPT !.refused = {}]
  BY <1>1 DEF c, d
<1> QED
  BY <1>5, <1>7, <1>8, HandlerEnds DEF Given

\* OnReferenceUpdated with a notification.
LEMMA ReferenceNotifyStep ==
    ASSUME ConferenceInv, Remembered, ReferenceNotify
    PROVE  ConferenceInv'
<1> DEFINE Heard(r, code) ==
              [r EXCEPT !.heard = IF code \in Provisional
                                  THEN "PROVISIONAL" ELSE "FINAL"]
<1>1. PICK r \in ctl.references, code \in SipfragCodes \ {"INVALID"},
           terminated \in BOOLEAN, refused \in Refusals :
         /\ surprises' = surprises \cup LateBye(r)
         /\ ctl' = [OnReferenceUpdated(
                       DoNextOperation,
                       Becomes([ctl EXCEPT !.refused = refused], r,
                               Heard(r, code)),
                       Heard(r, code), code, terminated) EXCEPT !.refused = {}]
  BY DEF ReferenceNotify, Handles, HandlesAfter, Refusals
<1> DEFINE c == [ctl EXCEPT !.refused = refused]
           q == Heard(r, code)
           b == Becomes(c, r, q)
           d == OnReferenceUpdated(DoNextOperation, b, q, code, terminated)
<1>2. Given(c) /\ Unread(ctl, c)
      /\ UserOfReference(c, r) = UserOfReference(ctl, r)
      /\ TypeOfCurrentOperation(c) = TypeOfCurrentOperation(ctl)
  BY HandlerBegins
<1>3. /\ r \in Reference /\ q \in Reference /\ q.user = r.user
      /\ q.id = r.id /\ q.type = r.type /\ q.heard # "NOTHING"
  <2>1. r \in Reference
    BY ReferenceTypes
  <2>2. q = [r EXCEPT !.heard = q.heard]
        /\ q.heard \in {"PROVISIONAL", "FINAL"}
    BY <2>1 DEF Reference
  <2> HIDE DEF q, Heard
  <2>3. \/ q = [r EXCEPT !.heard = "PROVISIONAL"]
        \/ q = [r EXCEPT !.heard = "FINAL"]
    BY <2>2
  <2> QED
    BY <2>1, <2>3 DEF Reference
<1> HIDE DEF c, q
<1>4. r \in c.references
  BY <1>2 DEF Unread
<1>5. b \in Sound
  <2>1. c \in Sound /\ b = Becomes(c, r, q)
    BY <1>2 DEF Given
  <2> HIDE DEF b
  <2> QED
    BY <1>3, <1>4, <2>1, BecomesFacts
<1>6. /\ Settled(b) /\ q \in b.references
      /\ UserOfReference(b, q) = UserOfReference(c, r)
      /\ TypeOfCurrentOperation(b) = TypeOfCurrentOperation(c)
  <2>1. b = Becomes(c, r, q) /\ Settled(c)
    BY <1>2 DEF Given
  <2>2. q.delivered = TRUE \/ q.heard # "NOTHING"
    BY <1>3
  <2>3. q.user = r.user /\ q.id = r.id /\ q.type = r.type /\ q \in Reference
    BY <1>3
  <2> HIDE DEF b, d, Heard
  <2> QED
    BY <1>4, <2>1, <2>2, <2>3, BecomesSettled
<1> HIDE DEF b
<1>7. d \in Sound
  BY <1>3, <1>5, OnReferenceUpdatedSound, DoNextOperationSound
<1>8. Owned(b, q)
  BY <1>1, <1>2, <1>3, <1>6 DEF Owned, LateBye, InTime
<1>9. Settled(d)
  BY <1>3, <1>6, <1>8, OnReferenceUpdatedSettles, DoNextOperationSafe DEF Settles
<1> HIDE DEF d
<1>10. ctl' = [d EXCEPT !.refused = {}]
  BY <1>1 DEF c, q, b, d
<1> QED
  BY <1>7, <1>9, <1>10, HandlerEnds DEF Given

\* OnReferenceUpdated with the end of its subscription.
LEMMA ReferenceTerminatedStep ==
    ASSUME ConferenceInv, Remembered, ReferenceTerminated
    PROVE  ConferenceInv'
<1>1. PICK r \in ctl.references, refused \in Refusals :
         /\ r.delivered
         /\ surprises' = surprises \cup LateBye(r)
         /\ ctl' = [OnReferenceUpdated(
                       DoNextOperation, [ctl EXCEPT !.refused = refused],
                       r, "INVALID", TRUE) EXCEPT !.refused = {}]
  BY DEF ReferenceTerminated, Handles, HandlesAfter, Refusals
<1> DEFINE c == [ctl EXCEPT !.refused = refused]
           d == OnReferenceUpdated(DoNextOperation, c, r, "INVALID", TRUE)
<1>2. Given(c) /\ Unread(ctl, c)
      /\ UserOfReference(c, r) = UserOfReference(ctl, r)
      /\ TypeOfCurrentOperation(c) = TypeOfCurrentOperation(ctl)
  BY HandlerBegins
<1>3. r \in Reference /\ r.delivered = TRUE
  BY <1>1, ReferenceTypes
<1> HIDE DEF c
<1>4. r \in c.references
  BY <1>2 DEF Unread
<1>5. d \in Sound
  BY <1>2, <1>3, OnReferenceUpdatedSound, DoNextOperationSound DEF Given
<1>6. Owned(c, r)
  BY <1>1, <1>2 DEF Owned, LateBye, InTime
<1>7. Settled(d)
  BY <1>2, <1>3, <1>4, <1>6, OnReferenceUpdatedSettles, DoNextOperationSafe
     DEF Given, Settles
<1> HIDE DEF d
<1>8. ctl' = [d EXCEPT !.refused = {}]
  BY <1>1 DEF c, d
<1> QED
  BY <1>5, <1>7, <1>8, HandlerEnds DEF Given

\* OnNotifyReceived.
LEMMA SubscriptionNotifyStep ==
    ASSUME ConferenceInv, Remembered, SubscriptionNotify
    PROVE  ConferenceInv'
<1>1. CASE Handles(OnNotifyReceived)
  <2>1. PICK refused \in Refusals :
           ctl' = [OnNotifyReceived(
                       DoNextOperation, [ctl EXCEPT !.refused = refused])
                      EXCEPT !.refused = {}]
    BY <1>1 DEF Handles, HandlesAfter, Refusals
  <2> DEFINE c == [ctl EXCEPT !.refused = refused]
             d == OnNotifyReceived(DoNextOperation, c)
  <2>2. Given(c)
    BY HandlerBegins
  <2> HIDE DEF c
  <2>3. d \in Sound
    BY <2>2, OnNotifyReceivedSound, DoNextOperationSound DEF Given
  <2>4. Settled(d)
    BY <2>2, OnNotifyReceivedSettles, DoNextOperationSafe DEF Given, Settles
  <2> HIDE DEF d
  <2>5. ctl' = [d EXCEPT !.refused = {}]
    BY <2>1 DEF c, d
  <2> QED
    BY <2>3, <2>4, <2>5, HandlerEnds DEF Given
<1>2. CASE ~Handles(OnNotifyReceived)
  <2>1. PICK p \in ctl.list, status \in Status, refused \in Refusals :
           ctl' = [OnNotifyReceived(
                       DoNextOperation,
                       UpdateParticipant([ctl EXCEPT !.refused = refused],
                                         p, status)) EXCEPT !.refused = {}]
    BY <1>2 DEF SubscriptionNotify, HandlesAfter, Refusals
  <2> DEFINE c == [ctl EXCEPT !.refused = refused]
             u == UpdateParticipant(c, p, status)
             d == OnNotifyReceived(DoNextOperation, u)
  <2>2. Given(c)
    BY HandlerBegins
  <2>3. p \in Participants
    BY Fields DEF ConferenceInv, Lasting
  <2> HIDE DEF c
  <2>4. u \in Sound /\ Settled(u)
    BY <2>2, <2>3, UpdateParticipantSound, UpdateParticipantSettles
       DEF Given, Settles
  <2> HIDE DEF u
  <2>5. d \in Sound
    BY <2>4, OnNotifyReceivedSound, DoNextOperationSound
  <2>6. Settled(d)
    BY <2>4, OnNotifyReceivedSettles, DoNextOperationSafe DEF Settles
  <2> HIDE DEF d
  <2>7. ctl' = [d EXCEPT !.refused = {}]
    BY <2>1 DEF c, u, d
  <2> QED
    BY <2>5, <2>6, <2>7, HandlerEnds DEF Given
<1> QED
  BY <1>1, <1>2

\* The timer of a delayed operation.
LEMMA DelayStep ==
    ASSUME ConferenceInv, Remembered, DelayTimeout
    PROVE  ConferenceInv'
<1>1. PICK refused \in Refusals :
         /\ ctl.delayTimer
         /\ ctl' = [DoNextOperation[[[ctl EXCEPT !.refused = refused]
                        EXCEPT !.delayTimer = FALSE, !.queue[1].delayed = FALSE]]
                       EXCEPT !.refused = {}]
  BY DEF DelayTimeout, Handles, HandlesAfter, Refusals
<1> DEFINE c == [ctl EXCEPT !.refused = refused]
           b == [c EXCEPT !.delayTimer = FALSE, !.queue[1].delayed = FALSE]
           d == DoNextOperation[b]
<1>2. Given(c) /\ Unread(ctl, c)
  BY HandlerBegins
<1>3. ctl.delayTimer = TRUE
  BY <1>1, Fields DEF ConferenceInv, Lasting
<1> HIDE DEF c
<1>4. c.delayTimer = TRUE
  BY <1>2, <1>3 DEF Unread
<1>5. b \in Sound
  BY <1>2, DelayedFacts DEF Given
<1>6. Settled(d)
  BY <1>2, <1>4, DelayedSettles, DoNextOperationSafe DEF Given
<1> HIDE DEF b
<1>7. d \in Sound
  BY <1>5, DoNextOperationSound DEF SoundRun
<1> HIDE DEF d
<1>8. ctl' = [d EXCEPT !.refused = {}]
  BY <1>1 DEF c, b, d
<1> QED
  BY <1>6, <1>7, <1>8, HandlerEnds DEF Given

\* A controller that has just been made, or is about to be deleted.
LEMMA NewControllerFacts ==
    ASSUME NEW config \in Configs
    PROVE  /\ Given(NewController(config))
           /\ Lasting(NewController(config)) /\ OnTime(NewController(config))
<1> DEFINE d == NewController(config)
           users == [p \in Participants |->
                        [call |-> NoCall, status |-> "CONNECTING",
                         reference |-> NoReference,
                         infoUpdated |-> FALSE]]
<1>1. users \in [Participants -> Participant]
  BY DEF Participant, Status
<1>2. IsFiniteSet({}) /\ {} \in SUBSET Reference
  BY FS_EmptySet
<1>3. 0 \in 0 .. MaxParticipants
  BY BoundsAssumption
<1>4. << >> \in Seq(Operation)
  OBVIOUS
<1>5. [call \in Calls |-> "ESTABLISHED"] \in [Calls -> {"ESTABLISHED", "TERMINATING"}]
  OBVIOUS
<1>6. \A p \in Participants : users[p].status # "CONNECTED"
  OBVIOUS
<1>7. d = [config |-> config,
     state |-> "CREATED",
     queue |-> << >>, needToStart |-> FALSE, delayTimer |-> FALSE,
     list |-> {},
     users |-> users,
     added |-> 0,
     references |-> {},
     subscription |-> NoSubscription,
     oneToOneEnded |-> FALSE, sipfragTimer |-> FALSE,
     conference |-> "IDLE",
     calls |-> [c \in Calls |-> "ESTABLISHED"], known |-> Calls,
     joined |-> FALSE, lost |-> FALSE,
     life |-> "OPEN",
     command |-> "NONE", unasked |-> FALSE, commands |-> 0,
     refused |-> {}]
  BY DEF NewController
<1> HIDE DEF users
<1>8. d \in Controllers
  BY <1>1, <1>2, <1>3, <1>4, <1>5, <1>7 DEF Controllers, ControllerStates
<1>9. /\ d.queue = << >> /\ d.delayTimer = FALSE /\ d.command = "NONE"
      /\ d.needToStart = FALSE /\ d.lost = FALSE /\ d.unasked = FALSE
      /\ d.references = {} /\ d.list = {} /\ d.users = users /\ d.joined = FALSE
  BY <1>7
<1> HIDE DEF d
<1>10. d \in Sound
  BY <1>8, <1>9 DEF Sound, Named
<1>11. JoinedInv(d.users, d.joined) /\ NamesInv(d.references) /\ NoBye(d)
  BY <1>6, <1>9 DEF JoinedInv, NamesInv, NoBye
<1>12. Ready(d)
  BY <1>9, <1>10, <1>11, EmptyReady
<1>13. Given(d)
  BY <1>10, <1>12, ReadySettled DEF Given
<1>14. Lasting(d) /\ OnTime(d)
  BY <1>9, <1>13, SettledParts DEF Given, OnTime
<1> QED
  BY <1>13, <1>14 DEF d

\* The controller is deleted.
LEMMA DestroyStep ==
    ASSUME ConferenceInv, Remembered, Destroy
    PROVE  ConferenceInv'
<1> DEFINE n == NewController(ctl.config)
           d == [n EXCEPT !.life = "DESTROYED", !.calls = ctl.calls]
<1>1. ctl.config \in Configs
      /\ ctl.calls \in [Calls -> {"ESTABLISHED", "TERMINATING"}]
  BY Fields DEF ConferenceInv, Lasting
<1>2. Given(n)
  BY <1>1, NewControllerFacts
<1> HIDE DEF n
<1>3. n \in Controllers
  BY <1>2, Fields DEF Given
<1>4. d \in Controllers
  BY <1>1, <1>3 DEF Controllers
<1>5. Unread(n, d) /\ d.added = n.added
  BY <1>3 DEF Unread, Controllers
<1>6. ctl' = d
  BY DEF Destroy, n
<1> HIDE DEF d
<1>7. d \in Sound
  BY <1>2, <1>4, <1>5, Renamed DEF Given, Unread
<1>8. Settled(d)
  BY <1>2, <1>5, <1>7, UnreadQuiet, QuietSettles DEF Given, Settles
<1>9. Lasting(d) /\ (InTime => OnTime(d))
  BY <1>8, SettledParts
<1> QED
  BY <1>6, <1>9 DEF ConferenceInv, InTime, Remembered, Lasting, OnTime, Pending

-----------------------------------------------------------------------------
\* The invariant holds of a new controller.
LEMMA InvInit ==
    ASSUME Init
    PROVE  ConferenceInv
<1>1. PICK config \in Configs : ctl = NewController(config)
  BY DEF Init
<1>2. Lasting(ctl) /\ OnTime(ctl)
  BY <1>1, NewControllerFacts
<1> QED
  BY <1>2 DEF Init, ConferenceInv

\* No step forgets what came.
LEMMA StepsRemember ==
    ASSUME Next, surprises \subseteq Surprises
    PROVE  Remembered
<1>1. CASE Destroy
  BY <1>1 DEF Destroy, Remembered
<1>2. CASE \/ ProcessMerge \/ ProcessMergeOfOne \/ ProcessAdditionalMerge
           \/ ProcessJoin \/ ConferenceEstablished \/ ConferenceEnds
           \/ \E call \in Calls : IndividualCallEnds(call)
  BY <1>2 DEF ProcessMerge, ProcessMergeOfOne, ProcessAdditionalMerge,
              ProcessJoin, ConferenceEstablished, ConferenceEnds,
              IndividualCallEnds, Handles, HandlesAfter, Remembered
<1>3. CASE \/ SubscriptionStarted \/ SubscriptionStartFailed
           \/ SubscriptionTerminated \/ SubscriptionNotifyOutOfOrder
           \/ FinalSipfragTimeout \/ DelayTimeout
  BY <1>3 DEF SubscriptionStarted, SubscriptionStartFailed,
              SubscriptionTerminated, SubscriptionNotifyOutOfOrder,
              FinalSipfragTimeout, DelayTimeout, Handles, HandlesAfter,
              Remembered
<1>4. CASE \/ ReferenceDelivered \/ ReferenceDeliveryFailed
           \/ ReferenceNotify \/ ReferenceTerminated
  BY <1>4 DEF ReferenceDelivered, ReferenceDeliveryFailed, ReferenceNotify,
              ReferenceTerminated, HandlesAfter, LateBye, LateFailure,
              Surprises, Remembered
<1>5. CASE ProcessDrop \/ SubscriptionNotify
  BY <1>5 DEF ProcessDrop, SubscriptionNotify, Handles, HandlesAfter,
              EarlyLeave, Surprises, Remembered
<1> QED
  BY <1>1, <1>2, <1>3, <1>4, <1>5 DEF Next

\* Every step keeps the invariant.
LEMMA InvNext ==
    ASSUME ConferenceInv, [Next]_vars
    PROVE  ConferenceInv'
<1>1. CASE UNCHANGED vars
  BY <1>1 DEF vars, ConferenceInv, Lasting, OnTime, Pending
<1> SUFFICES ASSUME Next PROVE ConferenceInv'
  BY <1>1
<1>0. Remembered
  BY StepsRemember DEF ConferenceInv
<1>2. CASE ProcessMerge \/ ProcessMergeOfOne \/ ProcessAdditionalMerge
           \/ ProcessJoin \/ ProcessDrop
  BY <1>0, <1>2, MergeStep, MergeOfOneStep, AdditionalMergeStep, JoinStep, DropStep
<1>3. CASE \/ ConferenceEstablished \/ ConferenceEnds
           \/ \E call \in Calls : IndividualCallEnds(call)
  BY <1>0, <1>3, EstablishedStep, ConferenceEndsStep, CallEndsStep
<1>4. CASE \/ ReferenceDelivered \/ ReferenceDeliveryFailed
           \/ ReferenceNotify \/ ReferenceTerminated
  BY <1>0, <1>4, ReferenceDeliveredStep, ReferenceDeliveryFailedStep,
     ReferenceNotifyStep, ReferenceTerminatedStep
<1>5. CASE \/ SubscriptionStarted \/ SubscriptionStartFailed
           \/ SubscriptionTerminated \/ SubscriptionNotify
           \/ SubscriptionNotifyOutOfOrder
  BY <1>0, <1>5, StartedStep, StartFailedStep, TerminatedStep,
     SubscriptionNotifyStep, OutOfOrderStep
<1>6. CASE FinalSipfragTimeout \/ DelayTimeout \/ Destroy
  BY <1>0, <1>6, FinalSipfragStep, DelayStep, DestroyStep
<1> QED
  BY <1>2, <1>3, <1>4, <1>5, <1>6 DEF Next

\* The invariant holds throughout.
THEOREM ConferenceInvariant == Spec => []ConferenceInv
<1>1. Init => ConferenceInv
  BY InvInit
<1>2. ConferenceInv /\ [Next]_vars => ConferenceInv'
  BY InvNext
<1> QED
  BY <1>1, <1>2, PTL DEF Spec

\* The controller and what it owns keep their types, whatever is refused,
\* lost or late: nobody is named by the queue, by a reference or by the list
\* who has not been added.
THEOREM MergeTypeCorrect == Spec => []MergeTypeOK
<1>1. ConferenceInv => MergeTypeOK
  <2> SUFFICES ASSUME ConferenceInv PROVE MergeTypeOK
    OBVIOUS
  <2>1. ctl \in Sound
    BY DEF ConferenceInv, Lasting
  <2>2. \A i \in DOMAIN ctl.queue : ctl.queue[i] \in Operation
    <3>1. ctl.queue \in Seq(Operation)
      BY <2>1, Fields
    <3>2. DOMAIN ctl.queue = 1 .. Len(ctl.queue)
      BY <3>1, LenProperties
    <3> QED
      BY <3>1, <3>2, ElementOfSeq
  <2>3. ctl.life \in {"OPEN", "CLOSED", "ABORTED", "DESTROYED"}
    BY <2>1, Fields DEF Controllers
  <2>4. ctl.list \subseteq 1 .. ctl.added
    BY <2>1 DEF Sound, Named
  <2> QED
    BY <2>1, <2>2, <2>3, <2>4, Fields DEF MergeTypeOK, ConferenceInv
<1> QED
  BY <1>1, ConferenceInvariant, PTL

\* The controller hangs up an individual call only when somebody has joined
\* the conference (RecoverOnReferring), whatever is refused, rejected or late:
\* became STATUS_CONNECTED, or was reported to have accepted with any 2xx.
THEOREM CallsAreKept == Spec => []NoCallLost
<1>1. ConferenceInv => NoCallLost
  BY DEF ConferenceInv, Lasting, NoCallLost
<1> QED
  BY <1>1, ConferenceInvariant, PTL

\* The user interface is told the result of a command once: recovery,
\* NOTIFY_RESULT_TO_UI and a rejected drop exclude each other, until a drop is
\* ended by the outcome of an earlier one or a REFER is rejected that has been
\* notified and so has let NOTIFY_RESULT_TO_UI run.
THEOREM AnswersAreAskedFor == Spec => []AnsweredOnlyWhenAsked
<1>1. ConferenceInv => AnsweredOnlyWhenAsked
  BY DEF ConferenceInv, OnTime, AnsweredOnlyWhenAsked
<1> QED
  BY <1>1, ConferenceInvariant, PTL
=============================================================================
