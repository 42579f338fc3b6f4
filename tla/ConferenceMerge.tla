--------------------------- MODULE ConferenceMerge ---------------------------
(***************************************************************************)
(* The conference controller of a call that was created by merging calls: *)
(* ConferenceController, its MergeController, the ConferenceOperationQueue, *)
(* the participant list, the references (REFER) and the subscription to    *)
(* the conference event package.                                           *)
(*                                                                         *)
(* All of them run on one thread.  A handler runs to its end, but it calls *)
(* itself: an operation that ends inside a handler starts the next one,    *)
(* which may end at once, and hanging up a call reports the new state of   *)
(* that call to the controller before the hang-up returns.  A handler is   *)
(* therefore an operator from a controller record to a controller record.  *)
(* Those that may start the next operation take the function that does it, *)
(* run, as an argument: NextOperations nests it as deep as it goes.        *)
(*                                                                         *)
(* A participant is a number: the controller copies every ConfUser it is   *)
(* given, so the same call merged twice is two participants.               *)
(***************************************************************************)
EXTENDS Naturals, FiniteSets, Sequences

CONSTANTS
    Calls,            \* the individual calls that may be merged
    NoCall,           \* the call of a participant that is invited by number
    Configs,          \* the carrier configurations: records of ConfigType
    MaxParticipants,  \* bound: participants ever added to the list
    MaxCommands,      \* bound: commands after the first merge, of each
    MaxAdditions,     \* bound: participants added after it, of each
    MAX_RESUBS_COUNT, \* re-subscriptions after a notification out of order
    Faults            \* what may go wrong in each: sends refused, see FaultKinds

ConfigType == [flow : {"SUBSCRIBE_AND_REFER", "REFER_AND_SUBSCRIBE",
                       "SUBSCRIBE_AND_NOTIFY_REFER"},
               referType : {"COPYCONTROL", "REFER_SINGLE"},
               referSub : BOOLEAN,                 \* R-NOTIFY is asked for
               subscribe : {"NOT_SUPPORT", "OUT_OF_DIALOG", "IN_DIALOG"},
               trace : BOOLEAN]                    \* traces of level I

SendKinds == {"StartConference", "Subscribe", "Unsubscribe", "ReferInvite",
              "ReferBye"}
\* A SUBSCRIBE no response comes to; a version of the event package missed; a
\* subscription that ends without the notification the queue waits for.
FaultKinds == SendKinds \cup {"NoResponse", "VersionGap", "NoOutcome"}

ASSUME ConfigsAssumption == Configs \subseteq ConfigType
ASSUME FaultsAssumption == \A c \in Configs : Faults[c] \subseteq FaultKinds
ASSUME BoundsAssumption ==
    /\ MaxParticipants \in Nat \ {0, 1}
    /\ MAX_RESUBS_COUNT \in Nat
    /\ \A c \in Configs : MaxCommands[c] \in Nat
    /\ NoCall \notin Calls

VARIABLES
    ctl,              \* the controller, what it owns and what configures it
    surprises         \* history: what came that the code does not reckon with

vars == <<ctl, surprises>>

(***************************************************************************)
(* Data.                                                                   *)
(***************************************************************************)
Participants == 1 .. MaxParticipants
NoUser == 0

OperationTypes ==
    {"CREATE_CONFERENCE_CALL", "SUBSCRIBE", "UNSUBSCRIBE", "REFER_INVITE",
     "REFER_BYE", "CHECK_CONNECTED", "NOTIFY_RESULT_TO_UI",
     "TERMINATE_1TO1_CALL", "TERMINATE_CONFERENCE", "DESTROY_CONTROLLER",
     "NOTIFY_RESULT_TO_MTCCALL"}

\* An operation that is about a participant names it, no other names one.
UserOperationTypes ==
    {"REFER_INVITE", "REFER_BYE", "CHECK_CONNECTED", "TERMINATE_1TO1_CALL"}
Operation ==
    [type : UserOperationTypes, user : Participants, delayed : BOOLEAN]
    \cup [type : OperationTypes \ UserOperationTypes, user : {NoUser},
          delayed : BOOLEAN]

Op(type, user) == [type |-> type, user |-> user, delayed |-> FALSE]

\* STATUS_IDLE, STATUS_DIALING_OUT and their siblings are "CONNECTING".
Status == {"CONNECTING", "CONNECTED", "DISCONNECTED"}

\* A reference has a name of its own: a participant may have several.
ReferenceIds == Nat \ {0}
NoReference == 0

Reference == [id : ReferenceIds, user : Participants,
              type : {"INVITE", "BYE"},
              delivered : BOOLEAN,      \* the REFER has a success response
              heard : {"NOTHING", "PROVISIONAL", "FINAL"}]  \* of its notifications

Participant == [call : Calls \cup {NoCall}, status : Status,
                reference : ReferenceIds \cup {NoReference},
                infoUpdated : BOOLEAN]    \* the event package names it

Subscription == [state : {"IDLE", "SUBSCRIBING", "ACTIVE", "UNSUBSCRIBING"},
                 interface : BOOLEAN,     \* m_piSubscription is there
                 waiting : BOOLEAN,       \* a SUBSCRIBE is unanswered
                 dialog : {"OUT", "IN", "FALLBACK"},
                 resubs : Nat,            \* re-subscriptions as counted
                 sent : Nat]              \* re-subscriptions made
NoSubscription == [state |-> "NONE"]

ControllerStates == {"CREATED", "IDLE", "MERGING", "JOINING", "DROPPING"}

\* What a handler works on: the state of the controller, of what it owns and
\* of the calls, and what is recorded of its answers to the user interface.
Controllers ==
    [config : Configs,            \* read by every handler
     state : ControllerStates,
     queue : Seq(Operation), needToStart : BOOLEAN, delayTimer : BOOLEAN,
     list : SUBSET Participants,
     users : [Participants -> Participant],
     added : 0 .. MaxParticipants,
     references : {R \in SUBSET Reference : IsFiniteSet(R)},
     subscription : Subscription \cup {NoSubscription},
     oneToOneEnded : BOOLEAN,     \* CONDITION_1TO1_TERMINATED
     sipfragTimer : BOOLEAN,
     conference : {"IDLE", "OUTGOING", "ESTABLISHED", "TERMINATING"},
     calls : [Calls -> {"ESTABLISHED", "TERMINATING"}],
     known : SUBSET Calls,        \* calls that have a connection id
     joined : BOOLEAN,            \* history: somebody has joined
     lost : BOOLEAN,              \* history: a call was hung up before that
     life : {"OPEN", "CLOSED", "ABORTED", "DESTROYED"},
     command : {"NONE", "MERGE", "JOIN", "DROP"},   \* not yet answered
     unasked : BOOLEAN,           \* an answer came without a command
     commands : Nat,              \* commands given so far
     refused : SUBSET SendKinds]  \* sends refused in this handler

NotifyRequired(c) == c.config.flow = "SUBSCRIBE_AND_NOTIFY_REFER"
SubscriptionFirst(c) == c.config.flow # "REFER_AND_SUBSCRIBE"
SubscriptionRequired(c) == c.config.subscribe # "NOT_SUPPORT"

NewController(config) ==
    [config |-> config,
     state |-> "CREATED",
     queue |-> << >>, needToStart |-> FALSE, delayTimer |-> FALSE,
     list |-> {},
     users |-> [p \in Participants |->
                   [call |-> NoCall, status |-> "CONNECTING",
                    reference |-> NoReference, infoUpdated |-> FALSE]],
     added |-> 0,
     references |-> {},
     subscription |-> NoSubscription,
     oneToOneEnded |-> FALSE, sipfragTimer |-> FALSE,
     conference |-> "IDLE",
     calls |-> [c \in Calls |-> "ESTABLISHED"], known |-> Calls,
     joined |-> FALSE, lost |-> FALSE,
     life |-> "OPEN",
     command |-> "NONE", unasked |-> FALSE, commands |-> 0,
     refused |-> {}]

\* An outcome of the REFER of a drop that is over, which ends the next drop; a
\* REFER that fails after a notification of it; a participant that leaves
\* while an operation names it; a drop of one that is disconnected already.
Surprises == {"LATE_BYE", "LATE_FAILURE", "EARLY_LEAVE", "DROP_OF_GONE"}

Init ==
    /\ \E config \in Configs : ctl = NewController(config)
    /\ surprises = {}

(***************************************************************************)
(* The participant list: who was added later has a higher number.          *)
(***************************************************************************)
InList(c, p) == p \in c.list

Mut_AddedUncounted(c, call) ==   \* mutant of AddUser
    LET p == c.added + 1 IN
    [c EXCEPT !.list = @ \cup {p}, !.users[p].call = call]

AddUser(c, call) ==
    LET p == c.added + 1 IN
    [c EXCEPT !.added = p, !.list = @ \cup {p}, !.users[p].call = call]

\* What is left of them is the call.
RemoveUsers(c, gone) ==
    [c EXCEPT !.list = @ \ gone,
              !.users = [p \in Participants |->
                IF p \in gone
                THEN [@[p] EXCEPT !.status = "DISCONNECTED",
                                  !.reference = NoReference,
                                  !.infoUpdated = FALSE]
                ELSE @[p]]]

\* The participant that points to the reference, or nobody.
UserOfReference(c, r) ==
    IF InList(c, r.user) /\ c.users[r.user].reference = r.id
    THEN r.user
    ELSE NoUser

\* RemoveReference and the end of ClearOngoingReferences.
DropReferences(c, gone) ==
    [c EXCEPT !.references = @ \ gone,
              !.users = [p \in Participants |->
                IF InList(c, p) /\ \E r \in gone : r.id = @[p].reference
                THEN [@[p] EXCEPT !.reference = NoReference]
                ELSE @[p]]]

\* A name no reference and no participant uses.
UsedReferences(c) ==
    {r.id : r \in c.references} \cup {c.users[p].reference : p \in c.list}

FreshReference(c) ==
    CHOOSE id \in 1 .. Cardinality(UsedReferences(c)) + 1 :
        id \notin UsedReferences(c)

\* A deleted participant is used through a pointer of the queue: nothing is
\* known of the program from there on.
UsesUser(c, p) == IF InList(c, p) THEN c ELSE [c EXCEPT !.life = "ABORTED"]

IsConnected(c, p) == c.users[p].status = "CONNECTED"
IsConnectedOrConnecting(c, p) == c.users[p].status # "DISCONNECTED"

ConnectedParticipants(c) == {p \in c.list : IsConnected(c, p)}
Remaining(c) == {p \in c.list : IsConnectedOrConnecting(c, p)}

SetStatus(c, p, status) ==
    IF p = NoUser THEN c
    ELSE [c EXCEPT !.users[p].status = status,
                   !.joined = @ \/ status = "CONNECTED"]

(***************************************************************************)
(* What the user interface is told.  Telling it the participants drops the *)
(* disconnected ones from the list, and their connection ids with them.    *)
(***************************************************************************)
Answer(c) ==
    [c EXCEPT !.unasked = @ \/ c.command = "NONE", !.command = "NONE"]

NotifyUsersInfo(c) ==
    LET gone == c.list \ Remaining(c) IN
    [RemoveUsers(c, gone) EXCEPT !.known = @ \ {c.users[p].call : p \in gone}]

\* Merged, or merging failed; a failed join is told in the same words.
NotifyMergeResult(c) == Answer(c)
NotifyJoinOrDropResult(c) == NotifyUsersInfo(Answer(c))

(***************************************************************************)
(* The operation queue.  Its head is the operation in progress.            *)
(***************************************************************************)
TypeOfCurrentOperation(c) ==
    IF c.queue = << >> THEN "NONE" ELSE Head(c.queue).type

\* A stand-alone operation starts at once when it is alone; a set waits for
\* SetAddingOperationSetCompleted.
PutStandAlone(run, c, op) ==
    LET put == [c EXCEPT !.queue = Append(@, op)] IN
    IF c.queue = << >>
    THEN run[[put EXCEPT !.needToStart = FALSE]]
    ELSE put

PutSet(c, ops) ==
    [c EXCEPT !.queue = @ \o ops,
              !.needToStart = @ \/ (c.queue = << >> /\ ops # << >>)]

SetAddingOperationSetCompleted(run, c) ==
    IF c.needToStart
    THEN run[[c EXCEPT !.needToStart = FALSE]]
    ELSE c

HasPendingOperation(c) == \E i \in DOMAIN c.queue : c.queue[i].delayed

Mut_QueueKept(c) == [c EXCEPT !.delayTimer = FALSE]   \* mutant of ClearQueue

ClearQueue(c) == [c EXCEPT !.queue = << >>, !.delayTimer = FALSE]

\* NoUser completes the operation of whoever it is.
IsSameOperation(c, type, user) ==
    /\ TypeOfCurrentOperation(c) = type
    /\ user \in {NoUser, Head(c.queue).user}

RemoveActiveOperation(c) ==
    [c EXCEPT !.queue = Tail(@), !.delayTimer = FALSE]

CompleteCurrentAndDoNextOperation(run, c, type, user) ==
    IF IsSameOperation(c, type, user)
    THEN run[RemoveActiveOperation(c)]
    ELSE c

(***************************************************************************)
(* The final-sipfrag timer and the end of the controller.                  *)
(***************************************************************************)
StopFinalSipfragWaitTimer(c) ==
    [c EXCEPT !.sipfragTimer = FALSE, !.oneToOneEnded = FALSE]

\* A merge starts the timer when an individual call has ended, whether or
\* not a 100 was reported for the REFER.
CheckNStartFinalSipfragWaitTimer(c, callEnded) ==
    LET met == c.oneToOneEnded \/ callEnded IN
    [c EXCEPT !.oneToOneEnded = met, !.sipfragTimer = @ \/ met]

\* OnClosed takes the controller out of the manager, which destroys it by a
\* message of its own: it hears events until then.
SendClosed(run, c) ==
    IF HasPendingOperation(c)
    THEN PutStandAlone(run, c, Op("DESTROY_CONTROLLER", NoUser))
    ELSE [c EXCEPT !.life = IF @ = "OPEN" THEN "CLOSED" ELSE @]

(***************************************************************************)
(* Recovery, MergeController::Recover.                                     *)
(***************************************************************************)
Mut_GivenUpUncleared(c) == NotifyMergeResult(c)   \* mutant of GiveUpMerge

GiveUpMerge(c) == ClearQueue(NotifyMergeResult(c))

Mut_RefusedIsEnough(run, c) ==   \* mutant of RecoverOnReferring
    LET p == Head(c.queue).user
        next(d) == CompleteCurrentAndDoNextOperation(run, d, "REFER_INVITE", p)
    IN  CASE ~InList(c, p) -> UsesUser(c, p)
          [] InList(c, p) /\ IsConnected(c, p) -> next(c)
          [] InList(c, p) /\ ~IsConnected(c, p) /\ Cardinality(c.list) <= 2 ->
                next(SetStatus(c, p, "DISCONNECTED"))
          [] OTHER -> [GiveUpMerge(c) EXCEPT !.state = "IDLE"]

RecoverOnReferring(run, c) ==
    LET p == Head(c.queue).user
        connected == ConnectedParticipants(c)
        next(d) == CompleteCurrentAndDoNextOperation(run, d, "REFER_INVITE", p)
    IN  CASE ~InList(c, p) -> UsesUser(c, p)
          [] InList(c, p) /\ IsConnected(c, p) -> next(c)
          [] InList(c, p) /\ ~IsConnected(c, p) /\ connected # {}
             /\ Cardinality(c.list) <= 2 ->
                next(SetStatus(c, p, "DISCONNECTED"))
          [] OTHER -> [GiveUpMerge(c) EXCEPT !.state = "IDLE"]

\* With a dead conference call the state is left as it is.
Recover(run, c) ==
    CASE /\ TypeOfCurrentOperation(c) \in
               {"CREATE_CONFERENCE_CALL", "TERMINATE_1TO1_CALL", "REFER_INVITE"}
         /\ c.conference # "ESTABLISHED"      -> GiveUpMerge(c)
      [] /\ TypeOfCurrentOperation(c) = "REFER_INVITE"
         /\ c.conference = "ESTABLISHED"      -> RecoverOnReferring(run, c)
      [] /\ TypeOfCurrentOperation(c) = "TERMINATE_1TO1_CALL"
         /\ c.conference = "ESTABLISHED"      -> [c EXCEPT !.life = "ABORTED"]
      [] OTHER -> c

(***************************************************************************)
(* Calls.                                                                  *)
(***************************************************************************)
\* Asking for the part of a call in the conference reads the current user.
ReadsCurrentUser(c) ==
    IF TypeOfCurrentOperation(c) = "REFER_INVITE"
    THEN UsesUser(c, Head(c.queue).user)
    ELSE c

\* GetCallStatusInConference is not IDLE for the call.
IsConferenceParticipant(c, call) ==
    \/ /\ TypeOfCurrentOperation(c) \in {"REFER_INVITE", "TERMINATE_1TO1_CALL"}
       /\ c.users[Head(c.queue).user].call = call
    \/ \E p \in Remaining(c) : c.users[p].call = call

\* A participant of a copied list is gone when its own call is; when nobody
\* remains the conference is ended.
UpdateUserStateByCallTerminated(run, c, call) ==
    LET gone == {p \in c.list : c.users[p].call = call /\ call \in c.known}
        told == IF gone = {} THEN c
                ELSE NotifyUsersInfo(SetStatus(c, CHOOSE p \in gone : TRUE,
                                               "DISCONNECTED"))
    IN  IF Remaining(told) = {}
        THEN PutStandAlone(run, told, Op("TERMINATE_CONFERENCE", NoUser))
        ELSE told

OnIndividualCallTerminated(run, c, call) ==
    LET timed == CheckNStartFinalSipfragWaitTimer(c, TRUE)
        handled ==
            CASE TypeOfCurrentOperation(c) # "TERMINATE_1TO1_CALL" -> timed
              [] /\ TypeOfCurrentOperation(c) = "TERMINATE_1TO1_CALL"
                 /\ c.users[Head(c.queue).user].call = call
                 /\ call \in c.known ->
                    CompleteCurrentAndDoNextOperation(
                        run, timed, "TERMINATE_1TO1_CALL", NoUser)
              [] OTHER -> Recover(run, timed)
    IN  IF handled.subscription = NoSubscription
           /\ c.config.referType = "COPYCONTROL"
        THEN UpdateUserStateByCallTerminated(run, handled, call)
        ELSE handled

\* The connection id of a call that is no participant goes first.
CallTerminated(run, c, call) ==
    OnIndividualCallTerminated(
        run,
        [ReadsCurrentUser(c) EXCEPT
                  !.calls[call] = "TERMINATING",
                  !.known = IF IsConferenceParticipant(c, call)
                            THEN @ ELSE @ \ {call}],
        call)

ConferenceTerminated(run, c) ==
    LET ended == [ReadsCurrentUser(c) EXCEPT !.conference = "TERMINATING",
                           !.known = {call \in @ :
                                        ~IsConferenceParticipant(c, call)}]
        recovered == Recover(run, ended)
        leave == [Op("UNSUBSCRIBE", NoUser) EXCEPT !.delayed = TRUE]
    IN  SendClosed(run, IF recovered.subscription.state = "ACTIVE"
                   THEN PutStandAlone(run, recovered, leave)
                   ELSE recovered)

(***************************************************************************)
(* The operations.                                                         *)
(***************************************************************************)
StartConferenceCall(run, c) ==
    CASE c.conference = "IDLE" /\ "StartConference" \in c.refused ->
            ConferenceTerminated(run, c)
      [] c.conference = "IDLE" /\ "StartConference" \notin c.refused ->
            [c EXCEPT !.conference = "OUTGOING"]
      [] OTHER -> c

\* The request goes out, or the interface refuses it.
SendSubscribe(s, refused) ==
    IF refused THEN s ELSE [s EXCEPT !.state = "SUBSCRIBING", !.waiting = TRUE]

\* A refused SUBSCRIBE calls Recover, which does nothing for it.
SubscribeConference(c) ==
    IF c.subscription # NoSubscription
    THEN c
    ELSE [c EXCEPT !.subscription = SendSubscribe(
            [state |-> "IDLE", interface |-> TRUE, waiting |-> FALSE,
             dialog |-> IF c.config.subscribe = "OUT_OF_DIALOG" THEN "OUT"
                        ELSE "IN",
             resubs |-> 0, sent |-> 0],
            "Subscribe" \in c.refused)]

StopSubscription(c) ==
    IF c.subscription.state \in {"SUBSCRIBING", "ACTIVE"}
    THEN [c EXCEPT !.subscription.state = "UNSUBSCRIBING",
                   !.subscription.waiting = "Unsubscribe" \notin c.refused]
    ELSE c

\* REFERs of an earlier drop are forgotten; a rejected one is gone already.
ClearOngoingReferences(c) ==
    DropReferences(c, {r \in c.references : r.type = "BYE"})

\* A reference that could not be sent hears nothing and is left out.
SendRefer(c, p, type, sent) ==
    LET id == FreshReference(c) IN
    [UsesUser(c, p) EXCEPT
        !.references = IF sent
                       THEN @ \cup {[id |-> id, user |-> p, type |-> type,
                                     delivered |-> FALSE, heard |-> "NOTHING"]}
                       ELSE @,
        !.users[p].reference = IF sent THEN id ELSE NoReference]

Mut_UnsentUnrecovered(run, c, p) ==   \* mutant of InviteParticipants
    SendRefer(StopFinalSipfragWaitTimer(ClearOngoingReferences(c)), p,
              "INVITE",
              c.conference = "ESTABLISHED" /\ "ReferInvite" \notin c.refused)

InviteParticipants(run, c, p) ==
    LET ready == StopFinalSipfragWaitTimer(ClearOngoingReferences(c))
        sent == c.conference = "ESTABLISHED" /\ "ReferInvite" \notin c.refused
        sending == SendRefer(ready, p, "INVITE", sent)
    IN  IF sent THEN sending ELSE Recover(run, sending)

\* A REFER that cannot be sent is not recovered from.
RemoveParticipants(c, p) ==
    SendRefer(c, p, "BYE",
              c.conference = "ESTABLISHED" /\ "ReferBye" \notin c.refused)

CheckUserEntityConnected(run, c, p) ==
    IF InList(c, p) /\ IsConnected(c, p)
    THEN CompleteCurrentAndDoNextOperation(run, c, "CHECK_CONNECTED", NoUser)
    ELSE UsesUser(c, p)

NotifyCmdResult(run, c) ==
    LET told == CASE c.state = "MERGING" -> NotifyMergeResult(c)
                  [] c.state \in {"JOINING", "DROPPING"} ->
                        NotifyJoinOrDropResult(c)
                  [] OTHER -> c
    IN  [CompleteCurrentAndDoNextOperation(
            run, told, "NOTIFY_RESULT_TO_UI", NoUser) EXCEPT !.state = "IDLE"]

\* The hang-up reports back before it returns.
TerminateIndividualCall(run, c, p) ==
    LET call == c.users[p].call
        hungUp == IF call \in c.known /\ c.calls[call] = "ESTABLISHED"
                  THEN CallTerminated(
                            run, [c EXCEPT !.lost = @ \/ ~c.joined], call)
                  ELSE c
    IN  CompleteCurrentAndDoNextOperation(
            run, hungUp, "TERMINATE_1TO1_CALL", NoUser)

TerminateConference(run, c) ==
    CompleteCurrentAndDoNextOperation(
        run,
        IF c.conference = "TERMINATING" THEN c
        ELSE ConferenceTerminated(run, c),
        "TERMINATE_CONFERENCE", NoUser)

\* The operation at the head of the queue is begun.
BeginOperation(run, c) ==
    LET op == Head(c.queue) IN
    CASE op.type = "CREATE_CONFERENCE_CALL" -> StartConferenceCall(run, c)
      [] op.type = "SUBSCRIBE" -> SubscribeConference(c)
      [] op.type = "UNSUBSCRIBE" -> StopSubscription(c)
      [] op.type = "REFER_INVITE" -> InviteParticipants(run, c, op.user)
      [] op.type = "REFER_BYE" -> RemoveParticipants(c, op.user)
      [] op.type = "CHECK_CONNECTED" ->
            IF NotifyRequired(c) /\ c.subscription # NoSubscription
            THEN c ELSE CheckUserEntityConnected(run, c, op.user)
      [] op.type = "NOTIFY_RESULT_TO_UI" -> NotifyCmdResult(run, c)
      [] op.type = "TERMINATE_1TO1_CALL" ->
            TerminateIndividualCall(run, c, op.user)
      [] op.type = "TERMINATE_CONFERENCE" -> TerminateConference(run, c)
      [] op.type = "DESTROY_CONTROLLER" -> SendClosed(run, c)
      [] op.type = "NOTIFY_RESULT_TO_MTCCALL" ->
            CompleteCurrentAndDoNextOperation(
                run, c, "NOTIFY_RESULT_TO_MTCCALL", NoUser)

StartOperation(run, c) ==
    CASE c.queue = << >> \/ c.life = "ABORTED" -> c
      [] c.queue # << >> /\ c.life # "ABORTED" /\ Head(c.queue).delayed ->
            [c EXCEPT !.delayTimer = TRUE]
      [] OTHER -> BeginOperation(run, c)

\* Operations nested n deep.  Every one takes itself out of the queue before
\* it starts the next; hanging up a call and ending the conference may each
\* put one more into it.  So Nestings is never reached, which
\* NoDeletedUserUsed shows as well: a controller that gets there is aborted,
\* also where nothing surprising came.
NextOperations[n \in Nat] ==
    [c \in Controllers |->
        IF n = 0 THEN [c EXCEPT !.life = "ABORTED"]
        ELSE StartOperation(NextOperations[n - 1], c)]

Nestings(c) == 2 * Len(c.queue) + 4

DoNextOperation == [c \in Controllers |-> NextOperations[Nestings(c)][c]]

(***************************************************************************)
(* Steps.  A handler runs with the sends the environment refuses it: one   *)
(* kind at most.                                                           *)
(***************************************************************************)
\* The commands reach a controller the manager still has.
CommandIsGiven(n) ==
    /\ ctl.life = "OPEN"
    /\ ctl.commands <= MaxCommands[ctl.config]
    /\ ctl.added + n <= MaxParticipants
    /\ ctl.added + n <= 2 + MaxAdditions[ctl.config]

\* A refusal is tried only where the handler may come to the send.
MayBeSent(kind) ==
    CASE kind = "StartConference" -> ctl.conference = "IDLE"
      [] kind = "ReferInvite" ->
            \/ ctl.queue = << >> /\ CommandIsGiven(1)
            \/ \E i \in DOMAIN ctl.queue :
                   i > 1 /\ ctl.queue[i].type = "REFER_INVITE"
      [] OTHER -> TRUE

HandlesAfter(surprise, Handler(_, _)) ==
    /\ surprises' = surprises \cup surprise
    /\ ctl.life \notin {"ABORTED", "DESTROYED"}
    /\ \E refused \in {{}} \cup {{kind} : kind \in Faults[ctl.config] \cap SendKinds} :
          /\ \A kind \in refused : MayBeSent(kind)
          /\ ctl' = [Handler(DoNextOperation, [ctl EXCEPT !.refused = refused])
                        EXCEPT !.refused = {}]

Handles(Handler(_, _)) == HandlesAfter({}, Handler)

(***************************************************************************)
(* Commands of the user interface.                                         *)
(***************************************************************************)
IsReadyToPerformCmd(c) == c.state \in {"CREATED", "IDLE"}

Accept(c, state, command) ==
    [c EXCEPT !.state = state, !.command = command, !.commands = @ + 1]

\* A command that is turned down is answered at once.
TurnDown(c) == [c EXCEPT !.commands = @ + 1]

InviteOperations(c, p) ==
    <<Op("REFER_INVITE", p), Op("TERMINATE_1TO1_CALL", p)>>
        \o (IF NotifyRequired(c) THEN <<Op("CHECK_CONNECTED", p)>> ELSE << >>)

SubscribeOperation(c, wanted) ==
    IF SubscriptionRequired(c) /\ wanted
    THEN <<Op("SUBSCRIBE", NoUser)>> ELSE << >>

\* ReOrder puts the two calls in the order of the call manager: either one.
MergeFirst(run, c, first, second) ==
    LET added == AddUser(AddUser(c, first), second)
        p == c.added + 1
        accepted == Accept(added, "MERGING", "MERGE")
        operations ==
            IF c.config.referType = "COPYCONTROL"
            THEN <<Op("CREATE_CONFERENCE_CALL", NoUser),
                   Op("NOTIFY_RESULT_TO_UI", NoUser)>>
            ELSE <<Op("CREATE_CONFERENCE_CALL", NoUser)>>
                 \o SubscribeOperation(c, SubscriptionFirst(c))
                 \o InviteOperations(c, p) \o InviteOperations(c, p + 1)
                 \o <<Op("NOTIFY_RESULT_TO_UI", NoUser)>>
                 \o SubscribeOperation(c, ~SubscriptionFirst(c))
                 \o <<Op("NOTIFY_RESULT_TO_MTCCALL", NoUser)>>
    IN  SetAddingOperationSetCompleted(run, PutSet(accepted, operations))

\* Without a REFER an additional merge has nothing to do.
MergeAnother(run, c, call) ==
    LET accepted == Accept(AddUser(c, call), "MERGING", "MERGE")
        operations == InviteOperations(c, c.added + 1)
                      \o <<Op("NOTIFY_RESULT_TO_UI", NoUser),
                           Op("NOTIFY_RESULT_TO_MTCCALL", NoUser)>>
    IN  IF c.config.referType = "COPYCONTROL"
        THEN accepted
        ELSE SetAddingOperationSetCompleted(run, PutSet(accepted, operations))

Mergeable(call) == call \in ctl.known /\ ctl.calls[call] = "ESTABLISHED"

ProcessMerge ==
    /\ CommandIsGiven(2)
    /\ ctl.state = "CREATED"
    /\ \E first, second \in Calls :
          /\ first # second /\ Mergeable(first) /\ Mergeable(second)
          /\ Handles(LAMBDA run, c : MergeFirst(run, c, first, second))

\* One call is not enough for a conference.
ProcessMergeOfOne ==
    /\ CommandIsGiven(0)
    /\ ctl.state = "CREATED"
    /\ Handles(LAMBDA run, c : SendClosed(run, TurnDown(c)))

ProcessAdditionalMerge ==
    /\ CommandIsGiven(1)
    /\ ctl.state # "CREATED"
    /\ \E call \in Calls :
          /\ Mergeable(call)
          /\ \A p \in ctl.list : ctl.users[p].call # call
          /\ Handles(LAMBDA run, c : IF IsReadyToPerformCmd(c)
                                THEN MergeAnother(run, c, call)
                                ELSE TurnDown(c))

\* The participant is in the list before the command is turned down.
Join(run, c) ==
    LET added == AddUser(c, NoCall)
        p == c.added + 1
        operations ==
            (IF c.config.referType = "REFER_SINGLE"
             THEN <<Op("REFER_INVITE", p)>> ELSE << >>)
            \o (IF c.config.referSub THEN << >>
                ELSE <<Op("NOTIFY_RESULT_TO_UI", NoUser)>>)
    IN  IF IsReadyToPerformCmd(c)
        THEN SetAddingOperationSetCompleted(
                run, PutSet(Accept(added, "JOINING", "JOIN"), operations))
        ELSE NotifyUsersInfo(TurnDown(added))

ProcessJoin ==
    /\ CommandIsGiven(1)
    /\ ctl.state # "CREATED"
    /\ Handles(Join)

Drop(run, c, p) ==
    IF IsReadyToPerformCmd(c)
    THEN SetAddingOperationSetCompleted(
            run,
            PutSet(Accept(c, "DROPPING", "DROP"),
                   <<Op("REFER_BYE", p), Op("NOTIFY_RESULT_TO_UI", NoUser)>>))
    ELSE NotifyUsersInfo(TurnDown(c))

ProcessDrop ==
    /\ CommandIsGiven(0)
    /\ ctl.state # "CREATED"
    /\ \E p \in ctl.list :
          HandlesAfter(IF IsConnectedOrConnecting(ctl, p) THEN {}
                       ELSE {"DROP_OF_GONE"},
                       LAMBDA run, c : Drop(run, c, p))

(***************************************************************************)
(* Calls report their states.                                              *)
(***************************************************************************)
ConferenceEstablished ==
    /\ ctl.conference = "OUTGOING"
    /\ Handles(LAMBDA run, c :
          CompleteCurrentAndDoNextOperation(
              run, [c EXCEPT !.conference = "ESTABLISHED"],
              "CREATE_CONFERENCE_CALL", NoUser))

ConferenceEnds ==
    /\ ctl.conference \in {"OUTGOING", "ESTABLISHED"}
    /\ Handles(ConferenceTerminated)

IndividualCallEnds(call) ==
    /\ ctl.calls[call] = "ESTABLISHED"
    /\ Handles(LAMBDA run, c : CallTerminated(run, c, call))

(***************************************************************************)
(* References.                                                             *)
(***************************************************************************)
Becomes(c, r, q) == [c EXCEPT !.references = (@ \ {r}) \cup {q}]

\* A REFER that was answered with success.
OnReferenceStarted(run, c, r) ==
    LET user == UserOfReference(c, r) IN
    CASE r.type = "BYE" ->
            CompleteCurrentAndDoNextOperation(
                run, SetStatus(c, user, "DISCONNECTED"), "REFER_BYE", user)
      [] r.type = "INVITE" /\ c.state = "JOINING" ->
            CompleteCurrentAndDoNextOperation(
                run, c, "REFER_INVITE",
                IF c.config.referSub THEN user ELSE NoUser)
      [] OTHER -> c

\* The participant of a rejected REFER leaves the list, whatever Recover did.
OnReferenceStartFailed(run, c, r) ==
    LET stopped == StopFinalSipfragWaitTimer(c)
        handled ==
            IF r.type = "BYE"
            THEN [ClearQueue(NotifyJoinOrDropResult(stopped))
                    EXCEPT !.state = "IDLE"]
            ELSE LET recovered == Recover(run, stopped) IN
                 RemoveUsers(recovered, {UserOfReference(recovered, r)})
    IN  DropReferences(handled, {r})

\* A provisional code is 100 or another one, a success is 200 or another one.
Provisional == {"100", "1XX"}
FinalSuccess == {"200", "2XX"}
SipfragCodes == Provisional \cup FinalSuccess \cup {"FAILURE", "INVALID"}

\* Only 200 makes the participant of an INVITE a connected one.
UpdateUserStatusByReferResult(c, r, code) ==
    LET user == UserOfReference(c, r) IN
    CASE code = "100" /\ r.type = "INVITE" -> SetStatus(c, user, "CONNECTING")
      [] code = "200" /\ r.type = "INVITE" -> SetStatus(c, user, "CONNECTED")
      [] code = "200" /\ r.type = "BYE"    -> SetStatus(c, user, "DISCONNECTED")
      [] OTHER -> c

\* History: who accepted an invitation with any success has joined.
Joins(c, r, code) ==
    [c EXCEPT !.joined = @ \/ (r.type = "INVITE" /\ code \in FinalSuccess)]

\* Any sipfrag ends a drop; a final one ends an invitation.
OnReferenceUpdated(run, c, r, code, terminated) ==
    LET user == UserOfReference(c, r)
        updated == UpdateUserStatusByReferResult(Joins(c, r, code), r, code)
        handled ==
            CASE r.type = "BYE" ->
                    CompleteCurrentAndDoNextOperation(
                        run, updated, "REFER_BYE", user)
              [] r.type = "INVITE" /\ code \in FinalSuccess ->
                    CompleteCurrentAndDoNextOperation(
                        run, StopFinalSipfragWaitTimer(updated),
                        "REFER_INVITE", user)
              [] r.type = "INVITE" /\ code = "FAILURE" ->
                    Recover(run, StopFinalSipfragWaitTimer(updated))
              [] r.type = "INVITE" /\ code \in Provisional ->
                    CheckNStartFinalSipfragWaitTimer(updated, FALSE)
              [] OTHER -> updated
    IN  IF terminated THEN DropReferences(handled, {r}) ELSE handled

\* An outcome of a REFER for a BYE whose participant is gone, or has been sent
\* another one, ends the drop in progress, whoever that is about.
LateBye(r) ==
    IF /\ r.type = "BYE" /\ UserOfReference(ctl, r) = NoUser
       /\ TypeOfCurrentOperation(ctl) = "REFER_BYE"
    THEN {"LATE_BYE"} ELSE {}

\* A rejected one is reported as the result of a command in any case.
LateFailure(r) ==
    (IF r.type = "BYE" /\ UserOfReference(ctl, r) = NoUser
     THEN {"LATE_BYE"} ELSE {})
    \cup (IF r.heard # "NOTHING" THEN {"LATE_FAILURE"} ELSE {})

ReferenceDelivered ==
    \E r \in ctl.references :
        /\ ~r.delivered
        /\ LET q == [r EXCEPT !.delivered = TRUE] IN
           HandlesAfter(LateBye(r), LAMBDA run, c :
               OnReferenceStarted(run, Becomes(c, r, q), q))

ReferenceDeliveryFailed ==
    \E r \in ctl.references :
        /\ ~r.delivered
        /\ HandlesAfter(LateFailure(r), LAMBDA run, c :
               OnReferenceStartFailed(run, c, r))

\* A notification may overtake the response.  The final one may say that it
\* ends the subscription of the REFER, or leave that to the timer of it.
ReferenceNotify ==
    /\ ctl.config.referSub
    /\ \E r \in ctl.references, code \in SipfragCodes \ {"INVALID"},
          terminated \in BOOLEAN :
          LET q == [r EXCEPT !.heard = IF code \in Provisional
                                   THEN "PROVISIONAL" ELSE "FINAL"]
          IN
          /\ r.heard # "FINAL"
          /\ terminated => code \notin Provisional
          /\ HandlesAfter(LateBye(r), LAMBDA run, c :
                OnReferenceUpdated(run, Becomes(c, r, q), q, code, terminated))

ReferenceTerminated ==
    /\ ctl.config.referSub
    /\ \E r \in ctl.references :
          /\ r.delivered
          /\ r.heard = "FINAL" \/ "NoOutcome" \in Faults[ctl.config]
          /\ HandlesAfter(LateBye(r), LAMBDA run, c :
                OnReferenceUpdated(run, c, r, "INVALID", TRUE))

(***************************************************************************)
(* The subscription.                                                       *)
(***************************************************************************)
Release(c) == [c EXCEPT !.subscription.interface = FALSE,
                        !.subscription.waiting = FALSE]

\* OnSubscriptionUpdated(FAILED): the next operation may run before the
\* subscription is deleted.
OnSubscriptionFailed(run, c) ==
    [CompleteCurrentAndDoNextOperation(run, c, "SUBSCRIBE", NoUser)
        EXCEPT !.subscription = NoSubscription]

OnSubscriptionSucceeded(run, c) ==
    IF NotifyRequired(c) THEN c
    ELSE CompleteCurrentAndDoNextOperation(run, c, "SUBSCRIBE", NoUser)

OnUnsubscribed(run, c) ==
    CompleteCurrentAndDoNextOperation(run, c, "UNSUBSCRIBE", NoUser)

Started(run, c) ==
    LET answered == [c EXCEPT !.subscription.waiting = FALSE] IN
    CASE c.subscription.state = "SUBSCRIBING" ->
            OnSubscriptionSucceeded(
                run, [answered EXCEPT !.subscription.state = "ACTIVE"])
      [] c.subscription.state = "UNSUBSCRIBING" ->
            OnUnsubscribed(run, [answered EXCEPT !.subscription.state = "IDLE"])
      [] OTHER -> answered

SubscribeFailures == {"NoResponse", "403", "423", "OTHER"}

\* Neither 403 nor 423 looks at the outcome of its new SUBSCRIBE.
SubscribeAgain(c, dialog) ==
    LET sent == SendSubscribe([c.subscription EXCEPT !.dialog = dialog,
                                                     !.interface = TRUE,
                                                     !.waiting = FALSE],
                              "Subscribe" \in c.refused)
    IN  [c EXCEPT !.subscription = sent]

StartFailed(run, c, failure) ==
    LET s == c.subscription IN
    CASE failure = "NoResponse" -> [c EXCEPT !.subscription.waiting = FALSE]
      [] failure # "NoResponse" /\ s.state = "UNSUBSCRIBING" ->
            OnUnsubscribed(run, Release(c))
      [] failure = "403" /\ s.state # "UNSUBSCRIBING" /\ s.dialog = "OUT" ->
            SubscribeAgain(c, "FALLBACK")
      [] failure = "423" /\ s.state # "UNSUBSCRIBING" ->
            SubscribeAgain(c, s.dialog)
      [] OTHER -> OnSubscriptionFailed(run, Release(c))

OnSubscriptionTerminated(run, c) ==
    PutStandAlone(
        run,
        OnUnsubscribed(run, [c EXCEPT !.subscription.state = "IDLE",
                                      !.subscription.waiting = FALSE]),
        Op("TERMINATE_CONFERENCE", NoUser))

OnNotifyReceived(run, c) ==
    LET notified == IF NotifyRequired(c)
                    THEN CompleteCurrentAndDoNextOperation(
                            run, c, "SUBSCRIBE", NoUser)
                    ELSE c
        alone == IF Remaining(notified) = {}
                 THEN PutStandAlone(run, notified,
                                    Op("TERMINATE_CONFERENCE", NoUser))
                 ELSE notified
    IN  IF notified.list = {}
        THEN notified
        ELSE CompleteCurrentAndDoNextOperation(
                run, NotifyUsersInfo(alone), "CHECK_CONNECTED", NoUser)

\* What one participant of the event package may become: somebody who was
\* disconnected stays so, and nobody is disconnected who was never named.
InfoOf(user, status) ==
    /\ (status = "DISCONNECTED") => user.infoUpdated
    /\ (user.status = "DISCONNECTED") => status = "DISCONNECTED"

IsNamed(c, p) == \E i \in DOMAIN c.queue : c.queue[i].user = p

EarlyLeave(p, status) ==
    IF status = "DISCONNECTED" /\ IsNamed(ctl, p) THEN {"EARLY_LEAVE"} ELSE {}

UpdateParticipant(c, p, status) ==
    [SetStatus(c, p, status) EXCEPT !.users[p].infoUpdated = TRUE]

\* The counter is raised in the arguments of a trace.
ReSubscribe(run, c) ==
    LET s == c.subscription
        count == IF c.config.trace THEN s.resubs + 1 ELSE s.resubs
        tried == [c EXCEPT !.subscription.resubs = count]
    IN  IF /\ count <= MAX_RESUBS_COUNT
           /\ s.interface /\ "Subscribe" \notin c.refused
        THEN [tried EXCEPT !.subscription.state = "SUBSCRIBING",
                           !.subscription.waiting = TRUE,
                           !.subscription.sent = @ + 1]
        ELSE OnSubscriptionFailed(run, Release(tried))

SubscriptionStarted ==
    /\ ctl.subscription # NoSubscription
    /\ ctl.subscription.waiting
    /\ Handles(Started)

SubscriptionStartFailed ==
    /\ ctl.subscription # NoSubscription
    /\ ctl.subscription.waiting
    /\ \E failure \in SubscribeFailures :
          /\ failure = "NoResponse" => failure \in Faults[ctl.config]
          /\ Handles(LAMBDA run, c : StartFailed(run, c, failure))

SubscriptionTerminated ==
    /\ ctl.subscription.state \in {"ACTIVE", "UNSUBSCRIBING"}
    /\ (TypeOfCurrentOperation(ctl) = "SUBSCRIBE") => "NoOutcome" \in Faults[ctl.config]
    /\ ctl.subscription.interface
    /\ Handles(OnSubscriptionTerminated)

\* Nobody, or one participant, changes in a notification.
SubscriptionNotify ==
    /\ ctl.subscription.state \in {"SUBSCRIBING", "ACTIVE"}
    /\ ctl.subscription.interface
    /\ \/ Handles(OnNotifyReceived)
       \/ \E p \in ctl.list, status \in Status :
             /\ InfoOf(ctl.users[p], status)
             /\ HandlesAfter(EarlyLeave(p, status), LAMBDA run, c :
                    OnNotifyReceived(run, UpdateParticipant(c, p, status)))

\* A version of the event package was missed.
SubscriptionNotifyOutOfOrder ==
    /\ ctl.subscription.state = "ACTIVE"
    /\ ctl.subscription.interface
    /\ "VersionGap" \in Faults[ctl.config]
    /\ ctl.subscription.sent <= MAX_RESUBS_COUNT
    /\ Handles(ReSubscribe)

(***************************************************************************)
(* Timers and the end.                                                     *)
(***************************************************************************)
FinalSipfragTimeout ==
    /\ ctl.sipfragTimer
    /\ Handles(LAMBDA run, c :
          Recover(run, [c EXCEPT !.sipfragTimer = FALSE]))

DelayTimeout ==
    /\ ctl.delayTimer
    /\ Handles(LAMBDA run, c :
          run[[c EXCEPT !.delayTimer = FALSE, !.queue[1].delayed = FALSE]])

\* The manager's own message deletes the controller and all it owns.
Destroy ==
    /\ ctl.life = "CLOSED"
    /\ ctl' = [NewController(ctl.config) EXCEPT !.life = "DESTROYED",
                                                !.calls = ctl.calls]
    /\ UNCHANGED surprises

Next ==
    \/ ProcessMerge \/ ProcessMergeOfOne \/ ProcessAdditionalMerge
    \/ ProcessJoin \/ ProcessDrop
    \/ ConferenceEstablished \/ ConferenceEnds
    \/ \E call \in Calls : IndividualCallEnds(call)
    \/ ReferenceDelivered \/ ReferenceDeliveryFailed
    \/ ReferenceNotify \/ ReferenceTerminated
    \/ SubscriptionStarted \/ SubscriptionStartFailed
    \/ SubscriptionTerminated \/ SubscriptionNotify
    \/ SubscriptionNotifyOutOfOrder
    \/ FinalSipfragTimeout \/ DelayTimeout \/ Destroy

Spec == Init /\ [][Next]_vars

(***************************************************************************)
(* Properties.                                                             *)
(***************************************************************************)
\* The values the controller and what it owns may take.
MergeTypeOK ==
    /\ ctl.config \in Configs
    /\ ctl.state \in ControllerStates
    /\ \A i \in DOMAIN ctl.queue : ctl.queue[i] \in Operation
    /\ ctl.list \subseteq 1 .. ctl.added
    /\ \A p \in Participants : ctl.users[p] \in Participant
    /\ ctl.references \subseteq Reference
    /\ ctl.subscription = NoSubscription \/ ctl.subscription \in Subscription
    /\ ctl.calls \in [Calls -> {"ESTABLISHED", "TERMINATING"}]
    /\ ctl.known \subseteq Calls
    /\ ctl.life \in {"OPEN", "CLOSED", "ABORTED", "DESTROYED"}
    /\ surprises \subseteq Surprises

\* The queue holds pointers to participants, and the list deletes them when
\* the user interface is told who is disconnected, when a REFER is rejected
\* and when a call of its own ends.  An operation reaches a participant that
\* is gone (GetUsersOfCurrentOperation, MergeController.cpp:263) only where
\* the code allows it: the event package reports that somebody left whom the
\* queue still names, a drop names somebody disconnected of whom the user
\* interface was not told, or a REFER is rejected after a notification of it.
NoDeletedUserUsed ==
    ctl.life = "ABORTED" =>
        {"EARLY_LEAVE", "DROP_OF_GONE", "LATE_FAILURE"} \cap surprises # {}

\* The user interface is told the result of a command once, and only of a
\* command it gave: recovery, NOTIFY_RESULT_TO_UI and a rejected drop exclude
\* each other (NotifyMergeFailed in MergeController.cpp:277, NotifyCmdResult).
\* An answer is one too many only where the drop in progress was ended by the
\* outcome of an earlier one (ConferenceController.cpp:231), or a REFER is
\* rejected after a notification of it.
AnsweredOnlyWhenAsked ==
    ctl.unasked => {"LATE_BYE", "LATE_FAILURE"} \cap surprises # {}

\* A merge that nobody has joined costs no call: the controller hangs up an
\* individual call only when somebody has joined the conference, in whichever
\* order REFERs are refused, notifications come, early, late or for somebody
\* who left, calls end and the final-sipfrag timer runs out
\* (RecoverOnReferring, MergeController.cpp:255).  Joined are a participant
\* that became STATUS_CONNECTED and one whose REFER was reported to be
\* accepted with any 2xx (ConferenceController.cpp:211), though no status says
\* so when that is not 200 (:647).
NoCallLost == ~ctl.lost

\* Something that ends the operation in progress can still come.  Without the
\* subscription of a REFER the end of a call does: it starts the timer.
HeadIsAwaited(c) ==
    /\ c.queue # << >>
    /\ LET op == Head(c.queue)
           s == c.subscription
           answering(type) ==
               \E r \in c.references :
                   /\ r.user = op.user /\ r.type = type
                   /\ \/ ~r.delivered
                      \/ c.config.referSub /\ r.heard # "FINAL"
       IN  CASE op.type = "CREATE_CONFERENCE_CALL" -> c.conference = "OUTGOING"
             [] op.type = "SUBSCRIBE" -> s.state = "SUBSCRIBING" /\ s.waiting
             [] op.type = "UNSUBSCRIBE" ->
                    \/ op.delayed /\ c.delayTimer
                    \/ s.state = "UNSUBSCRIBING" /\ s.interface
             [] op.type = "REFER_INVITE" ->
                    \/ c.sipfragTimer \/ answering("INVITE")
                    \/ /\ ~c.config.referSub
                       /\ \E call \in Calls : c.calls[call] = "ESTABLISHED"
             [] op.type = "REFER_BYE" -> answering("BYE")
             [] OTHER -> FALSE

\* Commands the code never answers: a join with a refer-subscription, whose
\* operations hold no answer, a merge into a conference made by a copied list,
\* and a merge without the subscription of a REFER once both calls have ended,
\* for the next REFER stops the timer that the end of a call started
\* (ConferenceController.cpp:715, MergeController.cpp:149).  With NOTIFY
\* awaited, see the hazards of CHECK_CONNECTED.
LeftUnanswered(c) ==
    \/ NotifyRequired(c)
    \/ c.command = "JOIN" /\ c.config.referSub
    \/ c.config.referType = "COPYCONTROL" /\ c.commands > 1
    \/ /\ c.command = "MERGE" /\ ~c.config.referSub
       /\ \A call \in Calls : c.calls[call] # "ESTABLISHED"

\* A command is not forgotten: while it is unanswered the queue is at an
\* operation that a response, a notification or a timer still ends, or the end
\* of a call that starts the timer, whatever REFER was rejected, call hung up,
\* timer run out or operation completed early before
\* (CompleteCurrentAndDoNextOperation and every Clear of the queue).  It is
\* about the commands that LeftUnanswered does not name, and holds only as long
\* as no SUBSCRIBE, no UNSUBSCRIBE and no REFER for a BYE fails to be sent, every
\* SUBSCRIBE is answered and every subscription that ends was notified before,
\* and no version of the event package is missed with another command to come:
\* the code recovers from none of these (of the REFER, see the comment
\* "recovery" at ConferenceController.cpp:773).
CommandIsAwaited ==
    ctl.command # "NONE" /\ ctl.life = "OPEN" /\ ~LeftUnanswered(ctl)
        => HeadIsAwaited(ctl)

\* A subscription whose notifications come out of order is renewed at most
\* MAX_RESUBS_COUNT times (ConferenceSubscription.h:70).
ReSubscriptionsBounded ==
    ctl.subscription # NoSubscription =>
        ctl.subscription.sent <= MAX_RESUBS_COUNT
=============================================================================
