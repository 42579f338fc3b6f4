# Formal verification of ImsStack

ImsStack is an IMS protocol stack for Android: a native part (C++,
`src/native/libimsstack`) with a SIP stack, a session engine and the IMS
services (calls, SMS, capabilities, registration), and a Java part
(`src/java`) that connects it to Android telephony. This directory holds TLA+
models of its core, the TLC configurations that check them on small instances,
and proofs that TLAPS checks for every value of the constants.

Paths below are relative to `src/native/libimsstack` unless they start with
`java`.

## 1. Inventory

The native part is single-threaded per SIM slot: sockets, timers and messages
from other threads are events of one message loop, and every handler runs to
completion. What makes it hard is therefore not shared memory but the order of
events: timers that expire beside messages that were lost, repeated or
reordered; calls out of a layer that fail half-way; and callbacks into a user
who calls back.

### SIP transactions (`protocol/sip`)

| part | state it keeps | operations | what makes it correct |
|---|---|---|---|
| transaction object, `txn/SipTxn.cpp` | state, timer identifier, four counters of the retransmission series, the last message sent, user data, two flags | start and stop the timer, timer callback, record a message, abort | one timer at most; no timer without object; the series of intervals ends exactly when Timer B, F or H says |
| INVITE client, `txn/SipInviteClientTxn.cpp` | the object; a global list of keys with the last RSeq per to-tag | send INVITE, receive 1xx/2xx/failure, Timers A, B, D, M | one outcome for the user; ACK for every failure response; reliable provisional responses in order, per fork |
| INVITE server, `txn/SipInviteServerTxn.cpp` | the object; the key of the response whose PRACK is awaited | receive INVITE, ACK; send 1xx, reliable 1xx, 2xx, failure; Timers G, H, I, L | responses repeated until acknowledged; PRACK matched; ACK absorbed; both timeouts exact |
| non-INVITE client, `txn/SipNonInviteClientTxn.cpp` | the object | send request, receive responses, Timers E, F, K | an outcome in any case; silence after it |
| non-INVITE server, `txn/SipNonInviteServerTxn.cpp` | the object | receive request (a PRACK also touches the INVITE server), send responses, Timer J | repeated requests get the last response |
| handler and stack manager, `txn/SipTxnHandler.cpp`, `SipStackManager.cpp` | none of their own | `SendMsg`, `OnRecvMessage`, `TerminateTxn`, `OnRecvTranspError`, timer callback: they drive a state machine and then send what it decided | what was decided, what was sent and what is recorded for retransmission agree also when sending fails |
| transport, `transport/SipTransportHandler.cpp` | none | Via handling, choice of destination, matching of responses | header processing, not modelled |

Every call into the stack is: match the message to an object by key, run one
row of the state table, send or resend, record, tell the user. The calls out
(`StartTimer`, `OnSendTransp`, `SendToNetwork`) may fail at each point.

### The engine (`engine`)

* `sipcore`: one object per transaction above the stack
  (`SipClientTransactionState`, `SipServerTransactionState`), the pool of
  transactions (`SipStackState`), dialogs with CSeq and RSeq counters and route
  sets (`SipDialogState`), forked transactions, sockets
  (`SipClientTransport`), IPsec. The stack calls back through
  `SipTransactionCallback`. Hard: protocol switching and resending after an
  error, forked dialogs, counters after a failed send. Correct when CSeq grows,
  a response reaches the connection that sent the request, and no object is
  used after its transaction is gone.
* `core`: sessions (`Session`, `SessionEx`), offer and answer (`SdpOaState`),
  reliable provisional responses (`ReliableProvResponseHelper`), session refresh
  (`SessionRefreshHelper`), subscriptions, publications, references, page
  messages. Hard: re-INVITE glare, UPDATE against re-INVITE, deferred
  termination, 2xx retransmission against ACK, BYE or a second INVITE, offers
  that cross. Correct when each request of the application gets one
  notification, media follow the last complete exchange, and a session that is
  being ended ends.
* `registration`: registrations, bindings, the reg-event subscription.
* `service`: routing of requests to services by trigger points.

### The enablers (`enabler`)

* `aos`: when to register, with which P-CSCF, when to retry, block or give up.
  `AosApplication` is the state of the access to IMS as the services see it,
  `AosRegistration` decides when a REGISTER is sent, `AosConnector` is the data
  connection, `AosTransaction` shares one start of the radio among the traffic
  of registration, subscription and de-registration. Reports go up by message,
  commands go down by call. Hard: retry timers, the engine's refresh timer, the
  radio's answer, blocks and the end of calls all start the same request, and
  whatever is held back lives on in flags. Correct when a registration that
  says it is trying has a request under way, one that is held back goes on, and
  the radio is released.
* `mtc`: calls (a state pattern in `call/state`), QoS preconditions,
  conferences, emergency, transfer, USSI. A conference is a
  `ConferenceController` with an operation queue, a list of participants, one
  reference (REFER) per participant and a subscription to the conference event
  package. Hard: a handler that completes an operation runs the next ones,
  which may fail, recover, delete participants and clear the queue before it
  goes on. Correct when a command is answered once, no call is given up for
  nothing and no deleted participant is reached.
* `mts` (SMS), `uce` (capabilities), `media` (codec negotiation).

### Platform, JNI and Java

`platform` adapts the operating system and holds `RetryTimer` and
`RetryTaskHelper`, a small state machine for repeated commands; `jni` marshals;
`config` holds tables. `java/src/com/android/imsstack` has the Android agents
(APN state, location, configuration), the Java half of every enabler and the
`ImsService`.

`PROJECT.json` lists every component with its status and the hazards of the
code with their lines.

## 2. Modules

| module | lines of code it models | with |
|---|---|---|
| `SipTxn` | `txn/SipTxn.cpp`: the object, its timer, the accounting | no variables; operators from record to record |
| `SipTxnContract` | abstract: what a client transaction promises its user | one variable, `user` |
| `SipRSeq` | the numbers of reliable provisional responses, which both INVITE transactions compare | the bound `MaxRSeq` |
| `SipInviteClientTxn` | `txn/SipInviteClientTxn.cpp` and the stack code around it | `cli`, `keys`, `sent`, `tu`, `seen` |
| `SipInviteServerTxn` | `txn/SipInviteServerTxn.cpp`, the same stack code, and what a PRACK does (`txn/SipNonInviteServerTxn.cpp`) | `srv`, `tp`, `rkeys`, `reply`, `out`, `ok`, `stu`, `rseq`, `pracked`, `up`, `told` |
| `SipNonInviteClientTxn` | `txn/SipNonInviteClientTxn.cpp` and the stack code | `req`, `rsent`, `ru` |
| `SipNonInviteServerTxn` | `txn/SipNonInviteServerTxn.cpp` and the stack code | `ans`, `atp`, `asent`, `aout`, `au` |
| `SipInviteTxnNet` | an INVITE client and the server of its peer | the two modules, `toSrv`, `toCli` |
| `SipNonInviteTxnNet` | a non-INVITE client and the server of its peer | the two modules, `net` |
| `SessionCallee` | the called side of `engine/core/Session.cpp` and `SessionEx.cpp`, with `CallState`, the rows of `SdpOaState` it uses, `RetryTimer` and `RetryTaskHelper` | `s`, `peer`, `again` |
| `ConferenceMerge` | `enabler/mtc/conferencecall`: `ConferenceController`, `MergeController`, `ConferenceOperationQueue`, `ConferenceParticipantList`, `ConferenceReference`, `ConferenceSubscription` | `ctl`, `surprises` |
| `AosTransaction` | `enabler/aos/provider/AosTransaction.cpp` | no variables |
| `AosRegistration` | `enabler/aos/registration/AosRegistration.cpp`: handlers, timers, what holds a transaction back | no variables |
| `AosApplication` | `enabler/aos/app/AosApplication.cpp`, the message queue, the engine's `Registration` as the two use it, and the actors around them | `aos` |
| `SipTxnProofs`, `SipInviteClientProofs`, `SipInviteServerProofs`, `SipInviteTxnNetProofs`, `SipNonInviteTxnNetProofs` | lemmas and theorems about the operators, the four transactions and the two networks (both non-INVITE transactions together with their network) | |
| `SessionCalleeProofs` | lemmas and theorems about the session | |
| `ConferenceMergeProofs` | lemmas and theorems about the conference controller | |
| `AosProofs` | lemmas and theorems about the access to IMS: application, registration, traffic and queue | |
| `MC*` | the instances TLC checks | |

### How the modules correspond to the code

One action is one call into the stack, from the lookup of the object to the
last thing the call does before it returns: an action `OnRecvMessage(m)` is
`SipStackManager::OnRecvMessage` with `SipTxnHandler::OnRecvMessage`, the row
of the state table, what the manager then sends or resends, and the
notification of the user. Handlers keep their C++ names
(`CallingState_Timer_A_B_Timeout`, `HandleFinalResponse`, ...). Rows that the
table maps to `HandleInvalidStateEvent` are left out where nothing can trigger
them and written as an action that changes nothing where a message can.

A record of shape `Txn` is the object: `timer` is the type of the timer
`m_pvTimerId` denotes, `running` counts the timers the platform runs for this
object. The two differ when a handler overwrites the identifier; that they do
not is a property. `cur`, `max`, `expired` and `count` are the four fields of
the accounting. `elapsed` is a history: the time the timers of the series have
really run, which the code never computes and the accounting must agree with.
`ud` says whether the user data still lead to the user; without them
`SendToNetwork` finds no transport.

The code's error paths are alternatives of the actions, switched on by the
constant `Faults`:

| fault | code |
|---|---|
| `timer` | `StartTimer` of the platform returns null |
| `transp` | `OnSendTransp` fails, the handler calls `OnSendTranspError` |
| `net` | `SendToNetwork` fails after the state machine has moved |
| `ack` | no ACK can be built from the INVITE |
| `transpErr` | the transport reports an error for a message that was sent |

Responses are records: a class of code, a to-tag (of several user agents when
the INVITE forks) and an RSeq. `keys` and `rkeys` are the part of
`s_txnKeyList` that belongs to the call.

The transaction user is modelled as the engine uses the stack: it sends one
request, answers once, sends one reliable provisional response at a time
(`SessionEx::SendRpr`), repeats a 2xx until its ACK arrives or a send fails
(`Session::ExecuteCmd`), and may abort at any moment. The two `Net` modules
keep every message that was ever sent in a set, from which any may be received
at any time, any number of times or never: loss, repetition, delay and
reordering in one.

### The session module

`SessionCallee` starts where the application has been told of an incoming
INVITE. The record `s` holds the fields of `Session` that decide what it does:
`m_nState`, the call state, the offer/answer state, `m_bTerminatePending`, the
flag that delays requests, the connections of `SESSION_START` and
`SESSION_UPDATE`, the retry task with the tracker of its timer, the queue of
messages posted to itself, and the listener calls already made. Three fields
are histories: the requests without a final response, the INVITEs answered by a
2xx, and those whose 2xx made an offer. `peer` is the environment. A handler is
an operator from a session to the set of its outcomes, one for each way its
sends may end (`Faults`: `respond`, `bye`, `retransmit`); an action is one
event of the message loop: a call of the application, a request as it leaves
the transaction layer, an expiry of the retry timer, the dispatch of a message.

The peer keeps the rules of RFC 3261 and 3264 (one INVITE and one offer at a
time) but what it sends may overtake: an ACK may come after the re-INVITE,
UPDATE, CANCEL or BYE sent after it, or never. The application answers what it
was told of and may call `Terminate()` at any time. What the server transaction
of the INVITE does with a request sits in between, and the module takes from
`SipInviteServerTxn` that an ACK is handed on once and that the ACK of a
failure response is not handed on.

`CallState` is followed up to the BYE, after which no handler of the called
side reads it. That an offer cannot be used (`HandleSdpOfferAnswer`) is a
choice.

### The conference module

`ctl` is the controller with all it owns: the state of `ConferenceController`,
the operation queue (its head is the operation in progress), the participants,
the references, the subscription with its version counter, the timers, the
individual calls and the conference call, and the command of the user interface
that waits for its answer. A participant is a number, because the controller
copies every `ConfUser` it is given; a deleted one keeps nothing, and a handler
that reaches it through a pointer in the queue ends in the life `ABORTED`.
`unasked` and `lost` are histories: an answer nobody had asked for, and a call
that was hung up although nobody had joined.

`surprises` is a history as well: which of four things have come that the code
does not reckon with. None of them is a fault that a run could leave out; they
may happen in every run and at any time, and the properties name those they do
not survive:

| surprise | what came |
|---|---|
| `LATE_BYE` | a response or notification to the REFER of a drop whose participant is gone, or has been sent another one, when it ends the drop in progress or reports a failure |
| `LATE_FAILURE` | the rejection of a REFER that was notified of before |
| `EARLY_LEAVE` | a report of the event package that somebody left whom the queue still names |
| `DROP_OF_GONE` | a drop of a participant that is disconnected already |

A sipfrag is one of six codes: 100 or another provisional one, 200 or another
success, a failure, or none at all. Any success completes an invitation
(`ConferenceController.cpp:211`), 200 alone makes the participant connected
(`:647`).

A handler is an operator from controller to controller that contains what it
calls: `DoNextOperation` runs the next operation, which may complete at once
and run the next; hanging up a call reports back before it returns. In the code
this is a recursion through a dozen functions. Here each of them takes the
function it calls for the next operation, `run`, as an argument, and
`NextOperations[n]` is that function for operations nested at most n deep, each
level given the one below. `DoNextOperation` nests twice as deep as the queue is
long, and four more: every nesting takes one operation out of the queue and
only hanging up a call and ending the conference put one into it, so that the
last level, which ends in the life `ABORTED`, is not reached
(`NoDeletedUserUsed`, wherever nothing surprising has come). The list of
participants is a set: who was added later has a higher number.

`ctl.config` is the carrier configuration (when the REFERs go out, whether they
are subscriptions, whether the result waits for the event package, ...), chosen
once from the combinations in `MCConferenceMerge`. For each of them `Faults`
names the sends a handler may be refused, at most one kind per handler, and
whether a SUBSCRIBE may go unanswered, a version of the event package be missed, and a subscription
end before the notification the queue waits for.

### The registration modules

All objects run on one thread with one queue of messages; calls between them
are direct. `aos` holds the application, the registration, the engine's
registration, the traffic and the queue. The fields have the names of the
members (`heldByCall` is `m_bIsTransactionHeldByCall`, `started`
`m_bIsTransactionStarted`, `pending` the `PENDING_*` bits, and so on). A handler is
an operator from record to record; one that returns a result leaves it in
`ok`. What the code learns only from the environment (a request refused before
it is sent, another P-CSCF in the list, Retry-After in the response) is
`luck`, chosen with the handler and forgotten after it.

The engine is a slice: created, first REGISTER, active, ended, one request at a
time, a refresh timer at half of the expiration and at the rest, and the
messages it posts to its listener, which are dropped with it. The connector,
the conditions, calls and services are what the code here is told of them.

## 3. Runs

`tlc -config X.cfg M` checks the run of configuration `X` (module names are in
`PROJECT.json`).

| run | question | distinct states |
|---|---|---|
| `invite_client` | one timer at most and every waiting state has it, the timeout exact, the contract kept, no key leaks, reliable responses in order per fork, every wait ends | 2,977 |
| `invite_server` | both timeouts (64 T1 for a reliable response, Timer H for a failure) exact, whatever series ran before; a PRACK reaches the user | 10,210 |
| `non_invite_net` | a request and its peer: exact timeout, silence after the outcome, the contract kept, an outcome in any case, the client never ahead of the server | 2,022 |
| `invite_net_lossy` | the two users agree on the outcome; reliable responses in lockstep; an answered server transaction ends | 27,837 |
| `session` | no INVITE without an answer or an owner, the retry task sends the right response and ends with its ACK, offers are closed, delayed requests are handled, the end is reported and the waits end, in every order of three INVITEs, an UPDATE, CANCEL, BYE, ACKs and `Terminate()` | 832,029 |
| `conference_merge` | two calls merged under seven configurations of carriers, and up to two commands afterwards, with outcomes of REFERs that come early, late or for somebody who left: a deleted participant is reached only where the code allows it, commands are answered once, no call is lost for nothing, no command is forgotten | 2,464,173 |
| `aos_registration` | the access to IMS with three requests, blocks, calls, denials or lost connections: the radio is released, what is held back goes on, what is trying has its request | 1,527,010 |
| `invite_server_rpr_flag`, `session_terminate_pending`, `session_update_before_ack`, `conference_untraced`, `aos_retry_lost` | findings, section 5 | |

### Bounds

* *Timer values.* Only their ratios matter, since time enters only through the
  accounting. The non-INVITE client is checked with the default ratios of
  `SipTimerValues` (T2 = 8 T1, F = 64 T1). A reliable provisional response
  always has the default 64 T1. Elsewhere the values are chosen so that the
  series has several full intervals and a last one that is cut (B = 5 and 9 T1;
  H = 9 T1 with T2 = 4 T1, so that the cap is reached). Where a property is
  proved, the proof covers every value.
* *RSeq* up to 2 or 3: enough for new, repeated, old and skipped numbers.
* *Two to-tags*: two forked agents that are treated alike, hence symmetry.
  The network module has one to-tag because it models one peer.
* *One transaction* per client and server. Transactions share only the key
  list, whose part that a call owns is modelled.
* `Faults` differ between runs. A liveness property, or one on the coverage of
  a state by its timer, cannot hold if timers cannot be started, and the code
  does not claim it; those runs leave `timer` out. That types and timeouts of
  the client transactions are also right with `timer` and `ack` is proved.
  `RprLockstep`, `NoLeakedKeys` and `RprPending` also leave `ack` out:
  `HandleFailureResponse` deletes the keys before it may fail and stay in
  PROCEEDING, and then an old reliable response counts as new.
* *The session* has three INVITEs where nothing fails, since some orders need
  an ACK late by two (a stray ACK that carried an answer, see section 4), two
  where sends may fail (the model chooses at the start), one UPDATE and one
  `Terminate()`. Two intervals of the retransmission give an interim expiry and
  the final one. `OfferIsOpen` and `NoInviteForgotten` speak of the behaviours
  without faults: when the response that rejects a request cannot be sent, the
  code closes the connection, forgets the request and leaves the offer open
  (`Session.cpp:977`), and both are false.
* *The conference* has two calls (a symmetry) and three participants. What may
  follow the merge, and what may fail, depends on the configuration
  (`MCMaxCommands`, `MCMaxAdditions`, `MCFaults`):

  | configuration | after the merge | fails |
  |---|---|---|
  | `Alone`: R-NOTIFY, no event package | two commands: drops, a join or a merge of one more call | the REFER of an invitation |
  | `ReferFirst`: the event package, asked for after the answer | one drop | the same |
  | `ReferFirstOut`: the same, with a dialog of its own | nothing | the same; a version of the event package is missed |
  | `Default`, `NotifyFirst`: the event package first | nothing | the same; the start of the conference, in `Default` |
  | `Unnotified`, `Copied`: no R-NOTIFY, no REFER for a merge | one command of any kind | the same |

  Two commands are enough for the outcome of one drop to come during the next,
  and for a participant that is rejected, leaves, and is merged again or dropped
  while the outcomes of earlier REFERs are still out. Each of the four surprises
  occurs, and each of the exceptions that `NoDeletedUserUsed` and
  `AnsweredOnlyWhenAsked` name is needed: without any one of them the run fails.
  `MAX_RESUBS_COUNT` is 1 in place of 3 here, and 3 in `conference_untraced`.
  The other faults (`Subscribe`, `Unsubscribe`, `ReferBye`, `NoResponse`,
  `NoOutcome`), and `VersionGap` where a command follows, are left out because
  the code does not recover from them: `CommandIsAwaited` says so in its comment
  and section 5 names the cases. Of the other properties, types, calls and
  answers are proved with every fault, and `NoDeletedUserUsed` is checked with
  the faults of the table.
* *The registration* has three events from outside in any combination, two
  requests refused before sending, one restart of a failed creation and two
  services' requests in the queue. The engine, the radio and the timers go on
  as long as they like, so the state space is finite without a bound on time.

Deadlock is not checked in these runs: a transaction that has ended stops.

### Fairness

`FairSpec` and its siblings assume weak fairness of the timer callback alone:
`OS_TIMER` delivers the expiry of a running timer through the message loop, so
a timer that is not stopped expires. For the session it assumes that the retry
timer expires, that posted messages are dispatched, and that a BYE ends in a
response or a timeout (`RequestResolved` of the transaction below). Nothing is assumed of the network, the
peer or the user: no liveness property depends on a message arriving.

The conference and the registration are checked without fairness. That they do
not get stuck is stated on states instead: `CommandIsAwaited`, `HeldGoesOn` and
`TryingHasRequest` say that wherever something is owed, the event that will
bring it is under way. A response, a timer or the radio's answer may take as
long as it likes.

## 4. What the properties say

* *Timers*: `TypeOK` and its siblings hold the number of platform timers of an
  object to the one its identifier denotes; `TimerCoversState` that a waiting
  state has the timer that ends it. Whether a handler stops the old timer before
  it starts the next one is decided path by path in the code.
* *Accounting*: `TimeoutExact`, `RprTimeoutExact`, `AckTimeoutExact`,
  `ReqTimeoutExact`. The first interval is counted when it has run and the
  others when they start; the series still ends on the tick.
* *What the user sees*: `ImplementsContract`, `ReqImplementsContract`,
  `PrackReachesUser`, `OutcomeAgreed`, `ClientBehindServer`.
* *What the network sees*: `QuietAfterOutcome`, `RprPending`.
* *The key list*: `RprInOrder`, `NoLeakedKeys`, `RprLockstep`. `RprInOrder`
  speaks of every response the user is given: `given` counts them, so that one
  that is given twice is noticed although it changes nothing else.
* *The session and its requests*: `NoInviteForgotten`, `OfferIsOpen`,
  `RetransmitsItsOwn`, `AckEndsRetransmission`. `ExecuteCmd` chooses the
  connection by the state of the session at the moment of the expiry, not by
  the INVITE the task was started for; that it never sends another INVITE's
  response rests on the connections being closed in time and on
  `SipServerConnection::Send`, which refuses to send a failure response again.
  `OfferIsOpen` has an exception found by the checker: the ACK with the answer
  to an offer is ignored as stray when another re-INVITE has overtaken it, and
  the offer/answer state then stays at `CHANGE_SENT`.
* *The session and its application*: `EndIsReported`, `DelayedHandled`.
* *The conference*: `NoDeletedUserUsed`, `AnsweredOnlyWhenAsked`, `NoCallLost`,
  `CommandIsAwaited`. The first three are about what a handler does after it
  has called something that ran half a dozen others; the last one is the
  queue's progress: while the user interface waits, the head of the queue is an
  operation that a response, a notification, a timer, or the end of a call that
  starts the timer still ends. An answered REFER counts only if it has a
  subscription whose final notification is to come. `LeftUnanswered` names the
  commands the code never answers. The exceptions of the first two are named by
  `surprises`: a deleted participant is reached only after `EARLY_LEAVE`,
  `DROP_OF_GONE` or `LATE_FAILURE`, an answer is one too many only after
  `LATE_BYE` or `LATE_FAILURE`. `NoCallLost` has none; it counts as joined
  whoever was connected or was reported to have accepted with any 2xx.
* *The registration*: `StartedIsCurrent` (a cached conjunction of four
  conditions that ten handlers change), `TryingHasRequest`, `HeldGoesOn`,
  `UpdateIsKept`, `RadioReleased`. `StartedIsCurrent` leaves DEREGISTERING out:
  `PrepareTrafficForDeregister` sets one of the conditions without the cache.
* *Progress*: `AckWaitEnds`, `UserNotLeftWaiting`, `AnsweredEnds`,
  `RequestResolved`.

## 5. Findings

* `FailureRetransmitted` (`invite_server_rpr_flag`). After a reliable
  provisional response has timed out, a flag stays set for the life of the
  object. The failure response that ends the call restarts Timer G as it
  should, but the flag makes the callback return before it sends anything.
* `TerminateGoesAhead` (`session_terminate_pending`). `Terminate()` before the
  ACK stops the 2xx retransmission and waits for the ACK; with the task gone
  nothing ends that wait when the ACK is lost, and no BYE is sent.
* `EstablishedIsTold` (`session_update_before_ack`). An UPDATE that overtakes
  the ACK and is accepted before it leaves an established session whose start
  was never reported.
* `ReSubscriptionsBounded` (`conference_untraced`). The counter of
  re-subscriptions is raised inside the arguments of a trace macro, which
  evaluates them only when that trace level is on. Without traces the limit of
  `ConferenceSubscription.h` never takes effect.
* `RestoredAfterTimer` (`aos_retry_lost`). When the registration expires while
  a retry waits for its timer, it is taken down without a report, since the
  timer will bring it back; taking it down stops that timer. The registration
  stays OFFLINE and the application believes it registered or trying.

Seen while modelling, and in the models, without a run of their own. In the
transactions and the session:

* When sending the first ACK of a failure response fails, the object is
  COMPLETED but its record still holds the INVITE; every copy of the failure
  response is then answered with the INVITE (`SipStackManager.cpp:392`).
* When a final response cannot be sent over UDP the record keeps the
  provisional one, which then answers what is repeated
  (`SipStackManager.cpp:109`).
* A transport error ends an INVITE transaction without deleting the keys of its
  reliable provisional responses (`txn/SipTxnHandler.cpp:267`).
* A 2xx that the session repeats after Timer L reaches the network, but
  `SendMsg` reports a failure, and the session takes it for one
  (`SipStackManager.cpp:141`).
* `Terminate()` of an unanswered session sends a failure response and waits in
  TERMINATING for an ACK that the transaction layer keeps: `SessionTerminated`
  never comes (`Session.cpp:7189`).
* While an ACK is overtaken by a re-INVITE the call state lags behind, and the
  CANCEL of the unanswered re-INVITE is taken for one that came after the 2xx
  (`Session.cpp:3261`).
* An UPDATE without SDP that arrives while an UPDATE with an offer waits for
  the application is neither refused nor held, and never answered
  (`SessionEx.cpp:1190`).
* An INVITE whose ACK does not come is reported as `START_FAILED`, and a later
  ACK or re-INVITE may still report `STARTED`; `Accept()` of an UPDATE enters
  ESTABLISHED at once, where `ISession.h:65` speaks of REESTABLISHING.

In the conference (`enabler/mtc/conferencecall`):

* The outcome of an earlier drop ends the drop in progress (`LATE_BYE`),
  although a comment takes the test for the operation in progress to exclude
  that (`ConferenceController.cpp:230`): the earlier REFER finds no participant,
  and completing for nobody completes whatever drop is at the head. When the
  REFER of that one is then rejected the user interface is answered twice.
* The result of `SendBye` is ignored (`ConferenceController.cpp:771`, where a
  comment says "recovery"): with the fault `ReferBye` the drop stays at the head
  of the queue, and every later command is turned down (`MergeController.cpp:181`).
* Without the subscription of a REFER a merge goes on when the final-sipfrag
  timer expires, which the end of an individual call starts. The next REFER
  stops it (`ConferenceController.cpp:715`, `MergeController.cpp:149`); when both
  calls have ended before, nothing starts it again (`LeftUnanswered`).
* A REFER that is rejected after it was notified of is answered to the user
  interface although the notification had let `NOTIFY_RESULT_TO_UI` run
  (`ConferenceController.cpp:177`; `LATE_FAILURE`).
* When the event package reports a participant gone that an operation still
  names (`EARLY_LEAVE`), the operation uses the deleted `ConfUser`
  (`MergeController.cpp:265`). So it does when the user drops a participant
  whose REFER could not be sent (`DROP_OF_GONE`): that one is disconnected
  without the user interface being told, and the next report of the event
  package deletes it while the queue holds its drop.
* A success sipfrag other than 200 completes the invitation and has the call of
  the participant hung up, but does not make it a connected one
  (`ConferenceController.cpp:211`, `:647`). When the next REFER fails, the merge
  is given up as one "before the first member joined" (`MergeController.cpp:274`).
* When the second participant's REFER is refused its call is hung up
  (`MergeController.cpp:346`), although the comment there speaks of keeping it.
* A join with a REFER subscription is never answered
  (`ConferenceController.cpp:412`), and a rejected one leaves its participant in
  the list (`:380`).
* The results of the new SUBSCRIBE after 403 and 423 are ignored
  (`ConferenceSubscription.cpp:412`, `:435`), and with the fault `Subscribe` the
  queue stays at an operation nothing ends. A subscription that fails without a
  message does the same (`ConferenceSubscription.cpp:122`, `NoResponse`), and so
  does one that ends without the notification that is waited for (`NoOutcome`).
* A re-SUBSCRIBE that fails deletes the subscription. When the conference has
  ended and its delayed UNSUBSCRIBE is at the head of the queue, nothing ends
  that operation, and a command given then is not answered (`VersionGap`).
* With COPYCONTROL a further merge leaves the controller MERGING
  (`MergeController.cpp:219`); a refused drop clears a DESTROY or UNSUBSCRIBE
  that was queued (`:186`).

In the registration (`enabler/aos`):

* `ProcessUpdateIpcan` unblocks without serving the pending start
  (`AosRegistration.cpp:3491`).
* When the radio denies access while a stop has been asked for, the
  registration begins anew in place of reporting its end, and the application
  stays in DISCONNECTING (`AosRegistration.cpp:6797`, `AosApplication.cpp:1899`).
  It stays there too when the registration expires during a de-registration in
  a call.
* `StartTraffic` within the second in which the radio is left on returns TRUE
  although the radio's answer is outstanding (`AosTransaction.cpp:199`).
* Some retries send the REGISTER without the REG traffic (`TryNextPcscf`,
  `ProcessReinitiate`, the end of a call), and PENDING_TRAFFIC in DEREGISTERING
  calls `Start()` (`AosRegistration.cpp:3609`).
* A SUCCESS queued before a stop makes the application clean up without a
  de-REGISTER (`AosApplication.cpp:1904`); one queued before a recovery makes it
  CONNECTED while it registers.

## 6. Proofs

`tlapm` checks eight modules. Assumptions on the constants: timer values are
positive and at most 2^29 - 1 ticks (`TimerAssumption`, below which no 32-bit
sum of the handlers wraps); Timer B, F and H are not shorter than T1
(`ClientTimerAssumption`, `RequestTimerAssumption`, `ServerTimerAssumption`);
Timer J is positive (`AnswerTimerAssumption`); `RSeqAssumption`; and
`FaultAssumption`, which allows every fault. Of the to-tags nothing is assumed
but, in the INVITE network, that the peer has one (`PeerAssumption`), of the session's bounds that they are
numbers (`SessionBoundsAssumption`): every fault may occur. The same holds of
the registration (`AosBounds`, `AosEvents`): `MaxQueue`, `MaxFaults` and
`MaxEvents` may be any numbers, so no theorem rests on how often something
happens. Of the conference (`ConfigsAssumption`, `FaultsAssumption`,
`BoundsAssumption`) it is assumed that its configurations and faults are among
those of the code and that there is room for two participants; how many calls,
participants and commands there are is open. Some
assumptions are hypotheses of single theorems: `HandlersComplete` (timers start
and ACKs can be built: no fault `timer` or `ack`) and `SrvCallsWork` (timers
start and sends succeed: no fault `timer` or `net`), the same as in the runs of
these properties. The theorems about the conference have no hypothesis.

| theorem | for every value of the constants |
|---|---|
| `ClientTypeCorrect`, `RequestTypeCorrect`, `ServerTypeCorrect` | types; in particular no timer is stopped twice |
| `ClientTimers`, `RequestTimers`, `ServerTimers`, `AnswerTimers` | at most one platform timer, and none without object; on the INVITE server, also none its state has no handler for |
| `ClientTimeoutExact`, `RequestTimeoutExact` | the user is told of a timeout at exactly Timer B or F |
| `ServerRprTimeoutExact`, `ServerAckTimeoutExact` | a missing PRACK is reported at exactly 64 T1, a missing ACK at exactly Timer H, whatever series ran before |
| `ClientSchedule` | the n-th retransmission leaves at (2^n - 1) T1, and the 32-bit shift does not overflow |
| `RequestIntervalCapped` | no interval above T2, a first one of T1 excepted |
| `RequestQuiet` | no retransmission after the outcome |
| `ClientImplementsContract`, `RequestImplementsContract` | every step is a step of `SipTxnContract` or a stutter |
| `ClientKeys` | no key is left behind, whatever fails, but by a transport error |
| `ClientRprInOrder`, `ClientTimerCovers` | with `HandlersComplete`: every reliable response that goes up is the first of its fork or follows the last one, and none goes up twice; a state that waits has the timer that ends it |
| `ServerPrackReachesUser` | the first PRACK of the last reliable response is never refused with a 481 |
| `ServerSpeaksForUser` | a final response on the network is the one the user decided on, and what would be repeated has been sent |
| `ServerRprPending` | with `SrvCallsWork`: in PROCEEDING, retransmission and the wait for the PRACK belong together |
| `NetIsClientAndServer`, `NetImplementsRequest` | joined by the network, each side behaves as on its own (the client, in the non-INVITE network) |
| `NetOutcomeAgreed`, `NetClientBehind` | the two users never hold opposite outcomes; the client of a request is never ahead of its server |
| `NetRprLockstep` | with `HandlersComplete`: the client's user is at most one reliable response behind |
| `NetTimeoutExact`, `NetQuiet`, `NetRprPending` | the theorems of one side, for the composition |
| `SessionInvariant`, `SessionTypeCorrect` | the inductive invariant of the called side, and its types |
| `InvitesAreKept` | if responses can be sent, an INVITE without a final response is on one of the two connections or in a delayed message: none is forgotten |
| `OffersAreClosed` | if responses can be sent, an offer counts as open only while something will close it, unless the next re-INVITE has overtaken the ACK |
| `EndsAreReported` | whoever ends the session, the application is told or about to be |
| `TaskSendsItsOwn` | the task sends the 2xx of the INVITE it was started for, though it picks the connection by the state |
| `NoRetransmissionAfterAck` | no 2xx is repeated after its ACK |
| `AosInvariant`, `AosTyped` | the inductive invariant of the access to IMS, and its types |
| `RadioIsAlwaysReleased` | the radio is on without traffic only while a timer will release it; the traffic of a de-registration has its timer |
| `StartedIsAlwaysCurrent` | `m_bIsTransactionStarted` says what its four conditions say, but while de-registering |
| `TryingAlwaysHasRequest` | a registration that says it is trying has a request under way, or the engine's word of it in the queue |
| `UpdateIsAlwaysKept` | an update asked for while a request is out is in the queue once the registration is at rest |
| `HeldAlwaysGoesOn` | a registration that waits has a timer, a message, or a condition with work remembered for its end |
| `ConferenceInvariant`, `MergeTypeCorrect` | the inductive invariant of the conference controller, and its types, whatever goes wrong |
| `CallsAreKept` | whatever fails or comes late, a call of its own is hung up only when somebody has joined the conference |
| `AnswersAreAskedFor` | whatever fails, a command is answered once and nothing else is, until `LATE_BYE` or `LATE_FAILURE` |

*The clients.* None of these properties is inductive alone. `TimeoutExact`
speaks of the moment of the timeout; to prove it one has to know, at every
moment before, how the accounting relates to the time that has passed, which
differs before and after the first interval; and for that, that a transaction
in CALLING has exactly the timer whose type matches the protocol on record. The
inductive invariants `Inv` (INVITE) and `ReqInv` (non-INVITE) are conjunctions
of named parts: the types, the link of state, timer and pool, the link of state
and what the user knows, and the accounting of the running series.
`SipTxnProofs` has one lemma for every operator of `SipTxn`; each handler has a
lemma that says what it makes of an object that satisfies the invariant; each
action one that puts the outcomes together. That 2^n stays below 2^31 follows
from `(2^n - 1) T1 <= Timer B`: an overflowing exponent would need a longer
Timer B than the assumption allows.

*The key list of the client.* `KeyInv`, that an object in CALLING or COMPLETED
has no keys, is inductive whatever fails. `OrderInv`, that in PROCEEDING the
list is exactly what the user was given, is not:
`HandleFailureResponse` deletes the keys before it may fail and stay in
PROCEEDING. Hence the hypothesis.

*The INVITE server.* Timer G runs for two series, the reliable provisional
response and the failure response, with different limits. `SrvInv` says which
of them the accounting belongs to: Timer G in PROCEEDING means a key whose
PRACK has not come; in COMPLETED it means UDP, and a failure response that
was sent is the one on record; the flag of a timed out reliable response means that user data no
longer lead to the user. With that, the same accounting lemmas as for the
client give both timeouts. `ServerPrackReachesUser` rests on a link of the key
list with the RSeq counter: if keys are left at all, the last RSeq is among them
or has been acknowledged. `SrvOutInv` and `RprInv` are proved on top of
`SrvInv`.

*The networks.* A step of the network is a step of one side, in which the other
stands still and the input is chosen from the messages in transit. So each side
refines its module, and its invariants are invariants of the network
(`NetIsClientAndServer`). What is left is that nothing in transit is ahead of
the side that sent it (`OutcomeInv`: a 2xx in transit is one the server sent,
and the same for failures and ACKs; `LockInv`: no response in transit has an
RSeq beyond the server's counter) and that the server of a request only goes
forward.

*The session.* None of its properties is inductive: whether an INVITE is
forgotten depends on the flag that delays requests, on the messages the session
posted to itself and on what is left of a `Terminate()` that had to wait. The
invariant says, state by state, which connection is open and which INVITE the
retransmission task belongs to: in ESTABLISHING the first one, in
REESTABLISHING the re-INVITE, elsewhere either none or a task that is left over,
whose next expiry finds no connection. Around that: at most one INVITE is open;
a delayed request waits once and is open; a `Terminate()` that waits means that
the task has been stopped; a BYE is sent at the end and only there. While a
handler has a request in hand the request is neither answered nor delayed,
so the lemmas of the handlers carry the request as a parameter (`Held`). An ACK
that was overtaken is told by the number of its INVITE, which is below the
current one. The handlers are operators to sets of outcomes; each has a lemma
that every outcome keeps the invariant, and each action one that joins them.

*The registration.* Five objects share one record and one queue, and most
properties fail to be inductive for the same reason: a handler that is right by
itself may meet a message posted for an earlier state. `Good`, the invariant
between two handlers, is a conjunction of named parts. `LinkInv` joins the
registration to its engine: what the engine is doing in each state
(`StateInv`); that a result in the queue precedes everything else the engine
says, is for the state the registration is in and comes from an engine that is
done (`ResultInv`); that the end of the engine is posted only by an engine that
has ended, or by one that a success has revived while the registration was
refreshing or offline (`EndInv`); that who is trying will be told (`TryingInv`);
and that a refresh timer left at its first half belongs to an engine that lives
(`RefreshInv`). `HeldInv` names what lets a waiting registration go on: the retry
timer, a condition that holds it back with work remembered, or a message that
makes the application set the connection up anew. `DownInv` says that an
application without access has no registration, so that it may drop the messages
queued before the connection went away. `RecoverInv`
confines the timer of the lost registration to OFFLINE.

In the middle of a handler `Good` does not hold. `Loose` leaves `HeldInv` out,
while what was held back is taken up; `Near` leaves `KeptInv` out, until
`CheckPending` posts the update; `Clean` is what `Destroy` leaves. Each operator
has a lemma that takes one of these to another, so the long ones
(`ProcessPendingTransaction`, `Registration_UpdateFailed`, `RadioAnswer`) are
proved by the lemmas of what they call. A handler that takes the first message
owes what that message had promised; `TakenGood` says which three messages
promise anything. That `DestroyEngine` removes exactly the engine's messages is
the one place that needs an induction, over the length of the queue; it is
obtained from the least number at which it would fail.

*The conference.* That no call is hung up for nothing is decided long before the
hang-up: when a REFER is refused, when the queue is cleared, when a notification
completes an operation. `ConferenceInv` has two parts. `Lasting` holds whatever
goes wrong: `Sound`, the types, which also says that whoever is named by the
queue, by a reference or by the list has been added, and all conjuncts below but
`ByeInv`. `OnTime` holds until the outcome of an earlier drop ends
another one or a failure comes too late: it is `ByeInv`, and that no answer has
come unasked. `Settled` is both, as a lemma about a part of a
handler sees them:

* `AskedInv`, `LastInv`: the operations of a command are in the queue only
  while it is unanswered, and the answer is the last of them. Two answers would
  need two `NOTIFY_RESULT_TO_UI`, or one after a recovery that cleared the queue.
* `HangUpInv`: a `TERMINATE_1TO1_CALL` follows the `REFER_INVITE` of its
  participant, and somebody has joined once it is at the head. So the
  invitation may be completed only by a success, whoever that is about, or by a
  recovery that has found somebody connected.
* `DelayInv`, `IdleInv`, `JoinedInv`, `NamesInv`: only an UNSUBSCRIBE is ever
  delayed; an idle controller has no command; who is connected is remembered to
  have been; references have names of their own.
* `ByeInv`: a REFER that removes a participant, and of which nothing was heard,
  is the operation in progress. If it is rejected the command it belongs to is
  therefore unanswered. A rejection after a notification (`LATE_FAILURE`) and a
  drop ended by the outcome of an earlier one (`LATE_BYE`) are the exceptions.

In the middle of a handler, where the next operation is about to begin, a little
more holds (`Ready`: no such REFER is out). Every operator has a lemma for
`Sound` and one for `Settled`. Those that begin the next operation are proved
for any `run` that takes a `Ready` controller to a `Settled` one (`SafeRun`);
`NextOperationsSound` and `NextOperationsSafe` then show by induction over the
depth of the nesting that `NextOperations[n]` is such a run. A handler that
ends by answering the command leaves it answered (`Kept`), whatever ran inside.

*Only model-checked*: liveness (the prover does not treat fairness), and
`NoDeletedUserUsed` and `CommandIsAwaited` of the conference. The second holds
only without the faults its comment names, the first would need that invariant
and one about every pointer in the queue; section 3 says for which configurations
and how many commands they were checked.

## 7. Not modelled

* Zero-length timers, for which `StartTimer` calls the handler at once.
* Reference counts and memory, allocation failures.
* The keys a CANCEL deletes while the INVITE waits; a PRACK or CANCEL of
  another dialog.
* The transport's header processing, and matching by key beyond the rule that a
  message belongs to the call.
* A copy of a request that arrives after its object has left the pool: it is a
  new request to the stack, and the dialog layer above has to tell.
* Of the session: the calling side, provisional responses and PRACK, `Update()`
  of the application, session refresh, REFER and INFO, forked sessions, the
  check of the request URI, media. The list of intervals that
  `Start2xxRetransmission` computes is abstracted to its length.
* Of the conference: group calls, expanding a call, the joined side, one REFER
  for several participants, the contents of the reports of individual calls
  when a merge fails, participants known only from the event package unless the
  subscription is by participant (off by default), more than one change of a
  participant in a notification. The delayed UNSUBSCRIBE is a timer that may
  expire at any moment; the default delay is 3 s
  (`ConferenceConfigurationHelper.cpp:90`).
* Of the registration: the types other than NORMAL, the retry policies other
  than that of RFC 5626, IPsec, the subscription to the reg event package,
  changes of the access network, of the configuration or of the P-CSCF, S-CSCF
  restoration, the error policies of single operators, a long wait after an RRC
  rejection, errors of the server socket, a stop held back by a call. The list
  of P-CSCFs is reduced to whether it has another one. The type of emergency
  traffic has a start of its own.
* Everything that `PROJECT.json` lists as `not_modelled`.

## 8. Plan

In this order; each step ends with its runs, and where it says so with proofs.

1. `SessionCaller`: the calling side (CANCEL against 200, forks, `Update()` and
   re-INVITE glare), then a composition of a caller and a callee over a network
   with the agreement of both ends as its property.
2. `RprHelper`: reliable provisional responses of `SessionEx` and
   `ReliableProvResponseHelper` above `SipInviteServerTxn`; early UPDATE.
3. `SdpOa`: the whole table of `SdpOaState` over INVITE, 18x, PRACK, UPDATE and
   ACK at two ends; an abstract offer/answer exchange it implements.
4. `SipDialog`: CSeq and RSeq counters, route set, forked dialogs
   (`SipDialogState`), and INVITE with CANCEL over one key list.
5. `MtcCall`: the call states against engine notifications, and the
   precondition table at both ends.
6. `MtsMessage`: retries and fallback of a message; `RetryTask`: `RetryTimer`
   and `RetryTaskHelper` whole.
