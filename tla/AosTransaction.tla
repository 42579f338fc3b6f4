--------------------------- MODULE AosTransaction ---------------------------
(***************************************************************************)
(* AosTransaction: the traffic of registration, subscription and           *)
(* de-registration shares one start of IMS traffic at the radio.  The      *)
(* first type to start asks the radio and waits for its answer, the others *)
(* join it, and the last to stop leaves the radio on for one second.       *)
(*                                                                         *)
(* An operation is an operator from a traffic record to a traffic record.  *)
(* The emergency type has a start of its own and is left out.              *)
(***************************************************************************)
EXTENDS Naturals

TrafficTypes == {"REG", "SUB", "DEREG"}

Traffic ==
    [traffics : SUBSET TrafficTypes,     \* started: m_objTraffics
     waiting : SUBSET TrafficTypes,      \* to be told of the radio's answer
     startUpdated : BOOLEAN,             \* the radio has been asked to start
     responseWaiting : BOOLEAN,          \* ... and the answer is awaited
     startType : TrafficTypes \cup {"NONE"},  \* the type that asked
     stopTimer : BOOLEAN,                \* TIME_STOP_DELAY is running
     asked : BOOLEAN]                    \* the radio has yet to answer

NoTraffic == [traffics |-> {}, waiting |-> {}, startUpdated |-> FALSE,
              responseWaiting |-> FALSE, startType |-> "NONE",
              stopTimer |-> FALSE, asked |-> FALSE]

\* ProcessTimerExpired: the radio forgets the start, and an answer that is on
\* its way finds nobody.
ReleaseRadio(t) ==
    IF t.startUpdated /\ t.traffics = {}
    THEN [t EXCEPT !.startUpdated = FALSE, !.asked = FALSE]
    ELSE t

\* What StartTraffic returns: the traffic may go ahead at once.
GoesAhead(t, type) ==
    \/ type \in t.traffics
    \/ t.startUpdated /\ (t.stopTimer \/ ~t.responseWaiting)

StartTraffic(t, type) ==
    LET u == [t EXCEPT !.traffics = @ \cup {type}] IN
    CASE type \in t.traffics -> t
      [] type \notin t.traffics /\ ~t.startUpdated ->
           [u EXCEPT !.startUpdated = TRUE, !.responseWaiting = TRUE,
                     !.startType = type, !.asked = TRUE]
      [] type \notin t.traffics /\ t.startUpdated /\ t.stopTimer ->
           [u EXCEPT !.stopTimer = FALSE]
      [] OTHER ->
           [u EXCEPT !.waiting = IF t.responseWaiting THEN @ \cup {type}
                                                      ELSE @]

\* De-registration leaves the radio at once, the others after a second.
StopTraffic(t, type) ==
    LET u == [t EXCEPT !.traffics = @ \ {type}, !.waiting = @ \ {type}]
        last == t.startUpdated /\ u.traffics = {} IN
    CASE type \notin t.traffics -> t
      [] type \in t.traffics /\ last /\ type = "DEREG" ->
           ReleaseRadio([u EXCEPT !.stopTimer = FALSE])
      [] type \in t.traffics /\ last /\ type # "DEREG" ->
           [u EXCEPT !.stopTimer = TRUE]
      [] OTHER -> u

StopTimerExpired(t) == ReleaseRadio([t EXCEPT !.stopTimer = FALSE])

\* After the listeners have been told the radio's answer.
AnswerTold(t) == [t EXCEPT !.waiting = {}, !.responseWaiting = FALSE]

\* The radio is never left on without traffic: someone will release it.
RadioIsReleased(t) == t.startUpdated /\ t.traffics = {} => t.stopTimer
=============================================================================
